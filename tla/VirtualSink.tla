----------------------------- MODULE VirtualSink -----------------------------
(***************************************************************************)
(* The virtual output of pc-sender on Linux                                *)
(* (src/pc-sender/src/virtual_sink.rs): try_create removes the null-sinks  *)
(* earlier runs left in PulseAudio, notes the default source, loads a      *)
(* null-sink and makes its monitor the default source; Drop puts both      *)
(* back. A run may be killed between any two pactl calls, and any pactl    *)
(* call may fail. PulseAudio and the user are the environment.             *)
(***************************************************************************)
EXTENDS Naturals, FiniteSets

CONSTANTS Senders,     (* the pc-sender processes of the session              *)
          Sources,     (* the real input devices                              *)
          Monitor,     (* rpi_camilla_bridge.monitor                          *)
          Nothing,     (* no source, and no module                            *)
          MaxLoads,    (* bound: null-sinks ever loaded                       *)
          MaxKills     (* bound: senders killed                               *)

ASSUME SinkAssumption ==
    /\ Monitor \notin Sources /\ Nothing \notin Sources \cup {Monitor}
    /\ Sources # {} /\ MaxLoads \in Nat /\ MaxKills \in Nat /\ Nothing \notin Nat

VARIABLES
    modules,   (* ids of the loaded null-sinks with the bridge's sink_name    *)
    loads,     (* how many were loaded so far: the next id is loads + 1       *)
    default,   (* PulseAudio's default source                                 *)
    pc,        (* pc[s]: where sender s is                                    *)
    listed,    (* listed[s]: the orphans of `pactl list modules` still to go  *)
    prev,      (* prev[s]: previous_default_source                            *)
    mine,      (* mine[s]: module_id                                          *)
    before,    (* before[s], history: the default source when s began         *)
    upset,     (* upset[s], history: since then a pactl call of s failed, the *)
               (* user chose another source, or another sender ran            *)
    kills

pulse == <<modules, loads, default>>
proc  == <<pc, listed, prev, mine>>
hist  == <<before, upset, kills>>
vars  == <<pulse, proc, hist>>

Steps == {"off", "check", "list", "unload", "query", "load", "route", "run", "restore", "remove", "plain"}

TypeOK ==
    /\ loads \in 0..MaxLoads /\ modules \subseteq 1..loads
    /\ default \in Sources \cup {Monitor}
    /\ pc \in [Senders -> Steps]
    /\ listed \in [Senders -> SUBSET (1..loads)]
    /\ prev \in [Senders -> Sources \cup {Monitor, Nothing}]
    /\ mine \in [Senders -> (1..loads) \cup {Nothing}]
    /\ before \in [Senders -> Sources \cup {Monitor}]
    /\ upset \in [Senders -> BOOLEAN] /\ kills \in 0..MaxKills

Init ==
    /\ modules = {} /\ loads = 0 /\ default \in Sources
    /\ pc = [s \in Senders |-> "off"] /\ listed = [s \in Senders |-> {}]
    /\ prev = [s \in Senders |-> Nothing] /\ mine = [s \in Senders |-> Nothing]
    /\ before = [s \in Senders |-> default] /\ kills = 0
    /\ upset = [s \in Senders |-> FALSE]

Goto(s, step) == pc' = [pc EXCEPT ![s] = step]
Upsets(s)     == upset' = [upset EXCEPT ![s] = TRUE]

----------------------------------------------------------------------------
(* PulseAudio                                                              *)

\* Unloading a null-sink: when the last one goes, a default source that was its
\* monitor falls back to some real input.
Unload(id) ==
    /\ id \in modules /\ modules' = modules \ {id}
    /\ IF default = Monitor /\ modules' = {} THEN default' \in Sources ELSE UNCHANGED default
    /\ UNCHANGED loads

\* A monitor exists only with its sink.
SetDefault(source) ==
    /\ source = Monitor => modules # {}
    /\ default' = source /\ UNCHANGED <<modules, loads>>

----------------------------------------------------------------------------
(* The environment                                                         *)

UserPicksSource ==
    /\ default' \in Sources \ {default}
    /\ upset' = [s \in Senders |-> TRUE]
    /\ UNCHANGED <<modules, loads, proc, before, kills>>

\* SIGKILL: no Drop.
Kill(s) ==
    /\ pc[s] # "off" /\ kills < MaxKills /\ kills' = kills + 1
    /\ Goto(s, "off")
    /\ listed' = [listed EXCEPT ![s] = {}]
    /\ prev' = [prev EXCEPT ![s] = Nothing] /\ mine' = [mine EXCEPT ![s] = Nothing]
    /\ UNCHANGED <<pulse, before, upset>>

----------------------------------------------------------------------------
(* try_create                                                              *)

Alone(s) == \A t \in Senders \ {s} : pc[t] = "off"

Begin(s) ==
    /\ pc[s] = "off" /\ Goto(s, "check")
    /\ before' = [before EXCEPT ![s] = default]
    /\ upset' = [t \in Senders |-> t # s \/ ~Alone(s)]
    /\ UNCHANGED <<pulse, listed, prev, mine, kills>>

\* which_pactl: without it there is no virtual output.
CheckPactl(s) ==
    /\ pc[s] = "check"
    /\ Goto(s, "list") \/ Goto(s, "plain")
    /\ UNCHANGED <<pulse, listed, prev, mine, hist>>

\* unload_orphans lists the modules: every null-sink of this sink_name, whoever
\* loaded it.
ListModules(s) ==
    /\ pc[s] = "list" /\ Goto(s, "unload")
    /\ \/ listed' = [listed EXCEPT ![s] = modules] /\ UNCHANGED upset
       \/ Upsets(s) /\ UNCHANGED listed
    /\ UNCHANGED <<pulse, prev, mine, before, kills>>

\* Mutant: the clean-up stops after the first orphan.
UnloadFirstOrphan(s) ==
    /\ pc[s] = "unload"
    /\ \/ /\ listed[s] = {} /\ Goto(s, "query") /\ UNCHANGED <<pulse, listed, upset>>
       \/ \E id \in listed[s] :
            /\ listed' = [listed EXCEPT ![s] = {}] /\ Goto(s, "query")
            /\ \/ Unload(id) /\ UNCHANGED upset
               \/ Upsets(s) /\ UNCHANGED pulse
    /\ UNCHANGED <<prev, mine, before, kills>>

\* One orphan after the other; the result of each unload is ignored.
UnloadOrphan(s) ==
    /\ pc[s] = "unload"
    /\ \/ /\ listed[s] = {} /\ Goto(s, "query") /\ UNCHANGED <<pulse, listed, upset>>
       \/ \E id \in listed[s] :
            /\ listed' = [listed EXCEPT ![s] = @ \ {id}] /\ UNCHANGED pc
            /\ \/ Unload(id) /\ UNCHANGED upset
               \/ Upsets(s) /\ UNCHANGED pulse
    /\ UNCHANGED <<prev, mine, before, kills>>

\* Mutant: the default source is noted after it was pointed at the monitor.
QueryTooLate(s) ==
    /\ pc[s] = "query" /\ Goto(s, "load")
    /\ prev' = [prev EXCEPT ![s] = Monitor]
    /\ UNCHANGED <<pulse, listed, mine, hist>>

\* get-default-source, where a failure counts as no previous source.
QueryDefault(s) ==
    /\ pc[s] = "query" /\ Goto(s, "load")
    /\ \/ prev' = [prev EXCEPT ![s] = default] /\ UNCHANGED upset
       \/ Upsets(s) /\ UNCHANGED prev
    /\ UNCHANGED <<pulse, listed, mine, before, kills>>

\* load-module. It may fail, or load and answer something that is no id: then
\* try_create returns an error and nobody owns the sink.
LoadSink(s) ==
    /\ pc[s] = "load"
    /\ \/ /\ loads < MaxLoads
          /\ loads' = loads + 1 /\ modules' = modules \cup {loads'}
          /\ \/ Goto(s, "route") /\ mine' = [mine EXCEPT ![s] = loads'] /\ UNCHANGED upset
             \/ Goto(s, "plain") /\ Upsets(s) /\ UNCHANGED mine
       \/ Goto(s, "plain") /\ Upsets(s) /\ UNCHANGED <<modules, loads, mine>>
    /\ UNCHANGED <<default, listed, prev, before, kills>>

\* set-default-source to the monitor; a failure is only logged.
Route(s) ==
    /\ pc[s] = "route" /\ Goto(s, "run")
    /\ \/ SetDefault(Monitor) /\ UNCHANGED upset
       \/ Upsets(s) /\ UNCHANGED pulse
    /\ UNCHANGED <<listed, prev, mine, before, kills>>

----------------------------------------------------------------------------
(* The end of run: Drop, when there is a handle                            *)

RunReturns(s) ==
    /\ \/ pc[s] = "run" /\ Goto(s, "restore")
       \/ pc[s] = "plain" /\ Goto(s, "off")
    /\ prev' = IF pc[s] = "plain" THEN [prev EXCEPT ![s] = Nothing] ELSE prev
    /\ UNCHANGED <<pulse, listed, mine, hist>>

\* Mutant: a missing previous source is not told from a source.
RestoreUnchecked(s) ==
    /\ pc[s] = "restore" /\ Goto(s, "remove")
    /\ \/ SetDefault(prev[s]) /\ UNCHANGED upset
       \/ Upsets(s) /\ UNCHANGED pulse
    /\ UNCHANGED <<listed, prev, mine, before, kills>>

\* set-default-source to what was noted, if anything was.
Restore(s) ==
    /\ pc[s] = "restore" /\ Goto(s, "remove")
    /\ \/ prev[s] # Nothing /\ SetDefault(prev[s]) /\ UNCHANGED upset
       \/ prev[s] # Nothing /\ Upsets(s) /\ UNCHANGED pulse
       \/ prev[s] = Nothing /\ UNCHANGED <<pulse, upset>>
    /\ UNCHANGED <<listed, prev, mine, before, kills>>

\* unload-module; it fails when pactl does, or when the module is gone.
Remove(s) ==
    /\ pc[s] = "remove" /\ Goto(s, "off")
    /\ \/ Unload(mine[s]) /\ UNCHANGED upset
       \/ Upsets(s) /\ UNCHANGED pulse
    /\ prev' = [prev EXCEPT ![s] = Nothing] /\ mine' = [mine EXCEPT ![s] = Nothing]
    /\ UNCHANGED <<listed, before, kills>>

----------------------------------------------------------------------------
Create(s) == CheckPactl(s) \/ ListModules(s) \/ UnloadOrphan(s) \/ QueryDefault(s) \/ LoadSink(s) \/ Route(s)
Leave(s)  == RunReturns(s) \/ Restore(s) \/ Remove(s)

Next == UserPicksSource \/ \E s \in Senders : Begin(s) \/ Kill(s) \/ Create(s) \/ Leave(s)

Spec == Init /\ [][Next]_vars

----------------------------------------------------------------------------
(* What must hold.                                                         *)

\* Whatever earlier runs left behind, kills and failed unloads included, a
\* sender that is the only one and whose pactl calls worked runs with one sink in
\* the Sound settings, its own, and captures from it (CHANGELOG: "Survives any
\* number of stacked orphans from previous crashed runs").
OneSink ==
    \A s \in Senders : pc[s] = "run" /\ ~upset[s] => modules = {mine[s]} /\ default = Monitor

\* Such a run, when it ends by itself, leaves PulseAudio as it found it, but for
\* the orphans it cleaned up: no sink, and the default source of before, unless
\* that was an orphan's monitor.
LeavesNoTrace ==
    [][\A s \in Senders : Remove(s) /\ ~upset'[s] =>
          modules' = {} /\ default' \in Sources /\ (before[s] # Monitor => default' = before[s])]_vars

\* "orphaned null-sinks left over from a previous run that crashed or was
\* SIGKILLed" (virtual_sink.rs, try_create) are what the clean-up removes: the
\* sink of a sender that is running stays until that sender removes it.
OrphansOnly ==
    [][\A s \in Senders : pc[s] = "run" /\ mine[s] \in modules => mine[s] \in modules']_vars
===============================================================================
