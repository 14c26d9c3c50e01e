-------------------------- MODULE VirtualSinkProofs --------------------------
(***************************************************************************)
(* What a sender makes of PulseAudio, whatever earlier runs left there: for *)
(* every set of senders and sources, any number of loads and of kills.     *)
(***************************************************************************)
EXTENDS VirtualSink, TLAPS

----------------------------------------------------------------------------
(* Type correctness                                                        *)

LEMMA TypeEnv == TypeOK /\ UserPicksSource => TypeOK'
  BY SinkAssumption DEF TypeOK, UserPicksSource, proc

LEMMA TypeKill == ASSUME TypeOK, NEW s \in Senders, Kill(s) PROVE TypeOK'
<1>1. kills' \in 0..MaxKills
  BY SinkAssumption DEF TypeOK, Kill
<1>. QED BY <1>1 DEF TypeOK, Kill, Goto, pulse, Steps

LEMMA TypePulse ==
  ASSUME TypeOK, NEW id, NEW source \in Sources \cup {Monitor},
         UNCHANGED <<modules, loads, default>> \/ Unload(id) \/ SetDefault(source)
  PROVE  loads' = loads /\ modules' \subseteq 1..loads /\ default' \in Sources \cup {Monitor}
  BY DEF TypeOK, Unload, SetDefault

LEMMA TypeCreate == ASSUME TypeOK, NEW s \in Senders, Create(s) PROVE TypeOK'
<1>. USE DEF TypeOK, Goto, Upsets, Steps, proc, hist, pulse
<1>1. CASE CheckPactl(s)
  BY <1>1 DEF CheckPactl
<1>2. CASE ListModules(s)
  BY <1>2 DEF ListModules
<1>3. CASE UnloadOrphan(s)
  BY <1>3 DEF UnloadOrphan, Unload
<1>4. CASE QueryDefault(s)
  BY <1>4 DEF QueryDefault
<1>5. CASE LoadSink(s)
  <2>1. loads' \in 0..MaxLoads /\ 1..loads \subseteq 1..loads'
    BY <1>5, SinkAssumption DEF LoadSink
  <2>2. modules' \subseteq 1..loads' /\ mine' \in [Senders -> (1..loads') \cup {Nothing}]
    <3>1. CASE UNCHANGED <<modules, loads, mine>>
      BY <3>1
    <3>2. CASE loads' = loads + 1 /\ modules' = modules \cup {loads'}
      <4>1. loads' \in 1..loads'
        BY <3>2
      <4>. QED BY <1>5, <2>1, <3>2, <4>1 DEF LoadSink
    <3>. QED BY <1>5, <3>1, <3>2 DEF LoadSink
  <2>3. listed' \in [Senders -> SUBSET (1..loads')]
    BY <1>5, <2>1 DEF LoadSink
  <2>. QED BY <1>5, <2>1, <2>2, <2>3 DEF LoadSink
<1>6. CASE Route(s)
  BY <1>6 DEF Route, SetDefault
<1>. QED BY <1>1, <1>2, <1>3, <1>4, <1>5, <1>6 DEF Create

LEMMA TypeLeave == ASSUME TypeOK, NEW s \in Senders, Leave(s) PROVE TypeOK'
<1>. USE DEF TypeOK, Goto, Upsets, Steps, proc, hist, pulse
<1>1. CASE RunReturns(s)
  BY <1>1 DEF RunReturns
<1>2. CASE Restore(s)
  BY <1>2 DEF Restore, SetDefault
<1>3. CASE Remove(s)
  BY <1>3 DEF Remove, Unload
<1>. QED BY <1>1, <1>2, <1>3 DEF Leave

\* Ids, sources and places stay in their sets; in particular no module is ever
\* unloaded or owned that was not loaded.
THEOREM TypeCorrect == Spec => []TypeOK
<1>1. Init => TypeOK
  BY SinkAssumption DEF Init, TypeOK, Steps
<1>2. TypeOK /\ [Next]_vars => TypeOK'
  <2>. SUFFICES ASSUME TypeOK, [Next]_vars PROVE TypeOK'
    OBVIOUS
  <2>1. ASSUME NEW s \in Senders, Begin(s) PROVE TypeOK'
    BY <2>1 DEF TypeOK, Begin, Goto, Steps, pulse
  <2>2. CASE UNCHANGED vars
    BY <2>2 DEF TypeOK, vars, pulse, proc, hist
  <2>. QED BY <2>1, <2>2, TypeEnv, TypeKill, TypeCreate, TypeLeave DEF Next
<1>. QED BY <1>1, <1>2, PTL DEF Spec

----------------------------------------------------------------------------
(* One sender                                                              *)

\* A default source that is a monitor has its sink.
MonitorHasSink == default = Monitor => modules # {}

\* A run that nothing has upset is the only one.
Undisturbed(s) == ~upset[s] /\ pc[s] # "off"
Apart          == \A s \in Senders : Undisturbed(s) => Alone(s)

\* Until the sink is routed the default source is the one of the beginning,
\* unless that was a monitor; afterwards it is noted.
Kept(s)  == before[s] # Monitor => default = before[s]
Noted(s) == prev[s] \in Sources /\ (before[s] # Monitor => prev[s] = before[s])
Owns(s)  == modules = {mine[s]}

\* Where such a run has come to, step by step.
Progress(s) ==
    /\ pc[s] \in {"check", "list"} => Kept(s)
    /\ pc[s] = "unload" => modules = listed[s] /\ Kept(s)
    /\ pc[s] = "query" => modules = {} /\ Kept(s)
    /\ pc[s] = "load" => modules = {} /\ prev[s] = default /\ Noted(s)
    /\ pc[s] = "route" => Owns(s) /\ prev[s] = default /\ Noted(s)
    /\ pc[s] \in {"run", "restore"} => Owns(s) /\ default = Monitor /\ Noted(s)
    /\ pc[s] = "remove" => Owns(s) /\ default = prev[s] /\ Noted(s)

OnItsWay == \A s \in Senders : Undisturbed(s) => Progress(s)

SinkInv == MonitorHasSink /\ Apart /\ OnItsWay

LEMMA MonitorNext == TypeOK /\ MonitorHasSink /\ [Next]_vars => MonitorHasSink'
<1>. SUFFICES ASSUME TypeOK, MonitorHasSink, [Next]_vars PROVE MonitorHasSink'
  OBVIOUS
<1>. USE SinkAssumption DEF MonitorHasSink, TypeOK
<1>1. CASE UserPicksSource
  BY <1>1 DEF UserPicksSource
<1>2. ASSUME NEW s \in Senders, Begin(s) \/ Kill(s) \/ CheckPactl(s) \/ ListModules(s)
                                \/ QueryDefault(s) \/ RunReturns(s)
      PROVE  MonitorHasSink'
  BY <1>2 DEF Begin, Kill, CheckPactl, ListModules, QueryDefault, RunReturns, pulse
<1>3. ASSUME NEW s \in Senders, UnloadOrphan(s) \/ Remove(s) PROVE MonitorHasSink'
  BY <1>3 DEF UnloadOrphan, Remove, Unload, pulse
<1>4. ASSUME NEW s \in Senders, LoadSink(s) PROVE MonitorHasSink'
  BY <1>4 DEF LoadSink
<1>5. ASSUME NEW s \in Senders, Route(s) \/ Restore(s) PROVE MonitorHasSink'
  BY <1>5 DEF Route, Restore, SetDefault, pulse
<1>6. CASE UNCHANGED vars
  BY <1>6 DEF vars, pulse
<1>. QED BY <1>1, <1>2, <1>3, <1>4, <1>5, <1>6 DEF Next, Create, Leave

\* What a step of one sender can do to another's marks: upset it, if it begins.
LEMMA OthersStep ==
  ASSUME TypeOK, Apart, NEW s \in Senders, NEW t \in Senders, t # s, Undisturbed(s)',
         Begin(t) \/ Kill(t) \/ Create(t) \/ Leave(t)
  PROVE  FALSE
<1>1. ~Begin(t)
  BY DEF TypeOK, Undisturbed, Begin
<1>2. upset'[s] = upset[s] /\ pc'[s] = pc[s] /\ pc[t] # "off"
  BY <1>1 DEF TypeOK, Kill, Create, Leave, CheckPactl, ListModules, UnloadOrphan, QueryDefault,
     LoadSink, Route, RunReturns, Restore, Remove, Goto, Upsets, hist
<1>. QED BY <1>2 DEF Apart, Alone, Undisturbed

\* A sender's own steps.
LEMMA OwnApart ==
  ASSUME TypeOK, Apart, NEW s \in Senders, Undisturbed(s)',
         Begin(s) \/ Kill(s) \/ Create(s) \/ Leave(s)
  PROVE  Alone(s)'
<1>1. \A t \in Senders \ {s} : pc'[t] = pc[t]
  BY DEF TypeOK, Begin, Kill, Create, Leave, CheckPactl, ListModules, UnloadOrphan, QueryDefault,
     LoadSink, Route, RunReturns, Restore, Remove, Goto
<1>2. CASE Begin(s)
  BY <1>1, <1>2 DEF Begin, Alone, Undisturbed
<1>3. CASE Kill(s)
  BY <1>3 DEF TypeOK, Kill, Goto, Undisturbed
<1>4. CASE Create(s) \/ Leave(s)
  <2>1. Undisturbed(s)
    BY <1>4 DEF TypeOK, Undisturbed, Create, Leave, CheckPactl, ListModules, UnloadOrphan,
       QueryDefault, LoadSink, Route, RunReturns, Restore, Remove, Goto, Upsets, hist
  <2>. QED BY <1>1, <2>1 DEF Apart, Alone
<1>. QED BY <1>2, <1>3, <1>4

\* A step of try_create or Drop that upsets nothing goes on from where the run
\* had come to.
LEMMA OwnProgress ==
  ASSUME TypeOK, SinkInv, NEW s \in Senders, Undisturbed(s)',
         Begin(s) \/ Kill(s) \/ Create(s) \/ Leave(s)
  PROVE  Progress(s)'
<1>. USE SinkAssumption DEF TypeOK, Kept, Noted, Owns, Progress, Goto, pulse, proc, hist
<1>1. CASE Begin(s)
  BY <1>1 DEF Begin
<1>2. CASE Kill(s)
  BY <1>2 DEF Kill, Undisturbed
<1>3. CASE Create(s) \/ Leave(s)
  <2>1. Undisturbed(s)
    BY <1>3 DEF Undisturbed, Create, Leave, CheckPactl, ListModules,
       UnloadOrphan, QueryDefault, LoadSink, Route, RunReturns, Restore, Remove, Upsets
  <2>2. Progress(s) /\ ~upset'[s]
    BY <2>1 DEF SinkInv, OnItsWay, Undisturbed
  <2>. USE <2>2 DEF Upsets
  <2>3. CASE CheckPactl(s)
    BY <2>3 DEF CheckPactl
  <2>4. CASE ListModules(s)
    BY <2>4 DEF ListModules
  <2>5. CASE UnloadOrphan(s)
    BY <2>5 DEF UnloadOrphan, Unload
  <2>6. CASE QueryDefault(s)
    BY <2>6 DEF QueryDefault, SinkInv, MonitorHasSink
  <2>7. CASE LoadSink(s)
    BY <2>7 DEF LoadSink
  <2>8. CASE Route(s)
    BY <2>8 DEF Route, SetDefault
  <2>9. CASE RunReturns(s)
    BY <2>9 DEF RunReturns
  <2>10. CASE Restore(s)
    BY <2>10 DEF Restore, SetDefault
  <2>11. CASE Remove(s)
    BY <2>11 DEF Remove
  <2>. QED BY <1>3, <2>3, <2>4, <2>5, <2>6, <2>7, <2>8, <2>9, <2>10, <2>11 DEF Create, Leave
<1>. QED BY <1>1, <1>2, <1>3

LEMMA Invariance == Spec => []SinkInv
<1>1. Init => SinkInv
  BY SinkAssumption DEF Init, SinkInv, MonitorHasSink, Apart, OnItsWay, Undisturbed
<1>2. TypeOK /\ SinkInv /\ [Next]_vars => SinkInv'
  <2>. SUFFICES ASSUME TypeOK, SinkInv, [Next]_vars PROVE SinkInv'
    OBVIOUS
  <2>1. MonitorHasSink'
    BY MonitorNext DEF SinkInv
  <2>2. ASSUME NEW s \in Senders, Undisturbed(s)' PROVE Alone(s)' /\ Progress(s)'
    <3>1. ~UserPicksSource
      BY <2>2 DEF UserPicksSource, Undisturbed
    <3>2. CASE UNCHANGED vars
      <4>1. Undisturbed(s)
        BY <2>2, <3>2 DEF vars, hist, proc, Undisturbed
      <4>2. Alone(s) /\ Progress(s)
        BY <4>1 DEF SinkInv, Apart, OnItsWay
      <4>. QED BY <3>2, <4>2 DEF vars, pulse, proc, hist, Alone, Progress, Kept, Noted, Owns
    <3>3. CASE Begin(s) \/ Kill(s) \/ Create(s) \/ Leave(s)
      BY <2>2, <3>3, OwnApart, OwnProgress DEF SinkInv
    <3>4. ASSUME NEW t \in Senders, t # s, Begin(t) \/ Kill(t) \/ Create(t) \/ Leave(t)
          PROVE  FALSE
      BY <2>2, <3>4, OthersStep DEF SinkInv
    <3>. QED BY <3>1, <3>2, <3>3, <3>4 DEF Next
  <2>. QED BY <2>1, <2>2 DEF SinkInv, Apart, OnItsWay
<1>. QED BY <1>1, <1>2, TypeCorrect, PTL DEF Spec

\* However many orphans earlier runs left, and whichever of their calls failed,
\* a sender that is alone and whose own pactl calls worked captures from its own
\* sink, the only one.
THEOREM RunsOnOneSink == Spec => []OneSink
<1>1. SinkInv => OneSink
  BY DEF SinkInv, OnItsWay, Undisturbed, Progress, Owns, OneSink
<1>. QED BY <1>1, Invariance, PTL

\* The exit of such a sender unloads the last sink and gives the user's source
\* back.
THEOREM LeavesAsFound == Spec => LeavesNoTrace
<1>. DEFINE Trace(s) == Remove(s) /\ ~upset'[s] =>
              modules' = {} /\ default' \in Sources /\ (before[s] # Monitor => default' = before[s])
<1>1. TypeOK /\ SinkInv /\ [Next]_vars => [\A s \in Senders : Trace(s)]_vars
  <2>. SUFFICES ASSUME TypeOK, SinkInv, NEW s \in Senders, Remove(s), ~upset'[s]
                PROVE  modules' = {} /\ default' \in Sources
                       /\ (before[s] # Monitor => default' = before[s])
    OBVIOUS
  <2>1. Unload(mine[s]) /\ ~upset[s]
    BY DEF Remove, Upsets, TypeOK
  <2>2. Owns(s) /\ default = prev[s] /\ Noted(s)
    BY <2>1 DEF SinkInv, OnItsWay, Undisturbed, Progress, Remove
  <2>. QED BY <2>1, <2>2, SinkAssumption DEF Owns, Noted, Unload
<1>. QED BY <1>1, TypeCorrect, Invariance, PTL DEF Spec, LeavesNoTrace
=============================================================================
