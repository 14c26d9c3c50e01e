----------------------------- MODULE PiReceiver -----------------------------
(***************************************************************************)
(* The pi-receiver daemon around its sessions: accept_loop and             *)
(* handle_session (src/pi-receiver/src/main.rs) and the websocket client   *)
(* that swaps CamillaDSP's configuration (camilla_ws.rs), with CamillaDSP, *)
(* the calling senders, the signal handler and systemd as environment.     *)
(*                                                                         *)
(* One connection is served at a time; the others wait in the listen       *)
(* backlog, and the sender behind a waiting connection may have gone long  *)
(* before it is accepted. The session itself is SessionContract: what      *)
(* PiSession, its three threads, is shown to implement.                    *)
(***************************************************************************)
EXTENDS Naturals, Sequences, FiniteSets

CONSTANTS Conns,        (* the connections made to the receiver            *)
          MaxCrashes    (* bound: kills of the receiver process            *)

ASSUME ReceiverAssumption == MaxCrashes \in Nat

VARIABLES
    pc,          (* where the daemon is                                    *)
    to,          (* the configuration the current or last swap goes to     *)
    cur,         (* the accepted connections being served: none or one     *)
    backlog,     (* connections waiting to be accepted, in order           *)
    alive,       (* connections whose sender is still there                *)
    good,        (* connections that send a valid header                   *)
    fresh,       (* connections not made yet                               *)
    stop,        (* the stop flag                                          *)
    late,        (* connections accepted after the flag was raised         *)
    ses, held, result,   (* the session, as its contract describes it      *)
    wedged,      (* a partial frame has wedged the writer (PiSession)      *)
    camilla,     (* CamillaDSP: "up", "down" (not running) or "frozen"     *)
    linked,      (* the swap's websocket is connected to this CamillaDSP   *)
    path,        (* the configuration file CamillaDSP would load           *)
    active,      (* the configuration it runs                              *)
    bridgeOk,    (* the bridge swap of this session was acknowledged       *)
    strayed,     (* the last idle swap was not acknowledged, or was missed *)
    crashes

Session == INSTANCE SessionContract

session == <<ses, held, result, wedged>>
callers == <<backlog, alive, good, fresh>>
dsp     == <<camilla, linked>>
cam     == <<path, active>>
told    == <<bridgeOk, strayed>>
vars    == <<pc, to, cur, callers, stop, late, session, dsp, cam, told, crashes>>

Configs == {"idle", "bridge"}

TypeOK ==
    /\ pc \in {"check", "accept", "header", "connect", "set", "reload", "session", "exit", "dead"}
    /\ to \in Configs
    /\ cur \subseteq Conns /\ Cardinality(cur) <= 1
    /\ backlog \in Seq(Conns)
    /\ alive \subseteq Conns /\ good \subseteq Conns /\ fresh \subseteq Conns
    /\ stop \in BOOLEAN /\ late \in Nat
    /\ ses \in {"opening", "running", "over"} /\ held \in BOOLEAN /\ wedged \in BOOLEAN
    /\ result \in {"none", "ok", "openErr", "spawnErr", "netErr", "alsaErr"}
    /\ camilla \in {"up", "down", "frozen"} /\ linked \in BOOLEAN
    /\ path \in Configs /\ active \in Configs
    /\ bridgeOk \in BOOLEAN /\ strayed \in BOOLEAN
    /\ crashes \in 0..MaxCrashes

Init ==
    /\ pc = "check" /\ to = "idle" /\ cur = {} /\ backlog = <<>>
    /\ alive = {} /\ good \in SUBSET Conns /\ fresh = Conns
    /\ stop = FALSE /\ late = 0
    /\ ses = "over" /\ held = FALSE /\ result = "none" /\ wedged = FALSE
    /\ camilla = "up" /\ linked = FALSE /\ path = "idle" /\ active = "idle"
    /\ bridgeOk = FALSE /\ strayed = FALSE
    /\ crashes = 0

----------------------------------------------------------------------------
(* The environment                                                         *)

Call(c) ==
    /\ c \in fresh /\ pc \notin {"exit", "dead"}
    /\ fresh' = fresh \ {c} /\ alive' = alive \cup {c}
    /\ backlog' = Append(backlog, c)
    /\ UNCHANGED <<pc, to, cur, good, stop, late, session, dsp, cam, told, crashes>>

HangUp(c) ==
    /\ c \in alive /\ alive' = alive \ {c}
    /\ UNCHANGED <<pc, to, cur, backlog, good, fresh, stop, late, session, dsp, cam, told, crashes>>

Stop ==
    /\ ~stop /\ pc \notin {"exit", "dead"} /\ stop' = TRUE
    /\ UNCHANGED <<pc, to, cur, callers, late, session, dsp, cam, told, crashes>>

\* It stops answering for a while, and goes on.
CamillaFreezes ==
    /\ camilla \in {"up", "frozen"}
    /\ camilla' = (IF camilla = "up" THEN "frozen" ELSE "up")
    /\ UNCHANGED <<pc, to, cur, callers, stop, late, session, linked, cam, told, crashes>>

\* It dies, and with it what it was told to run.
CamillaDies ==
    /\ camilla # "down" /\ camilla' = "down" /\ linked' = FALSE
    /\ bridgeOk' = FALSE /\ strayed' = TRUE
    /\ UNCHANGED <<pc, to, cur, callers, stop, late, session, cam, crashes>>

\* It starts again on a configuration of its own choice.
CamillaStarts ==
    /\ camilla = "down" /\ camilla' = "up"
    /\ path' \in Configs /\ active' = path'
    /\ UNCHANGED <<pc, to, cur, callers, stop, late, session, linked, told, crashes>>

\* SIGKILL or an abort: the kernel closes the sockets and the PCM. CamillaDSP
\* keeps the configuration it has.
Crash ==
    /\ pc \notin {"exit", "dead"} /\ crashes < MaxCrashes
    /\ crashes' = crashes + 1
    /\ pc' = "dead" /\ cur' = {} /\ backlog' = <<>>
    /\ ses' = "over" /\ held' = FALSE /\ result' = "none" /\ wedged' = FALSE
    /\ bridgeOk' = FALSE /\ linked' = FALSE
    /\ strayed' = (strayed \/ path # "idle" \/ active # "idle")
    /\ UNCHANGED <<to, alive, good, fresh, stop, late, camilla, cam>>

\* systemd starts a new process: accept_loop from the top, nothing recovered.
Restart ==
    /\ pc = "dead" /\ pc' = "check"
    /\ stop' = FALSE /\ late' = 0
    /\ UNCHANGED <<to, cur, callers, session, dsp, cam, told, crashes>>

----------------------------------------------------------------------------
(* accept_loop                                                             *)

\* The condition of the while loop.
CheckStop ==
    /\ pc = "check"
    /\ pc' = IF stop THEN "exit" ELSE "accept"
    /\ UNCHANGED <<to, cur, callers, stop, late, session, dsp, cam, told, crashes>>

\* Mutant: a caller is accepted while another one is being served.
AcceptDuringSession ==
    /\ pc \in {"accept", "session"} /\ backlog # <<>>
    /\ cur' = cur \cup {Head(backlog)} /\ backlog' = Tail(backlog)
    /\ pc' = "header"
    /\ late' = IF stop THEN late + 1 ELSE late
    /\ UNCHANGED <<to, alive, good, fresh, stop, session, dsp, cam, told, crashes>>

\* One caller at a time: the next one waits in the backlog.
Accept ==
    /\ pc = "accept" /\ backlog # <<>>
    /\ cur' = {Head(backlog)} /\ backlog' = Tail(backlog)
    /\ pc' = "header"
    /\ late' = IF stop THEN late + 1 ELSE late
    /\ UNCHANGED <<to, alive, good, fresh, stop, session, dsp, cam, told, crashes>>

\* Mutant: after an empty accept the flag is not looked at again.
AcceptAgain ==
    /\ pc = "accept" /\ backlog = <<>> /\ pc' = "accept"
    /\ UNCHANGED <<to, cur, callers, stop, late, session, dsp, cam, told, crashes>>

\* Nothing to accept, or an accept error: sleep and go round the loop.
AcceptNothing ==
    /\ pc = "accept" /\ pc' = "check"
    /\ UNCHANGED <<to, cur, callers, stop, late, session, dsp, cam, told, crashes>>

----------------------------------------------------------------------------
(* handle_session                                                          *)

\* Mutant: the bridge swap does not wait for a valid header.
SwapBeforeHeader ==
    /\ pc = "header"
    /\ pc' = "connect" /\ to' = "bridge" /\ bridgeOk' = FALSE
    /\ UNCHANGED <<cur, callers, stop, late, session, dsp, cam, strayed, crashes>>

\* A valid header leads to the bridge swap. A bad one, or none within 5 s,
\* returns at once: no swap, no session. A sender that left may still have left
\* its header behind.
ReadHeader ==
    /\ pc = "header"
    /\ \/ cur \subseteq good /\ pc' = "connect" /\ to' = "bridge" /\ UNCHANGED cur
       \/ ~(cur \subseteq good /\ cur \subseteq alive) /\ pc' = "check" /\ cur' = {} /\ UNCHANGED to
    /\ bridgeOk' = FALSE
    /\ UNCHANGED <<callers, stop, late, session, dsp, cam, strayed, crashes>>

\* Mutant: after the idle swap the loop condition is skipped.
SwapEndsThenAccepts(ok) ==
    IF to = "bridge"
    THEN /\ pc' = "session" /\ bridgeOk' = ok
         /\ ses' = "opening" /\ result' = "none"
         /\ UNCHANGED <<cur, strayed, held, wedged>>
    ELSE /\ pc' = "accept" /\ cur' = {} /\ bridgeOk' = FALSE
         /\ strayed' = ~ok
         /\ UNCHANGED session

\* What follows a swap: the session after the bridge swap, whether it worked or
\* not, and the next caller after the idle swap.
SwapEnds(ok) ==
    IF to = "bridge"
    THEN /\ pc' = "session" /\ bridgeOk' = ok
         /\ ses' = "opening" /\ result' = "none"
         /\ UNCHANGED <<cur, strayed, held, wedged>>
    ELSE /\ pc' = "check" /\ cur' = {} /\ bridgeOk' = FALSE
         /\ strayed' = ~ok
         /\ UNCHANGED session

\* CamillaWs::connect. A frozen CamillaDSP accepts the TCP connection and never
\* answers the handshake: connect does not return while it is frozen, for the
\* timeouts are set after it.
WsConnect ==
    /\ pc = "connect"
    /\ \/ camilla = "up" /\ linked' = TRUE /\ pc' = "set" /\ UNCHANGED <<cur, told, session>>
       \/ camilla = "down" /\ SwapEnds(FALSE) /\ UNCHANGED linked
    /\ UNCHANGED <<to, callers, stop, late, camilla, cam, crashes>>

\* SetConfigFilePath: answered, or without an answer (timeout, connection lost,
\* rejected) applied or not; then Reload is not sent.
WsSet ==
    /\ pc = "set"
    /\ \/ camilla = "up" /\ linked /\ path' = to /\ pc' = "reload" /\ UNCHANGED <<cur, linked, told, session>>
       \/ path' \in {path, IF linked THEN to ELSE path} /\ linked' = FALSE /\ SwapEnds(FALSE)
    /\ UNCHANGED <<to, callers, stop, late, camilla, active, crashes>>

\* Mutant: what CamillaDSP does when Reload is sent before the path is set.
WsReloadOldPath ==
    /\ pc = "reload"
    /\ camilla = "up" /\ linked /\ linked' = FALSE /\ SwapEnds(TRUE)
    /\ UNCHANGED <<to, callers, stop, late, camilla, cam, crashes>>

\* Reload: CamillaDSP runs the file its path names.
WsReload ==
    /\ pc = "reload" /\ linked' = FALSE
    /\ \/ camilla = "up" /\ linked /\ active' = path /\ SwapEnds(TRUE)
       \/ active' \in {active, IF linked THEN path ELSE active} /\ SwapEnds(FALSE)
    /\ UNCHANGED <<to, callers, stop, late, camilla, path, crashes>>

\* run_session, step by step as its contract allows. It opens and fails for
\* reasons of its own; once it runs, it ends when the sender has gone, when the
\* flag is up, or on an error, but not while a partial frame wedges its writer.
SessionOpens ==
    /\ pc = "session" /\ Session!Open
    /\ UNCHANGED <<pc, to, cur, callers, stop, late, wedged, dsp, cam, told, crashes>>

SessionWedges ==
    /\ ses = "running" /\ held /\ ~wedged /\ wedged' = TRUE
    /\ UNCHANGED <<pc, to, cur, callers, stop, late, ses, held, result, dsp, cam, told, crashes>>

WriterReleases ==
    /\ ~wedged /\ Session!Release
    /\ UNCHANGED <<pc, to, cur, callers, stop, late, wedged, dsp, cam, told, crashes>>

\* How run_session comes back: not at all while wedged, with Ok only when the
\* sender has gone or the flag is up (PiSession, OkMeansPlayed).
RunSessionReturns ==
    /\ pc = "session" /\ ~wedged
    /\ Session!NotOpened \/ Session!Return
    /\ result' = "ok" => stop \/ cur \cap alive = {}

\* Mutant: an error of the session returns through `?` before the idle swap.
SessionReturnsEarly ==
    /\ RunSessionReturns
    /\ IF result' = "ok"
       THEN pc' = "connect" /\ to' = "idle" /\ UNCHANGED cur
       ELSE pc' = "check" /\ cur' = {} /\ UNCHANGED to
    /\ UNCHANGED <<callers, stop, late, wedged, dsp, cam, told, crashes>>

\* Mutant: accept_loop gives up after a session that ended with an error.
SessionErrorEndsLoop ==
    /\ RunSessionReturns
    /\ pc' = (IF result' = "ok" THEN "connect" ELSE "exit") /\ to' = "idle"
    /\ UNCHANGED <<cur, callers, stop, late, wedged, dsp, cam, told, crashes>>

\* Whatever it returned, handle_session goes on to the idle swap.
SessionReturns ==
    /\ RunSessionReturns
    /\ pc' = "connect" /\ to' = "idle"
    /\ UNCHANGED <<cur, callers, stop, late, wedged, dsp, cam, told, crashes>>

----------------------------------------------------------------------------
Exited == pc = "exit" /\ UNCHANGED vars

Env    == (\E c \in Conns : Call(c) \/ HangUp(c)) \/ Stop \/ Crash \/ Restart
Dsp    == CamillaFreezes \/ CamillaDies \/ CamillaStarts
Loop   == CheckStop \/ Accept \/ AcceptNothing \/ ReadHeader
Swap   == WsConnect \/ WsSet \/ WsReload
Serve  == SessionOpens \/ SessionWedges \/ WriterReleases \/ SessionReturns

Next == Env \/ Dsp \/ Loop \/ Swap \/ Serve \/ Exited

Spec == Init /\ [][Next]_vars

\* The process runs; systemd restarts it; an accept that can succeed is not
\* refused for ever; a connect that CamillaDSP answers time and again returns.
\* A session whose sender left, or that is told to stop, ends: that is what
\* PiSession's PeerEnds and StopEnds establish, and opening the PCM gives up
\* after 3 s.
Fairness ==
    /\ WF_vars(Loop) /\ WF_vars(Restart) /\ SF_vars(Accept)
    /\ SF_vars(WsConnect) /\ WF_vars(WsSet \/ WsReload)
    /\ WF_vars(ses = "opening" /\ (SessionOpens \/ SessionReturns))
    /\ WF_vars((stop \/ cur \cap alive = {}) /\ SessionReturns)

FairSpec == Spec /\ Fairness

----------------------------------------------------------------------------
(* What must hold.                                                         *)

\* While no one is served, CamillaDSP runs the idle configuration, and would
\* load it again: bad headers, failed opens, session errors, a half-done bridge
\* swap and stop all lead back to it. The exceptions are a swap CamillaDSP did
\* not acknowledge, a kill in mid-session and a CamillaDSP that died (README: "restores your idle
\* config").
IdleWhenWaiting ==
    pc \in {"check", "accept", "exit"} /\ ~strayed => active = "idle" /\ path = "idle"

\* A session whose bridge swap was acknowledged runs on the bridge
\* configuration from the first byte to the last.
SessionOnBridge == pc = "session" /\ bridgeOk => active = "bridge"

\* A running CamillaDSP leaves the idle configuration only on behalf of a
\* caller whose header was valid: no port scan or stray client silences it.
BridgeNeedsHeader ==
    [][path' = "bridge" /\ path # "bridge"
          => (cur # {} /\ cur \subseteq good) \/ camilla = "down"]_vars

\* The flag may be raised between the loop condition and accept, so one more
\* caller may be served, never a second one.
AtMostOneAfterStop == late <= 1

\* After a stop the daemon exits wherever it is, if CamillaDSP does not stay
\* frozen and no partial frame has wedged the session.
StopExits == []<>(camilla # "frozen") => (stop ~> pc \in {"exit", "dead"} \/ wedged)

InBacklog(c) == \E i \in DOMAIN backlog : backlog[i] = c

\* If every sender leaves some day, every caller is accepted some day, whatever
\* happened to the sessions before its own.
CallersServed ==
    []<>(camilla # "frozen") /\ (\A c \in Conns : []<>(c \notin alive))
        => \A c \in Conns : InBacklog(c) ~> ~InBacklog(c) \/ stop \/ wedged

Phase ==
    IF pc \in {"check", "accept"} THEN "waiting"
    ELSE IF pc = "header" THEN "header"
    ELSE IF pc \in {"exit", "dead"} THEN "down"
    ELSE IF pc = "session" THEN (IF ses = "opening" THEN "preparing" ELSE "playing")
    ELSE IF to = "bridge" THEN "preparing" ELSE "restoring"

Daemon == INSTANCE DaemonContract WITH
    phase <- Phase, idle <- path = "idle" /\ active = "idle"

\* The daemon keeps the contract its callers and CamillaDSP's other sources rely
\* on: whatever the swaps do, a caller is prepared for, played and cleaned up
\* after, one at a time.
DaemonSpec == Daemon!Spec

\* What camilla_ws.rs connect says of its timeouts: "so a frozen CamillaDSP
\* can't hang our shutdown path forever".
FrozenCamillaCannotHangStop == stop ~> pc \in {"exit", "dead"} \/ wedged
=============================================================================
