-------------------------- MODULE PiReceiverProofs --------------------------
(***************************************************************************)
(* Proofs about the pi-receiver daemon, for every set of callers and any   *)
(* number of kills of the process.                                         *)
(***************************************************************************)
EXTENDS PiReceiver, SequenceTheorems, FiniteSetTheorems, TLAPS

----------------------------------------------------------------------------
(* Type correctness.                                                       *)

LEMMA TypeInit == Init => TypeOK
<1>. SUFFICES ASSUME Init PROVE TypeOK
  OBVIOUS
<1>1. Cardinality(cur) <= 1 /\ cur \subseteq Conns
  <2>1. cur = {}
    BY DEF Init
  <2>2. Cardinality({}) <= 1
    BY FS_EmptySet, SMT
  <2>. QED  BY <2>1, <2>2
<1>2. backlog \in Seq(Conns)
  BY EmptySeq DEF Init
<1>3. late \in Nat /\ crashes \in 0..MaxCrashes
  BY ReceiverAssumption, SMT DEF Init
<1>4. /\ stop \in BOOLEAN /\ held \in BOOLEAN /\ wedged \in BOOLEAN
      /\ bridgeOk \in BOOLEAN /\ strayed \in BOOLEAN
  BY Zenon DEF Init
<1>. QED  BY <1>1, <1>2, <1>3, <1>4 DEF Init, TypeOK, Configs

LEMMA TypeNext == TypeOK /\ [Next]_vars => TypeOK'
<1>. SUFFICES ASSUME TypeOK, [Next]_vars PROVE TypeOK'
  OBVIOUS
<1>. USE DEF TypeOK, Configs, vars, callers, dsp, cam, told, session
<1>1. Cardinality({}) <= 1
  BY FS_EmptySet, SMT
<1>2. CASE Env
  <2>1. ASSUME NEW c \in Conns, Call(c) PROVE TypeOK'
    <3>1. Append(backlog, c) \in Seq(Conns)
      BY AppendProperties
    <3>. QED  BY <2>1, <3>1 DEF Call
  <2>2. ASSUME NEW c \in Conns, HangUp(c) PROVE TypeOK'
    BY <2>2 DEF HangUp
  <2>3. CASE Stop
    BY <2>3 DEF Stop
  <2>5. CASE Crash
    <3>1. crashes' \in 0..MaxCrashes
      BY <2>5, ReceiverAssumption DEF Crash
    <3>2. <<>> \in Seq(Conns)
      BY EmptySeq
    <3>. QED  BY <1>1, <2>5, <3>1, <3>2 DEF Crash
  <2>6. CASE Restart
    <3>1. late' \in Nat /\ stop' \in BOOLEAN /\ pc' = "check"
      BY <2>6 DEF Restart
    <3>. QED  BY <2>6, <3>1 DEF Restart
  <2>. QED  BY <1>2, <2>1, <2>2, <2>3, <2>5, <2>6 DEF Env
<1>3. CASE Loop
  <2>1. CASE CheckStop
    BY <2>1 DEF CheckStop
  <2>2. CASE Accept
    <3>1. Head(backlog) \in Conns /\ Tail(backlog) \in Seq(Conns)
      BY <2>2, HeadTailProperties DEF Accept
    <3>2. Cardinality({Head(backlog)}) <= 1
      <4>1. Cardinality({Head(backlog)}) = 1
        BY FS_Singleton, Zenon
      <4>. QED  BY <4>1, SMT
    <3>3. late' \in Nat
      BY <2>2 DEF Accept
    <3>4. cur' \subseteq Conns /\ Cardinality(cur') <= 1 /\ backlog' \in Seq(Conns)
      BY <2>2, <3>1, <3>2 DEF Accept
    <3>. QED  BY <2>2, <3>3, <3>4 DEF Accept
  <2>3. CASE AcceptNothing
    BY <2>3 DEF AcceptNothing
  <2>4. CASE ReadHeader
    <3>1. pc' \in {"connect", "check"} /\ to' \in Configs /\ bridgeOk' \in BOOLEAN
      BY <2>4, Zenon DEF ReadHeader
    <3>2. cur' \subseteq Conns /\ Cardinality(cur') <= 1
      BY <1>1, <2>4, Zenon DEF ReadHeader
    <3>3. UNCHANGED <<callers, stop, late, session, dsp, cam, strayed, crashes>>
      BY <2>4 DEF ReadHeader
    <3>. QED  BY <3>1, <3>2, <3>3, SMT
  <2>. QED  BY <1>3, <2>1, <2>2, <2>3, <2>4 DEF Loop
<1>4. ASSUME NEW ok \in BOOLEAN, SwapEnds(ok)
      PROVE  /\ pc' \in {"session", "check"} /\ bridgeOk' \in BOOLEAN /\ strayed' \in BOOLEAN
             /\ ses' \in {"opening", "running", "over"} /\ held' \in BOOLEAN /\ wedged' \in BOOLEAN
             /\ result' \in {"none", "ok", "openErr", "spawnErr", "netErr", "alsaErr"}
             /\ cur' \subseteq Conns /\ Cardinality(cur') <= 1
  BY <1>1, <1>4 DEF SwapEnds
<1>5. CASE Swap
  <2>1. CASE WsConnect
    BY <1>4, <2>1 DEF WsConnect
  <2>2. CASE WsSet
    BY <1>4, <2>2 DEF WsSet
  <2>3. CASE WsReload
    BY <1>4, <2>3 DEF WsReload
  <2>. QED  BY <1>5, <2>1, <2>2, <2>3 DEF Swap
<1>6. CASE Serve
  <2>. USE DEF Session!Open, Session!NotOpened, Session!Release, Session!Return,
               Session!Joined, Session!GivenUp
  <2>1. CASE SessionOpens
    BY <2>1 DEF SessionOpens
  <2>2. CASE SessionWedges
    BY <2>2 DEF SessionWedges
  <2>3. CASE WriterReleases
    <3>1. held' \in BOOLEAN /\ UNCHANGED <<ses, result>>
      BY <2>3, Zenon DEF WriterReleases
    <3>. QED  BY <2>3, <3>1 DEF WriterReleases
  <2>4. CASE SessionReturns
    <3>1. /\ pc' = "connect" /\ to' = "idle" /\ held' = held
          /\ ses' = "over" /\ result' \in Session!Joined \cup Session!GivenUp \cup {"openErr", "spawnErr"}
      BY <2>4 DEF SessionReturns, RunSessionReturns
    <3>2. UNCHANGED <<cur, callers, stop, late, wedged, dsp, cam, told, crashes>>
      BY <2>4 DEF SessionReturns
    <3>. QED  BY <3>1, <3>2, SMT
  <2>. QED  BY <1>6, <2>1, <2>2, <2>3, <2>4 DEF Serve
<1>7. CASE Dsp
  <2>1. CASE CamillaFreezes
    BY <2>1 DEF CamillaFreezes
  <2>2. CASE CamillaDies
    <3>1. linked' \in BOOLEAN /\ bridgeOk' \in BOOLEAN /\ strayed' \in BOOLEAN /\ camilla' = "down"
      BY <2>2, Zenon DEF CamillaDies
    <3>. QED  BY <2>2, <3>1 DEF CamillaDies
  <2>3. CASE CamillaStarts
    BY <2>3 DEF CamillaStarts
  <2>. QED  BY <1>7, <2>1, <2>2, <2>3 DEF Dsp
<1>8. CASE Exited \/ UNCHANGED vars
  BY <1>8 DEF Exited
<1>. QED  BY <1>2, <1>3, <1>5, <1>6, <1>7, <1>8 DEF Next

\* Every reachable state of the daemon is well typed.
THEOREM TypeCorrect == Spec => []TypeOK
<1>. QED  BY TypeInit, TypeNext, PTL DEF Spec

----------------------------------------------------------------------------
(* The inductive invariant.                                                *)

\* The configuration: idle outside a service unless strayed, the swap's target
\* once set, the bridge's in a session whose swap was acknowledged. A CamillaDSP
\* that is down has nothing acknowledged.
ConfigInv ==
    /\ pc \in {"check", "accept", "header", "exit", "dead"} /\ ~strayed
         => active = "idle" /\ path = "idle"
    /\ pc = "reload" /\ linked => path = to
    /\ camilla = "down" => ~linked /\ strayed /\ ~bridgeOk
    /\ pc = "session" /\ bridgeOk => active = "bridge"

\* Whoever is being served, and is swapped for, sent a valid header.
CallerInv ==
    /\ pc = "header" => cur # {}
    /\ pc \in {"connect", "set", "reload"} /\ to = "bridge" => cur # {} /\ cur \subseteq good

\* No caller is accepted after the flag but the one the loop let through.
LateInv ==
    /\ late \in Nat /\ late <= 1
    /\ ~stop => late = 0
    /\ pc = "accept" => late = 0

IInv == ConfigInv /\ CallerInv /\ LateInv

LEMMA InvInit == Init => IInv
BY DEF Init, IInv, ConfigInv, CallerInv, LateInv

LEMMA InvEnv ==
    ASSUME IInv, Env
    PROVE  IInv'
<1>. USE DEF IInv, ConfigInv, CallerInv, LateInv, callers, dsp, cam, told, session
<1>1. CASE \E c \in Conns : Call(c) \/ HangUp(c)
  BY <1>1 DEF Call, HangUp
<1>2. CASE Stop
  BY <1>2 DEF Stop
<1>3. CASE Crash
  BY <1>3 DEF Crash
<1>4. CASE Restart
  BY <1>4 DEF Restart
<1>. QED  BY <1>1, <1>2, <1>3, <1>4 DEF Env

LEMMA InvDsp ==
    ASSUME IInv, Dsp
    PROVE  IInv'
<1>. USE DEF IInv, ConfigInv, CallerInv, LateInv, callers, dsp, cam, told, session
<1>1. CASE CamillaFreezes
  BY <1>1 DEF CamillaFreezes
<1>2. CASE CamillaDies
  BY <1>2 DEF CamillaDies
<1>3. CASE CamillaStarts
  BY <1>3 DEF CamillaStarts
<1>. QED  BY <1>1, <1>2, <1>3 DEF Dsp

LEMMA InvLoop ==
    ASSUME IInv, Loop
    PROVE  IInv'
<1>. USE DEF IInv, ConfigInv, CallerInv, LateInv, callers, dsp, cam, told, session
<1>1. CASE CheckStop
  BY <1>1 DEF CheckStop
<1>2. CASE Accept
  BY <1>2 DEF Accept
<1>3. CASE AcceptNothing
  BY <1>3 DEF AcceptNothing
<1>4. CASE ReadHeader
  BY <1>4 DEF ReadHeader
<1>. QED  BY <1>1, <1>2, <1>3, <1>4 DEF Loop

LEMMA InvSwap ==
    ASSUME IInv, TypeOK, Swap
    PROVE  IInv'
<1>. USE DEF IInv, ConfigInv, CallerInv, LateInv, callers, dsp, cam, told, session, SwapEnds
<1>. to \in {"idle", "bridge"}
  BY DEF TypeOK, Configs
<1>1. CASE WsConnect
  <2>1. CASE camilla = "up"
    <3>1. /\ linked' = TRUE /\ pc' = "set"
          /\ UNCHANGED <<cur, told, session, to, callers, stop, late, camilla, cam>>
      BY <1>1, <2>1 DEF WsConnect
    <3>. QED  BY <1>1, <2>1, <3>1 DEF WsConnect
  <2>2. CASE camilla # "up"
    <3>1. camilla = "down" /\ SwapEnds(FALSE) /\ UNCHANGED <<linked, callers, stop, late, camilla, cam>>
      BY <1>1, <2>2 DEF WsConnect
    <3>2. ~bridgeOk' /\ (strayed \/ to # "bridge" => strayed') /\ pc' \in {"session", "check"}
      BY <3>1, Zenon
    <3>. QED  BY <3>1, <3>2
  <2>. QED  BY <2>1, <2>2
<1>2. CASE WsSet
  BY <1>2 DEF WsSet
<1>3. CASE WsReload
  BY <1>3 DEF WsReload
<1>. QED  BY <1>1, <1>2, <1>3 DEF Swap

LEMMA InvServe ==
    ASSUME IInv, Serve
    PROVE  IInv'
<1>. USE DEF IInv, ConfigInv, CallerInv, LateInv, callers, dsp, cam, told, session
<1>1. CASE SessionOpens
  BY <1>1 DEF SessionOpens
<1>2. CASE SessionWedges
  BY <1>2 DEF SessionWedges
<1>3. CASE WriterReleases
  BY <1>3 DEF WriterReleases
<1>4. CASE SessionReturns
  BY <1>4 DEF SessionReturns, RunSessionReturns
<1>. QED  BY <1>1, <1>2, <1>3, <1>4 DEF Serve

\* The inductive invariant holds in every reachable state.
THEOREM Invariance == Spec => []IInv
<1>1. TypeOK /\ IInv /\ [Next]_vars => IInv'
  <2>. SUFFICES ASSUME TypeOK, IInv, [Next]_vars PROVE IInv'
    OBVIOUS
  <2>1. CASE Exited \/ UNCHANGED vars
    BY <2>1 DEF Exited, vars, callers, dsp, cam, told, session, IInv, ConfigInv, CallerInv, LateInv
  <2>. QED  BY <2>1, InvEnv, InvDsp, InvLoop, InvSwap, InvServe DEF Next
<1>. QED  BY <1>1, InvInit, TypeCorrect, PTL DEF Spec

----------------------------------------------------------------------------
(* What the invariant gives.                                               *)

\* Whenever the daemon serves no one, CamillaDSP is on the idle configuration,
\* but for a swap it did not acknowledge, a kill in mid-session or its own death.
THEOREM RestoresIdle == Spec => []IdleWhenWaiting
<1>1. IInv => IdleWhenWaiting
  BY DEF IInv, ConfigInv, IdleWhenWaiting
<1>. QED  BY <1>1, Invariance, PTL

\* A session whose bridge swap was acknowledged runs on the bridge configuration.
THEOREM RunsOnBridge == Spec => []SessionOnBridge
<1>1. IInv => SessionOnBridge
  BY DEF IInv, ConfigInv, SessionOnBridge
<1>. QED  BY <1>1, Invariance, PTL

\* At most one caller is accepted after the stop flag was raised.
THEOREM StopsAccepting == Spec => []AtMostOneAfterStop
<1>1. IInv => AtMostOneAfterStop
  BY DEF IInv, LateInv, AtMostOneAfterStop
<1>. QED  BY <1>1, Invariance, PTL

\* Only a caller with a valid header makes a running CamillaDSP leave the idle
\* configuration.
THEOREM HeaderBeforeBridge == Spec => BridgeNeedsHeader
<1>1. IInv /\ TypeOK /\ [Next]_vars
        => [path' = "bridge" /\ path # "bridge"
              => (cur # {} /\ cur \subseteq good) \/ camilla = "down"]_vars
  <2>. SUFFICES ASSUME IInv, TypeOK, Next, path' = "bridge", path # "bridge"
                PROVE  (cur # {} /\ cur \subseteq good) \/ camilla = "down"
    BY DEF vars
  <2>. USE DEF callers, dsp, cam, told, session, vars
  <2>1. WsSet \/ CamillaStarts
    BY Zenon DEF Next, Env, Dsp, Loop, Swap, Serve, Call, HangUp, Stop, CamillaFreezes, CamillaDies, Crash, Restart,
       CheckStop, Accept, AcceptNothing, ReadHeader, WsConnect, WsReload,
       SessionOpens, SessionWedges, WriterReleases, SessionReturns, Exited
  <2>2. (pc = "set" /\ to = "bridge") \/ camilla = "down"
    BY <2>1 DEF WsSet, CamillaStarts
  <2>. QED  BY <2>2 DEF IInv, CallerInv
<1>. QED  BY <1>1, Invariance, TypeCorrect, PTL DEF Spec, BridgeNeedsHeader

----------------------------------------------------------------------------
(* Refinement.                                                             *)

DaemonStep == Daemon!Next \/ UNCHANGED Daemon!daemonVars

LEMMA DaemonEnv == ASSUME TypeOK, Env PROVE DaemonStep
<1>. USE DEF Daemon!daemonVars, Daemon!service, DaemonStep, Phase, callers, dsp, cam, told, session
<1>1. ASSUME NEW c \in Conns, Call(c) PROVE Daemon!Next
  <2>1. Daemon!Call(c)
    BY <1>1 DEF Call, Daemon!Call
  <2>. QED BY <2>1 DEF Daemon!Next
<1>2. ASSUME NEW c \in Conns, HangUp(c) PROVE Daemon!Next
  <2>1. Daemon!HangUp(c)
    BY <1>2 DEF HangUp, Daemon!HangUp
  <2>. QED BY <2>1 DEF Daemon!Next
<1>3. CASE Stop
  BY <1>3 DEF Stop
<1>4. CASE Crash
  <2>1. Daemon!Killed
    BY <1>4 DEF Crash, Daemon!Killed, TypeOK, Configs
  <2>. QED BY <2>1 DEF Daemon!Next
<1>5. CASE Restart
  <2>1. Daemon!Restart
    BY <1>5 DEF Restart, Daemon!Restart
  <2>. QED BY <2>1 DEF Daemon!Next
<1>. QED BY <1>1, <1>2, <1>3, <1>4, <1>5 DEF Env

\* CamillaDSP changes its configuration of its own accord only when it starts.
LEMMA DaemonDsp == ASSUME TypeOK, IInv, Dsp PROVE DaemonStep
<1>. USE DEF Daemon!daemonVars, Daemon!service, DaemonStep, Phase, callers, dsp, cam, told, session
<1>1. CASE CamillaFreezes
  BY <1>1 DEF CamillaFreezes
<1>2. CASE CamillaDies
  <2>1. Daemon!Strays
    BY <1>2 DEF CamillaDies, Daemon!Strays
  <2>. QED BY <2>1 DEF Daemon!Next
<1>3. CASE CamillaStarts
  <2>1. strayed
    BY <1>3 DEF CamillaStarts, IInv, ConfigInv
  <2>2. Daemon!ConfigMoves \/ UNCHANGED Daemon!daemonVars
    BY <1>3, <2>1 DEF CamillaStarts, Daemon!ConfigMoves
  <2>. QED BY <2>2 DEF Daemon!Next
<1>. QED BY <1>1, <1>2, <1>3 DEF Dsp

LEMMA DaemonLoop == ASSUME TypeOK, Loop PROVE DaemonStep
<1>. USE DEF Daemon!daemonVars, Daemon!service, DaemonStep, Phase, callers, dsp, cam, told, session
<1>1. CASE CheckStop
  <2>1. Daemon!Exit \/ UNCHANGED Daemon!daemonVars
    BY <1>1 DEF CheckStop, Daemon!Exit
  <2>. QED BY <2>1 DEF Daemon!Next
<1>2. CASE Accept
  <2>1. Daemon!Accept
    BY <1>2 DEF Accept, Daemon!Accept
  <2>. QED BY <2>1 DEF Daemon!Next, Daemon!Serve
<1>3. CASE AcceptNothing
  BY <1>3 DEF AcceptNothing
<1>4. CASE ReadHeader
  <2>1. Daemon!Prepare \/ Daemon!Reject
    BY <1>4 DEF ReadHeader, Daemon!Prepare, Daemon!Reject
  <2>. QED BY <2>1 DEF Daemon!Next, Daemon!Serve
<1>. QED BY <1>1, <1>2, <1>3, <1>4 DEF Loop

\* A step of a swap goes on with it or ends it; an idle swap that ends with an
\* acknowledgement has led CamillaDSP to the idle configuration.
LEMMA DaemonSwap == ASSUME TypeOK, IInv, Swap PROVE DaemonStep
<1>. USE DEF Phase, callers, dsp, cam, told, session
<1>. DEFINE Swapping == pc \in {"connect", "set", "reload"} /\ to \in {"idle", "bridge"}
            Rest == UNCHANGED <<backlog, alive, to>>
            GoesOn == /\ pc' \in {"set", "reload"} /\ Rest /\ UNCHANGED <<cur, told, session>>
            Ended(ok) == /\ SwapEnds(ok) /\ Rest
                         /\ ok /\ to = "idle" => path' = "idle" /\ active' = "idle"
<1>1. Swapping /\ (GoesOn \/ Ended(FALSE) \/ Ended(TRUE))
  <2>1. Swapping
    BY DEF Swap, WsConnect, WsSet, WsReload, TypeOK, Configs
  <2>2. CASE WsConnect
    <3>1. GoesOn \/ Ended(FALSE)
      BY <2>2, Zenon DEF WsConnect
    <3>. QED BY <2>1, <3>1
  <2>3. CASE WsSet
    <3>1. GoesOn \/ Ended(FALSE)
      BY <2>3, Zenon DEF WsSet
    <3>. QED BY <2>1, <3>1
  <2>4. CASE WsReload
    BY <2>1, <2>4 DEF WsReload, IInv, ConfigInv
  <2>. QED BY <2>1, <2>2, <2>3, <2>4 DEF Swap
<1>. HIDE DEF Swapping
<1>2. CASE GoesOn
  <2>1. Daemon!ConfigMoves \/ UNCHANGED Daemon!daemonVars
    BY <1>1, <1>2 DEF Swapping, Daemon!ConfigMoves, Daemon!daemonVars, Daemon!service
  <2>. QED BY <2>1 DEF Daemon!Next, DaemonStep
<1>3. ASSUME NEW ok \in BOOLEAN, Ended(ok), to = "bridge" PROVE DaemonStep
  <2>1. Daemon!ConfigMoves \/ UNCHANGED Daemon!daemonVars
    BY <1>1, <1>3 DEF Swapping, SwapEnds, Daemon!ConfigMoves, Daemon!daemonVars, Daemon!service
  <2>. QED BY <2>1 DEF Daemon!Next, DaemonStep
<1>4. ASSUME NEW ok \in BOOLEAN, Ended(ok), to = "idle" PROVE DaemonStep
  <2>1. Daemon!Restored
    BY <1>1, <1>4 DEF Swapping, SwapEnds, Daemon!Restored
  <2>. QED BY <2>1 DEF Daemon!Next, Daemon!Serve, DaemonStep
<1>. QED BY <1>1, <1>2, <1>3, <1>4 DEF Swapping

LEMMA DaemonServe == ASSUME TypeOK, Serve PROVE DaemonStep
<1>. USE DEF Daemon!daemonVars, Daemon!service, DaemonStep, Phase, callers, dsp, cam, told, session
<1>1. CASE SessionOpens
  <2>1. Daemon!Play
    BY <1>1 DEF SessionOpens, Session!Open, Daemon!Play
  <2>. QED BY <2>1 DEF Daemon!Next, Daemon!Serve
<1>2. CASE SessionWedges
  <2>1. Daemon!Wedges
    BY <1>2 DEF SessionWedges, Daemon!Wedges
  <2>. QED BY <2>1 DEF Daemon!Next
<1>3. CASE WriterReleases
  BY <1>3 DEF WriterReleases, Session!Release
<1>4. CASE SessionReturns
  <2>1. Daemon!Ends
    BY <1>4 DEF SessionReturns, RunSessionReturns, Daemon!Ends
  <2>. QED BY <2>1 DEF Daemon!Next, Daemon!Serve
<1>. QED BY <1>1, <1>2, <1>3, <1>4 DEF Serve

\* The daemon implements the contract its callers and CamillaDSP's other sources
\* rely on, and EndToEnd is built on.
THEOREM ImplementsDaemon == Spec => DaemonSpec
<1>1. Init => Daemon!Init
  BY DEF Init, Daemon!Init, Phase
<1>2. TypeOK /\ IInv /\ [Next]_vars => [Daemon!Next]_(Daemon!daemonVars)
  <2>. SUFFICES ASSUME TypeOK, IInv, [Next]_vars PROVE DaemonStep
    BY DEF DaemonStep
  <2>1. CASE Exited \/ UNCHANGED vars
    BY <2>1 DEF Exited, vars, callers, cam, told, session, Phase, DaemonStep, Daemon!daemonVars, Daemon!service
  <2>. QED BY <2>1, DaemonEnv, DaemonDsp, DaemonLoop, DaemonSwap, DaemonServe DEF Next
<1>. QED BY <1>1, <1>2, TypeCorrect, Invariance, PTL DEF Spec, DaemonSpec, Daemon!Spec

=============================================================================
