-------------------------- MODULE VolumeSyncProofs --------------------------
(***************************************************************************)
(* The safety of the volume-sync thread, for every set of volumes, every   *)
(* unity and every length of the pipe.                                     *)
(***************************************************************************)
EXTENDS VolumeSync, TLAPS

\* What the volume last set by the user still has ahead of it. A line in the
\* pipe, or a query that is under way, will read it (so nothing is claimed);
\* after the query it is in the thread's hand; after the push in CamillaDSP.
InHand  == pc = "push" => hand = vol
Arrived == pc \in {"spawn", "lines"} => camVol = Clamp(vol)

SyncInv == ~missed /\ lines = 0 => InHand /\ Arrived

\* Nothing is louder than unity.
LEMMA ClampBounds ==
  ASSUME NEW v \in Nat
  PROVE  Clamp(v) \in Nat /\ Clamp(v) <= Unity
  BY VolumeAssumption DEF Clamp

\* The thread's and its environment's variables keep their types; the volume
\* CamillaDSP is told is never above 0 dB and the pipe never holds more lines
\* than its bound.
THEOREM TypeCorrect == Spec => []TypeOK
<1>. USE VolumeAssumption
<1>1. Init => TypeOK
  <2>. SUFFICES ASSUME Init PROVE TypeOK
    OBVIOUS
  <2>1. stop \in BOOLEAN /\ first \in BOOLEAN /\ missed \in BOOLEAN
    BY Zenon DEF Init
  <2>2. 0 <= Unity /\ 0 \in 0..MaxEvents
    BY SMT
  <2>. QED BY <2>1, <2>2 DEF Init, TypeOK
<1>2. TypeOK /\ [Next]_vars => TypeOK'
  <2>. SUFFICES ASSUME TypeOK, [Next]_vars PROVE TypeOK'
    OBVIOUS
  <2>. USE DEF TypeOK, pulse, cam, thread
  <2>1. CASE Env
    <3>. USE DEF Env
    <3>1. stop' \in BOOLEAN /\ first' \in BOOLEAN /\ missed' \in BOOLEAN
      BY <2>1, Zenon DEF ChangeVolume, OtherSinkChanges, Subscribed, PactlDies, CamillaChanges, Stop
    <3>2. CASE ChangeVolume \/ OtherSinkChanges
      BY <3>1, <3>2 DEF ChangeVolume, OtherSinkChanges
    <3>3. CASE Subscribed \/ PactlDies \/ CamillaChanges \/ Stop
      BY <3>1, <3>3 DEF Subscribed, PactlDies, CamillaChanges, Stop
    <3>. QED BY <2>1, <3>2, <3>3
  <2>2. CASE Start \/ Query \/ Spawn
    BY <2>2 DEF Start, Query, Spawn, AfterPush
  <2>3. CASE Push
    <3>1. Clamp(hand) \in Nat /\ Clamp(hand) <= Unity
      BY ClampBounds
    <3>. QED BY <2>3, <3>1 DEF Push, AfterPush
  <2>4. CASE Line \/ Eof
    BY <2>4 DEF Line, Eof
  <2>5. CASE UNCHANGED vars
    BY <2>5 DEF vars
  <2>. QED BY <2>1, <2>2, <2>3, <2>4, <2>5 DEF Next, Thread, Exited
<1>. QED BY <1>1, <1>2, PTL DEF Spec

LEMMA Invariance == Spec => []SyncInv
<1>. USE DEF SyncInv, InHand, Arrived
<1>1. Init => SyncInv
  BY DEF Init
<1>2. TypeOK /\ SyncInv /\ [Next]_vars => SyncInv'
  <2>. SUFFICES ASSUME TypeOK, SyncInv, [Next]_vars PROVE SyncInv'
    OBVIOUS
  <2>. USE DEF pulse, cam, thread
  \* A change is heard, and then a line waits, or it is missed.
  <2>1. CASE ChangeVolume
    BY <2>1 DEF ChangeVolume, TypeOK
  <2>2. CASE OtherSinkChanges
    BY <2>2 DEF OtherSinkChanges, TypeOK
  <2>3. CASE Subscribed \/ PactlDies \/ Stop
    BY <2>3 DEF Subscribed, PactlDies, Stop, Clamp
  <2>4. CASE CamillaChanges
    BY <2>4 DEF CamillaChanges, Clamp
  <2>5. CASE Start
    BY <2>5 DEF Start
  <2>6. CASE Query
    BY <2>6 DEF Query, AfterPush
  \* What was in the hand has arrived, or is missed.
  <2>7. CASE Push
    BY <2>7 DEF Push, AfterPush, Clamp
  <2>8. CASE Spawn
    BY <2>8 DEF Spawn, Clamp
  <2>9. CASE Line
    BY <2>9 DEF Line
  <2>10. CASE Eof
    BY <2>10 DEF Eof, Clamp
  <2>11. CASE UNCHANGED vars
    BY <2>11 DEF vars, Clamp
  <2>. QED BY <2>1, <2>2, <2>3, <2>4, <2>5, <2>6, <2>7, <2>8, <2>9, <2>10, <2>11
           DEF Next, Env, Thread, Exited
<1>. QED BY <1>1, <1>2, TypeCorrect, PTL DEF Spec

\* The last change wins: with nothing left to read CamillaDSP has the sink's
\* volume, however changes, queries and pushes interleaved, unless the change
\* was made while no subscription was on or CamillaDSP did not take the push.
THEOREM InStep == Spec => []InStepWhenIdle
<1>1. SyncInv => InStepWhenIdle
  BY DEF SyncInv, Arrived, InStepWhenIdle
<1>. QED BY <1>1, Invariance, PTL
=============================================================================
