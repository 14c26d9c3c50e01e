--------------------------- MODULE PcSenderProofs ---------------------------
(***************************************************************************)
(* Proofs about pc-sender, for every queue capacity, idle window and       *)
(* reconnect delay.                                                        *)
(***************************************************************************)
EXTENDS PcSender, SequenceTheorems, TLAPS

----------------------------------------------------------------------------
(* The channel.                                                            *)

\* Marking what is queued as stale keeps a queue of chunks of the same length.
LEMMA MarkedIsQueue ==
    ASSUME NEW q \in Seq(Chunk)
    PROVE  LET m == [i \in DOMAIN q |-> [q[i] EXCEPT !.stale = TRUE]]
           IN  m \in Seq(Chunk) /\ Len(m) = Len(q)
<1>. DEFINE m == [i \in DOMAIN q |-> [q[i] EXCEPT !.stale = TRUE]]
<1>1. Len(q) \in Nat /\ DOMAIN q = 1..Len(q) /\ \A i \in 1..Len(q) : q[i] \in Chunk
  BY LenProperties, ElementOfSeq
<1>2. \A c \in Chunk : [c EXCEPT !.stale = TRUE] \in Chunk
  BY DEF Chunk
<1>3. m \in [1..Len(q) -> Chunk]
  BY <1>1, <1>2
<1>4. m \in Seq(Chunk)
  BY <1>1, <1>3
<1>5. Len(m) = Len(q)
  BY <1>1, <1>3, <1>4, SMT
<1>. QED  BY <1>4, <1>5

\* The clock of the silence never passes the idle window.
LEMMA SilenceClock ==
    /\ 0 \in (-MaxSkew)..IdleAfter
    /\ \A n \in (-MaxSkew)..IdleAfter : n < IdleAfter => n + 1 \in (-MaxSkew)..IdleAfter
BY SenderAssumption, SMT

----------------------------------------------------------------------------
(* Type correctness.                                                       *)

LEMMA TypeInit == Init => TypeOK
<1>. SUFFICES ASSUME Init PROVE TypeOK
  OBVIOUS
<1>1. <<>> \in Seq(Chunk) /\ Len(<<>>) = 0
  BY EmptySeq
<1>2. 0 <= QueueCap /\ backoff \in Nat /\ backoff <= InitialBackoff
  BY SenderAssumption, SMT DEF Init
<1>3. None \in Chunk
  BY DEF None, Chunk
<1>4. stop \in BOOLEAN /\ shut \in BOOLEAN
  BY Zenon DEF Init
<1>. QED  BY <1>1, <1>2, <1>3, <1>4, SilenceClock DEF Init, TypeOK

\* The delay stays below the larger of the first one and the cap.
LEMMA BackoffBounded ==
    ASSUME NEW b \in Nat, b <= InitialBackoff \/ b <= MaxBackoff
    PROVE  /\ InitialBackoff \in Nat
           /\ LET n == IF 2 * b < MaxBackoff THEN 2 * b ELSE MaxBackoff
              IN  n \in Nat /\ n <= MaxBackoff
BY SenderAssumption, SMT

LEMMA TypeNext == TypeOK /\ [Next]_vars => TypeOK'
<1>. SUFFICES ASSUME TypeOK, [Next]_vars PROVE TypeOK'
  OBVIOUS
<1>. USE DEF TypeOK, vars, loop, net
<1>1. None \in Chunk
  BY DEF None, Chunk
<1>2. queue # <<>> => Head(queue) \in Chunk /\ Tail(queue) \in Seq(Chunk) /\ Len(Tail(queue)) <= QueueCap
  <2>. SUFFICES ASSUME queue # <<>>
                PROVE  Head(queue) \in Chunk /\ Tail(queue) \in Seq(Chunk) /\ Len(Tail(queue)) <= QueueCap
    OBVIOUS
  <2>1. Head(queue) \in Chunk /\ Tail(queue) \in Seq(Chunk) /\ Len(Tail(queue)) = Len(queue) - 1
    BY HeadTailProperties
  <2>. QED  BY <2>1, LenProperties, SenderAssumption, SMT
<1>3. /\ InitialBackoff \in Nat
      /\ \A ok \in BOOLEAN : SessionEnds(ok) =>
           /\ backoff' \in Nat /\ (backoff' <= InitialBackoff \/ backoff' <= MaxBackoff)
           /\ pc' \in {"exit", "pause"}
  <2>1. InitialBackoff \in Nat /\ InitialBackoff <= InitialBackoff
    BY SenderAssumption, SMT
  <2>. QED  BY <2>1 DEF SessionEnds
<1>4. CASE Env
  <2>1. ASSUME NEW loud \in BOOLEAN, Capture(loud) PROVE TypeOK'
    <3>1. [loud |-> loud, stale |-> FALSE] \in Chunk
      BY DEF Chunk
    <3>2. queue' \in Seq(Chunk) /\ Len(queue') <= QueueCap
      <4>1. CASE Len(queue) < QueueCap
        <5>1. /\ Append(queue, [loud |-> loud, stale |-> FALSE]) \in Seq(Chunk)
              /\ Len(Append(queue, [loud |-> loud, stale |-> FALSE])) = Len(queue) + 1
          BY <3>1, AppendProperties
        <5>2. Len(queue) + 1 <= QueueCap
          BY <4>1, LenProperties, SenderAssumption, SMT
        <5>. QED  BY <2>1, <4>1, <5>1, <5>2 DEF Capture, Push, NotePeak, Captured
      <4>2. CASE ~(Len(queue) < QueueCap)
        BY <2>1, <4>2 DEF Capture, Push, NotePeak, Captured
      <4>. QED  BY <4>1, <4>2
    <3>3. quiet' \in (-MaxSkew)..IdleAfter
      BY <2>1, SilenceClock DEF Capture, Push, NotePeak, Captured
    <3>. QED  BY <2>1, <3>2, <3>3 DEF Capture, Push, NotePeak, Captured
  <2>2. CASE Tick
    BY <2>2, SilenceClock DEF Tick
  <2>3. CASE Stop
    BY <2>3 DEF Stop
  <2>4. CASE ClockIsSet
    BY <2>4 DEF ClockIsSet
  <2>. QED  BY <1>4, <2>1, <2>2, <2>3, <2>4 DEF Env
<1>5. CASE Main
  <2>1. CASE Top
    BY <2>1 DEF Top
  <2>2. CASE Pause
    BY <2>2, BackoffBounded DEF Pause
  <2>3. CASE Connect
    BY <1>3, <2>3, MarkedIsQueue DEF Connect
  <2>4. CASE DrainQueue
    BY <1>2, <2>4 DEF DrainQueue
  <2>5. CASE StartWriter
    BY <1>3, <2>5 DEF StartWriter
  <2>6. CASE Watch
    <3>1. pc' = "join" /\ shut' \in BOOLEAN
      BY <2>6, Zenon DEF Watch
    <3>. QED  BY <2>6, <3>1 DEF Watch
  <2>7. CASE Join
    BY <1>3, <2>7 DEF Join
  <2>. QED  BY <1>5, <2>1, <2>2, <2>3, <2>4, <2>5, <2>6, <2>7 DEF Main
<1>6. CASE Writer
  BY <1>1, <1>2, <1>6 DEF Writer, Poll, WriteOk, WriteErr
<1>7. CASE Exited \/ UNCHANGED vars
  BY <1>7 DEF Exited
<1>. QED  BY <1>4, <1>5, <1>6, <1>7 DEF Next

\* Every reachable state of the sender is well typed; its queue is bounded.
THEOREM TypeCorrect == Spec => []TypeOK
<1>. QED  BY TypeInit, TypeNext, PTL DEF Spec

----------------------------------------------------------------------------
(* The inductive invariant.                                                *)

\* Outside the drain nothing stale is queued, and the writer never holds any.
FreshInv ==
    /\ pc # "drain" => \A i \in 1..Len(queue) : ~queue[i].stale
    /\ writer = "write" => ~hand.stale

\* A writer exists exactly while try_session watches or joins it.
IInv == TypeOK /\ FreshInv /\ (writer # "none" <=> pc \in {"watch", "join"})

LEMMA InvNext == IInv /\ [Next]_vars => IInv'
<1>. SUFFICES ASSUME IInv, [Next]_vars PROVE IInv'
  OBVIOUS
<1>1. TypeOK /\ TypeOK'
  BY TypeNext DEF IInv
<1>. USE DEF vars, loop, net
<1>2. (writer # "none" <=> pc \in {"watch", "join"})'
  <2>1. writer # "none" <=> pc \in {"watch", "join"}
    BY DEF IInv
  <2>. USE <2>1
  <2>2. CASE Env
    BY <2>2 DEF Env, Capture, Tick, ClockIsSet, Stop
  <2>3. CASE Main
    BY <2>3 DEF Main, Top, Pause, Connect, DrainQueue, StartWriter, Watch, Join, SessionEnds
  <2>4. CASE Writer
    BY <2>4 DEF Writer, Poll, WriteOk, WriteErr
  <2>5. CASE Exited \/ UNCHANGED vars
    BY <2>5 DEF Exited
  <2>. QED  BY <2>2, <2>3, <2>4, <2>5 DEF Next
<1>3. SUFFICES FreshInv'
  BY <1>1, <1>2 DEF IInv
<1>4. ASSUME UNCHANGED <<queue, writer, hand>>, pc' # "drain" => pc # "drain" PROVE FreshInv'
  BY <1>4 DEF IInv, FreshInv
<1>5. ASSUME UNCHANGED queue, pc' # "drain" => pc # "drain", writer' # "write" PROVE FreshInv'
  BY <1>5 DEF IInv, FreshInv
<1>6. queue \in Seq(Chunk) /\ Len(queue) \in Nat
  BY <1>1, LenProperties DEF TypeOK
<1>7. ASSUME queue # <<>>, queue' = Tail(queue), \A i \in 1..Len(queue) : ~queue[i].stale
      PROVE  \A i \in 1..Len(queue') : ~queue'[i].stale
  <2>1. /\ Len(Tail(queue)) = Len(queue) - 1
        /\ \A i \in 1..Len(Tail(queue)) : Tail(queue)[i] = queue[i + 1]
    BY <1>6, <1>7, HeadTailProperties
  <2>2. \A i \in 1..(Len(queue) - 1) : i + 1 \in 1..Len(queue)
    BY <1>6, SMT
  <2>. QED  BY <1>7, <2>1, <2>2
<1>8. CASE Env
  <2>1. ASSUME NEW loud \in BOOLEAN, Capture(loud), Len(queue) < QueueCap PROVE FreshInv'
    <3>. DEFINE c == [loud |-> loud, stale |-> FALSE]
    <3>1. c \in Chunk
      BY DEF Chunk
    <3>2. /\ queue' = Append(queue, c)
          /\ Len(queue') = Len(queue) + 1
          /\ \A i \in 1..Len(queue) : queue'[i] = queue[i]
          /\ queue'[Len(queue) + 1] = c
      BY <1>6, <2>1, <3>1, AppendProperties DEF Capture, Push, NotePeak, Captured
    <3>3. \A i \in 1..(Len(queue) + 1) : i \in 1..Len(queue) \/ i = Len(queue) + 1
      BY <1>6, SMT
    <3>4. pc # "drain" => \A i \in 1..Len(queue') : ~queue'[i].stale
      <4>. HIDE DEF c
      <4>1. ~c.stale
        BY DEF c
      <4>. QED  BY <3>2, <3>3, <4>1 DEF IInv, FreshInv
    <3>. QED  BY <2>1, <3>4 DEF Capture, IInv, FreshInv
  <2>2. ASSUME NEW loud \in BOOLEAN, Capture(loud), ~(Len(queue) < QueueCap) PROVE FreshInv'
    BY <1>4, <2>2 DEF Capture, Push, NotePeak, Captured
  <2>. QED  BY <1>4, <1>8, <2>1, <2>2 DEF Env, Tick, ClockIsSet, Stop
<1>9. CASE Main
  <2>1. CASE Connect
    <3>1. writer' = "none"
      BY <2>1 DEF Connect, IInv
    <3>2. pc' # "drain" => UNCHANGED queue /\ pc # "drain"
      BY <2>1 DEF Connect, SessionEnds
    <3>. QED  BY <3>1, <3>2 DEF IInv, FreshInv
  <2>2. CASE DrainQueue
    <3>1. pc' # "drain" => queue' = <<>>
      BY <2>2 DEF DrainQueue
    <3>2. \A i \in 1..Len(<<>>) : FALSE
      BY SMT
    <3>3. writer' = "none"
      BY <2>2 DEF DrainQueue, IInv
    <3>. QED  BY <3>1, <3>2, <3>3 DEF FreshInv
  <2>3. CASE StartWriter
    <3>1. UNCHANGED queue /\ pc # "drain"
      BY <2>3 DEF StartWriter
    <3>2. writer' # "write"
      BY <2>3 DEF StartWriter, IInv
    <3>. QED  BY <1>5, <3>1, <3>2
  <2>4. CASE Join
    <3>1. UNCHANGED queue /\ pc # "drain" /\ writer' = "none"
      BY <2>4 DEF Join
    <3>. QED  BY <1>5, <3>1
  <2>. QED  BY <1>4, <1>9, <2>1, <2>2, <2>3, <2>4 DEF Main, Top, Pause, Watch
<1>10. CASE Writer
  <2>1. CASE Poll
    <3>1. ASSUME hand' = Head(queue), queue # <<>> PROVE ~hand'.stale
      <4>1. Head(queue) = queue[1] /\ 1 \in 1..Len(queue)
        BY <1>6, <3>1, EmptySeq, SMT
      <4>2. pc # "drain"
        BY <2>1 DEF Poll, IInv
      <4>. QED  BY <3>1, <4>1, <4>2 DEF IInv, FreshInv
    <3>2. CASE stop
      <4>1. UNCHANGED <<queue, pc>> /\ writer' # "write"
        BY <2>1, <3>2 DEF Poll
      <4>. QED  BY <1>5, <4>1
    <3>3. CASE ~stop
      <4>1. queue # <<>> /\ queue' = Tail(queue) /\ hand' = Head(queue) /\ pc' = pc
        BY <2>1, <3>3 DEF Poll
      <4>2. pc # "drain"
        BY <2>1 DEF Poll, IInv
      <4>3. \A i \in 1..Len(queue) : ~queue[i].stale
        BY <4>2 DEF IInv, FreshInv
      <4>. QED  BY <1>7, <3>1, <4>1, <4>3 DEF FreshInv
    <3>. QED  BY <3>2, <3>3
  <2>2. CASE WriteOk \/ WriteErr
    <3>1. UNCHANGED <<queue, pc>> /\ writer' # "write"
      BY <2>2 DEF WriteOk, WriteErr
    <3>. QED  BY <1>5, <3>1
  <2>. QED  BY <1>10, <2>1, <2>2 DEF Writer
<1>11. CASE Exited \/ UNCHANGED vars
  BY <1>4, <1>11 DEF Exited
<1>. QED  BY <1>8, <1>9, <1>10, <1>11 DEF Next

\* The inductive invariant holds in every reachable state.
THEOREM Invariance == Spec => []IInv
<1>1. Init => IInv
  <2>. SUFFICES ASSUME Init PROVE IInv
    OBVIOUS
  <2>1. Len(<<>>) = 0 /\ 1..0 = {}
    BY EmptySeq, SMT
  <2>. QED  BY <2>1, TypeInit DEF Init, IInv, FreshInv
<1>. QED  BY <1>1, InvNext, PTL DEF Spec

\* No session ever carries audio captured before it connected.
THEOREM StartsFresh == Spec => []NoStaleAudio
<1>1. IInv => NoStaleAudio
  BY DEF IInv, FreshInv, NoStaleAudio
<1>. QED  BY <1>1, Invariance, PTL

\* At most one net-writer runs, and only inside its own session.
THEOREM WriterJoined == Spec => []OneWriter
<1>1. IInv => OneWriter
  BY DEF IInv, OneWriter
<1>. QED  BY <1>1, Invariance, PTL
----------------------------------------------------------------------------
(* The abstract sender.                                                    *)

\* What run and try_session do to the connection, seen from the Pi: it dials
\* only with sound, and has one connection at a time.
THEOREM ImplementsLink == Spec => LinkSpec
<1>. DEFINE lnk == IF pc = "exit" THEN "off"
                   ELSE IF Holding THEN "up"
                   ELSE IF pc = "connect" THEN "dialing" ELSE "down"
<1>1. Init => Link!Init
  BY DEF Init, Link!Init, Holding, Asleep, Active, SmartSleep
<1>2. TypeOK /\ [Next]_vars => [Link!Next]_(Link!linkVars)
  <2>. SUFFICES ASSUME TypeOK, [Next]_vars PROVE [Link!Next]_(Link!linkVars)
    OBVIOUS
  <2>. USE DEF vars, loop, net, Holding
  <2>1. ASSUME UNCHANGED <<pc, shut>> PROVE [Link!Next]_(Link!linkVars)
    <3>1. lnk' = lnk
      BY <2>1
    <3>2. (~Asleep)' = ~Asleep \/ (~Asleep)' = ~(~Asleep)
      BY DEF Asleep
    <3>. QED  BY <3>1, <3>2 DEF Link!Next, Link!SoundChanges, Link!linkVars
  <2>2. ASSUME UNCHANGED quiet PROVE (~Asleep)' = ~Asleep
    BY <2>2 DEF Asleep, Active, SmartSleep
  <2>3. CASE Main
    <3>1. UNCHANGED quiet
      BY <2>3 DEF Main, Top, Pause, Connect, DrainQueue, StartWriter, Watch, Join
    <3>. USE <2>2, <3>1 DEF Link!Next, Link!linkVars
    <3>2. CASE Top
      BY <3>2 DEF Top, Link!BeginDial, Link!Exit
    <3>3. CASE Connect
      BY <3>3 DEF Connect, SessionEnds, Link!DialEnds, Link!Exit
    <3>4. CASE Pause \/ DrainQueue
      BY <3>4 DEF Pause, DrainQueue
    <3>5. CASE StartWriter \/ Join
      BY <3>5 DEF StartWriter, Join, SessionEnds, Link!HangUp, Link!Exit
    <3>6. CASE Watch
      BY <3>6 DEF Watch, Link!HangUp
    <3>. QED  BY <2>3, <3>2, <3>3, <3>4, <3>5, <3>6 DEF Main
  <2>4. CASE Env \/ Writer \/ Exited \/ UNCHANGED vars
    <3>1. UNCHANGED <<pc, shut>>
      BY <2>4 DEF Env, Capture, Tick, ClockIsSet, Stop, Writer, Poll, WriteOk, WriteErr, Exited
    <3>. QED  BY <2>1, <3>1
  <2>. QED  BY <2>3, <2>4 DEF Next
<1>. QED  BY <1>1, <1>2, TypeCorrect, PTL DEF Spec, LinkSpec, Link!Spec
=============================================================================
