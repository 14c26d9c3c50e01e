-------------------------- MODULE PiSessionProofs --------------------------
(***************************************************************************)
(* Proofs about one session of pi-receiver, for every frame size, read     *)
(* size, channel capacity and stream length.                               *)
(***************************************************************************)
EXTENDS PiSession, SequenceTheorems, TLAPS

----------------------------------------------------------------------------
(* Arithmetic and sequence facts the proofs rest on.                       *)

\* Multiplying by a natural number preserves order.
LEMMA TimesMonotone ==
    ASSUME NEW m \in Nat, NEW n \in Nat, NEW k \in Nat, m <= n
    PROVE  m * k <= n * k /\ m * k \in Nat
<1>1. PICK d \in Nat : n = m + d
  BY SMT
<1>2. n * k = m * k + d * k
  BY <1>1, SMT
<1>3. d * k \in Nat /\ m * k \in Nat
  BY <1>1, SMT
<1>. QED  BY <1>2, <1>3, SMT

\* One more chunk of at most ReadChunk bytes after n of them.
LEMMA OneMoreChunk ==
    ASSUME NEW lo \in Nat, NEW b \in Nat, NEW c \in Nat, NEW n \in Nat,
           b - lo <= n * ReadChunk, c - b <= ReadChunk
    PROVE  c - lo <= (n + 1) * ReadChunk
<1>1. n * ReadChunk \in Nat /\ ReadChunk \in Nat
  BY SessionAssumption, SMT
<1>2. (n + 1) * ReadChunk = n * ReadChunk + ReadChunk
  BY SessionAssumption, SMT
<1>. QED  BY <1>1, <1>2, SMT

\* The frames a chunk holds fit in it (the rounding down in run).
LEMMA FramesFit ==
    ASSUME NEW size \in Nat, NEW f \in 1..(size \div FrameBytes)
    PROVE  /\ f \in Nat \ {0}
           /\ f * FrameBytes \in Nat \ {0}
           /\ f * FrameBytes <= size
           /\ f <= size
<1>. USE SessionAssumption
<1>1. (size \div FrameBytes) \in Nat /\ (size \div FrameBytes) * FrameBytes <= size
  BY SMT
<1>2. f \in Nat \ {0} /\ f <= size \div FrameBytes
  BY <1>1, SMT
<1>3. f * FrameBytes <= (size \div FrameBytes) * FrameBytes /\ f * FrameBytes \in Nat
  BY <1>1, <1>2, TimesMonotone
<1>4. f <= f * FrameBytes
  BY <1>2, SMT
<1>. QED  BY <1>1, <1>2, <1>3, <1>4, SMT

\* What writing n bytes from position lo on does to the device.
LEMMA Written ==
    ASSUME NEW d \in Seq(Nat), NEW n \in Nat, NEW lo \in Nat
    PROVE  LET e == d \o [k \in 1..n |-> lo + k - 1] IN
             /\ e \in Seq(Nat)
             /\ Len(e) = Len(d) + n
             /\ \A i \in 1..Len(d) : e[i] = d[i]
             /\ \A i \in (Len(d) + 1)..(Len(d) + n) : e[i] = lo + i - Len(d) - 1
<1>. DEFINE w == [k \in 1..n |-> lo + k - 1]
<1>1. w \in Seq(Nat) /\ Len(w) = n
  <2>1. \A k \in 1..n : lo + k - 1 \in Nat
    BY SMT
  <2>2. w \in [1..n -> Nat]
    BY <2>1
  <2>. QED  BY <2>2, SMT
<1>2. /\ d \o w \in Seq(Nat)
      /\ Len(d \o w) = Len(d) + Len(w)
      /\ \A i \in 1 .. Len(d) + Len(w) : (d \o w)[i] = IF i <= Len(d) THEN d[i] ELSE w[i - Len(d)]
  <2>. HIDE DEF w
  <2>. QED  BY <1>1, ConcatProperties
<1>3. Len(d) \in Nat
  BY LenProperties
<1>4. \A i \in (Len(d) + 1)..(Len(d) + n) : w[i - Len(d)] = lo + i - Len(d) - 1
  BY <1>3, SMT
<1>. QED
  <2>. HIDE DEF w
  <2>. QED  BY <1>1, <1>2, <1>3, <1>4, SMT DEF w

----------------------------------------------------------------------------
(* Type correctness.                                                       *)

LEMMA ChunkFacts ==
    /\ NoChunk \in Chunk /\ Size(NoChunk) = 0
    /\ \A c \in Chunk : c.lo \in Nat /\ c.hi \in Nat /\ Size(c) \in Int
BY SMT DEF NoChunk, Chunk, Size

LEMMA TypeInit == Init => TypeOK
<1>. SUFFICES ASSUME Init PROVE TypeOK
  OBVIOUS
<1>1. <<>> \in Seq(Chunk) /\ <<>> \in Seq(Nat) /\ Len(<<>>) = 0
  BY EmptySeq
<1>2. sent \in 0..StreamLen /\ rcvd \in 0..sent /\ Len(chan) <= ChanCap
  BY <1>1, SessionAssumption, SMT DEF Init
<1>. QED  BY <1>1, <1>2, ChunkFacts, Zenon DEF Init, TypeOK

LEMMA TypeNext == TypeOK /\ [Next]_vars => TypeOK'
<1>. SUFFICES ASSUME TypeOK, [Next]_vars PROVE TypeOK'
  OBVIOUS
<1>. USE DEF TypeOK, wire, net, alsa, ctl, vars
<1>1. CASE Env
  <2>1. CASE PeerSend
    BY <2>1, SessionAssumption, SMT DEF PeerSend
  <2>2. CASE PeerLeaves
    BY <2>2, SMT DEF PeerLeaves
  <2>3. CASE Stop
    BY <2>3, SMT DEF Stop
  <2>. QED  BY <1>1, <2>1, <2>2, <2>3 DEF Env
<1>2. CASE Main
  <2>1. CASE OpenFails
    BY <2>1, SMT DEF OpenFails, Return
  <2>2. CASE StartWriter
    BY <2>2, SMT DEF StartWriter, Return
  <2>3. CASE StartReader
    BY <2>3, SMT DEF StartReader, Return
  <2>4. CASE Watch
    <3>1. /\ main' = "joinNet" /\ shut' \in BOOLEAN
          /\ UNCHANGED <<wire, net, alsa, outcome, stop, chan>>
      BY <2>4, Zenon DEF Watch
    <3>. QED  BY <3>1, SMT
  <2>5. CASE JoinNet
    BY <2>5, SMT DEF JoinNet, Return
  <2>6. CASE JoinAlsa
    BY <2>6, SMT DEF JoinAlsa, Return
  <2>. QED  BY <1>2, <2>1, <2>2, <2>3, <2>4, <2>5, <2>6 DEF Main
<1>3. CASE Reader
  <2>1. CASE SetReadTimeout
    BY <2>1, SMT DEF SetReadTimeout
  <2>2. CASE ReadData
    BY <2>2, SMT DEF ReadData, Chunk
  <2>3. CASE ReadEnds
    BY <2>3, SMT DEF ReadEnds
  <2>4. CASE Push
    <3>1. /\ Append(chan, hand) \in Seq(Chunk)
          /\ Len(Append(chan, hand)) = Len(chan) + 1 /\ Len(chan) \in Nat
      BY AppendProperties, LenProperties
    <3>2. chan' \in Seq(Chunk) /\ Len(chan') <= ChanCap
      <4>1. CASE chan' = chan
        BY <4>1
      <4>2. CASE Len(chan) < ChanCap /\ chan' = Append(chan, hand)
        BY <4>2, <3>1, SessionAssumption, SMT
      <4>. QED  BY <2>4, <4>1, <4>2 DEF Push
    <3>3. reader' \in {"read", "done"} /\ hand' \in Chunk
      BY <2>4, ChunkFacts, Zenon DEF Push
    <3>. QED  BY <2>4, <3>2, <3>3, SMT DEF Push
  <2>. QED  BY <1>3, <2>1, <2>2, <2>3, <2>4 DEF Reader
<1>4. CASE Writer
  <2>1. CASE TakeLeftover
    BY <2>1, ChunkFacts, SMT DEF TakeLeftover
  <2>2. CASE Recv
    <3>1. Head(chan) \in Chunk /\ Tail(chan) \in Seq(Chunk) /\ Len(Tail(chan)) = Len(chan) - 1
      BY <2>2, HeadTailProperties DEF Recv
    <3>. QED  BY <2>2, <3>1, SessionAssumption, LenProperties, SMT DEF Recv
  <2>3. CASE WriteOk
    <3>1. PICK frames \in 1..Frames(chunk) :
            /\ dev' = dev \o [k \in 1..(frames * FrameBytes) |-> chunk.lo + k - 1]
            /\ chunk' = [lo |-> chunk.lo + frames * FrameBytes, hi |-> chunk.hi]
      BY <2>3 DEF WriteOk
    <3>2. frames * FrameBytes \in Nat
      <4>1. frames \in Nat
        BY <3>1, SMT
      <4>. QED  BY <4>1, SessionAssumption, SMT
    <3>3. dev' \in Seq(Nat)
      <4>1. chunk.lo \in Nat
        BY ChunkFacts
      <4>. QED  BY <3>1, <3>2, <4>1, Written
    <3>4. chunk' \in Chunk
      BY <3>1, <3>2, SMT DEF Chunk
    <3>. QED  BY <2>3, <3>3, <3>4 DEF WriteOk
  <2>4. CASE Drain \/ ChunkDone \/ HoldPartialFrame \/ WriteErr \/ Recovered \/ DeviceLost
    BY <2>4, ChunkFacts, SMT
       DEF Drain, ChunkDone, HoldPartialFrame, WriteErr, Recovered, DeviceLost
  <2>. QED  BY <1>4, <2>1, <2>2, <2>3, <2>4 DEF Writer
<1>5. CASE Over \/ UNCHANGED vars
  BY <1>5 DEF Over
<1>. QED  BY <1>1, <1>2, <1>3, <1>4, <1>5 DEF Next

\* Every reachable state of a session is well typed; in particular the channel
\* never holds more than its capacity.
THEOREM TypeCorrect == Spec => []TypeOK
<1>. QED  BY TypeInit, TypeNext, PTL DEF Spec

----------------------------------------------------------------------------
(* The inductive invariant.                                                *)

\* Where the bytes the writer has not finished with end, and where those that
\* the reader has not pushed yet begin.
Front == IF Size(chunk) > 0 THEN chunk.hi
         ELSE IF Size(leftover) > 0 THEN leftover.hi ELSE Len(dev)
Back  == IF Size(hand) > 0 THEN hand.lo ELSE rcvd

\* The reader holds a chunk exactly while it pushes it.
HandInv ==
    /\ Size(hand) \in 0..ReadChunk
    /\ reader = "send" <=> Size(hand) > 0
    /\ Size(hand) > 0 => hand.hi = rcvd
    /\ reader = "none" => rcvd = 0

\* The writer holds a chunk or a leftover, never both, which starts at the
\* next byte of the device.
WriterInv ==
    /\ Size(chunk) \in 0..ReadChunk /\ Size(leftover) \in 0..ReadChunk
    /\ writer \in {"none", "pull", "done"} => Size(chunk) = 0
    /\ writer \in {"none", "write", "recover", "done"} => Size(leftover) = 0
    /\ Size(chunk) > 0 => chunk.lo = Len(dev)
    /\ Size(leftover) > 0 => leftover.lo = Len(dev)

\* While the writer lives, the channel holds, without a gap, the bytes between
\* the writer's and the reader's, at most ReadChunk in each chunk.
ChanInv ==
    /\ \A j \in 1..Len(chan) : Size(chan[j]) \in 1..ReadChunk
    /\ chan = <<>> => Front = Back
    /\ chan # <<>> => chan[1].lo = Front /\ chan[Len(chan)].hi = Back
    /\ \A j \in 1..(Len(chan) - 1) : chan[j].hi = chan[j + 1].lo
    /\ \A j \in 1..Len(chan) : chan[j].lo <= Back
    /\ \A j \in 1..Len(chan) : Back - chan[j].lo <= (Len(chan) - j + 1) * ReadChunk

\* Which threads exist at each point of run_session.
MainInv ==
    /\ main = "open" => writer = "none" /\ reader = "none"
    /\ main = "spawn" => writer # "none" /\ reader = "none"
    /\ main \in {"watch", "joinNet"} => writer # "none"
    /\ main = "joinAlsa" => writer # "none" /\ reader = "done"
    /\ writer = "none" => reader = "none" /\ chan = <<>> /\ dev = <<>>
    /\ writer = "done" => chan = <<>> /\ TxDropped
    /\ outcome # "none" => main = "ended"
    /\ outcome = "ok" => writer = "done" /\ reader = "done"
    /\ outcome = "alsaErr" => writer = "failed"
    /\ outcome = "openErr" => writer = "none"

IInv == /\ TypeOK /\ HandInv /\ MainInv /\ Gapless
        /\ writer # "failed" => WriterInv /\ ChanInv

\* The types the arithmetic below needs, for the chunks and the lengths.
LEMMA Typed ==
    ASSUME TypeOK
    PROVE  /\ hand.lo \in Nat /\ hand.hi \in Nat /\ Size(hand) \in Int
           /\ chunk.lo \in Nat /\ chunk.hi \in Nat /\ Size(chunk) \in Int
           /\ leftover.lo \in Nat /\ leftover.hi \in Nat /\ Size(leftover) \in Int
           /\ Len(chan) \in Nat /\ Len(dev) \in Nat
           /\ rcvd \in Nat /\ sent \in Nat
           /\ \A j \in 1..Len(chan) :
                chan[j] \in Chunk /\ chan[j].lo \in Nat /\ chan[j].hi \in Nat
           /\ Front \in Nat /\ Back \in Nat
<1>1. /\ hand.lo \in Nat /\ hand.hi \in Nat /\ Size(hand) \in Int
      /\ chunk.lo \in Nat /\ chunk.hi \in Nat /\ Size(chunk) \in Int
      /\ leftover.lo \in Nat /\ leftover.hi \in Nat /\ Size(leftover) \in Int
  BY ChunkFacts DEF TypeOK
<1>2. Len(chan) \in Nat /\ Len(dev) \in Nat
  BY LenProperties DEF TypeOK
<1>3. rcvd \in Nat /\ sent \in Nat
  BY SessionAssumption, SMT DEF TypeOK
<1>4. \A j \in 1..Len(chan) : chan[j] \in Chunk
  BY ElementOfSeq DEF TypeOK
<1>. QED  BY <1>1, <1>2, <1>3, <1>4, ChunkFacts DEF Front, Back

\* The bytes the writer holds were received.
LEMMA ChunkIsReceived ==
    ASSUME TypeOK, HandInv, WriterInv, ChanInv, Size(chunk) > 0
    PROVE  chunk.hi <= rcvd
<1>1. Front = chunk.hi /\ Front \in Nat /\ Back \in Nat /\ rcvd \in Nat
  BY Typed DEF Front
<1>2. Back <= rcvd
  <2>1. CASE Size(hand) > 0
    <3>1. Back = hand.lo /\ rcvd = hand.hi /\ hand.hi - hand.lo > 0
      BY <2>1 DEF Back, HandInv, Size
    <3>. QED  BY <1>1, <3>1, Typed, SMT
  <2>2. CASE ~(Size(hand) > 0)
    BY <1>1, <2>2, SMT DEF Back
  <2>. QED  BY <2>1, <2>2
<1>3. Front <= Back
  <2>1. CASE chan = <<>>
    BY <1>1, <2>1, SMT DEF ChanInv
  <2>2. CASE chan # <<>>
    <3>1. 1 \in 1..Len(chan) /\ chan[1].lo = Front
      BY <2>2, EmptySeq, SMT DEF TypeOK, ChanInv
    <3>. QED  BY <3>1 DEF ChanInv
  <2>. QED  BY <2>1, <2>2
<1>. QED  BY <1>1, <1>2, <1>3, SMT

LEMMA InvInit == Init => IInv
<1>. SUFFICES ASSUME Init PROVE IInv
  OBVIOUS
<1>1. TypeOK
  BY TypeInit
<1>2. /\ Len(chan) = 0 /\ Len(dev) = 0 /\ chan = <<>> /\ dev = <<>>
      /\ Size(hand) = 0 /\ Size(chunk) = 0 /\ Size(leftover) = 0
      /\ rcvd = 0 /\ writer = "none" /\ reader = "none" /\ main = "open" /\ outcome = "none"
  BY ChunkFacts, EmptySeq DEF Init
<1>3. HandInv /\ WriterInv /\ MainInv
  BY <1>2, SessionAssumption, SMT DEF HandInv, WriterInv, MainInv
<1>4. Gapless
  BY <1>2, SMT DEF Gapless
<1>5. ChanInv
  BY <1>2, SMT DEF ChanInv, Front, Back
<1>. QED  BY <1>1, <1>3, <1>4, <1>5 DEF IInv

\* Steps of the environment and of main leave the bytes alone, but StartReader
\* and StartWriter bring the workers to life.
LEMMA InvEnvMain ==
    ASSUME IInv, TypeOK', Env \/ Main
    PROVE  IInv'
<1>. USE DEF IInv, wire, net, alsa, ctl
<1>1. UNCHANGED <<rcvd, hand, chan, chunk, leftover, dev>>
  BY DEF Env, PeerSend, PeerLeaves, Stop, Main, OpenFails, StartWriter, StartReader,
         Watch, JoinNet, JoinAlsa
<1>2. Gapless'
  BY <1>1 DEF Gapless
<1>3. Front' = Front /\ Back' = Back
  BY <1>1 DEF Front, Back
<1>4. writer # "failed" => ChanInv'
  BY <1>1, <1>3 DEF ChanInv
<1>5. CASE UNCHANGED <<reader, writer>>
  <2>1. HandInv' /\ (writer # "failed" => WriterInv')
    BY <1>1, <1>5 DEF HandInv, WriterInv
  <2>2. MainInv'
    <3>1. CASE Env
      BY <3>1, <1>1, <1>5 DEF Env, PeerSend, PeerLeaves, Stop, MainInv, TxDropped
    <3>2. CASE OpenFails
      BY <3>2, <1>1, <1>5, SMT DEF OpenFails, Return, MainInv, TxDropped
    <3>3. CASE StartWriter
      BY <3>3, <1>1, <1>5, SMT DEF StartWriter, Return, MainInv, TxDropped
    <3>4. CASE StartReader
      BY <3>4, <1>1, <1>5, SMT DEF StartReader, Return, MainInv, TxDropped
    <3>5. CASE Watch
      <4>1. main = "watch" /\ main' = "joinNet" /\ outcome' = outcome
        BY <3>5, Zenon DEF Watch
      <4>. QED  BY <4>1, <1>1, <1>5, SMT DEF MainInv, TxDropped
    <3>6. CASE JoinNet
      BY <3>6, <1>1, <1>5, SMT DEF JoinNet, Return, MainInv, TxDropped
    <3>7. CASE JoinAlsa
      BY <3>7, <1>1, <1>5, SMT DEF JoinAlsa, Return, MainInv, TxDropped, WriterFinished, TypeOK
    <3>. QED  BY <3>1, <3>2, <3>3, <3>4, <3>5, <3>6, <3>7 DEF Main
  <2>. QED  BY <1>2, <1>4, <1>5, <2>1, <2>2
<1>6. CASE StartWriter /\ main' = "spawn" /\ writer' = "pull" /\ outcome' = outcome
  <2>1. main = "open" /\ reader' = reader
    BY <1>6 DEF StartWriter
  <2>2. HandInv' /\ WriterInv'
    BY <1>1, <1>6, <2>1, SMT DEF HandInv, WriterInv, MainInv
  <2>3. MainInv'
    BY <1>1, <1>6, <2>1, SMT DEF MainInv, TxDropped
  <2>. QED  BY <1>2, <1>4, <1>6, <2>1, <2>2, <2>3 DEF MainInv
<1>7. CASE StartReader /\ main' = "watch" /\ reader' = "start" /\ outcome' = outcome
  <2>1. main = "spawn" /\ writer' = writer
    BY <1>7 DEF StartReader
  <2>2. HandInv' /\ (writer # "failed" => WriterInv')
    BY <1>1, <1>7, <2>1, SMT DEF HandInv, WriterInv, MainInv
  <2>3. MainInv'
    BY <1>1, <1>7, <2>1, SMT DEF MainInv, TxDropped
  <2>. QED  BY <1>2, <1>4, <1>7, <2>1, <2>2, <2>3
<1>. QED
  <2>1. Env => UNCHANGED <<reader, writer>>
    BY DEF Env, PeerSend, PeerLeaves, Stop
  <2>2. OpenFails \/ Watch \/ JoinNet \/ JoinAlsa => UNCHANGED <<reader, writer>>
    BY DEF OpenFails, Watch, JoinNet, JoinAlsa
  <2>3. StartWriter => \/ UNCHANGED <<reader, writer>>
                       \/ main' = "spawn" /\ writer' = "pull" /\ outcome' = outcome
    BY DEF StartWriter
  <2>4. StartReader => \/ UNCHANGED <<reader, writer>>
                       \/ main' = "watch" /\ reader' = "start" /\ outcome' = outcome
    BY DEF StartReader
  <2>. QED  BY <1>5, <1>6, <1>7, <2>1, <2>2, <2>3, <2>4 DEF Main

\* The reader's steps: only Push reaches the channel.
LEMMA InvReader ==
    ASSUME IInv, TypeOK', Reader
    PROVE  IInv'
<1>. USE DEF IInv, wire, net, alsa, ctl
<1>1. UNCHANGED <<alsa, ctl, stop>>
  BY DEF Reader, SetReadTimeout, ReadData, ReadEnds, Push
<1>2. Gapless'
  BY <1>1 DEF Gapless
<1>3. writer # "failed" => WriterInv'
  BY <1>1 DEF WriterInv
<1>4. CASE SetReadTimeout \/ ReadEnds
  <2>1. UNCHANGED <<rcvd, hand, chan>> /\ reader \in {"start", "read"}
        /\ reader' \in {"read", "failed", "done"}
    BY <1>4, SMT DEF SetReadTimeout, ReadEnds
  <2>2. HandInv'
    BY <2>1, SMT DEF HandInv
  <2>3. writer # "failed" => ChanInv'
    BY <1>1, <2>1 DEF ChanInv, Front, Back
  <2>4. MainInv'
    BY <1>1, <2>1, SMT DEF MainInv, TxDropped
  <2>. QED  BY <1>1, <1>2, <1>3, <2>2, <2>3, <2>4
<1>5. CASE ReadData
  <2>1. PICK n \in 1..ReadChunk : rcvd' = rcvd + n /\ hand' = [lo |-> rcvd, hi |-> rcvd + n]
    BY <1>5 DEF ReadData
  <2>2. reader = "read" /\ reader' = "send" /\ chan' = chan
    BY <1>5 DEF ReadData
  <2>3. hand'.lo = rcvd /\ hand'.hi = rcvd + n /\ Size(hand)' = n
    BY <2>1, Typed, SessionAssumption, SMT DEF Size
  <2>4. HandInv'
    BY <2>1, <2>2, <2>3, SessionAssumption, SMT DEF HandInv
  <2>5. Size(hand) = 0
    BY <2>2, SMT DEF HandInv
  <2>6. Front' = Front /\ Back' = Back
    BY <1>1, <2>1, <2>3, <2>5, SessionAssumption, SMT DEF Front, Back
  <2>7. writer # "failed" => ChanInv'
    BY <2>2, <2>6 DEF ChanInv
  <2>8. MainInv'
    BY <1>1, <2>2, SMT DEF MainInv, TxDropped
  <2>. QED  BY <1>1, <1>2, <1>3, <2>4, <2>7, <2>8
<1>6. CASE Push /\ RxDropped
  <2>1. reader = "send" /\ writer = "failed"
    BY <1>6, SMT DEF Push, RxDropped, MainInv, TxDropped
  <2>2. reader' \in {"read", "done"} /\ hand' = NoChunk /\ rcvd' = rcvd /\ Size(hand)' = 0
    BY <1>6, ChunkFacts, SMT DEF Push
  <2>3. HandInv'
    BY <2>1, <2>2, SessionAssumption, SMT DEF HandInv
  <2>4. MainInv'
    BY <1>1, <2>1, <2>2, SMT DEF MainInv, TxDropped
  <2>. QED  BY <1>1, <1>2, <2>1, <2>3, <2>4
<1>7. CASE Push /\ ~RxDropped
  <2>1. /\ reader = "send" /\ reader' = "read" /\ chan' = Append(chan, hand)
        /\ hand' = NoChunk /\ rcvd' = rcvd /\ Size(hand)' = 0
    BY <1>7, ChunkFacts, SMT DEF Push
  <2>2. Size(hand) \in 1..ReadChunk /\ hand.hi = rcvd
    BY <2>1, SessionAssumption, Typed, SMT DEF HandInv
  <2>3. HandInv'
    BY <2>1, SessionAssumption, SMT DEF HandInv
  <2>4. MainInv'
    BY <1>1, <2>1, SMT DEF MainInv, TxDropped
  <2>5. ASSUME writer # "failed" PROVE ChanInv'
    <3>. DEFINE len == Len(chan)
    <3>1. /\ len \in Nat /\ Len(chan') = len + 1 /\ chan' # <<>>
          /\ \A j \in 1..len : chan'[j] = chan[j]
          /\ chan'[len + 1] = hand
      BY <2>1, AppendProperties, Typed DEF TypeOK
    <3>2. Front' = Front /\ Back = hand.lo /\ Back' = hand.hi
      BY <1>1, <2>1, <2>2, Typed, SessionAssumption, SMT DEF Front, Back
    <3>3. \A j \in 1..(len + 1) : Size(chan'[j]) \in 1..ReadChunk
      BY <2>2, <2>5, <3>1, SMT DEF ChanInv
    <3>4. chan'[1].lo = Front' /\ chan'[len + 1].hi = Back'
      <4>1. CASE chan = <<>>
        BY <2>5, <3>1, <3>2, <4>1, EmptySeq, SMT DEF ChanInv
      <4>2. CASE chan # <<>>
        <5>1. len >= 1
          BY <4>2, EmptySeq, SMT DEF TypeOK
        <5>. QED  BY <2>5, <3>1, <3>2, <4>2, <5>1, SMT DEF ChanInv
      <4>. QED  BY <4>1, <4>2
    <3>5. \A j \in 1..len : chan'[j].hi = chan'[j + 1].lo
      <4>. SUFFICES ASSUME NEW j \in 1..len PROVE chan'[j].hi = chan'[j + 1].lo
        OBVIOUS
      <4>1. CASE j = len
        <5>1. chan # <<>>
          BY <3>1, EmptySeq, SMT
        <5>. QED  BY <2>5, <3>1, <3>2, <4>1, <5>1, SMT DEF ChanInv
      <4>2. CASE j < len
        <5>1. chan[j].hi = chan[j + 1].lo /\ j + 1 \in 1..len
          BY <2>5, <3>1, <4>2, SMT DEF ChanInv
        <5>. QED  BY <3>1, <5>1
      <4>. QED  BY <3>1, <4>1, <4>2, SMT
    <3>6. \A j \in 1..(len + 1) : Back' - chan'[j].lo <= (len + 1 - j + 1) * ReadChunk
      <4>. SUFFICES ASSUME NEW j \in 1..(len + 1)
                    PROVE  Back' - chan'[j].lo <= (len + 1 - j + 1) * ReadChunk
        OBVIOUS
      <4>1. Back' - Back <= ReadChunk
        BY <2>2, <3>2, Typed, SMT DEF Size
      <4>2. CASE j = len + 1
        <5>1. len + 1 - j + 1 = 1 /\ chan'[j].lo = Back
          BY <3>1, <3>2, <4>2, SMT
        <5>2. 1 * ReadChunk = ReadChunk
          BY SessionAssumption, SMT
        <5>. QED  BY <4>1, <5>1, <5>2
      <4>3. CASE j \in 1..len
        <5>1. Back - chan[j].lo <= (len - j + 1) * ReadChunk
          BY <2>5, <4>3 DEF ChanInv
        <5>2. chan'[j].lo = chan[j].lo /\ chan[j].lo \in Nat /\ Back \in Nat /\ Back' \in Nat
          BY <2>2, <3>1, <3>2, <4>3, Typed
        <5>3. len - j + 1 \in Nat /\ len + 1 - j + 1 = (len - j + 1) + 1
          BY <3>1, <4>3, SMT
        <5>. QED  BY <4>1, <5>1, <5>2, <5>3, OneMoreChunk
      <4>. QED  BY <3>1, <4>2, <4>3, SMT
    <3>7. \A j \in 1..(len + 1) : chan'[j].lo <= Back'
      <4>1. Back <= Back' /\ Back \in Nat /\ Back' \in Nat
        BY <2>2, <3>2, Typed, SMT DEF Size
      <4>2. \A j \in 1..len : chan'[j].lo <= Back /\ chan'[j].lo \in Nat
        BY <2>5, <3>1, Typed DEF ChanInv
      <4>. QED  BY <3>1, <3>2, <4>1, <4>2, SMT
    <3>. QED  BY <3>1, <3>3, <3>4, <3>5, <3>6, <3>7, SMT DEF ChanInv
  <2>. QED  BY <1>1, <1>2, <1>3, <2>3, <2>4, <2>5
<1>. QED  BY <1>4, <1>5, <1>6, <1>7 DEF Reader

\* The writer's steps: Recv takes from the channel, WriteOk plays, the others
\* only move the bytes between the chunk and the leftover.
LEMMA InvWriter ==
    ASSUME IInv, TypeOK', Writer
    PROVE  IInv'
<1>. USE DEF IInv, wire, net, ctl
<1>1. UNCHANGED <<rcvd, reader, hand, main, outcome>> /\ writer \in {"pull", "write", "recover"}
  BY SMT DEF Writer, TakeLeftover, Recv, Drain, ChunkDone, HoldPartialFrame, WriteOk,
             WriteErr, Recovered, DeviceLost
<1>2. HandInv' /\ Back' = Back
  BY <1>1 DEF HandInv, Back
<1>3. WriterInv /\ ChanInv
  BY <1>1
<1>4. ASSUME writer' \in {"pull", "write", "recover", "failed"}, dev' = dev PROVE MainInv' /\ Gapless'
  BY <1>1, <1>4, SMT DEF MainInv, TxDropped, Gapless
<1>5. ASSUME Front' = Front, chan' = chan PROVE ChanInv'
  BY <1>2, <1>3, <1>5 DEF ChanInv
<1>6. CASE TakeLeftover
  <2>1. /\ writer = "pull" /\ writer' = "write" /\ Size(leftover) > 0
        /\ chunk' = leftover /\ leftover' = NoChunk /\ UNCHANGED <<chan, dev>>
    BY <1>6 DEF TakeLeftover
  <2>2. Size(chunk)' = Size(leftover) /\ Size(leftover)' = 0 /\ Size(chunk) = 0
    BY <1>3, <2>1, ChunkFacts, SMT DEF WriterInv, Size
  <2>3. WriterInv'
    BY <1>3, <2>1, <2>2, Typed, SMT DEF WriterInv
  <2>4. Front' = Front
    BY <2>1, <2>2 DEF Front
  <2>. QED  BY <1>2, <1>4, <1>5, <2>1, <2>3, <2>4
<1>7. CASE Drain
  <2>1. /\ writer = "pull" /\ writer' = "done" /\ Size(leftover) = 0 /\ chan = <<>> /\ TxDropped
        /\ UNCHANGED <<chan, chunk, leftover, dev>>
    BY <1>7 DEF Drain
  <2>2. WriterInv'
    BY <1>3, <2>1, SMT DEF WriterInv
  <2>3. Front' = Front
    BY <2>1 DEF Front
  <2>4. MainInv' /\ Gapless'
    BY <1>1, <2>1, SMT DEF MainInv, TxDropped, Gapless
  <2>. QED  BY <1>2, <1>5, <2>1, <2>2, <2>3, <2>4
<1>8. CASE ChunkDone
  <2>1. /\ writer = "write" /\ writer' = "pull" /\ Size(chunk) = 0
        /\ chunk' = NoChunk /\ UNCHANGED <<chan, leftover, dev>>
    BY <1>8 DEF ChunkDone
  <2>2. Size(chunk)' = 0
    BY <2>1, ChunkFacts
  <2>3. WriterInv'
    BY <1>3, <2>1, <2>2, SMT DEF WriterInv
  <2>4. Front' = Front
    BY <2>1, <2>2, SMT DEF Front
  <2>. QED  BY <1>2, <1>4, <1>5, <2>1, <2>3, <2>4
<1>9. CASE HoldPartialFrame
  <2>1. /\ writer = "write" /\ writer' = "pull" /\ Size(chunk) > 0
        /\ leftover' = chunk /\ chunk' = NoChunk /\ UNCHANGED <<chan, dev>>
    BY <1>9 DEF HoldPartialFrame
  <2>2. Size(chunk)' = 0 /\ Size(leftover)' = Size(chunk) /\ Size(leftover) = 0
    BY <1>3, <2>1, ChunkFacts, SMT DEF WriterInv, Size
  <2>3. WriterInv'
    BY <1>3, <2>1, <2>2, Typed, SMT DEF WriterInv
  <2>4. Front' = Front
    BY <2>1, <2>2, SMT DEF Front
  <2>. QED  BY <1>2, <1>4, <1>5, <2>1, <2>3, <2>4
<1>10. CASE WriteErr \/ Recovered \/ DeviceLost
  <2>1. /\ writer \in {"write", "recover"} /\ writer' \in {"write", "recover", "failed"}
        /\ UNCHANGED <<chan, chunk, leftover, dev>>
    BY <1>10, SMT DEF WriteErr, Recovered, DeviceLost
  <2>2. WriterInv'
    BY <1>3, <2>1, SMT DEF WriterInv
  <2>3. Front' = Front
    BY <2>1 DEF Front
  <2>. QED  BY <1>2, <1>4, <1>5, <2>1, <2>2, <2>3
<1>11. CASE Recv
  <2>. DEFINE len == Len(chan)
  <2>1. /\ writer = "pull" /\ writer' = "write" /\ Size(leftover) = 0 /\ chan # <<>>
        /\ chunk' = Head(chan) /\ chan' = Tail(chan) /\ UNCHANGED <<leftover, dev>>
    BY <1>11 DEF Recv
  <2>2. /\ len \in Nat /\ len >= 1 /\ Head(chan) = chan[1]
        /\ chan' \in Seq(Chunk) /\ Len(chan') = len - 1
        /\ \A j \in 1..(len - 1) : chan'[j] = chan[j + 1]
    BY <2>1, EmptySeq, LenProperties, HeadTailProperties, SMT DEF TypeOK
  <2>3. /\ Size(chunk)' \in 1..ReadChunk /\ Size(chunk) = 0
        /\ chan[1].lo = Len(dev)
    BY <1>3, <2>1, <2>2, SMT DEF WriterInv, ChanInv, Front, Size
  <2>4. WriterInv'
    BY <1>3, <2>1, <2>2, <2>3, SessionAssumption, SMT DEF WriterInv
  <2>5. Front' = chan[1].hi
    BY <2>1, <2>2, <2>3, SessionAssumption, SMT DEF Front
  <2>6. ChanInv'
    <3>1. \A j \in 1..(len - 1) : Size(chan'[j]) \in 1..ReadChunk
      <4>. SUFFICES ASSUME NEW j \in 1..(len - 1) PROVE Size(chan'[j]) \in 1..ReadChunk
        OBVIOUS
      <4>1. j + 1 \in 1..len /\ chan'[j] = chan[j + 1]
        BY <2>2, SMT
      <4>. QED  BY <1>3, <4>1 DEF ChanInv
    <3>2. CASE len = 1
      <4>1. chan' = <<>>
        BY <2>2, <3>2, EmptySeq, SMT
      <4>2. Front' = Back'
        BY <1>2, <1>3, <2>1, <2>5, <3>2 DEF ChanInv
      <4>. QED  BY <2>2, <3>2, <4>1, <4>2, SMT DEF ChanInv
    <3>3. CASE len > 1
      <4>1. chan' # <<>>
        BY <2>2, <3>3, EmptySeq, SMT
      <4>2. chan'[1].lo = Front'
        <5>1. 1 \in 1..(len - 1) /\ chan[1].hi = chan[2].lo
          BY <1>3, <2>2, <3>3, SMT DEF ChanInv
        <5>. QED  BY <2>2, <2>5, <5>1, SMT
      <4>3. chan'[len - 1].hi = Back'
        <5>1. len - 1 \in 1..(len - 1) /\ chan'[len - 1] = chan[len]
          BY <2>2, <3>3, SMT
        <5>. QED  BY <1>2, <1>3, <2>1, <5>1 DEF ChanInv
      <4>4. \A j \in 1..(len - 2) : chan'[j].hi = chan'[j + 1].lo
        <5>. SUFFICES ASSUME NEW j \in 1..(len - 2) PROVE chan'[j].hi = chan'[j + 1].lo
          OBVIOUS
        <5>1. j \in 1..(len - 1) /\ j + 1 \in 1..(len - 1) /\ chan[j + 1].hi = chan[(j + 1) + 1].lo
          BY <1>3, <2>2, SMT DEF ChanInv
        <5>. QED  BY <2>2, <5>1
      <4>5. \A j \in 1..(len - 1) : Back' - chan'[j].lo <= (len - 1 - j + 1) * ReadChunk
        <5>. SUFFICES ASSUME NEW j \in 1..(len - 1)
                      PROVE  Back' - chan'[j].lo <= (len - 1 - j + 1) * ReadChunk
          OBVIOUS
        <5>1. j + 1 \in 1..len /\ len - (j + 1) + 1 = len - 1 - j + 1
          BY <2>2, SMT
        <5>2. Back - chan[j + 1].lo <= (len - (j + 1) + 1) * ReadChunk
          BY <1>3, <5>1 DEF ChanInv
        <5>. QED  BY <1>2, <2>2, <5>1, <5>2
      <4>6. \A j \in 1..(len - 1) : chan'[j].lo <= Back'
        <5>1. \A j \in 1..(len - 1) : j + 1 \in 1..len
          BY <2>2, SMT
        <5>. QED  BY <1>2, <1>3, <2>2, <5>1 DEF ChanInv
      <4>. QED  BY <2>2, <3>1, <4>1, <4>2, <4>3, <4>4, <4>5, <4>6, SMTT(30) DEF ChanInv
    <3>. QED  BY <2>2, <3>2, <3>3, SMT
  <2>. QED  BY <1>2, <1>4, <2>1, <2>4, <2>6
<1>12. CASE WriteOk
  <2>1. PICK frames \in 1..Frames(chunk) :
          /\ dev' = dev \o [k \in 1..(frames * FrameBytes) |-> chunk.lo + k - 1]
          /\ chunk' = [lo |-> chunk.lo + frames * FrameBytes, hi |-> chunk.hi]
    BY <1>12 DEF WriteOk
  <2>2. writer = "write" /\ UNCHANGED <<writer, chan, leftover>>
    BY <1>12 DEF WriteOk
  <2>. DEFINE n == frames * FrameBytes
  <2>3. Size(chunk) \in Nat
    BY <1>3, SessionAssumption, SMT DEF WriterInv
  <2>4. n \in Nat \ {0} /\ n <= Size(chunk)
    BY <2>1, <2>3, FramesFit DEF Frames
  <2>. HIDE DEF n
  <2>5. /\ Size(chunk)' = Size(chunk) - n /\ chunk'.lo = chunk.lo + n /\ chunk'.hi = chunk.hi
        /\ Size(chunk) > 0 /\ chunk.lo = Len(dev)
    <3>1. chunk' = [lo |-> chunk.lo + n, hi |-> chunk.hi]
      BY <2>1 DEF n
    <3>2. chunk'.lo = chunk.lo + n /\ chunk'.hi = chunk.hi
      BY <3>1
    <3>3. Size(chunk)' = Size(chunk) - n
      <4>1. Size(chunk)' = chunk'.hi - chunk'.lo
        BY DEF Size
      <4>2. Size(chunk) = chunk.hi - chunk.lo
        BY DEF Size
      <4>3. chunk.hi \in Nat /\ chunk.lo \in Nat /\ n \in Nat
        BY <2>4, Typed
      <4>4. chunk.hi - (chunk.lo + n) = chunk.hi - chunk.lo - n
        BY <4>3, SMT
      <4>. QED  BY <3>2, <4>1, <4>2, <4>4
    <3>4. Size(chunk) > 0
      BY <2>3, <2>4, SMT
    <3>. QED  BY <1>3, <3>2, <3>3, <3>4 DEF WriterInv
  <2>6. /\ Len(dev') = Len(dev) + n
        /\ \A i \in 1..Len(dev) : dev'[i] = dev[i]
        /\ \A i \in (Len(dev) + 1)..(Len(dev) + n) : dev'[i] = chunk.lo + i - Len(dev) - 1
    <3>1. dev' = dev \o [k \in 1..n |-> chunk.lo + k - 1]
      BY <2>1 DEF n
    <3>2. dev \in Seq(Nat) /\ chunk.lo \in Nat /\ n \in Nat
      BY <2>4, Typed DEF TypeOK
    <3>. QED  BY <3>1, <3>2, Written
  <2>7. Gapless'
    <3>. SUFFICES ASSUME NEW i \in 1..(Len(dev) + n) PROVE dev'[i] = i - 1
      BY <2>6 DEF Gapless
    <3>1. CASE i \in 1..Len(dev)
      BY <2>6, <3>1 DEF Gapless
    <3>2. CASE i \in (Len(dev) + 1)..(Len(dev) + n)
      BY <2>5, <2>6, <3>2, Typed, SMT
    <3>. QED  BY <2>4, <3>1, <3>2, Typed, SMT
  <2>8. Size(leftover) = 0 /\ Size(leftover)' = 0
    BY <1>3, <2>2, SMT DEF WriterInv
  <2>9. WriterInv'
    <3>1. Size(chunk) <= ReadChunk /\ Len(dev) \in Nat
      BY <1>3, Typed, SMT DEF WriterInv
    <3>2. Size(chunk)' \in 0..ReadChunk /\ chunk'.lo = Len(dev')
      BY <2>3, <2>4, <2>5, <2>6, <3>1, SessionAssumption, SMT
    <3>. QED  BY <2>2, <2>8, <3>2, SessionAssumption, SMT DEF WriterInv
  <2>10. Front' = Front
    <3>1. Front = chunk.hi
      BY <2>5 DEF Front
    <3>2. CASE Size(chunk)' > 0
      BY <2>5, <3>1, <3>2 DEF Front
    <3>3. CASE Size(chunk)' = 0
      <4>1. Size(chunk) = n /\ chunk.hi = Len(dev')
        <5>1. Size(chunk) = n
          BY <2>3, <2>4, <2>5, <3>3, SMT
        <5>2. chunk.hi = chunk.lo + n
          <6>1. chunk.hi \in Nat /\ chunk.lo \in Nat /\ n \in Nat /\ chunk.hi - chunk.lo = n
            BY <2>4, <5>1, Typed DEF Size
          <6>. QED  BY <6>1, SMT
        <5>. QED  BY <2>5, <2>6, <5>1, <5>2
      <4>2. Front' = Len(dev')
        <5>1. ~(Size(chunk)' > 0) /\ ~(Size(leftover)' > 0)
          BY <2>8, <3>3, SMT
        <5>. QED  BY <5>1 DEF Front
      <4>. QED  BY <3>1, <4>1, <4>2
    <3>. QED  BY <2>3, <2>4, <2>5, <3>2, <3>3, SMT
  <2>11. MainInv'
    BY <1>1, <2>2, SMT DEF MainInv, TxDropped
  <2>. QED  BY <1>2, <1>5, <2>2, <2>7, <2>9, <2>10, <2>11
<1>. QED  BY <1>6, <1>7, <1>8, <1>9, <1>10, <1>11, <1>12 DEF Writer

\* The inductive invariant holds in every reachable state.
THEOREM Invariance == Spec => []IInv
<1>1. IInv /\ [Next]_vars => IInv'
  <2>. SUFFICES ASSUME IInv, [Next]_vars PROVE IInv'
    OBVIOUS
  <2>1. TypeOK'
    BY TypeNext DEF IInv
  <2>2. CASE UNCHANGED vars
    BY <2>2 DEF vars, wire, net, alsa, ctl, IInv, TypeOK, HandInv, MainInv, TxDropped, Gapless,
                WriterInv, ChanInv, Front, Back
  <2>. QED  BY <2>1, <2>2, InvEnvMain, InvReader, InvWriter DEF Next, Over
<1>. QED  BY <1>1, InvInit, PTL DEF Spec

----------------------------------------------------------------------------
(* What the invariant gives.                                               *)

\* The device plays the stream gap-free and in order, whatever the frame size,
\* the sizes of the reads and of the writes, and the errors in between.
THEOREM PlaysGapless == Spec => []Gapless
<1>1. IInv => Gapless
  BY DEF IInv
<1>. QED  BY <1>1, Invariance, PTL

LEMMA HoldIsBounded == IInv => BoundedHold
<1>. SUFFICES ASSUME IInv, writer # "failed"
              PROVE  rcvd - Len(dev) <= (ChanCap + 2) * ReadChunk
  BY DEF BoundedHold
<1>. USE DEF IInv
<1>. DEFINE len == Len(chan)
<1>1. /\ len \in Nat /\ len <= ChanCap /\ ChanCap \in Nat /\ ReadChunk \in Nat
      /\ Front \in Nat /\ Back \in Nat /\ rcvd \in Nat /\ Len(dev) \in Nat
  BY Typed, SessionAssumption DEF TypeOK
<1>2. Front - Len(dev) <= ReadChunk
  <2>1. CASE Size(chunk) > 0
    <3>1. Front = chunk.hi /\ chunk.lo = Len(dev)
      BY <2>1 DEF Front, WriterInv
    <3>. QED  BY <1>1, <2>1, <3>1, Typed, SMT DEF WriterInv, Size
  <2>2. CASE ~(Size(chunk) > 0) /\ Size(leftover) > 0
    <3>1. Front = leftover.hi /\ leftover.lo = Len(dev)
      BY <2>2 DEF Front, WriterInv
    <3>. QED  BY <1>1, <2>2, <3>1, Typed, SMT DEF WriterInv, Size
  <2>3. CASE ~(Size(chunk) > 0) /\ ~(Size(leftover) > 0)
    <3>1. Front = Len(dev)
      BY <2>3 DEF Front
    <3>. QED  BY <1>1, <3>1, SMT
  <2>. QED  BY <2>1, <2>2, <2>3
<1>3. rcvd - Back <= ReadChunk
  <2>1. CASE Size(hand) > 0
    <3>1. Back = hand.lo /\ rcvd = hand.hi
      BY <2>1 DEF Back, HandInv
    <3>. QED  BY <1>1, <2>1, <3>1, Typed, SMT DEF HandInv, Size
  <2>2. CASE ~(Size(hand) > 0)
    <3>1. Back = rcvd
      BY <2>2 DEF Back
    <3>. QED  BY <1>1, <3>1, SMT
  <2>. QED  BY <2>1, <2>2
<1>4. Back - Front <= len * ReadChunk
  <2>1. CASE chan = <<>>
    <3>1. Back = Front /\ len * ReadChunk \in Nat
      BY <1>1, <2>1, TimesMonotone DEF ChanInv
    <3>. QED  BY <1>1, <3>1, SMT
  <2>2. CASE chan # <<>>
    <3>1. 1 \in 1..len /\ len - 1 + 1 = len /\ chan[1].lo = Front
      BY <1>1, <2>2, EmptySeq, SMT DEF ChanInv, TypeOK
    <3>. QED  BY <3>1 DEF ChanInv
  <2>. QED  BY <2>1, <2>2
<1>5. Back - Len(dev) <= (len + 1) * ReadChunk
  <2>1. Back - Len(dev) <= len * ReadChunk + ReadChunk /\ len * ReadChunk \in Nat
    <3>1. len * ReadChunk \in Nat
      BY <1>1, TimesMonotone
    <3>. QED  BY <1>1, <1>2, <1>4, <3>1, SMT
  <2>2. (len + 1) * ReadChunk = len * ReadChunk + ReadChunk
    BY <1>1, SMT
  <2>. QED  BY <2>1, <2>2
<1>6. rcvd - Len(dev) <= (len + 1 + 1) * ReadChunk
  BY <1>1, <1>3, <1>5, OneMoreChunk
<1>7. (len + 2) * ReadChunk <= (ChanCap + 2) * ReadChunk
     /\ (len + 2) * ReadChunk \in Nat /\ (ChanCap + 2) * ReadChunk \in Nat
  <2>1. len + 2 \in Nat /\ ChanCap + 2 \in Nat /\ len + 2 <= ChanCap + 2
    BY <1>1, SMT
  <2>. QED  BY <1>1, <2>1, TimesMonotone
<1>8. len + 1 + 1 = len + 2
  BY <1>1, SMT
<1>. QED
  <2>. DEFINE a == (len + 2) * ReadChunk  b == (ChanCap + 2) * ReadChunk
  <2>1. rcvd - Len(dev) <= a /\ a <= b /\ a \in Nat /\ b \in Nat
    BY <1>6, <1>7, <1>8
  <2>. HIDE DEF a, b
  <2>2. rcvd - Len(dev) <= b
    BY <1>1, <2>1, SMT
  <2>. QED  BY <2>2 DEF b

\* The bytes held between the socket and the device never exceed the channel,
\* one chunk in the reader's hands and one in the writer's.
THEOREM HoldsBounded == Spec => []BoundedHold
<1>. QED  BY HoldIsBounded, Invariance, PTL

\* What made a thread end: main shuts the socket down only on a stop, and the
\* reader is done only because of the writer, the stop or the peer.
CauseInv ==
    /\ shut => stop
    /\ reader = "done" => writer = "failed" \/ stop \/ peer # "open"

LEMMA CauseNext == IInv /\ CauseInv /\ [Next]_vars => CauseInv'
<1>. SUFFICES ASSUME IInv, CauseInv, [Next]_vars PROVE CauseInv'
  OBVIOUS
<1>. USE DEF CauseInv, wire, net, alsa, ctl, vars
<1>1. MainInv /\ TypeOK
  BY DEF IInv
<1>2. CASE Env
  BY <1>2 DEF Env, PeerSend, PeerLeaves, Stop
<1>3. CASE Main
  <2>1. (shut' => stop') /\ reader' = "done" => reader = "done"
    BY <1>3 DEF Main, OpenFails, StartWriter, StartReader, Watch, JoinNet, JoinAlsa
  <2>2. writer = "failed" => writer' = "failed"
    BY <1>1, <1>3 DEF Main, OpenFails, StartWriter, StartReader, Watch, JoinNet, JoinAlsa, MainInv
  <2>3. (shut' => stop') /\ UNCHANGED <<stop, peer>>
    BY <1>3 DEF Main, OpenFails, StartWriter, StartReader, Watch, JoinNet, JoinAlsa
  <2>. QED  BY <2>1, <2>2, <2>3
<1>4. CASE Reader
  <2>1. CASE Push
    <3>1. RxDropped => writer = "failed"
      BY <1>1, <2>1 DEF Push, RxDropped, MainInv, TxDropped
    <3>. QED  BY <2>1, <3>1 DEF Push
  <2>. QED  BY <1>4, <2>1 DEF Reader, SetReadTimeout, ReadData, ReadEnds
<1>5. CASE Writer
  BY <1>5 DEF Writer, TakeLeftover, Recv, Drain, ChunkDone, HoldPartialFrame, WriteOk, WriteErr,
              Recovered, DeviceLost
<1>6. CASE Over \/ UNCHANGED vars
  BY <1>6 DEF Over
<1>. QED  BY <1>2, <1>3, <1>4, <1>5, <1>6 DEF Next

\* A session that returns Ok has played every byte it took off the socket, and
\* was ended by its peer or by the stop flag.
THEOREM OkPlaysAll == Spec => []OkMeansPlayed
<1>1. IInv /\ CauseInv => OkMeansPlayed
  <2>. SUFFICES ASSUME IInv, CauseInv, outcome = "ok"
                PROVE  Len(dev) = rcvd /\ (stop \/ peer # "open")
    BY DEF OkMeansPlayed
  <2>. USE DEF IInv
  <2>1. writer = "done" /\ reader = "done" /\ chan = <<>>
    BY DEF MainInv
  <2>2. Size(chunk) = 0 /\ Size(leftover) = 0 /\ ~(Size(hand) > 0)
    BY <2>1, SMT DEF WriterInv, HandInv
  <2>3. Front = Len(dev) /\ Back = rcvd
    BY <2>2, SMT DEF Front, Back
  <2>4. stop \/ peer # "open"
    BY <2>1 DEF CauseInv
  <2>. QED  BY <2>1, <2>3, <2>4 DEF ChanInv
<1>2. Init => CauseInv
  BY DEF Init, CauseInv
<1>. QED  BY <1>1, <1>2, CauseNext, Invariance, PTL DEF Spec

----------------------------------------------------------------------------
(* Nobody waits for everybody                                              *)

\* What a join waits for, and what an early return leaves behind.
JoinInv ==
    /\ main \in {"watch", "joinNet"} => reader # "none"
    /\ main = "joinNet" => ReaderFinished \/ shut
    /\ main = "ended" => reader \in {"none", "done", "failed"}

LEMMA JoinNext == MainInv /\ JoinInv /\ [Next]_vars => JoinInv'
<1>. SUFFICES ASSUME MainInv, JoinInv, [Next]_vars PROVE JoinInv'
  OBVIOUS
<1>. USE DEF MainInv, JoinInv, ReaderFinished, wire, net, alsa, ctl, vars
<1>1. CASE Env
  BY <1>1 DEF Env, PeerSend, PeerLeaves, Stop
<1>2. CASE Main
  BY <1>2 DEF Main, OpenFails, StartWriter, StartReader, Watch, JoinNet, JoinAlsa, Return
<1>3. CASE Reader
  BY <1>3 DEF Reader, SetReadTimeout, ReadData, ReadEnds, Push
<1>4. CASE Writer
  BY <1>4 DEF Writer, TakeLeftover, Recv, Drain, ChunkDone, HoldPartialFrame,
              WriteOk, WriteErr, Recovered, DeviceLost
<1>5. CASE Over \/ UNCHANGED vars
  BY <1>5 DEF Over
<1>. QED  BY <1>1, <1>2, <1>3, <1>4, <1>5 DEF Next

\* A reader that is still at work and not waiting for its peer, or a writer that
\* is, finds one of the two able to go on: the channel is not full and empty.
LEMMA WorkersMeet ==
    ASSUME TypeOK, writer # "none", reader \in {"start", "send"}
    PROVE  ReaderRuns \/ WriterRuns
<1>1. CASE reader = "start"
  BY <1>1 DEF ReaderRuns
<1>2. CASE reader = "send"
  <2>1. CASE Len(chan) < ChanCap
    BY <1>2, <2>1 DEF ReaderRuns
  <2>2. CASE ~(Len(chan) < ChanCap)
    <3>1. chan # <<>>
      BY <2>2, SessionAssumption, EmptySeq, SMT
    <3>. QED  BY <1>2, <3>1 DEF TypeOK, ReaderRuns, WriterRuns, RxDropped
  <2>. QED  BY <2>1, <2>2
<1>. QED  BY <1>1, <1>2

\* The three threads never all wait while there is something to do, for every
\* capacity and frame size.
THEOREM NeverStandsStill == Spec => []NoStandstill
<1>1. TypeOK /\ MainInv /\ JoinInv => NoStandstill
  <2>. SUFFICES ASSUME TypeOK, MainInv, JoinInv, HasWork
                PROVE  MainRuns \/ ReaderRuns \/ WriterRuns
    BY DEF NoStandstill
  <2>1. CASE main \in {"open", "spawn"}
    BY <2>1 DEF MainRuns
  <2>2. CASE main = "watch" /\ ~ReaderFinished /\ ~stop
    <3>1. writer # "none" /\ reader \in {"start", "read", "send"} /\ (peer # "open" \/ rcvd < sent)
      BY <2>2 DEF TypeOK, MainInv, JoinInv, HasWork, ReaderFinished
    <3>. QED  BY <3>1, WorkersMeet DEF ReaderRuns
  <2>3. CASE main = "joinNet" /\ ~ReaderFinished
    <3>1. writer # "none" /\ reader \in {"start", "read", "send"} /\ shut
      BY <2>3 DEF TypeOK, MainInv, JoinInv, ReaderFinished
    <3>. QED  BY <3>1, WorkersMeet DEF ReaderRuns
  <2>4. CASE main \in {"joinAlsa", "ended"} /\ ~WriterFinished
    <3>1. writer # "none" /\ reader \in {"none", "done", "failed"}
      BY <2>4 DEF MainInv, JoinInv, HasWork
    <3>2. TxDropped /\ writer \in {"pull", "write", "recover"}
      BY <2>4, <3>1 DEF TypeOK, TxDropped, WriterFinished
    <3>. QED  BY <3>2 DEF WriterRuns
  <2>. QED  BY <2>1, <2>2, <2>3, <2>4 DEF TypeOK, MainRuns, HasWork
<1>2. Init => JoinInv
  BY DEF Init, JoinInv
<1>3. IInv => MainInv
  BY DEF IInv
<1>. QED  BY <1>1, <1>2, <1>3, JoinNext, TypeCorrect, Invariance, PTL DEF Spec

----------------------------------------------------------------------------
(* The session implements the abstract pipe.                               *)

LEMMA PipeInit == Init => Pipe!Init
BY Zenon DEF Init, Pipe!Init

\* Reading is the pipe's Receive, a successful write its Play, the loss of the
\* device its Break; every other step leaves what the pipe shows unchanged.
LEMMA PipeStep ==
    ASSUME IInv, IInv', BoundedHold', [Next]_vars
    PROVE  [Pipe!Next]_(Pipe!pipeVars)
<1>. USE DEF wire, net, alsa, ctl, Pipe!pipeVars
<1>1. CASE UNCHANGED vars \/ Env \/ Main \/ Over
  <2>1. UNCHANGED <<rcvd, dev>>
    BY <1>1 DEF vars, Over, Env, PeerSend, PeerLeaves, Stop, Main, OpenFails, StartWriter,
                StartReader, Watch, JoinNet, JoinAlsa
  <2>2. (writer = "failed") = (writer' = "failed")
    <3>1. \/ writer' = writer
          \/ main = "open" /\ writer' = "pull"
      BY <1>1 DEF vars, Over, Env, PeerSend, PeerLeaves, Stop, Main, OpenFails, StartWriter,
                  StartReader, Watch, JoinNet, JoinAlsa
    <3>2. main = "open" => writer = "none"
      BY DEF IInv, MainInv
    <3>. QED  BY <3>1, <3>2
  <2>. QED  BY <2>1, <2>2
<1>2. CASE Reader
  <2>1. dev' = dev /\ writer' = writer
    BY <1>2 DEF Reader, SetReadTimeout, ReadData, ReadEnds, Push
  <2>2. CASE ReadData
    <3>1. PICK n \in 1..ReadChunk : rcvd' = rcvd + n
      BY <2>2 DEF ReadData
    <3>2. rcvd \in Nat /\ rcvd' \in Nat /\ rcvd' > rcvd
      <4>1. rcvd \in Nat
        BY Typed DEF IInv
      <4>. QED  BY <3>1, <4>1, SessionAssumption, SMT
    <3>3. writer = "failed" \/ rcvd' - Len(dev) <= (ChanCap + 2) * ReadChunk
      BY <2>1 DEF BoundedHold
    <3>4. Pipe!Receive
      BY <2>1, <3>2, <3>3 DEF Pipe!Receive
    <3>. QED  BY <3>4 DEF Pipe!Next
  <2>3. CASE SetReadTimeout \/ ReadEnds \/ Push
    BY <2>1, <2>3 DEF SetReadTimeout, ReadEnds, Push
  <2>. QED  BY <1>2, <2>2, <2>3 DEF Reader
<1>3. CASE Writer
  <2>1. rcvd' = rcvd
    BY <1>3 DEF Writer, TakeLeftover, Recv, Drain, ChunkDone, HoldPartialFrame, WriteOk,
                WriteErr, Recovered, DeviceLost
  <2>2. CASE WriteOk
    <3>1. PICK frames \in 1..Frames(chunk) :
            /\ dev' = dev \o [k \in 1..(frames * FrameBytes) |-> chunk.lo + k - 1]
            /\ chunk' = [lo |-> chunk.lo + frames * FrameBytes, hi |-> chunk.hi]
      BY <2>2 DEF WriteOk
    <3>2. writer = "write" /\ writer' = "write"
      BY <2>2 DEF WriteOk
    <3>3. WriterInv /\ Size(chunk) \in Nat
      BY <3>2, SessionAssumption, SMT DEF IInv, WriterInv
    <3>. DEFINE n == frames * FrameBytes
    <3>4. frames \in Nat \ {0} /\ n \in Nat \ {0} /\ n <= Size(chunk) /\ frames <= Size(chunk)
      BY <3>3, FramesFit DEF Frames
    <3>5. Size(chunk) > 0
      BY <3>3, <3>4, SMT
    <3>6. chunk.lo = Len(dev)
      BY <3>3, <3>5 DEF WriterInv
    <3>7. chunk.hi <= rcvd
      BY <3>2, <3>5, ChunkIsReceived DEF IInv
    <3>8. Len(dev) + n <= rcvd /\ frames \in 1..rcvd
      <4>. HIDE DEF n
      <4>1. /\ Len(dev) \in Nat /\ rcvd \in Nat /\ chunk.hi \in Nat
            /\ Size(chunk) = chunk.hi - Len(dev)
        BY <3>6, Typed DEF IInv, Size
      <4>. QED  BY <3>4, <3>7, <4>1, SMT
    <3>9. dev' = dev \o [k \in 1..n |-> Len(dev) + k - 1]
      BY <3>1, <3>6
    <3>10. Pipe!Play
      BY <2>1, <3>2, <3>8, <3>9, Zenon DEF Pipe!Play
    <3>. QED  BY <3>10 DEF Pipe!Next
  <2>3. CASE DeviceLost
    <3>1. writer = "recover" /\ writer' = "failed" /\ dev' = dev
      BY <2>3 DEF DeviceLost
    <3>2. Pipe!Break
      BY <2>1, <3>1, Zenon DEF Pipe!Break
    <3>. QED  BY <3>2 DEF Pipe!Next
  <2>4. CASE TakeLeftover \/ Recv \/ Drain \/ ChunkDone \/ HoldPartialFrame \/ WriteErr \/ Recovered
    <3>1. dev' = dev /\ writer # "failed" /\ writer' # "failed"
      BY <2>4 DEF TakeLeftover, Recv, Drain, ChunkDone, HoldPartialFrame, WriteErr, Recovered
    <3>. QED  BY <2>1, <3>1
  <2>. QED  BY <1>3, <2>2, <2>3, <2>4 DEF Writer
<1>. QED  BY <1>1, <1>2, <1>3 DEF Next

\* One session of pi-receiver implements BytePipe with a capacity of
\* (ChanCap + 2) * ReadChunk bytes.
THEOREM ImplementsPipe == Spec => PipeSpec
<1>1. IInv /\ IInv' /\ BoundedHold' /\ [Next]_vars => [Pipe!Next]_(Pipe!pipeVars)
  BY PipeStep
<1>. QED  BY <1>1, PipeInit, Invariance, HoldsBounded, PTL DEF Spec, PipeSpec, Pipe!Spec

----------------------------------------------------------------------------
(* The session keeps its caller's contract.                                *)

LEMMA ContractInit == Init => Contract!Init
<1>. SUFFICES ASSUME Init PROVE Contract!Init
  OBVIOUS
<1>1. main = "open" /\ outcome = "none" /\ writer = "none"
  BY DEF Init
<1>. QED  BY <1>1, SMT DEF Contract!Init

\* Only opening, returning and the end of the writer are visible to the caller.
LEMMA ContractStep ==
    ASSUME IInv, [Next]_vars
    PROVE  [Contract!Next]_(Contract!contractVars)
<1>. USE DEF wire, net, alsa, ctl, Contract!contractVars, Contract!Next
<1>1. CASE UNCHANGED vars \/ Env \/ Reader \/ Over
  BY <1>1 DEF vars, Over, Env, PeerSend, PeerLeaves, Stop,
              Reader, SetReadTimeout, ReadData, ReadEnds, Push
<1>2. CASE OpenFails
  BY <1>2, Zenon DEF OpenFails, Return, Contract!NotOpened
<1>3. CASE StartWriter
  <2>1. main = "open" /\ writer = "none" /\ outcome = "none"
    BY <1>3, SMT DEF StartWriter, IInv, MainInv
  <2>2. CASE main' = "spawn" /\ writer' = "pull" /\ outcome' = outcome
    <3>1. Contract!Open
      BY <2>1, <2>2, SMT DEF Contract!Open
    <3>. QED  BY <3>1
  <2>3. CASE Return("spawnErr") /\ writer' = writer
    <3>1. Contract!NotOpened
      BY <2>1, <2>3, SMT DEF Return, Contract!NotOpened
    <3>. QED  BY <3>1
  <2>. QED  BY <1>3, <2>2, <2>3 DEF StartWriter
<1>4. CASE StartReader
  <2>1. CASE main' = "watch" /\ outcome' = outcome
    BY <1>4, <2>1 DEF StartReader
  <2>2. CASE Return("spawnErr")
    <3>1. Contract!Return
      BY <1>4, <2>2, SMT DEF StartReader, Return, Contract!Return, Contract!GivenUp
    <3>. QED  BY <3>1
  <2>. QED  BY <1>4, <2>1, <2>2 DEF StartReader
<1>5. CASE Watch
  BY <1>5 DEF Watch
<1>6. CASE JoinNet
  <2>1. CASE main' = "joinAlsa" /\ outcome' = outcome
    BY <1>6, <2>1 DEF JoinNet
  <2>2. CASE Return("netErr")
    <3>1. Contract!Return
      BY <1>6, <2>2, SMT DEF JoinNet, Return, Contract!Return, Contract!GivenUp
    <3>. QED  BY <3>1
  <2>. QED  BY <1>6, <2>1, <2>2 DEF JoinNet
<1>7. CASE JoinAlsa
  <2>1. main = "joinAlsa" /\ writer \in {"done", "failed"} /\ writer' = writer
        /\ main' = "ended" /\ outcome' \in {"ok", "alsaErr"}
    BY <1>7, SMT DEF JoinAlsa, Return, WriterFinished
  <2>2. Contract!Return
    BY <2>1, SMT DEF Contract!Return, Contract!Joined
  <2>. QED  BY <2>2
<1>8. CASE Writer
  <2>1. UNCHANGED <<main, outcome>> /\ writer \in {"pull", "write", "recover"}
    BY <1>8, SMT DEF Writer, TakeLeftover, Recv, Drain, ChunkDone, HoldPartialFrame, WriteOk,
                WriteErr, Recovered, DeviceLost
  <2>2. CASE writer' \in {"pull", "write", "recover"}
    BY <2>1, <2>2
  <2>3. CASE writer' \notin {"pull", "write", "recover"}
    <3>1. Contract!Release
      BY <2>1, <2>3, SMT DEF Contract!Release
    <3>. QED  BY <3>1
  <2>. QED  BY <2>2, <2>3
<1>. QED  BY <1>1, <1>2, <1>3, <1>4, <1>5, <1>6, <1>7, <1>8 DEF Next, Main

\* One session implements SessionContract, so a reasoning about the receiver
\* that uses only the contract holds with the real three threads.
THEOREM KeepsContract == Spec => ContractSpec
<1>1. IInv /\ [Next]_vars => [Contract!Next]_(Contract!contractVars)
  BY ContractStep
<1>. QED  BY <1>1, ContractInit, Invariance, PTL DEF Spec, ContractSpec, Contract!Spec

=============================================================================
