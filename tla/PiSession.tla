----------------------------- MODULE PiSession -----------------------------
(***************************************************************************)
(* One session of pi-receiver: the three threads of run_session            *)
(* (src/pi-receiver/src/main.rs), from the moment the wire header has been *)
(* read until run_session returns.                                         *)
(*                                                                         *)
(*   main    opens the PCM, starts the two workers, watches the stop flag, *)
(*           joins the workers and reports an outcome;                     *)
(*   reader  (net_in::pump) moves bytes from the socket to a bounded       *)
(*           channel, blocking when it is full;                            *)
(*   writer  (AlsaPlayback::run) moves chunks from the channel to the      *)
(*           device, whole frames at a time.                               *)
(*                                                                         *)
(* The k-th PCM byte of the stream is named by its position k - 1, and a   *)
(* chunk [lo, hi) is the run of bytes lo .. hi - 1, so the model can tell  *)
(* whether a byte is lost, repeated or out of order without carrying data. *)
(* The peer may send, close or reset at any moment, and the stop flag may  *)
(* be raised at any moment.                                                *)
(***************************************************************************)
EXTENDS Integers, Sequences

CONSTANTS FrameBytes,   (* bytes_per_frame of the header               *)
          ReadChunk,    (* READ_CHUNK, the most one read returns       *)
          ChanCap,      (* capacity of the bounded channel, 32         *)
          StreamLen     (* bound: bytes the peer sends in the session  *)

ASSUME SessionAssumption ==
    /\ FrameBytes \in Nat \ {0}
    /\ ReadChunk  \in Nat \ {0}
    /\ ChanCap    \in Nat \ {0}
    /\ StreamLen  \in Nat

VARIABLES
    sent,      (* bytes the peer has put on the connection                *)
    peer,      (* what the peer did: "open", "closed" (FIN), "reset"      *)
    rcvd,      (* bytes the reader has taken off the socket (total)       *)
    stop,      (* the stop flag of the signal handler                     *)
    shut,      (* main has called shutdown(Both) on its clone             *)
    main,      (* where run_session is                                    *)
    outcome,   (* what run_session returned                               *)
    reader,    (* where the net-reader thread is                          *)
    hand,      (* the chunk the reader is about to push                   *)
    chan,      (* the bounded channel                                     *)
    writer,    (* where the alsa-writer thread is                         *)
    chunk,     (* chunk[offset..], what is left of the chunk being played *)
    leftover,  (* the writer's leftover buffer                            *)
    dev        (* the bytes the device has taken, in order                *)

wire  == <<sent, peer>>
net   == <<rcvd, reader, hand>>
alsa  == <<writer, chunk, leftover, dev>>
ctl   == <<main, outcome, shut>>
vars  == <<wire, net, alsa, ctl, stop, chan>>

----------------------------------------------------------------------------
Chunk     == [lo : Nat, hi : Nat]
NoChunk   == [lo |-> 0, hi |-> 0]
Size(c)   == c.hi - c.lo
Frames(c) == Size(c) \div FrameBytes     \* whole frames in c: usable / bpf

\* Mutant: main keeps a clone of the sender half.
TxHeldByMain == main = "ended" /\ reader \in {"none", "done", "failed"}

\* The sender half lives in main until it is moved into the reader thread.
TxDropped == main \notin {"open", "spawn"} /\ reader \in {"none", "done", "failed"}

\* The receiver half dies with the writer.
RxDropped == writer \in {"done", "failed"}

WriterFinished == writer \in {"done", "failed"}
ReaderFinished == reader \in {"done", "failed"}

TypeOK ==
    /\ sent \in 0..StreamLen /\ rcvd \in 0..sent
    /\ peer \in {"open", "closed", "reset"}
    /\ stop \in BOOLEAN /\ shut \in BOOLEAN
    /\ main \in {"open", "spawn", "watch", "joinNet", "joinAlsa", "ended"}
    /\ outcome \in {"none", "ok", "openErr", "spawnErr", "netErr", "alsaErr"}
    /\ reader \in {"none", "start", "read", "send", "done", "failed"}
    /\ writer \in {"none", "pull", "write", "recover", "done", "failed"}
    /\ hand \in Chunk /\ chunk \in Chunk /\ leftover \in Chunk
    /\ chan \in Seq(Chunk) /\ Len(chan) <= ChanCap
    /\ dev \in Seq(Nat)

Init ==
    /\ sent = 0 /\ peer = "open" /\ rcvd = 0
    /\ stop = FALSE /\ shut = FALSE
    /\ main = "open" /\ outcome = "none"
    /\ reader = "none" /\ hand = NoChunk
    /\ chan = <<>>
    /\ writer = "none" /\ chunk = NoChunk /\ leftover = NoChunk
    /\ dev = <<>>

----------------------------------------------------------------------------
(* The environment: the connected pc-sender and the signal handler.        *)

PeerSend ==
    /\ peer = "open" /\ ~shut /\ main # "ended"
    /\ sent' \in (sent + 1)..StreamLen
    /\ UNCHANGED <<peer, net, alsa, ctl, stop, chan>>

PeerLeaves ==
    /\ peer = "open"
    /\ peer' \in {"closed", "reset"}
    /\ UNCHANGED <<sent, net, alsa, ctl, stop, chan>>

Stop ==
    /\ ~stop /\ stop' = TRUE
    /\ UNCHANGED <<wire, net, alsa, ctl, chan>>

----------------------------------------------------------------------------
(* main: run_session                                                       *)

Return(result) == main' = "ended" /\ outcome' = result

\* AlsaPlayback::open gives up after its retries: no worker exists yet.
OpenFails ==
    /\ main = "open"
    /\ Return("openErr")
    /\ UNCHANGED <<wire, net, alsa, shut, stop, chan>>

\* The PCM is open; the writer thread starts with the receiver half.
StartWriter ==
    /\ main = "open"
    /\ \/ main' = "spawn" /\ writer' = "pull" /\ UNCHANGED outcome
       \/ Return("spawnErr") /\ UNCHANGED writer
    /\ UNCHANGED <<wire, net, shut, stop, chan, chunk, leftover, dev>>

\* The stream is cloned and the reader thread starts; when either fails the
\* function returns through `?` and the writer is left to end by itself.
StartReader ==
    /\ main = "spawn"
    /\ \/ main' = "watch" /\ reader' = "start" /\ UNCHANGED outcome
       \/ Return("spawnErr") /\ UNCHANGED reader
    /\ UNCHANGED <<wire, rcvd, hand, alsa, shut, stop, chan>>

\* Mutant: the loop leaves on stop without shutting the socket down.
WatchWithoutShutdown ==
    /\ main = "watch"
    /\ ReaderFinished \/ stop
    /\ main' = "joinNet"
    /\ UNCHANGED <<wire, net, alsa, outcome, shut, stop, chan>>

\* One turn of the loop that polls the reader and the stop flag.
Watch ==
    /\ main = "watch"
    /\ \/ ReaderFinished /\ main' = "joinNet" /\ UNCHANGED shut
       \/ ~ReaderFinished /\ stop /\ main' = "joinNet" /\ shut' = TRUE
    /\ UNCHANGED <<wire, net, alsa, outcome, stop, chan>>

JoinNet ==
    /\ main = "joinNet"
    /\ \/ reader = "done" /\ main' = "joinAlsa" /\ UNCHANGED outcome
       \/ reader = "failed" /\ Return("netErr")
    /\ UNCHANGED <<wire, net, alsa, shut, stop, chan>>

\* Mutant: the writer's result is looked at without waiting for the thread.
JoinAlsaWithoutWaiting ==
    /\ main = "joinAlsa"
    /\ Return(IF writer = "failed" THEN "alsaErr" ELSE "ok")
    /\ UNCHANGED <<wire, net, alsa, shut, stop, chan>>

JoinAlsa ==
    /\ main = "joinAlsa"
    /\ WriterFinished
    /\ Return(IF writer = "done" THEN "ok" ELSE "alsaErr")
    /\ UNCHANGED <<wire, net, alsa, shut, stop, chan>>

----------------------------------------------------------------------------
(* reader: net_in::pump                                                    *)

SetReadTimeout ==
    /\ reader = "start"
    /\ reader' \in {"read", "failed"}
    /\ UNCHANGED <<wire, rcvd, hand, alsa, ctl, stop, chan>>

\* read returns some of the bytes that are there. A read that times out
\* changes nothing: the loop reads again.
ReadData ==
    /\ reader = "read"
    /\ \E n \in 1..ReadChunk :
         /\ rcvd + n <= sent
         /\ rcvd' = rcvd + n
         /\ hand' = [lo |-> rcvd, hi |-> rcvd + n]
    /\ reader' = "send"
    /\ UNCHANGED <<wire, alsa, ctl, stop, chan>>

\* Mutant: Ok(0) from a closed peer is taken for an empty read.
ReadEndsNotAtEof ==
    /\ reader = "read"
    /\ peer = "reset" \/ (rcvd = sent /\ shut)
    /\ reader' = "done"
    /\ UNCHANGED <<wire, rcvd, hand, alsa, ctl, stop, chan>>

\* Ok(0) once everything sent before the FIN, or before the shutdown, is read;
\* an error after a reset, which may discard what was not read yet.
ReadEnds ==
    /\ reader = "read"
    /\ peer = "reset" \/ (rcvd = sent /\ (peer = "closed" \/ shut))
    /\ reader' = "done"
    /\ UNCHANGED <<wire, rcvd, hand, alsa, ctl, stop, chan>>

\* Mutants: an unbounded channel; a push that takes a gone receiver for success.
PushUnbounded ==
    /\ reader = "send"
    /\ \/ ~RxDropped /\ chan' = Append(chan, hand) /\ reader' = "read"
       \/ RxDropped /\ reader' = "done" /\ UNCHANGED chan
    /\ hand' = NoChunk
    /\ UNCHANGED <<wire, rcvd, alsa, ctl, stop>>

PushIgnoringDisconnect ==
    /\ reader = "send"
    /\ \/ ~RxDropped /\ Len(chan) < ChanCap /\ chan' = Append(chan, hand)
       \/ RxDropped /\ UNCHANGED chan
    /\ reader' = "read" /\ hand' = NoChunk
    /\ UNCHANGED <<wire, rcvd, alsa, ctl, stop>>

\* try_send, then the blocking send when the channel is full: the step waits
\* for room, or for the receiver to be gone.
Push ==
    /\ reader = "send"
    /\ \/ /\ ~RxDropped /\ Len(chan) < ChanCap
          /\ chan' = Append(chan, hand)
          /\ reader' = "read"
       \/ RxDropped /\ reader' = "done" /\ UNCHANGED chan
    /\ hand' = NoChunk
    /\ UNCHANGED <<wire, rcvd, alsa, ctl, stop>>

----------------------------------------------------------------------------
(* writer: AlsaPlayback::run                                               *)

\* The head of the loop: the leftover goes before the channel.
TakeLeftover ==
    /\ writer = "pull" /\ Size(leftover) > 0
    /\ chunk' = leftover /\ leftover' = NoChunk
    /\ writer' = "write"
    /\ UNCHANGED <<wire, net, ctl, stop, chan, dev>>

Recv ==
    /\ writer = "pull" /\ Size(leftover) = 0 /\ chan # <<>>
    /\ chunk' = Head(chan) /\ chan' = Tail(chan)
    /\ writer' = "write"
    /\ UNCHANGED <<wire, net, ctl, stop, leftover, dev>>

\* Mutants: ending on the closed channel before it is empty; ending only on a
\* reader that finished, so not when none was ever started.
DrainTooEarly ==
    /\ writer = "pull" /\ Size(leftover) = 0 /\ TxDropped
    /\ writer' = "done"
    /\ UNCHANGED <<wire, net, ctl, stop, chan, chunk, leftover, dev>>

DrainAfterReaderOnly ==
    /\ writer = "pull" /\ Size(leftover) = 0 /\ chan = <<>> /\ ReaderFinished
    /\ writer' = "done"
    /\ UNCHANGED <<wire, net, ctl, stop, chan, chunk, leftover, dev>>

\* The channel is empty and its sender gone: drain the device and end.
Drain ==
    /\ writer = "pull" /\ Size(leftover) = 0 /\ chan = <<>> /\ TxDropped
    /\ writer' = "done"
    /\ UNCHANGED <<wire, net, ctl, stop, chan, chunk, leftover, dev>>

\* offset has reached the end of the chunk.
ChunkDone ==
    /\ writer = "write" /\ Size(chunk) = 0
    /\ writer' = "pull" /\ chunk' = NoChunk
    /\ UNCHANGED <<wire, net, ctl, stop, chan, leftover, dev>>

\* Mutant: the partial frame is handed to the device as it is.
PlayPartialFrame ==
    /\ writer = "write" /\ Size(chunk) > 0 /\ Frames(chunk) = 0
    /\ dev' = dev \o [k \in 1..Size(chunk) |-> chunk.lo + k - 1]
    /\ chunk' = NoChunk /\ writer' = "pull"
    /\ UNCHANGED <<wire, net, ctl, stop, chan, leftover>>

\* Less than a frame is left: it is put aside.
HoldPartialFrame ==
    /\ writer = "write" /\ Size(chunk) > 0 /\ Frames(chunk) = 0
    /\ leftover' = chunk /\ chunk' = NoChunk
    /\ writer' = "pull"
    /\ UNCHANGED <<wire, net, ctl, stop, chan, dev>>

\* Mutant: a short write is taken for a complete one.
WriteOkIgnoringShort ==
    /\ writer = "write" /\ Frames(chunk) > 0
    /\ \E frames \in 1..Frames(chunk) :
         dev' = dev \o [k \in 1..(frames * FrameBytes) |-> chunk.lo + k - 1]
    /\ chunk' = [lo |-> chunk.lo + Frames(chunk) * FrameBytes, hi |-> chunk.hi]
    /\ UNCHANGED <<wire, net, ctl, stop, chan, writer, leftover>>

\* writei takes some of the usable frames, not always all of them.
WriteOk ==
    /\ writer = "write" /\ Frames(chunk) > 0
    /\ \E frames \in 1..Frames(chunk) :
         /\ dev' = dev \o [k \in 1..(frames * FrameBytes) |-> chunk.lo + k - 1]
         /\ chunk' = [lo |-> chunk.lo + frames * FrameBytes, hi |-> chunk.hi]
    /\ UNCHANGED <<wire, net, ctl, stop, chan, writer, leftover>>

WriteErr ==
    /\ writer = "write" /\ Frames(chunk) > 0
    /\ writer' = "recover"
    /\ UNCHANGED <<wire, net, ctl, stop, chan, chunk, leftover, dev>>

Recovered ==
    /\ writer = "recover" /\ writer' = "write"
    /\ UNCHANGED <<wire, net, ctl, stop, chan, chunk, leftover, dev>>

\* An error try_recover cannot mend: run returns Err and drops the receiver.
DeviceLost ==
    /\ writer = "recover" /\ writer' = "failed"
    /\ UNCHANGED <<wire, net, ctl, stop, chan, chunk, leftover, dev>>

----------------------------------------------------------------------------
\* run_session has returned and no writer it left behind is still running.
Over ==
    /\ main = "ended" /\ writer \in {"none", "done", "failed"}
    /\ ReaderFinished \/ reader = "none"
    /\ UNCHANGED vars

Env    == PeerSend \/ PeerLeaves \/ Stop
Main   == OpenFails \/ StartWriter \/ StartReader \/ Watch \/ JoinNet \/ JoinAlsa
Reader == SetReadTimeout \/ ReadData \/ ReadEnds \/ Push
Writer == \/ TakeLeftover \/ Recv \/ Drain \/ ChunkDone \/ HoldPartialFrame
          \/ WriteOk \/ WriteErr \/ Recovered \/ DeviceLost

Next == Env \/ Main \/ Reader \/ Writer \/ Over

Spec == Init /\ [][Next]_vars

\* The operating system runs every thread that can run. The device is not
\* assumed to work, only not to fail recoverably for ever: among the writes
\* it keeps being offered, one succeeds or one is unrecoverable.
Fairness ==
    /\ WF_vars(Main) /\ WF_vars(Reader) /\ WF_vars(Writer)
    /\ SF_vars(WriteOk \/ DeviceLost)

FairSpec == Spec /\ Fairness

----------------------------------------------------------------------------
(* What must hold.                                                         *)

\* The device is given the bytes of the stream in order from the first one:
\* short writes, partial frames, recovered errors and the channel never lose,
\* repeat or swap a byte (alsa_out.rs run, net_in.rs pump).
Gapless == \A i \in 1..Len(dev) : dev[i] = i - 1

\* A slow device makes the reader wait instead of filling memory: the bytes
\* between the socket and the device never exceed the channel, the chunk the
\* reader holds and the one the writer holds (net_in.rs: "block instead of
\* dropping").
BoundedHold == writer # "failed" => rcvd - Len(dev) <= (ChanCap + 2) * ReadChunk

\* A session that reports success has played every byte it received, up to
\* the last one, and it ended because the peer left or the flag was raised:
\* a lost device, or anything else, is never reported as a success.
OkMeansPlayed == outcome = "ok" => Len(dev) = rcvd /\ (stop \/ peer # "open")

\* The session implements the abstract pipe: what came off the socket reaches
\* the device as whole frames, with a bounded number of bytes in between.
Pipe == INSTANCE BytePipe WITH came <- rcvd, broken <- writer = "failed",
                               Capacity <- (ChanCap + 2) * ReadChunk
PipeSpec == Pipe!Spec

\* The session keeps the contract its caller relies on: by the time
\* run_session returns through its joins, or could not open the device, the PCM
\* is free for the next session (main.rs run_session, the early returns).
Contract == INSTANCE SessionContract WITH
    ses    <- CASE main = "open" -> "opening" [] main = "ended" -> "over" [] OTHER -> "running",
    held   <- writer \in {"pull", "write", "recover"},
    result <- outcome
ContractSpec == Contract!Spec

\* The writer is going round its loop with a partial frame it can only put
\* back: it never takes from the channel again (finding in alsa_out.rs run).
Wedged == Size(leftover) > 0 \/ (Size(chunk) > 0 /\ Frames(chunk) = 0)

\* What each thread's next blocking call waits for.
MainRuns ==
    \/ main \in {"open", "spawn"}
    \/ main = "watch" /\ (ReaderFinished \/ stop)
    \/ main = "joinNet" /\ ReaderFinished
    \/ main = "joinAlsa" /\ WriterFinished
ReaderRuns ==
    \/ reader = "start"
    \/ reader = "read" /\ (rcvd < sent \/ peer # "open" \/ shut)
    \/ reader = "send" /\ (RxDropped \/ Len(chan) < ChanCap)
WriterRuns ==
    \/ writer \in {"write", "recover"}
    \/ writer = "pull" /\ (Size(leftover) > 0 \/ chan # <<>> \/ TxDropped)

HasWork ==
    \/ main # "ended" /\ (stop \/ peer # "open" \/ rcvd < sent)
    \/ main = "ended" /\ writer # "none" /\ ~WriterFinished

\* The three threads never all wait, for one another or for a peer that is gone:
\* a full channel, an empty one, the shut-down socket and the two joins, in
\* whatever order they meet. They may only wait for a peer that is there and
\* sends nothing. Nor does a writer that an early return left behind wait.
NoStandstill == HasWork => MainRuns \/ ReaderRuns \/ WriterRuns

\* After a stop the session ends, however the three threads are blocked on one
\* another, unless a partial frame has wedged the writer.
StopEnds == stop ~> main = "ended" \/ Wedged

\* A peer that closes or resets ends the session, under the same condition.
PeerEnds == peer # "open" ~> main = "ended" \/ Wedged

\* A session whose device is lost does not go on taking bytes: it ends as soon
\* as the reader has one more byte to push.
DeadDeviceEnds == writer = "failed" /\ rcvd < sent ~> main = "ended"

\* A writer that an early return left behind still gives the PCM back.
DetachedWriterEnds == main = "ended" ~> WriterFinished \/ writer = "none"

\* What the source says of a stop: "graceful shutdown", and "lets the join
\* below complete in <100 ms" (main.rs run_session).
GracefulStop == stop ~> main = "ended"
=============================================================================
