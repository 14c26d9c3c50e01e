------------------------------ MODULE PcSender ------------------------------
(***************************************************************************)
(* pc-sender: the capture callback, the bounded queue, the reconnect loop  *)
(* of run, one session of try_session (src/pc-sender/src/main.rs) and its  *)
(* net-writer thread (net_out.rs), with smart sleep (activity.rs).         *)
(*                                                                         *)
(* A chunk is known by whether it is above the silence threshold and, as   *)
(* history, by whether it was captured before the session's connect.       *)
(* What a write to the socket returns is left open: it may succeed while   *)
(* the socket is not shut down, and fail at any time (peer gone, network   *)
(* broken, 5 s write timeout).                                             *)
(***************************************************************************)
EXTENDS Integers, Sequences

CONSTANTS QueueCap,         (* capacity of the bounded channel, 64           *)
          IdleAfter,        (* idle_after_secs, in clock ticks; 0 disables   *)
          InitialBackoff,   (* reconnect_ms, in backoff units                *)
          MaxBackoff,       (* 5000 ms, in the same units                    *)
          MaxSkew           (* bound: how far back the clock is set          *)

ASSUME SenderAssumption ==
    /\ QueueCap \in Nat \ {0} /\ IdleAfter \in Nat
    /\ InitialBackoff \in Nat /\ MaxBackoff \in Nat /\ MaxSkew \in Nat

VARIABLES
    stop,       (* the stop flag                                             *)
    quiet,      (* ticks since the last chunk that was not silence           *)
    queue,      (* the channel from the capture callback                     *)
    pc,         (* where run and try_session are                             *)
    shut,       (* the session's socket was shut down by the main thread     *)
    backoff,    (* backoff_ms                                                *)
    writer,     (* where the net-writer thread is                            *)
    hand        (* the chunk it is writing                                   *)

loop == <<pc, shut, backoff>>
net  == <<writer, hand>>
vars == <<stop, quiet, queue, loop, net>>

Chunk == [loud : BOOLEAN, stale : BOOLEAN]
None  == [loud |-> FALSE, stale |-> FALSE]

SmartSleep == IdleAfter > 0
Active     == quiet < IdleAfter         \* ActivityTracker::is_active
Asleep     == SmartSleep /\ ~Active

TypeOK ==
    /\ stop \in BOOLEAN /\ quiet \in (-MaxSkew)..IdleAfter
    /\ queue \in Seq(Chunk) /\ Len(queue) <= QueueCap
    /\ pc \in {"top", "connect", "drain", "start", "watch", "join", "pause", "exit"}
    /\ shut \in BOOLEAN
    /\ backoff \in Nat /\ (backoff <= InitialBackoff \/ backoff <= MaxBackoff)
    /\ writer \in {"none", "poll", "write", "ok", "err"} /\ hand \in Chunk

Init ==
    /\ stop = FALSE /\ quiet = 0 /\ queue = <<>>
    /\ pc = "top" /\ shut = FALSE /\ backoff = InitialBackoff
    /\ writer = "none" /\ hand = None

----------------------------------------------------------------------------
(* The environment: the capture callback, the clock, the signal handler.   *)

\* ActivityTracker::note_peak: anything louder than -60 dBFS ends the silence.
NotePeak(loud) == IF loud THEN 0 ELSE quiet

Captured(loud) == [loud |-> loud, stale |-> FALSE]

\* Mutant: the callback queues without a bound.
PushUnbounded(loud) == Append(queue, Captured(loud))

\* try_send: a full queue drops the chunk that just came.
Push(loud) == IF Len(queue) < QueueCap THEN Append(queue, Captured(loud)) ELSE queue

\* One call of the capture callback.
Capture(loud) ==
    /\ pc # "exit"
    /\ quiet' = NotePeak(loud) /\ queue' = Push(loud)
    /\ UNCHANGED <<stop, loop, net>>

Tick ==
    /\ quiet < IdleAfter /\ quiet' = quiet + 1
    /\ UNCHANGED <<stop, queue, loop, net>>

\* The silence is measured with the system's clock, which may be set: the last
\* sound then lies further back, or in the future.
ClockIsSet ==
    /\ quiet' \in (-MaxSkew)..IdleAfter
    /\ UNCHANGED <<stop, queue, loop, net>>

Stop ==
    /\ ~stop /\ stop' = TRUE
    /\ UNCHANGED <<quiet, queue, loop, net>>

----------------------------------------------------------------------------
(* run: the reconnect loop                                                 *)

\* Mutant: the sleep is tested after a session only.
TopIgnoringSleep ==
    /\ pc = "top"
    /\ pc' = IF stop THEN "exit" ELSE "connect"
    /\ UNCHANGED <<stop, quiet, queue, shut, backoff, net>>

\* The while condition and the smart-sleep test: asleep, the loop polls.
Top ==
    /\ pc = "top"
    /\ \/ stop /\ pc' = "exit"
       \/ ~stop /\ Asleep /\ pc' = "top"
       \/ ~stop /\ ~Asleep /\ pc' = "connect"
    /\ UNCHANGED <<stop, quiet, queue, shut, backoff, net>>

\* What run does with the result of try_session; a stop ends the loop at once.
SessionEnds(ok) ==
    /\ backoff' = IF ok THEN InitialBackoff ELSE backoff
    /\ pc' = IF stop THEN "exit" ELSE "pause"

\* The reconnect delay, cut short by a stop.
Pause ==
    /\ pc = "pause"
    /\ pc' = "top"
    /\ backoff' = IF 2 * backoff < MaxBackoff THEN 2 * backoff ELSE MaxBackoff
    /\ UNCHANGED <<stop, quiet, queue, shut, net>>

----------------------------------------------------------------------------
(* try_session                                                             *)

\* Mutant: the session starts with what was queued while disconnected.
ConnectWithoutDraining ==
    /\ pc = "connect"
    /\ \/ /\ pc' = "start" /\ shut' = FALSE
          /\ queue' = [i \in DOMAIN queue |-> [queue[i] EXCEPT !.stale = TRUE]]
          /\ UNCHANGED backoff
       \/ /\ SessionEnds(FALSE)
          /\ UNCHANGED <<queue, shut>>
    /\ UNCHANGED <<stop, quiet, net>>

\* Name resolution, TCP connect and header, or an error of one of them. What
\* is queued by now is stale for the session that begins.
Connect ==
    /\ pc = "connect"
    /\ \/ /\ pc' = "drain" /\ shut' = FALSE
          /\ queue' = [i \in DOMAIN queue |-> [queue[i] EXCEPT !.stale = TRUE]]
          /\ UNCHANGED backoff
       \/ /\ SessionEnds(FALSE)
          /\ UNCHANGED <<queue, shut>>
    /\ UNCHANGED <<stop, quiet, net>>

\* try_recv until the queue is empty; the callback may refill it meanwhile.
DrainQueue ==
    /\ pc = "drain"
    /\ \/ queue # <<>> /\ queue' = Tail(queue) /\ pc' = "drain"
       \/ queue = <<>> /\ pc' = "start" /\ UNCHANGED queue
    /\ UNCHANGED <<stop, quiet, shut, backoff, net>>

\* Clone the stream and spawn the writer, or fail and drop the socket.
StartWriter ==
    /\ pc = "start"
    /\ \/ pc' = "watch" /\ writer' = "poll" /\ UNCHANGED backoff
       \/ SessionEnds(FALSE) /\ UNCHANGED writer
    /\ UNCHANGED <<stop, quiet, queue, shut, hand>>

\* Mutant: silence is left to the writer.
WatchIgnoringSilence ==
    /\ pc = "watch"
    /\ \/ writer \in {"ok", "err"} /\ UNCHANGED shut
       \/ writer \in {"poll", "write"} /\ stop /\ shut' = TRUE
    /\ pc' = "join"
    /\ UNCHANGED <<stop, quiet, queue, backoff, net>>

\* Mutant: on silence the loop goes back to sleep without joining the writer.
WatchWithoutJoin ==
    /\ pc = "watch"
    /\ \/ writer \in {"ok", "err"} /\ pc' = "join" /\ UNCHANGED shut
       \/ /\ writer \in {"poll", "write"} /\ (stop \/ Asleep)
          /\ shut' = TRUE
          /\ pc' = IF stop THEN "join" ELSE "top"
    /\ UNCHANGED <<stop, quiet, queue, backoff, net>>

\* One turn of the watch loop: the writer has ended, or stop or silence shuts
\* the socket down.
Watch ==
    /\ pc = "watch"
    /\ \/ writer \in {"ok", "err"} /\ UNCHANGED shut
       \/ /\ writer \in {"poll", "write"} /\ (stop \/ Asleep)
          /\ shut' = TRUE
    /\ pc' = "join"
    /\ UNCHANGED <<stop, quiet, queue, backoff, net>>

Join ==
    /\ pc = "join" /\ writer \in {"ok", "err"}
    /\ SessionEnds(writer = "ok")
    /\ writer' = "none"
    /\ UNCHANGED <<stop, quiet, queue, shut, hand>>

----------------------------------------------------------------------------
(* net_out::pump                                                           *)

\* Mutant: the writer waits for a chunk without looking at the flag.
PollWithoutStop ==
    /\ writer = "poll"
    /\ queue # <<>> /\ hand' = Head(queue) /\ queue' = Tail(queue) /\ writer' = "write"
    /\ UNCHANGED <<stop, quiet, loop>>

\* The stop flag, then recv_timeout; a timeout goes round the loop.
Poll ==
    /\ writer = "poll"
    /\ \/ stop /\ writer' = "ok" /\ UNCHANGED <<queue, hand>>
       \/ ~stop /\ queue # <<>> /\ hand' = Head(queue) /\ queue' = Tail(queue) /\ writer' = "write"
    /\ UNCHANGED <<stop, quiet, loop>>

WriteOk ==
    /\ writer = "write" /\ ~shut
    /\ writer' = "poll" /\ hand' = None
    /\ UNCHANGED <<stop, quiet, queue, loop>>

\* Mutant: a failed write is tried again.
WriteErrRetries ==
    /\ writer = "write" /\ writer' = "write"
    /\ UNCHANGED <<stop, quiet, queue, loop, hand>>

\* write_all fails, always so after the socket was shut down.
WriteErr ==
    /\ writer = "write"
    /\ writer' = "err" /\ hand' = None
    /\ UNCHANGED <<stop, quiet, queue, loop>>

----------------------------------------------------------------------------
Exited == pc = "exit" /\ UNCHANGED vars

Env    == (\E loud \in BOOLEAN : Capture(loud)) \/ Tick \/ ClockIsSet \/ Stop
Main   == Top \/ Pause \/ Connect \/ DrainQueue \/ StartWriter \/ Watch \/ Join
Writer == Poll \/ WriteOk \/ WriteErr

Next == Env \/ Main \/ Writer \/ Exited

Spec == Init /\ [][Next]_vars

\* Both threads and the clock run, and emptying the queue takes microseconds
\* where the callback delivers a chunk every 10 ms: the drain ends.
Fairness == WF_vars(Main) /\ WF_vars(Writer) /\ WF_vars(Tick) /\ []<>(pc # "drain")

FairSpec == Spec /\ Fairness

----------------------------------------------------------------------------
(* What must hold.                                                         *)

\* A session carries nothing that was captured before it connected: it starts
\* close to real time however long the disconnect was (try_session: "discarded
\* stale audio queued during disconnect").
NoStaleAudio == writer = "write" => ~hand.stale

\* No writer outlives its session: two writers would share the queue and cut
\* the stream between two sockets.
OneWriter == writer # "none" => pc \in {"watch", "join"}

\* After a stop the program exits, whether it sleeps, connects, streams, waits
\* for audio that never comes, or is blocked on a socket.
StopExits == stop ~> pc = "exit"

Holding == pc \in {"drain", "start", "watch", "join"} /\ ~shut

\* Lasting silence frees the Pi for other sources, and keeps it free, however
\* often the clock was set before and in whatever state the silence finds the
\* sender.
SilenceReleases == SmartSleep /\ <>[][quiet' >= quiet]_quiet => <>[]~Holding

\* Audio that keeps coming is written to the socket of a session, or at least a
\* connection is tried, again and again: neither the sleep nor a session that
\* was released or merely stands gets stuck.
AudioResumes ==
    <>[]~Asleep /\ []<>(queue # <<>>) =>
        []<>(pc = "connect" \/ (pc = "watch" /\ writer = "write") \/ stop)

\* What the Pi sees of this sender: it starts to dial only while there is sound,
\* has one connection at a time, and gives it up of its own accord.
Link == INSTANCE SenderLink WITH
    awake <- ~Asleep,
    link  <- IF pc = "exit" THEN "off"
             ELSE IF Holding THEN "up"
             ELSE IF pc = "connect" THEN "dialing" ELSE "down"
LinkSpec == Link!Spec
=============================================================================
