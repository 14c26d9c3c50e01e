------------------------------ MODULE BytePipe ------------------------------
(***************************************************************************)
(* What a session of pi-receiver promises about the PCM bytes it carries,  *)
(* whatever threads and queues it is built from: the bytes that reach the  *)
(* ALSA device are the bytes that came in on the socket, in order, none    *)
(* lost, none repeated, whole frames at a time, and never more than        *)
(* Capacity of them are held in between.                                   *)
(*                                                                         *)
(* Bytes are named by their position in the stream: the k-th byte that     *)
(* follows the 16-byte header is k - 1.                                    *)
(***************************************************************************)
EXTENDS Integers, Sequences

CONSTANTS FrameBytes,   (* bytes of one interleaved frame             *)
          Capacity      (* bytes the pipe may hold                    *)

VARIABLES came,         (* number of bytes taken off the socket       *)
          dev,          (* the bytes given to the device, in order    *)
          broken        (* the device failed: the session is lost     *)

pipeVars == <<came, dev, broken>>

Init == came = 0 /\ dev = <<>> /\ broken = FALSE

\* Some bytes come in, as many as there is room for. Once the device is lost
\* the bytes that still come in are thrown away.
Receive ==
    /\ came' \in Nat
    /\ came' > came
    /\ broken \/ came' - Len(dev) <= Capacity
    /\ UNCHANGED <<dev, broken>>

\* The device takes whole frames, the ones that follow those it has.
Play ==
    /\ ~broken
    /\ \E frames \in 1..came :
         /\ Len(dev) + frames * FrameBytes <= came
         /\ dev' = dev \o [k \in 1..(frames * FrameBytes) |-> Len(dev) + k - 1]
    /\ UNCHANGED <<came, broken>>

Break == ~broken /\ broken' = TRUE /\ UNCHANGED <<came, dev>>

Next == Receive \/ Play \/ Break

Spec == Init /\ [][Next]_pipeVars
=============================================================================
