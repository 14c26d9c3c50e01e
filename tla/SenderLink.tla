----------------------------- MODULE SenderLink -----------------------------
(***************************************************************************)
(* What a receiver can rely on about one pc-sender: whether there is sound *)
(* to send, and the state of its one connection. PcSender implements it,   *)
(* and EndToEnd is built on it.                                            *)
(***************************************************************************)

VARIABLES awake,    (* sound was heard within the idle window              *)
          link      (* "down", "dialing", "up", or "off" after the exit    *)

linkVars == <<awake, link>>

Init == awake \in BOOLEAN /\ link = "down"

\* Sound comes and goes; the loop and the callback do not wait for each other.
SoundChanges == awake' = ~awake /\ UNCHANGED link

\* A sender without sound dials no one.
BeginDial == link = "down" /\ awake /\ link' = "dialing" /\ UNCHANGED awake

DialEnds  == link = "dialing" /\ link' \in {"up", "down"} /\ UNCHANGED awake

\* Silence, an error of any kind.
HangUp == link = "up" /\ link' = "down" /\ UNCHANGED awake

Exit == link # "off" /\ link' = "off" /\ UNCHANGED awake

Next == SoundChanges \/ BeginDial \/ DialEnds \/ HangUp \/ Exit

Spec == Init /\ [][Next]_linkVars
=============================================================================
