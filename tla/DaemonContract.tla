--------------------------- MODULE DaemonContract ---------------------------
(***************************************************************************)
(* What the callers of pi-receiver, and the other sources of CamillaDSP,   *)
(* can rely on: callers are taken in order and one at a time, each is      *)
(* prepared for, played and cleaned up after, and CamillaDSP leaves the    *)
(* idle configuration for a caller only, and returns to it unless strayed. *)
(* PiReceiver implements it, and EndToEnd is built on it.                  *)
(***************************************************************************)
EXTENDS Sequences

CONSTANT Conns

VARIABLES
    phase,      (* "waiting", "header", "preparing", "playing", "restoring", "down" *)
    cur,        (* the connection being served: none or one                *)
    backlog,    (* connections waiting, in order                           *)
    alive,      (* connections whose sender is still there                 *)
    idle,       (* CamillaDSP runs, and would load, the idle configuration *)
    strayed,    (* a swap was not acknowledged, or was missed              *)
    wedged      (* the session cannot end                                  *)

service      == <<phase, cur>>
daemonVars   == <<service, backlog, alive, idle, strayed, wedged>>

Init ==
    /\ phase = "waiting" /\ cur = {} /\ backlog = <<>> /\ alive = {}
    /\ idle = TRUE /\ strayed = FALSE /\ wedged = FALSE

Call(c) ==
    /\ phase # "down"
    /\ alive' = alive \cup {c} /\ backlog' = Append(backlog, c)
    /\ UNCHANGED <<service, idle, strayed, wedged>>

HangUp(c) ==
    /\ alive' = alive \ {c}
    /\ UNCHANGED <<service, backlog, idle, strayed, wedged>>

Accept ==
    /\ phase = "waiting" /\ backlog # <<>>
    /\ phase' = "header" /\ cur' = {Head(backlog)} /\ backlog' = Tail(backlog)
    /\ UNCHANGED <<alive, idle, strayed, wedged>>

\* No valid header: the caller is dropped and CamillaDSP left alone.
Reject ==
    /\ phase = "header" /\ phase' = "waiting" /\ cur' = {}
    /\ UNCHANGED <<backlog, alive, idle, strayed, wedged>>

Prepare ==
    /\ phase = "header" /\ phase' = "preparing"
    /\ UNCHANGED <<cur, backlog, alive, idle, strayed, wedged>>

\* A step of a swap, or something CamillaDSP does of its own accord.
ConfigMoves ==
    /\ phase \in {"preparing", "restoring"} \/ strayed
    /\ idle' = ~idle
    /\ UNCHANGED <<service, backlog, alive, strayed, wedged>>

Play ==
    /\ phase = "preparing" /\ phase' = "playing"
    /\ UNCHANGED <<cur, backlog, alive, idle, strayed, wedged>>

Wedges == ~wedged /\ wedged' = TRUE /\ UNCHANGED <<service, backlog, alive, idle, strayed>>

\* The session is over, or could not begin.
Ends ==
    /\ phase \in {"preparing", "playing"} /\ ~wedged
    /\ phase' = "restoring"
    /\ UNCHANGED <<cur, backlog, alive, idle, strayed, wedged>>

\* The idle swap is done, or not acknowledged.
Restored ==
    /\ phase = "restoring" /\ phase' = "waiting" /\ cur' = {}
    /\ strayed' \in BOOLEAN /\ idle' \in BOOLEAN /\ (strayed' \/ idle')
    /\ UNCHANGED <<backlog, alive, wedged>>

Strays == strayed' = TRUE /\ UNCHANGED <<service, backlog, alive, idle, wedged>>

Exit == phase = "waiting" /\ phase' = "down" /\ UNCHANGED <<cur, backlog, alive, idle, strayed, wedged>>

Killed ==
    /\ phase # "down" /\ phase' = "down" /\ cur' = {} /\ backlog' = <<>>
    /\ strayed' = (strayed \/ ~idle) /\ wedged' = FALSE
    /\ UNCHANGED <<alive, idle>>

Restart == phase = "down" /\ phase' = "waiting" /\ UNCHANGED <<cur, backlog, alive, idle, strayed, wedged>>

Serve == Accept \/ Reject \/ Prepare \/ Play \/ Ends \/ Restored

Next ==
    \/ \E c \in Conns : Call(c) \/ HangUp(c)
    \/ Serve \/ ConfigMoves \/ Wedges \/ Strays \/ Exit \/ Killed \/ Restart

Spec == Init /\ [][Next]_daemonVars
=============================================================================
