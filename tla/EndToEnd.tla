------------------------------ MODULE EndToEnd ------------------------------
(***************************************************************************)
(* Senders and a receiver together. Each sender is SenderLink, what        *)
(* PcSender is shown to implement; the receiver is DaemonContract, what    *)
(* PiReceiver is shown to implement. Between them lie the TCP connections: *)
(* a dial lands in the receiver's backlog, where it may wait behind        *)
(* connections that were given up; either end learns of the other's end    *)
(* from the socket, unless the peer vanished without a FIN or RST (a cable *)
(* pulled, a power cut, a laptop that sleeps).                             *)
(*                                                                         *)
(* Nobody stops the receiver here, and CamillaDSP stays up: PiReceiver     *)
(* covers both. A swap may still go unanswered, and the daemon be killed.  *)
(***************************************************************************)
EXTENDS DaemonContract, Naturals

CONSTANTS Senders,      (* the computers that may play                     *)
          MaxFaults,    (* bound: connections that break or vanish         *)
          MaxKills      (* bound: kills of the daemon                      *)

ASSUME SystemAssumption == MaxFaults \in Nat /\ MaxKills \in Nat

VARIABLES
    awake, link,        (* each sender, as SenderLink describes it         *)
    conn,               (* the connection a sender has: none or one        *)
    lost,               (* connections whose sender vanished               *)
    faults, kills

senders == <<awake, link, conn>>
ghosts  == <<lost, faults, kills>>
all     == <<daemonVars, senders, ghosts>>

InBacklog(c) == \E k \in DOMAIN backlog : backlog[k] = c

\* Besides its type: a connection that is waited for is held by its sender, or
\* the sender gave it up or vanished; no connection is waited for twice.
SystemTypeOK ==
    /\ phase \in {"waiting", "header", "preparing", "playing", "restoring", "down"}
    /\ cur \subseteq Conns /\ backlog \in Seq(Conns) /\ alive \subseteq Conns
    /\ {idle, strayed, wedged} \subseteq BOOLEAN
    /\ awake \in [Senders -> BOOLEAN]
    /\ link \in [Senders -> {"down", "dialing", "up", "off"}]
    /\ conn \in [Senders -> SUBSET Conns]
    /\ faults \in 0..MaxFaults /\ kills \in 0..MaxKills
    /\ alive = lost \cup UNION {conn[i] : i \in Senders}
    /\ \A k, m \in DOMAIN backlog : backlog[k] = backlog[m] => k = m

SystemInit ==
    /\ Init
    /\ link = [i \in Senders |-> "down"] /\ awake = [i \in Senders |-> FALSE]
    /\ conn = [i \in Senders |-> {}] /\ lost = {} /\ faults = 0 /\ kills = 0

----------------------------------------------------------------------------
(* A sender's steps: those of its SenderLink, and what they do to the       *)
(* connections                                                             *)

LinkMoves(i, from, to) ==
    link[i] = from /\ link' = [link EXCEPT ![i] = to] /\ UNCHANGED awake

SoundChanges(i) ==
    /\ awake' = [awake EXCEPT ![i] = ~@] /\ UNCHANGED link
    /\ UNCHANGED <<daemonVars, conn, ghosts>>

\* Mutant: the loop dials without asking for sound.
BeginDialAsleep(i) ==
    /\ LinkMoves(i, "down", "dialing")
    /\ UNCHANGED <<daemonVars, conn, ghosts>>

BeginDial(i) ==
    /\ awake[i] /\ LinkMoves(i, "down", "dialing")
    /\ UNCHANGED <<daemonVars, conn, ghosts>>

\* Both ends are done with it.
Unused(c) == ~InBacklog(c) /\ c \notin cur /\ \A i \in Senders : c \notin conn[i]

\* Free connections differ in name only.
Free == {c \in Conns : Unused(c) /\ c \notin alive}

\* The kernel of the Pi completes the handshake, whatever the daemon does, and
\* the header is written at once.
Connects(i) ==
    /\ LinkMoves(i, "dialing", "up")
    /\ Free # {}
    /\ LET c == CHOOSE c \in Free : TRUE IN Call(c) /\ conn' = [conn EXCEPT ![i] = {c}]
    /\ UNCHANGED ghosts

DialFails(i) ==
    /\ LinkMoves(i, "dialing", "down")
    /\ UNCHANGED <<daemonVars, conn, ghosts>>

\* Mutant: the socket stays open.
ClosesNothing(i) ==
    /\ conn' = [conn EXCEPT ![i] = {}]
    /\ UNCHANGED <<daemonVars, lost, kills>>

\* The socket, if any, is shut down or dropped: the FIN follows what was written.
Closes(i) ==
    /\ conn' = [conn EXCEPT ![i] = {}]
    /\ alive' = alive \ conn[i]
    /\ UNCHANGED <<service, backlog, idle, strayed, wedged, lost, kills>>

\* Silence.
Released(i) ==
    /\ ~awake[i] /\ LinkMoves(i, "up", "down")
    /\ Closes(i) /\ UNCHANGED faults

\* Mutant: the net-writer ignores that its writes fail.
SeesEndIgnored(i) ==
    /\ LinkMoves(i, "up", "up")
    /\ UNCHANGED <<daemonVars, conn, ghosts>>

\* The receiver has dropped the connection, which it does before the idle swap,
\* or was killed: a write fails.
SeesEnd(i) ==
    /\ phase = "restoring" \/ conn[i] \cap cur = {}
    /\ \A c \in conn[i] : ~InBacklog(c)
    /\ LinkMoves(i, "up", "down")
    /\ Closes(i) /\ UNCHANGED faults

\* A write times out, because no one reads or the network stalls, but what was
\* written and the end of it do arrive.
Breaks(i) ==
    /\ faults < MaxFaults /\ faults' = faults + 1
    /\ LinkMoves(i, "up", "down")
    /\ Closes(i)

\* Nothing arrives any more. The sender's write times out too, and it goes on.
Vanishes(i) ==
    /\ faults < MaxFaults /\ faults' = faults + 1
    /\ LinkMoves(i, "up", "down")
    /\ conn' = [conn EXCEPT ![i] = {}] /\ lost' = lost \cup conn[i]
    /\ UNCHANGED <<daemonVars, kills>>

\* Ctrl+C.
SenderExits(i) ==
    /\ link[i] # "off" /\ LinkMoves(i, link[i], "off")
    /\ Closes(i) /\ UNCHANGED faults

----------------------------------------------------------------------------
(* The receiver's steps, as its contract allows them                       *)

Unreachable == cur \cap alive = {} \/ cur \cap lost # {}

\* Senders write a valid header; it may not arrive from one that vanished.
HeaderFails == Unreachable /\ Reject

\* A session ends with its sender, or on an error; a sender that vanished and
\* is only waited for ends nothing.
Receives ==
    /\ Accept \/ HeaderFails \/ Prepare \/ Play \/ Ends \/ Restored \/ ConfigMoves \/ Restart
       \/ (phase = "playing" /\ Wedges)
    /\ UNCHANGED <<senders, ghosts>>

KilledOnce == kills < MaxKills /\ kills' = kills + 1 /\ Killed /\ UNCHANGED <<senders, lost, faults>>

\* A connection that vanished is forgotten when the receiver is done with it.
Forget(c) ==
    /\ c \in lost /\ Unused(c)
    /\ lost' = lost \ {c} /\ HangUp(c)
    /\ UNCHANGED <<senders, faults, kills>>

Dials(i)   == BeginDial(i) \/ Connects(i) \/ DialFails(i)
HangsUp(i) == Released(i) \/ SeesEnd(i)

SystemNext ==
    \/ \E i \in Senders : SoundChanges(i) \/ Dials(i) \/ HangsUp(i)
                          \/ Breaks(i) \/ Vanishes(i) \/ SenderExits(i)
    \/ Receives \/ KilledOnce
    \/ \E c \in Conns : Forget(c)

\* Receiver: it serves whom it can (PiReceiver, CallersServed), a session whose
\* sender left ends (PiSession, PeerEnds), systemd restarts it, and a PCM that
\* is tried again and again opens some day. Sender: it yields to silence and
\* dials with sound (PcSender, SilenceReleases and AudioResumes); a dial that
\* can succeed again and again does so some day.
SystemFairness ==
    /\ WF_daemonVars(Accept) /\ WF_daemonVars(Prepare \/ HeaderFails)
    /\ SF_daemonVars(Play) /\ WF_daemonVars(Play \/ (phase = "preparing" /\ Ends))
    /\ WF_daemonVars(cur \cap alive = {} /\ Ends)
    /\ WF_daemonVars(Restored) /\ WF_daemonVars(Restart)
    /\ \A c \in Conns : WF_all(Forget(c))
    /\ \A i \in Senders : WF_all(Dials(i)) /\ SF_all(Connects(i)) /\ WF_all(HangsUp(i))

SystemSpec == SystemInit /\ [][SystemNext]_all
FairSystem == SystemSpec /\ SystemFairness

----------------------------------------------------------------------------
(* What must hold.                                                         *)

Silent(i) == ~awake[i] \/ link[i] = "off"
Idle      == phase = "waiting" /\ idle

\* A session that never ends: for a partial frame (PiSession), or for a sender
\* that vanished and is waited for.
Stuck == wedged \/ (phase = "playing" /\ cur \cap lost # {})

\* When everyone has fallen silent for good or has exited, the Pi comes back to
\* the idle configuration and stays there, through whatever was left in the
\* backlog, a kill of the daemon and broken connections; but for a swap that
\* was not acknowledged and a session that never ends.
FreesPi == (\A i \in Senders : <>[]Silent(i)) => <>[](Idle \/ strayed \/ Stuck)

Heard(i) == phase = "playing" /\ conn[i] # {} /\ cur = conn[i]

\* A sender with lasting sound is heard, on the connection it has and not only
\* on ones it gave up, once the others have fallen silent: neither the backlog
\* nor a kill of the daemon nor a broken connection locks it out.
GetsThePi ==
    \A i \in Senders :
        <>[]~Silent(i) /\ (\A j \in Senders \ {i} : <>[]Silent(j)) => []<>(Heard(i) \/ Stuck)

\* The README's "On disconnect it restores your idle config", whatever makes
\* the sender disconnect.
DisconnectRestoresIdle ==
    (\A i \in Senders : <>[](link[i] # "up")) => <>[](Idle \/ strayed \/ wedged)
----------------------------------------------------------------------------
(* The parts of the composition.                                           *)

Link(i) == INSTANCE SenderLink WITH awake <- awake[i], link <- link[i]
=============================================================================
