--------------------------- MODULE EndToEndProofs ---------------------------
(***************************************************************************)
(* The composition adds nothing to its parts: whatever happens on the      *)
(* connections between them, the receiver takes the steps of its contract, *)
(* and each sender those of its link. What is shown of the system under    *)
(* these contracts thus holds of the programs that keep them.              *)
(***************************************************************************)
EXTENDS EndToEnd, TLAPS

AtMostOne == {{}} \cup {{c} : c \in Conns}

\* Each sender has one connection at most.
LinksTyped ==
    /\ awake \in [Senders -> BOOLEAN]
    /\ link \in [Senders -> {"down", "dialing", "up", "off"}]
    /\ conn \in [Senders -> AtMostOne]

SenderStep(i) ==
    \/ SoundChanges(i) \/ BeginDial(i) \/ Connects(i) \/ DialFails(i)
    \/ Released(i) \/ SeesEnd(i) \/ Breaks(i) \/ Vanishes(i) \/ SenderExits(i)

RestOfSystem == Receives \/ KilledOnce \/ \E c \in Conns : Forget(c)

\* The next-state relation, sorted by whose step it is.
LEMMA Steps == ASSUME SystemNext PROVE RestOfSystem \/ \E i \in Senders : SenderStep(i)
  BY DEF SystemNext, RestOfSystem, SenderStep, Dials, HangsUp

\* A sender's step moves its own link and sound only.
LEMMA OwnLink ==
  ASSUME NEW i \in Senders, SenderStep(i), LinksTyped
  PROVE  \/ /\ awake' = [awake EXCEPT ![i] = ~@] /\ UNCHANGED link
         \/ \E to \in {"down", "dialing", "up", "off"} :
              link' = [link EXCEPT ![i] = to] /\ UNCHANGED awake
  BY DEF SenderStep, SoundChanges, BeginDial, Connects, DialFails, Released, SeesEnd,
         Breaks, Vanishes, SenderExits, LinkMoves

\* A sender's connection goes to none or to one of Conns.
LEMMA OwnConn ==
  ASSUME NEW i \in Senders, SenderStep(i), LinksTyped
  PROVE  \/ UNCHANGED conn
         \/ \E s \in AtMostOne : conn' = [conn EXCEPT ![i] = s]
<1>1. CASE Connects(i)
  <2>1. PICK c \in Conns : conn' = [conn EXCEPT ![i] = {c}]
    <3>1. Free # {} /\ Free \subseteq Conns
      BY <1>1 DEF Connects, Free
    <3>2. (CHOOSE c \in Free : TRUE) \in Conns
      BY <3>1
    <3>. QED BY <1>1, <3>2 DEF Connects
  <2>. QED BY <2>1 DEF AtMostOne
<1>2. CASE ~Connects(i)
  BY <1>2 DEF SenderStep, SoundChanges, BeginDial, DialFails, Released, SeesEnd,
              Breaks, Vanishes, SenderExits, Closes, AtMostOne
<1>. QED BY <1>1, <1>2

LEMMA LinksInvariant == SystemSpec => []LinksTyped
<1>1. SystemInit => LinksTyped
  BY DEF SystemInit, LinksTyped, AtMostOne
<1>2. LinksTyped /\ [SystemNext]_all => LinksTyped'
  <2> SUFFICES ASSUME LinksTyped, [SystemNext]_all PROVE LinksTyped'
    OBVIOUS
  <2>1. CASE UNCHANGED all
    BY <2>1 DEF all, senders, LinksTyped
  <2>2. CASE RestOfSystem
    BY <2>2 DEF RestOfSystem, Receives, KilledOnce, Forget, senders, LinksTyped
  <2>3. ASSUME NEW i \in Senders, SenderStep(i) PROVE LinksTyped'
    BY <2>3, OwnLink, OwnConn DEF LinksTyped
  <2>. QED BY <2>1, <2>2, <2>3, Steps
<1>. QED BY <1>1, <1>2, PTL DEF SystemSpec

----------------------------------------------------------------------------
(* The receiver                                                            *)

\* Closing a sender's socket is a caller hanging up, if there was one.
LEMMA ClosesHangsUp ==
  ASSUME LinksTyped, NEW i \in Senders, Closes(i)
  PROVE  UNCHANGED daemonVars \/ \E c \in Conns : HangUp(c)
<1>1. CASE conn[i] = {}
  BY <1>1 DEF Closes, daemonVars
<1>2. CASE conn[i] # {}
  <2>1. PICK c \in Conns : conn[i] = {c}
    BY <1>2 DEF LinksTyped, AtMostOne
  <2>2. HangUp(c)
    BY <2>1 DEF Closes, HangUp
  <2>. QED BY <2>2
<1>. QED BY <1>1, <1>2

LEMMA SenderStepIsCall ==
  ASSUME LinksTyped, NEW i \in Senders, SenderStep(i)
  PROVE  UNCHANGED daemonVars \/ \E c \in Conns : Call(c) \/ HangUp(c)
<1>1. CASE SoundChanges(i) \/ BeginDial(i) \/ DialFails(i) \/ Vanishes(i)
  BY <1>1 DEF SoundChanges, BeginDial, DialFails, Vanishes
<1>2. CASE Connects(i)
  <2>1. Free # {} /\ Free \subseteq Conns
    BY <1>2 DEF Connects, Free
  <2>2. (CHOOSE c \in Free : TRUE) \in Conns
    BY <2>1
  <2>. QED BY <1>2, <2>2 DEF Connects
<1>3. CASE Released(i) \/ SeesEnd(i) \/ Breaks(i) \/ SenderExits(i)
  <2>1. Closes(i)
    BY <1>3 DEF Released, SeesEnd, Breaks, SenderExits
  <2>. QED BY <2>1, ClosesHangsUp
<1>. QED BY <1>1, <1>2, <1>3 DEF SenderStep

\* In the system the receiver keeps DaemonContract: every behaviour of the
\* system is, seen from the receiver, one that PiReceiver's contract allows.
THEOREM ReceiverKeepsContract == SystemSpec => Spec
<1>1. SystemInit => Init
  BY DEF SystemInit
<1>2. LinksTyped /\ [SystemNext]_all => [Next]_daemonVars
  <2> SUFFICES ASSUME LinksTyped, [SystemNext]_all PROVE [Next]_daemonVars
    OBVIOUS
  <2>1. CASE UNCHANGED all
    BY <2>1 DEF all
  <2>2. CASE Receives
    BY <2>2 DEF Receives, HeaderFails, Next, Serve
  <2>3. CASE KilledOnce
    BY <2>3 DEF KilledOnce, Next
  <2>4. ASSUME NEW c \in Conns, Forget(c) PROVE Next
    BY <2>4 DEF Forget, Next
  <2>5. ASSUME NEW i \in Senders, SenderStep(i) PROVE [Next]_daemonVars
    BY <2>5, SenderStepIsCall DEF Next
  <2>. QED BY <2>1, <2>2, <2>3, <2>4, <2>5, Steps DEF RestOfSystem
<1>. QED BY <1>1, <1>2, LinksInvariant, PTL DEF SystemSpec, Spec

----------------------------------------------------------------------------
(* The senders                                                             *)

\* In the system every sender keeps SenderLink, whatever the others and the
\* receiver do: one connection at a time, dialled only with sound.
THEOREM SendersKeepLink == ASSUME NEW i \in Senders PROVE SystemSpec => Link(i)!Spec
<1>1. SystemInit => Link(i)!Init
  BY DEF SystemInit, Link!Init
<1>2. LinksTyped /\ [SystemNext]_all => [Link(i)!Next]_(Link(i)!linkVars)
  <2> SUFFICES ASSUME LinksTyped, [SystemNext]_all
               PROVE  Link(i)!Next \/ UNCHANGED Link(i)!linkVars
    OBVIOUS
  <2>1. CASE UNCHANGED all
    BY <2>1 DEF all, senders, Link!linkVars
  <2>2. CASE RestOfSystem
    BY <2>2 DEF RestOfSystem, Receives, KilledOnce, Forget, senders, Link!linkVars
  <2>3. ASSUME SenderStep(i) PROVE Link(i)!Next
    BY <2>3 DEF LinksTyped, SenderStep, SoundChanges, BeginDial, Connects, DialFails, Released,
                SeesEnd, Breaks, Vanishes, SenderExits, LinkMoves, Link!Next, Link!SoundChanges,
                Link!BeginDial, Link!DialEnds, Link!HangUp, Link!Exit
  <2>4. ASSUME NEW j \in Senders, j # i, SenderStep(j) PROVE UNCHANGED Link(i)!linkVars
    BY <2>4, OwnLink DEF LinksTyped, Link!linkVars
  <2>. QED BY <2>1, <2>2, <2>3, <2>4, Steps
<1>. QED BY <1>1, <1>2, LinksInvariant, PTL DEF SystemSpec, Link!Spec

----------------------------------------------------------------------------
(* Who holds which connection                                              *)

\* Only a link that is up has a connection, and no two ends share one.
Apart ==
    /\ \A i \in Senders : link[i] # "up" => conn[i] = {}
    /\ \A i, j \in Senders : i # j => conn[i] \cap conn[j] = {}
    /\ \A i \in Senders : conn[i] \cap lost = {}

Held == alive = lost \cup UNION {conn[i] : i \in Senders}

NoneTwice == \A k, m \in DOMAIN backlog : backlog[k] = backlog[m] => k = m

\* The receiver's part of the types.
DaemonTyped ==
    /\ phase \in {"waiting", "header", "preparing", "playing", "restoring", "down"}
    /\ cur \subseteq Conns /\ backlog \in Seq(Conns)
    /\ idle \in BOOLEAN /\ strayed \in BOOLEAN /\ wedged \in BOOLEAN

Bounded == lost \subseteq Conns /\ faults \in 0..MaxFaults /\ kills \in 0..MaxKills

SystemInv == LinksTyped /\ DaemonTyped /\ Bounded /\ Apart /\ Held /\ NoneTwice

LEMMA SystemInvType == SystemInv => SystemTypeOK
<1>. SUFFICES ASSUME SystemInv PROVE SystemTypeOK
  OBVIOUS
<1>1. \A i \in Senders : conn[i] \subseteq Conns
  BY DEF SystemInv, LinksTyped, AtMostOne
<1>2. conn \in [Senders -> SUBSET Conns]
  BY <1>1 DEF SystemInv, LinksTyped
<1>3. alive \subseteq Conns
  BY <1>1 DEF SystemInv, Held, Bounded
<1>. QED BY <1>2, <1>3 DEF SystemInv, SystemTypeOK, LinksTyped, DaemonTyped, Bounded, Held, NoneTwice

LEMMA SystemInvInit == SystemInit => SystemInv
<1>. SUFFICES ASSUME SystemInit PROVE SystemInv
  OBVIOUS
<1>1. LinksTyped
  BY DEF SystemInit, LinksTyped, AtMostOne
<1>2. 0 \in 0..MaxFaults /\ 0 \in 0..MaxKills
  BY SystemAssumption
<1>3. UNION {conn[i] : i \in Senders} = {}
  BY DEF SystemInit
<1>4. backlog = <<>> /\ DOMAIN backlog = {} /\ backlog \in Seq(Conns)
  BY DEF SystemInit, Init
<1>. QED BY <1>1, <1>2, <1>3, <1>4
     DEF SystemInit, Init, SystemInv, DaemonTyped, Bounded, Apart, Held, NoneTwice

\* The backlog grows at its end and shrinks at its front.
LEMMA Appended ==
  ASSUME backlog \in Seq(Conns), NoneTwice, NEW c \in Conns, ~InBacklog(c),
         backlog' = Append(backlog, c)
  PROVE  backlog' \in Seq(Conns) /\ NoneTwice'
  BY DEF NoneTwice, InBacklog

LEMMA Taken ==
  ASSUME backlog \in Seq(Conns), NoneTwice, backlog # <<>>, backlog' = Tail(backlog)
  PROVE  Head(backlog) \in Conns /\ backlog' \in Seq(Conns) /\ NoneTwice'
<1>1. /\ Len(backlog) \in Nat /\ Len(backlog) > 0 /\ DOMAIN backlog = 1..Len(backlog)
      /\ Head(backlog) = backlog[1] /\ backlog' \in Seq(Conns)
      /\ Len(backlog') = Len(backlog) - 1
  OBVIOUS
<1>2. DOMAIN backlog' = 1..(Len(backlog) - 1)
  BY <1>1
<1>3. ASSUME NEW k \in 1..(Len(backlog) - 1) PROVE backlog'[k] = backlog[k + 1] /\ k + 1 \in DOMAIN backlog
  BY <1>1
<1>4. ASSUME NEW k \in DOMAIN backlog', NEW m \in DOMAIN backlog', backlog'[k] = backlog'[m] PROVE k = m
  <2>1. backlog[k + 1] = backlog[m + 1] /\ k + 1 \in DOMAIN backlog /\ m + 1 \in DOMAIN backlog
    BY <1>2, <1>3, <1>4
  <2>2. k + 1 = m + 1
    BY <2>1 DEF NoneTwice
  <2>. QED BY <1>1, <1>2, <2>2
<1>. QED BY <1>1, <1>4 DEF NoneTwice

\* The receiver's own steps.
LEMMA ReceiverStep ==
  ASSUME SystemInv, Receives \/ KilledOnce
  PROVE  SystemInv'
<1>1. UNCHANGED <<awake, link, conn, lost, faults, alive>> /\ kills' \in 0..MaxKills
  <2>1. CASE Receives
    BY <2>1 DEF Receives, HeaderFails, Accept, Reject, Prepare, Play, Ends, Restored, ConfigMoves,
                Restart, Wedges, senders, ghosts, SystemInv, Bounded
  <2>2. CASE KilledOnce
    BY <2>2, SystemAssumption DEF KilledOnce, Killed, senders, SystemInv, Bounded
  <2>. QED BY <2>1, <2>2
<1>2. /\ phase' \in {"waiting", "header", "preparing", "playing", "restoring", "down"}
      /\ idle' \in BOOLEAN /\ strayed' \in BOOLEAN /\ wedged' \in BOOLEAN
  BY Zenon DEF Receives, HeaderFails, Accept, Reject, Prepare, Play, Ends, Restored, ConfigMoves,
         Restart, Wedges, KilledOnce, Killed, service, SystemInv, DaemonTyped
<1>3. cur' \subseteq Conns /\ backlog' \in Seq(Conns) /\ NoneTwice'
  <2>1. CASE Accept
    BY <2>1, Taken DEF Accept, SystemInv, DaemonTyped
  <2>2. CASE KilledOnce
    <3>1. backlog' = <<>> /\ cur' = {}
      BY <2>2 DEF KilledOnce, Killed
    <3>. QED BY <3>1 DEF NoneTwice
  <2>3. CASE ~Accept /\ ~KilledOnce
    <3>1. UNCHANGED backlog /\ cur' \in {cur, {}}
      BY <2>3 DEF Receives, HeaderFails, Reject, Prepare, Play, Ends, Restored, ConfigMoves,
                  Restart, Wedges, service
    <3>. QED BY <3>1 DEF SystemInv, DaemonTyped, NoneTwice
  <2>. QED BY <2>1, <2>2, <2>3
<1>. QED BY <1>1, <1>2, <1>3 DEF SystemInv, LinksTyped, DaemonTyped, Bounded, Apart, Held

LEMMA ForgetStep ==
  ASSUME SystemInv, NEW c \in Conns, Forget(c)
  PROVE  SystemInv'
<1>1. /\ UNCHANGED <<awake, link, conn, faults, kills, phase, cur, backlog, idle, strayed, wedged>>
      /\ lost' = lost \ {c} /\ alive' = alive \ {c} /\ \A i \in Senders : c \notin conn[i]
  BY DEF Forget, HangUp, Unused, senders, service
<1>. QED BY <1>1 DEF SystemInv, LinksTyped, DaemonTyped, Bounded, Apart, Held, NoneTwice

\* A sender's steps, by what they do to its connection.
LEMMA ConnectsStep ==
  ASSUME SystemInv, NEW i \in Senders, Connects(i)
  PROVE  SystemInv'
<1>1. PICK c \in Free : Call(c) /\ conn' = [conn EXCEPT ![i] = {c}]
  BY DEF Connects
<1>2. c \in Conns /\ ~InBacklog(c) /\ c \notin alive
  BY DEF Free, Unused
<1>3. LinksTyped'
  <2>1. {c} \in AtMostOne
    BY <1>2 DEF AtMostOne
  <2>. QED BY <1>1, <2>1 DEF Connects, LinkMoves, SystemInv, LinksTyped
<1>4. backlog' \in Seq(Conns) /\ NoneTwice'
  BY <1>1, <1>2, Appended DEF Call, SystemInv, DaemonTyped
<1>5. /\ link' = [link EXCEPT ![i] = "up"] /\ link[i] = "dialing" /\ alive' = alive \cup {c}
      /\ UNCHANGED <<phase, cur, idle, strayed, wedged, lost, faults, kills>>
  BY <1>1 DEF Connects, LinkMoves, Call, service, ghosts
<1>6. conn[i] = {} /\ c \notin lost /\ \A j \in Senders : c \notin conn[j]
  BY <1>2, <1>5 DEF SystemInv, Apart, Held
<1>7. \A j \in Senders : conn'[j] = IF j = i THEN {c} ELSE conn[j]
  BY <1>1 DEF SystemInv, LinksTyped
<1>8. Apart'
  BY <1>5, <1>6, <1>7 DEF SystemInv, LinksTyped, Apart
<1>9. Held'
  <2>1. UNION {conn'[j] : j \in Senders} = (UNION {conn[j] : j \in Senders}) \cup {c}
    BY <1>6, <1>7
  <2>. QED BY <1>5, <2>1 DEF SystemInv, Held
<1>. QED BY <1>3, <1>4, <1>5, <1>8, <1>9 DEF SystemInv, DaemonTyped, Bounded

\* Its connection, if any, is closed, or goes on without its sender.
LEMMA EndsStep ==
  ASSUME SystemInv, NEW i \in Senders,
         Released(i) \/ SeesEnd(i) \/ Breaks(i) \/ Vanishes(i) \/ SenderExits(i)
  PROVE  SystemInv'
<1>1. /\ link' = [link EXCEPT ![i] = "down"] \/ link' = [link EXCEPT ![i] = "off"]
      /\ UNCHANGED awake /\ conn' = [conn EXCEPT ![i] = {}]
      /\ UNCHANGED <<phase, cur, backlog, idle, strayed, wedged, kills>>
  BY DEF Released, SeesEnd, Breaks, Vanishes, SenderExits, LinkMoves, Closes, service, daemonVars
<1>2. /\ faults' \in 0..MaxFaults
      /\ \/ alive' = alive \ conn[i] /\ lost' = lost
         \/ alive' = alive /\ lost' = lost \cup conn[i]
  <2>1. faults' = faults \/ (faults < MaxFaults /\ faults' = faults + 1)
    BY DEF Released, SeesEnd, Breaks, Vanishes, SenderExits
  <2>2. faults' \in 0..MaxFaults
    BY <2>1, SystemAssumption DEF SystemInv, Bounded
  <2>. QED BY <2>2 DEF Released, SeesEnd, Breaks, Vanishes, SenderExits, Closes, daemonVars
<1>3. LinksTyped'
  BY <1>1 DEF SystemInv, LinksTyped, AtMostOne
<1>4. \A j \in Senders : conn'[j] = IF j = i THEN {} ELSE conn[j]
  BY <1>1 DEF SystemInv, LinksTyped
<1>5. conn[i] \subseteq Conns
  BY DEF SystemInv, LinksTyped, AtMostOne
<1>6. Apart'
  <2>1. \A j \in Senders : link'[j] # "up" => conn'[j] = {}
    BY <1>1, <1>4 DEF SystemInv, LinksTyped, Apart
  <2>2. \A j, k \in Senders : j # k => conn'[j] \cap conn'[k] = {}
    BY <1>4 DEF SystemInv, Apart
  <2>3. \A j \in Senders : conn'[j] \cap lost' = {}
    BY <1>2, <1>4 DEF SystemInv, Apart
  <2>. QED BY <2>1, <2>2, <2>3 DEF Apart
<1>7. Held'
  <2>1. alive' = lost' \cup UNION {conn[j] : j \in Senders \ {i}}
    BY <1>2 DEF SystemInv, Apart, Held
  <2>2. UNION {conn'[j] : j \in Senders} = UNION {conn[j] : j \in Senders \ {i}}
    BY <1>4
  <2>. QED BY <2>1, <2>2 DEF Held
<1>. QED BY <1>1, <1>2, <1>3, <1>5, <1>6, <1>7 DEF SystemInv, DaemonTyped, Bounded, NoneTwice

LEMMA NoConnStep ==
  ASSUME SystemInv, NEW i \in Senders, SoundChanges(i) \/ BeginDial(i) \/ DialFails(i)
  PROVE  SystemInv'
<1>1. UNCHANGED <<phase, cur, backlog, alive, idle, strayed, wedged, conn, lost, faults, kills>>
  BY DEF SoundChanges, BeginDial, DialFails, daemonVars, service, ghosts
<1>2. LinksTyped'
  BY <1>1 DEF SoundChanges, BeginDial, DialFails, LinkMoves, SystemInv, LinksTyped
<1>3. \A j \in Senders : link'[j] # "up" => link[j] # "up"
  BY DEF SoundChanges, BeginDial, DialFails, LinkMoves, SystemInv, LinksTyped
<1>. QED BY <1>1, <1>2, <1>3 DEF SystemInv, DaemonTyped, Bounded, Apart, Held, NoneTwice

\* The connections are accounted for in every state: one that the receiver
\* believes alive is held by one sender or lost by one that vanished, and
\* waits at most once, however dials, hang-ups, faults and kills interleave.
THEOREM ConnectionsAccounted == SystemSpec => []SystemTypeOK
<1>1. SystemInv /\ [SystemNext]_all => SystemInv'
  <2> SUFFICES ASSUME SystemInv, [SystemNext]_all PROVE SystemInv'
    OBVIOUS
  <2>1. CASE UNCHANGED all
    BY <2>1 DEF all, senders, ghosts, daemonVars, service,
                SystemInv, LinksTyped, DaemonTyped, Bounded, Apart, Held, NoneTwice
  <2>2. CASE RestOfSystem
    BY <2>2, ReceiverStep, ForgetStep DEF RestOfSystem
  <2>3. ASSUME NEW i \in Senders, SenderStep(i) PROVE SystemInv'
    BY <2>3, NoConnStep, ConnectsStep, EndsStep DEF SenderStep
  <2>. QED BY <2>1, <2>2, <2>3, Steps
<1>. QED BY <1>1, SystemInvInit, SystemInvType, PTL DEF SystemSpec
=============================================================================
