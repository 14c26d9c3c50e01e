------------------------------ MODULE Startup -------------------------------
(***************************************************************************)
(* How a stream comes about: pc-sender finds a Pi (discovery.rs), opens a  *)
(* capture device (audio_in.rs), connects and announces a format           *)
(* (WireHeader); pi-receiver guards its device, registers itself, reads    *)
(* the header, has CamillaDSP switched over, and opens its half of the     *)
(* ALSA loopback (alsa_out.rs) while CamillaDSP is still reopening the     *)
(* other half. What follows is PcSender's and PiSession's.                 *)
(*                                                                         *)
(* snd-aloop gives the half that opens second the parameters of the first. *)
(***************************************************************************)
EXTENDS WireHeader, FiniteSetsExt

CONSTANTS
    Pis, DeviceOf,      (* receivers, and what their --device string is     *)
    Devices,            (* capture devices the sender may have              *)
    Requests,           (* what --format, --channels and --rate may ask for *)
    IdleCaps,           (* CamillaDSP's half of the loopback when idle      *)
    BridgeCap,          (* and under the bridge configuration               *)
    BrowseTime,         (* --discover-ms, in ticks                          *)
    OpenTime,           (* the 3 s of open_configured_with_retry, in tries  *)
    ReopenTime,         (* tries within which CamillaDSP has reopened       *)
    MaxFaults,          (* bound: faults of the network, swaps and Pis      *)
    None                (* no device, no Pi, a half that is closed          *)

Quality == [F64 |-> 60, F32 |-> 50, I32 |-> 40, U32 |-> 40, I16 |-> 30, U16 |-> 30,
            I8 |-> 10, U8 |-> 10, I64 |-> 1]    \* format_quality

\* What a device offers, and what a stream is, captured or sent.
ConfigRange == [format : DOMAIN Quality, channels : Nat, min : Nat, max : Nat]
Stream      == [format : Format \cup DOMAIN Quality, channels : Nat, rate : Nat]

ASSUME StartupAssumption ==
    /\ {BrowseTime, OpenTime, ReopenTime, MaxFaults} \subseteq Nat
    /\ ReopenTime <= OpenTime
    /\ \A d \in Devices : d.ranges \in Seq(ConfigRange) /\ d.default \in Stream
    /\ Requests \subseteq [format : Format, channels : Nat, rate : Nat]
    /\ BridgeCap \in Stream /\ IdleCaps \subseteq Stream \cup {None}
    /\ None \notin Pis \cup Devices \cup Stream

VARIABLES
    listening, announced,       (* Pis that accept, and that mDNS knows of  *)
    clock, found,               (* the browse: its clock, who answered      *)
    stage, host,                (* where the sender is, the Pi it chose     *)
    req, device, capture,       (* asked for, available, opened             *)
    rx, header,                 (* where the receiver is, what it decoded   *)
    arrived,                    (* bytes of the header that arrived         *)
    swapped, cap,               (* the bridge swap worked; CamillaDSP's half*)
    tries, pcm,                 (* attempts to open, and what was opened    *)
    faults

lan    == <<listening, announced>>
browse == <<clock, found>>
sound  == <<req, device, capture>>
wire   == <<header, arrived>>
loop   == <<swapped, cap, tries, pcm>>
vars   == <<lan, browse, stage, host, sound, rx, wire, loop, faults>>

TypeOK ==
    /\ listening \subseteq Pis /\ announced \subseteq Pis /\ found \subseteq Pis
    /\ clock \in 0..BrowseTime /\ tries \in 0..OpenTime
    /\ stage \in {"browse", "capture", "connect", "stream", "failed", "refused"}
    /\ host \in Pis \cup {None} /\ req \in Requests /\ device \in Devices \cup {None}
    /\ rx \in {"idle", "header", "opening", "playing", "ended"}
    /\ arrived \in 0..HeaderLen /\ swapped \in BOOLEAN
    /\ cap \in IdleCaps \cup {BridgeCap, None} /\ faults \in 0..MaxFaults
    /\ stage \in {"connect", "stream"} => host # None /\ capture # None
    /\ rx = "playing" => pcm # None /\ header # None

Init ==
    /\ listening = {} /\ announced = {} /\ clock = 0 /\ found = {}
    /\ \/ stage = "browse" /\ host = None
       \/ stage = "capture" /\ host \in Pis         \* --host was given
    /\ req \in Requests /\ device \in Devices \cup {None} /\ capture = None
    /\ rx = "idle" /\ header = None /\ arrived = 0
    /\ swapped = FALSE /\ cap \in IdleCaps /\ tries = 0 /\ pcm = None
    /\ faults = 0

Fault == faults < MaxFaults /\ faults' = faults + 1

----------------------------------------------------------------------------
(* A receiver comes up and goes away                                       *)

\* enforce_loopback_only: no DAC, no alias, no plug layer.
LoopbackOnly(d) == ~d.banned /\ ~d.plug /\ d.loopback

\* ServiceRegistration: try_register may fail, and drop may come too late.
Registers(p)   == (announced' = announced \cup {p} /\ UNCHANGED faults) \/ (Fault /\ UNCHANGED announced)
Unregisters(p) == announced' \in {announced, announced \ {p}}

\* It listens before it registers, and goes on when mDNS does not work.
PiStarts(p) ==
    /\ p \notin listening /\ LoopbackOnly(DeviceOf[p])
    /\ listening' = listening \cup {p} /\ Registers(p)
    /\ UNCHANGED <<browse, stage, host, sound, rx, wire, loop>>

\* It exits, which unregisters it, or dies, and the network remembers it.
PiStops(p) ==
    /\ stage # "stream" /\ p \in listening /\ Fault
    /\ listening' = listening \ {p} /\ Unregisters(p)
    /\ UNCHANGED <<browse, stage, host, sound, rx, wire, loop>>

----------------------------------------------------------------------------
(* Discovery                                                               *)

\* The same Pi may answer any number of times.
Answer(p) ==
    /\ stage = "browse" /\ clock < BrowseTime /\ p \in announced
    /\ found' = found \cup {p}
    /\ UNCHANGED <<lan, clock, stage, host, sound, rx, wire, loop, faults>>

BrowseTick ==
    /\ stage = "browse" /\ clock < BrowseTime /\ clock' = clock + 1
    /\ UNCHANGED <<lan, found, stage, host, sound, rx, wire, loop, faults>>

\* At the deadline: the one Pi that answered, or an error.
BrowseEnds ==
    /\ stage = "browse" /\ clock = BrowseTime
    /\ \/ \E p \in Pis : found = {p} /\ host' = p /\ stage' = "capture"
       \/ Cardinality(found) # 1 /\ stage' = "failed" /\ UNCHANGED host
    /\ UNCHANGED <<lan, browse, sound, rx, wire, loop, faults>>

----------------------------------------------------------------------------
(* Capture                                                                 *)

Buildable == {"F32", "I32", "I16", "U16", "U8", "I8"}

\* Mutant: the largest rate of a range is left out.
SuitsBelowMax(range, spec) ==
    range.channels = spec.channels /\ range.min <= spec.rate /\ spec.rate < range.max

Suits(range, spec) ==
    range.channels = spec.channels /\ range.min <= spec.rate /\ spec.rate <= range.max

\* Of the ranges that suit the last of the best; failing that, the default.
Chosen(d, spec) ==
    LET fit  == {k \in DOMAIN d.ranges : Suits(d.ranges[k], spec)}
        q(k) == Quality[d.ranges[k].format]
        best == Max({k \in fit : \A j \in fit : q(j) <= q(k)})
    IN  IF fit = {} THEN d.default
        ELSE [format |-> d.ranges[best].format, channels |-> spec.channels, rate |-> spec.rate]

Picked == device # None     \* pick_device found one of that name

\* The program ends when it finds no device, cannot read its format, or is
\* refused: any of cpal's calls (the configurations, the default, the stream,
\* play) may return an error.
OpenCapture ==
    /\ stage = "capture"
    /\ LET chosen   == Chosen(device, req)
           readable == Picked /\ chosen.format \in Buildable
       IN  \/ readable /\ stage' = "connect" /\ capture' = chosen
           \/ ~readable /\ stage' = "failed" /\ capture' = None
           \/ Picked /\ stage' = "refused" /\ capture' = None
    /\ UNCHANGED <<lan, browse, host, req, device, rx, wire, loop, faults>>

----------------------------------------------------------------------------
(* Connection and header                                                   *)

\* What was asked for is announced, whatever was opened.
Announced == Encode(req)

Connect ==
    /\ stage = "connect" /\ host \in listening /\ rx = "idle"
    /\ stage' = "stream" /\ rx' = "header" /\ arrived' = 0 /\ header' = None
    /\ UNCHANGED <<lan, browse, host, sound, loop, faults>>

\* TCP delivers the header in pieces.
Deliver ==
    /\ rx = "header" /\ arrived' \in (arrived + 1)..HeaderLen
    /\ UNCHANGED <<lan, browse, stage, host, sound, rx, header, loop, faults>>

\* Mutant: one read instead of read_exact; the rest of the buffer is zero.
ReadHeaderOnce ==
    /\ rx = "header" /\ arrived > 0
    /\ LET bytes == [k \in 1..HeaderLen |-> IF k <= arrived THEN Announced[k] ELSE 0]
       IN  \/ Valid(bytes) /\ rx' = "opening" /\ header' = Decode(bytes)
           \/ ~Valid(bytes) /\ rx' = "ended" /\ UNCHANGED header
    /\ tries' = 0 /\ pcm' = None
    /\ \/ swapped' = TRUE /\ UNCHANGED faults
       \/ swapped' = FALSE /\ Fault
    /\ UNCHANGED <<lan, browse, stage, host, sound, arrived, cap>>

\* read_exact, then the bridge swap, which may fail.
ReadHeader ==
    /\ rx = "header" /\ arrived = HeaderLen
    /\ \/ Valid(Announced) /\ rx' = "opening" /\ header' = Decode(Announced)
       \/ ~Valid(Announced) /\ rx' = "ended" /\ UNCHANGED header
    /\ tries' = 0 /\ pcm' = None
    /\ \/ swapped' = TRUE /\ UNCHANGED faults
       \/ swapped' = FALSE /\ Fault
    /\ UNCHANGED <<lan, browse, stage, host, sound, arrived, cap>>

\* Nothing for 5 s, or the connection is cut.
HeaderTimesOut ==
    /\ rx = "header" /\ arrived < HeaderLen /\ rx' = "ended" /\ Fault
    /\ UNCHANGED <<lan, browse, stage, host, sound, wire, loop>>

----------------------------------------------------------------------------
(* The loopback                                                            *)

\* After the reload CamillaDSP closes its half and opens it again.
CaptureReopens ==
    /\ rx = "opening" /\ swapped /\ cap # BridgeCap
    /\ cap' \in {None, BridgeCap} \ {cap}
    /\ UNCHANGED <<lan, browse, stage, host, sound, rx, wire, swapped, tries, pcm, faults>>

\* Channels and format must be what the other half has; set_rate takes the
\* nearest rate, which is the other half's.
Agrees == cap # None => cap.channels = header.channels /\ cap.format = header.format

OpenPlayback ==
    /\ rx = "opening" /\ Agrees
    /\ rx' = "playing"
    /\ pcm' = IF cap = None THEN header ELSE [header EXCEPT !.rate = cap.rate]
    /\ UNCHANGED <<lan, browse, stage, host, sound, wire, swapped, cap, tries, faults>>

\* The halves disagree, or another source holds the playback half.
CannotOpen == (~Agrees /\ UNCHANGED faults) \/ Fault

\* Mutant: the first failure is final.
OpenFailsAtOnce ==
    /\ rx = "opening" /\ CannotOpen /\ rx' = "ended"
    /\ UNCHANGED <<lan, browse, stage, host, sound, wire, loop>>

\* Mutant: the time is not looked at.
OpenFailsNever ==
    /\ rx = "opening" /\ CannotOpen /\ tries' = tries + 1
    /\ UNCHANGED <<lan, browse, stage, host, sound, rx, wire, swapped, cap, pcm>>

\* A failed attempt: again in 150 ms, until the time is over. By then
\* CamillaDSP has long reopened.
OpenFails ==
    /\ rx = "opening" /\ CannotOpen
    /\ swapped /\ tries = ReopenTime => cap = BridgeCap
    /\ \/ tries < OpenTime /\ tries' = tries + 1 /\ UNCHANGED rx
       \/ tries = OpenTime /\ rx' = "ended" /\ UNCHANGED tries
    /\ UNCHANGED <<lan, browse, stage, host, sound, wire, swapped, cap, pcm>>

\* The idle swap follows; the sender notices and connects again.
Reconnect ==
    /\ stage = "stream" /\ rx = "ended"
    /\ stage' = "connect" /\ rx' = "idle" /\ cap' \in IdleCaps \cup {cap}
    /\ UNCHANGED <<lan, browse, host, sound, wire, swapped, tries, pcm, faults>>

----------------------------------------------------------------------------
Done == stage \in {"failed", "refused"} \/ rx = "playing"
Stay == Done /\ UNCHANGED vars

Sender   == BrowseTick \/ BrowseEnds \/ OpenCapture \/ Connect \/ Reconnect
Receiver == ReadHeader \/ OpenPlayback \/ OpenFails
Faulty   == HeaderTimesOut \/ \E p \in Pis : PiStops(p)

Next ==
    \/ Sender \/ Receiver \/ Deliver \/ CaptureReopens \/ Faulty
    \/ \E p \in Pis : PiStarts(p) \/ Answer(p)
    \/ Stay

Spec == Init /\ [][Next]_vars

\* Both programs run, TCP delivers, CamillaDSP reopens what it was told to, and
\* systemd starts a receiver that is not running.
FairSpec ==
    /\ Spec
    /\ WF_vars(Sender) /\ WF_vars(Receiver) /\ WF_vars(Deliver) /\ WF_vars(CaptureReopens)
    /\ \A p \in Pis : WF_vars(PiStarts(p))

----------------------------------------------------------------------------
(* What must hold.                                                         *)

FellBack == ~\E k \in DOMAIN device.ranges : Suits(device.ranges[k], req)

\* The Pi plays what the PC captures, in its channels, its rate and the format
\* it is sent in: however the header arrives and whatever CamillaDSP's half of
\* the loopback is at that moment. Two exceptions: a device that supports not
\* what was asked for, and a rate that CamillaDSP's half imposes.
PlaysAsCaptured ==
    rx = "playing" /\ ~FellBack =>
        /\ pcm.format = req.format /\ pcm.channels = capture.channels
        /\ pcm.rate = capture.rate \/ (cap # None /\ pcm.rate = cap.rate)

Offers(d, f) ==
    \E k \in DOMAIN d.ranges : d.ranges[k].format = f /\ d.ranges[k].channels = req.channels
                               /\ req.rate \in d.ranges[k].min..d.ranges[k].max

\* "Quality-ranked sample format selection (F32 > I32 > I16 > U16 > U8 > I8)",
\* as CHANGELOG.md:140-141 has it.
StatedRank == [F32 |-> 6, I32 |-> 5, I16 |-> 4, U16 |-> 3, U8 |-> 2, I8 |-> 1]

\* format_quality does not tell these from one another: the last one wins.
Tied(f, g) == {f, g} \in {{"I16", "U16"}, {"U8", "I8"}}

\* The device is opened as asked for and, of the formats it offers for that, in
\* the one the changelog ranks highest, wherever it stands in the device's list;
\* only a tied format may take its place. Refusals of cpal apart, a device that
\* offers what was asked for in a readable format is not opened only where F64,
\* or U32 without F32, is on offer too.
OpensBest ==
    LET offered == {f \in DOMAIN Quality : Offers(device, f)}
    IN  device # None /\ offered # {} =>
            /\ capture # None =>
                  /\ capture.format \in offered
                  /\ capture.rate = req.rate /\ capture.channels = req.channels
                  /\ \A f \in offered \cap Buildable :
                        StatedRank[f] <= StatedRank[capture.format] \/ Tied(f, capture.format)
            /\ stage = "failed" /\ host # None =>
                  "F64" \in offered \/ ("U32" \in offered /\ "F32" \notin offered)
                  \/ offered \cap Buildable = {}

\* A stream that the bridge configuration's capture matches is played, or the
\* sender has said why not, within the faults that happen: no race with
\* CamillaDSP's reload makes the two try for ever, nor does another source that
\* holds the loopback for some attempts. One that never lets go is not meant.
Settles ==
    Valid(Announced) /\ (host # None => LoopbackOnly(DeviceOf[host]))
      /\ req.format = BridgeCap.format /\ req.channels = BridgeCap.channels => <>Done
=============================================================================
