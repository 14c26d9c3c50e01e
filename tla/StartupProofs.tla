---------------------------- MODULE StartupProofs ----------------------------
(***************************************************************************)
(* How a stream comes about, for every LAN, every capture device with any  *)
(* number of configurations, every request and every deadline.             *)
(***************************************************************************)
EXTENDS Startup, WireHeaderProofs, WellFoundedInduction, TLAPS

----------------------------------------------------------------------------
(* Extremes of sets of numbers                                             *)

LEMMA LessThanOnNat == IsWellFoundedOn({p \in Nat \X Nat : p[1] < p[2]}, Nat)
  BY NatLessThanWellFounded DEF OpToRel

LEMMA LeastExists ==
  ASSUME NEW S, S \subseteq Nat, S # {}
  PROVE  \E x \in S : \A y \in S : x <= y
<1>. DEFINE R == {p \in Nat \X Nat : p[1] < p[2]}
<1>1. \A x, y \in Nat : <<y, x>> \in R <=> y < x
  OBVIOUS
<1>. HIDE DEF R
<1>2. PICK x \in S : \A y \in S : <<y, x>> \notin R
  BY LessThanOnNat, WFMin DEF R
<1>3. \A y \in S : x <= y
  <2>. TAKE y \in S
  <2>1. x \in Nat /\ y \in Nat /\ ~(y < x)
    BY <1>1, <1>2
  <2>. QED BY <2>1
<1>. QED BY <1>3

\* The mirror image of the least.
LEMMA MaxIsGreatest ==
  ASSUME NEW n \in Nat, NEW S, S \subseteq 1..n, S # {}
  PROVE  Max(S) \in S /\ \A y \in S : Max(S) >= y
<1>. DEFINE T == {n - x : x \in S}
<1>1. \A x \in S : x \in Nat /\ n - x \in Nat
  BY SMT
<1>2. T \subseteq Nat /\ T # {}
  BY <1>1
<1>3. PICK t \in T : \A y \in T : t <= y
  BY <1>2, LeastExists
<1>4. PICK x \in S : t = n - x
  OBVIOUS
<1>5. \A y \in S : x >= y
  <2>. TAKE y \in S
  <2>1. n - x <= n - y
    BY <1>3, <1>4
  <2>. QED BY <1>1, <2>1
<1>. QED BY <1>5 DEF Max

----------------------------------------------------------------------------
(* The choice of a capture configuration                                   *)

Fit(d, spec) == {k \in DOMAIN d.ranges : Suits(d.ranges[k], spec)}

LEMMA QualityIsNat == \A f \in DOMAIN Quality : Quality[f] \in 0..60
  BY DEF Quality

\* Some configuration that fits ranks highest.
LEMMA BestExists ==
  ASSUME NEW d \in Devices, NEW spec \in Requests, Fit(d, spec) # {}
  PROVE  \E k \in Fit(d, spec) : \A j \in Fit(d, spec) :
            Quality[d.ranges[j].format] <= Quality[d.ranges[k].format]
<1>. DEFINE q(k) == Quality[d.ranges[k].format]
            T == {60 - q(k) : k \in Fit(d, spec)}
<1>1. \A k \in Fit(d, spec) : q(k) \in 0..60
  <2>1. \A k \in Fit(d, spec) : d.ranges[k] \in ConfigRange
    BY StartupAssumption DEF Fit
  <2>. QED BY <2>1, QualityIsNat DEF ConfigRange
<1>. HIDE DEF q
<1>2. T \subseteq Nat /\ T # {}
  BY <1>1
<1>3. PICK t \in T : \A y \in T : t <= y
  BY <1>2, LeastExists
<1>4. PICK k \in Fit(d, spec) : t = 60 - q(k)
  OBVIOUS
<1>5. ASSUME NEW j \in Fit(d, spec) PROVE q(j) <= q(k)
  <2>1. 60 - q(k) <= 60 - q(j)
    BY <1>3, <1>4
  <2>. QED BY <1>1, <2>1
<1>. QED BY <1>5 DEF q

\* What is chosen is one of those, in the requested rate and channels.
LEMMA ChosenIsBest ==
  ASSUME NEW d \in Devices, NEW spec \in Requests, Fit(d, spec) # {}
  PROVE  \E k \in Fit(d, spec) :
            /\ \A j \in Fit(d, spec) : Quality[d.ranges[j].format] <= Quality[d.ranges[k].format]
            /\ Chosen(d, spec) = [format |-> d.ranges[k].format, channels |-> spec.channels,
                                  rate |-> spec.rate]
<1>. DEFINE q(k) == Quality[d.ranges[k].format]
            B == {k \in Fit(d, spec) : \A j \in Fit(d, spec) : q(j) <= q(k)}
<1>1. PICK n \in Nat : B \subseteq 1..n
  <2>1. d.ranges \in Seq(ConfigRange)
    BY StartupAssumption
  <2>2. Len(d.ranges) \in Nat /\ DOMAIN d.ranges = 1..Len(d.ranges)
    BY <2>1
  <2>. QED BY <2>2 DEF Fit
<1>2. B # {}
  BY BestExists
<1>3. Max(B) \in B
  BY <1>1, <1>2, MaxIsGreatest
<1>4. Chosen(d, spec) = [format |-> d.ranges[Max(B)].format, channels |-> spec.channels,
                         rate |-> spec.rate]
  BY DEF Chosen, Fit
<1>. QED BY <1>3, <1>4

\* The fall-back included, a stream is chosen.
LEMMA ChosenIsStream ==
  ASSUME NEW d \in Devices, NEW spec \in Requests
  PROVE  Chosen(d, spec) \in Stream
<1>1. CASE Fit(d, spec) = {}
  BY <1>1, StartupAssumption DEF Chosen, Fit
<1>2. CASE Fit(d, spec) # {}
  <2>1. PICK k \in Fit(d, spec) : Chosen(d, spec) =
               [format |-> d.ranges[k].format, channels |-> spec.channels, rate |-> spec.rate]
    BY <1>2, ChosenIsBest
  <2>2. d.ranges[k].format \in DOMAIN Quality
    <3>1. d.ranges \in Seq(ConfigRange) /\ k \in DOMAIN d.ranges
      BY StartupAssumption DEF Fit
    <3>2. d.ranges[k] \in ConfigRange
      BY <3>1
    <3>. QED BY <3>2 DEF ConfigRange
  <2>3. spec.channels \in Nat /\ spec.rate \in Nat
    BY StartupAssumption
  <2>. QED BY <2>1, <2>2, <2>3 DEF Stream
<1>. QED BY <1>1, <1>2

----------------------------------------------------------------------------
(* The invariant                                                           *)

\* A sender that is past the browse has a Pi.
Hosted == /\ stage = "browse" => host = None
          /\ stage \in {"capture", "connect", "stream"} => host # None

\* What was opened is what was chosen, and otherwise the sender says why not.
Captured ==
    /\ capture # None => device # None /\ capture = Chosen(device, req)
    /\ stage \in {"connect", "stream"} => capture # None
    /\ stage = "failed" /\ host # None /\ device # None => Chosen(device, req).format \notin Buildable
Readable == capture # None => capture.format \in Buildable

\* A receiver at work belongs to the sender's stream, and has its header.
Connected == rx # "idle" => stage = "stream"
Announces == rx \in {"opening", "playing"} => header = req

\* The loopback is opened with the header, but for the rate.
Opened == rx = "playing" => pcm = IF cap = None THEN req ELSE [req EXCEPT !.rate = cap.rate]

StartInv == TypeOK /\ Hosted /\ Captured /\ Readable /\ Connected /\ Announces /\ Opened

\* No record is mistaken for None.
LEMMA Streams ==
  ASSUME TypeOK
  PROVE  /\ req \in Stream /\ req # None
         /\ device # None => Chosen(device, req) \in Stream /\ Chosen(device, req) # None
         /\ cap # None => [req EXCEPT !.rate = cap.rate] \in Stream
                         /\ [req EXCEPT !.rate = cap.rate] # None
<1>1. req \in [format : Format, channels : Nat, rate : Nat]
  BY StartupAssumption DEF TypeOK
<1>2. req \in Stream
  BY <1>1 DEF Stream
<1>3. ASSUME device # None PROVE Chosen(device, req) \in Stream
  BY <1>3, ChosenIsStream DEF TypeOK
<1>4. ASSUME cap # None PROVE [req EXCEPT !.rate = cap.rate] \in Stream
  <2>1. cap.rate \in Nat
    BY <1>4, StartupAssumption DEF TypeOK, Stream
  <2>. QED BY <1>2, <2>1 DEF Stream
<1>. QED BY <1>2, <1>3, <1>4, StartupAssumption

LEMMA StartInit == Init => StartInv
<1>. SUFFICES ASSUME Init PROVE StartInv
  OBVIOUS
<1>1. swapped \in BOOLEAN
  BY Zenon DEF Init
<1>2. {0} \subseteq 0..BrowseTime /\ 0 \in 0..OpenTime /\ 0 \in 0..MaxFaults /\ 0 \in 0..HeaderLen
  BY StartupAssumption DEF HeaderLen
<1>3. TypeOK
  BY <1>1, <1>2, StartupAssumption DEF Init, TypeOK
<1>. QED BY <1>3, StartupAssumption DEF StartInv, Init, Hosted, Captured, Readable, Connected, Announces, Opened

\* The LAN and the browse.
LEMMA LanStep ==
  ASSUME StartInv, NEW p \in Pis, PiStarts(p) \/ PiStops(p) \/ Answer(p)
  PROVE  StartInv'
<1>1. listening' \subseteq Pis /\ announced' \subseteq Pis /\ found' \subseteq Pis /\ faults' \in 0..MaxFaults
  <2>1. CASE PiStarts(p)
    BY <2>1, StartupAssumption DEF StartInv, TypeOK, PiStarts, Registers, Fault, browse
  <2>2. CASE PiStops(p)
    BY <2>2, StartupAssumption DEF StartInv, TypeOK, PiStops, Unregisters, Fault, browse
  <2>3. CASE Answer(p)
    BY <2>3 DEF StartInv, TypeOK, Answer, lan
  <2>. QED BY <2>1, <2>2, <2>3
<1>2. UNCHANGED <<clock, stage, host, sound, rx, wire, loop>>
  BY DEF PiStarts, PiStops, Answer, browse, sound, wire, loop
<1>3. UNCHANGED <<clock, stage, host, req, device, capture, rx, header, arrived, swapped, cap, tries, pcm>>
  BY <1>2 DEF sound, wire, loop
<1>. QED BY <1>1, <1>3 DEF StartInv, TypeOK, Hosted, Captured, Readable, Connected, Announces, Opened

LEMMA BrowseStep ==
  ASSUME StartInv, BrowseTick \/ BrowseEnds
  PROVE  StartInv'
<1>1. UNCHANGED <<listening, announced, found, req, device, capture, rx, header, arrived,
                  swapped, cap, tries, pcm, faults>>
  BY DEF BrowseTick, BrowseEnds, lan, browse, sound, wire, loop
<1>2. clock' \in 0..BrowseTime
  BY StartupAssumption DEF StartInv, TypeOK, BrowseTick, BrowseEnds, browse
<1>3. /\ stage = "browse"
      /\ \/ stage' = stage /\ host' = host
         \/ stage' = "capture" /\ host' \in Pis
         \/ stage' = "failed" /\ host' = host
  BY DEF BrowseTick, BrowseEnds
<1>4. Hosted' /\ (stage' = "failed" => host' = None)
  BY <1>3, StartupAssumption DEF StartInv, Hosted
<1>5. TypeOK'
  BY <1>1, <1>2, <1>3 DEF StartInv, TypeOK
<1>6. Captured'
  BY <1>1, <1>3, <1>4 DEF StartInv, Captured, Hosted
<1>7. rx = "idle"
  BY <1>3 DEF StartInv, Connected
<1>. QED BY <1>1, <1>4, <1>5, <1>6, <1>7 DEF StartInv, Readable, Connected, Announces, Opened

LEMMA CaptureStep == StartInv /\ OpenCapture => StartInv'
<1>. SUFFICES ASSUME StartInv, OpenCapture PROVE StartInv'
  OBVIOUS
<1>1. UNCHANGED <<listening, announced, clock, found, host, req, device, rx, header, arrived,
                  swapped, cap, tries, pcm, faults>>
  BY DEF OpenCapture, lan, browse, wire, loop
<1>2. /\ stage = "capture"
      /\ \/ /\ device # None /\ Chosen(device, req).format \in Buildable
            /\ stage' = "connect" /\ capture' = Chosen(device, req)
         \/ /\ device = None \/ Chosen(device, req).format \notin Buildable
            /\ stage' = "failed" /\ capture' = None
         \/ stage' = "refused" /\ capture' = None
  BY DEF OpenCapture, Picked
<1>3. CASE stage' = "connect"
  <2>1. capture' = Chosen(device, req) /\ device # None /\ Chosen(device, req).format \in Buildable
    BY <1>2, <1>3
  <2>2. capture' # None
    BY <2>1, Streams DEF StartInv
  <2>. QED BY <1>1, <1>2, <1>3, <2>1, <2>2
       DEF StartInv, TypeOK, Hosted, Captured, Readable, Connected, Announces, Opened
<1>4. CASE stage' \in {"failed", "refused"}
  <2>1. /\ capture' = None
        /\ stage' = "failed" => device = None \/ Chosen(device, req).format \notin Buildable
    BY <1>2, <1>4
  <2>. QED BY <1>1, <1>2, <1>4, <2>1
       DEF StartInv, TypeOK, Hosted, Captured, Readable, Connected, Announces, Opened
<1>. QED BY <1>2, <1>3, <1>4

\* The connection, the header and what follows leave the sender's choice alone.
LEMMA WireStep ==
  ASSUME StartInv, Connect \/ Deliver \/ ReadHeader \/ HeaderTimesOut
  PROVE  StartInv'
<1>1. UNCHANGED <<listening, announced, clock, found, host, req, device, capture, cap>>
  BY DEF Connect, Deliver, ReadHeader, HeaderTimesOut, lan, browse, sound, loop
<1>2. arrived' \in 0..HeaderLen /\ faults' \in 0..MaxFaults /\ tries' \in 0..OpenTime /\ swapped' \in BOOLEAN
  <2>1. 0 \in 0..HeaderLen /\ 0 \in 0..OpenTime
    BY StartupAssumption DEF HeaderLen
  <2>2. arrived' \in 0..HeaderLen
    BY <2>1 DEF StartInv, TypeOK, Connect, Deliver, ReadHeader, HeaderTimesOut, wire
  <2>3. faults' \in 0..MaxFaults
    BY StartupAssumption DEF StartInv, TypeOK, Connect, Deliver, ReadHeader, HeaderTimesOut, Fault
  <2>4. tries' \in 0..OpenTime
    BY <2>1 DEF StartInv, TypeOK, Connect, Deliver, ReadHeader, HeaderTimesOut, loop
  <2>5. swapped' \in BOOLEAN
    BY Zenon DEF StartInv, TypeOK, Connect, Deliver, ReadHeader, HeaderTimesOut, loop
  <2>. QED BY <2>2, <2>3, <2>4, <2>5
<1>3. CASE Connect
  BY <1>1, <1>2, <1>3 DEF Connect, StartInv, TypeOK, Hosted, Captured, Readable, Connected, Announces, Opened
<1>4. CASE Deliver \/ HeaderTimesOut
  BY <1>1, <1>2, <1>4 DEF Deliver, HeaderTimesOut, wire, loop,
     StartInv, TypeOK, Hosted, Captured, Readable, Connected, Announces, Opened
<1>5. CASE ReadHeader
  <2>1. req \in [format : Format, channels : Nat, rate : Nat]
    BY StartupAssumption DEF StartInv, TypeOK
  <2>2. (rx' = "opening" /\ header' = req) \/ (rx' = "ended" /\ header' = header)
    BY <1>5, <2>1, AcceptsAsMeant DEF ReadHeader, Announced
  <2>3. stage' = stage /\ rx = "header"
    BY <1>5 DEF ReadHeader
  <2>. QED BY <1>1, <1>2, <2>2, <2>3
       DEF StartInv, TypeOK, Hosted, Captured, Readable, Connected, Announces, Opened
<1>. QED BY <1>3, <1>4, <1>5

\* The loopback.
LEMMA LoopStep ==
  ASSUME StartInv, CaptureReopens \/ OpenPlayback \/ OpenFails \/ Reconnect
  PROVE  StartInv'
<1>1. UNCHANGED <<listening, announced, clock, found, host, req, device, capture, header, arrived, swapped>>
  BY DEF CaptureReopens, OpenPlayback, OpenFails, Reconnect, lan, browse, sound, wire
<1>2. cap' \in IdleCaps \cup {BridgeCap, None} /\ tries' \in 0..OpenTime /\ faults' \in 0..MaxFaults
  <2>1. cap' \in IdleCaps \cup {BridgeCap, None}
    BY DEF StartInv, TypeOK, CaptureReopens, OpenPlayback, OpenFails, Reconnect
  <2>2. tries' \in 0..OpenTime
    BY StartupAssumption DEF StartInv, TypeOK, CaptureReopens, OpenPlayback, OpenFails, Reconnect
  <2>3. faults' = faults \/ Fault
    BY DEF CaptureReopens, OpenPlayback, OpenFails, CannotOpen, Reconnect
  <2>4. faults' \in 0..MaxFaults
    BY <2>3, StartupAssumption DEF StartInv, TypeOK, Fault
  <2>. QED BY <2>1, <2>2, <2>4
<1>3. CASE CaptureReopens
  BY <1>1, <1>2, <1>3
  DEF CaptureReopens, StartInv, TypeOK, Hosted, Captured, Readable, Connected, Announces, Opened
<1>4. CASE OpenPlayback
  <2>1. header = req /\ rx' = "playing" /\ cap' = cap /\ stage' = stage /\ stage = "stream"
        /\ pcm' = IF cap = None THEN header ELSE [header EXCEPT !.rate = cap.rate]
    BY <1>4 DEF OpenPlayback, StartInv, Announces, Connected
  <2>2. pcm' = IF cap = None THEN req ELSE [req EXCEPT !.rate = cap.rate]
    BY <2>1
  <2>3. pcm' # None /\ req # None
    BY <2>2, Streams DEF StartInv
  <2>. QED BY <1>1, <1>2, <2>1, <2>2, <2>3
       DEF StartInv, TypeOK, Hosted, Captured, Readable, Connected, Announces, Opened
<1>5. CASE OpenFails
  BY <1>1, <1>2, <1>5
  DEF OpenFails, StartInv, TypeOK, Hosted, Captured, Readable, Connected, Announces, Opened
<1>6. CASE Reconnect
  BY <1>1, <1>2, <1>6
  DEF Reconnect, StartInv, TypeOK, Hosted, Captured, Readable, Connected, Announces, Opened
<1>. QED BY <1>3, <1>4, <1>5, <1>6

LEMMA Invariance == Spec => []StartInv
<1>1. StartInv /\ [Next]_vars => StartInv'
  <2>. SUFFICES ASSUME StartInv, [Next]_vars PROVE StartInv'
    OBVIOUS
  <2>1. CASE UNCHANGED vars
    BY <2>1 DEF vars, lan, browse, sound, wire, loop, StartInv, TypeOK, Hosted, Captured, Readable,
       Connected, Announces, Opened
  <2>. QED BY <2>1, LanStep, BrowseStep, CaptureStep, WireStep, LoopStep
           DEF Next, Sender, Receiver, Faulty, Stay
<1>. QED BY <1>1, StartInit, PTL DEF Spec

----------------------------------------------------------------------------
(* The theorems                                                            *)

\* Every reachable state of the startup is well typed; a stream has a Pi, an
\* open capture and, when it plays, a decoded header.
THEOREM TypeCorrect == Spec => []TypeOK
<1>1. StartInv => TypeOK
  BY DEF StartInv
<1>. QED BY <1>1, Invariance, PTL

\* Whatever the device offers, however the header is cut in pieces and whatever
\* CamillaDSP's half of the loopback is, the Pi plays in the channels, the rate
\* and the format it is sent, but for the two exceptions the property names.
THEOREM PlaysCapture == Spec => []PlaysAsCaptured
<1>1. StartInv => PlaysAsCaptured
  <2>. SUFFICES ASSUME StartInv, rx = "playing", ~FellBack
                PROVE  /\ pcm.format = req.format /\ pcm.channels = capture.channels
                       /\ pcm.rate = capture.rate \/ (cap # None /\ pcm.rate = cap.rate)
    BY DEF PlaysAsCaptured
  <2>1. device \in Devices /\ req \in Requests /\ capture = Chosen(device, req)
    BY DEF StartInv, TypeOK, Connected, Captured
  <2>2. Fit(device, req) # {}
    BY DEF FellBack, Fit
  <2>3. capture.channels = req.channels /\ capture.rate = req.rate
    BY <2>1, <2>2, ChosenIsBest
  <2>4. req \in [format : Format, channels : Nat, rate : Nat]
    BY <2>1, StartupAssumption
  <2>5. pcm = IF cap = None THEN req ELSE [req EXCEPT !.rate = cap.rate]
    BY DEF StartInv, Opened
  <2>. QED BY <2>3, <2>4, <2>5
<1>. QED BY <1>1, Invariance, PTL

\* For every list of configurations a device that is opened is opened in the
\* format the changelog ranks highest among those it has for what was asked, or
\* in one the code ties with it. Not every such device is opened: cpal may refuse
\* it at each of its calls, and the choice fails on an unreadable format, though
\* only in the cases the property names.
THEOREM BestIsOpened == Spec => []OpensBest
<1>. DEFINE offered == {f \in DOMAIN Quality : Offers(device, f)}
            best == {f \in offered : \A g \in offered : Quality[g] <= Quality[f]}
<1>1. ASSUME StartInv, device # None, offered # {}
      PROVE  /\ Chosen(device, req).format \in best
             /\ Chosen(device, req).rate = req.rate /\ Chosen(device, req).channels = req.channels
  <2>1. device \in Devices /\ req \in Requests
    BY <1>1 DEF StartInv, TypeOK
  <2>2. /\ req.channels \in Nat /\ req.rate \in Nat
        /\ \A k \in DOMAIN device.ranges : device.ranges[k] \in ConfigRange
    <3>1. device.ranges \in Seq(ConfigRange) /\ req \in [format : Format, channels : Nat, rate : Nat]
      BY <2>1, StartupAssumption
    <3>. QED BY <3>1
  <2>3. \A f \in DOMAIN Quality :
          Offers(device, f) <=> \E k \in Fit(device, req) : device.ranges[k].format = f
    BY <2>2 DEF Offers, Fit, Suits, ConfigRange
  <2>4. Fit(device, req) # {}
    BY <1>1, <2>3
  <2>5. PICK k \in Fit(device, req) :
          /\ \A j \in Fit(device, req) :
                Quality[device.ranges[j].format] <= Quality[device.ranges[k].format]
          /\ Chosen(device, req) = [format |-> device.ranges[k].format,
                                    channels |-> req.channels, rate |-> req.rate]
    BY <2>1, <2>4, ChosenIsBest
  <2>6. device.ranges[k].format \in DOMAIN Quality
    BY <2>2 DEF Fit, ConfigRange
  <2>7. device.ranges[k].format \in best
    BY <2>3, <2>5, <2>6
  <2>. QED BY <2>5, <2>7
<1>2. ASSUME NEW g \in best \cap Buildable, NEW f \in offered \cap Buildable
      PROVE  StatedRank[f] <= StatedRank[g] \/ Tied(f, g)
  <2>1. Quality[f] <= Quality[g] /\ f \in Buildable /\ g \in Buildable
    OBVIOUS
  <2>. QED BY <2>1 DEF Quality, Buildable, StatedRank, Tied
<1>3. ASSUME NEW g \in best, g \notin Buildable
      PROVE  \/ "F64" \in offered
             \/ "U32" \in offered /\ "F32" \notin offered
             \/ offered \cap Buildable = {}
  <2>1. g \in {"F64", "U32", "I64"} /\ g \in offered /\ \A f \in offered : Quality[f] <= Quality[g]
    BY <1>3 DEF Quality, Buildable
  <2>2. CASE g = "F64"
    BY <2>1, <2>2
  <2>3. CASE g = "U32"
    <3>1. ~(Quality["F32"] <= Quality["U32"])
      BY DEF Quality
    <3>. QED BY <2>1, <2>3, <3>1
  <2>4. CASE g = "I64"
    <3>1. \A f \in Buildable : ~(Quality[f] <= Quality["I64"])
      BY DEF Quality, Buildable
    <3>. QED BY <2>1, <2>4, <3>1
  <2>. QED BY <2>1, <2>2, <2>3, <2>4
<1>4. StartInv => OpensBest
  <2>. SUFFICES ASSUME StartInv, device # None, offered # {}
                PROVE  /\ capture # None =>
                             /\ capture.format \in offered
                             /\ capture.rate = req.rate /\ capture.channels = req.channels
                             /\ \A f \in offered \cap Buildable :
                                   StatedRank[f] <= StatedRank[capture.format] \/ Tied(f, capture.format)
                       /\ stage = "failed" /\ host # None =>
                             \/ "F64" \in offered
                             \/ "U32" \in offered /\ "F32" \notin offered
                             \/ offered \cap Buildable = {}
    BY DEF OpensBest
  <2>1. capture # None => capture = Chosen(device, req) /\ capture.format \in Buildable
    BY DEF StartInv, Captured, Readable
  <2>2. stage = "failed" /\ host # None => Chosen(device, req).format \notin Buildable
    BY DEF StartInv, Captured
  <2>3. Chosen(device, req).format \in best
        /\ Chosen(device, req).rate = req.rate /\ Chosen(device, req).channels = req.channels
    BY <1>1
  <2>. HIDE DEF offered, best
  <2>4. ASSUME capture # None
        PROVE  /\ capture.format \in best \cap Buildable
               /\ capture.rate = req.rate /\ capture.channels = req.channels
    BY <2>1, <2>3, <2>4
  <2>5. best \subseteq offered
    BY DEF best
  <2>. QED BY <1>2, <1>3, <2>2, <2>3, <2>4, <2>5
<1>. QED BY <1>4, Invariance, PTL
=============================================================================
