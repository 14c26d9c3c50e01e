# rpi-camilla-bridge in TLA+

rpi-camilla-bridge plays a computer's sound on a Raspberry Pi that runs
CamillaDSP. `pc-sender` captures audio and streams PCM over one TCP connection;
`pi-receiver` accepts it, switches CamillaDSP to a "bridge" configuration for
the time of the session, writes the PCM to an ALSA loopback and switches back.
These modules model the two programs from their Rust code, model-check them with
TLC and prove their safety properties with TLAPS.

## 1. The system

### Components

| component | code | state it keeps | operations | where |
|---|---|---|---|---|
| receiver session | `pi-receiver/src/main.rs` `run_session`, `net_in.rs`, `alsa_out.rs` | channel of 32 chunks, the writer's `chunk[offset..]` and `leftover`, three threads, the PCM | open with retries, spawn writer and reader, read, push, write, recover, drain, join | `PiSession` |
| receiver daemon | `pi-receiver/src/main.rs` `accept_loop`, `handle_session`; `camilla_ws.rs` | stop flag, listen backlog, CamillaDSP's file path and active configuration | accept, read header, swap to bridge, session, swap to idle | `PiReceiver` |
| sender loop | `pc-sender/src/main.rs` `run`, `try_session`; `net_out.rs`; `activity.rs` | stop flag, time of the last sound, `backoff_ms`, queue of 64 chunks, the writer thread | sleep, connect, drain, stream, release on silence, join, wait longer | `PcSender` |
| audio capture | `pc-sender/src/audio_in.rs` | the cpal stream; sends into the queue | choose device and format, convert, note the peak, `try_send` | choice: `Startup`; callback: `PcSender` |
| volume sync | `pc-sender/src/volume_sync.rs` | a `pactl subscribe` child and its pipe | query, push over a new websocket, subscribe again | `VolumeSync` |
| virtual output | `pc-sender/src/virtual_sink.rs` | module id, previous default source; PulseAudio's modules | remove orphans, note, load, route, restore, remove | `VirtualSink` |
| wire header | `proto/src/lib.rs` | none | encode, decode and validate 16 bytes | `WireHeader`, `Startup` |
| device guard | `pi-receiver/src/main.rs` `enforce_loopback_only` | none | refuse a device that is no loopback | `Startup` |
| discovery | `pc-sender/src/discovery.rs`, `pi-receiver/src/discovery.rs` | peers found; one mDNS registration | browse until the deadline, choose; register, unregister | `Startup` |
| loopback negotiation | `alsa_out.rs` `open`, `try_configure`, `open_configured_with_retry` | none | open with the header's parameters, again for 3 s | `Startup` |
| senders and receiver together | the TCP connections and the listen backlog | who is connected, who waits | dial, queue, serve, break, vanish | `EndToEnd` |
| doctor, init, status lines, install script, units | `doctor.rs`, `init.rs`, `status.rs`, `install-pi.sh`, `deploy/` | none while streaming | read-only checks, questions, text | not modelled, except systemd's restart |

### How they interact

    user, apps --> PulseAudio <-- VirtualSink (pactl)      VolumeSync --websocket--> CamillaDSP
                        |             |                                                ^
                 capture callback     `-- pactl subscribe --> VolumeSync                | websocket
                        |                                                              |
              bounded queue (64)                        accept_loop -> handle_session -'
                        |                                                |
                 net-writer thread === TCP: header, PCM ===> net-reader -> channel (32) -> alsa-writer -> loopback

In `pc-sender` the callback, the reconnect loop, the net-writer and the
volume-sync thread share the stop flag, the activity clock and the queue. In
`pi-receiver` the main thread shares the stop flag with the signal handler, the
socket with the reader, and nothing but the join handles with the writer; reader
and writer share the channel, whose ends each of them drops when it returns.

### What is hard, and what must hold

* *Receiver session.* A reader that blocks on a full channel, a writer that
  blocks on an empty one, a main thread that joins the first before the second,
  and a device that takes part of what it is offered, fails and recovers. The
  bytes must arrive gap-free and in order, memory must be bounded, success must
  mean "everything played", and every way out must end all three threads.
* *Receiver daemon.* A configuration swap is two messages to a process that may
  freeze, die or answer late, and every path out of a session must lead through
  the idle swap; callers wait in a backlog and leave; the daemon is killed and
  restarted. No caller, no bridge configuration; every caller served; a stop
  exits.
* *Sender.* Stop, silence and a write error can end a session in the same
  instant; the callback never stops filling the queue. A session must start
  fresh, be the only one, yield to silence and come back with sound.
* *Volume sync.* Event lines, queries and pushes race with further changes; the
  last value must win.
* *Virtual output.* State outside the process outlives it. A run must find its
  way back from whatever earlier ones left.
* *Startup.* Four parties agree on one format without talking to one another:
  the device, the sender's options, the header, which TCP may cut in pieces, and
  CamillaDSP's half of the loopback, which is still the old one when the receiver
  first tries to open its own. What plays must be what was captured, and the two
  sides must not try for ever.
* *End to end.* A sender that reconnects queues behind its own old connection
  and behind other senders; either end may break, vanish or be killed. Silence
  of all must free the Pi, and a sender with sound must be heard.

The hazards, each at its line, are listed in `PROJECT.json`.

## 2. The modules

**`BytePipe`** is the promise of a session about its bytes: what came in reaches
the device in order and in whole frames, with a bounded amount in between, until
the device breaks. **`SessionContract`** is the promise of `run_session` to its
caller: open, run, return; and the PCM is free on return, except after the early
returns.

**`PiSession`** is `run_session` with its three threads, one action per step
that another thread could observe. A byte is its position in the stream and a
chunk is an interval `[lo, hi)`, so loss, repetition and reordering show without
data. `main` goes `open`, `spawn`, `watch`, `joinNet`, `joinAlsa`, `ended`;
`reader` and `writer` are the loops of `net_in::pump` and `AlsaPlayback::run`. A
short write takes any number of whole frames; an error leads to `recover`, which
ends in another try or in a lost device; `shut` is the shutdown of the shared
socket, on a stop only. Opening the PCM (hw_params, retries for 3 s) is a choice
between success and failure. Reads that time out change nothing and are left
out. `PiSession` implements both abstract modules (`PipeSpec`, `ContractSpec`).

**`PiReceiver`** is the daemon around the session. The session is the
*contract*, not the three threads: its actions are `Session!Open`,
`Session!Release`, `Session!NotOpened` and `Session!Return`; what it adds to
them (Ok only after the sender has gone or on a stop, no return while the writer
is wedged) is what `PiSession` establishes. A swap is `WsConnect`, `WsSet`,
`WsReload`; each may stay unanswered, with or without effect. CamillaDSP has the
path of the file it would load and the configuration it runs; `linked` is the
websocket to *this* CamillaDSP, so one that restarts in the middle of a swap is
not mistaken for the old one. The model is for a receiver with both
`--bridge-config` and `--idle-config` set, which is what the deployed unit uses;
without them the swap is skipped and nothing here applies. `PiReceiver` in turn
implements **`DaemonContract`** (`DaemonSpec`): callers in order and one at a
time, each prepared for, played and cleaned up after, and CamillaDSP off the idle
configuration for a caller only, unless it has *strayed* (a swap that was not
acknowledged, a restart that nobody noticed, a kill).

**`PcSender`** is the sender's loop (`top`, `connect`, `drain`, `start`,
`watch`, `join`, `pause`), its net-writer and the capture callback. A chunk is
loud or silent, and, for the property on freshness, stale or not. The clock is
`quiet`, ticks since the last sound; as the program measures with the system's
clock, `ClockIsSet` moves it forward or back at any time. `PcSender` implements
**`SenderLink`** (`LinkSpec`): no dial without sound, and one connection that is
down, dialing, up or off.

**`EndToEnd`** puts several `SenderLink`s and one `DaemonContract` together, with
the connections in between: a dial is completed by the Pi's kernel and lands in
the backlog, where it may wait behind connections that were given up; an end of a
connection is seen from its socket, which the receiver drops before the idle swap,
unless the peer vanished without a FIN or RST (`Vanishes`, `lost`). Each step of a side is one of its contract's, strengthened
by what the other side lets it see. Nobody stops the receiver here and CamillaDSP
stays up, because `PiReceiver` covers both; a swap may go unanswered and the
daemon may be killed.

**`WireHeader`** is the header as bytes: `Encode`, `Valid`, `Decode`. **`Startup`**
is everything before the first sample: receivers that listen, register (or fail
to) and disappear; the browse with its deadline; the choice of a capture
configuration, after which cpal may still refuse to open or start it (`refused`);
the header, delivered in pieces; the swap; and the opening of the loopback, tried
again while CamillaDSP closes and reopens its half or another source holds the
playback half (`CannotOpen`). snd-aloop
gives the half that opens second the parameters of the first, so the channels and
the format must agree (`Agrees`) and the rate is taken over. **`MCStartup`** gives
it devices. Where `Startup` ends, `PcSender` and `PiSession` begin.

**`VolumeSync`** is the thread, its child `pactl` (`sub`, and `lines` in its
pipe) and CamillaDSP, which may refuse or not answer. **`VirtualSink`** is
`try_create` and `Drop`, one `pactl` call per step, each of which may fail, for
any number of sender processes, each of which may be killed anywhere. Its history
variable `upset` marks a run in which a `pactl` call failed, the user chose
another source, or another sender ran.

Beside the definitions of the code stand their mutants, operators whose comment
starts with "Mutant": each is a plausible bug, and each property above has one
that breaks it. No specification uses them.

## 3. The runs

| run | bounds | shows |
|---|---|---|
| `PiSession.cfg` | frames of 2 bytes, reads of at most 4, channel of 1, 13 bytes | no byte lost, repeated or swapped; bounded memory; Ok means played; the threads never all wait; pipe and contract implemented; a stop, a peer that leaves, a lost device end the session, unless wedged |
| `PiSessionTorn.cfg` | reads of 3, 3 bytes | **violated**: a partial frame and a stop, and the session never ends |
| `PiReceiver.cfg` | 2 callers, 1 kill | idle when waiting, bridge while serving, header before bridge, one caller after a stop, stop exits, callers served; contract implemented |
| `PiReceiverFrozen.cfg` | 1 caller, no kill | **violated**: CamillaDSP freezes before the handshake and the stop hangs |
| `PcSender.cfg` | queue of 2, 2 ticks to sleep, backoff 1 to 5, clock set back by at most 1 | sessions fresh and single, silence releases, audio resumes, stop exits; link implemented |
| `VolumeSync.cfg` | 3 volumes around unity, 2 lines | in step when idle, changes arrive, `pactl` replaced |
| `VolumeSyncGap.cfg` | the same, no faults | **violated**: a change before the subscription is on is lost |
| `VirtualSink.cfg` | 2 senders, 2 sources, 3 loads, 2 kills | one sink, and no trace of it afterwards, for a sender that runs alone |
| `VirtualSinkTwo.cfg` | 2 senders, 2 loads | **violated**: the second sender unloads the first one's sink |
| `MCStartup.cfg` | 2 Pis, 6 devices, 3 requests, 3 idle configurations, 2 faults | the best capture is opened, what plays is what was captured, nobody tries for ever |
| `EndToEnd.cfg` | 2 senders, 2 connections, 1 fault, 1 kill | silence of all frees the Pi, the sender that goes on is heard |
| `EndToEndVanished.cfg` | 1 sender, 2 connections, 1 fault | **violated**: a sender that vanishes leaves the bridge configuration on |

Why the bounds are enough. In `PiSession` a read of 4 with frames of 2 gives
chunks with 0, 1 and 2 whole frames and with and without a fragment; the channel
of 1 is full and empty with the least delay; 13 bytes fill reader, channel and
writer (12 bytes) and one more, so `BoundedHold` is reached with equality. The
proofs remove these bounds. In `PiReceiver` two callers are the one that is
served and the one that waits; one kill can fall anywhere, and the restarted
daemon meets the backlog, the CamillaDSP and the callers it left. In `PcSender`
two chunks are one the writer takes and one that waits; a backoff of 1, 2, 4, 5
reaches its cap. `VolumeSync` has a volume below, at and above unity; with two
lines a change falls between a line and its query, and between a query and its
push. In `VirtualSink` two kills leave two stacked orphans and the third
load is the run that must clean them up; a run that cannot load any more goes on
without a virtual output, as the program does. With four loads and three kills
the same holds (7,050,382 states; left out because it takes minutes). In `PcSender` a clock set back by
one tick is one that makes the silence longer than it was; setting it forward is
any value up to asleep. In `EndToEnd` two connections are a sender's stale one and
its new one, or those of both senders, and the kill can fall anywhere between;
with three connections, which lets both senders queue behind a stale one, the
same properties hold as well (345,420 states; left out of the project's runs
because it takes minutes). The devices of `MCStartup` are picked for the cases of
the choice: a better format at too low a maximum rate, formats that rank equal in
either order, one the sender cannot read, and nothing that fits; a request for a
rate of 0 is one the sender's options accept and the receiver refuses. `OpenTime`
is one more than `ReopenTime`: CamillaDSP reopens within the 3 s; two attempts
that find the loopback held, after the two that CamillaDSP's reload may cost, use
the time up, and the receiver gives up as it does in the code.

Deadlock is checked in every run but those of `EndToEnd` and `MCStartup`. A
program that has exited, or a session that is over, stutters by an action of its
own. The two systems really may stop: `EndToEnd` when all senders have exited,
`Startup` when its sender waits for a Pi that refuses its own device and never
listens.

## 4. Fairness

* *Threads* (`WF` of each thread's next step): the operating system runs what
  can run. Blocking calls are guards: a step that waits is not enabled.
* *Device* (`SF` of `WriteOk \/ DeviceLost`): a device that is offered writes
  again and again accepts one some day, or fails for good. Endless recoverable
  errors are an ALSA fault no program survives. It is not assumed to work.
* *Accept* (`SF`): an accept that can succeed does not fail for ever. *Restart*
  (`WF`): `Restart=on-failure` of the unit.
* *Session in the daemon* (`WF` of `SessionReturns` when its sender has gone or
  the flag is up): `PeerEnds` and `StopEnds` of `PiSession`, with their
  exception, `wedged`. Opening gives up after 3 s.
* *Drain* (`[]<>(pc # "drain")`): emptying the queue takes microseconds, and a
  chunk comes every 10 ms or so.
* *Clock* (`WF` of `Tick`, in the sender): time passes. It is not assumed that
  nobody sets the clock; `SilenceReleases` speaks of silence the program sees.
* *Startup* (`WF`): both programs run, TCP delivers what was written, CamillaDSP
  reopens a half it was told to reopen, systemd starts a receiver that is down.
  Another source holds the loopback for a bounded number of attempts (they are
  faults); against one that never lets go, receiver and sender do try for ever,
  and `Settles` does not speak of it.
* *End to end.* What the two contracts leave open and their implementations do:
  the receiver serves whom it can (`CallersServed` of `PiReceiver`), a session
  whose sender left ends (`PeerEnds` of `PiSession`), the sender yields to silence
  and dials with sound (`SilenceReleases`, `AudioResumes` of `PcSender`), systemd
  restarts the daemon. `SF` of `Play`: a PCM that is tried again and again opens
  some day. `SF` of `Connects`: so does a dial that can succeed.
* *`pactl subscribe`* connects unless it dies, and a spawn that may succeed does
  not fail for ever.
* CamillaDSP is fair nowhere. The properties that need it to answer say so, as
  `[]<>(camilla # "frozen") =>`; those of senders that leave say so too.

## 5. What is proved

For every frame size, read size, channel capacity, stream length, set of
callers, queue length, sleep time, backoff, pipe, capture device, request and set
of senders, and every number of faults, loads and kills, the theorems below hold.
They state every safety property that a passing run checks; what is left to the
runs is liveness.

* `PiSessionProofs`: `TypeCorrect`; `Invariance`; `PlaysGapless`;
  `HoldsBounded`; `OkPlaysAll`; `NeverStandsStill`; `ImplementsPipe`;
  `KeepsContract`.
  Assumed: `SessionAssumption`, that the sizes are positive.
* `PiReceiverProofs`: `TypeCorrect`; `RestoresIdle`; `RunsOnBridge`;
  `StopsAccepting`; `HeaderBeforeBridge`; `ImplementsDaemon`. Assumed: nothing
  but `MaxCrashes \in Nat`.
* `PcSenderProofs`: `TypeCorrect`; `StartsFresh`; `WriterJoined`;
  `ImplementsLink`. Assumed: `SenderAssumption`, types and a queue that holds at
  least one chunk.
* `EndToEndProofs`: `ReceiverKeepsContract` and `SendersKeepLink`, that the
  composition never asks of a side what its contract does not allow. With the two
  refinements above, the composed system rests on what the programs do.
  `ConnectionsAccounted` (`SystemTypeOK`). Assumed: `SystemAssumption`, that the
  two bounds are numbers.
* `WireHeaderProofs`: `RoundTrip`; `AcceptsAsMeant`; `AcceptsEncodings`;
  `WritesBytes`; `FramesNotEmpty`; for every header of a u16 and a u32, which
  TLC's integers cannot hold, and for every 16 bytes that may arrive.
* `StartupProofs`: `TypeCorrect`; `PlaysCapture`; `BestIsOpened`. Assumed:
  `StartupAssumption`: a device has a finite list of configurations of the formats
  cpal knows and a default among such streams, a request is what the options can
  say, deadlines are numbers, and `None` is none of these things.
* `VolumeSyncProofs`: `TypeCorrect`; `InStep`. Assumed: `VolumeAssumption`, types
  of the volumes and the bounds.
* `VirtualSinkProofs`: `TypeCorrect`; `RunsOnOneSink`; `LeavesAsFound`. Assumed:
  `SinkAssumption`: there is an input device, and the bridge's monitor is none.

**The session.** None of the properties is inductive: that the device has the
right bytes says nothing of the ones on their way. The invariant (`IInv`) says
where every received byte is. `Front` is the position at which the writer stops
holding bytes, `Back` the one at which the reader starts: `[Len(dev), Front)` is
with the writer, in `chunk` or in `leftover` but never both (`WriterInv`);
`[Front, Back)` is the channel, whose chunks follow one another without a gap
and are no longer than a read (`ChanInv`); `[Back, rcvd)` is the chunk the
reader holds (`HandInv`). `MainInv` says which threads exist at each point of
`run_session`. The channel clause is dropped once the writer has failed, because
then bytes are thrown away. `Gapless` is part of it; `BoundedHold` follows by
adding three lengths, with an induction over the channel replaced by the last
clause of `ChanInv`, which bounds `Back - chan[j].lo` for every `j`. `CauseInv`
adds what made a thread end, for `OkMeansPlayed`. `NoStandstill` is the part of
`StopEnds` and `PeerEnds` that is a safety property: it writes out what each
thread's blocking call waits for, instead of `ENABLED`, and says that not all three
wait at once. `JoinInv` adds to `MainInv` that a main thread that joins the reader
has seen it end or has shut its socket down, and that no reader outlives
`run_session`. Both refinements split
`Next`: for the pipe, `ReadData` is `Receive`, `WriteOk` is `Play`, `DeviceLost`
is `Break` and the rest stutter; for the contract, `StartWriter` is `Open`,
`Drain` and `DeviceLost` are `Release`, and the returns are `NotOpened` and
`Return`.

**The daemon.** `IdleWhenWaiting` needs what holds *during* a swap (`ConfigInv`:
once the path is set on a live link it is the target; a CamillaDSP that is down
has acknowledged nothing), `BridgeNeedsHeader` that a swap to the bridge
configuration belongs to a caller with a valid header (`CallerInv`), and
`AtMostOneAfterStop` that no late caller was counted before the loop looks at
the flag again (`LateInv`).

**The sender.** `NoStaleAudio` needs that nothing stale is in the *queue* outside
the drain (`FreshInv`), and `OneWriter` that a writer exists exactly while
`try_session` watches or joins it.

`ImplementsLink` and `ImplementsDaemon` need only `TypeOK` and, for the daemon,
the parts of its invariant that say when CamillaDSP is idle: every step maps to a
step of the contract or to a stutter, with `link` and `phase` read off `pc`.

**The composition.** `LinksTyped` is an invariant of its own: `awake`, `link` and
`conn` are functions on the senders, so that a step of one leaves the others
alone, and a sender has at most one connection, so that closing it is one
`HangUp`. The
steps of the receiver are its contract's by definition of the conjuncts; what is
proved is that the senders' steps are `Call` or `HangUp` or leave it alone.
`SystemTypeOK` needs to know who holds which connection (`SystemInv`): only a link
that is up has one, no two ends share one (`Apart`), so that closing one end does
not kill another's connection, and what is alive is what is held or lost
(`Held`), so that a connection that is free to be dialled is nobody's. That it is
in no backlog either keeps the backlog without repeats (`NoneTwice`).

**The header.** Two lemmas on little-endian numbers, and that no two formats
share a code, so that `CHOOSE` finds the one that was encoded. The other way
round, the twelve bytes that mean something are the digits of the two numbers, so
no two of them decode to the same header.

**The startup.** `StartInv` says what each party knows at each stage: what was
opened is what `Chosen` returns (`Captured`) in a format the sender can read
(`Readable`), a sender that failed has a choice it cannot read, a receiver at work belongs to the sender's stream (`Connected`) and
its header is the request (`Announces`, by `AcceptsAsMeant`), and the loopback is
opened with the header but for the rate (`Opened`). What remains is about the
choice alone: `ChosenIsBest`, that `Max` over the best of the ranges that fit
finds one of them. It exists because a set of numbers has a least element
(`LeastExists`); the library's `WFMin` gives it, from the well-foundedness of `<`,
without an induction theorem that takes an operator.

**Volume sync.** That CamillaDSP has the last volume when nothing is left to read
says nothing of the steps before. `SyncInv` says where the volume is on its way:
while a line waits, or the thread is about to query, it will be read; after the
query it is in the thread's hand (`InHand`), after the push in CamillaDSP
(`Arrived`); all unless it was `missed`.

**The virtual output.** `SinkInv`: a default source that is a monitor has a sink
(`MonitorHasSink`), so that with no module loaded the source noted is a real one;
a run that nothing has upset is alone (`Apart`); and such a run has come, at each
step of `try_create` and `Drop`, to the point it should have (`Progress`): the
modules are those still listed, then none, then its own, and the default source
is the one of the beginning, then noted, then the monitor, then back. `OneSink`
was first stated for one sender process; the proof wants to know what another one
does, and the history `upset` says so now.

**Only model-checked**: every liveness property (they rest on fairness and
`ENABLED`, out of reach of the provers here).

## 6. What disagrees with the code's own words

1. *`alsa_out.rs:99-105`.* A read that ends inside a frame leaves a fragment in
   `leftover`. The next turn of the loop takes the leftover *instead of* the
   channel, finds no whole frame, and puts it back: the writer spins and never
   receives the rest. Then the channel fills, the reader blocks in `send`, and
   neither a stop nor a leaving peer ends the session (`PiSessionTorn.cfg`). The
   comment says the fragment is held "until the next chunk". The liveness
   properties it would break name it as their exception (`Wedged`, `wedged`);
   `DeadDeviceEnds` and `DetachedWriterEnds` hold without one.
2. *`camilla_ws.rs:44-54`.* The timeouts are set after the handshake they should
   bound (`PiReceiverFrozen.cfg`).
3. *`net_in.rs:37`.* A read that times out is tried again without limit, so a
   sender that vanishes without a FIN or RST keeps its session, and the bridge
   configuration, and the sender that comes back waits behind it
   (`EndToEndVanished.cfg`). The documentation says "On disconnect it restores
   your idle config" (`README.md:74`) and "reconnects automatically"
   (`README.md:240`). `FreesPi` and `GetsThePi` name this case as their exception
   (`Stuck`).
4. *`volume_sync.rs:43`.* The volume is pushed once before the subscription is
   on; a change in between is lost (`VolumeSyncGap.cfg`).
5. *`virtual_sink.rs:171`.* The clean-up takes the sink of another running
   sender for an orphan (`VirtualSinkTwo.cfg`).

Met while modelling, without a run of their own:

* `audio_in.rs:92`: with the fall-back to the default configuration the header
  still announces what was asked for. An exception of `PlaysAsCaptured`.
* `alsa_out.rs:182`: `ValueOr::Nearest` takes whatever rate CamillaDSP's half
  imposes, without an error. The other exception of `PlaysAsCaptured`.
* `pc-sender/main.rs:321`: the option's text (`main.rs:94`) says the delay doubles
  "on consecutive failures". It is reset only after an `Ok`, which a session
  returns on a stop only: a release on silence ends in a write error, is counted
  as a failure and doubles the delay.
* `audio_in.rs:248-249`: `CHANGELOG.md:140-141` ranks I16 above U16 and U8 above
  I8; `format_quality` ranks them alike, and `max_by_key` takes the last of a tie,
  so a device that lists I16 before U16 is captured as U16. `OpensBest` follows
  the changelog and names the ties (`Tied`) as its exception.
* `audio_in.rs:245`: `F64` ranks best and `U32` ties with `I32`, and neither can
  be read; a device that offers one of them beside a readable format may not be
  opened. `OpensBest` says that the choice fails in no other case.
* `pc-sender/main.rs:33`: the option's text says "the first Pi that answers within
  3 seconds"; `browse` waits the whole `--discover-ms` (5 s) for all of them and
  refuses to choose among several.
* `--channels 0` and `--rate 0` are accepted by the sender and refused by the
  receiver, so the sender reconnects for ever.
* `doctor.rs:199`: the doctor's check of the device leaves out the banned names of
  `enforce_loopback_only` and calls a device good that the receiver will refuse.
* `init.rs:174`: the pattern that should put the number of channels into the
  generated file does not occur in the template, where `channels` follows `device`.

## 7. Not modelled, and why

* Sample values, conversion, gain: pure data, no property here tells them apart.
* Buffer and period sizes of the PCM, and every wording, level and colour of logs
  and status lines.
* The mDNS library's browser thread, ALSA, cpal and the websocket library, other
  than by what they answer.
* The *rate* of retries: that a wait of 0 ms stays 0 when doubled
  (`main.rs:337`) makes a hot loop, which a model without cost per step cannot
  tell from a slow one.
* What becomes of a default source that the user changed while a sender ran.
* Which chunk a full queue drops is modelled (the newest); `audio_in.rs:5` says
  the oldest, and no property takes a side.
* `doctor`, `init`, `status`, the install script, CI: text, questions and
  read-only checks. They keep no state and run beside nothing.

## 8. Plan

Done: the receiver (`BytePipe`, `SessionContract`, `PiSession`, `PiReceiver`), the
sender (`PcSender`), `VolumeSync` and `VirtualSink`; the contracts `SenderLink` and
`DaemonContract`, proved to be implemented, and `EndToEnd` on top of them;
`WireHeader` and `Startup`. Every safety property the runs check is proved.

What the properties exempt: a kill or a CamillaDSP that restarts in mid-session may
leave the wrong configuration until the next acknowledged idle swap (`strayed`,
`bridgeOk`); a volume push that CamillaDSP refuses is lost until the next event
(`missed`). The code does nothing about either, and no text says that it does.

Left: the choice of a device by name and of a Pi among several, with names; the
arithmetic of the reconnect delay against the wall clock.
