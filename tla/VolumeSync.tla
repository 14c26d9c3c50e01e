------------------------------ MODULE VolumeSync ------------------------------
(***************************************************************************)
(* The volume-sync thread of pc-sender (src/pc-sender/src/volume_sync.rs): *)
(* it follows the events of `pactl subscribe`, reads the volume of the     *)
(* bridge's sink and pushes it to CamillaDSP over a new websocket each     *)
(* time. PulseAudio, its subscription, the user and CamillaDSP are the     *)
(* environment.                                                            *)
(***************************************************************************)
EXTENDS Naturals

CONSTANTS Volumes,     (* the volumes the user picks                          *)
          Unity,       (* 0 dB: what push_volume clamps to from above         *)
          MaxEvents,   (* bound: event lines waiting in the pipe              *)
          Faults       (* whether pactl and CamillaDSP may fail               *)

ASSUME VolumeAssumption ==
    /\ Volumes \subseteq Nat /\ Volumes # {} /\ Unity \in Nat
    /\ MaxEvents \in Nat \ {0} /\ Faults \in BOOLEAN

VARIABLES
    vol,       (* the sink's volume in PulseAudio                             *)
    camVol,    (* CamillaDSP's main volume                                    *)
    camilla,   (* "up", "down" (refuses) or "frozen" (does not answer)        *)
    sub,       (* pactl subscribe: "none", "starting", "on" or "dead"         *)
    lines,     (* sink-change lines in its pipe                               *)
    stop,
    pc,        (* where the thread is                                         *)
    first,     (* the push at startup is still to come                        *)
    hand,      (* the volume it has read and is about to push                 *)
    missed     (* history: a change CamillaDSP will not hear of by itself     *)

pulse  == <<vol, sub, lines>>
cam    == <<camVol, camilla>>
thread == <<pc, first, hand>>
vars   == <<pulse, cam, stop, thread, missed>>

Clamp(v) == IF v > Unity THEN Unity ELSE v

TypeOK ==
    /\ vol \in Volumes /\ hand \in Volumes /\ camVol \in Nat /\ camVol <= Unity
    /\ camilla \in {"up", "down", "frozen"}
    /\ sub \in {"none", "starting", "on", "dead"} /\ lines \in 0..MaxEvents
    /\ stop \in BOOLEAN /\ first \in BOOLEAN /\ missed \in BOOLEAN
    /\ pc \in {"start", "query", "push", "spawn", "lines", "done"}

Init ==
    /\ vol \in Volumes /\ hand = vol /\ camVol = 0 /\ camilla = "up"
    /\ sub = "none" /\ lines = 0 /\ stop = FALSE
    /\ pc = "start" /\ first = TRUE /\ missed = TRUE

----------------------------------------------------------------------------
(* The environment                                                         *)

\* The user moves the slider. Only a subscription that is already on hears it.
ChangeVolume ==
    /\ lines < MaxEvents
    /\ vol' \in Volumes \ {vol}
    /\ IF sub = "on" THEN lines' = lines + 1 /\ UNCHANGED missed
                     ELSE missed' = TRUE /\ UNCHANGED lines
    /\ UNCHANGED <<sub, cam, stop, thread>>

\* Any other sink that changes makes the same line.
OtherSinkChanges ==
    /\ sub = "on" /\ lines < MaxEvents /\ lines' = lines + 1
    /\ UNCHANGED <<vol, sub, cam, stop, thread, missed>>

\* The child process has reached PulseAudio.
Subscribed ==
    /\ sub = "starting" /\ sub' = "on"
    /\ UNCHANGED <<vol, lines, cam, stop, thread, missed>>

PactlDies ==
    /\ Faults /\ sub \in {"starting", "on"} /\ sub' = "dead"
    /\ UNCHANGED <<vol, lines, cam, stop, thread, missed>>

\* CamillaDSP stops, hangs, or comes back; one that stopped starts again with
\* a volume of its own.
CamillaChanges ==
    /\ Faults
    /\ camilla' \in {"up", "down", "frozen"} \ {camilla}
    /\ IF camilla' = "down" THEN camVol' = 0 /\ missed' = TRUE
                            ELSE UNCHANGED <<camVol, missed>>
    /\ UNCHANGED <<pulse, stop, thread>>

Stop == ~stop /\ stop' = TRUE /\ UNCHANGED <<pulse, cam, thread, missed>>

----------------------------------------------------------------------------
(* The thread: run and run_subscribe_loop                                  *)

\* Without pactl there is no volume sync.
Start ==
    /\ pc = "start"
    /\ \/ pc' = "query"
       \/ Faults /\ pc' = "done"
    /\ UNCHANGED <<pulse, cam, stop, first, hand, missed>>

AfterPush == IF first THEN "spawn" ELSE "lines"

\* read_sink_db. When pactl cannot tell, nothing is pushed.
Query ==
    /\ pc = "query"
    /\ \/ pc' = "push" /\ hand' = vol /\ missed' = FALSE /\ UNCHANGED first
       \/ /\ Faults
          /\ pc' = AfterPush /\ first' = FALSE /\ missed' = TRUE /\ UNCHANGED hand
    /\ UNCHANGED <<pulse, cam, stop>>

\* Mutant: a volume above unity is sent as it is.
PushUnclamped ==
    /\ pc = "push" /\ camilla # "frozen"
    /\ \/ camilla = "up" /\ camVol' = hand /\ UNCHANGED missed
       \/ camilla = "down" /\ missed' = TRUE /\ UNCHANGED camVol
    /\ pc' = AfterPush /\ first' = FALSE
    /\ UNCHANGED <<pulse, camilla, stop, hand>>

\* push_volume: connect, SetVolume, wait for the answer. A refused connection
\* drops the value; a frozen CamillaDSP holds the thread, for there is no
\* timeout on the connect or on the read.
Push ==
    /\ pc = "push" /\ camilla # "frozen"
    /\ \/ camilla = "up" /\ camVol' = Clamp(hand) /\ UNCHANGED missed
       \/ camilla = "down" /\ missed' = TRUE /\ UNCHANGED camVol
    /\ pc' = AfterPush /\ first' = FALSE
    /\ UNCHANGED <<pulse, camilla, stop, hand>>

\* The while loop of run: stop, or a new pactl subscribe. When the spawn
\* fails the loop comes back here after a second.
Spawn ==
    /\ pc = "spawn"
    /\ \/ stop /\ pc' = "done" /\ UNCHANGED sub
       \/ ~stop /\ pc' = "lines" /\ sub' = "starting"
       \/ ~stop /\ Faults /\ pc' = "spawn" /\ UNCHANGED sub
    /\ UNCHANGED <<vol, lines, cam, stop, first, hand, missed>>

\* Mutant: the line already tells the volume it had before the last change.
LineWithoutQuery ==
    /\ pc = "lines" /\ lines > 0 /\ lines' = lines - 1
    /\ pc' = IF stop THEN "done" ELSE "push"
    /\ sub' = IF stop THEN "none" ELSE sub
    /\ UNCHANGED <<vol, cam, stop, first, hand, missed>>

\* One line of the pipe. The flag is looked at only when a line comes.
Line ==
    /\ pc = "lines" /\ lines > 0 /\ lines' = lines - 1
    /\ pc' = IF stop THEN "done" ELSE "query"
    /\ sub' = IF stop THEN "none" ELSE sub
    /\ UNCHANGED <<vol, cam, stop, first, hand, missed>>

\* Mutant: the end of the pipe ends the thread.
EofEndsThread ==
    /\ pc = "lines" /\ lines = 0 /\ sub = "dead"
    /\ pc' = "done" /\ sub' = "none"
    /\ UNCHANGED <<vol, lines, cam, stop, first, hand, missed>>

\* The pipe is at its end: the child is waited for and the loop goes round.
Eof ==
    /\ pc = "lines" /\ lines = 0 /\ sub = "dead"
    /\ pc' = "spawn" /\ sub' = "none"
    /\ UNCHANGED <<vol, lines, cam, stop, first, hand, missed>>

----------------------------------------------------------------------------
Exited == pc = "done" /\ UNCHANGED vars

Env    == ChangeVolume \/ OtherSinkChanges \/ Subscribed \/ PactlDies \/ CamillaChanges \/ Stop
Thread == Start \/ Query \/ Push \/ Spawn \/ Line \/ Eof

Next == Env \/ Thread \/ Exited

Spec == Init /\ [][Next]_vars

\* The thread runs, its child reaches PulseAudio unless it dies, a spawn that
\* can succeed does not fail for ever, and a CamillaDSP that answers time and
\* again answers the push.
Fairness ==
    /\ WF_vars(Thread) /\ WF_vars(Subscribed)
    /\ SF_vars(Spawn /\ pc' # "spawn") /\ SF_vars(Push)

FairSpec == Spec /\ Fairness

----------------------------------------------------------------------------
(* What must hold.                                                         *)

\* When the thread has nothing left to read, CamillaDSP has the sink's volume,
\* however changes and pushes interleaved: the value pushed last was read after
\* the last change. The exceptions are changes no subscription heard and pushes
\* CamillaDSP did not take.
InStepWhenIdle ==
    pc = "lines" /\ lines = 0 /\ ~missed => camVol = Clamp(vol)

\* A change that a subscription heard reaches CamillaDSP, unless another one
\* overtakes it or something fails on the way.
ChangeArrives ==
    []<>(camilla # "frozen") =>
        \A v \in Volumes :
            vol = v /\ lines > 0 /\ sub = "on" ~> camVol = Clamp(v) \/ vol # v \/ missed \/ stop

\* A pactl that died is replaced: the thread listens again.
Resubscribes ==
    []<>(camilla # "frozen") => (sub = "dead" ~> sub = "starting" \/ stop)

\* What volume_sync.rs promises: to "keep CamillaDSP's main volume in sync with
\* whatever the user picked", here when nothing fails and the user is done.
InSync ==
    \A v \in Volumes : <>[](vol = v) => <>[](camVol = Clamp(v) \/ stop)
===============================================================================
