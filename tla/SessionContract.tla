-------------------------- MODULE SessionContract --------------------------
(***************************************************************************)
(* What handle_session relies on when it calls run_session: the call opens *)
(* the PCM, runs, and returns a result; and the PCM is free again by then, *)
(* unless the result says that the session was given up before its threads *)
(* were joined, in which case a writer may hold the PCM a while longer.    *)
(* PiSession implements this contract and PiReceiver is built on it.       *)
(***************************************************************************)

VARIABLES ses,      (* "opening", "running" or "over"                     *)
          held,     (* a writer thread holds the PCM                      *)
          result    (* what run_session returned, "none" before           *)

contractVars == <<ses, held, result>>

Joined  == {"ok", "alsaErr"}            \* returned after both joins
GivenUp == {"spawnErr", "netErr"}       \* returned through an early `?`

Init == ses = "opening" /\ held = FALSE /\ result = "none"

Open ==
    /\ ses = "opening" /\ ~held
    /\ ses' = "running" /\ held' = TRUE
    /\ UNCHANGED result

NotOpened ==
    /\ ses = "opening"
    /\ ses' = "over" /\ result' \in {"openErr", "spawnErr"}
    /\ UNCHANGED held

\* The writer drops the PCM, on its own time.
Release == held /\ held' = FALSE /\ UNCHANGED <<ses, result>>

Return ==
    /\ ses = "running"
    /\ ses' = "over"
    /\ \/ ~held /\ result' \in Joined
       \/ result' \in GivenUp
    /\ UNCHANGED held

Next == Open \/ NotOpened \/ Release \/ Return

Spec == Init /\ [][Next]_contractVars
=============================================================================
