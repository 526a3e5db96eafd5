--------------------------- MODULE PlaybackControl ---------------------------
(***************************************************************************)
(* What an offloaded stream promises the framework: the states a player    *)
(* moves through, without threads, mutexes, commands or devices.           *)
(* OffloadStream implements it under the mapping it defines.               *)
(***************************************************************************)

VARIABLE mode

Init == mode = "standby"

Start   == mode \in {"standby", "flushed"} /\ mode' = "playing"
Pause   == mode = "playing" /\ mode' = "paused"
Resume  == mode = "paused"  /\ mode' = "playing"
Flush   == mode = "paused"  /\ mode' = "flushed"
Standby == mode # "standby" /\ mode' = "standby"

Next == Start \/ Pause \/ Resume \/ Flush \/ Standby

Spec == Init /\ [][Next]_mode
=============================================================================
