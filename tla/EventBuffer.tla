---------------------------- MODULE EventBuffer -----------------------------
(***************************************************************************)
(* What the sensor HAL's event reader promises: a bounded queue that is    *)
(* filled with exactly the blocks its device handed over, and read one     *)
(* event at a time.                                                        *)
(***************************************************************************)
EXTENDS EventQueue

VARIABLE block      \* the block the device handed over last

vars == <<queue, event, block>>

\* A read() of the device succeeds with the block s.
Fill(s) == Put(s) /\ block' = s

\* The caller gets the oldest event.
Read == Take /\ UNCHANGED block

Next == Read \/ \E s \in Seq(Event) : Fill(s)

Spec == Init /\ block = <<>> /\ [][Next]_vars
=============================================================================
