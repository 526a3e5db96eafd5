---------------------------- MODULE MCEventRing ----------------------------
(***************************************************************************)
(* The event ring for TLC.  Queue!Spec has the step \E s \in Seq(Event),   *)
(* which TLC cannot enumerate: IsBoundedQueue restricts it to the blocks   *)
(* that fit, the only ones Put accepts.                                    *)
(***************************************************************************)
EXTENDS EventRing

CONSTANTS e1, e2

MCEvent == {e1, e2}

QueueBlocks == UNION {[1 .. n -> Event] : n \in 0 .. N}

\* EventBuffer!Next over the blocks that fit the queue.
QueueNext == Queue!Read \/ \E s \in QueueBlocks : Queue!Fill(s)

\* The ring is the queue: its initial state, and every step.
IsBoundedQueue == Queue!Init /\ block = <<>> /\ [][QueueNext]_(Queue!vars)
=============================================================================
