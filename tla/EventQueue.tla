----------------------------- MODULE EventQueue -----------------------------
(***************************************************************************)
(* What the sensor HAL needs from its event buffer: a bounded first-in     *)
(* first-out queue.  read() of the device puts a block of events at its    *)
(* end, readEvent() and next() take the oldest one.                        *)
(***************************************************************************)
EXTENDS Integers, Sequences

CONSTANTS
    N,          \* the events the queue holds
    Event,      \* the events
    NoEvent     \* nothing was taken yet

VARIABLES
    queue,      \* the events put and not yet taken, oldest first
    event       \* the event taken last

Init == queue = <<>> /\ event = NoEvent

\* A block of events s arrives; there is room for it.
Put(s) ==
    /\ Len(queue) + Len(s) <= N
    /\ queue' = queue \o s
    /\ UNCHANGED event

\* The oldest event is taken.
Take ==
    /\ queue # <<>>
    /\ event' = Head(queue)
    /\ queue' = Tail(queue)
=============================================================================
