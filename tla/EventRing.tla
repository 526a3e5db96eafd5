------------------------------ MODULE EventRing ------------------------------
(***************************************************************************)
(* InputEventCircularReader of libsensors/InputEventReader.cpp: the ring   *)
(* that keeps sensor events between read() of the hub's device and their   *)
(* delivery.  The buffer is twice as long as the ring, so that one read()  *)
(* may run past the end of the ring; what did is copied to the front.      *)
(* Pointers are offsets from mBuffer.                                      *)
(***************************************************************************)
EXTENDS Integers, Sequences

CONSTANTS
    N,          \* numEvents, the events the ring holds
    Event,      \* the events
    NoEvent     \* an uninitialised cell

ASSUME SizeAssumption == N \in Nat \ {0}
ASSUME NoEventAssumption == NoEvent \notin Event

VARIABLES
    mBuffer,    \* the cells
    mHead,      \* where the next read() stores
    mCurr,      \* the oldest unread event
    mFreeSpace, \* events the ring has room for
    event,      \* the event the caller got last
    block       \* history: the block the last successful read() handed over

vars == <<mBuffer, mHead, mCurr, mFreeSpace, event, block>>

Cells == 0 .. 2 * N - 1
mBufferEnd == N

Init ==
    /\ mBuffer = [c \in Cells |-> NoEvent]
    /\ mHead = 0
    /\ mCurr = 0
    /\ mFreeSpace = N
    /\ event = NoEvent
    /\ block = <<>>

-----------------------------------------------------------------------------
\* The blocks of events one read() can return.
Blocks == UNION {[1 .. n -> Event] : n \in 1 .. mFreeSpace}

\* The cells after read() stored the block s at mHead.
Stored(s) ==
    [c \in Cells |-> IF mHead <= c /\ c < mHead + Len(s) THEN s[c - mHead + 1]
                                                         ELSE mBuffer[c]]

\* Fault: one event too few is copied to the front.
CopiedShort(b, head) ==
    [c \in Cells |-> IF c < head - mBufferEnd - 1 THEN b[c + mBufferEnd] ELSE b[c]]

\* The cells after those past the end, up to head, were copied to the front.
CopiedToFront(b, head) ==
    [c \in Cells |-> IF c < head - mBufferEnd THEN b[c + mBufferEnd] ELSE b[c]]

\* fill() got the block s.
Fill(s) ==
    LET head == mHead + Len(s) IN
    /\ Len(s) <= mFreeSpace
    /\ mFreeSpace' = mFreeSpace - Len(s)
    /\ IF head > mBufferEnd
         THEN /\ mBuffer' = CopiedToFront(Stored(s), head)
              /\ mHead' = head - mBufferEnd
         ELSE /\ mBuffer' = Stored(s)
              /\ mHead' = head
    /\ block' = s
    /\ UNCHANGED <<mCurr, event>>

\* read() failed, or ended inside an event: fill() returns the error and
\* moves nothing, but read() may have stored into the free cells.
FillFails(s) ==
    /\ Len(s) <= mFreeSpace
    /\ mBuffer' = Stored(s)
    /\ UNCHANGED <<mHead, mCurr, mFreeSpace, event, block>>

Available == mFreeSpace < N

\* readEvent() hands out the oldest event and next() frees its cell.
ReadAndNext ==
    /\ Available
    /\ event' = mBuffer[mCurr]
    /\ mCurr' = IF mCurr + 1 >= mBufferEnd THEN 0 ELSE mCurr + 1
    /\ mFreeSpace' = mFreeSpace + 1
    /\ UNCHANGED <<mBuffer, mHead, block>>

Next ==
    \/ ReadAndNext
    \/ \E s \in Blocks : Fill(s) \/ FillFails(s)

Spec == Init /\ [][Next]_vars

-----------------------------------------------------------------------------
\* The cell i places after the oldest unread event (i < N).
CellOf(i) == IF mCurr + i >= N THEN mCurr + i - N ELSE mCurr + i

Unread == [i \in 1 .. N - mFreeSpace |-> mBuffer[CellOf(i - 1)]]

\* The variables have values of their types.
TypeOK ==
    /\ mBuffer \in [Cells -> Event \cup {NoEvent}]
    /\ mHead \in 0 .. N
    /\ mCurr \in 0 .. N - 1
    /\ mFreeSpace \in 0 .. N
    /\ event \in Event \cup {NoEvent}
    /\ block \in Seq(Event)

\* mHead is where the unread events end, counted around the ring (it may stand
\* at the end of the ring instead of its front): the three counters agree.
CountersAgree == mHead - mCurr - (N - mFreeSpace) \in {0, N, -N}

\* The ring behaves as a first-in first-out queue of N events filled with the
\* blocks read() handed over: no event is lost, repeated or overwritten,
\* whatever sizes the reads have and wherever they wrap.
Queue == INSTANCE EventBuffer WITH queue <- Unread

IsQueue == Queue!Spec
=============================================================================
