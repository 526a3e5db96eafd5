---------------------------- MODULE SensorsProofs ----------------------------
(***************************************************************************)
(* What holds of the sensor HAL, for any sensors and sizes.  The ring its  *)
(* reader keeps the hub's events in is a first-in first-out queue.  Of the *)
(* poll thread that takes them from there: one-shot sensors report once,   *)
(* the IIO buffer is on while a sensor is, and from the hub to             *)
(* readEvents() there is one queue.                                        *)
(***************************************************************************)
EXTENDS Sensors, SequenceTheorems, FiniteSetTheorems, TLAPS

\* The reader of the HAL's device, whose queue Sensors calls ring.
VARIABLES mBuffer, mHead, mCurr, mFreeSpace, block

Reader == INSTANCE EventRing WITH N <- RingSize

\* Every event between mCurr and mHead was put there by a read(): no cell
\* that was never written, or only by a failed read, is ever handed out.
UnreadAreEvents == \A i \in DOMAIN Reader!Unread : Reader!Unread[i] \in Event

\* What the steps keep: types, counters, and that unread cells hold events.
ReaderInv == Reader!TypeOK /\ Reader!CountersAgree /\ UnreadAreEvents

-----------------------------------------------------------------------------
\* A block read from the device is a sequence of events.
LEMMA BlockIsSeq ==
    ASSUME mFreeSpace \in 0 .. RingSize, NEW s \in Reader!Blocks
    PROVE  /\ s \in Seq(Event)
           /\ Len(s) \in 1 .. mFreeSpace
           /\ DOMAIN s = 1 .. Len(s)
           /\ \A i \in 1 .. Len(s) : s[i] \in Event
<1>1. PICK n \in 1 .. mFreeSpace : s \in [1 .. n -> Event]
  BY DEF Reader!Blocks
<1>2. n \in Nat BY <1>1, SizeAssumption
<1>3. s \in Seq(Event) /\ Len(s) = n BY <1>1, <1>2
<1> QED BY <1>1, <1>2, <1>3

\* Unread is a sequence as long as the occupied part of the ring.
LEMMA UnreadIsSeq ==
    ASSUME Reader!TypeOK, UnreadAreEvents
    PROVE  /\ Reader!Unread \in Seq(Event)
           /\ Len(Reader!Unread) = RingSize - mFreeSpace
<1>1. RingSize - mFreeSpace \in Nat BY SizeAssumption DEF Reader!TypeOK
<1>2. Reader!Unread \in [1 .. RingSize - mFreeSpace -> Event]
  BY DEF Reader!Unread, UnreadAreEvents
<1> QED BY <1>1, <1>2

\* The cells of a ring stand inside it.
LEMMA CellInRing ==
    ASSUME mCurr \in 0 .. RingSize - 1, NEW i \in 0 .. RingSize - 1
    PROVE  Reader!CellOf(i) \in 0 .. RingSize - 1
BY SizeAssumption DEF Reader!CellOf

\* Cell by cell, what the ring holds after a block that ran past its end.
LEMMA CopiedAt ==
    ASSUME NEW s, NEW c \in Reader!Cells, mHead \in Int, Len(s) \in Int,
           mBuffer' = Reader!CopiedToFront(Reader!Stored(s), mHead + Len(s))
    PROVE  mBuffer'[c] = IF c < mHead + Len(s) - RingSize
                         THEN Reader!Stored(s)[c + RingSize]
                         ELSE Reader!Stored(s)[c]
<1>1. c \in Int /\ RingSize \in Int BY SizeAssumption DEF Reader!Cells
<1> QED BY <1>1 DEF Reader!CopiedToFront, Reader!mBufferEnd

-----------------------------------------------------------------------------
\* The two ways a block can land: it ends inside the ring, or part of it is
\* copied to the front.  In both, cell c of the ring keeps its content unless
\* it is one of the Len(s) cells after mHead, counted around the ring.
LEMMA FillKeepsUnread ==
    ASSUME ReaderInv, NEW s \in Reader!Blocks, Reader!Fill(s),
           NEW i \in 0 .. RingSize - mFreeSpace - 1
    PROVE  mBuffer'[Reader!CellOf(i)] = mBuffer[Reader!CellOf(i)]
<1> DEFINE c == Reader!CellOf(i)
<1>1. Len(s) \in 1 .. mFreeSpace BY BlockIsSeq DEF ReaderInv, Reader!TypeOK
<1>3. /\ mHead \in 0 .. RingSize /\ mCurr \in 0 .. RingSize - 1
      /\ mFreeSpace \in 0 .. RingSize
  BY DEF ReaderInv, Reader!TypeOK
<1>2. c \in Reader!Cells /\ c < RingSize
  <2>1. i \in 0 .. RingSize - 1
    BY <1>3, SizeAssumption
  <2>2. c \in 0 .. RingSize - 1
    BY <1>3, <2>1, CellInRing
  <2> HIDE DEF c
  <2> QED  BY <2>2, SizeAssumption DEF Reader!Cells
<1>4. CASE mHead + Len(s) > RingSize
  <2>1. mBuffer' = Reader!CopiedToFront(Reader!Stored(s), mHead + Len(s))
    BY <1>4 DEF Reader!Fill, Reader!mBufferEnd
  <2>2. ~(c < mHead + Len(s) - RingSize) /\ ~(mHead <= c)
    BY <1>1, <1>3, <1>4, SizeAssumption DEF ReaderInv, Reader!CountersAgree, Reader!CellOf
  <2>3. mBuffer'[c] = Reader!Stored(s)[c]
    <3>1. mHead \in Int /\ Len(s) \in Int BY <1>1, <1>3, SizeAssumption
    <3>2. mBuffer'[c] = IF c < mHead + Len(s) - RingSize
                        THEN Reader!Stored(s)[c + RingSize]
                        ELSE Reader!Stored(s)[c]
      BY <1>2, <2>1, <3>1, CopiedAt
    <3> QED BY <2>2, <3>2
  <2> QED BY <1>2, <2>2, <2>3 DEF Reader!Stored
<1>5. CASE ~(mHead + Len(s) > RingSize)
  <2>1. mBuffer' = Reader!Stored(s) BY <1>5 DEF Reader!Fill, Reader!mBufferEnd
  <2>2. ~(mHead <= c /\ c < mHead + Len(s))
    BY <1>1, <1>3, <1>5, SizeAssumption DEF ReaderInv, Reader!CountersAgree, Reader!CellOf
  <2> QED BY <1>2, <2>1, <2>2 DEF Reader!Stored
<1> QED BY <1>4, <1>5

\* The block is found, in its order, behind the unread events.
LEMMA FillAppends ==
    ASSUME ReaderInv, NEW s \in Reader!Blocks, Reader!Fill(s), NEW j \in 0 .. Len(s) - 1
    PROVE  mBuffer'[Reader!CellOf(RingSize - mFreeSpace + j)] = s[j + 1]
<1> DEFINE c == Reader!CellOf(RingSize - mFreeSpace + j)
<1>1. Len(s) \in 1 .. mFreeSpace BY BlockIsSeq DEF ReaderInv, Reader!TypeOK
<1>2. /\ mHead \in 0 .. RingSize /\ mCurr \in 0 .. RingSize - 1
      /\ mFreeSpace \in 0 .. RingSize
  BY DEF ReaderInv, Reader!TypeOK
<1>3. c \in 0 .. RingSize - 1
  <2>1. RingSize - mFreeSpace + j \in 0 .. RingSize - 1 BY <1>1, <1>2, SizeAssumption
  <2> QED BY <2>1, <1>2, CellInRing
<1>4. CASE mHead + Len(s) > RingSize
  <2>1. mBuffer' = Reader!CopiedToFront(Reader!Stored(s), mHead + Len(s))
    BY <1>4 DEF Reader!Fill, Reader!mBufferEnd
  <2>0. mHead \in Int /\ Len(s) \in Int BY <1>1, <1>2, SizeAssumption
  <2>4. /\ c < mHead + Len(s) - RingSize => mBuffer'[c] = Reader!Stored(s)[c + RingSize]
        /\ ~(c < mHead + Len(s) - RingSize) => mBuffer'[c] = Reader!Stored(s)[c]
    <3>1. c \in Reader!Cells BY <1>3, SizeAssumption DEF Reader!Cells
    <3> HIDE DEF c
    <3> QED BY <2>0, <2>1, <3>1, CopiedAt
  <2>2. CASE c < mHead + Len(s) - RingSize
    <3>1. /\ mHead <= c + RingSize /\ c + RingSize < mHead + Len(s)
          /\ c + RingSize - mHead = j
      BY <1>1, <1>2, <1>3, <1>4, <2>2, SizeAssumption
      DEF ReaderInv, Reader!CountersAgree, Reader!CellOf
    <3>2. c \in Reader!Cells /\ c + RingSize \in Reader!Cells
      BY <1>3, SizeAssumption DEF Reader!Cells
    <3>3. mBuffer'[c] = Reader!Stored(s)[c + RingSize] BY <2>2, <2>4
    <3>4. Reader!Stored(s)[c + RingSize] = s[c + RingSize - mHead + 1]
      BY <1>2, <1>3, <2>0, <3>1, <3>2, SizeAssumption DEF Reader!Stored
    <3> QED BY <3>1, <3>3, <3>4
  <2>3. CASE ~(c < mHead + Len(s) - RingSize)
    <3>1. mHead <= c /\ c < mHead + Len(s) /\ c - mHead = j
      BY <1>1, <1>2, <1>3, <1>4, <2>3, SizeAssumption
      DEF ReaderInv, Reader!CountersAgree, Reader!CellOf
    <3>2. c \in Reader!Cells BY <1>3, SizeAssumption DEF Reader!Cells
    <3>3. mBuffer'[c] = Reader!Stored(s)[c] BY <2>3, <2>4
    <3>4. Reader!Stored(s)[c] = s[c - mHead + 1] BY <3>1, <3>2 DEF Reader!Stored
    <3> QED BY <3>1, <3>3, <3>4
  <2> QED BY <2>2, <2>3
<1>5. CASE ~(mHead + Len(s) > RingSize)
  <2>1. mBuffer' = Reader!Stored(s) BY <1>5 DEF Reader!Fill, Reader!mBufferEnd
  <2>2. mHead <= c /\ c < mHead + Len(s) /\ c - mHead = j
    BY <1>1, <1>2, <1>3, <1>5, SizeAssumption DEF ReaderInv, Reader!CountersAgree, Reader!CellOf
  <2>3. c \in Reader!Cells BY <1>3, SizeAssumption DEF Reader!Cells
  <2>4. Reader!Stored(s)[c] = s[c - mHead + 1] BY <2>2, <2>3 DEF Reader!Stored
  <2> QED BY <2>1, <2>2, <2>4
<1> QED BY <1>4, <1>5

\* Storing a block of events keeps the cells of their type.
LEMMA StoredType ==
    ASSUME Reader!TypeOK, NEW s \in Reader!Blocks
    PROVE  Reader!Stored(s) \in [Reader!Cells -> Event \cup {NoEvent}]
<1> SUFFICES ASSUME NEW c \in Reader!Cells
             PROVE  Reader!Stored(s)[c] \in Event \cup {NoEvent}
  BY DEF Reader!Stored
<1>1. \A i \in 1 .. Len(s) : s[i] \in Event BY BlockIsSeq DEF Reader!TypeOK
<1>2. Len(s) \in Nat BY BlockIsSeq, SizeAssumption DEF Reader!TypeOK
<1>3. c \in Int /\ mHead \in Int BY SizeAssumption DEF Reader!Cells, Reader!TypeOK
<1>4. CASE mHead <= c /\ c < mHead + Len(s)
  <2>1. c - mHead + 1 \in 1 .. Len(s) BY <1>2, <1>3, <1>4
  <2> QED BY <1>1, <1>4, <2>1 DEF Reader!Stored
<1>5. CASE ~(mHead <= c /\ c < mHead + Len(s))
  BY <1>5 DEF Reader!Stored, Reader!TypeOK
<1> QED BY <1>4, <1>5

\* fill() appends the block it got to the unread events.
LEMMA FillIsPut ==
    ASSUME ReaderInv, NEW s \in Reader!Blocks, Reader!Fill(s)
    PROVE  ReaderInv' /\ Reader!Queue!Fill(s)
<1>1. /\ Len(s) \in 1 .. mFreeSpace
      /\ s \in Seq(Event)
      /\ \A i \in 1 .. Len(s) : s[i] \in Event
  BY BlockIsSeq DEF ReaderInv, Reader!TypeOK
<1>2. /\ mHead \in 0 .. RingSize
      /\ mCurr \in 0 .. RingSize - 1
      /\ mFreeSpace \in 0 .. RingSize
      /\ mCurr' = mCurr
      /\ event' = event
      /\ block' = s
      /\ mFreeSpace' = mFreeSpace - Len(s)
  BY DEF ReaderInv, Reader!TypeOK, Reader!Fill
<1>3. Reader!TypeOK'
  <2>1. mBuffer' \in [Reader!Cells -> Event \cup {NoEvent}]
    <3>1. Reader!Stored(s) \in [Reader!Cells -> Event \cup {NoEvent}]
      BY StoredType DEF ReaderInv
    <3>2. CASE mHead + Len(s) > RingSize
      <4>1. mBuffer' = Reader!CopiedToFront(Reader!Stored(s), mHead + Len(s))
        BY <3>2 DEF Reader!Fill, Reader!mBufferEnd
      <4>2. \A c \in Reader!Cells :
                c < mHead + Len(s) - RingSize => c + RingSize \in Reader!Cells
        <5> TAKE c \in Reader!Cells
        <5>1. c < mHead + Len(s) - RingSize => c < RingSize
          BY <1>1, <1>2, SizeAssumption DEF Reader!Cells
        <5>2. c < RingSize => c + RingSize \in Reader!Cells
          BY SizeAssumption DEF Reader!Cells
        <5> QED BY <5>1, <5>2
      <4>3. \A c \in Reader!Cells : mBuffer'[c] \in Event \cup {NoEvent}
        <5>1. mHead \in Int /\ Len(s) \in Int BY <1>1, <1>2, SizeAssumption
        <5> QED BY <3>1, <4>1, <4>2, <5>1, CopiedAt
      <4>4. mBuffer' = [c \in Reader!Cells |-> mBuffer'[c]]
        BY <4>1 DEF Reader!CopiedToFront
      <4> QED BY <4>3, <4>4
    <3>3. CASE ~(mHead + Len(s) > RingSize)
      BY <3>1, <3>3 DEF Reader!Fill, Reader!mBufferEnd
    <3> QED BY <3>2, <3>3
  <2>2. mHead' \in 0 .. RingSize
    BY <1>1, <1>2, SizeAssumption DEF Reader!Fill, Reader!mBufferEnd
  <2>3. mFreeSpace' \in 0 .. RingSize BY <1>1, <1>2, SizeAssumption
  <2> QED BY <1>1, <1>2, <2>1, <2>2, <2>3 DEF ReaderInv, Reader!TypeOK
<1>4. Reader!CountersAgree'
  <2>1. \/ mHead + Len(s) <= RingSize /\ mHead' = mHead + Len(s)
        \/ mHead + Len(s) > RingSize /\ mHead' = mHead + Len(s) - RingSize
    <3>1. CASE mHead + Len(s) > RingSize
      BY <1>1, <1>2, <3>1, SizeAssumption DEF Reader!Fill, Reader!mBufferEnd
    <3>2. CASE ~(mHead + Len(s) > RingSize)
      BY <1>1, <1>2, <3>2, SizeAssumption DEF Reader!Fill, Reader!mBufferEnd
    <3> QED BY <1>1, <1>2, <3>1, <3>2, SizeAssumption
  <2>3. mHead - mCurr - (RingSize - mFreeSpace) \in {0, RingSize, -RingSize}
    BY DEF ReaderInv, Reader!CountersAgree
  <2>4. mHead' - mCurr' - (RingSize - mFreeSpace') \in {0, RingSize, -RingSize}
    <3>1. CASE mHead - mCurr - (RingSize - mFreeSpace) = 0
      <4>1. \/ mHead' - mCurr' - (RingSize - mFreeSpace') = 0
            \/ mHead' - mCurr' - (RingSize - mFreeSpace') = -RingSize
        <5>1. mHead' \in {mHead + Len(s), mHead + Len(s) - RingSize}
          BY <2>1
        <5>2. mCurr' = mCurr /\ mFreeSpace' = mFreeSpace - Len(s)
          BY <1>2
        <5>3. /\ Len(s) \in Int /\ RingSize \in Int /\ mHead \in Int /\ mCurr \in Int
              /\ mFreeSpace \in Int
          BY <1>1, <1>2, SizeAssumption
        <5> QED BY <3>1, <5>1, <5>2, <5>3
      <4> QED BY <4>1
    <3>2. CASE mHead - mCurr - (RingSize - mFreeSpace) = RingSize
      BY <1>1, <1>2, <2>1, <3>2, SizeAssumption
    <3>3. CASE mHead - mCurr - (RingSize - mFreeSpace) = -RingSize
      BY <1>1, <1>2, <2>1, <3>3, SizeAssumption
    <3> QED BY <2>3, <3>1, <3>2, <3>3
  <2> QED BY <2>4 DEF Reader!CountersAgree
<1>5. Reader!Unread' = Reader!Unread \o s
  <2> DEFINE used == RingSize - mFreeSpace
             both == Reader!Unread \o s
  <2>1. Reader!Unread \in Seq(Event) /\ Len(Reader!Unread) = used
    BY UnreadIsSeq DEF ReaderInv
  <2>2. /\ both \in Seq(Event)
        /\ Len(both) = used + Len(s)
        /\ \A i \in 1 .. used + Len(s) :
               both[i] = IF i <= used THEN Reader!Unread[i] ELSE s[i - used]
    <3> HIDE DEF used
    <3> QED BY <1>1, <2>1, ConcatProperties
  <2>3. RingSize - mFreeSpace' = used + Len(s) /\ RingSize - mFreeSpace' \in Nat
    BY <1>1, <1>2, SizeAssumption
  <2>4. ASSUME NEW i \in 1 .. RingSize - mFreeSpace'
        PROVE  Reader!Unread'[i] = both[i]
    <3>1. Reader!Unread'[i] = mBuffer'[Reader!CellOf(i - 1)]
      BY <1>2 DEF Reader!Unread, Reader!CellOf
    <3>2. both[i] = IF i <= used THEN Reader!Unread[i] ELSE s[i - used]
      BY <2>2, <2>3
    <3>3. CASE i <= used
      <4>1. i \in 1 .. used /\ i - 1 \in 0 .. used - 1
        BY <1>1, <1>2, <3>3, SizeAssumption
      <4>2. mBuffer'[Reader!CellOf(i - 1)] = mBuffer[Reader!CellOf(i - 1)]
        BY <4>1, FillKeepsUnread
      <4>3. Reader!Unread[i] = mBuffer[Reader!CellOf(i - 1)] BY <4>1 DEF Reader!Unread
      <4> QED BY <3>1, <3>2, <3>3, <4>2, <4>3
    <3>4. CASE ~(i <= used)
      <4> DEFINE j == i - 1 - used
      <4>1. j \in 0 .. Len(s) - 1 /\ i - 1 = used + j /\ i - used = j + 1
        BY <1>1, <1>2, <3>4, SizeAssumption
      <4>2. mBuffer'[Reader!CellOf(used + j)] = s[j + 1] BY <4>1, FillAppends
      <4> QED BY <3>1, <3>2, <3>4, <4>1, <4>2
    <3> QED BY <3>3, <3>4
  <2>5. Reader!Unread' \in Seq(Event) /\ Len(Reader!Unread') = RingSize - mFreeSpace'
    <3>1. \A i \in 1 .. RingSize - mFreeSpace' : both[i] \in Event
      BY <2>2, <2>3, ElementOfSeq
    <3>2. Reader!Unread' \in [1 .. RingSize - mFreeSpace' -> Event]
      BY <2>4, <3>1 DEF Reader!Unread
    <3> QED BY <2>3, <3>2
  <2>6. Len(Reader!Unread') = Len(both) BY <2>2, <2>3, <2>5
  <2> QED BY <2>2, <2>4, <2>5, <2>6, SeqEqual
<1>6. UnreadAreEvents'
  <2>1. Reader!Unread \o s \in Seq(Event) BY <1>1, UnreadIsSeq DEF ReaderInv
  <2> QED BY <1>5, <2>1 DEF UnreadAreEvents
<1>7. Reader!Queue!Fill(s)
  <2>1. Len(Reader!Unread) + Len(s) <= RingSize
    BY <1>1, <1>2, UnreadIsSeq, SizeAssumption DEF ReaderInv
  <2> QED BY <1>2, <1>5, <2>1 DEF Reader!Queue!Put, Reader!Queue!Fill
<1> QED BY <1>3, <1>4, <1>6, <1>7 DEF ReaderInv

\* A failed read() leaves the unread events alone, whatever it stored.
LEMMA FillFailsIsStutter ==
    ASSUME ReaderInv, NEW s \in Reader!Blocks, Reader!FillFails(s)
    PROVE  ReaderInv' /\ UNCHANGED <<Reader!Unread, event, block>>
<1>1. Len(s) \in 1 .. mFreeSpace BY BlockIsSeq DEF ReaderInv, Reader!TypeOK
<1>2. /\ mHead \in 0 .. RingSize
      /\ mCurr \in 0 .. RingSize - 1
      /\ mFreeSpace \in 0 .. RingSize
      /\ mHead' = mHead /\ mCurr' = mCurr
      /\ mFreeSpace' = mFreeSpace
      /\ event' = event /\ block' = block
      /\ mBuffer' = Reader!Stored(s)
  BY DEF ReaderInv, Reader!TypeOK, Reader!FillFails
<1>3. Reader!TypeOK' BY <1>2, StoredType DEF ReaderInv, Reader!TypeOK
<1>4. Reader!CountersAgree' BY <1>2 DEF ReaderInv, Reader!CountersAgree
<1>5. ASSUME NEW i \in 0 .. RingSize - mFreeSpace - 1
      PROVE  mBuffer'[Reader!CellOf(i)] = mBuffer[Reader!CellOf(i)]
  <2> DEFINE c == Reader!CellOf(i)
  <2>1. c \in Reader!Cells /\ c < RingSize
    BY <1>2, CellInRing, SizeAssumption DEF Reader!Cells
  <2>2. ~(mHead <= c /\ c < mHead + Len(s))
    BY <1>1, <1>2, SizeAssumption DEF ReaderInv, Reader!CountersAgree, Reader!CellOf
  <2> QED BY <1>2, <2>1, <2>2 DEF Reader!Stored
<1>6. Reader!Unread' = Reader!Unread
  <2>1. \A i \in 1 .. RingSize - mFreeSpace : i - 1 \in 0 .. RingSize - mFreeSpace - 1
    BY <1>2, SizeAssumption
  <2>2. Reader!Unread' =
            [i \in 1 .. RingSize - mFreeSpace |-> mBuffer'[Reader!CellOf(i - 1)]]
    BY <1>2 DEF Reader!Unread, Reader!CellOf
  <2> QED BY <1>5, <2>1, <2>2 DEF Reader!Unread
<1>7. UnreadAreEvents' BY <1>6 DEF ReaderInv, UnreadAreEvents
<1> QED BY <1>2, <1>3, <1>4, <1>6, <1>7 DEF ReaderInv

\* readEvent() and next() take the oldest unread event.
LEMMA ReadAndNextIsTake ==
    ASSUME ReaderInv, Reader!ReadAndNext
    PROVE  ReaderInv' /\ Reader!Queue!Read
<1>1. /\ mHead \in 0 .. RingSize
      /\ mCurr \in 0 .. RingSize - 1
      /\ mFreeSpace \in 0 .. RingSize - 1
      /\ mHead' = mHead /\ mBuffer' = mBuffer
      /\ mFreeSpace' = mFreeSpace + 1
      /\ event' = mBuffer[mCurr]
      /\ block' = block
  BY SizeAssumption DEF ReaderInv, Reader!TypeOK, Reader!ReadAndNext, Reader!Available
<1>2. mCurr' = IF mCurr + 1 >= RingSize THEN 0 ELSE mCurr + 1
  BY DEF Reader!ReadAndNext, Reader!mBufferEnd
<1>3. mCurr' \in 0 .. RingSize - 1 BY <1>1, <1>2, SizeAssumption
<1>4. Reader!Unread \in Seq(Event) /\ Len(Reader!Unread) = RingSize - mFreeSpace
  BY UnreadIsSeq DEF ReaderInv
<1>5. Reader!Unread # <<>> BY <1>1, <1>4, SizeAssumption
<1>6. Head(Reader!Unread) = mBuffer[mCurr]
  <2>1. 1 \in 1 .. RingSize - mFreeSpace /\ Reader!CellOf(1 - 1) = mCurr
    BY <1>1, SizeAssumption DEF Reader!CellOf
  <2>2. Reader!Unread[1] = mBuffer[mCurr] BY <2>1 DEF Reader!Unread
  <2> QED BY <1>4, <1>5, <2>2
<1>7. Reader!TypeOK'
  <2>1. mBuffer[mCurr] \in Event \cup {NoEvent}
    BY <1>1, SizeAssumption DEF ReaderInv, Reader!TypeOK, Reader!Cells
  <2>2. mFreeSpace' \in 0 .. RingSize BY <1>1, SizeAssumption
  <2> QED BY <1>1, <1>3, <2>1, <2>2 DEF ReaderInv, Reader!TypeOK
<1>8. Reader!CountersAgree'
  <2>1. CASE mCurr + 1 >= RingSize
    <3>1. mCurr = RingSize - 1 /\ mCurr' = 0 BY <1>1, <1>2, <2>1, SizeAssumption
    <3> QED BY <1>1, <3>1, SizeAssumption DEF ReaderInv, Reader!CountersAgree
  <2>2. CASE ~(mCurr + 1 >= RingSize)
    BY <1>1, <1>2, <2>2, SizeAssumption DEF ReaderInv, Reader!CountersAgree
  <2> QED BY <2>1, <2>2
<1>9. Reader!Unread' = Tail(Reader!Unread)
  <2> DEFINE k == RingSize - mFreeSpace'
  <2>1. k \in Nat /\ Len(Reader!Unread) = k + 1
    BY <1>1, <1>4, SizeAssumption
  <2>2. /\ Tail(Reader!Unread) \in Seq(Event)
        /\ Len(Tail(Reader!Unread)) = k
        /\ \A i \in 1 .. k : Tail(Reader!Unread)[i] = Reader!Unread[i + 1]
    <3> HIDE DEF k
    <3> QED BY <1>4, <1>5, <2>1, HeadTailProperties
  <2>3. ASSUME NEW i \in 1 .. k
        PROVE  Reader!Unread'[i] = Tail(Reader!Unread)[i]
    <3>1. Reader!Unread'[i] = mBuffer[(Reader!CellOf(i - 1))'] BY <1>1 DEF Reader!Unread
    <3>2. i + 1 \in 1 .. RingSize - mFreeSpace BY <1>1, <2>1, SizeAssumption
    <3>3. Reader!Unread[i + 1] = mBuffer[Reader!CellOf(i + 1 - 1)]
      BY <3>2 DEF Reader!Unread
    <3>4. (Reader!CellOf(i - 1))' = Reader!CellOf(i + 1 - 1)
      BY <1>1, <1>2, <3>2, SizeAssumption DEF Reader!CellOf
    <3> QED BY <2>2, <3>1, <3>3, <3>4
  <2>4. Reader!Unread' \in Seq(Event) /\ Len(Reader!Unread') = k
    <3>1. \A i \in 1 .. k : Tail(Reader!Unread)[i] \in Event
      BY <2>2, ElementOfSeq
    <3>2. Reader!Unread' \in [1 .. k -> Event] BY <2>3, <3>1 DEF Reader!Unread
    <3> HIDE DEF k
    <3> QED BY <2>1, <3>2
  <2> QED BY <2>2, <2>3, <2>4, SeqEqual
<1>10. UnreadAreEvents'
  <2>1. Tail(Reader!Unread) \in Seq(Event) BY <1>4, <1>5
  <2> QED BY <1>9, <2>1, ElementOfSeq, LenProperties DEF UnreadAreEvents
<1>11. Reader!Queue!Read
  BY <1>1, <1>5, <1>6, <1>9 DEF Reader!Queue!Take, Reader!Queue!Read
<1> QED BY <1>7, <1>8, <1>10, <1>11 DEF ReaderInv

-----------------------------------------------------------------------------
\* A new ring is an empty queue.
LEMMA InitIsEmpty ==
    ASSUME Reader!Init
    PROVE  ReaderInv /\ Reader!Queue!Init /\ block = <<>>
<1>1. Reader!TypeOK BY SizeAssumption DEF Reader!Init, Reader!TypeOK
<1>2. Reader!CountersAgree BY SizeAssumption DEF Reader!Init, Reader!CountersAgree
<1>3. Reader!Unread = <<>>
  <2>1. RingSize - mFreeSpace = 0 BY SizeAssumption DEF Reader!Init
  <2>2. 1 .. 0 = {} OBVIOUS
  <2> QED BY <2>1, <2>2 DEF Reader!Unread
<1>4. UnreadAreEvents BY <1>3 DEF UnreadAreEvents
<1> QED BY <1>1, <1>2, <1>3, <1>4 DEF ReaderInv, Reader!Init, Reader!Queue!Init

\* Every step keeps the invariant.
LEMMA NextKeepsInv == ReaderInv /\ [Reader!Next]_(Reader!vars) => ReaderInv'
<1> SUFFICES ASSUME ReaderInv, [Reader!Next]_(Reader!vars) PROVE ReaderInv' OBVIOUS
<1>1. CASE Reader!ReadAndNext BY <1>1, ReadAndNextIsTake
<1>2. CASE \E s \in Reader!Blocks : Reader!Fill(s) \/ Reader!FillFails(s)
  BY <1>2, FillIsPut, FillFailsIsStutter
<1>3. CASE UNCHANGED Reader!vars
  BY <1>3 DEF Reader!vars, ReaderInv, Reader!TypeOK, Reader!CountersAgree, UnreadAreEvents,
              Reader!Unread, Reader!CellOf
<1> QED BY <1>1, <1>2, <1>3 DEF Reader!Next

\* Every step is a step of the queue, or changes nothing of it.
LEMMA NextIsQueueNext ==
    ReaderInv /\ [Reader!Next]_(Reader!vars) => [Reader!Queue!Next]_(Reader!Queue!vars)
<1> SUFFICES ASSUME ReaderInv, [Reader!Next]_(Reader!vars)
             PROVE  [Reader!Queue!Next]_(Reader!Queue!vars)
  OBVIOUS
<1>1. CASE Reader!ReadAndNext BY <1>1, ReadAndNextIsTake DEF Reader!Queue!Next
<1>2. CASE \E s \in Reader!Blocks : Reader!Fill(s) \/ Reader!FillFails(s)
  <2>1. PICK s \in Reader!Blocks : Reader!Fill(s) \/ Reader!FillFails(s) BY <1>2
  <2>2. s \in Seq(Event) BY BlockIsSeq DEF ReaderInv, Reader!TypeOK
  <2>3. CASE Reader!Fill(s) BY <2>2, <2>3, FillIsPut DEF Reader!Queue!Next
  <2>4. CASE Reader!FillFails(s) BY <2>4, FillFailsIsStutter DEF Reader!Queue!vars
  <2> QED BY <2>1, <2>3, <2>4
<1>3. CASE UNCHANGED Reader!vars
  BY <1>3 DEF Reader!vars, Reader!Queue!vars, Reader!Unread, Reader!CellOf
<1> QED BY <1>1, <1>2, <1>3 DEF Reader!Next

\* For every size of the ring: the counters of the ring agree, and what readEvent() hands
\* out was put there by a read that succeeded.
THEOREM RingCorrect ==
    Reader!Spec => [](Reader!TypeOK /\ Reader!CountersAgree /\ UnreadAreEvents)
<1>1. Reader!Init => ReaderInv BY InitIsEmpty
<1>2. ReaderInv => Reader!TypeOK /\ Reader!CountersAgree /\ UnreadAreEvents
  BY DEF ReaderInv
<1> QED BY <1>1, <1>2, NextKeepsInv, PTL DEF Reader!Spec

\* For every size of the ring: the ring implements the queue, so that no event is lost,
\* repeated, reordered or overwritten before it is read.
THEOREM RingIsQueue == Reader!Spec => Reader!IsQueue
<1>1. Reader!Init => ReaderInv /\ Reader!Queue!Init /\ block = <<>> BY InitIsEmpty
<1> QED BY <1>1, NextKeepsInv, NextIsQueueNext, PTL
        DEF Reader!Spec, Reader!IsQueue, Reader!Queue!Spec

-----------------------------------------------------------------------------
(* The poll thread, which sees the reader as the queue that RingIsQueue     *)
(* shows it to be.                                                          *)

USE SensorAssumption, SizeAssumption

LEMMA HalTypesInit ==
    ASSUME Init
    PROVE  TypeOK
<1>1. /\ RingSize \in Nat /\ KernelSize \in Nat /\ MaxWakes \in Nat /\ MaxErrors \in Nat
  BY DEF SizeAssumption
<1>2. /\ kernel \in Seq(Event) /\ Len(kernel) <= KernelSize
      /\ ring \in Seq(Event) /\ Len(ring) <= RingSize
      /\ event \in Event \cup {NoEvent}
  BY <1>1 DEF Init, Ring!Init
<1>3. wakes \in 0 .. MaxWakes /\ errors \in 0 .. MaxErrors
  BY <1>1 DEF Init
<1>4. /\ iio \in BOOLEAN /\ pending \in BOOLEAN /\ revents \in BOOLEAN
      /\ undone \in BOOLEAN
  BY DEF Init
<1> QED  BY <1>2, <1>3, <1>4 DEF Init, TypeOK

LEMMA HalTypesStep ==
    ASSUME TypeOK, [Next]_vars
    PROVE  TypeOK'
<1> USE DEF pollVars, frameworkVars
<1>a. /\ RingSize \in Nat /\ KernelSize \in Nat /\ ArraySize \in Nat /\ MaxWakes \in Nat
      /\ MaxErrors \in Nat
  BY DEF SizeAssumption
<1>t. /\ kernel \in Seq(Event) /\ ring \in Seq(Event)
      /\ Len(kernel) \in Nat /\ Len(ring) \in Nat
      /\ Len(kernel) <= KernelSize /\ Len(ring) <= RingSize
  BY DEF TypeOK
\* What readEvents() returned is subtracted from the room in the array.
<1>r. ASSUME NEW n \in Int, Account(n)
      PROVE  /\ revents' \in BOOLEAN /\ count' \in Int /\ nbEvents' \in Int /\ nb' \in Nat
             /\ pc' \in {"poll", "idle"}
  BY <1>r DEF Account, TypeOK
<1>1. CASE HubEvent
  <2>1. PICK e \in Event : kernel' = Append(kernel, e)
    BY <1>1 DEF HubEvent
  <2>2. kernel' \in Seq(Event) /\ Len(kernel') = Len(kernel) + 1
    BY <2>1, <1>t, AppendProperties
  <2>3. Len(kernel') <= KernelSize
    BY <1>1, <2>2, <1>t, <1>a DEF HubEvent
  <2> QED  BY <1>1, <2>2, <2>3 DEF HubEvent, TypeOK
<1>2. CASE Call
  BY <1>2, <1>a DEF Call, TypeOK
<1>3. CASE Check
  BY <1>3 DEF Check, TypeOK
<1>4. CASE Fill
  <2>1. CASE UNCHANGED <<kernel, ring, event>>
    BY <1>4, <2>1 DEF Fill, TypeOK
  <2>2. CASE \E n \in 1 .. Len(kernel) :
                /\ n <= FreeSpace
                /\ Ring!Put(SubSeq(kernel, 1, n))
                /\ kernel' = SubSeq(kernel, n + 1, Len(kernel))
    <3>1. PICK n \in 1 .. Len(kernel) :
                /\ n <= FreeSpace
                /\ Ring!Put(SubSeq(kernel, 1, n))
                /\ kernel' = SubSeq(kernel, n + 1, Len(kernel))
      BY <2>2
    <3>2. /\ SubSeq(kernel, 1, n) \in Seq(Event)
          /\ SubSeq(kernel, n + 1, Len(kernel)) \in Seq(Event)
          /\ Len(SubSeq(kernel, n + 1, Len(kernel))) <= Len(kernel)
      BY <1>t, SubSeqProperties
    <3>3. ring' = ring \o SubSeq(kernel, 1, n) /\ UNCHANGED event
          /\ Len(ring) + Len(SubSeq(kernel, 1, n)) <= RingSize
      BY <3>1 DEF Ring!Put
    <3>4. ring' \in Seq(Event) /\ Len(ring') <= RingSize
      BY <3>2, <3>3, <1>t, ConcatProperties
    <3>5. Len(kernel') <= KernelSize
      BY <3>1, <3>2, <1>t, <1>a
    <3> QED  BY <1>4, <3>1, <3>2, <3>3, <3>4, <3>5 DEF Fill, TypeOK
  <2> QED  BY <1>4, <2>1, <2>2 DEF Fill
<1>5. CASE FillFails
  <2>1. Account(-1) /\ -1 \in Int /\ errors' \in 0 .. MaxErrors
    BY <1>5, <1>a DEF FillFails, TypeOK
  <2> QED  BY <1>5, <2>1, <1>r DEF FillFails, TypeOK
<1>6. CASE Process
  <2>1. ring # <<>> /\ event' = Head(ring) /\ ring' = Tail(ring)
    BY <1>6 DEF Process, Ring!Take
  <2>2. event' \in Event /\ ring' \in Seq(Event) /\ Len(ring') <= RingSize
    BY <2>1, <1>t, <1>a, HeadTailProperties
  <2>3. pending' \in BOOLEAN
    BY <1>6 DEF Process, ProcessEvent, TypeOK
  <2>4. nb' \in Nat /\ pc' \in {"drain", "oneshot"}
    BY <1>6 DEF Process, TypeOK
  <2> QED  BY <1>6, <2>2, <2>3, <2>4 DEF Process, TypeOK
<1>7. CASE OneShotFired
  <2>1. /\ mEnabled' \subseteq Sensor /\ iio' \in BOOLEAN /\ undone' \in BOOLEAN
        /\ nb' \in Nat /\ armed' \in Int
    BY <1>7 DEF OneShotFired, TurnOff, TypeOK
  <2> QED  BY <1>7, <2>1 DEF OneShotFired, TypeOK
<1>8. CASE Drained
  <2>1. Account(nb) /\ nb \in Int
    BY <1>8 DEF Drained, TypeOK
  <2> QED  BY <1>8, <2>1, <1>r DEF Drained, TypeOK
<1>9. CASE Poll
  <2>1. wakes' \in 0 .. MaxWakes
    BY <1>9, <1>a DEF Poll, TypeOK
  <2>2. pc' \in {"check", "idle"} /\ revents' \in BOOLEAN
    BY <1>9 DEF Poll
  <2> QED  BY <1>9, <2>1, <2>2 DEF Poll, TypeOK
<1>b. CASE PollFails
  <2>1. errors' \in 0 .. MaxErrors /\ nbEvents' \in Int
    BY <1>b, <1>a DEF PollFails, TypeOK
  <2> QED  BY <1>b, <2>1 DEF PollFails, TypeOK
<1>c. CASE Activate
  <2>1. /\ mEnabled' \subseteq Sensor /\ iio' \in BOOLEAN /\ armed' \in Int
        /\ handle' \in Sensor \cup {NoSensor} /\ fpc' \in {"wake", "idle"}
    <3>1. CASE TurnOn(handle) /\ fpc' = "wake"
      <4>1. handle \in Sensor
        BY <1>c DEF TypeOK, Activate
      <4> QED  BY <1>c, <3>1, <4>1 DEF Activate, TurnOn, TypeOK
    <3>2. CASE UNCHANGED <<iio, mEnabled, armed>> /\ handle' = NoSensor /\ fpc' = "idle"
      BY <3>2 DEF TypeOK
    <3> QED  BY <1>c, <3>1, <3>2 DEF Activate
  <2> QED  BY <1>c, <2>1 DEF Activate, TypeOK
<1>d. CASE Wake
  <2>1. wakes' \in 0 .. MaxWakes
    BY <1>d, <1>a DEF Wake, TypeOK
  <2> QED  BY <1>d, <2>1 DEF Wake, TypeOK
<1>e. ASSUME NEW s \in Sensor, Batch(s)
      PROVE  TypeOK'
  <2>1. iio' \in BOOLEAN /\ undone' \in BOOLEAN
    BY <1>e DEF Batch, TypeOK
  <2> QED  BY <1>e, <2>1 DEF Batch, TypeOK
<1>f. ASSUME NEW s \in Sensor, Deactivate(s)
      PROVE  TypeOK'
  <2>1. mEnabled' \subseteq Sensor /\ iio' \in BOOLEAN
    BY <1>f DEF Deactivate, TurnOff, TypeOK
  <2> QED  BY <1>f, <2>1 DEF Deactivate, TypeOK
<1>g. CASE UNCHANGED vars
  BY <1>g DEF vars, TypeOK
<1> QED  BY <1>1, <1>2, <1>3, <1>4, <1>5, <1>6, <1>7, <1>8, <1>9, <1>b, <1>c, <1>d,
            <1>e, <1>f, <1>g
         DEF Next, PollThread, Failure, Framework

-----------------------------------------------------------------------------
(* One-shot sensors report once *)

\* The one-shot sensors that may still report: those that are on, and the one
\* whose event readEvents() is about to answer.
Unanswered == (mEnabled \cap OneShot) \cup (IF pc = "oneshot" THEN {event} ELSE {})

\* Each of them was activated more often than it was answered.
ArmedInv ==
    /\ IsFiniteSet(mEnabled)
    /\ pc = "oneshot" => event \in OneShot
    /\ armed >= Cardinality(Unanswered)

LEMMA ArmedInit == Init => ArmedInv
<1> SUFFICES ASSUME Init PROVE ArmedInv
  OBVIOUS
<1>1. Unanswered = {} /\ mEnabled = {} /\ armed = 0 /\ pc # "oneshot"
  BY DEF Init, Unanswered
<1> QED  BY <1>1, FS_EmptySet DEF ArmedInv

LEMMA UnansweredFinite ==
    ASSUME ArmedInv
    PROVE  IsFiniteSet(Unanswered) /\ Cardinality(Unanswered) \in Nat
<1>1. IsFiniteSet(mEnabled \cap OneShot)
  BY FS_Intersection DEF ArmedInv
<1>2. IsFiniteSet(Unanswered)
  <2>1. CASE pc = "oneshot"
    BY <1>1, <2>1, FS_AddElement DEF Unanswered
  <2>2. CASE pc # "oneshot"
    BY <1>1, <2>2 DEF Unanswered
  <2> QED  BY <2>1, <2>2
<1> QED  BY <1>2, FS_CardinalityType

LEMMA ArmedStep ==
    ASSUME TypeOK, ArmedInv, [Next]_vars
    PROVE  ArmedInv'
<1> USE DEF pollVars, frameworkVars
<1>p. /\ IsFiniteSet(mEnabled) /\ armed \in Int /\ armed >= Cardinality(Unanswered)
      /\ pc = "oneshot" => event \in OneShot
      /\ IsFiniteSet(Unanswered) /\ Cardinality(Unanswered) \in Nat
  BY UnansweredFinite DEF ArmedInv, TypeOK
\* A step after which no other sensor can report.
<1>s. ASSUME UNCHANGED armed, IsFiniteSet(mEnabled'), Unanswered' \subseteq Unanswered,
             pc' = "oneshot" => event' \in OneShot
      PROVE  ArmedInv'
  <2>1. Cardinality(Unanswered') <= Cardinality(Unanswered)
    BY <1>s, <1>p, FS_Subset
  <2>2. Cardinality(Unanswered') \in Nat
    BY <1>s, <1>p, FS_Subset, FS_CardinalityType
  <2> QED  BY <1>s, <1>p, <2>1, <2>2 DEF ArmedInv
<1>1. CASE HubEvent \/ Wake
  BY <1>1, <1>p, <1>s DEF HubEvent, Wake, Unanswered
<1>2. CASE Call \/ Check
  <2>1. UNCHANGED <<armed, mEnabled, event>> /\ pc' # "oneshot"
    BY <1>2 DEF Call, Check
  <2> QED  BY <2>1, <1>p, <1>s DEF Unanswered
<1>3. CASE Fill
  <2>1. UNCHANGED <<armed, mEnabled, event>> /\ pc' # "oneshot"
    BY <1>3 DEF Fill, Ring!Put
  <2> QED  BY <2>1, <1>p, <1>s DEF Unanswered
<1>4. CASE FillFails \/ Drained
  <2>1. UNCHANGED <<armed, mEnabled, event>> /\ pc' # "oneshot"
    BY <1>4 DEF FillFails, Drained, Account
  <2> QED  BY <2>1, <1>p, <1>s DEF Unanswered
<1>5. CASE Process
  <2>1. /\ UNCHANGED <<armed, mEnabled>> /\ pc = "drain"
        /\ pc' = "oneshot" => event' \in mEnabled \cap OneShot
    BY <1>5 DEF Process
  <2> QED  BY <2>1, <1>p, <1>s DEF Unanswered
<1>6. CASE OneShotFired
  <2>1. /\ pc = "oneshot" /\ mEnabled' = mEnabled \ {event} /\ armed' = armed - 1
        /\ pc' = "drain"
    BY <1>6 DEF OneShotFired, TurnOff
  <2>2. Unanswered' = Unanswered \ {event} /\ event \in Unanswered
    BY <2>1 DEF Unanswered
  <2>3. Cardinality(Unanswered') = Cardinality(Unanswered) - 1
    BY <2>2, <1>p, FS_RemoveElement
  <2>4. IsFiniteSet(mEnabled')
    BY <2>1, <1>p, FS_RemoveElement
  <2> QED  BY <2>1, <2>3, <2>4, <1>p DEF ArmedInv
<1>7. CASE Poll \/ PollFails
  <2>1. UNCHANGED <<armed, mEnabled, event>> /\ pc' # "oneshot"
    BY <1>7 DEF Poll, PollFails
  <2> QED  BY <2>1, <1>p, <1>s DEF Unanswered
<1>8. CASE Activate
  <2>1. CASE TurnOn(handle) /\ handle \in OneShot /\ armed' = armed + 1
    <3>1. /\ mEnabled' = mEnabled \cup {handle} /\ UNCHANGED <<pc, event>>
      BY <1>8, <2>1 DEF Activate, TurnOn
    <3>2. Unanswered' = Unanswered \cup {handle}
      BY <2>1, <3>1 DEF Unanswered
    <3>3. Cardinality(Unanswered') <= Cardinality(Unanswered) + 1
          /\ Cardinality(Unanswered') \in Nat
      <4>1. Cardinality(Unanswered') = IF handle \in Unanswered THEN Cardinality(Unanswered)
                                                                ELSE Cardinality(Unanswered) + 1
        BY <3>2, <1>p, FS_AddElement
      <4> QED  BY <4>1, <1>p
    <3>4. IsFiniteSet(mEnabled')
      BY <3>1, <1>p, FS_AddElement
    <3> QED  BY <2>1, <3>1, <3>3, <3>4, <1>p DEF ArmedInv
  <2>2. CASE TurnOn(handle) /\ handle \notin OneShot /\ armed' = armed
    <3>1. /\ mEnabled' = mEnabled \cup {handle} /\ UNCHANGED <<pc, event>>
      BY <1>8, <2>2 DEF Activate, TurnOn
    <3>2. Unanswered' = Unanswered
      BY <2>2, <3>1 DEF Unanswered
    <3>3. IsFiniteSet(mEnabled')
      BY <3>1, <1>p, FS_AddElement
    <3> QED  BY <2>2, <3>1, <3>2, <3>3, <1>p DEF ArmedInv
  <2>3. CASE UNCHANGED <<iio, mEnabled, armed>>
    BY <1>8, <2>3, <1>p, <1>s DEF Activate, Unanswered
  <2> QED  BY <1>8, <2>1, <2>2, <2>3 DEF Activate
<1>9. ASSUME NEW s \in Sensor, Batch(s)
      PROVE  ArmedInv'
  BY <1>9, <1>p, <1>s DEF Batch, Unanswered
<1>a. ASSUME NEW s \in Sensor, Deactivate(s)
      PROVE  ArmedInv'
  <2>1. mEnabled' = mEnabled \ {s} /\ UNCHANGED <<armed, pc, event>>
    BY <1>a DEF Deactivate, TurnOff
  <2>2. IsFiniteSet(mEnabled') /\ Unanswered' \subseteq Unanswered
    BY <2>1, <1>p, FS_RemoveElement DEF Unanswered
  <2> QED  BY <2>1, <2>2, <1>p, <1>s
<1>b. CASE UNCHANGED vars
  BY <1>b, <1>p, <1>s DEF vars, Unanswered
<1> QED  BY <1>1, <1>2, <1>3, <1>4, <1>5, <1>6, <1>7, <1>8, <1>9, <1>a, <1>b
         DEF Next, PollThread, Failure, Framework

-----------------------------------------------------------------------------
(* The buffer serves the sensors that are on *)

\* The buffer is on while a sensor is, and from batch() on while one is turned on.
ServedInv == ~undone /\ (fpc = "activate" \/ mEnabled # {}) => iio

LEMMA ServedInit == Init => ServedInv
BY DEF Init, ServedInv

LEMMA ServedStep ==
    ASSUME TypeOK, ServedInv, [Next]_vars
    PROVE  ServedInv'
<1> USE DEF pollVars, frameworkVars
<1>1. CASE UNCHANGED <<iio, mEnabled, fpc, undone>>
  BY <1>1 DEF ServedInv
<1>2. CASE OneShotFired
  <2>1. /\ iio' = (iio /\ mEnabled' # {}) /\ UNCHANGED fpc
        /\ mEnabled' \subseteq mEnabled
        /\ undone' = (undone \/ (fpc = "activate" /\ iio' # iio))
    BY <1>2 DEF OneShotFired, TurnOff
  <2>2. iio \in BOOLEAN /\ undone \in BOOLEAN
    BY DEF TypeOK
  <2> QED  BY <2>1, <2>2 DEF ServedInv
<1>3. CASE Activate
  <2>1. fpc = "activate" /\ fpc' # "activate" /\ UNCHANGED <<iio, undone>>
    BY <1>3 DEF Activate, TurnOn
  <2> QED  BY <2>1 DEF ServedInv
<1>4. CASE Wake
  BY <1>4 DEF Wake, ServedInv
<1>5. ASSUME NEW s \in Sensor, Batch(s)
      PROVE  ServedInv'
  <2>1. /\ iio' = (iio \/ mEnabled = {}) /\ undone' = (undone /\ mEnabled # {})
        /\ UNCHANGED mEnabled
    BY <1>5 DEF Batch
  <2> QED  BY <2>1 DEF ServedInv
<1>6. ASSUME NEW s \in Sensor, Deactivate(s)
      PROVE  ServedInv'
  <2>1. /\ iio' = (iio /\ mEnabled' # {}) /\ UNCHANGED <<fpc, undone>> /\ fpc = "idle"
        /\ mEnabled' \subseteq mEnabled
    BY <1>6 DEF Deactivate, TurnOff
  <2> QED  BY <2>1 DEF ServedInv
<1> QED  BY <1>1, <1>2, <1>3, <1>4, <1>5, <1>6
         DEF Next, PollThread, Failure, Framework, vars, HubEvent,
             Call, Check, Fill, FillFails, Process, Drained,
             Poll, PollFails, Ring!Put

-----------------------------------------------------------------------------
(* The ring and the kernel's buffer are one queue *)

LEMMA EventsAssociate ==
    \A x, y, z \in Seq(Event) : (x \o y) \o z = x \o (y \o z)
<1> TAKE x, y, z \in Seq(Event)
<1> QED  BY ConcatAssociative

LEMMA PipeInit == Init => Pipe!Init
BY DEF Init, Ring!Init, Pipe!Init, Waiting

\* The hub puts an event in, readEvents() takes one, fill() moves some from one
\* part to the other, and nothing else touches them.
LEMMA PipeStep ==
    ASSUME TypeOK, [Next]_vars
    PROVE  [PipeNext]_<<Waiting, event>>
<1> USE DEF pollVars, frameworkVars
<1>a. RingSize \in Nat /\ KernelSize \in Nat
  BY DEF SizeAssumption
<1>t. /\ kernel \in Seq(Event) /\ ring \in Seq(Event)
      /\ Len(kernel) \in Nat /\ Len(ring) \in Nat
      /\ Len(kernel) <= KernelSize /\ Len(ring) <= RingSize
      /\ Waiting \in Seq(Event) /\ Len(Waiting) = Len(ring) + Len(kernel)
  BY ConcatProperties DEF TypeOK, Waiting
<1>1. CASE HubEvent
  <2>1. PICK e \in Event : kernel' = Append(kernel, e)
    BY <1>1 DEF HubEvent
  <2>2. kernel' = kernel \o <<e>> /\ <<e>> \in Seq(Event) /\ Len(<<e>>) = 1
    BY <2>1, <1>t, AppendIsConcat
  <2>3. Waiting' = Waiting \o <<e>>
    <3>1. ring' = ring
      BY <1>1 DEF HubEvent
    <3> QED  BY <2>2, <3>1, <1>t, EventsAssociate DEF Waiting
  <2>4. Len(Waiting) + Len(<<e>>) <= RingSize + KernelSize
    <3>1. Len(kernel) < KernelSize
      BY <1>1 DEF HubEvent
    <3> QED  BY <2>2, <3>1, <1>t, <1>a
  <2>5. Pipe!Put(<<e>>)
    BY <1>1, <2>3, <2>4 DEF Pipe!Put, HubEvent
  <2> QED  BY <2>5 DEF PipeNext
<1>2. CASE Fill
  <2>1. CASE UNCHANGED <<kernel, ring, event>>
    BY <2>1 DEF Waiting
  <2>2. CASE \E n \in 1 .. Len(kernel) :
                /\ Ring!Put(SubSeq(kernel, 1, n))
                /\ kernel' = SubSeq(kernel, n + 1, Len(kernel))
    <3>1. PICK n \in 1 .. Len(kernel) :
                /\ Ring!Put(SubSeq(kernel, 1, n))
                /\ kernel' = SubSeq(kernel, n + 1, Len(kernel))
      BY <2>2
    <3>2. ring' = ring \o SubSeq(kernel, 1, n) /\ UNCHANGED event
      BY <3>1 DEF Ring!Put
    <3>3. SubSeq(kernel, 1, n) \o SubSeq(kernel, n + 1, Len(kernel)) = kernel
      <4>1. /\ 1 \in 1 .. Len(kernel) + 1 /\ n \in 1 - 1 .. Len(kernel)
            /\ Len(kernel) \in n .. Len(kernel)
        BY <1>t
      <4>2. SubSeq(kernel, 1, n) \o SubSeq(kernel, n + 1, Len(kernel))
              = SubSeq(kernel, 1, Len(kernel))
        BY <4>1, <1>t, ConcatAdjacentSubSeq
      <4> QED  BY <4>2, <1>t, SubSeqFull
    <3>4. /\ SubSeq(kernel, 1, n) \in Seq(Event)
          /\ SubSeq(kernel, n + 1, Len(kernel)) \in Seq(Event)
      BY <1>t, SubSeqProperties
    <3>5. Waiting' = Waiting
      <4>1. (ring \o SubSeq(kernel, 1, n)) \o SubSeq(kernel, n + 1, Len(kernel))
              = ring \o (SubSeq(kernel, 1, n) \o SubSeq(kernel, n + 1, Len(kernel)))
        <5>1. PICK a \in Seq(Event), b \in Seq(Event) :
                  a = SubSeq(kernel, 1, n) /\ b = SubSeq(kernel, n + 1, Len(kernel))
          BY <3>4
        <5>2. (ring \o a) \o b = ring \o (a \o b)
          <6>1. ring \in Seq(Event)
            BY <1>t
          <6> QED  BY <5>1, <6>1, EventsAssociate, Zenon
        <5> QED  BY <5>1, <5>2
      <4> QED  BY <3>1, <3>2, <3>3, <4>1 DEF Waiting
    <3> QED  BY <3>2, <3>5
  <2> QED  BY <1>2, <2>1, <2>2 DEF Fill
<1>3. CASE Process
  <2>1. ring # <<>> /\ event' = Head(ring) /\ ring' = Tail(ring) /\ UNCHANGED kernel
    BY <1>3 DEF Process, Ring!Take
  <2>2. /\ Waiting # <<>> /\ Head(Waiting) = Head(ring)
        /\ Tail(Waiting) = Tail(ring) \o kernel
    <3>1. Len(ring) >= 1
      BY <2>1, <1>t
    <3>2. Waiting # <<>> /\ Waiting[1] = ring[1]
      BY <3>1, <1>t, ConcatProperties DEF Waiting
    <3>3. Tail(ring) \in Seq(Event) /\ Len(Tail(ring)) = Len(ring) - 1
          /\ \A i \in 1 .. Len(Tail(ring)) : Tail(ring)[i] = ring[i + 1]
      BY <2>1, <1>t, HeadTailProperties
    <3>4. /\ Tail(Waiting) \in Seq(Event)
          /\ Len(Tail(Waiting)) = Len(Waiting) - 1
          /\ \A i \in 1 .. Len(Tail(Waiting)) : Tail(Waiting)[i] = Waiting[i + 1]
      BY <3>2, <1>t, HeadTailProperties
    <3>5. /\ Tail(ring) \o kernel \in Seq(Event)
          /\ Len(Tail(ring) \o kernel) = Len(ring) - 1 + Len(kernel)
          /\ \A i \in 1 .. Len(ring) - 1 + Len(kernel) : (Tail(ring) \o kernel)[i] =
                IF i <= Len(ring) - 1 THEN Tail(ring)[i] ELSE kernel[i - (Len(ring) - 1)]
      BY <3>3, <1>t, ConcatProperties
    <3>6. \A i \in 1 .. Len(ring) + Len(kernel) : Waiting[i] =
                IF i <= Len(ring) THEN ring[i] ELSE kernel[i - Len(ring)]
      BY <1>t, ConcatProperties DEF Waiting
    <3>7. \A i \in 1 .. Len(ring) - 1 + Len(kernel) :
              Tail(Waiting)[i] = (Tail(ring) \o kernel)[i]
      <4> TAKE i \in 1 .. Len(ring) - 1 + Len(kernel)
      <4>1. i + 1 \in 1 .. Len(ring) + Len(kernel) /\ i \in 1 .. Len(Tail(Waiting))
        BY <3>1, <3>4, <1>t
      <4>2. Tail(Waiting)[i] = Waiting[i + 1]
        BY <4>1, <3>4
      <4>3. i + 1 - Len(ring) = i - (Len(ring) - 1)
        BY <1>t
      <4>4. CASE i <= Len(ring) - 1
        BY <4>1, <4>2, <4>4, <3>3, <3>5, <3>6, <1>t
      <4>5. CASE ~(i <= Len(ring) - 1)
        BY <4>1, <4>2, <4>3, <4>5, <3>5, <3>6, <1>t
      <4> QED  BY <4>4, <4>5
    <3>8. Tail(Waiting) = Tail(ring) \o kernel
      <4>1. Len(Tail(Waiting)) = Len(ring) - 1 + Len(kernel)
        BY <3>4, <1>t
      <4>2. \A i \in 1 .. Len(Tail(Waiting)) :
                Tail(Waiting)[i] = (Tail(ring) \o kernel)[i]
        BY <4>1, <3>7
      <4> QED  BY <3>4, <3>5, <4>1, <4>2, SeqEqual
    <3> QED  BY <3>2, <3>8, <1>t
  <2>3. Pipe!Take
    BY <2>1, <2>2 DEF Pipe!Take, Waiting
  <2> QED  BY <2>3 DEF PipeNext
<1>4. CASE UNCHANGED <<kernel, ring, event>>
  BY <1>4 DEF Waiting
<1> QED  BY <1>1, <1>2, <1>3, <1>4
         DEF Next, PollThread, Failure, Framework, vars,
             Call, Check, FillFails, Drained, OneShotFired,
             Poll, PollFails, Activate, Wake, Batch, Deactivate

-----------------------------------------------------------------------------
(* Theorems of the poll thread *)

\* The poll thread and the framework keep every variable in its type.
THEOREM PollThreadTyped ==
    Spec => []TypeOK
BY HalTypesInit, HalTypesStep, PTL DEF Spec

\* A one-shot sensor never reports more often than it was activated, however the
\* poll thread and the thread that activates interleave: any sensors and sizes.
THEOREM OneShotReportsOnce ==
    Spec => []OneShotOnce
<1>1. TypeOK /\ ArmedInv => OneShotOnce
  BY UnansweredFinite DEF ArmedInv, OneShotOnce, TypeOK
<1> QED  BY <1>1, PollThreadTyped, ArmedInit, ArmedStep, PTL DEF Spec

\* The buffer carries the events of any sensor that is on, in whatever order
\* batch(), setEnable() and the poll thread's own setEnable() come, unless a
\* one-shot sensor took it between another's batch() and its activation.
THEOREM BufferServes ==
    Spec => []EnabledIsServed
<1>1. ServedInv => EnabledIsServed
  BY DEF ServedInv, EnabledIsServed
<1> QED  BY <1>1, PollThreadTyped, ServedInit, ServedStep, PTL DEF Spec

\* No event is lost, repeated or overtaken between the hub and readEvents(), for
\* any sizes of the ring, the kernel's buffer and the array, and when read() or
\* poll() fails.
THEOREM PipeCorrect ==
    Spec => PipeIsQueue
BY PipeInit, PipeStep, PollThreadTyped, PTL DEF Spec, PipeIsQueue
=============================================================================
