-------------------------- MODULE SoundTriggerProofs --------------------------
(***************************************************************************)
(* What holds of SoundTrigger for any number of thread identities and of   *)
(* pieces of audio.  Served is why a start finds no thread alive: a thread *)
(* lives only while its recognition is registered or its stop waits for    *)
(* it.  Quiet and Session build on it.                                     *)
(***************************************************************************)
EXTENDS SoundTrigger, SequenceTheorems, TLAPS

USE SoundTriggerAssumption

\* TypeOK says which labels there are; this says whose they are.
Labelled ==
    /\ \A c \in Clients : pc[c] \in ClientLabels
    /\ \A t \in CallbackThreads : pc[t] \in CallbackLabels

Joining == \E c \in Clients : pc[c] = "join"

\* The strengthening of RecognitionIsServed.
Served ==
    /\ \A t \in CallbackThreads :
          Live(t) => t = callback_thread /\ (recognition_callback \/ Joining)
    /\ recognition_callback =>
          /\ opened /\ model_handle /\ config # "NULL"
          /\ uncreated \/ Live(callback_thread)
          /\ ~Stopping
          /\ Listening(callback_thread) => dsp /\ socks
    /\ Joining => config = "NULL"
    /\ \A t \in CallbackThreads : pc[t] = "uevent" => uevents # <<>>

\* The strengthening of QuietAfterStop: a thread that may still send an event
\* has sent none.
Quiet ==
    /\ events <= 1
    /\ \A t \in CallbackThreads :
          recognition_callback /\ pc[t] \in {"begin", "poll", "uevent", "term"}
              => events = 0

\* The strengthening of StreamInOrder: a thread that will fetch finds the DSP
\* streaming ...
Session ==
    /\ is_streaming => dsp /\ opened
    /\ streaming_buf # <<>> => is_streaming
    /\ \A t \in CallbackThreads :
          pc[t] \in {"callback", "returned"} /\ config # "NULL" => is_streaming

\* ... and the pieces in the buffer are the last ones of those handed out.
BufferOK ==
    /\ streaming_buf \in Seq(1 .. MaxUnits) /\ Len(streaming_buf) <= Chunk
    /\ dsp_next \in 0 .. MaxUnits /\ got \in 0 .. MaxUnits
    /\ got + Len(streaming_buf) <= dsp_next
    /\ \A i \in 1 .. Len(streaming_buf) :
          streaming_buf[i] = dsp_next - Len(streaming_buf) + i

-----------------------------------------------------------------------------
(* The buffer *)

\* What a fetch brings follows what the DSP handed out before.
LEMMA FetchedPieces ==
    ASSUME dsp_next \in 0 .. MaxUnits, NEW piece \in Fetched
    PROVE  /\ piece \in Seq(1 .. MaxUnits) /\ Len(piece) <= Chunk
           /\ dsp_next + Len(piece) <= MaxUnits
           /\ \A i \in 1 .. Len(piece) : piece[i] = dsp_next + i
<1>1. CASE piece = <<>>
  BY <1>1
<1>2. CASE piece # <<>>
  <2>1. PICK k \in {j \in 1 .. Chunk : dsp_next + j <= MaxUnits} :
             piece = [i \in 1 .. k |-> dsp_next + i]
    BY <1>2 DEF Fetched
  <2>2. k \in Nat /\ k <= Chunk /\ dsp_next + k <= MaxUnits
    BY <2>1
  <2>3. \A i \in 1 .. k : dsp_next + i \in 1 .. MaxUnits
    BY <2>2
  <2>4. piece \in Seq(1 .. MaxUnits) /\ Len(piece) = k
    BY <2>1, <2>2, <2>3
  <2> QED  BY <2>1, <2>2, <2>4
<1> QED  BY <1>1, <1>2

LEMMA PowerOK == ASSUME NEW on, SetPower(on) PROVE BufferOK'
BY DEF SetPower, BufferOK

LEMMA FetchOK ==
    ASSUME BufferOK, NEW piece \in Fetched, Fetch(piece), UNCHANGED got
    PROVE  BufferOK'
<1>1. /\ piece \in Seq(1 .. MaxUnits) /\ Len(piece) <= Chunk
      /\ dsp_next + Len(piece) <= MaxUnits
      /\ \A i \in 1 .. Len(piece) : piece[i] = dsp_next + i
  BY FetchedPieces DEF BufferOK
<1>2. dsp_next' = dsp_next + Len(piece) /\ Len(piece) \in Nat
  BY <1>1 DEF Fetch
<1>3. CASE piece = <<>>
  <2>1. streaming_buf' = streaming_buf /\ dsp_next' = dsp_next
    BY <1>3, <1>2 DEF Fetch, BufferOK
  <2> QED  BY <2>1 DEF BufferOK
<1>4. CASE piece # <<>>
  <2>1. streaming_buf' = piece
    BY <1>4 DEF Fetch
  <2>2. dsp_next' \in 0 .. MaxUnits /\ got' + Len(piece) <= dsp_next'
    BY <1>1, <1>2 DEF BufferOK
  <2>3. \A i \in 1 .. Len(piece) : piece[i] = dsp_next' - Len(piece) + i
    BY <1>1, <1>2 DEF BufferOK
  <2> QED  BY <1>1, <2>1, <2>2, <2>3 DEF BufferOK
<1> QED  BY <1>3, <1>4

\* The reader gets the oldest pieces of a run that ends at what the DSP handed out.
LEMMA DeliverOK ==
    ASSUME NEW available \in Seq(1 .. MaxUnits), Len(available) <= Chunk,
           NEW n \in Nat, NEW last \in 0 .. MaxUnits, dsp_next' = last,
           got \in 0 .. MaxUnits, got + Len(available) <= last,
           \A i \in 1 .. Len(available) : available[i] = last - Len(available) + i,
           Deliver(available, n)
    PROVE  BufferOK' /\ reader' \in {"standby", "open"}
<1> DEFINE k == Lesser(n, Len(available))
<1>a. \A i \in 1 .. Len(available) : available[i] \in 1 .. MaxUnits
  OBVIOUS
<1>1. k \in 0 .. Len(available)
  BY DEF Lesser
<1>2. /\ streaming_buf' = SubSeq(available, k + 1, Len(available))
      /\ got' = IF k = 0 THEN got ELSE available[k]
      /\ reader' \in {"standby", "open"}
  BY DEF Deliver
<1> HIDE DEF k
<1>3. /\ streaming_buf' \in Seq(1 .. MaxUnits)
      /\ Len(streaming_buf') = Len(available) - k
      /\ \A i \in 1 .. Len(available) - k : streaming_buf'[i] = available[k + i]
  <2>1. /\ k \in Nat /\ Len(available) \in Nat /\ k <= Len(available)
        /\ k + 1 \in 1 .. Len(available) + 1
    BY <1>1
  <2>7. \A i \in k + 1 .. Len(available) : i \in 1 .. Len(available)
    BY <2>1
  <2>4. /\ k + 1 \in Int /\ Len(available) \in Int
        /\ \A i \in k + 1 .. Len(available) : available[i] \in 1 .. MaxUnits
    BY <1>a, <2>1, <2>7
  <2>2. /\ SubSeq(available, k + 1, Len(available)) \in Seq(1 .. MaxUnits)
        /\ Len(SubSeq(available, k + 1, Len(available))) =
               IF k + 1 <= Len(available) THEN Len(available) - (k + 1) + 1 ELSE 0
        /\ \A i \in 1 .. Len(available) - (k + 1) + 1 :
               SubSeq(available, k + 1, Len(available))[i] = available[k + 1 + i - 1]
    BY <2>4, SubSeqProperties, SMTT(20)
  <2>3. \A i \in 1 .. Len(available) - k : k + 1 + i - 1 = k + i
    BY <2>1
  <2>5. streaming_buf' = SubSeq(available, k + 1, Len(available))
    BY <1>2
  <2> QED  BY <2>1, <2>2, <2>3, <2>5
<1>4. got' \in 0 .. MaxUnits /\ got' + Len(streaming_buf') <= last
  <2>1. CASE k = 0
    BY <2>1, <1>2, <1>3
  <2>2. CASE k # 0
    <3>1. k \in 1 .. Len(available)
      BY <2>2, <1>1
    <3>2. got' = available[k]
      BY <2>2, <1>2
    <3>3. available[k] = last - Len(available) + k
      BY <3>1
    <3>4. available[k] \in 1 .. MaxUnits
      BY <1>a, <3>1
    <3> QED  BY <3>1, <3>2, <3>3, <3>4, <1>3
  <2> QED  BY <2>1, <2>2
<1>5. \A i \in 1 .. Len(streaming_buf') :
          streaming_buf'[i] = last - Len(streaming_buf') + i
  <2> SUFFICES ASSUME NEW i \in 1 .. Len(streaming_buf')
               PROVE  streaming_buf'[i] = last - Len(streaming_buf') + i
    OBVIOUS
  <2>1. Len(streaming_buf') = Len(available) - k /\ i \in 1 .. Len(available) - k
    BY <1>3
  <2>2. streaming_buf'[i] = available[k + i]
    BY <1>3, <2>1
  <2>3. k + i \in 1 .. Len(available)
    BY <1>1, <2>1
  <2>4. available[k + i] = last - Len(available) + (k + i)
    BY <2>3
  <2> QED  BY <1>1, <2>1, <2>2, <2>4
<1>6. Len(streaming_buf') <= Chunk
  BY <1>1, <1>3
<1> QED  BY <1>2, <1>3, <1>4, <1>5, <1>6 DEF BufferOK

LEMMA BufferStep == BufferOK /\ [Next]_vars => BufferOK'
<1> SUFFICES ASSUME BufferOK, [Next]_vars PROVE BufferOK'
  OBVIOUS
<1>u. CASE UNCHANGED power
  BY <1>u DEF power, BufferOK
<1>p. CASE \E on \in BOOLEAN : SetPower(on)
  BY <1>p, PowerOK
<1>1. ASSUME NEW c \in Clients, Call(c) \/ Join(c) \/ Joined(c)
      PROVE  UNCHANGED power \/ \E on \in BOOLEAN : SetPower(on)
  BY <1>1 DEF Call, Open, Close, Load, Start, Stop, Cancel, OnlyPower, Unload, Join,
              Joined
<1>2. ASSUME NEW t \in CallbackThreads, Finish(t)
      PROVE  BufferOK'
  BY <1>2, <1>u, <1>p, FetchOK DEF Finish
<1>3. ASSUME NEW t \in CallbackThreads, Hotword(t)
      PROVE  BufferOK'
  BY <1>3 DEF Hotword, BufferOK
<1>4. ASSUME NEW t \in CallbackThreads, CallbackStep(t) \/ PollFails(t),
             ~Finish(t), ~Hotword(t)
      PROVE  UNCHANGED power \/ \E on \in BOOLEAN : SetPower(on)
  BY <1>4 DEF CallbackStep, Begin, BeginFails, Exit, Poll, PollFails, Terminate,
              Ignore, CallbackReturns
<1>5. ASSUME NEW n \in 1 .. Chunk, ReadSamples(n)
      PROVE  BufferOK'
  <2> n \in Nat
    OBVIOUS
  <2>1. CASE Deliver(streaming_buf, n) /\ UNCHANGED dsp_next
    BY <2>1, DeliverOK DEF BufferOK
  <2>2. ASSUME streaming_buf = <<>>, NEW piece \in Fetched, Deliver(piece, n),
               dsp_next' = dsp_next + Len(piece)
        PROVE  BufferOK'
    <3>1. /\ piece \in Seq(1 .. MaxUnits) /\ Len(piece) <= Chunk
          /\ dsp_next + Len(piece) <= MaxUnits
          /\ \A i \in 1 .. Len(piece) : piece[i] = dsp_next + i
      BY FetchedPieces DEF BufferOK
    <3>2. /\ dsp_next + Len(piece) \in 0 .. MaxUnits
          /\ got \in 0 .. MaxUnits /\ got <= dsp_next
      BY <2>2, <3>1 DEF BufferOK
    <3>3. /\ got + Len(piece) <= dsp_next + Len(piece)
          /\ \A i \in 1 .. Len(piece) :
                piece[i] = (dsp_next + Len(piece)) - Len(piece) + i
      BY <3>1, <3>2 DEF BufferOK
    <3> QED  BY <2>2, <3>1, <3>2, <3>3, DeliverOK
  <2> QED  BY <1>5, <2>1, <2>2 DEF ReadSamples
<1>6. CASE Uevent \/ OpenForStreaming \/ InStandby
  BY <1>6, <1>u DEF Uevent, OpenForStreaming, InStandby
<1>7. CASE UNCHANGED vars
  BY <1>7, <1>u DEF vars
<1> QED  BY <1>u, <1>p, <1>1, <1>2, <1>3, <1>4, <1>5, <1>6, <1>7 DEF Next

-----------------------------------------------------------------------------
(* Types *)

\* All of TypeOK that BufferOK does not say.
OtherTypes ==
    /\ pc \in [Threads -> ClientLabels \cup CallbackLabels]
    /\ opened \in BOOLEAN /\ model_handle \in BOOLEAN
    /\ recognition_callback \in BOOLEAN /\ config \in Configs
    /\ callback_thread \in CallbackThreads /\ uncreated \in BOOLEAN
    /\ socks \in BOOLEAN /\ term \in BOOLEAN
    /\ uevents \in Seq({"HOTWORD", "other"})
    /\ dsp \in BOOLEAN /\ is_streaming \in BOOLEAN
    /\ reader \in {"standby", "open"}
    /\ events \in Nat
    /\ Labelled

LEMMA TypesSplit == OtherTypes /\ BufferOK => TypeOK
BY DEF TypeOK, OtherTypes, BufferOK

LEMMA TypesInit == Init => OtherTypes /\ BufferOK
<1> SUFFICES ASSUME Init PROVE OtherTypes /\ BufferOK
  OBVIOUS
<1>1. pc \in [Threads -> ClientLabels \cup CallbackLabels] /\ Labelled
  BY DEF Init, Threads, ClientLabels, CallbackLabels, Labelled
<1>2. BufferOK
  BY DEF Init, BufferOK
<1>3. <<>> \in Seq({"HOTWORD", "other"})
  OBVIOUS
<1> QED  BY <1>1, <1>2, <1>3 DEF Init, OtherTypes, Configs

LEMMA TypesStep == OtherTypes /\ Served /\ [Next]_vars => OtherTypes'
<1> SUFFICES ASSUME OtherTypes, Served, [Next]_vars PROVE OtherTypes'
  OBVIOUS
<1> USE DEF session, creation, thread, power, Goto
<1>p. /\ pc \in [Threads -> ClientLabels \cup CallbackLabels] /\ Labelled
      /\ \A t \in CallbackThreads : t \notin Clients
      /\ Threads = Clients \cup CallbackThreads
      /\ <<>> \in Seq({"HOTWORD", "other"})
  BY DEF OtherTypes, Threads
<1>1. ASSUME NEW c \in Clients, Call(c)
      PROVE  OtherTypes'
  <2>1. CASE Open(c) \/ Close(c) \/ Load(c)
    BY <2>1, <1>p DEF Open, Close, Load, SetPower, OtherTypes, Labelled
  <2>2. ASSUME NEW wanted \in Configs \ {"NULL"}, Start(c, wanted)
        PROVE  OtherTypes'
    <3>1. CASE UNCHANGED <<pc, callback_thread>> /\ uncreated' = TRUE
      BY <2>2, <3>1, <1>p DEF Start, SetPower, OtherTypes, Labelled
    <3>2. ASSUME NEW t \in CallbackThreads, callback_thread' = t, Goto(t, "begin"),
                 uncreated' = FALSE
          PROVE  OtherTypes'
      <4>1. pc' \in [Threads -> ClientLabels \cup CallbackLabels] /\ Labelled'
        BY <3>2, <1>p DEF Labelled, CallbackLabels
      <4> QED  BY <2>2, <3>2, <4>1 DEF Start, SetPower, OtherTypes
    <3> QED  BY <2>2, <3>1, <3>2 DEF Start, CreateThread
  <2>3. ASSUME Cancel(c) PROVE pc' \in [Threads -> ClientLabels \cup CallbackLabels]
                               /\ Labelled' /\ config' \in Configs /\ term' \in BOOLEAN
    BY <2>3, <1>p DEF Cancel, Labelled, ClientLabels, Configs, OtherTypes
  <2>4. CASE Stop(c)
    <3>1. CASE Cancel(c) /\ UNCHANGED model_handle
      BY <2>4, <3>1, <2>3 DEF Stop, Cancel, OtherTypes
    <3>2. CASE OnlyPower(c)
      BY <2>4, <3>2, <1>p DEF Stop, OnlyPower, SetPower, OtherTypes, Labelled
    <3> QED  BY <2>4, <3>1, <3>2 DEF Stop
  <2>5. CASE Unload(c)
    <3>1. CASE Cancel(c)
      BY <2>5, <3>1, <2>3 DEF Unload, Cancel, OtherTypes
    <3>2. CASE ~Cancel(c)
      BY <2>5, <3>2, <1>p DEF Unload, SetPower, OtherTypes, Labelled, Configs
    <3> QED  BY <3>1, <3>2
  <2> QED  BY <1>1, <2>1, <2>2, <2>4, <2>5 DEF Call
<1>2. ASSUME NEW c \in Clients, Join(c) \/ Joined(c)
      PROVE  OtherTypes'
  <2>1. callback_thread \in CallbackThreads
    BY DEF OtherTypes
  <2>2. CASE Join(c)
    <3>1. pc' \in [Threads -> ClientLabels \cup CallbackLabels] /\ Labelled'
      BY <2>1, <2>2, <1>p DEF Join, Labelled, ClientLabels, CallbackLabels
    <3> QED  BY <2>2, <3>1 DEF Join, OtherTypes
  <2>3. CASE Joined(c)
    BY <2>3, <1>p DEF Joined, SetPower, OtherTypes, Labelled, ClientLabels
  <2> QED  BY <1>2, <2>2, <2>3
<1>3. ASSUME NEW t \in CallbackThreads, CallbackStep(t) \/ PollFails(t)
      PROVE  OtherTypes'
  <2>1. pc' \in [Threads -> ClientLabels \cup CallbackLabels] /\ Labelled'
    BY <1>3, <1>p DEF CallbackStep, PollFails, Begin, BeginFails, Exit, Leave, Poll,
       Terminate, Ignore, Hotword, CallbackReturns, Finish, Labelled, CallbackLabels
  <2>2. pc[t] = "uevent" => Tail(uevents) \in Seq({"HOTWORD", "other"})
    BY HeadTailProperties DEF OtherTypes, Served
  <2>3. CASE Begin(t) \/ Poll(t) \/ PollFails(t) \/ CallbackReturns(t)
    <3>1. CASE Begin(t)
      BY <2>1, <3>1, <1>p DEF Begin, SetPower, OtherTypes
    <3>2. CASE Poll(t) \/ PollFails(t) \/ CallbackReturns(t)
      BY <2>1, <3>2, <1>p DEF Poll, PollFails, CallbackReturns, OtherTypes
    <3> QED BY <2>3, <3>1, <3>2
  <2>4. CASE Ignore(t) \/ Hotword(t)
    <3>1. uevents' \in Seq({"HOTWORD", "other"}) /\ events' \in Nat
      <4>1. events \in Nat /\ pc[t] = "uevent" /\ uevents' = Tail(uevents)
        BY <2>4 DEF Ignore, Hotword, OtherTypes
      <4>2. events' \in {events, events + 1}
        BY <2>4 DEF Ignore, Hotword
      <4> QED  BY <2>2, <4>1, <4>2
    <3> QED  BY <2>1, <2>4, <3>1 DEF Ignore, Hotword, OtherTypes
  <2>5. CASE BeginFails(t) \/ Terminate(t)
    BY <2>1, <2>5, <1>p DEF BeginFails, Terminate, Exit, Leave, SetPower, OtherTypes
  <2>6. CASE Finish(t)
    BY <2>1, <2>6, <1>p DEF Finish, Leave, SetPower, OtherTypes
  <2> QED  BY <1>3, <2>3, <2>4, <2>5, <2>6 DEF CallbackStep
<1>4. CASE Uevent
  BY <1>4, <1>p DEF Uevent, OtherTypes, Labelled
<1>5. CASE OpenForStreaming \/ InStandby
  BY <1>5, <1>p DEF OpenForStreaming, InStandby, OtherTypes, Labelled
<1>6. ASSUME NEW n \in 1 .. Chunk, ReadSamples(n)
      PROVE  OtherTypes'
  <2>1. reader' \in {"standby", "open"}
    BY <1>6 DEF ReadSamples, Deliver
  <2> QED  BY <1>6, <2>1, <1>p DEF ReadSamples, OtherTypes, Labelled
<1>7. CASE UNCHANGED vars
  BY <1>7, <1>p DEF vars, OtherTypes, Labelled
<1> QED  BY <1>1, <1>2, <1>3, <1>4, <1>5, <1>6, <1>7 DEF Next

-----------------------------------------------------------------------------
(* The recognition and its thread *)

LEMMA ServedInit == Init => Served
BY DEF Init, Served, Live, Joining, Threads

\* Whoever is idle, the one client is: nobody is stopping, and without a
\* recognition no thread lives.
LEMMA ClientIsIdle ==
    ASSUME NEW c \in Clients, pc[c] = "idle", Served
    PROVE  /\ ~Joining /\ ~Stopping
           /\ ~recognition_callback => \A t \in CallbackThreads : ~Live(t)
BY DEF Joining, Stopping, Served

\* What a step of a client leaves true as long as it moves no thread.
LEMMA ServedByClient ==
    ASSUME OtherTypes, Served, NEW c \in Clients, Call(c) \/ Join(c) \/ Joined(c)
    PROVE  Served'
<1> USE DEF session, creation, thread, power, Goto
<1>p. /\ pc \in [Threads -> ClientLabels \cup CallbackLabels]
      /\ \A t \in CallbackThreads : t \notin Clients
      /\ Threads = Clients \cup CallbackThreads
      /\ callback_thread \in CallbackThreads
      /\ \A d \in Clients : d = c
  BY DEF OtherTypes, Threads
<1>0. ASSUME pc[c] = "idle"
      PROVE  /\ ~Joining /\ ~Stopping
             /\ ~recognition_callback => \A t \in CallbackThreads : ~Live(t)
  BY <1>0, ClientIsIdle
\* A step that moves no thread and keeps what a recognition needs.
<1>s. ASSUME UNCHANGED <<pc, recognition_callback, creation, uevents>>,
             recognition_callback =>
                 opened' /\ model_handle' /\ UNCHANGED <<config, dsp, socks>>,
             UNCHANGED config \/ config' = "NULL"
      PROVE  Served'
  BY <1>s DEF Served, Live, Listening, Joining, Stopping
<1>1. CASE Open(c) \/ Close(c) \/ Load(c)
  BY <1>1, <1>s DEF Open, Close, Load, MayClose, Served
<1>2. ASSUME NEW wanted \in Configs \ {"NULL"}, Start(c, wanted)
      PROVE  Served'
  <2>0. /\ ~Joining /\ ~Stopping
        /\ \A u \in CallbackThreads : ~Live(u)
        /\ opened' /\ model_handle' /\ config' # "NULL" /\ recognition_callback'
    BY <1>0, <1>2 DEF Start
  <2>1. CASE UNCHANGED <<pc, callback_thread>> /\ uncreated'
    <3>1. /\ ~Joining' /\ ~Stopping'
          /\ \A u \in CallbackThreads : ~Live(u)' /\ ~Listening(u)'
      BY <2>0, <2>1 DEF Joining, Stopping, Live, Listening
    <3>2. \A u \in CallbackThreads : pc'[u] # "uevent"
      BY <2>0, <2>1 DEF Live
    <3> QED  BY <2>0, <2>1, <3>1, <3>2, <1>p DEF Served
  <2>2. ASSUME NEW t \in CallbackThreads, callback_thread' = t, Goto(t, "begin")
        PROVE  Served'
    <3>2. /\ \A u \in CallbackThreads : pc'[u] = IF u = t THEN "begin" ELSE pc[u]
          /\ \A d \in Clients : pc'[d] = pc[d]
      BY <2>2, <1>p
    <3>3. ~Joining' /\ ~Stopping'
      BY <3>2, <2>0 DEF Joining, Stopping
    <3>4. \A u \in CallbackThreads : Live(u)' => u = t
      BY <3>2, <2>0 DEF Live
    <3>5. Live(t)' /\ ~Listening(t)'
      BY <3>2 DEF Live, Listening
    <3>6. \A u \in CallbackThreads : pc'[u] # "uevent"
      BY <3>2, <2>0 DEF Live
    <3> QED  BY <2>0, <2>2, <3>3, <3>4, <3>5, <3>6 DEF Served
  <2> QED  BY <1>2, <2>1, <2>2 DEF Start, CreateThread
<1>3. ASSUME Cancel(c), recognition_callback, UNCHANGED uevents
      PROVE  Served'
  <2>1. /\ \A u \in CallbackThreads : pc'[u] = pc[u]
        /\ pc'[c] = "join"
    BY <1>3, <1>p DEF Cancel
  <2> QED  BY <2>1, <1>3 DEF Cancel, Served, Live, Joining
<1>4. CASE Stop(c)
  <2>1. CASE recognition_callback
    BY <1>4, <2>1, <1>3 DEF Stop, Cancel
  <2>2. CASE ~recognition_callback
    BY <1>4, <2>2, <1>s DEF Stop, OnlyPower
  <2> QED  BY <2>1, <2>2
<1>5. CASE Unload(c)
  <2>1. CASE recognition_callback
    BY <1>5, <2>1, <1>3 DEF Unload, Cancel
  <2>2. CASE ~recognition_callback
    BY <1>5, <2>2, <1>s DEF Unload
  <2> QED  BY <2>1, <2>2
<1>6. CASE Join(c)
  <2>1. \A u \in CallbackThreads : pc'[u] = IF u = callback_thread THEN "none" ELSE pc[u]
    BY <1>6, <1>p DEF Join
  <2>2. pc'[c] = "joined" /\ ~recognition_callback
    BY <1>6, <1>p DEF Join, Served, Stopping
  <2>3. ~Joining'
    BY <2>2, <1>p DEF Joining
  <2>4. \A u \in CallbackThreads : ~Live(u)'
    BY <2>1, <1>6 DEF Join, Served, Live
  <2> QED  BY <2>1, <2>2, <2>3, <2>4, <1>6 DEF Join, Served, Live
<1>7. CASE Joined(c)
  <2>1. /\ \A u \in CallbackThreads : pc'[u] = pc[u]
        /\ pc'[c] = "idle" /\ ~recognition_callback
    BY <1>7, <1>p DEF Joined, Served, Stopping
  <2>2. ~Joining /\ ~Joining'
    BY <2>1, <1>7, <1>p DEF Joined, Joining
  <2> QED  BY <2>1, <2>2, <1>7 DEF Joined, Served, Live
<1> QED  BY <1>1, <1>2, <1>4, <1>5, <1>6, <1>7 DEF Call

LEMMA ServedByThread ==
    ASSUME OtherTypes, Served, NEW t \in CallbackThreads, CallbackStep(t) \/ PollFails(t)
    PROVE  Served'
<1> USE DEF session, creation, thread, power, Goto
<1>p. /\ pc \in [Threads -> ClientLabels \cup CallbackLabels]
      /\ \A d \in Clients : d # t
      /\ Threads = Clients \cup CallbackThreads
      /\ callback_thread \in CallbackThreads
  BY DEF OtherTypes, Threads
<1>0. /\ pc[t] \in {"begin", "poll", "uevent", "term", "callback", "returned"}
      /\ t = callback_thread
      /\ recognition_callback \/ Joining
      /\ \A u \in CallbackThreads : u # t => ~Live(u)
  <2>1. pc[t] \in {"begin", "poll", "uevent", "term", "callback", "returned"}
    BY DEF CallbackStep, PollFails, Begin, BeginFails, Exit, Poll, Terminate, Ignore,
           Hotword, CallbackReturns, Finish
  <2>2. Live(t)
    BY <2>1 DEF Live
  <2> QED  BY <2>1, <2>2 DEF Served
<1>1. /\ \A d \in Clients : pc'[d] = pc[d]
      /\ \A u \in CallbackThreads : u # t => pc'[u] = pc[u]
      /\ pc'[t] \in CallbackLabels
      /\ callback_thread' = callback_thread
      /\ UNCHANGED <<opened, model_handle, config>>
  BY <1>p DEF CallbackStep, PollFails, Begin, BeginFails, Exit, Leave, Poll,
     Terminate, Ignore, Hotword, CallbackReturns, Finish, CallbackLabels
<1>2. Joining' = Joining /\ Stopping' = Stopping
  BY <1>1 DEF Joining, Stopping
<1>3. CASE Leave(t)
  <2>1. pc'[t] = "exited" /\ ~recognition_callback'
    BY <1>3, <1>p DEF Leave
  <2> QED  BY <2>1, <1>0, <1>1, <1>2 DEF Served, Live
<1>4. CASE Begin(t)
  <2>1. /\ pc'[t] = "poll" /\ dsp' /\ socks'
        /\ recognition_callback /\ recognition_callback'
    BY <1>4, <1>p DEF Begin, SetPower
  <2> QED  BY <2>1, <1>0, <1>1, <1>2 DEF Served, Live
<1>5. CASE Poll(t) \/ PollFails(t) \/ Ignore(t)
  <2>1. /\ pc[t] \in {"poll", "uevent"} /\ pc'[t] \in {"poll", "uevent", "term"}
        /\ pc'[t] = "uevent" => uevents' # <<>>
        /\ UNCHANGED <<recognition_callback, dsp, socks>>
    BY <1>5, <1>p DEF Poll, PollFails, Ignore
  <2> QED  BY <2>1, <1>0, <1>1, <1>2 DEF Served, Live, Listening
<1>6. CASE Hotword(t) \/ CallbackReturns(t)
  <2>1. /\ pc'[t] \in {"callback", "returned"}
        /\ UNCHANGED <<recognition_callback, dsp, socks>>
    BY <1>6, <1>p DEF Hotword, CallbackReturns
  <2> QED  BY <2>1, <1>0, <1>1, <1>2 DEF Served, Live, Listening
<1> QED  BY <1>3, <1>4, <1>5, <1>6 DEF CallbackStep, BeginFails, Terminate, Exit, Finish

LEMMA ServedStep == OtherTypes /\ Served /\ [Next]_vars => Served'
<1> SUFFICES ASSUME OtherTypes, Served, [Next]_vars PROVE Served'
  OBVIOUS
<1> USE DEF session, creation, thread, power
<1>1. CASE Uevent
  <2>1. uevents' # <<>>
    BY <1>1 DEF Uevent, OtherTypes
  <2> QED  BY <2>1, <1>1 DEF Uevent, Served, Live, Listening, Joining, Stopping
<1>2. CASE OpenForStreaming \/ InStandby \/ UNCHANGED vars
  BY <1>2 DEF OpenForStreaming, InStandby, vars, Served, Live, Listening, Joining, Stopping
<1>3. ASSUME NEW n \in 1 .. Chunk, ReadSamples(n)
      PROVE  Served'
  BY <1>3 DEF ReadSamples, Served, Live, Listening, Joining, Stopping
<1> QED  BY <1>1, <1>2, <1>3, ServedByClient, ServedByThread DEF Next

-----------------------------------------------------------------------------
(* Events *)

LEMMA QuietStep == OtherTypes /\ Served /\ Quiet /\ [Next]_vars => Quiet'
<1> SUFFICES ASSUME OtherTypes, Served, Quiet, [Next]_vars PROVE Quiet'
  OBVIOUS
<1> USE DEF session, creation, thread, power, Goto
<1>p. /\ pc \in [Threads -> ClientLabels \cup CallbackLabels]
      /\ \A d \in Clients : d \notin CallbackThreads
      /\ Threads = Clients \cup CallbackThreads
      /\ callback_thread \in CallbackThreads /\ events \in Nat
  BY DEF OtherTypes, Threads
\* A step that sends no event, registers no recognition and starts no thread.
<1>s. ASSUME UNCHANGED events,
             recognition_callback' => recognition_callback,
             \A u \in CallbackThreads :
                 pc'[u] \in {"begin", "poll", "uevent", "term"} =>
                     pc[u] \in {"begin", "poll", "uevent", "term"}
      PROVE  Quiet'
  BY <1>s DEF Quiet
<1>1. ASSUME NEW c \in Clients, Call(c) \/ Join(c) \/ Joined(c),
             ~\E wanted \in Configs \ {"NULL"} : Start(c, wanted)
      PROVE  Quiet'
  <2>0. UNCHANGED events /\ (UNCHANGED recognition_callback \/ recognition_callback' = FALSE)
    BY <1>1 DEF Call, Open, Close, Load, Stop, Cancel, OnlyPower, Unload, Join, Joined
  <2>1. UNCHANGED events /\ (recognition_callback' => recognition_callback)
    BY <2>0
  <2>2. \A u \in CallbackThreads : pc'[u] = pc[u] \/ pc'[u] = "none"
    BY <1>1, <1>p DEF Call, Open, Close, Load, Stop, Cancel, OnlyPower, Unload, Join, Joined
  <2> QED  BY <2>1, <2>2, <1>s
<1>2. ASSUME NEW c \in Clients, NEW wanted \in Configs \ {"NULL"}, Start(c, wanted)
      PROVE  Quiet'
  BY <1>2 DEF Start, CreateThread, Quiet
<1>3. ASSUME NEW t \in CallbackThreads, Hotword(t)
      PROVE  Quiet'
  <2>1. events = 0 /\ Live(t)
    BY <1>3 DEF Hotword, Quiet, Live
  <2>2. \A u \in CallbackThreads : u # t => ~Live(u)
    BY <2>1 DEF Served
  <2>3. /\ pc'[t] = "callback" /\ events' = 1
        /\ \A u \in CallbackThreads : u # t => pc'[u] = pc[u]
    BY <1>3, <1>p, <2>1 DEF Hotword
  <2> QED  BY <2>2, <2>3 DEF Quiet, Live
<1>4. ASSUME NEW t \in CallbackThreads, CallbackStep(t) \/ PollFails(t), ~Hotword(t)
      PROVE  Quiet'
  <2>0. UNCHANGED events /\ (UNCHANGED recognition_callback \/ recognition_callback' = FALSE)
    BY <1>4 DEF CallbackStep, PollFails, Begin, BeginFails, Exit, Leave, Poll,
       Terminate, Ignore, CallbackReturns, Finish
  <2>1. UNCHANGED events /\ (recognition_callback' => recognition_callback)
    BY <2>0
  <2>2. \A u \in CallbackThreads : u # t => pc'[u] = pc[u]
    BY <1>4, <1>p DEF CallbackStep, PollFails, Begin, BeginFails, Exit, Leave, Poll,
       Terminate, Ignore, CallbackReturns, Finish
  <2>3. \/ pc[t] \in {"begin", "poll", "uevent", "term"}
        \/ pc'[t] \in {"returned", "exited"}
    BY <1>4, <1>p DEF CallbackStep, PollFails, Begin, BeginFails, Exit, Leave, Poll,
       Terminate, Ignore, CallbackReturns, Finish
  <2> QED  BY <2>1, <2>2, <2>3, <1>s
<1>5. ASSUME NEW n \in 1 .. Chunk, ReadSamples(n)
      PROVE  Quiet'
  BY <1>5, <1>s DEF ReadSamples
<1>6. CASE Uevent \/ OpenForStreaming \/ InStandby \/ UNCHANGED vars
  BY <1>6, <1>s DEF Uevent, OpenForStreaming, InStandby, vars
<1> QED  BY <1>1, <1>2, <1>3, <1>4, <1>5, <1>6 DEF Next

-----------------------------------------------------------------------------
(* Streaming *)

LEMMA SessionStep ==
    OtherTypes /\ Served /\ Session /\ BufferOK /\ [Next]_vars => Session'
<1> SUFFICES ASSUME OtherTypes, Served, Session, BufferOK, [Next]_vars PROVE Session'
  OBVIOUS
<1> USE DEF session, creation, thread, Goto
<1>p. /\ pc \in [Threads -> ClientLabels \cup CallbackLabels]
      /\ \A d \in Clients : d \notin CallbackThreads
      /\ Threads = Clients \cup CallbackThreads
      /\ callback_thread \in CallbackThreads
  BY DEF OtherTypes, Threads
\* No thread that will fetch.
<1>n. ASSUME \A u \in CallbackThreads :
                 pc'[u] \in {"callback", "returned"} => config' = "NULL",
             \/ SetPower(TRUE) \/ SetPower(FALSE)
             \/ UNCHANGED <<dsp, is_streaming, streaming_buf>>,
             opened => opened' \/ SetPower(FALSE)
      PROVE  Session'
  BY <1>n DEF SetPower, Session
<1>s. ASSUME UNCHANGED <<dsp, is_streaming, streaming_buf>>,
             opened => opened',
             config' = config \/ config' = "NULL",
             \A u \in CallbackThreads :
                 pc'[u] \in {"callback", "returned"} =>
                     pc[u] \in {"callback", "returned"}
      PROVE  Session'
  BY <1>s DEF Session
<1>c. ASSUME NEW c \in Clients, Call(c) \/ Join(c) \/ Joined(c)
      PROVE  Session'
  <2>i. ASSUME pc[c] = "idle", ~recognition_callback
        PROVE  \A u \in CallbackThreads : pc[u] \notin {"callback", "returned"}
    BY <2>i, ClientIsIdle DEF Live
  <2>1. CASE Open(c) \/ Close(c)
    <3>1. ~recognition_callback /\ pc[c] = "idle" /\ pc' = pc
      BY <2>1 DEF Open, Close, MayClose, Served
    <3> QED  BY <2>1, <3>1, <2>i, <1>n DEF Open, Close
  <2>2. CASE Load(c)
    BY <2>2, <1>s DEF Load, power
  <2>3. ASSUME NEW wanted \in Configs \ {"NULL"}, Start(c, wanted)
        PROVE  Session'
    <3>1. \A u \in CallbackThreads : pc'[u] \notin {"callback", "returned"}
      BY <2>3, <2>i, <1>p DEF Start, CreateThread
    <3> QED  BY <2>3, <3>1, <1>n DEF Start
  <2>4. CASE Cancel(c)
    <3>1. \A u \in CallbackThreads : pc'[u] = pc[u]
      BY <2>4, <1>p DEF Cancel
    <3> QED  BY <2>4, <3>1, <1>s DEF Cancel, power
  <2>5. CASE (Stop(c) \/ Unload(c)) /\ ~Cancel(c)
    <3>1. ~recognition_callback /\ pc[c] = "idle" /\ pc' = pc /\ SetPower(FALSE)
      BY <2>5 DEF Stop, Unload, OnlyPower
    <3> QED  BY <3>1, <2>i, <1>n
  <2>6. CASE Join(c)
    <3>1. \A u \in CallbackThreads : pc'[u] = pc[u] \/ pc'[u] = "none"
      BY <2>6, <1>p DEF Join
    <3> QED  BY <2>6, <3>1, <1>s DEF Join, power
  <2>7. CASE Joined(c)
    <3>1. ~recognition_callback /\ ~Joining
      BY <2>7, <1>p DEF Joined, Served, Stopping, Joining
    <3>2. \A u \in CallbackThreads : pc'[u] \notin {"callback", "returned"}
      BY <2>7, <3>1, <1>p DEF Joined, Served, Live
    <3> QED  BY <2>7, <3>2, <1>n DEF Joined
  <2> QED  BY <1>c, <2>1, <2>2, <2>3, <2>4, <2>5, <2>6, <2>7 DEF Call
<1>t. ASSUME NEW t \in CallbackThreads, CallbackStep(t) \/ PollFails(t)
      PROVE  Session'
  <2>0. /\ \A u \in CallbackThreads : u # t => pc'[u] = pc[u]
        /\ Live(t) /\ \A u \in CallbackThreads : u # t => ~Live(u)
        /\ UNCHANGED <<opened, config>>
    <3>1. Live(t)
      BY <1>t DEF CallbackStep, PollFails, Begin, BeginFails, Exit, Poll, Terminate,
         Ignore, Hotword, CallbackReturns, Finish, Live
    <3>2. /\ \A u \in CallbackThreads : u # t => pc'[u] = pc[u]
          /\ UNCHANGED <<opened, config>>
      BY <1>t, <1>p DEF CallbackStep, PollFails, Begin, BeginFails, Exit, Leave, Poll,
         Terminate, Ignore, Hotword, CallbackReturns, Finish
    <3> QED  BY <3>1, <3>2 DEF Served
  <2>1. CASE Begin(t) \/ BeginFails(t) \/ Terminate(t)
    <3>1. pc'[t] \in {"poll", "exited"}
      BY <2>1, <1>p DEF Begin, BeginFails, Terminate, Exit, Leave
    <3>2. \A u \in CallbackThreads : pc'[u] \notin {"callback", "returned"}
      BY <2>0, <3>1 DEF Live
    <3> QED  BY <2>1, <2>0, <3>2, <1>n DEF Begin, BeginFails, Terminate, Exit, power
  <2>2. CASE Poll(t) \/ PollFails(t) \/ Ignore(t) \/ CallbackReturns(t)
    <3>1. \A u \in CallbackThreads :
              pc'[u] \in {"callback", "returned"} => pc[u] \in {"callback", "returned"}
      BY <2>2, <1>p DEF Poll, PollFails, Ignore, CallbackReturns
    <3> QED  BY <2>2, <2>0, <3>1, <1>s DEF Poll, PollFails, Ignore, CallbackReturns, power
  <2>3. CASE Hotword(t)
    <3>1. dsp /\ opened
      BY <2>3 DEF Hotword, Served, Live, Listening
    <3> QED  BY <2>3, <2>0, <3>1 DEF Hotword, Session
  <2>4. CASE Finish(t)
    <3>1. \A u \in CallbackThreads : pc'[u] \notin {"callback", "returned"}
      BY <2>4, <2>0, <1>p DEF Finish, Leave, Live
    <3>2. CASE config = "capture" /\ UNCHANGED <<dsp, is_streaming, got>>
      <4>1. is_streaming
        BY <2>4, <3>2 DEF Finish, Session
      <4> QED  BY <2>0, <3>1, <3>2, <4>1 DEF Session
    <3>3. CASE SetPower(FALSE) \/ UNCHANGED power
      BY <2>0, <3>1, <3>3, <1>n DEF power
    <3> QED  BY <2>4, <3>2, <3>3 DEF Finish
  <2> QED  BY <1>t, <2>1, <2>2, <2>3, <2>4 DEF CallbackStep
<1>r. ASSUME NEW n \in 1 .. Chunk, ReadSamples(n)
      PROVE  Session'
  <2>1. UNCHANGED <<pc, opened, config, dsp, is_streaming>> /\ is_streaming
    BY <1>r DEF ReadSamples
  <2> QED  BY <2>1 DEF Session
<1>o. CASE Uevent \/ OpenForStreaming \/ InStandby \/ UNCHANGED vars
  BY <1>o, <1>s DEF Uevent, OpenForStreaming, InStandby, vars, power
<1> QED  BY <1>c, <1>t, <1>r, <1>o DEF Next

-----------------------------------------------------------------------------
(* Theorems *)

LEMMA InvInit == Init => OtherTypes /\ BufferOK /\ Served /\ Quiet /\ Session
<1> SUFFICES ASSUME Init PROVE Quiet /\ Session
  BY TypesInit, ServedInit
<1>1. Quiet
  BY DEF Init, Quiet
<1>2. \A t \in CallbackThreads : pc[t] = "none"
  BY DEF Init, Threads
<1> QED  BY <1>1, <1>2 DEF Init, Session

LEMMA Invariance ==
    Spec => [](OtherTypes /\ BufferOK /\ Served /\ Quiet /\ Session)
<1>1. OtherTypes /\ BufferOK /\ Served /\ Quiet /\ Session /\ [Next]_vars
        => (OtherTypes /\ BufferOK /\ Served /\ Quiet /\ Session)'
  BY TypesStep, BufferStep, ServedStep, QuietStep, SessionStep
<1> QED  BY InvInit, <1>1, PTL DEF Spec

\* Every variable keeps its type, for any number of threads and pieces: the buffer
\* never holds more than one read of the DSP.
THEOREM TypeCorrect == Spec => []TypeOK
BY TypesSplit, Invariance, PTL

\* A recognition that was accepted is served by the one thread a stop would join,
\* whatever is started, stopped, unloaded and closed, and whatever I/O fails,
\* unless the start could not create its thread, whose result it ignores (480).
THEOREM ServedCorrect == Spec => []RecognitionIsServed
<1>1. Served => RecognitionIsServed
  BY DEF Served, RecognitionIsServed
<1> QED  BY <1>1, Invariance, PTL

\* One event at most for a start, and no callback once a stop has returned.
THEOREM QuietCorrect == Spec => []QuietAfterStop
<1>1. Quiet /\ Served => QuietAfterStop
  BY DEF Quiet, Served, QuietAfterStop, Live, Joining, Stopping
<1> QED  BY <1>1, Invariance, PTL

\* What can be streamed is of this session, consecutive and new to the reader.
THEOREM StreamCorrect == Spec => []StreamInOrder
<1>1. Session /\ BufferOK => StreamInOrder
  BY DEF Session, BufferOK, StreamInOrder
<1> QED  BY <1>1, Invariance, PTL
=============================================================================
