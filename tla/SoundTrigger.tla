----------------------------- MODULE SoundTrigger -----------------------------
(***************************************************************************)
(* The sound trigger HAL (audio/soundtrigger/sound_trigger_hw.c): the      *)
(* calls of the framework, the callback thread that waits for the DSP to   *)
(* hear the hotword, and the input stream of the audio HAL that streams    *)
(* what the DSP recorded.                                                  *)
(*                                                                         *)
(* All of the state is guarded by stdev->lock, and no step below keeps the *)
(* lock: a step is one locked section, or something done without the lock  *)
(* (poll, the callback into the framework, pthread_join).                  *)
(***************************************************************************)
EXTENDS Naturals, Sequences

CONSTANTS Clients,         \* threads of the framework
          CallbackThreads, \* identities pthread_create can give the thread
          IoFails,         \* pthread_create, the sockets and poll may fail
          MaxUevents,      \* bound: uevents pending on the thread's socket
          MaxUnits,        \* bound: pieces of audio the DSP hands out a session
          Chunk            \* pieces of audio one read of the DSP returns at most

Threads == Clients \cup CallbackThreads

\* The framework serializes its calls: one client.
ASSUME SoundTriggerAssumption ==
    /\ \A c, d \in Clients : c = d
    /\ Clients \cap CallbackThreads = {}
    /\ CallbackThreads # {}
    /\ IoFails \in BOOLEAN
    /\ MaxUevents \in Nat /\ MaxUnits \in Nat /\ Chunk \in Nat \ {0}

VARIABLES
    pc,                   \* [Threads -> label]
    opened,
    model_handle,         \* a sound model is loaded
    recognition_callback, \* is not NULL
    config,               \* whether a capture was requested, or "NULL"
    callback_thread,
    uncreated,            \* history: the last pthread_create failed
    socks,                \* send_sock and term_sock are a pair
    term,                 \* "T" was written to send_sock
    uevents,              \* what the thread's uevent socket holds
    dsp,                  \* the DSP has power
    is_streaming,
    streaming_buf,        \* the pieces between streaming_buf_read and _len
    dsp_next,             \* pieces of audio the DSP handed out this session
    got,                  \* the last piece the reader was given this session
    reader,               \* the hotword input stream of the audio HAL
    events                \* recognition events sent since the last start

session == <<opened, model_handle, recognition_callback, config>>
creation == <<callback_thread, uncreated>>
thread  == <<creation, socks, term, uevents>>
power   == <<dsp, is_streaming, streaming_buf, dsp_next, got>>
vars    == <<pc, session, thread, power, reader, events>>

Configs        == {"NULL", "plain", "capture"}
ClientLabels   == {"idle", "join", "joined"}
CallbackLabels == {"none", "begin", "poll", "uevent", "term", "callback",
                   "returned", "exited"}

Init ==
    /\ pc = [t \in Threads |-> IF t \in Clients THEN "idle" ELSE "none"]
    /\ opened = FALSE /\ model_handle = FALSE
    /\ recognition_callback = FALSE /\ config = "NULL"
    /\ callback_thread \in CallbackThreads /\ uncreated = FALSE
    /\ socks = FALSE /\ term = FALSE /\ uevents = <<>>
    /\ dsp = FALSE /\ is_streaming = FALSE /\ streaming_buf = <<>>
    /\ dsp_next = 0 /\ got = 0
    /\ reader = "standby" /\ events = 0

-----------------------------------------------------------------------------
(* The DSP and its buffer.                                                 *)

Goto(t, label) == pc' = [pc EXCEPT ![t] = label]

\* Fault: what is left of the last session is kept.
SetPowerOnly(on) ==
    /\ dsp' = on /\ dsp_next' = 0 /\ got' = 0
    /\ UNCHANGED <<is_streaming, streaming_buf>>

\* stdev_dsp_set_power: a new session of the DSP, with nothing to stream yet.
SetPower(on) ==
    /\ dsp' = on /\ is_streaming' = FALSE /\ streaming_buf' = <<>>
    /\ dsp_next' = 0 /\ got' = 0

\* The pieces fetch_streaming_buffer can bring: none when the DSP has none in
\* time or the ioctl fails, and then the buffer is left alone.
Fetched == {<<>>} \cup {[i \in 1 .. k |-> dsp_next + i] :
                            k \in {j \in 1 .. Chunk : dsp_next + j <= MaxUnits}}

\* A fetch that succeeds overwrites the buffer.
Fetch(piece) ==
    /\ streaming_buf' = IF piece = <<>> THEN streaming_buf ELSE piece
    /\ dsp_next' = dsp_next + Len(piece)

\* Who can still hear the DSP: the uevent socket is open.
Listening(t) == pc[t] \in {"poll", "uevent", "term"}

Heard == \E i \in 1 .. Len(uevents) : uevents[i] = "HOTWORD"

-----------------------------------------------------------------------------
(* Calls of the framework.                                                 *)

Open(c) ==
    /\ pc[c] = "idle" /\ ~opened
    /\ opened' = TRUE
    /\ SetPower(FALSE)
    /\ socks' = FALSE
    /\ UNCHANGED <<pc, model_handle, recognition_callback, config,
                   creation, term, uevents, reader, events>>

\* The framework unloads its model before it closes the device.
MayClose == ~model_handle

Close(c) ==
    /\ pc[c] = "idle" /\ opened /\ MayClose
    /\ opened' = FALSE /\ model_handle' = FALSE
    /\ SetPower(FALSE)
    /\ socks' = FALSE /\ term' = FALSE
    /\ UNCHANGED <<pc, recognition_callback, config, creation, uevents,
                   reader, events>>

Load(c) ==
    /\ pc[c] = "idle" /\ opened /\ ~model_handle
    /\ model_handle' = TRUE
    /\ UNCHANGED <<pc, opened, recognition_callback, config, thread, power,
                   reader, events>>

\* The result of pthread_create is not looked at: when it fails, the id of an
\* earlier thread stays and the start succeeds all the same.
CreateThread ==
    \/ \E t \in CallbackThreads :
          /\ pc[t] \in {"none", "exited"}
          /\ callback_thread' = t /\ uncreated' = FALSE
          /\ Goto(t, "begin")
    \/ /\ IoFails
       /\ uncreated' = TRUE
       /\ UNCHANGED <<pc, callback_thread>>

\* A start is refused while the last recognition has not ended.
Start(c, wanted) ==
    /\ pc[c] = "idle" /\ opened /\ model_handle /\ ~recognition_callback
    /\ config' = wanted
    /\ SetPower(FALSE)
    /\ recognition_callback' = TRUE
    /\ CreateThread
    /\ events' = 0
    /\ UNCHANGED <<opened, model_handle, socks, term, uevents, reader>>

\* The end of a stop or an unload that finds no recognition: power goes all
\* the same.
OnlyPower(c) == SetPower(FALSE) /\ UNCHANGED <<pc, session, thread>>

\* Fault: the thread is not told.
CancelSilently(c) ==
    /\ recognition_callback' = FALSE /\ config' = "NULL"
    /\ Goto(c, "join")
    /\ UNCHANGED <<opened, creation, socks, term, uevents, power>>

\* The recognition is over, and the thread is told so.
Cancel(c) ==
    /\ recognition_callback' = FALSE /\ config' = "NULL"
    /\ term' = (term \/ socks)
    /\ Goto(c, "join")
    /\ UNCHANGED <<opened, creation, socks, uevents, power>>

\* The framework passes the handle that load gave it.
Stop(c) ==
    /\ pc[c] = "idle" /\ opened /\ model_handle
    /\ \/ recognition_callback /\ Cancel(c) /\ UNCHANGED model_handle
       \/ ~recognition_callback /\ OnlyPower(c)
    /\ UNCHANGED <<reader, events>>

Unload(c) ==
    /\ pc[c] = "idle" /\ opened /\ model_handle
    /\ model_handle' = FALSE
    /\ \/ recognition_callback /\ Cancel(c)
       \/ /\ ~recognition_callback
          /\ config' = "NULL" /\ SetPower(FALSE)
          /\ UNCHANGED <<pc, opened, recognition_callback, thread>>
    /\ UNCHANGED <<reader, events>>

\* Fault: the thread is not waited for.
NoJoin(c) ==
    /\ pc[c] = "join"
    /\ Goto(c, "joined")
    /\ UNCHANGED <<session, thread, power, reader, events>>

\* The join of a thread that ended, or of the id of none: bionic refuses it.
Join(c) ==
    /\ pc[c] = "join" /\ pc[callback_thread] \in {"none", "exited"}
    /\ pc' = [pc EXCEPT ![c] = "joined", ![callback_thread] = "none"]
    /\ UNCHANGED <<session, thread, power, reader, events>>

Joined(c) ==
    /\ pc[c] = "joined"
    /\ SetPower(FALSE)
    /\ Goto(c, "idle")
    /\ UNCHANGED <<session, thread, reader, events>>

-----------------------------------------------------------------------------
(* The callback thread.                                                    *)

\* Fault: the thread leaves the recognition registered.
LeaveRegistered(t) ==
    /\ socks' = FALSE /\ term' = FALSE /\ uevents' = <<>>
    /\ Goto(t, "exited")
    /\ UNCHANGED recognition_callback

\* The thread ends: the recognition with it, and its sockets.
Leave(t) ==
    /\ recognition_callback' = FALSE
    /\ socks' = FALSE /\ term' = FALSE /\ uevents' = <<>>
    /\ Goto(t, "exited")

\* The power goes with the thread when the recognition asked for no capture.
PowerGoes == config = "plain"

Exit(t) ==
    /\ Leave(t)
    /\ \/ PowerGoes /\ SetPower(FALSE)
       \/ ~PowerGoes /\ UNCHANGED power
    /\ UNCHANGED <<opened, model_handle, config, creation, reader, events>>

\* The thread gets the lock for the first time: unless it was stopped before,
\* it makes its sockets and gives the DSP power.
Begin(t) ==
    /\ pc[t] = "begin" /\ recognition_callback
    /\ socks' = TRUE /\ term' = FALSE /\ uevents' = <<>>
    /\ SetPower(TRUE)
    /\ Goto(t, "poll")
    /\ UNCHANGED <<session, creation, reader, events>>

BeginFails(t) ==
    /\ pc[t] = "begin"
    /\ ~recognition_callback \/ IoFails
    /\ Exit(t)

\* poll returns, without the lock: what it saw is looked at later.
Poll(t) ==
    /\ pc[t] = "poll"
    /\ \/ uevents # <<>> /\ Goto(t, "uevent")
       \/ uevents = <<>> /\ term /\ Goto(t, "term")
    /\ UNCHANGED <<session, thread, power, reader, events>>

PollFails(t) ==
    /\ pc[t] = "poll" /\ IoFails
    /\ Goto(t, "term")
    /\ UNCHANGED <<session, thread, power, reader, events>>

\* A termination message, an error, or a recognition that was stopped.
Terminate(t) ==
    /\ \/ pc[t] = "term"
       \/ pc[t] = "uevent" /\ ~recognition_callback
    /\ Exit(t)

\* Fault: everything the socket holds is thrown away.
IgnoreAll(t) ==
    /\ pc[t] = "uevent" /\ recognition_callback /\ Head(uevents) # "HOTWORD"
    /\ uevents' = <<>>
    /\ Goto(t, "poll")
    /\ UNCHANGED <<session, creation, socks, term, power, reader, events>>

\* A uevent that does not tell of the hotword.
Ignore(t) ==
    /\ pc[t] = "uevent" /\ recognition_callback /\ Head(uevents) # "HOTWORD"
    /\ uevents' = Tail(uevents)
    /\ Goto(t, "poll")
    /\ UNCHANGED <<session, creation, socks, term, power, reader, events>>

\* The hotword: the DSP is streaming, and the framework is told without the
\* lock.
Hotword(t) ==
    /\ pc[t] = "uevent" /\ recognition_callback /\ Head(uevents) = "HOTWORD"
    /\ uevents' = Tail(uevents)
    /\ is_streaming' = TRUE
    /\ events' = events + 1
    /\ Goto(t, "callback")
    /\ UNCHANGED <<session, creation, socks, term, dsp, streaming_buf,
                   dsp_next, got, reader>>

CallbackReturns(t) ==
    /\ pc[t] = "callback"
    /\ Goto(t, "returned")
    /\ UNCHANGED <<session, thread, power, reader, events>>

\* With the lock again: the thread starts to read the DSP if a capture was
\* requested, and ends.
Finish(t) ==
    /\ pc[t] = "returned"
    /\ Leave(t)
    /\ \/ /\ config = "capture"
          /\ \E piece \in Fetched : Fetch(piece)
          /\ UNCHANGED <<dsp, is_streaming, got>>
       \/ PowerGoes /\ SetPower(FALSE)
       \/ config = "NULL" /\ UNCHANGED power
    /\ UNCHANGED <<opened, model_handle, config, creation, reader, events>>

-----------------------------------------------------------------------------
(* The kernel and the hotword input stream of the audio HAL.               *)

\* The DSP, with power and not streaming yet, hears the hotword; other uevents
\* come at any time.  They go to the sockets that are open.
Uevent ==
    /\ \E t \in CallbackThreads : Listening(t)
    /\ Len(uevents) < MaxUevents
    /\ \/ uevents' = Append(uevents, "other")
       \/ /\ dsp /\ ~is_streaming /\ ~Heard
          /\ uevents' = Append(uevents, "HOTWORD")
    /\ UNCHANGED <<pc, session, creation, socks, term, power, reader,
                   events>>

\* sound_trigger_open_for_streaming, when the input stream leaves standby.
OpenForStreaming ==
    /\ reader = "standby" /\ opened /\ is_streaming
    /\ reader' = "open"
    /\ UNCHANGED <<pc, session, thread, power, events>>

Lesser(a, b) == IF a < b THEN a ELSE b

\* Give the reader the first n pieces of what is there; in_read puts the stream
\* in standby when there is nothing.
Deliver(available, n) ==
    LET k == Lesser(n, Len(available))
    IN  /\ streaming_buf' = SubSeq(available, k + 1, Len(available))
        /\ got' = IF k = 0 THEN got ELSE available[k]
        /\ reader' = IF k = 0 THEN "standby" ELSE "open"

\* sound_trigger_read_samples for up to n pieces.  When the DSP is not
\* streaming any more it returns an error, which changes nothing.
ReadSamples(n) ==
    /\ reader = "open" /\ opened /\ is_streaming
    /\ \/ /\ streaming_buf # <<>>
          /\ Deliver(streaming_buf, n) /\ UNCHANGED dsp_next
       \/ /\ streaming_buf = <<>>
          /\ \E piece \in Fetched : /\ Deliver(piece, n)
                                    /\ dsp_next' = dsp_next + Len(piece)
    /\ UNCHANGED <<pc, session, thread, dsp, is_streaming, events>>

\* The stream is put in standby: sound_trigger_close_for_streaming does
\* nothing.
InStandby ==
    /\ reader = "open" /\ reader' = "standby"
    /\ UNCHANGED <<pc, session, thread, power, events>>

-----------------------------------------------------------------------------
Call(c) == \/ Open(c) \/ Close(c) \/ Load(c) \/ Stop(c) \/ Unload(c)
           \/ \E wanted \in Configs \ {"NULL"} : Start(c, wanted)

CallbackStep(t) == \/ Begin(t) \/ BeginFails(t) \/ Poll(t) \/ Terminate(t)
                   \/ Ignore(t) \/ Hotword(t) \/ CallbackReturns(t) \/ Finish(t)

Next == \/ \E c \in Clients : Call(c) \/ Join(c) \/ Joined(c)
        \/ \E t \in CallbackThreads : CallbackStep(t) \/ PollFails(t)
        \/ Uevent \/ OpenForStreaming \/ InStandby
        \/ \E n \in 1 .. Chunk : ReadSamples(n)

Spec == Init /\ [][Next]_vars

\* Threads run, and the framework returns from the callback; nobody keeps the
\* lock, so a step that waits for it is weakly fair.  No uevent need come, and
\* poll need not fail.
Fairness ==
    /\ \A c \in Clients : WF_vars(Join(c) \/ Joined(c))
    /\ \A t \in CallbackThreads : WF_vars(CallbackStep(t))

LiveSpec == Spec /\ Fairness

-----------------------------------------------------------------------------
(* Properties.                                                             *)

TypeOK ==
    /\ pc \in [Threads -> ClientLabels \cup CallbackLabels]
    /\ opened \in BOOLEAN /\ model_handle \in BOOLEAN
    /\ recognition_callback \in BOOLEAN /\ config \in Configs
    /\ callback_thread \in CallbackThreads /\ uncreated \in BOOLEAN
    /\ socks \in BOOLEAN /\ term \in BOOLEAN
    /\ uevents \in Seq({"HOTWORD", "other"})
    /\ dsp \in BOOLEAN /\ is_streaming \in BOOLEAN
    /\ streaming_buf \in Seq(1 .. MaxUnits) /\ Len(streaming_buf) <= Chunk
    /\ dsp_next \in 0 .. MaxUnits /\ got \in 0 .. MaxUnits
    /\ reader \in {"standby", "open"}
    /\ events \in Nat

Live(t)  == pc[t] \notin {"none", "exited"}
Stopping == \E c \in Clients : pc[c] \in {"join", "joined"}

\* A recognition that was accepted is served, by the one thread a stop would
\* join: it lives, and from the time it listens the DSP has power and a stop
\* can reach it.  Otherwise every later start would be refused, or the hotword
\* never heard.  The one exception is in the code: a start whose pthread_create
\* failed is accepted (480), and nobody serves it until it is stopped.
RecognitionIsServed ==
    /\ \A t \in CallbackThreads : Live(t) => t = callback_thread
    /\ recognition_callback =>
          /\ model_handle
          /\ uncreated \/ Live(callback_thread)
          /\ Listening(callback_thread) => dsp /\ socks

\* A start leads to one event at most, and once a stop or an unload has
\* returned to none: the framework's callback is not running and will not be
\* called.
QuietAfterStop ==
    /\ events <= 1
    /\ (\E t \in CallbackThreads : pc[t] = "callback")
         => recognition_callback \/ Stopping

\* What can be streamed is of this session of the DSP: it has power, and the
\* buffer has consecutive pieces it handed out that the reader has not had.
StreamInOrder ==
    /\ is_streaming => dsp /\ opened
    /\ streaming_buf # <<>> => is_streaming
    /\ \A i \in 1 .. Len(streaming_buf) :
          /\ streaming_buf[i] = dsp_next - Len(streaming_buf) + i
          /\ streaming_buf[i] > got

\* A stop or an unload returns, of a recognition that has no thread as well.
StopReturns ==
    \A c \in Clients : pc[c] = "join" ~> pc[c] = "idle"

\* A hotword that reached the thread of a recognition is reported, unless the
\* recognition ends.
HotwordIsReported == recognition_callback /\ Heard
                         ~> events > 0 \/ ~recognition_callback
=============================================================================
