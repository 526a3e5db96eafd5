------------------------------- MODULE Amplifier -------------------------------
(***************************************************************************)
(* The amplifier of the speaker (audio/hal/audio_hw.c).  It takes its      *)
(* configuration only while the speaker's PCM runs, so adev_open() starts  *)
(* a dummy thread that plays silence, first for the headphone jack and     *)
(* then for the speaker, and a thread that configures the amplifier under  *)
(* the second.  adev_set_mode() marks the configuration as out of date;    *)
(* the next out_write() to the speaker does it again.                      *)
(*                                                                         *)
(* The clocks are not modelled: a loop that polls a bounded number of      *)
(* times may give up at any time.                                          *)
(***************************************************************************)
EXTENDS Integers

CONSTANTS
    Modes, Normal,          \* audio_mode_t, AUDIO_MODE_NORMAL
    Timeout,                \* dummybuf_thread_timeout at first: 6000 in the code
    Headphone, Speaker,     \* the dummy threads, named for the device they are for
    Opener, Setter,         \* the threads in adev_open() and adev_set_mode()
    Config, Writer,         \* tfa9895_config_thread, the thread in out_write()
    NULL, Free, Destroyed   \* no value; states of a mutex

Dummies == {Headphone, Speaker}

ASSUME AmplifierAssumption ==
    /\ Timeout \in Nat /\ Normal \in Modes
    /\ Headphone # Speaker
    /\ Dummies \cap {Opener, Setter, Config, Writer} = {}
    /\ Opener \notin {Setter, Config, Writer}
    /\ Setter \notin {Config, Writer} /\ Config # Writer
    /\ NULL \notin Modes \cup Dummies
    /\ Free # Destroyed /\ {Free, Destroyed} \cap (Dummies \cup {Config, Writer}) = {}

VARIABLES
    \* struct audio_device
    mode, tfa9895_init, tfa9895_mode_change, tfa9895_lock,
    dummybuf_thread_timeout, dummybuf_thread_cancel, dummybuf_thread_active,
    dummybuf_thread_lock, dummybuf_thread,
    \* threads
    pc,             \* where each is
    pcm,            \* dummy threads whose PCM is open
    arg,            \* [Config, Writer -> the mode it read for set_amp_mode()]
    \* the amplifier
    amp,            \* the mode it is configured for
    \* history
    stolen          \* a write released a tfa9895_lock that another thread held

tfa    == <<mode, tfa9895_init, tfa9895_mode_change, tfa9895_lock, arg, amp, stolen>>
shared == <<dummybuf_thread_timeout, dummybuf_thread_cancel, dummybuf_thread_active,
            dummybuf_thread_lock, dummybuf_thread>>
dummy  == <<shared, pcm>>
vars   == <<tfa, dummy, pc>>

Threads == Dummies \cup {Opener, Setter, Config, Writer}

Init ==
    /\ mode = Normal
    /\ tfa9895_init = FALSE /\ tfa9895_mode_change = FALSE /\ tfa9895_lock = Free
    /\ dummybuf_thread_timeout = 0 /\ dummybuf_thread_cancel = FALSE
    /\ dummybuf_thread_active = FALSE /\ dummybuf_thread_lock = Free
    /\ dummybuf_thread = NULL
    /\ pc = [t \in Threads |-> IF t = Opener THEN "headphone" ELSE
                               IF t \in {Setter, Writer} THEN "idle" ELSE "none"]
    /\ pcm = {}
    /\ arg = [t \in {Config, Writer} |-> NULL]
    /\ amp = NULL /\ stolen = FALSE

At(t, label)   == pc[t] = label
Goto(t, label) == pc' = [pc EXCEPT ![t] = label]

-----------------------------------------------------------------------------
(* dummybuf_thread() *)

\* The thread detaches itself.
DummyStart(d) ==
    /\ At(d, "new")
    /\ Goto(d, "start")
    /\ UNCHANGED <<tfa, dummy>>

\* The lock is taken, before the PCM is opened or after a sleep.  A lock that was
\* destroyed is given to the thread or keeps it waiting for ever.
DummyLock(d) ==
    /\ pc[d] \in {"start", "sleep"}
    /\ dummybuf_thread_lock \in {Free, Destroyed}
    /\ \/ /\ dummybuf_thread_lock' = d
          /\ Goto(d, IF At(d, "start") THEN "setup" ELSE "write")
       \/ /\ dummybuf_thread_lock = Destroyed
          /\ Goto(d, "lost")
          /\ UNCHANGED dummybuf_thread_lock
    /\ UNCHANGED <<tfa, dummybuf_thread_timeout, dummybuf_thread_cancel,
                   dummybuf_thread_active, dummybuf_thread, pcm>>

\* pcm_open() by d: two threads cannot have the PCM open.
PcmOpens(d) == pcm' = pcm \/ (pcm = {} /\ pcm' = {d})

\* The PCM and the mixer's switches; without a switch the thread gives up.
DummySetup(d) ==
    /\ At(d, "setup")
    /\ PcmOpens(d)
    /\ \E label \in {"write", "exit"} : Goto(d, label)
    /\ UNCHANGED <<tfa, shared>>

\* A buffer of silence is played, or the PCM is tried again.
DummyWrite(d) ==
    /\ At(d, "write")
    /\ IF d \in pcm
         THEN dummybuf_thread_active' = TRUE /\ UNCHANGED pcm
         ELSE PcmOpens(d) /\ UNCHANGED dummybuf_thread_active
    /\ Goto(d, "test")
    /\ UNCHANGED <<tfa, dummybuf_thread_timeout, dummybuf_thread_cancel,
                   dummybuf_thread_lock, dummybuf_thread>>

\* Fault: only a cancellation ends the loop.
EndsByCancel == dummybuf_thread_cancel

\* The loop ends when the thread is cancelled, or has run for long enough.
LoopEnds == dummybuf_thread_cancel \/ dummybuf_thread_timeout <= 0

\* The condition counts, unless the thread is cancelled.
DummyTest(d) ==
    /\ At(d, "test")
    /\ dummybuf_thread_timeout' =
           IF dummybuf_thread_cancel \/ dummybuf_thread_timeout < 0
           THEN dummybuf_thread_timeout ELSE dummybuf_thread_timeout - 1
    /\ IF LoopEnds
         THEN /\ dummybuf_thread_cancel' = FALSE
              /\ Goto(d, "exit")
              /\ UNCHANGED dummybuf_thread_lock
         ELSE /\ dummybuf_thread_lock' = Free
              /\ Goto(d, "sleep")
              /\ UNCHANGED dummybuf_thread_cancel
    /\ UNCHANGED <<tfa, dummybuf_thread_active, dummybuf_thread, pcm>>

DummyExit(d) ==
    /\ At(d, "exit")
    /\ dummybuf_thread_active' = FALSE
    /\ pcm' = pcm \ {d}
    /\ dummybuf_thread_lock' = Free
    /\ Goto(d, "done")
    /\ UNCHANGED <<tfa, dummybuf_thread_timeout, dummybuf_thread_cancel,
                   dummybuf_thread>>

Dummy(d) ==
    DummyStart(d) \/ DummyLock(d) \/ DummySetup(d) \/ DummyWrite(d) \/ DummyTest(d)
        \/ DummyExit(d)

-----------------------------------------------------------------------------
(* dummybuf_thread_open() and dummybuf_thread_close() *)

\* The opener starts thread d.  It writes what d's predecessor may be using.  (That
\* pthread_create(), whose result is ignored, fails is left out.)
DummyOpen(d) ==
    /\ dummybuf_thread_timeout' = Timeout
    /\ dummybuf_thread_cancel' = FALSE /\ dummybuf_thread_active' = FALSE
    /\ dummybuf_thread_lock' = Free
    /\ dummybuf_thread = NULL
    /\ dummybuf_thread' = d

\* dummybuf_thread_close() by t, from "close" to next: the thread is cancelled ...
CloseCancel(t, next) ==
    /\ At(t, "close")
    /\ dummybuf_thread # NULL => dummybuf_thread_lock \in {Free, Destroyed}
    /\ dummybuf_thread_cancel' = (dummybuf_thread # NULL \/ dummybuf_thread_cancel)
    /\ Goto(t, IF dummybuf_thread = NULL THEN next ELSE "poll")
    /\ UNCHANGED <<tfa, dummybuf_thread_timeout, dummybuf_thread_active,
                   dummybuf_thread_lock, dummybuf_thread, pcm>>

\* ... given 20 ms to become inactive, which it may be before it has started, and
\* joined: pthread_join() returns at once if the thread has detached itself ...
CloseJoin(t) ==
    /\ At(t, "poll")
    /\ dummybuf_thread_lock = Free
    /\ Goto(t, IF At(dummybuf_thread, "new") THEN "joining" ELSE "destroy")
    /\ UNCHANGED <<tfa, dummy>>

CloseJoined(t) ==
    /\ At(t, "joining") /\ At(dummybuf_thread, "done")
    /\ Goto(t, "destroy")
    /\ UNCHANGED <<tfa, dummy>>

\* ... and a lock that somebody holds is not destroyed.
CloseDestroy(t, next) ==
    /\ At(t, "destroy")
    /\ dummybuf_thread_lock' = IF dummybuf_thread_lock = Free THEN Destroyed
                               ELSE dummybuf_thread_lock
    /\ dummybuf_thread' = NULL
    /\ Goto(t, next)
    /\ UNCHANGED <<tfa, dummybuf_thread_timeout, dummybuf_thread_cancel,
                   dummybuf_thread_active, pcm>>

Close(t, next) ==
    CloseCancel(t, next) \/ CloseJoin(t) \/ CloseJoined(t) \/ CloseDestroy(t, next)

-----------------------------------------------------------------------------
(* adev_open() *)

\* The thread is closed once it is active or has been waited for long enough.
OpenHeadphone ==
    /\ At(Opener, "headphone")
    /\ DummyOpen(Headphone)
    /\ pc' = [pc EXCEPT ![Opener] = "close", ![Headphone] = "new"]
    /\ UNCHANGED <<tfa, pcm>>

OpenSpeaker ==
    /\ At(Opener, "speaker")
    /\ DummyOpen(Speaker)
    /\ pc' = [pc EXCEPT ![Opener] = "wait speaker", ![Speaker] = "new"]
    /\ UNCHANGED <<tfa, pcm>>

\* Fault: the amplifier is configured whether or not a thread plays.
Ready == TRUE

\* With the lock held: does a thread say that it plays?
SpeakerActive == dummybuf_thread_active

\* The configuration thread is created once a dummy thread is active; if none
\* becomes active in time, or pthread_create() fails, nobody closes the dummy thread.
SpeakerWaited ==
    /\ At(Opener, "wait speaker")
    /\ dummybuf_thread_lock = Free
    /\ \/ SpeakerActive /\ pc' = [pc EXCEPT ![Opener] = "opened", ![Config] = "lock"]
       \/ Goto(Opener, "opened")
    /\ UNCHANGED <<tfa, dummy>>

AdevOpen ==
    OpenHeadphone \/ Close(Opener, "speaker") \/ OpenSpeaker \/ SpeakerWaited

-----------------------------------------------------------------------------
(* tfa9895_config_thread(), adev_set_mode() and the part of out_write() that
   configures the amplifier *)

TfaLock(t, next) ==
    /\ At(t, "lock") /\ tfa9895_lock = Free
    /\ tfa9895_lock' = t
    /\ Goto(t, next)
    /\ UNCHANGED <<mode, tfa9895_init, tfa9895_mode_change, arg, amp, stolen, dummy>>

\* set_amp_mode(adev->mode): the mode is read before the call, without adev->lock.
ReadMode(t) ==
    /\ At(t, "read")
    /\ arg' = [arg EXCEPT ![t] = mode]
    /\ Goto(t, "set")
    /\ UNCHANGED <<mode, tfa9895_init, tfa9895_mode_change, tfa9895_lock, amp, stolen, dummy>>

\* The call succeeds, or fails and leaves the amplifier as it is.
SetAmp(t, ok) ==
    /\ At(t, "set")
    /\ tfa9895_init' = ok
    /\ amp' = IF ok THEN arg[t] ELSE amp
    /\ arg' = [arg EXCEPT ![t] = NULL]

\* The configuration thread asks for another try, unlocks, and closes the dummy thread.
ConfigSets(ok) ==
    /\ SetAmp(Config, ok)
    /\ tfa9895_mode_change' = (tfa9895_mode_change \/ ~ok)
    /\ tfa9895_lock' = Free
    /\ Goto(Config, "close")
    /\ UNCHANGED <<mode, stolen, dummy>>

ConfigThread ==
    TfaLock(Config, "read") \/ ReadMode(Config) \/ (\E ok \in BOOLEAN : ConfigSets(ok))
        \/ Close(Config, "done")

\* Fault: a mode set before the amplifier is configured is not marked.
SetModeIfConfigured(m) ==
    /\ At(Setter, "idle") /\ m # mode
    /\ mode' = m
    /\ Goto(Setter, IF tfa9895_init THEN "change" ELSE "idle")
    /\ UNCHANGED <<tfa9895_init, tfa9895_mode_change, tfa9895_lock, arg, amp, stolen, dummy>>

\* adev_set_mode(), under adev->lock ...
SetMode(m) ==
    /\ At(Setter, "idle") /\ m # mode
    /\ mode' = m
    /\ Goto(Setter, "change")
    /\ UNCHANGED <<tfa9895_init, tfa9895_mode_change, tfa9895_lock, arg, amp, stolen, dummy>>

\* ... and, with tfa9895_lock.
ModeChanged ==
    /\ At(Setter, "change") /\ tfa9895_lock = Free
    /\ tfa9895_mode_change' = TRUE
    /\ Goto(Setter, "idle")
    /\ UNCHANGED <<mode, tfa9895_init, tfa9895_lock, arg, amp, stolen, dummy>>

\* A write that sees the mark, which it reads without a lock.  For the speaker it
\* takes the lock; for another device it goes straight to the unlocking.
WriteSeesChange ==
    /\ At(Writer, "idle") /\ tfa9895_mode_change
    /\ \E label \in {"lock", "unlock"} : Goto(Writer, label)
    /\ UNCHANGED <<tfa, dummy>>

\* The PCM is reopened and plays silence; the mark is cleared before the mode is read.
\* Without a buffer of silence nothing is done.
WriteClears ==
    /\ At(Writer, "clear")
    /\ \/ tfa9895_mode_change' = FALSE /\ Goto(Writer, "read")
       \/ Goto(Writer, "unlock") /\ UNCHANGED tfa9895_mode_change
    /\ UNCHANGED <<mode, tfa9895_init, tfa9895_lock, arg, amp, stolen, dummy>>

\* The PCM is reopened as it was; a failure returns from there, unlocked too.
WriteSets(ok) ==
    /\ SetAmp(Writer, ok)
    /\ Goto(Writer, "unlock")
    /\ UNCHANGED <<mode, tfa9895_mode_change, tfa9895_lock, stolen, dummy>>

WriteUnlocks ==
    /\ At(Writer, "unlock")
    /\ tfa9895_lock' = Free
    /\ stolen' = (stolen \/ tfa9895_lock \notin {Free, Writer})
    /\ Goto(Writer, "idle")
    /\ UNCHANGED <<mode, tfa9895_init, tfa9895_mode_change, arg, amp, dummy>>

OutWrite ==
    \/ WriteSeesChange
    \/ TfaLock(Writer, "clear") \/ WriteClears
    \/ ReadMode(Writer) \/ (\E ok \in BOOLEAN : WriteSets(ok))
    \/ WriteUnlocks

-----------------------------------------------------------------------------
Next ==
    \/ \E d \in Dummies : Dummy(d)
    \/ AdevOpen
    \/ ConfigThread
    \/ (\E m \in Modes : SetMode(m)) \/ ModeChanged
    \/ OutWrite

Spec == Init /\ [][Next]_vars

\* The scheduler runs the dummy threads.
LiveSpec == Spec /\ \A d \in Dummies : WF_vars(Dummy(d))

-----------------------------------------------------------------------------
\* Where the threads can be.
Labels == {"none", "idle", "new", "start", "setup", "write", "test", "sleep", "exit",
           "done", "lost", "headphone", "speaker", "wait speaker", "opened", "close",
           "poll", "joining", "destroy", "lock", "read", "set", "change", "clear", "unlock"}

TypeOK ==
    /\ mode \in Modes /\ amp \in Modes \cup {NULL}
    /\ tfa9895_init \in BOOLEAN /\ tfa9895_mode_change \in BOOLEAN
    /\ tfa9895_lock \in {Free, Config, Writer}
    /\ dummybuf_thread_timeout \in -1 .. Timeout
    /\ dummybuf_thread_cancel \in BOOLEAN /\ dummybuf_thread_active \in BOOLEAN
    /\ dummybuf_thread_lock \in Dummies \cup {Free, Destroyed}
    /\ dummybuf_thread \in Dummies \cup {NULL}
    /\ pc \in [Threads -> Labels]
    /\ pcm \subseteq Dummies
    /\ arg \in [{Config, Writer} -> Modes \cup {NULL}]
    /\ stolen \in BOOLEAN

\* Is the current mode on its way to the amplifier?
OnItsWay ==
    \/ tfa9895_mode_change
    \/ At(Setter, "change")
    \/ \E t \in {Config, Writer} : At(t, "read") \/ (At(t, "set") /\ arg[t] = mode)

\* An amplifier that its last configuration left working is configured for the
\* mode of the device, or that mode is on its way: no change of the mode is lost
\* between the mark, the threads that clear it and the mode they read without
\* adev->lock.  The code loses one in two ways, which are the two conditions: a
\* write clears the mark, then the call fails (tfa9895_init, 3174-3180), and a
\* write for another device releases the lock of a thread at work (stolen, 3205).
ModeIsNotLost == tfa9895_init /\ ~stolen => amp = mode \/ OnItsWay

\* The amplifier is first configured while a dummy thread has the PCM open, so
\* that its clock runs, unless the dummy threads ran out of time -- also when the
\* thread for the headphones is late and lives together with the one for the
\* speaker.
ConfiguredWhilePlaying ==
    pc[Config] \in {"lock", "read", "set"} => pcm # {} \/ dummybuf_thread_timeout < 0

\* Every dummy thread ends, though a cancellation can be lost (the next open and
\* the other thread reset it) and nobody closes the thread for the speaker if it
\* was late -- unless the thread waits for a lock that was destroyed.
DummyEnds ==
    \A d \in Dummies : At(d, "new") ~> pc[d] \in {"done", "lost"}
=============================================================================
