------------------------------ MODULE Visualizer ------------------------------
(***************************************************************************)
(* The offload visualizer library (audio/visualizer/                       *)
(* nv_offload_visualizer.c): the effects the framework creates, enables    *)
(* and moves, the outputs the audio HAL starts and stops, and the capture  *)
(* thread that exists while an output is active, reads the proxy PCM while *)
(* an effect is enabled and feeds what it reads to the effects.            *)
(*                                                                         *)
(* Everything but the thread's life is guarded by `lock': a call that only *)
(* takes `lock' is one step, enabled when nobody holds it.  The thread     *)
(* holds it over two steps (it processes, then evaluates its conditions),  *)
(* and a HAL call that stops the last output gives it up to join.          *)
(***************************************************************************)
EXTENDS Naturals, FiniteSets

CONSTANTS Callers,        \* threads of the audio HAL
          CaptureThreads, \* identities pthread_create can give the thread
          Outputs,        \* audio_io_handle_t of the output streams
          Offloaded,      \* those of offloaded streams, which the HAL reports
          Effects,        \* addresses an effect context can have
          Free,           \* owner of a mutex nobody holds
          MoveActive,     \* EFFECT_CMD_OFFLOAD may move an enabled effect
          CreateFails     \* pthread_create may fail

Threads == Callers \cup CaptureThreads

ASSUME VisualizerAssumption ==
    /\ Callers \cap CaptureThreads = {}
    /\ Free \notin Threads
    /\ CaptureThreads # {} /\ Offloaded \subseteq Outputs
    /\ MoveActive \in BOOLEAN /\ CreateFails \in BOOLEAN

VARIABLES
    pc,             \* [Threads -> label]
    req,            \* [Callers -> the HAL call, and the output it is for]
    thread_lock, lock,
    created,        \* created_effects_list
    state,          \* [Effects -> EFFECT_STATE_*]
    out_handle,     \* [Effects -> the output the effect is for]
    active,         \* active_outputs_list
    effects_list,   \* [Outputs -> effects linked to the active output]
    exit_thread, thread_status, capture_thread,
    capturing,      \* threads that have the capture PCM open
    ready,          \* the capture PCM can be opened
    fed             \* effects given the period the thread last read

effects == <<created, state, out_handle>>
outputs == <<active, effects_list>>
life    == <<exit_thread, thread_status, capture_thread>>
capture == <<capturing, ready, fed>>
vars    == <<pc, req, thread_lock, lock, effects, outputs, life, capture>>

Calls         == {"start_output", "stop_output"}
CallerLabels  == {"idle", "thread_lock", "lock", "join", "relock"}
CaptureLabels == {"none", "begin", "evaluate", "asleep", "woken", "reading",
                  "read", "failed", "exited"}

Init ==
    /\ pc = [t \in Threads |-> IF t \in Callers THEN "idle" ELSE "none"]
    /\ req \in [Callers -> [call : Calls, output : Offloaded]]
    /\ thread_lock = Free /\ lock = Free
    /\ created = {}
    /\ state = [e \in Effects |-> "INITIALIZED"]
    /\ out_handle \in [Effects -> Outputs]
    /\ active = {} /\ effects_list = [o \in Outputs |-> {}]
    /\ exit_thread = FALSE /\ thread_status = FALSE
    /\ capture_thread \in CaptureThreads
    /\ capturing = {} /\ ready = TRUE /\ fed = {}

-----------------------------------------------------------------------------
(* What the lists say.                                                     *)

Goto(t, label) == [pc EXCEPT ![t] = label]

\* Fault: the waiter is not woken.
NoSignal(p) == p

\* pthread_cond_signal(&cond): only a capture thread waits on cond.
Signal(p) == [t \in Threads |-> IF p[t] = "asleep" THEN "woken" ELSE p[t]]

\* Fault: only effects that are enabled are attached to a new output.
AttachedToEnabled(o) ==
    {e \in created : out_handle[e] = o /\ state[e] = "ACTIVE"}

\* The effects a new output finds in created_effects_list.
AttachedTo(o) == {e \in created : out_handle[e] = o}

Linked == UNION {effects_list[o] : o \in active}

EffectsEnabled == \E e \in Linked : state[e] = "ACTIVE"

\* add_effect_to_output(get_output(o), e), where there is such an output.
Link(links, e, o) ==
    IF o \in active THEN [links EXCEPT ![o] = @ \cup {e}] ELSE links

\* Fault: the effect stays in the list of its output.
UnlinkNothing(links, e) == links

\* remove_effect_from_output(get_output(context->out_handle), e).
Unlink(links, e) ==
    IF out_handle[e] \in active
    THEN [links EXCEPT ![out_handle[e]] = @ \ {e}]
    ELSE links

-----------------------------------------------------------------------------
(* Calls of the effects framework.  A call on an effect that does not      *)
(* exist, or an enable or disable in the wrong state, only returns.        *)

\* effect_lib_create: no signal, the new effect is not enabled.
Create(e, o) ==
    /\ lock = Free /\ e \notin created
    /\ created' = created \cup {e}
    /\ state' = [state EXCEPT ![e] = "INITIALIZED"]
    /\ out_handle' = [out_handle EXCEPT ![e] = o]
    /\ effects_list' = Link(effects_list, e, o)
    /\ UNCHANGED <<pc, req, thread_lock, lock, active, life, capture>>

\* effect_lib_release: no signal, so the thread may find nothing enabled
\* only after its next period.
Release(e) ==
    /\ lock = Free /\ e \in created
    /\ created' = created \ {e}
    /\ effects_list' = Unlink(effects_list, e)
    /\ UNCHANGED <<pc, req, thread_lock, lock, state, out_handle, active,
                   life, capture>>

Enable(e) ==
    /\ lock = Free /\ e \in created /\ state[e] = "INITIALIZED"
    /\ state' = [state EXCEPT ![e] = "ACTIVE"]
    /\ pc' = Signal(pc)
    /\ UNCHANGED <<req, thread_lock, lock, created, out_handle, outputs,
                   life, capture>>

Disable(e) ==
    /\ lock = Free /\ e \in created /\ state[e] = "ACTIVE"
    /\ state' = [state EXCEPT ![e] = "INITIALIZED"]
    /\ pc' = Signal(pc)
    /\ UNCHANGED <<req, thread_lock, lock, created, out_handle, outputs,
                   life, capture>>

\* EFFECT_CMD_OFFLOAD with another output: the effect changes lists.
Offload(e, o) ==
    /\ lock = Free /\ e \in created /\ out_handle[e] # o
    /\ MoveActive \/ state[e] # "ACTIVE"
    /\ effects_list' = Link(Unlink(effects_list, e), e, o)
    /\ out_handle' = [out_handle EXCEPT ![e] = o]
    /\ UNCHANGED <<pc, req, thread_lock, lock, created, state, active,
                   life, capture>>

-----------------------------------------------------------------------------
(* Calls of the audio HAL.                                                 *)

CallHal(c) ==
    /\ pc[c] = "idle"
    /\ req' \in {[req EXCEPT ![c] = [call |-> k, output |-> o]] :
                    k \in Calls, o \in Offloaded}
    /\ pc' = Goto(c, "thread_lock")
    /\ UNCHANGED <<thread_lock, lock, effects, outputs, life, capture>>

\* Fault: the life of the thread is not guarded by thread_lock.
SkipThreadLock(c) ==
    /\ pc[c] = "thread_lock"
    /\ pc' = Goto(c, "lock")
    /\ UNCHANGED <<req, thread_lock, lock, effects, outputs, life, capture>>

LockThread(c) ==
    /\ pc[c] = "thread_lock" /\ thread_lock = Free
    /\ thread_lock' = c
    /\ pc' = Goto(c, "lock")
    /\ UNCHANGED <<req, lock, effects, outputs, life, capture>>

\* The call returns: it gives up thread_lock.
Return(c, p) ==
    /\ pc' = [p EXCEPT ![c] = "idle"]
    /\ thread_lock' = IF thread_lock = c THEN Free ELSE thread_lock

InCall(c, call) == pc[c] = "lock" /\ lock = Free /\ req[c].call = call

\* -ENOSYS: the output is already started, or was not.
Refused(c) ==
    /\ \/ InCall(c, "start_output") /\ req[c].output \in active
       \/ InCall(c, "stop_output") /\ req[c].output \notin active
    /\ Return(c, pc)
    /\ UNCHANGED <<req, lock, effects, outputs, life, capture>>

\* The first output has the capture thread created; if that fails the output
\* is active all the same.
CreateThread(c, p) ==
    \/ \E t \in CaptureThreads :
          /\ p[t] = "none"
          /\ capture_thread' = t /\ thread_status' = TRUE
          /\ Return(c, Signal([p EXCEPT ![t] = "begin"]))
    \/ /\ CreateFails
       /\ thread_status' = FALSE
       /\ Return(c, Signal(p))
       /\ UNCHANGED capture_thread

StartOutput(c) ==
    LET o == req[c].output
    IN  /\ InCall(c, "start_output") /\ o \notin active
        /\ effects_list' = [effects_list EXCEPT ![o] = AttachedTo(o)]
        /\ active' = active \cup {o}
        /\ IF active = {}
           THEN exit_thread' = FALSE /\ CreateThread(c, pc)
           ELSE Return(c, Signal(pc)) /\ UNCHANGED life
        /\ UNCHANGED <<req, lock, effects, capture>>

StopOutput(c) ==
    LET o == req[c].output
    IN  /\ InCall(c, "stop_output") /\ o \in active
        /\ active' = active \ {o}
        /\ effects_list' = [effects_list EXCEPT ![o] = {}]
        /\ IF active = {o} /\ thread_status
           THEN /\ exit_thread' = TRUE
                /\ pc' = Signal(Goto(c, "join"))
                /\ UNCHANGED <<thread_lock, thread_status, capture_thread>>
           ELSE Return(c, Signal(pc)) /\ UNCHANGED life
        /\ UNCHANGED <<req, lock, effects, capture>>

\* pthread_join(capture_thread), with thread_lock held and lock given up.
Join(c) ==
    /\ pc[c] = "join" /\ pc[capture_thread] = "exited"
    /\ pc' = [pc EXCEPT ![c] = "relock", ![capture_thread] = "none"]
    /\ UNCHANGED <<req, thread_lock, lock, effects, outputs, life, capture>>

Stopped(c) ==
    /\ pc[c] = "relock" /\ lock = Free
    /\ thread_status' = FALSE
    /\ Return(c, pc)
    /\ UNCHANGED <<req, lock, effects, outputs, exit_thread, capture_thread,
                   capture>>

-----------------------------------------------------------------------------
(* The capture thread.                                                     *)

Wants == {"begin", "woken", "read", "failed"}

\* The thread takes lock: after a read that succeeded it gives the period to
\* every effect of every active output, enabled or not.
Relock(t) ==
    /\ pc[t] \in Wants /\ lock = Free
    /\ lock' = t
    /\ fed' = IF pc[t] = "read" THEN Linked ELSE {}
    /\ pc' = Goto(t, "evaluate")
    /\ UNCHANGED <<req, thread_lock, effects, outputs, life, capturing, ready>>

Exit(t) ==
    /\ pc[t] = "evaluate" /\ exit_thread
    /\ capturing' = capturing \ {t}
    /\ lock' = Free /\ pc' = Goto(t, "exited") /\ fed' = {}
    /\ UNCHANGED <<req, thread_lock, effects, outputs, life, ready>>

\* An effect is enabled: the thread opens the PCM if it must and reads
\* without lock.  While the PCM is not ready it tries again, lock in hand.
Capture(t) ==
    /\ pc[t] = "evaluate" /\ ~exit_thread /\ EffectsEnabled
    /\ t \in capturing \/ ready
    /\ capturing' = capturing \cup {t}
    /\ lock' = Free /\ pc' = Goto(t, "reading") /\ fed' = {}
    /\ UNCHANGED <<req, thread_lock, effects, outputs, life, ready>>

\* No effect is enabled: the thread closes the PCM and waits on cond.
Sleep(t) ==
    /\ pc[t] = "evaluate" /\ ~exit_thread /\ ~EffectsEnabled
    /\ capturing' = capturing \ {t}
    /\ lock' = Free /\ pc' = Goto(t, "asleep") /\ fed' = {}
    /\ UNCHANGED <<req, thread_lock, effects, outputs, life, ready>>

\* A wait on a condition variable may end without a signal.
Spurious(t) ==
    /\ pc[t] = "asleep" /\ pc' = Goto(t, "woken")
    /\ UNCHANGED <<req, thread_lock, lock, effects, outputs, life, capture>>

\* pcm_read returns a period, or an error.
ReadPcm(t) ==
    /\ pc[t] = "reading"
    /\ \E result \in {"read", "failed"} : pc' = Goto(t, result)
    /\ UNCHANGED <<req, thread_lock, lock, effects, outputs, life, capture>>

\* The driver takes the capture PCM away, or gives it back.
Driver ==
    /\ ready' = ~ready
    /\ UNCHANGED <<pc, req, thread_lock, lock, effects, outputs, life,
                   capturing, fed>>

-----------------------------------------------------------------------------
EffectCall ==
    \/ \E e \in Effects, o \in Outputs : Create(e, o) \/ Offload(e, o)
    \/ \E e \in Effects : Release(e) \/ Enable(e) \/ Disable(e)

HalStep(c) == \/ LockThread(c) \/ Refused(c) \/ StartOutput(c)
              \/ StopOutput(c) \/ Join(c) \/ Stopped(c)

CaptureStep(t) == Relock(t) \/ Exit(t) \/ Capture(t) \/ Sleep(t) \/ ReadPcm(t)

Next == \/ EffectCall
        \/ \E c \in Callers : CallHal(c) \/ HalStep(c)
        \/ \E t \in CaptureThreads : CaptureStep(t) \/ Spurious(t)
        \/ Driver

Spec == Init /\ [][Next]_vars

\* Threads run; a mutex that is given up again and again is had at last; reads
\* return and infinitely many succeed; the PCM can be opened from some time on.
Fairness ==
    /\ \A c \in Callers : /\ SF_vars(LockThread(c))
                          /\ SF_vars(Refused(c) \/ StartOutput(c)
                                        \/ StopOutput(c) \/ Stopped(c))
                          /\ WF_vars(Join(c))
    /\ \A t \in CaptureThreads :
          /\ SF_vars(Relock(t))
          /\ WF_vars(Exit(t) \/ Capture(t) \/ Sleep(t) \/ ReadPcm(t))
          /\ SF_vars(ReadPcm(t) /\ pc'[t] = "read")
    /\ <>[][~Driver]_vars /\ []<>ready

LiveSpec == Spec /\ Fairness

-----------------------------------------------------------------------------
(* Properties.                                                             *)

TypeOK ==
    /\ pc \in [Threads -> CallerLabels \cup CaptureLabels]
    /\ req \in [Callers -> [call : Calls, output : Outputs]]
    /\ thread_lock \in Callers \cup {Free}
    /\ lock \in CaptureThreads \cup {Free}
    /\ created \subseteq Effects
    /\ state \in [Effects -> {"INITIALIZED", "ACTIVE"}]
    /\ out_handle \in [Effects -> Outputs]
    /\ active \subseteq Outputs
    /\ effects_list \in [Outputs -> SUBSET Effects]
    /\ exit_thread \in BOOLEAN /\ thread_status \in BOOLEAN
    /\ capture_thread \in CaptureThreads
    /\ capturing \subseteq CaptureThreads
    /\ ready \in BOOLEAN /\ fed \subseteq Effects

\* The two ways the library finds an effect agree: whatever the order in which
\* outputs start and stop and effects are created, moved and released, an
\* active output's effects_list has exactly the created effects whose
\* out_handle names that output, so no call unlinks an effect from a list it
\* is not in and the thread is given no effect that was released.
ListsAgree == \A o \in Outputs :
                  effects_list[o] = IF o \in active THEN AttachedTo(o) ELSE {}

Alive(t) == pc[t] \notin {"none", "exited"}
Joining  == \E c \in Callers : pc[c] = "join"

\* The capture thread lives as long as an output is active: there is never a
\* second one, none when no output is active and no call is stopping it, and
\* one that was told to exit is being joined (thread_status, exit_thread,
\* pthread_create and pthread_join under thread_lock).
ThreadFollowsOutputs ==
    /\ \A t, u \in CaptureThreads : Alive(t) /\ Alive(u) => t = u
    /\ active # {} => (thread_status <=> Alive(capture_thread))
    /\ active = {} /\ ~Joining => \A t \in CaptureThreads : pc[t] = "none"
    /\ \A t \in CaptureThreads : Alive(t) /\ exit_thread => Joining

\* The capture PCM is open only in the one
\* live thread, and never in a thread that sleeps or has ended.
CaptureIsReleased ==
    \A t \in capturing : pc[t] \notin {"none", "begin", "asleep", "exited"}

\* While the thread sleeps on cond no effect of an active output is enabled.
\* Every call that can enable one signals; EFFECT_CMD_OFFLOAD does not, so this
\* needs a framework that moves only disabled effects (MoveActive = FALSE).
SleepsOnlyIdle == \A t \in CaptureThreads : pc[t] = "asleep" => ~EffectsEnabled

\* A call of the HAL returns: in particular the join in stop_output ends.
CallsReturn == \A c \in Callers : pc[c] # "idle" ~> pc[c] = "idle"

\* An effect that stays enabled, for an output that stays active, is given
\* audio again and again, if the thread could be created (the comment on
\* capture_thread).
EnabledIsFed ==
    \A e \in Effects :
        <>[](/\ e \in created /\ state[e] = "ACTIVE"
             /\ out_handle[e] \in active /\ thread_status)
            => []<>(e \in fed)
=============================================================================
