--------------------------- MODULE VisualizerProofs ---------------------------
(***************************************************************************)
(* What holds of Visualizer for any number of HAL threads, outputs and     *)
(* effects.  Each part of the invariant is inductive relative to the parts *)
(* before it: types, the owners of the mutexes, the lists, the life of the *)
(* capture thread, the PCM, the sleep.                                     *)
(*                                                                         *)
(* Then what holds of VisualizerCapture, for a ring, buffers, captures and *)
(* a window of any sizes.                                                  *)
(***************************************************************************)
EXTENDS Visualizer, VisualizerCapture, WellFoundedInduction, TLAPS

USE VisualizerAssumption

\* TypeOK says which labels there are; this says whose they are.
Labelled ==
    /\ \A c \in Callers : pc[c] \in CallerLabels
    /\ \A t \in CaptureThreads : pc[t] \in CaptureLabels

Types == TypeOK /\ Labelled

LEMMA SignalType ==
    ASSUME NEW p \in [Threads -> CallerLabels \cup CaptureLabels]
    PROVE  /\ Signal(p) \in [Threads -> CallerLabels \cup CaptureLabels]
           /\ \A x \in Threads : Signal(p)[x] = IF p[x] = "asleep" THEN "woken"
                                                ELSE p[x]
BY DEF Signal, CallerLabels, CaptureLabels

LEMMA LinkType ==
    ASSUME NEW links \in [Outputs -> SUBSET Effects], NEW e \in Effects,
           NEW o \in Outputs
    PROVE  Link(links, e, o) \in [Outputs -> SUBSET Effects]
BY DEF Link

LEMMA UnlinkType ==
    ASSUME NEW links \in [Outputs -> SUBSET Effects], NEW e \in Effects, TypeOK
    PROVE  Unlink(links, e) \in [Outputs -> SUBSET Effects]
BY DEF Unlink, TypeOK

LEMMA TypesInit == Init => Types
BY DEF Init, Types, TypeOK, Labelled, CallerLabels, CaptureLabels, Calls,
       Threads

LEMMA TypesStep == Types /\ [Next]_vars => Types'
<1> SUFFICES ASSUME Types, [Next]_vars PROVE Types'
  OBVIOUS
<1> USE DEF Types, effects, outputs, life, capture
<1>p. /\ pc \in [Threads -> CallerLabels \cup CaptureLabels]
      /\ Labelled
  BY DEF TypeOK
<1>s. /\ Signal(pc) \in [Threads -> CallerLabels \cup CaptureLabels]
      /\ \A x \in Threads : Signal(pc)[x] = IF pc[x] = "asleep" THEN "woken"
                                            ELSE pc[x]
  BY <1>p, SignalType
<1>1. CASE EffectCall
  <2>1. ASSUME NEW e \in Effects, NEW o \in Outputs, Create(e, o)
        PROVE  Types'
    BY <1>p, <2>1, LinkType DEF Create, TypeOK, Labelled
  <2>2. ASSUME NEW e \in Effects, NEW o \in Outputs, Offload(e, o)
        PROVE  Types'
    <3>1. Link(Unlink(effects_list, e), e, o) \in [Outputs -> SUBSET Effects]
      BY LinkType, UnlinkType DEF TypeOK
    <3> QED  BY <2>2, <3>1 DEF Offload, TypeOK, Labelled
  <2>3. ASSUME NEW e \in Effects, Release(e)  PROVE Types'
    BY <2>3, UnlinkType DEF Release, TypeOK, Labelled
  <2>4. ASSUME NEW e \in Effects, Enable(e) \/ Disable(e)  PROVE Types'
    <3>1. pc' = Signal(pc)
      BY <2>4 DEF Enable, Disable
    <3>2. Labelled'
      BY <1>p, <1>s, <3>1 DEF Labelled, CallerLabels, CaptureLabels, Threads
    <3> QED  BY <2>4, <1>s, <3>1, <3>2 DEF Enable, Disable, TypeOK
  <2> QED  BY <1>1, <2>1, <2>2, <2>3, <2>4 DEF EffectCall
<1>2. ASSUME NEW c \in Callers, CallHal(c) \/ HalStep(c)
      PROVE  Types'
  <2>c. c \in Threads
    BY DEF Threads
  <2>1. CASE CallHal(c)
    <3>1. req' \in [Callers -> [call : Calls, output : Outputs]]
      BY <2>1 DEF CallHal, TypeOK
    <3>2. /\ pc' \in [Threads -> CallerLabels \cup CaptureLabels]
          /\ Labelled'
      BY <2>1, <1>p DEF CallHal, Goto, Labelled, CallerLabels, CaptureLabels,
                           Threads
    <3> QED  BY <2>1, <3>1, <3>2 DEF CallHal, TypeOK
  <2>2. CASE LockThread(c)
    <3>2. /\ pc' \in [Threads -> CallerLabels \cup CaptureLabels]
          /\ Labelled'
      BY <2>2, <1>p DEF LockThread, Goto, Labelled, CallerLabels, CaptureLabels,
                           Threads
    <3> QED  BY <2>2, <3>2 DEF LockThread, TypeOK
  <2>r. ASSUME NEW p \in [Threads -> CallerLabels \cup CaptureLabels],
               \A y \in Callers : p[y] \in CallerLabels,
               \A y \in CaptureThreads : p[y] \in CaptureLabels,
               Return(c, p)
        PROVE  /\ pc' \in [Threads -> CallerLabels \cup CaptureLabels]
               /\ Labelled'
               /\ thread_lock' \in Callers \cup {Free}
    BY <2>r DEF Return, Labelled, CallerLabels, CaptureLabels, TypeOK, Threads
  <2>3. CASE Refused(c)
    BY <2>3, <2>r, <1>p DEF Refused, TypeOK, Labelled
  <2>4. CASE StartOutput(c)
    <3>1. /\ active' \subseteq Outputs
          /\ effects_list' \in [Outputs -> SUBSET Effects]
      BY <2>4 DEF StartOutput, AttachedTo, TypeOK
    <3>a. /\ \A y \in Callers : Signal(pc)[y] \in CallerLabels
          /\ \A y \in CaptureThreads : Signal(pc)[y] \in CaptureLabels
      BY <1>p, <1>s DEF Labelled, CallerLabels, CaptureLabels, Threads
    <3>b. ASSUME NEW t \in CaptureThreads
          PROVE  LET p == Signal([pc EXCEPT ![t] = "begin"])
                 IN  /\ p \in [Threads -> CallerLabels \cup CaptureLabels]
                     /\ \A y \in Callers : p[y] \in CallerLabels
                     /\ \A y \in CaptureThreads : p[y] \in CaptureLabels
      BY <1>p DEF Signal, Labelled, CallerLabels, CaptureLabels, Threads
    <3>2. /\ pc' \in [Threads -> CallerLabels \cup CaptureLabels]
          /\ Labelled'
          /\ thread_lock' \in Callers \cup {Free}
          /\ exit_thread' \in BOOLEAN /\ thread_status' \in BOOLEAN
          /\ capture_thread' \in CaptureThreads
      <4>1. CASE active = {}
        BY <4>1, <2>4, <1>s, <2>r, <3>a, <3>b
           DEF StartOutput, CreateThread, TypeOK
      <4>2. CASE active # {}
        BY <4>2, <2>4, <1>s, <2>r, <3>a DEF StartOutput, TypeOK
      <4> QED  BY <4>1, <4>2
    <3> QED  BY <2>4, <3>1, <3>2 DEF StartOutput, TypeOK
  <2>5. CASE StopOutput(c)
    <3>1. /\ active' \subseteq Outputs
          /\ effects_list' \in [Outputs -> SUBSET Effects]
      BY <2>5 DEF StopOutput, TypeOK
    <3>a. /\ \A y \in Callers : Signal(pc)[y] \in CallerLabels
          /\ \A y \in CaptureThreads : Signal(pc)[y] \in CaptureLabels
      BY <1>p, <1>s DEF Labelled, CallerLabels, CaptureLabels, Threads
    <3>b. LET p == Signal(Goto(c, "join"))
          IN  /\ p \in [Threads -> CallerLabels \cup CaptureLabels]
              /\ \A y \in Callers : p[y] \in CallerLabels
              /\ \A y \in CaptureThreads : p[y] \in CaptureLabels
      BY <1>p DEF Signal, Goto, Labelled, CallerLabels, CaptureLabels, Threads
    <3>2. /\ pc' \in [Threads -> CallerLabels \cup CaptureLabels]
          /\ Labelled'
          /\ thread_lock' \in Callers \cup {Free}
          /\ exit_thread' \in BOOLEAN /\ thread_status' \in BOOLEAN
          /\ capture_thread' \in CaptureThreads
      <4>1. CASE active = {req[c].output} /\ thread_status
        BY <4>1, <2>5, <3>b DEF StopOutput, TypeOK, Labelled
      <4>2. CASE ~(active = {req[c].output} /\ thread_status)
        BY <4>2, <2>5, <1>s, <2>r, <3>a DEF StopOutput, TypeOK
      <4> QED  BY <4>1, <4>2
    <3> QED  BY <2>5, <3>1, <3>2 DEF StopOutput, TypeOK
  <2>6. CASE Join(c)
    <3>1. /\ pc' \in [Threads -> CallerLabels \cup CaptureLabels]
          /\ Labelled'
      BY <2>6, <1>p DEF Join, Labelled, CallerLabels, CaptureLabels, TypeOK,
                        Threads
    <3> QED  BY <2>6, <3>1 DEF Join, TypeOK
  <2>7. CASE Stopped(c)
    BY <2>7, <2>r, <1>p DEF Stopped, TypeOK, Labelled
  <2> QED  BY <1>2, <2>1, <2>2, <2>3, <2>4, <2>5, <2>6, <2>7 DEF HalStep
<1>3. ASSUME NEW t \in CaptureThreads, CaptureStep(t) \/ Spurious(t)
      PROVE  Types'
  <2>1. ASSUME NEW l \in CaptureLabels, pc' = Goto(t, l)
        PROVE  /\ pc' \in [Threads -> CallerLabels \cup CaptureLabels]
               /\ Labelled'
    BY <2>1, <1>p DEF Goto, Labelled, Threads
  <2>2. \E l \in CaptureLabels : pc' = Goto(t, l)
    BY <1>3 DEF CaptureStep, Relock, Exit, Capture, Sleep, ReadPcm, Spurious,
                CaptureLabels
  <2>3. /\ pc' \in [Threads -> CallerLabels \cup CaptureLabels]
        /\ Labelled'
    BY <2>1, <2>2
  <2>4. Linked \subseteq Effects
    BY DEF Linked, TypeOK
  <2> QED  BY <1>3, <2>3, <2>4 DEF CaptureStep, Relock, Exit, Capture, Sleep,
                                   ReadPcm, Spurious, TypeOK
<1>4. CASE Driver
  BY <1>4 DEF Driver, TypeOK, Labelled
<1>5. CASE UNCHANGED vars
  BY <1>5 DEF vars, TypeOK, Labelled
<1> QED  BY <1>1, <1>2, <1>3, <1>4, <1>5 DEF Next

\* The library's state is well typed: an effect is never published before it is
\* initialized, and the capture thread alone holds lock over a step.
THEOREM TypeCorrect == Spec => []TypeOK
<1>1. Types => TypeOK
  BY DEF Types
<1> QED  BY <1>1, TypesInit, TypesStep, PTL DEF Spec

-----------------------------------------------------------------------------
(* The lists.                                                              *)

LEMMA ListsInit == Init => ListsAgree
BY DEF Init, ListsAgree

LEMMA LinkAt ==
    ASSUME NEW links \in [Outputs -> SUBSET Effects], NEW e \in Effects,
           NEW o \in Outputs, NEW p \in Outputs
    PROVE  Link(links, e, o)[p] = IF p = o /\ p \in active
                                  THEN links[p] \cup {e} ELSE links[p]
BY DEF Link

LEMMA UnlinkAt ==
    ASSUME NEW links \in [Outputs -> SUBSET Effects], NEW e \in Effects,
           out_handle[e] \in Outputs, NEW p \in Outputs
    PROVE  Unlink(links, e)[p] = IF p = out_handle[e] /\ p \in active
                                 THEN links[p] \ {e} ELSE links[p]
BY DEF Unlink

\* A call that changes neither the lists nor what they are made of.
LEMMA ListsKept ==
    ASSUME ListsAgree, UNCHANGED <<created, out_handle, active, effects_list>>
    PROVE  ListsAgree'
BY DEF ListsAgree, AttachedTo

LEMMA ListsStep == Types /\ ListsAgree /\ [Next]_vars => ListsAgree'
<1> SUFFICES ASSUME Types, ListsAgree, [Next]_vars PROVE ListsAgree'
  OBVIOUS
<1> USE DEF effects, outputs, life, capture
<1>t. /\ effects_list \in [Outputs -> SUBSET Effects]
      /\ out_handle \in [Effects -> Outputs]
      /\ created \subseteq Effects /\ active \subseteq Outputs
      /\ req \in [Callers -> [call : Calls, output : Outputs]]
  BY DEF Types, TypeOK
<1>1. CASE EffectCall
  <2>1. ASSUME NEW e \in Effects, NEW o \in Outputs, Create(e, o)
        PROVE  ListsAgree'
    <3> SUFFICES ASSUME NEW p \in Outputs
                 PROVE  effects_list'[p] = IF p \in active' THEN AttachedTo(p)'
                                           ELSE {}
      BY DEF ListsAgree
    <3>0. effects_list' = Link(effects_list, e, o)
      BY <2>1 DEF Create
    <3>1. effects_list'[p] = IF p = o /\ p \in active
                             THEN effects_list[p] \cup {e}
                             ELSE effects_list[p]
      <4>1. Link(effects_list, e, o)[p] = IF p = o /\ p \in active
                                          THEN effects_list[p] \cup {e}
                                          ELSE effects_list[p]
        BY <1>t DEF Link
      <4> QED  BY <3>0, <4>1
    <3>2. AttachedTo(p)' = IF p = o THEN AttachedTo(p) \cup {e}
                           ELSE AttachedTo(p)
      BY <1>t, <2>1 DEF Create, AttachedTo
    <3>3. /\ active' = active
          /\ effects_list[p] = IF p \in active THEN AttachedTo(p) ELSE {}
      BY <2>1 DEF Create, ListsAgree
    <3> QED  BY <3>1, <3>2, <3>3
  <2>2. ASSUME NEW e \in Effects, NEW o \in Outputs, Offload(e, o)
        PROVE  ListsAgree'
    <3> SUFFICES ASSUME NEW p \in Outputs
                 PROVE  effects_list'[p] = IF p \in active' THEN AttachedTo(p)'
                                           ELSE {}
      BY DEF ListsAgree
    <3>0. Unlink(effects_list, e) \in [Outputs -> SUBSET Effects]
      BY <1>t, UnlinkType DEF Types
    <3>1. effects_list'[p] =
             IF p = o /\ p \in active THEN Unlink(effects_list, e)[p] \cup {e}
             ELSE Unlink(effects_list, e)[p]
      <4> DEFINE links == Unlink(effects_list, e)
      <4>1. effects_list' = Link(links, e, o)
        BY <2>2 DEF Offload
      <4> HIDE DEF links
      <4>2. Link(links, e, o)[p] = IF p = o /\ p \in active
                                   THEN links[p] \cup {e} ELSE links[p]
        BY <3>0, LinkAt DEF links
      <4> QED  BY <4>1, <4>2 DEF links
    <3>2. Unlink(effects_list, e)[p] =
             IF p = out_handle[e] /\ p \in active THEN effects_list[p] \ {e}
             ELSE effects_list[p]
      BY <1>t, UnlinkAt
    <3>3. AttachedTo(p)' = IF p = o THEN AttachedTo(p) \cup {e}
                           ELSE IF p = out_handle[e] THEN AttachedTo(p) \ {e}
                                ELSE AttachedTo(p)
      BY <1>t, <2>2 DEF Offload, AttachedTo
    <3>4. /\ active' = active /\ out_handle[e] # o
          /\ effects_list[p] = IF p \in active THEN AttachedTo(p) ELSE {}
      BY <2>2 DEF Offload, ListsAgree
    <3> QED  BY <3>1, <3>2, <3>3, <3>4
  <2>3. ASSUME NEW e \in Effects, Release(e)  PROVE ListsAgree'
    <3> SUFFICES ASSUME NEW p \in Outputs
                 PROVE  effects_list'[p] = IF p \in active' THEN AttachedTo(p)'
                                           ELSE {}
      BY DEF ListsAgree
    <3>1. effects_list'[p] =
             IF p = out_handle[e] /\ p \in active THEN effects_list[p] \ {e}
             ELSE effects_list[p]
      BY <1>t, <2>3, UnlinkAt DEF Release
    <3>2. AttachedTo(p)' = IF p = out_handle[e] THEN AttachedTo(p) \ {e}
                           ELSE AttachedTo(p)
      BY <1>t, <2>3 DEF Release, AttachedTo
    <3>3. /\ active' = active
          /\ effects_list[p] = IF p \in active THEN AttachedTo(p) ELSE {}
      BY <2>3 DEF Release, ListsAgree
    <3> QED  BY <3>1, <3>2, <3>3
  <2>4. ASSUME NEW e \in Effects, Enable(e) \/ Disable(e)  PROVE ListsAgree'
    BY <2>4, ListsKept DEF Enable, Disable
  <2> QED  BY <1>1, <2>1, <2>2, <2>3, <2>4 DEF EffectCall
<1>2. ASSUME NEW c \in Callers, CallHal(c) \/ HalStep(c)
      PROVE  ListsAgree'
  <2>1. CASE StartOutput(c)
    BY <1>t, <2>1 DEF StartOutput, ListsAgree, AttachedTo
  <2>2. CASE StopOutput(c)
    BY <1>t, <2>2 DEF StopOutput, ListsAgree, AttachedTo
  <2>3. CASE CallHal(c) \/ LockThread(c) \/ Refused(c) \/ Join(c) \/ Stopped(c)
    BY <2>3, ListsKept DEF CallHal, LockThread, Refused, Join, Stopped
  <2> QED  BY <1>2, <2>1, <2>2, <2>3 DEF HalStep
<1>3. ASSUME NEW t \in CaptureThreads, CaptureStep(t) \/ Spurious(t)
      PROVE  ListsAgree'
  BY <1>3, ListsKept DEF CaptureStep, Relock, Exit, Capture, Sleep, ReadPcm,
                         Spurious
<1>4. CASE Driver
  BY <1>4, ListsKept DEF Driver
<1>5. CASE UNCHANGED vars
  BY <1>5, ListsKept DEF vars
<1> QED  BY <1>1, <1>2, <1>3, <1>4, <1>5 DEF Next

-----------------------------------------------------------------------------
(* The life of the capture thread.                                         *)

\* thread_lock is owned by the call that is past it.
ThreadLockInv ==
    \A c \in Callers : pc[c] \in {"lock", "join", "relock"} => thread_lock = c

Stopping == \E c \in Callers : pc[c] \in {"join", "relock"}

\* The only thread there can be is the last one created.  Outside a stop it
\* runs, wanted, exactly if it was created; a stop asks it to exit, joins it
\* and only then lets thread_lock go.
LifeInv ==
    /\ \A t \in CaptureThreads : pc[t] # "none" =>
           t = capture_thread /\ thread_status
    /\ ~Stopping =>
           /\ thread_status => /\ active # {} /\ ~exit_thread
                               /\ Alive(capture_thread)
           /\ ~thread_status => pc[capture_thread] = "none"
    /\ \A c \in Callers : pc[c] = "join" =>
           /\ active = {} /\ thread_status /\ exit_thread
           /\ pc[capture_thread] # "none"
    /\ \A c \in Callers : pc[c] = "relock" =>
           active = {} /\ pc[capture_thread] = "none"

LEMMA LifeInit == Init => ThreadLockInv /\ LifeInv
BY DEF Init, ThreadLockInv, LifeInv, Stopping, Alive, Threads

\* A step that touches no thread's life: nobody enters or leaves a HAL call
\* past thread_lock, and no capture thread starts, ends or is joined.
LEMMA LifeKept ==
    ASSUME Types, Types', LifeInv, UNCHANGED <<active, life>>,
           \A c \in Callers : pc'[c] \in {"join", "relock"} => pc'[c] = pc[c],
           \A c \in Callers : pc[c] \in {"join", "relock"} => pc'[c] = pc[c],
           \A t \in CaptureThreads :
               /\ pc[t] = "none" <=> pc'[t] = "none"
               /\ pc[t] = "exited" <=> pc'[t] = "exited"
    PROVE  LifeInv'
<1>1. capture_thread \in CaptureThreads
  BY DEF Types, TypeOK
<1>2. Stopping' <=> Stopping
  BY DEF Stopping
<1>3. Alive(capture_thread)' <=> Alive(capture_thread)
  BY <1>1 DEF Alive, life
<1> QED  BY <1>1, <1>2, <1>3 DEF LifeInv, life

LEMMA LifeStep ==
    Types /\ Types' /\ ThreadLockInv /\ LifeInv /\ [Next]_vars
        => ThreadLockInv' /\ LifeInv'
<1> SUFFICES ASSUME Types, Types', ThreadLockInv, LifeInv, [Next]_vars
             PROVE  ThreadLockInv' /\ LifeInv'
  OBVIOUS
<1>t. /\ pc \in [Threads -> CallerLabels \cup CaptureLabels] /\ Labelled
      /\ Labelled'
      /\ capture_thread \in CaptureThreads /\ thread_status \in BOOLEAN
      /\ exit_thread \in BOOLEAN
      /\ thread_lock \in Callers \cup {Free}
      /\ Callers \cap CaptureThreads = {} /\ Free \notin Callers
      /\ Callers \subseteq Threads /\ CaptureThreads \subseteq Threads
  BY DEF Types, TypeOK, Threads
<1>s. \A x \in Threads : Signal(pc)[x] = IF pc[x] = "asleep" THEN "woken"
                                         ELSE pc[x]
  BY DEF Signal
<1>w. \A c \in Callers : pc[c] # "asleep"
  BY <1>t DEF Labelled, CallerLabels
<1>1. CASE EffectCall \/ Driver \/ UNCHANGED vars
  <2>1. pc' = pc \/ pc' = Signal(pc)
    BY <1>1 DEF EffectCall, Create, Offload, Release, Enable, Disable,
                Driver, vars
  <2>2. UNCHANGED <<active, life, thread_lock>>
    BY <1>1 DEF EffectCall, Create, Offload, Release, Enable, Disable,
                Driver, vars, outputs
  <2>3. \A c \in Callers : pc'[c] = pc[c]
    BY <2>1, <1>s, <1>t, <1>w
  <2>4. \A t \in CaptureThreads : /\ pc[t] = "none" <=> pc'[t] = "none"
                                  /\ pc[t] = "exited" <=> pc'[t] = "exited"
    BY <2>1, <1>s, <1>t
  <2>5. LifeInv'
    BY <2>2, <2>3, <2>4, LifeKept
  <2>6. ThreadLockInv'
    BY <2>2, <2>3 DEF ThreadLockInv
  <2> QED  BY <2>5, <2>6
<1>2. ASSUME NEW t \in CaptureThreads, Relock(t) \/ Capture(t) \/ Sleep(t)
                                          \/ ReadPcm(t) \/ Spurious(t)
      PROVE  ThreadLockInv' /\ LifeInv'
  <2>1. /\ \A x \in Threads : x # t => pc'[x] = pc[x]
        /\ pc[t] \notin {"none", "exited"} /\ pc'[t] \notin {"none", "exited"}
        /\ UNCHANGED <<active, life, thread_lock>>
    BY <1>2, <1>t DEF Relock, Capture, Sleep, ReadPcm, Spurious, Goto, Wants,
                      outputs
  <2>2. \A c \in Callers : pc'[c] = pc[c]
    BY <2>1, <1>t
  <2>3. LifeInv'
    BY <2>1, <2>2, LifeKept, <1>t
  <2>4. ThreadLockInv'
    BY <2>1, <2>2 DEF ThreadLockInv
  <2> QED  BY <2>3, <2>4
<1>3. ASSUME NEW t \in CaptureThreads, Exit(t)
      PROVE  ThreadLockInv' /\ LifeInv'
  <2>1. /\ pc' = [pc EXCEPT ![t] = "exited"] /\ pc[t] = "evaluate"
        /\ exit_thread /\ UNCHANGED <<active, life, thread_lock>>
    BY <1>3 DEF Exit, Goto, outputs
  <2>2. \A x \in Threads : pc'[x] = IF x = t THEN "exited" ELSE pc[x]
    BY <2>1, <1>t
  <2>3. t = capture_thread /\ thread_status
    BY <2>1 DEF LifeInv
  <2>4. Stopping /\ Stopping'
    BY <2>1, <2>2, <2>3, <1>t DEF LifeInv, Stopping
  <2>5. LifeInv'
    BY <2>1, <2>2, <2>3, <2>4, <1>t DEF LifeInv, life
  <2>6. ThreadLockInv'
    BY <2>1, <2>2, <1>t DEF ThreadLockInv
  <2> QED  BY <2>5, <2>6
<1>4. ASSUME NEW c \in Callers, CallHal(c) \/ LockThread(c) \/ Refused(c)
      PROVE  ThreadLockInv' /\ LifeInv'
  <2>1. /\ \A x \in Threads : x # c => pc'[x] = pc[x]
        /\ pc[c] \notin {"join", "relock"} /\ pc'[c] \notin {"join", "relock"}
        /\ UNCHANGED <<active, life>>
    BY <1>4, <1>t DEF CallHal, LockThread, Refused, InCall, Return, Goto,
                      outputs
  <2>2. \A t \in CaptureThreads : pc'[t] = pc[t]
    BY <2>1, <1>t
  <2>3. LifeInv'
    BY <2>1, <2>2, LifeKept, <1>t
  <2>4. ThreadLockInv'
    <3>1. CASE CallHal(c)
      BY <3>1, <2>1, <1>t DEF CallHal, Goto, ThreadLockInv
    <3>2. CASE LockThread(c)
      BY <3>2, <2>1, <1>t DEF LockThread, Goto, ThreadLockInv
    <3>3. CASE Refused(c)
      BY <3>3, <2>1, <1>t DEF Refused, InCall, Return, ThreadLockInv
    <3> QED  BY <1>4, <3>1, <3>2, <3>3
  <2> QED  BY <2>3, <2>4
<1>5. ASSUME NEW c \in Callers, StartOutput(c)
      PROVE  ThreadLockInv' /\ LifeInv'
  <2>1. /\ pc[c] = "lock" /\ thread_lock = c /\ ~Stopping
        /\ \A d \in Callers \ {c} : pc[d] \notin {"lock", "join", "relock"}
    BY <1>5, <1>t DEF StartOutput, InCall, ThreadLockInv, Stopping
  <2>2. active' = active \cup {req[c].output}
    BY <1>5 DEF StartOutput
  <2>3. CASE active # {}
    <3>1. /\ pc' = [Signal(pc) EXCEPT ![c] = "idle"] /\ UNCHANGED life
      BY <1>5, <2>3 DEF StartOutput, Return
    <3>2. \A x \in Threads :
              pc'[x] = IF x = c THEN "idle"
                       ELSE IF pc[x] = "asleep" THEN "woken" ELSE pc[x]
      BY <3>1, <1>s, <1>t DEF Signal
    <3>3. ~Stopping'
      BY <2>1, <3>2, <1>t, <1>w DEF Stopping
    <3>4. LifeInv'
      BY <2>1, <2>2, <3>1, <3>2, <3>3, <1>t DEF LifeInv, Alive, Stopping, life
    <3>5. ThreadLockInv'
      BY <2>1, <3>2, <1>t, <1>w DEF ThreadLockInv
    <3> QED  BY <3>4, <3>5
  <2>4. CASE active = {}
    <3>1. \A t \in CaptureThreads : pc[t] = "none"
      BY <2>1, <2>4 DEF LifeInv
    <3>2. exit_thread' = FALSE /\ CreateThread(c, pc)
      BY <1>5, <2>4 DEF StartOutput
    <3>3. CASE thread_status' = FALSE /\ Return(c, Signal(pc))
               /\ UNCHANGED capture_thread
      <4>1. \A x \in Threads :
                pc'[x] = IF x = c THEN "idle"
                         ELSE IF pc[x] = "asleep" THEN "woken" ELSE pc[x]
        BY <3>3, <1>s, <1>t DEF Return, Signal
      <4>2. ~Stopping'
        BY <2>1, <4>1, <1>t, <1>w DEF Stopping
      <4>3. LifeInv'
        BY <2>1, <3>1, <3>3, <4>1, <4>2, <1>t DEF LifeInv, Stopping
      <4>4. ThreadLockInv'
        BY <2>1, <4>1, <1>t, <1>w DEF ThreadLockInv
      <4> QED  BY <4>3, <4>4
    <3>4. ASSUME NEW t \in CaptureThreads, capture_thread' = t,
                 thread_status' = TRUE,
                 Return(c, Signal([pc EXCEPT ![t] = "begin"]))
          PROVE  ThreadLockInv' /\ LifeInv'
      <4>1. \A x \in Threads :
                pc'[x] = IF x = c THEN "idle" ELSE IF x = t THEN "begin"
                         ELSE IF pc[x] = "asleep" THEN "woken" ELSE pc[x]
        BY <3>4, <1>t DEF Return, Signal
      <4>2. ~Stopping'
        BY <2>1, <4>1, <1>t, <1>w DEF Stopping
      <4>3. LifeInv'
        BY <2>1, <2>2, <3>1, <3>2, <3>4, <4>1, <4>2, <1>t
           DEF LifeInv, Stopping, Alive
      <4>4. ThreadLockInv'
        BY <2>1, <4>1, <1>t, <1>w DEF ThreadLockInv
      <4> QED  BY <4>3, <4>4
    <3> QED  BY <3>2, <3>3, <3>4 DEF CreateThread
  <2> QED  BY <2>3, <2>4
<1>6. ASSUME NEW c \in Callers, StopOutput(c)
      PROVE  ThreadLockInv' /\ LifeInv'
  <2>1. /\ pc[c] = "lock" /\ thread_lock = c /\ ~Stopping
        /\ \A d \in Callers \ {c} : pc[d] \notin {"lock", "join", "relock"}
    BY <1>6, <1>t DEF StopOutput, InCall, ThreadLockInv, Stopping
  <2>2. active' = active \ {req[c].output}
    BY <1>6 DEF StopOutput
  <2>3. CASE active = {req[c].output} /\ thread_status
    <3>1. /\ exit_thread' = TRUE /\ pc' = Signal(Goto(c, "join"))
          /\ UNCHANGED <<thread_lock, thread_status, capture_thread>>
      BY <1>6, <2>3 DEF StopOutput
    <3>2. \A x \in Threads :
              pc'[x] = IF x = c THEN "join"
                       ELSE IF pc[x] = "asleep" THEN "woken" ELSE pc[x]
      BY <3>1, <1>t DEF Signal, Goto
    <3>3. Stopping'
      BY <3>2, <1>t DEF Stopping
    <3>4. Alive(capture_thread)
      BY <2>1, <2>3 DEF LifeInv
    <3>5. LifeInv'
      BY <2>1, <2>2, <2>3, <3>1, <3>2, <3>3, <3>4, <1>t DEF LifeInv, Alive
    <3>6. ThreadLockInv'
      BY <2>1, <3>1, <3>2, <1>t, <1>w DEF ThreadLockInv
    <3> QED  BY <3>5, <3>6
  <2>4. CASE ~(active = {req[c].output} /\ thread_status)
    <3>1. Return(c, Signal(pc)) /\ UNCHANGED life
      BY <1>6, <2>4 DEF StopOutput
    <3>2. \A x \in Threads :
              pc'[x] = IF x = c THEN "idle"
                       ELSE IF pc[x] = "asleep" THEN "woken" ELSE pc[x]
      BY <3>1, <1>s, <1>t DEF Return, Signal
    <3>3. ~Stopping'
      BY <2>1, <3>2, <1>t, <1>w DEF Stopping
    <3>4. thread_status => active' # {}
      BY <1>6, <2>1, <2>2, <2>4 DEF StopOutput
    <3>5. LifeInv'
      BY <2>1, <3>1, <3>2, <3>3, <3>4, <1>t DEF LifeInv, Alive, Stopping, life
    <3>6. ThreadLockInv'
      BY <2>1, <3>2, <1>t, <1>w DEF ThreadLockInv
    <3> QED  BY <3>5, <3>6
  <2> QED  BY <2>3, <2>4
<1>7. ASSUME NEW c \in Callers, Join(c)
      PROVE  ThreadLockInv' /\ LifeInv'
  <2>1. /\ pc[c] = "join" /\ thread_lock = c
        /\ \A d \in Callers \ {c} : pc[d] \notin {"lock", "join", "relock"}
    BY <1>7, <1>t DEF Join, ThreadLockInv
  <2>2. /\ pc' = [pc EXCEPT ![c] = "relock", ![capture_thread] = "none"]
        /\ UNCHANGED <<active, life, thread_lock>>
    BY <1>7 DEF Join, outputs
  <2>3. \A x \in Threads : pc'[x] = IF x = c THEN "relock"
                                    ELSE IF x = capture_thread THEN "none"
                                    ELSE pc[x]
    BY <2>2, <1>t
  <2>4. Stopping' /\ active = {}
    BY <2>1, <2>3, <1>t DEF Stopping, LifeInv
  <2>5. LifeInv'
    BY <2>1, <2>2, <2>3, <2>4, <1>t DEF LifeInv, life
  <2>6. ThreadLockInv'
    BY <2>1, <2>2, <2>3, <1>t DEF ThreadLockInv
  <2> QED  BY <2>5, <2>6
<1>8. ASSUME NEW c \in Callers, Stopped(c)
      PROVE  ThreadLockInv' /\ LifeInv'
  <2>1. /\ pc[c] = "relock" /\ thread_lock = c
        /\ \A d \in Callers \ {c} : pc[d] \notin {"lock", "join", "relock"}
    BY <1>8, <1>t DEF Stopped, ThreadLockInv
  <2>2. /\ pc' = [pc EXCEPT ![c] = "idle"] /\ thread_status' = FALSE
        /\ UNCHANGED <<active, capture_thread>>
    BY <1>8 DEF Stopped, Return, outputs
  <2>3. \A x \in Threads : pc'[x] = IF x = c THEN "idle" ELSE pc[x]
    BY <2>2, <1>t
  <2>4. \A t \in CaptureThreads : pc[t] = "none"
    BY <2>1 DEF LifeInv
  <2>5. ~Stopping'
    BY <2>1, <2>3, <1>t DEF Stopping
  <2>6. LifeInv'
    BY <2>1, <2>2, <2>3, <2>4, <2>5, <1>t DEF LifeInv, Stopping
  <2>7. ThreadLockInv'
    BY <2>1, <2>3, <1>t DEF ThreadLockInv
  <2> QED  BY <2>6, <2>7
<1> QED
  BY <1>1, <1>2, <1>3, <1>4, <1>5, <1>6, <1>7, <1>8
     DEF Next, HalStep, CaptureStep

-----------------------------------------------------------------------------
(* The PCM and the sleep.                                                  *)

LEMMA PcmStep ==
    Types /\ Types' /\ CaptureIsReleased /\ [Next]_vars => CaptureIsReleased'
<1> SUFFICES ASSUME Types, Types', CaptureIsReleased, [Next]_vars
             PROVE  CaptureIsReleased'
  OBVIOUS
<1>t. /\ pc \in [Threads -> CallerLabels \cup CaptureLabels] /\ Labelled
      /\ capture_thread \in CaptureThreads
      /\ capturing \subseteq CaptureThreads
      /\ Callers \cap CaptureThreads = {}
      /\ Callers \subseteq Threads /\ CaptureThreads \subseteq Threads
  BY DEF Types, TypeOK, Threads
<1>1. CASE EffectCall \/ Driver \/ UNCHANGED vars
  <2>1. (pc' = pc \/ pc' = Signal(pc)) /\ UNCHANGED capturing
    BY <1>1 DEF EffectCall, Create, Offload, Release, Enable, Disable,
                Driver, vars, capture
  <2> QED  BY <2>1, <1>t DEF CaptureIsReleased, Signal
<1>2. ASSUME NEW t \in CaptureThreads, CaptureStep(t) \/ Spurious(t)
      PROVE  CaptureIsReleased'
  <2>1. \A x \in Threads : x # t => pc'[x] = pc[x]
    BY <1>2, <1>t DEF CaptureStep, Relock, Exit, Capture, Sleep, ReadPcm,
                      Spurious, Goto
  <2>2. \/ capturing' = capturing \ {t}
        \/ /\ capturing' \in {capturing, capturing \cup {t}}
           /\ pc'[t] \in {"woken", "evaluate", "reading", "read", "failed"}
    BY <1>2, <1>t DEF CaptureStep, Relock, Exit, Capture, Sleep, ReadPcm,
                      Spurious, Goto, capture
  <2> QED  BY <2>1, <2>2, <1>t DEF CaptureIsReleased
<1>3. ASSUME NEW c \in Callers, CallHal(c) \/ HalStep(c)
      PROVE  CaptureIsReleased'
  <2>0. UNCHANGED capturing
    BY <1>3 DEF CallHal, HalStep, LockThread, Refused, StartOutput, StopOutput,
                Join, Stopped, capture
  <2>1. CASE CallHal(c) \/ LockThread(c) \/ Refused(c) \/ Stopped(c)
    BY <2>0, <2>1, <1>t DEF CallHal, LockThread, Refused, Stopped, Return, Goto,
                            CaptureIsReleased
  <2>2. CASE StartOutput(c)
    <3>1. \/ Return(c, Signal(pc))
          \/ \E t \in CaptureThreads :
                pc[t] = "none" /\ Return(c, Signal([pc EXCEPT ![t] = "begin"]))
      BY <2>2 DEF StartOutput, CreateThread
    <3>2. CASE Return(c, Signal(pc))
      BY <3>2, <2>0, <1>t DEF Return, Signal, CaptureIsReleased
    <3>3. ASSUME NEW t \in CaptureThreads, pc[t] = "none",
                 Return(c, Signal([pc EXCEPT ![t] = "begin"]))
          PROVE  CaptureIsReleased'
      <4>1. \A x \in Threads :
                pc'[x] = IF x = c THEN "idle" ELSE IF x = t THEN "begin"
                         ELSE IF pc[x] = "asleep" THEN "woken" ELSE pc[x]
        BY <3>3, <1>t DEF Return, Signal
      <4>2. t \notin capturing
        BY <3>3 DEF CaptureIsReleased
      <4> QED  BY <4>1, <4>2, <2>0, <1>t DEF CaptureIsReleased
    <3> QED  BY <3>1, <3>2, <3>3
  <2>3. CASE StopOutput(c)
    <3>1. \A x \in CaptureThreads :
              pc'[x] = IF pc[x] = "asleep" THEN "woken" ELSE pc[x]
      BY <2>3, <1>t DEF StopOutput, Return, Signal, Goto
    <3> QED  BY <3>1, <2>0, <1>t DEF CaptureIsReleased
  <2>4. CASE Join(c)
    <3>1. pc[capture_thread] = "exited" /\ \A x \in CaptureThreads :
              pc'[x] = IF x = capture_thread THEN "none" ELSE pc[x]
      BY <2>4, <1>t DEF Join
    <3> QED  BY <3>1, <2>0, <1>t DEF CaptureIsReleased
  <2> QED  BY <1>3, <2>1, <2>2, <2>3, <2>4 DEF HalStep
<1> QED  BY <1>1, <1>2, <1>3 DEF Next

\* With the lists in agreement, an effect of an active output is enabled when
\* some created effect is enabled and names an active output.
Wanted == \E e \in created : out_handle[e] \in active /\ state[e] = "ACTIVE"

LEMMA WantedIsEnabled ==
    ASSUME TypeOK, ListsAgree PROVE EffectsEnabled <=> Wanted
BY DEF EffectsEnabled, Linked, Wanted, ListsAgree, AttachedTo, TypeOK

LEMMA SleepStep ==
    ASSUME MoveActive = FALSE, Types, Types', ListsAgree, ListsAgree',
           SleepsOnlyIdle, [Next]_vars
    PROVE  SleepsOnlyIdle'
<1> DEFINE Idle == \A t \in CaptureThreads : pc[t] = "asleep" => ~Wanted
<1>t. /\ pc \in [Threads -> CallerLabels \cup CaptureLabels] /\ Labelled
      /\ capture_thread \in CaptureThreads
      /\ Callers \cap CaptureThreads = {}
      /\ Callers \subseteq Threads /\ CaptureThreads \subseteq Threads
      /\ out_handle \in [Effects -> Outputs] /\ created \subseteq Effects
      /\ state \in [Effects -> {"INITIALIZED", "ACTIVE"}]
  BY DEF Types, TypeOK, Threads
<1>w. (EffectsEnabled <=> Wanted) /\ (EffectsEnabled' <=> Wanted')
  <2>1. EffectsEnabled <=> Wanted
    BY WantedIsEnabled DEF Types
  <2>2. EffectsEnabled' <=> Wanted'
    BY DEF EffectsEnabled, Linked, Wanted, ListsAgree, AttachedTo, Types, TypeOK
  <2> QED  BY <2>1, <2>2
<1>i. Idle
  BY <1>w DEF SleepsOnlyIdle
<1>1. CASE EffectCall
  <2>1. ASSUME NEW e \in Effects, NEW o \in Outputs, Create(e, o)
        PROVE  pc' = pc /\ (Wanted' => Wanted)
    BY <2>1, <1>t DEF Create, Wanted
  <2>2. ASSUME NEW e \in Effects, NEW o \in Outputs, Offload(e, o)
        PROVE  pc' = pc /\ (Wanted' => Wanted)
    BY <2>2, <1>t DEF Offload, Wanted
  <2>3. ASSUME NEW e \in Effects, Release(e)
        PROVE  pc' = pc /\ (Wanted' => Wanted)
    BY <2>3, <1>t DEF Release, Wanted
  <2>4. ASSUME NEW e \in Effects, Enable(e) \/ Disable(e)
        PROVE  \A t \in CaptureThreads : pc'[t] # "asleep"
    BY <2>4, <1>t DEF Enable, Disable, Signal
  <2> QED  BY <1>1, <1>i, <1>w, <2>1, <2>2, <2>3, <2>4
           DEF EffectCall, SleepsOnlyIdle
<1>2. ASSUME NEW t \in CaptureThreads, CaptureStep(t) \/ Spurious(t)
      PROVE  SleepsOnlyIdle'
  <2>1. \A x \in Threads : x # t => pc'[x] = pc[x]
    BY <1>2, <1>t DEF CaptureStep, Relock, Exit, Capture, Sleep, ReadPcm,
                      Spurious, Goto
  <2>2. Wanted' <=> Wanted
    BY <1>2 DEF CaptureStep, Relock, Exit, Capture, Sleep, ReadPcm, Spurious,
                Wanted, effects, outputs
  <2>3. pc'[t] = "asleep" => ~EffectsEnabled
    BY <1>2, <1>t DEF CaptureStep, Relock, Exit, Capture, Sleep, ReadPcm,
                      Spurious, Goto
  <2> QED  BY <2>1, <2>2, <2>3, <1>i, <1>w, <1>t DEF SleepsOnlyIdle
<1>3. ASSUME NEW c \in Callers, CallHal(c) \/ HalStep(c)
      PROVE  SleepsOnlyIdle'
  <2>1. CASE CallHal(c) \/ LockThread(c) \/ Refused(c) \/ Stopped(c)
    <3>1. \A x \in CaptureThreads : pc'[x] = pc[x]
      BY <2>1, <1>t DEF CallHal, LockThread, Refused, Stopped, Return, Goto
    <3>2. Wanted' <=> Wanted
      BY <2>1 DEF CallHal, LockThread, Refused, Stopped, Wanted, effects,
                  outputs
    <3> QED  BY <3>1, <3>2, <1>i, <1>w DEF SleepsOnlyIdle
  <2>2. CASE StartOutput(c)
    <3>1. ASSUME NEW p, Return(c, Signal(p))
          PROVE  \A x \in CaptureThreads : pc'[x] # "asleep"
      BY <3>1, <1>t DEF Return, Signal
    <3>2. \E p : Return(c, Signal(p))
      BY <2>2 DEF StartOutput, CreateThread
    <3> QED  BY <3>1, <3>2 DEF SleepsOnlyIdle
  <2>3. CASE StopOutput(c)
    <3>1. \A x \in CaptureThreads : pc'[x] # "asleep"
      BY <2>3, <1>t DEF StopOutput, Return, Signal, Goto
    <3> QED  BY <3>1 DEF SleepsOnlyIdle
  <2>4. CASE Join(c)
    <3>1. \A x \in CaptureThreads : pc'[x] = "asleep" => pc[x] = "asleep"
      BY <2>4, <1>t DEF Join
    <3>2. Wanted' <=> Wanted
      BY <2>4 DEF Join, Wanted, effects, outputs
    <3> QED  BY <3>1, <3>2, <1>i, <1>w DEF SleepsOnlyIdle
  <2> QED  BY <1>3, <2>1, <2>2, <2>3, <2>4 DEF HalStep
<1>4. CASE Driver \/ UNCHANGED vars
  <2>1. pc' = pc /\ (Wanted' <=> Wanted)
    BY <1>4 DEF Driver, vars, Wanted, effects, outputs
  <2> QED  BY <2>1, <1>i, <1>w DEF SleepsOnlyIdle
<1> QED  BY <1>1, <1>2, <1>3, <1>4 DEF Next

-----------------------------------------------------------------------------
(* The theorems.                                                           *)

Inv == Types /\ ListsAgree /\ ThreadLockInv /\ LifeInv /\ CaptureIsReleased

LEMMA Invariance == Spec => []Inv
<1>1. Init => Inv
  BY TypesInit, ListsInit, LifeInit
     DEF Init, Inv, CaptureIsReleased
<1>2. Inv /\ [Next]_vars => Inv'
  BY TypesStep, ListsStep, LifeStep, PcmStep DEF Inv
<1> QED  BY <1>1, <1>2, PTL DEF Spec

\* Whatever the order of calls, an active output's list holds exactly the
\* created effects that name the output.
THEOREM ListsCorrect == Spec => []ListsAgree
<1>1. Inv => ListsAgree
  BY DEF Inv
<1> QED  BY <1>1, Invariance, PTL

\* For any number of HAL threads starting and stopping any outputs, and with
\* thread creation failing at will, there is at most one capture thread, it
\* exists exactly while an output is active, and it is joined before the stop
\* that ends it lets another call start it again.
THEOREM ThreadSafe == Spec => []ThreadFollowsOutputs
<1>1. Inv => ThreadFollowsOutputs
  <2> SUFFICES ASSUME Inv PROVE ThreadFollowsOutputs
    OBVIOUS
  <2>1. \A c \in Callers : pc[c] \in {"join", "relock"} => active = {}
    BY DEF Inv, LifeInv
  <2>2. active # {} => ~Stopping
    BY <2>1 DEF Stopping
  <2>3. \A c \in Callers : pc[c] = "relock" =>
            \A t \in CaptureThreads : pc[t] = "none"
    BY DEF Inv, LifeInv
  <2>4. Stopping /\ ~Joining => \A t \in CaptureThreads : pc[t] = "none"
    BY <2>3 DEF Stopping, Joining
  <2>5. ~Stopping /\ active = {} => \A t \in CaptureThreads : pc[t] = "none"
    BY DEF Inv, LifeInv
  <2>6. ASSUME NEW t \in CaptureThreads, Alive(t), exit_thread
        PROVE  Joining
    BY <2>4, <2>6 DEF Inv, LifeInv, Alive
  <2>7. \A t, u \in CaptureThreads : Alive(t) /\ Alive(u) => t = u
    BY DEF Inv, LifeInv, Alive
  <2>8. active # {} => (thread_status <=> Alive(capture_thread))
    BY <2>2 DEF Inv, LifeInv, Alive
  <2> QED  BY <2>4, <2>5, <2>6, <2>7, <2>8 DEF ThreadFollowsOutputs
<1> QED  BY <1>1, Invariance, PTL

\* No thread that sleeps, has ended or has not begun has the capture PCM open.
THEOREM PcmReleased == Spec => []CaptureIsReleased
<1>1. Inv => CaptureIsReleased
  BY DEF Inv
<1> QED  BY <1>1, Invariance, PTL

\* If the framework moves only disabled effects, the capture thread never
\* sleeps while an effect of an active output is enabled: no wakeup is lost.
THEOREM NoLostEnable == MoveActive = FALSE => (Spec => []SleepsOnlyIdle)
<1> SUFFICES ASSUME MoveActive = FALSE PROVE Spec => []SleepsOnlyIdle
  OBVIOUS
<1>1. Init => SleepsOnlyIdle
  BY DEF Init, SleepsOnlyIdle, Threads
<1>2. Inv /\ Inv' /\ SleepsOnlyIdle /\ [Next]_vars => SleepsOnlyIdle'
  BY SleepStep DEF Inv
<1> QED  BY <1>1, <1>2, Invariance, PTL DEF Spec

-----------------------------------------------------------------------------
(* Natural numbers and remainders *)

HIDE VisualizerAssumption

\* A set of natural numbers that is not empty has a least element.
LEMMA LeastNatural ==
    ASSUME NEW T \in SUBSET Nat, T # {}
    PROVE  \E x \in T : \A y \in T : x <= y
<1> DEFINE R == OpToRel(<, Nat)
<1>1. IsWellFoundedOn(R, Nat)
  BY NatLessThanWellFounded
<1>2. \A x, y \in Nat : y < x => <<y, x>> \in R
  BY DEF OpToRel
<1> HIDE DEF R
<1>3. PICK x \in T : \A y \in T : ~ (<<y, x>> \in R)
  BY <1>1, WFMin, Zenon
<1>4. ASSUME NEW y \in T PROVE x <= y
  <2>1. x \in Nat /\ y \in Nat /\ ~ (y < x)
    BY <1>2, <1>3
  <2> QED  BY <2>1
<1> QED BY <1>4

\* Induction: a set that holds 0 and with every number the next holds them all.
LEMMA AllNaturals ==
    ASSUME NEW S \in SUBSET Nat, 0 \in S, \A n \in S : n + 1 \in S
    PROVE  S = Nat
<1> SUFFICES ASSUME Nat \ S # {} PROVE FALSE
  OBVIOUS
<1>1. PICK x \in Nat \ S : \A y \in Nat \ S : x <= y
  BY LeastNatural
<1>2. x # 0 /\ x - 1 \in Nat /\ x - 1 \in S
  <2>1. x # 0
    OBVIOUS
  <2>2. x - 1 \in Nat /\ ~ (x <= x - 1)
    BY <2>1
  <2> QED  BY <1>1, <2>1, <2>2
<1>3. (x - 1) + 1 = x
  OBVIOUS
<1> QED BY <1>2, <1>3

LEMMA Division ==
    ASSUME NEW m \in Nat \ {0}, NEW a \in Int
    PROVE  \E q \in Int, r \in 0 .. m - 1 : a = (m * q) + r /\ r = a % m
<1> DEFINE q == a \div m
           r == a % m
<1>1. q \in Int /\ r \in 0 .. m - 1 /\ a = (m * q) + r
  OBVIOUS
<1> HIDE DEF q
<1> QED BY <1>1

\* Numbers that differ by a multiple of m have the same remainder.
LEMMA SameRemainder ==
    ASSUME NEW m \in Nat \ {0}, NEW a \in Int, NEW b \in Int, NEW q \in Int,
           a = b + (m * q)
    PROVE  a % m = b % m
<1>1. PICK qa \in Int, ra \in 0 .. m - 1 : a = (m * qa) + ra /\ ra = a % m
  BY Division
<1>2. PICK qb \in Int, rb \in 0 .. m - 1 : b = (m * qb) + rb /\ rb = b % m
  BY Division
<1>3. PICK d \in Int : ra - rb = m * d
  <2>1. m * ((qb + q) - qa) = ((m * qb) + (m * q)) - (m * qa)
    OBVIOUS
  <2>2. PICK x \in Int, y \in Int, z \in Int : x = m * qb /\ y = m * q /\ z = m * qa
    OBVIOUS
  <2>3. ra - rb = (x + y) - z
    <3>1. a = z + ra /\ b = x + rb /\ a = b + y
      BY <1>1, <1>2, <2>2
    <3>2. ra \in Int /\ rb \in Int
      OBVIOUS
    <3> QED  BY <3>1, <3>2
  <2>4. ra - rb = m * ((qb + q) - qa)
    BY <2>1, <2>2, <2>3
  <2> QED  BY <2>4
<1>4. d = 0
  <2>1. d >= 1 => m * d >= m
    OBVIOUS
  <2>2. d <= -1 => m * d <= -m
    OBVIOUS
  <2> QED  BY <1>3, <2>1, <2>2
<1>5. ra = rb
  BY <1>3, <1>4
<1> QED BY <1>1, <1>2, <1>5

LEMMA RemainderMinus ==
    ASSUME NEW m \in Nat \ {0}, NEW a \in Int, NEW k \in Int
    PROVE  ((a % m) - k) % m = (a - k) % m
<1>1. PICK q \in Int, r \in 0 .. m - 1 : a = (m * q) + r /\ r = a % m
  BY Division
<1>2. m * q \in Int
  OBVIOUS
<1>3. a - k = (r - k) + (m * q)
  BY <1>1, <1>2
<1>4. (a - k) % m = (r - k) % m
  <2>1. a - k \in Int /\ r - k \in Int
    OBVIOUS
  <2> QED  BY <1>3, <2>1, SameRemainder
<1> QED BY <1>1, <1>4

-----------------------------------------------------------------------------
(* The peak of a buffer *)

LEMMA MaximumIs ==
    ASSUME NEW S \in SUBSET Int, NEW m \in S, \A x \in S : x <= m
    PROVE  MaxOf(S) = m
<1>1. PICK n \in S : n = MaxOf(S) /\ \A x \in S : x <= n
  BY DEF MaxOf
<1>2. n \in Int /\ m \in Int /\ n <= m /\ m <= n
  BY <1>1
<1> QED BY <1>1, <1>2

LEMMA MaximumExists ==
    ASSUME NEW S \in SUBSET Int, S # {}, NEW u \in Int, \A x \in S : x <= u
    PROVE  \E m \in S : \A x \in S : x <= m
<1> DEFINE T == {u - x : x \in S}
<1>1. T \in SUBSET Nat /\ T # {}
  <2>1. \A x \in S : u - x \in Nat
    OBVIOUS
  <2>2. PICK x \in S : TRUE
    OBVIOUS
  <2>3. u - x \in T
    OBVIOUS
  <2> QED  BY <2>1, <2>3
<1>2. PICK t \in T : \A y \in T : t <= y
  BY <1>1, LeastNatural
<1>3. PICK m \in S : t = u - m
  OBVIOUS
<1>4. ASSUME NEW x \in S PROVE x <= m
  <2>1. u - x \in T
    OBVIOUS
  <2>2. u - m <= u - x
    BY <1>2, <1>3, <2>1
  <2> QED  BY <2>2
<1> QED BY <1>4

Samples == (-FullScale) .. (FullScale - 1)

\* max_sample after the sample x, if it was m.
Higher(x, m) ==
    IF x > m THEN x
    ELSE IF -x > m THEN IF x = -FullScale THEN -FullScale ELSE -x
    ELSE m

LEMMA HigherType ==
    ASSUME NEW x \in Samples, NEW m \in Int
    PROVE  Higher(x, m) \in Int
BY CaptureAssumption DEF Samples, Higher

\* The loop over the samples is a function of their number.
LEMMA LoopEnds ==
    ASSUME NEW b \in Seq(Samples)
    PROVE  \E g \in [0 .. Len(b) -> Int] :
               \A i \in 0 .. Len(b) : g[i] = IF i = 0 THEN 0 ELSE Higher(b[i], g[i - 1])
<1> DEFINE S == {n \in Nat : n <= Len(b) =>
                     \E g \in [0 .. n -> Int] :
                         \A i \in 0 .. n : g[i] = IF i = 0 THEN 0
                                                  ELSE Higher(b[i], g[i - 1])}
<1>1. 0 \in S
  <2> DEFINE g == [i \in 0 .. 0 |-> 0]
  <2>1. g \in [0 .. 0 -> Int] /\ \A i \in 0 .. 0 : i = 0 /\ g[i] = 0
    OBVIOUS
  <2> HIDE DEF g
  <2> QED  BY <2>1
<1>2. ASSUME NEW n \in S PROVE n + 1 \in S
  <2> SUFFICES ASSUME n + 1 <= Len(b)
               PROVE  \E g \in [0 .. n + 1 -> Int] :
                          \A i \in 0 .. n + 1 : g[i] = IF i = 0 THEN 0
                                                       ELSE Higher(b[i], g[i - 1])
    <3>1. n + 1 \in Nat
      OBVIOUS
    <3> QED  BY <3>1, Zenon
  <2>1. n \in Nat /\ n <= Len(b) /\ n + 1 \in 1 .. Len(b)
    OBVIOUS
  <2>2. PICK h \in [0 .. n -> Int] :
            \A i \in 0 .. n : h[i] = IF i = 0 THEN 0 ELSE Higher(b[i], h[i - 1])
    BY <2>1
  <2>3. b[n + 1] \in Samples /\ h[n] \in Int
    BY <2>1, <2>2
  <2>4. PICK v \in Int : v = Higher(b[n + 1], h[n])
    BY <2>3, HigherType
  <2>5. PICK g : g = [i \in 0 .. n + 1 |-> IF i = n + 1 THEN v ELSE h[i]]
    OBVIOUS
  <2>6. \A i \in 0 .. n + 1 : i # n + 1 => i \in 0 .. n /\ g[i] = h[i]
    BY <2>1, <2>5
  <2>7. g \in [0 .. n + 1 -> Int]
    BY <2>2, <2>4, <2>5, <2>6
  <2>8. ASSUME NEW i \in 0 .. n + 1
        PROVE  g[i] = IF i = 0 THEN 0 ELSE Higher(b[i], g[i - 1])
    <3>1. CASE i = n + 1
      <4>1. i # 0 /\ i - 1 = n /\ n # n + 1 /\ n \in 0 .. n + 1
        BY <2>1, <3>1
      <4>2. g[i - 1] = h[n]
        BY <4>1, <2>6
      <4>3. g[i] = v
        BY <2>5, <3>1
      <4> QED  BY <2>4, <3>1, <4>1, <4>2, <4>3
    <3>2. CASE i # n + 1
      <4>1. i \in 0 .. n /\ g[i] = h[i]
        BY <2>6, <3>2
      <4>2. i # 0 => i - 1 \in 0 .. n + 1 /\ i - 1 # n + 1
        BY <2>1, <4>1
      <4>3. i # 0 => g[i - 1] = h[i - 1]
        BY <2>6, <4>2
      <4> QED  BY <2>2, <4>1, <4>3
    <3> QED  BY <3>1, <3>2
  <2> QED  BY <2>7, <2>8
<1>3. Len(b) \in S
  <2>1. S \in SUBSET Nat
    OBVIOUS
  <2>2. S = Nat
    <3> HIDE DEF S
    <3> QED  BY <1>1, <1>2, <2>1, AllNaturals
  <2> QED  BY <2>2
<1> QED BY <1>3

\* What Peak's loop computes, and that the peak is its last value.
LEMMA LoopUnfolds ==
    ASSUME NEW b \in Seq(Samples)
    PROVE  \E f \in [0 .. Len(b) -> Int] :
               /\ Peak(b) = f[Len(b)] % (2 * FullScale)
               /\ \A i \in 0 .. Len(b) : f[i] = IF i = 0 THEN 0
                                                ELSE Higher(b[i], f[i - 1])
<1> DEFINE f == CHOOSE h : h = [i \in 0 .. Len(b) |->
                                  IF i = 0 THEN 0
                                  ELSE IF b[i] > h[i - 1] THEN b[i]
                                  ELSE IF -b[i] > h[i - 1]
                                       THEN IF b[i] = -FullScale
                                            THEN -FullScale ELSE -b[i]
                                  ELSE h[i - 1]]
<1>1. PICK g \in [0 .. Len(b) -> Int] :
          \A i \in 0 .. Len(b) : g[i] = IF i = 0 THEN 0 ELSE Higher(b[i], g[i - 1])
  BY LoopEnds
<1>2. g = [i \in 0 .. Len(b) |->
             IF i = 0 THEN 0
             ELSE IF b[i] > g[i - 1] THEN b[i]
             ELSE IF -b[i] > g[i - 1]
                  THEN IF b[i] = -FullScale THEN -FullScale ELSE -b[i]
             ELSE g[i - 1]]
  BY <1>1, Zenon DEF Higher
<1>3. f = [i \in 0 .. Len(b) |->
             IF i = 0 THEN 0
             ELSE IF b[i] > f[i - 1] THEN b[i]
             ELSE IF -b[i] > f[i - 1]
                  THEN IF b[i] = -FullScale THEN -FullScale ELSE -b[i]
             ELSE f[i - 1]]
  BY <1>2, Zenon
<1>4. Peak(b) = f[Len(b)] % (2 * FullScale)
  BY Zenon DEF Peak
<1> HIDE DEF f
<1>5. \A i \in 0 .. Len(b) : f[i] = IF i = 0 THEN 0 ELSE Higher(b[i], f[i - 1])
  BY <1>3, Zenon DEF Higher
<1>6. f \in [0 .. Len(b) -> Int]
  <2> DEFINE S == {n \in Nat : n <= Len(b) => f[n] \in Int}
  <2>1. 0 \in S
    <3>1. 0 \in 0 .. Len(b)
      OBVIOUS
    <3> QED  BY <1>5, <3>1
  <2>2. ASSUME NEW n \in S PROVE n + 1 \in S
    <3> SUFFICES ASSUME n + 1 <= Len(b) PROVE f[n + 1] \in Int
      OBVIOUS
    <3>1. n \in Nat /\ f[n] \in Int /\ n + 1 \in 1 .. Len(b) /\ n + 1 \in 0 .. Len(b)
          /\ n + 1 # 0 /\ (n + 1) - 1 = n
      OBVIOUS
    <3>2. f[n + 1] = Higher(b[n + 1], f[n])
      BY <1>5, <3>1
    <3>3. b[n + 1] \in Samples
      BY <3>1
    <3> QED  BY <3>1, <3>2, <3>3, HigherType
  <2>3. S = Nat
    <3>1. S \in SUBSET Nat
      OBVIOUS
    <3> HIDE DEF S
    <3> QED  BY <2>1, <2>2, <3>1, AllNaturals
  <2>4. \A i \in 0 .. Len(b) : f[i] \in Int
    <3> TAKE i \in 0 .. Len(b)
    <3>1. i \in Nat /\ i <= Len(b)
      OBVIOUS
    <3> QED  BY <2>3, <3>1
  <2> HIDE DEF S
  <2>5. f = [i \in 0 .. Len(b) |-> f[i]]
    BY <1>3, Zenon
  <2> QED  BY <2>4, <2>5
<1> QED BY <1>4, <1>5, <1>6

LEMMA PeakType ==
    ASSUME NEW b \in Seq(Samples)
    PROVE  Peak(b) \in 0 .. (2 * FullScale) - 1
<1>1. PICK f \in [0 .. Len(b) -> Int] : Peak(b) = f[Len(b)] % (2 * FullScale)
  BY LoopUnfolds
<1>2. f[Len(b)] \in Int
  OBVIOUS
<1>3. 2 * FullScale \in Nat \ {0}
  BY CaptureAssumption
<1> HIDE DEF Peak
<1> QED BY <1>1, <1>2, <1>3, Division

\* v is the largest amplitude of the first n samples of b, 0 if there are none.
IsLargest(b, n, v) ==
    /\ v \in 0 .. FullScale - 1
    /\ \A j \in 1 .. n : Magnitude(b[j]) <= v
    /\ v = 0 \/ \E j \in 1 .. n : v = Magnitude(b[j])

\* A sample that is not -FullScale moves max_sample to the larger amplitude.
LEMMA HigherIsLarger ==
    ASSUME NEW x \in Samples, x # -FullScale, NEW m \in 0 .. FullScale - 1
    PROVE  /\ Higher(x, m) \in 0 .. FullScale - 1
           /\ m <= Higher(x, m) /\ Magnitude(x) <= Higher(x, m)
           /\ Higher(x, m) = m \/ Higher(x, m) = Magnitude(x)
BY CaptureAssumption DEF Samples, Higher, Magnitude

LEMMA PeakIsLargest ==
    ASSUME NEW b \in Seq(Samples), ~HasFullScale(b)
    PROVE  IsLargest(b, Len(b), Peak(b))
<1>1. PICK f \in [0 .. Len(b) -> Int] :
          /\ Peak(b) = f[Len(b)] % (2 * FullScale)
          /\ \A i \in 0 .. Len(b) : f[i] = IF i = 0 THEN 0 ELSE Higher(b[i], f[i - 1])
  BY LoopUnfolds
<1> DEFINE S == {n \in Nat : n <= Len(b) => IsLargest(b, n, f[n])}
<1>2. 0 \in S
  <2>1. f[0] = 0
    BY <1>1
  <2>2. IsLargest(b, 0, 0)
    BY CaptureAssumption DEF IsLargest
  <2> QED  BY <2>1, <2>2
<1>3. ASSUME NEW n \in S PROVE n + 1 \in S
  <2>0. n \in Nat /\ n + 1 \in Nat
    OBVIOUS
  <2> SUFFICES ASSUME n + 1 <= Len(b) PROVE IsLargest(b, n + 1, f[n + 1])
    BY <2>0
  <2>1. /\ n <= Len(b) /\ n + 1 \in 1 .. Len(b) /\ n + 1 \in 0 .. Len(b)
        /\ n + 1 # 0 /\ (n + 1) - 1 = n
    BY <2>0
  <2>2. IsLargest(b, n, f[n])
    BY <2>1
  <2>3. PICK m : m = f[n]
    OBVIOUS
  <2>4. PICK x : x = b[n + 1]
    OBVIOUS
  <2>5. f[n + 1] = Higher(x, m)
    BY <1>1, <2>1, <2>3, <2>4
  <2>6. x \in Samples /\ x # -FullScale /\ m \in 0 .. FullScale - 1
    BY <2>1, <2>2, <2>3, <2>4 DEF HasFullScale, IsLargest
  <2>7. PICK v : v = Higher(x, m)
    OBVIOUS
  <2>8. /\ v \in 0 .. FullScale - 1 /\ m <= v /\ Magnitude(x) <= v
        /\ v = m \/ v = Magnitude(x)
    BY <2>6, <2>7, HigherIsLarger
  <2>9. ASSUME NEW j \in 1 .. n + 1 PROVE Magnitude(b[j]) <= v
    <3>1. CASE j = n + 1
      BY <2>4, <2>8, <3>1
    <3>2. CASE j # n + 1
      <4>1. j \in 1 .. n
        BY <2>0, <3>2
      <4>2. Magnitude(b[j]) <= m
        BY <2>2, <2>3, <4>1 DEF IsLargest
      <4>3. b[j] \in Samples
        BY <2>1, <4>1
      <4>4. Magnitude(b[j]) \in Int
        BY <4>3, CaptureAssumption DEF Samples, Magnitude
      <4> HIDE DEF Magnitude
      <4> QED  BY <2>6, <2>8, <4>2, <4>4, CaptureAssumption
    <3> QED  BY <3>1, <3>2
  <2>10. v = 0 \/ \E j \in 1 .. n + 1 : v = Magnitude(b[j])
    <3>1. CASE v = m
      <4>1. m = 0 \/ \E j \in 1 .. n : m = Magnitude(b[j])
        BY <2>2, <2>3 DEF IsLargest
      <4>2. 1 .. n \subseteq 1 .. n + 1
        BY <2>0
      <4> QED  BY <3>1, <4>1, <4>2
    <3>2. CASE v = Magnitude(x)
      <4>1. n + 1 \in 1 .. n + 1
        BY <2>0
      <4> QED  BY <2>4, <3>2, <4>1
    <3> QED  BY <2>8, <3>1, <3>2
  <2> QED  BY <2>5, <2>7, <2>8, <2>9, <2>10, Zenon DEF IsLargest
<1>4. IsLargest(b, Len(b), f[Len(b)])
  <2>1. S \in SUBSET Nat
    OBVIOUS
  <2>2. S = Nat
    <3> HIDE DEF S
    <3> QED  BY <1>2, <1>3, <2>1, AllNaturals
  <2>3. Len(b) \in Nat /\ Len(b) <= Len(b)
    OBVIOUS
  <2> QED  BY <2>2, <2>3
<1>5. f[Len(b)] % (2 * FullScale) = f[Len(b)]
  <2>1. f[Len(b)] \in 0 .. FullScale - 1
    BY <1>4 DEF IsLargest
  <2>2. f[Len(b)] \in 0 .. (2 * FullScale) - 1
    BY <2>1, CaptureAssumption
  <2> QED  BY <2>2, CaptureAssumption
<1> QED BY <1>1, <1>4, <1>5

\* Of a buffer without a sample of -FullScale the code computes the peak.
LEMMA PeakIsTrue ==
    ASSUME NEW b \in Seq(Samples), b # <<>>, ~HasFullScale(b)
    PROVE  Peak(b) = TruePeak(b)
<1> DEFINE v == Peak(b)
           S == {Magnitude(b[i]) : i \in 1 .. Len(b)}
<1>1. IsLargest(b, Len(b), v)
  BY PeakIsLargest
<1> HIDE DEF v
<1>2. \A i \in 1 .. Len(b) : Magnitude(b[i]) \in Nat
  <2> TAKE i \in 1 .. Len(b)
  <2>1. b[i] \in Int
    BY CaptureAssumption DEF Samples
  <2> QED  BY <2>1 DEF Magnitude
<1>3. S \in SUBSET Int
  BY <1>2
<1>4. v \in S
  <2>1. CASE v = 0
    <3>1. 1 \in 1 .. Len(b)
      OBVIOUS
    <3>2. Magnitude(b[1]) \in Nat /\ Magnitude(b[1]) <= 0
      BY <1>1, <1>2, <2>1, <3>1 DEF IsLargest
    <3>3. Magnitude(b[1]) = 0
      BY <3>2
    <3> QED  BY <2>1, <3>1, <3>3
  <2> QED  BY <1>1, <2>1 DEF IsLargest
<1>5. \A x \in S : x <= v
  BY <1>1 DEF IsLargest
<1>6. MaxOf(S) = v
  <2> HIDE DEF S
  <2> QED  BY <1>3, <1>4, <1>5, MaximumIs
<1>7. TruePeak(b) = MaxOf(S)
  BY Zenon DEF TruePeak
<1> QED BY <1>6, <1>7 DEF v

-----------------------------------------------------------------------------
(* The types of the capture *)

LEMMA BufferSamples ==
    ASSUME NEW b \in Buffers
    PROVE  b \in Seq(Samples) /\ b # <<>>
BY CaptureAssumption DEF Samples

LEMMA SlotType ==
    ASSUME capture_idx \in 0 .. Size, NEW k \in 1 .. MaxFrames
    PROVE  Slot(k) \in Slots
BY CaptureAssumption DEF Slot, Slots

LEMMA RemainderType ==
    ASSUME NEW a \in Int
    PROVE  a % Numbers \in 0 .. Numbers - 1
<1>1. Numbers \in Nat \ {0}
  BY CaptureAssumption
<1> QED BY <1>1, Division

LEMMA LatestType ==
    ASSUME NEW s \in Seq(Buffers), s # <<>>
    PROVE  Latest(s) \in Seq(Buffers)
BY DEF Latest

LEMMA CaptureTypesInit == CaptureInit => CaptureTypeOK
<1> SUFFICES ASSUME CaptureInit PROVE CaptureTypeOK
  OBVIOUS
<1>1. /\ capture_buf \in [Slots -> (0 .. Numbers - 1) \cup {Silence}]
      /\ past_meas \in [MeasSlots -> {NotValid} \cup 0 .. 2 * FullScale - 1]
      /\ measured \in Seq(Buffers)
  BY DEF CaptureInit, SilentRing, NoMeasurement
<1>2. /\ capture_idx \in 0 .. Size /\ last_capture_idx \in 0 .. Size
      /\ capture_size \in 1 .. Size /\ meas_buffer_idx \in MeasSlots
      /\ age \in 0 .. Discard + 1 /\ frames \in 0 .. Numbers - 1 /\ heard \in 0 .. Size
  BY CaptureAssumption DEF CaptureInit, MeasSlots
<1>3. /\ enabled \in BOOLEAN /\ offload_enabled \in BOOLEAN
      /\ updated \in BOOLEAN /\ meas_mode \in BOOLEAN
  BY DEF CaptureInit
<1> QED BY <1>1, <1>2, <1>3 DEF CaptureTypeOK

LEMMA CaptureTypesStep == CaptureTypeOK /\ [CaptureNext]_captureVars => CaptureTypeOK'
<1> SUFFICES ASSUME CaptureTypeOK, [CaptureNext]_captureVars PROVE CaptureTypeOK'
  OBVIOUS
<1> USE DEF control, ring, meas
<1>c. ASSUME ClearRing
      PROVE  /\ capture_buf' \in [Slots -> (0 .. Numbers - 1) \cup {Silence}]
             /\ capture_idx' \in 0 .. Size /\ last_capture_idx' \in 0 .. Size
             /\ heard' \in 0 .. Size /\ updated' \in BOOLEAN
  <2>1. updated' \in BOOLEAN
    BY <1>c DEF ClearRing
  <2>2. capture_buf' \in [Slots -> (0 .. Numbers - 1) \cup {Silence}]
    BY <1>c DEF ClearRing, SilentRing
  <2>3. /\ capture_idx' \in 0 .. Size /\ last_capture_idx' \in 0 .. Size
        /\ heard' \in 0 .. Size
    BY <1>c, CaptureAssumption DEF ClearRing
  <2> QED  BY <2>1, <2>2, <2>3
<1>d. ASSUME DiscardMeasurements
      PROVE  /\ past_meas' \in [MeasSlots -> {NotValid} \cup 0 .. 2 * FullScale - 1]
             /\ meas_buffer_idx' \in MeasSlots /\ measured' \in Seq(Buffers)
  BY <1>d, CaptureAssumption DEF DiscardMeasurements, NoMeasurement, MeasSlots
<1>1. ASSUME NEW n \in 1 .. MaxFrames, NEW b \in Buffers, Process(n, b)
      PROVE  CaptureTypeOK'
  <2>1. /\ past_meas' \in [MeasSlots -> {NotValid} \cup 0 .. 2 * FullScale - 1]
        /\ meas_buffer_idx' \in MeasSlots /\ measured' \in Seq(Buffers)
        /\ meas_mode' \in BOOLEAN
    <3>1. CASE ~meas_mode
      BY <1>1, <3>1 DEF Process, MeasureBuffer, CaptureTypeOK
    <3>2. CASE meas_mode
      <4>1. Peak(b) \in 0 .. 2 * FullScale - 1
        BY BufferSamples, PeakType
      <4>2. past_meas' = [past_meas EXCEPT ![meas_buffer_idx] = Peak(b)]
        BY <1>1, <3>2 DEF Process, MeasureBuffer
      <4>3. past_meas' \in [MeasSlots -> {NotValid} \cup 0 .. 2 * FullScale - 1]
        BY <4>1, <4>2 DEF CaptureTypeOK
      <4>4. meas_buffer_idx' \in MeasSlots
        BY <1>1, <3>2, CaptureAssumption
           DEF Process, MeasureBuffer, CaptureTypeOK, MeasSlots
      <4>5. measured' = Latest(Append(measured, b))
        BY <1>1, <3>2 DEF Process, MeasureBuffer
      <4>6. Append(measured, b) \in Seq(Buffers) /\ Append(measured, b) # <<>>
        <5>1. measured \in Seq(Buffers)
          BY DEF CaptureTypeOK
        <5> HIDE DEF CaptureTypeOK
        <5>2. Append(measured, b) \in Seq(Buffers)
          BY <5>1
        <5>3. Len(Append(measured, b)) = Len(measured) + 1 /\ Len(measured) \in Nat
          BY <5>1
        <5>4. Len(Append(measured, b)) # 0
          BY <5>3
        <5> QED  BY <5>2, <5>4
      <4>7. meas_mode' \in BOOLEAN
        BY <1>1, <3>2 DEF Process, MeasureBuffer, CaptureTypeOK
      <4> QED  BY <4>3, <4>4, <4>5, <4>6, <4>7, LatestType
    <3> QED  BY <3>1, <3>2
  <2>2. n \in Int /\ frames \in Int /\ heard \in Int
    BY CaptureAssumption DEF CaptureTypeOK
  <2>3. capture_buf' \in [Slots -> (0 .. Numbers - 1) \cup {Silence}]
    <3>1. \A i \in Slots :
              (\E k \in 1 .. n : Slot(k) = i) =>
                  frames + (CHOOSE k \in 1 .. n : Slot(k) = i) - 1 \in Int
      BY <2>2
    <3>2. \A i \in Slots :
              (\E k \in 1 .. n : Slot(k) = i) =>
                  (frames + (CHOOSE k \in 1 .. n : Slot(k) = i) - 1) % Numbers
                      \in 0 .. Numbers - 1
      BY <3>1, RemainderType
    <3>3. capture_buf' =
              [i \in Slots |-> IF \E k \in 1 .. n : Slot(k) = i
                  THEN (frames + (CHOOSE k \in 1 .. n : Slot(k) = i) - 1) % Numbers
                  ELSE capture_buf[i]]
      BY <1>1 DEF Process
    <3>4. capture_buf \in [Slots -> (0 .. Numbers - 1) \cup {Silence}]
      BY DEF CaptureTypeOK
    <3> QED  BY <3>2, <3>3, <3>4, Zenon
  <2>4. capture_idx' \in 0 .. Size
    <3>1. Slot(n) \in Slots
      BY SlotType DEF CaptureTypeOK
    <3> QED  BY <1>1, <3>1, CaptureAssumption DEF Process, Slots
  <2>5. frames' \in 0 .. Numbers - 1
    <3>1. frames' = (frames + n) % Numbers /\ frames + n \in Int
      BY <1>1, <2>2 DEF Process
    <3> QED  BY <3>1, RemainderType
  <2>6. heard' \in 0 .. Size
    BY <1>1, <2>2, CaptureAssumption DEF Process, Smaller, CaptureTypeOK
  <2>7. updated' \in BOOLEAN
    BY <1>1 DEF Process
  <2>8. age' \in 0 .. Discard + 1
    BY <1>1, CaptureAssumption DEF Process
  <2> QED  BY <1>1, <2>1, <2>3, <2>4, <2>5, <2>6, <2>7, <2>8 DEF Process, CaptureTypeOK
<1>2. CASE CaptureCommand
  <2>1. updated' \in BOOLEAN
    BY <1>2 DEF CaptureCommand, CaptureTypeOK
  <2> QED  BY <1>2, <2>1 DEF CaptureCommand, CaptureTypeOK
<1>3. CASE Measure
  BY <1>3, <1>d DEF Measure, CaptureTypeOK
<1>4. CASE Reset
  BY <1>4, <1>c DEF Reset, CaptureTypeOK
<1>5. CASE InitCommand
  <2>1. capture_size' \in 1 .. Size /\ meas_mode' \in BOOLEAN
    BY <1>5, CaptureAssumption DEF InitCommand
  <2> QED  BY <1>5, <1>c, <1>d, <2>1 DEF InitCommand, CaptureTypeOK
<1>6. CASE Tick
  <2>1. age' \in 0 .. Discard + 1
    BY <1>6, CaptureAssumption DEF Tick, CaptureTypeOK
  <2> QED  BY <1>6, <2>1 DEF Tick, CaptureTypeOK
<1>7. ASSUME NEW s \in BOOLEAN, NEW o \in BOOLEAN, Control(s, o) PROVE CaptureTypeOK'
  BY <1>7 DEF Control, CaptureTypeOK
<1>8. ASSUME NEW n \in CaptureSizes, SetCaptureSize(n) PROVE CaptureTypeOK'
  BY <1>8, CaptureAssumption DEF SetCaptureSize, CaptureTypeOK
<1>9. ASSUME NEW m \in BOOLEAN, SetMeasMode(m) PROVE CaptureTypeOK'
  BY <1>9 DEF SetMeasMode, CaptureTypeOK
<1>10. CASE UNCHANGED captureVars
  BY <1>10 DEF captureVars, CaptureTypeOK
<1> QED BY <1>1, <1>2, <1>3, <1>4, <1>5, <1>6, <1>7, <1>8, <1>9, <1>10 DEF CaptureNext

-----------------------------------------------------------------------------
(* The slots of the measurements *)

\* The slot of the k-th last measurement.
SlotBack(k) ==
    IF meas_buffer_idx - k < 0 THEN meas_buffer_idx - k + Window ELSE meas_buffer_idx - k

\* The slots hold the peaks of the buffers measured, the newest before
\* meas_buffer_idx, and no other.
SlotsHold ==
    /\ Len(measured) <= Window
    /\ \A k \in 1 .. Window :
           past_meas[SlotBack(k)] = IF k <= Len(measured)
                                    THEN Peak(measured[Len(measured) + 1 - k])
                                    ELSE NotValid

LEMMA NoSlotsHold ==
    ASSUME CaptureTypeOK', past_meas' = NoMeasurement, measured' = <<>>
    PROVE  SlotsHold'
<1>1. Len(measured') = 0 /\ Window \in Nat
  BY CaptureAssumption
<1>2. \A k \in 1 .. Window : SlotBack(k)' \in MeasSlots
  <2>1. meas_buffer_idx' \in MeasSlots
    BY DEF CaptureTypeOK
  <2>2. \A i \in MeasSlots, k \in 1 .. Window :
            (IF i - k < 0 THEN i - k + Window ELSE i - k) \in MeasSlots
    BY CaptureAssumption DEF MeasSlots
  <2>3. \A k \in 1 .. Window :
            SlotBack(k)' = IF meas_buffer_idx' - k < 0
                           THEN meas_buffer_idx' - k + Window ELSE meas_buffer_idx' - k
    BY DEF SlotBack
  <2> QED  BY <2>1, <2>2, <2>3
<1>3. \A k \in 1 .. Window : past_meas'[SlotBack(k)'] = NotValid /\ ~(k <= Len(measured'))
  BY <1>1, <1>2 DEF NoMeasurement
<1> QED BY <1>1, <1>3 DEF SlotsHold

LEMMA SlotsHoldInit == CaptureInit => SlotsHold
<1> SUFFICES ASSUME CaptureInit PROVE SlotsHold
  OBVIOUS
<1>1. Len(measured) = 0 /\ Window \in Nat
  BY CaptureAssumption DEF CaptureInit
<1>2. \A k \in 1 .. Window : SlotBack(k) \in MeasSlots
  BY CaptureAssumption DEF CaptureInit, SlotBack, MeasSlots
<1>3. \A k \in 1 .. Window : past_meas[SlotBack(k)] = NotValid /\ ~(k <= Len(measured))
  BY <1>1, <1>2 DEF CaptureInit, NoMeasurement
<1> QED BY <1>1, <1>3 DEF SlotsHold

\* A buffer more is measured.
LEMMA MeasuredHolds ==
    ASSUME CaptureTypeOK, SlotsHold, NEW b \in Buffers, MeasureBuffer(b), meas_mode
    PROVE  SlotsHold'
<1>1. PICK l \in Nat : l = Len(measured) /\ l <= Window
  BY DEF SlotsHold, CaptureTypeOK
<1>2. PICK s \in Seq(Buffers) : s = Append(measured, b)
  <2>1. Append(measured, b) \in Seq(Buffers)
    BY DEF CaptureTypeOK
  <2> QED  BY <2>1
<1>3. /\ Len(s) = l + 1 /\ s[l + 1] = b
      /\ \A i \in 1 .. l : s[i] = measured[i]
  BY <1>1, <1>2 DEF CaptureTypeOK
<1>4. PICK m \in Nat : m = Len(measured') /\ m = IF l = Window THEN Window ELSE l + 1
  <2>1. measured' = IF Len(s) > Window THEN Tail(s) ELSE s
    BY <1>2 DEF MeasureBuffer, Latest
  <2>2. Len(Tail(s)) = l
    BY <1>3
  <2>3. Len(measured') = IF l + 1 > Window THEN l ELSE l + 1
    BY <1>3, <2>1, <2>2
  <2> QED  BY <1>1, <2>3, CaptureAssumption
\* The newest are the same, counted from the end.
<1>5. \A k \in 1 .. m : measured'[m + 1 - k] = s[l + 2 - k]
  <2> TAKE k \in 1 .. m
  <2>1. measured' = IF Len(s) > Window THEN Tail(s) ELSE s
    BY <1>2 DEF MeasureBuffer, Latest
  <2>2. CASE l = Window
    <3>1. m = l /\ measured' = Tail(s) /\ m + 1 - k \in 1 .. l
      BY <1>1, <1>3, <1>4, <2>1, <2>2, CaptureAssumption
    <3>2. \A i \in 1 .. l : Tail(s)[i] = s[i + 1]
      BY <1>3
    <3>3. Tail(s)[m + 1 - k] = s[(m + 1 - k) + 1]
      BY <3>1, <3>2
    <3>4. (m + 1 - k) + 1 = l + 2 - k
      BY <3>1
    <3> QED  BY <3>1, <3>3, <3>4
  <2>3. CASE l # Window
    <3>1. m = l + 1 /\ measured' = s
      BY <1>1, <1>3, <1>4, <2>1, <2>3, CaptureAssumption
    <3>2. m + 1 - k = l + 2 - k
      BY <3>1
    <3> QED  BY <3>1, <3>2
  <2> QED  BY <2>2, <2>3
<1>6. /\ past_meas' = [past_meas EXCEPT ![meas_buffer_idx] = Peak(b)]
      /\ meas_buffer_idx' = IF meas_buffer_idx + 1 >= Window THEN 0
                                                             ELSE meas_buffer_idx + 1
  BY DEF MeasureBuffer
<1>7. past_meas \in [MeasSlots -> {NotValid} \cup 0 .. 2 * FullScale - 1]
      /\ meas_buffer_idx \in MeasSlots
  BY DEF CaptureTypeOK
<1>8. ASSUME NEW k \in 1 .. Window
      PROVE  past_meas'[SlotBack(k)'] = IF k <= m THEN Peak(measured'[m + 1 - k])
                                        ELSE NotValid
  <2>1. CASE k = 1
    <3>1. SlotBack(k)' = meas_buffer_idx
      BY <1>6, <1>7, <2>1, CaptureAssumption DEF SlotBack, MeasSlots
    <3>2. past_meas'[meas_buffer_idx] = Peak(b)
      BY <1>6, <1>7
    <3>3. k <= m /\ k \in 1 .. m /\ l + 2 - k = l + 1
      BY <1>1, <1>4, <2>1, CaptureAssumption
    <3>4. measured'[m + 1 - k] = b
      BY <1>3, <1>5, <3>3
    <3> QED  BY <3>1, <3>2, <3>3, <3>4
  <2>2. CASE k # 1
    <3>1. k - 1 \in 1 .. Window /\ k \in Int
      BY <2>2, CaptureAssumption
    <3>2. SlotBack(k)' = SlotBack(k - 1) /\ SlotBack(k - 1) \in MeasSlots
          /\ SlotBack(k - 1) # meas_buffer_idx
      <4>1. SlotBack(k - 1) \in MeasSlots /\ SlotBack(k - 1) # meas_buffer_idx
        BY <1>7, <3>1, <2>2, CaptureAssumption DEF SlotBack, MeasSlots
      <4>2. SlotBack(k)' = SlotBack(k - 1)
        BY <1>6, <1>7, <3>1, <2>2, CaptureAssumption DEF SlotBack, MeasSlots
      <4> QED  BY <4>1, <4>2
    <3>3. past_meas'[SlotBack(k)'] = past_meas[SlotBack(k - 1)]
      BY <1>6, <1>7, <3>2
    <3>4. past_meas[SlotBack(k - 1)] = IF k - 1 <= l THEN Peak(measured[l + 1 - (k - 1)])
                                       ELSE NotValid
      BY <1>1, <3>1 DEF SlotsHold
    <3>5. k - 1 <= l <=> k <= m
      BY <1>1, <1>4, <3>1, CaptureAssumption
    <3>6. CASE k <= m
      <4>1. k \in 1 .. m /\ l + 2 - k \in 1 .. l /\ l + 1 - (k - 1) = l + 2 - k
        BY <1>1, <1>4, <3>1, <3>5, <3>6, <2>2
      <4>2. measured'[m + 1 - k] = measured[l + 1 - (k - 1)]
        BY <1>3, <1>5, <4>1
      <4> QED  BY <3>3, <3>4, <3>5, <3>6, <4>2
    <3>7. CASE ~(k <= m)
      BY <3>3, <3>4, <3>5, <3>7
    <3> QED  BY <3>6, <3>7
  <2> QED  BY <2>1, <2>2
<1>9. Len(measured') <= Window
  BY <1>1, <1>4, CaptureAssumption
<1> QED BY <1>4, <1>8, <1>9 DEF SlotsHold

LEMMA SlotsHoldStep ==
    CaptureTypeOK /\ SlotsHold /\ [CaptureNext]_captureVars => SlotsHold'
<1> SUFFICES ASSUME CaptureTypeOK, SlotsHold, [CaptureNext]_captureVars PROVE SlotsHold'
  OBVIOUS
<1>t. CaptureTypeOK'
  BY CaptureTypesStep
<1>s. ASSUME UNCHANGED <<meas_buffer_idx, past_meas, measured>> PROVE SlotsHold'
  BY <1>s DEF SlotsHold, SlotBack
<1>1. ASSUME NEW n \in 1 .. MaxFrames, NEW b \in Buffers, Process(n, b)
      PROVE  SlotsHold'
  <2>1. CASE meas_mode
    BY <1>1, <2>1, MeasuredHolds DEF Process
  <2>2. CASE ~meas_mode
    BY <1>1, <1>s, <2>2 DEF Process, MeasureBuffer, meas
  <2> QED  BY <2>1, <2>2
<1>2. CASE Measure
  BY <1>2, <1>t, NoSlotsHold DEF Measure, DiscardMeasurements
<1>3. CASE InitCommand
  BY <1>3, <1>t, NoSlotsHold DEF InitCommand, DiscardMeasurements
<1>4. CASE CaptureCommand \/ Reset \/ Tick
  BY <1>4, <1>s DEF CaptureCommand, Reset, Tick, meas
<1>5. ASSUME NEW s \in BOOLEAN, NEW o \in BOOLEAN, Control(s, o) PROVE SlotsHold'
  BY <1>5, <1>s DEF Control, meas
<1>6. ASSUME NEW n \in CaptureSizes, SetCaptureSize(n) PROVE SlotsHold'
  BY <1>6, <1>s DEF SetCaptureSize, meas
<1>7. ASSUME NEW m \in BOOLEAN, SetMeasMode(m) PROVE SlotsHold'
  BY <1>7, <1>s DEF SetMeasMode
<1>8. CASE UNCHANGED captureVars
  BY <1>8, <1>s DEF captureVars, meas
<1> QED BY <1>1, <1>2, <1>3, <1>4, <1>5, <1>6, <1>7, <1>8 DEF CaptureNext

\* The largest of the slots is the largest of the buffers.
LEMMA SlotsGivePeak == CaptureTypeOK /\ SlotsHold => PeakIsOfWindow
<1> SUFFICES ASSUME CaptureTypeOK, SlotsHold, ~TooOld,
                    \A i \in 1 .. Len(measured) : ~HasFullScale(measured[i])
             PROVE  MeasuredPeak =
                        MaxOf({0} \cup {TruePeak(measured[i]) : i \in 1 .. Len(measured)})
  BY DEF PeakIsOfWindow
<1> DEFINE A == {0} \cup {past_meas[i] : i \in MeasSlots}
           B == {0} \cup {TruePeak(measured[i]) : i \in 1 .. Len(measured)}
<1>1. PICK l \in Nat : l = Len(measured) /\ l <= Window
  BY DEF SlotsHold, CaptureTypeOK
<1>2. \A i \in 1 .. l : /\ Peak(measured[i]) = TruePeak(measured[i])
                        /\ TruePeak(measured[i]) \in 0 .. (2 * FullScale) - 1
  <2> TAKE i \in 1 .. l
  <2>1. measured[i] \in Buffers /\ ~HasFullScale(measured[i])
    BY <1>1 DEF CaptureTypeOK
  <2>2. measured[i] \in Seq(Samples) /\ measured[i] # <<>>
    BY <2>1, BufferSamples
  <2> QED  BY <2>1, <2>2, PeakType, PeakIsTrue
<1>3. \A x \in B : x \in Int /\ 0 <= x /\ x <= 2 * FullScale
  <2>1. \A x \in B : x \in 0 .. (2 * FullScale) - 1
    BY <1>1, <1>2, CaptureAssumption
  <2> HIDE DEF B
  <2> TAKE x \in B
  <2>2. x \in 0 .. (2 * FullScale) - 1
    BY <2>1
  <2> QED  BY <2>2, CaptureAssumption
<1>4. PICK m \in B : \A x \in B : x <= m
  <2>1. 2 * FullScale \in Int /\ B # {}
    BY CaptureAssumption
  <2> HIDE DEF B
  <2>2. B \in SUBSET Int
    BY <1>3
  <2> QED  BY <1>3, <2>1, <2>2, MaximumExists
<1>5. \A k \in 1 .. Window : SlotBack(k) \in MeasSlots
  BY CaptureAssumption DEF CaptureTypeOK, SlotBack, MeasSlots
\* Every slot is the slot of some measurement, or of none.
<1>6. \A i \in MeasSlots : past_meas[i] = NotValid \/ past_meas[i] \in B
  <2> TAKE i \in MeasSlots
  <2>1. PICK k \in 1 .. Window : SlotBack(k) = i
    <3>1. CASE meas_buffer_idx > i
      <4>1. meas_buffer_idx - i \in 1 .. Window /\ SlotBack(meas_buffer_idx - i) = i
        BY <3>1, CaptureAssumption DEF CaptureTypeOK, SlotBack, MeasSlots
      <4> QED  BY <4>1
    <3>2. CASE ~(meas_buffer_idx > i)
      <4>1. /\ (meas_buffer_idx - i) + Window \in 1 .. Window
            /\ SlotBack((meas_buffer_idx - i) + Window) = i
        BY <3>2, CaptureAssumption DEF CaptureTypeOK, SlotBack, MeasSlots
      <4> QED  BY <4>1
    <3> QED  BY <3>1, <3>2
  <2>2. past_meas[i] = IF k <= l THEN Peak(measured[l + 1 - k]) ELSE NotValid
    BY <1>1, <2>1 DEF SlotsHold
  <2>3. k <= l => l + 1 - k \in 1 .. l
    BY CaptureAssumption
  <2>4. k <= l => Peak(measured[l + 1 - k]) \in B
    BY <1>1, <1>2, <2>3
  <2> QED  BY <2>2, <2>4
\* Every buffer has its slot.
<1>7. \A x \in B : x \in A
  <2> SUFFICES ASSUME NEW i \in 1 .. l PROVE TruePeak(measured[i]) \in A
    BY <1>1
  <2>1. l + 1 - i \in 1 .. Window /\ l + 1 - i <= l /\ l + 1 - (l + 1 - i) = i
    BY <1>1, CaptureAssumption
  <2>2. past_meas[SlotBack(l + 1 - i)] = Peak(measured[i])
    BY <1>1, <2>1 DEF SlotsHold
  <2> QED  BY <1>2, <1>5, <2>1, <2>2
<1>8. A \in SUBSET Int /\ \A x \in A : x <= m
  <2>1. m \in Int /\ 0 <= m /\ NotValid \in Int /\ NotValid <= m
    BY <1>3, <1>4, CaptureAssumption DEF NotValid
  <2>2. \A x \in A : x = 0 \/ x = NotValid \/ x \in B
    BY <1>6
  <2> HIDE DEF A, B
  <2>3. \A x \in A : x \in Int /\ x <= m
    <3> TAKE x \in A
    <3>1. CASE x \in B
      BY <1>3, <1>4, <3>1
    <3>2. CASE x = 0
      BY <2>1, <3>2
    <3>3. CASE x = NotValid
      BY <2>1, <3>3
    <3> QED  BY <2>2, <3>1, <3>2, <3>3
  <2> QED  BY <2>3
<1>9. MaxOf(A) = m
  <2>1. m \in A
    BY <1>4, <1>7
  <2> HIDE DEF A, B
  <2> QED  BY <1>8, <2>1, MaximumIs
<1>10. MaxOf(B) = m
  <2> HIDE DEF B
  <2>1. B \in SUBSET Int
    BY <1>3
  <2> QED  BY <1>4, <2>1, MaximumIs
<1>11. MeasuredPeak = MaxOf(A)
  BY Zenon DEF MeasuredPeak
<1> HIDE DEF A
<1> QED BY <1>9, <1>10, <1>11

-----------------------------------------------------------------------------
(* The ring of the capture *)

\* The place of the k-th last byte of the ring.
Back(k) == IF capture_idx - k < 0 THEN capture_idx - k + Size ELSE capture_idx - k

\* The ring holds the last Size frames, silence for those that were never played.
RingHolds == \A k \in 1 .. Size : capture_buf[Back(k)] = Played(k)

LEMMA BackType ==
    ASSUME capture_idx \in 0 .. Size, NEW k \in 1 .. Size
    PROVE  Back(k) \in Slots
BY CaptureAssumption DEF Back, Slots

\* A buffer is no longer than the ring: its frames go to different places.
LEMMA SlotsDiffer ==
    ASSUME capture_idx \in 0 .. Size, NEW n \in 1 .. MaxFrames,
           NEW j \in 1 .. n, NEW k \in 1 .. n, Slot(j) = Slot(k)
    PROVE  j = k
BY CaptureAssumption DEF Slot

\* What a buffer stores in the place of its k-th frame, and that it leaves the
\* others alone.
LEMMA StoredFrames ==
    ASSUME CaptureTypeOK, NEW n \in 1 .. MaxFrames, NEW b \in Buffers, Process(n, b)
    PROVE  /\ \A k \in 1 .. n : capture_buf'[Slot(k)] = (frames + k - 1) % Numbers
           /\ \A i \in Slots : (\A k \in 1 .. n : Slot(k) # i) =>
                  capture_buf'[i] = capture_buf[i]
<1>1. capture_buf' =
          [i \in Slots |-> IF \E k \in 1 .. n : Slot(k) = i
              THEN (frames + (CHOOSE k \in 1 .. n : Slot(k) = i) - 1) % Numbers
              ELSE capture_buf[i]]
  BY DEF Process
<1>2. ASSUME NEW k \in 1 .. n
      PROVE  capture_buf'[Slot(k)] = (frames + k - 1) % Numbers
  <2>1. Slot(k) \in Slots
    <3>1. k \in 1 .. MaxFrames
      BY CaptureAssumption
    <3> QED  BY <3>1, SlotType DEF CaptureTypeOK
  <2>2. PICK j \in 1 .. n : /\ j = CHOOSE x \in 1 .. n : Slot(x) = Slot(k)
                           /\ Slot(j) = Slot(k)
    OBVIOUS
  <2>3. j = k
    BY <2>2, SlotsDiffer DEF CaptureTypeOK
  <2>4. \E x \in 1 .. n : Slot(x) = Slot(k)
    OBVIOUS
  <2>5. capture_buf'[Slot(k)] =
            (frames + (CHOOSE x \in 1 .. n : Slot(x) = Slot(k)) - 1) % Numbers
    BY <1>1, <2>1, <2>4, Zenon
  <2> QED  BY <2>2, <2>3, <2>5
<1>3. ASSUME NEW i \in Slots, \A k \in 1 .. n : Slot(k) # i
      PROVE  capture_buf'[i] = capture_buf[i]
  BY <1>1, <1>3
<1> QED BY <1>2, <1>3

LEMMA ProcessKeepsRing ==
    ASSUME CaptureTypeOK, RingHolds,
           NEW n \in 1 .. MaxFrames, NEW b \in Buffers, Process(n, b)
    PROVE  RingHolds'
<1>1. /\ n \in 1 .. Size /\ Size \in Nat /\ Numbers \in Nat \ {0}
      /\ capture_idx \in 0 .. Size /\ heard \in 0 .. Size /\ frames \in Int
  BY CaptureAssumption DEF CaptureTypeOK
<1>2. /\ capture_idx' = Slot(n) + 1 /\ frames' = (frames + n) % Numbers
      /\ heard' = Smaller(heard + n, Size)
  BY DEF Process
<1>3. ASSUME NEW k \in Int
      PROVE  (frames' - k) % Numbers = (frames + n - k) % Numbers
  <2>1. frames + n \in Int
    BY <1>1
  <2>2. (((frames + n) % Numbers) - k) % Numbers = (frames + n - k) % Numbers
    <3>1. PICK a \in Int : a = frames + n
      BY <2>1
    <3>2. ((a % Numbers) - k) % Numbers = (a - k) % Numbers
      BY <1>1, RemainderMinus, Zenon
    <3>3. a - k = frames + n - k
      BY <1>1, <3>1
    <3> QED  BY <3>1, <3>2, <3>3, Zenon
  <2> QED  BY <1>2, <2>2, Zenon
<1>4. ASSUME NEW k \in 1 .. Size
      PROVE  capture_buf'[Back(k)'] = Played(k)'
  <2>0. Played(k)' = IF k <= heard' THEN (frames + n - k) % Numbers ELSE Silence
    BY <1>3 DEF Played
  <2>1. CASE k <= n
    <3>1. n + 1 - k \in 1 .. n
      BY <1>1, <2>1
    <3>2. Back(k)' = Slot(n + 1 - k)
      BY <1>1, <1>2, <2>1 DEF Back, Slot
    <3>3. capture_buf'[Slot(n + 1 - k)] = (frames + (n + 1 - k) - 1) % Numbers
      BY <3>1, StoredFrames
    <3>4. frames + (n + 1 - k) - 1 = frames + n - k
      BY <1>1
    <3>5. k <= heard'
      BY <1>1, <1>2, <2>1 DEF Smaller
    <3> QED  BY <2>0, <3>2, <3>3, <3>4, <3>5
  <2>2. CASE ~(k <= n)
    <3>1. k - n \in 1 .. Size
      BY <1>1, <2>2
    <3>2. Back(k)' = Back(k - n)
      BY <1>1, <1>2, <2>2 DEF Back, Slot
    <3>3. \A j \in 1 .. n : Slot(j) # Back(k - n)
      BY <1>1, <2>2 DEF Back, Slot
    <3>4. Back(k - n) \in Slots
      BY <1>1, <3>1, BackType
    <3>5. capture_buf'[Back(k)'] = capture_buf[Back(k - n)]
      BY <3>2, <3>3, <3>4, StoredFrames
    <3>6. capture_buf[Back(k - n)] = IF k - n <= heard THEN (frames - (k - n)) % Numbers
                                     ELSE Silence
      BY <3>1 DEF RingHolds, Played
    <3>7. frames - (k - n) = frames + n - k
      BY <1>1
    <3>8. k - n <= heard <=> k <= heard'
      BY <1>1, <1>2, <2>2 DEF Smaller
    <3> QED  BY <2>0, <3>5, <3>6, <3>7, <3>8
  <2> QED  BY <2>1, <2>2
<1> QED BY <1>4 DEF RingHolds

LEMMA RingHoldsInit == CaptureInit => RingHolds
<1> SUFFICES ASSUME CaptureInit, NEW k \in 1 .. Size
             PROVE  capture_buf[Back(k)] = Played(k)
  BY DEF RingHolds
<1>1. Back(k) \in Slots
  BY BackType, CaptureAssumption DEF CaptureInit
<1>2. ~(k <= heard)
  BY CaptureAssumption DEF CaptureInit
<1> QED BY <1>1, <1>2 DEF CaptureInit, SilentRing, Played

LEMMA RingHoldsStep ==
    CaptureTypeOK /\ RingHolds /\ [CaptureNext]_captureVars => RingHolds'
<1> SUFFICES ASSUME CaptureTypeOK, RingHolds, [CaptureNext]_captureVars PROVE RingHolds'
  OBVIOUS
<1>s. ASSUME UNCHANGED <<capture_buf, capture_idx, frames, heard>> PROVE RingHolds'
  BY <1>s DEF RingHolds, Back, Played
\* A reset forgets what was played.
<1>c. ASSUME ClearRing PROVE RingHolds'
  <2> SUFFICES ASSUME NEW k \in 1 .. Size PROVE capture_buf'[Back(k)'] = Played(k)'
    BY DEF RingHolds
  <2>1. capture_idx' = 0 /\ heard' = 0 /\ capture_buf' = [i \in Slots |-> Silence]
    BY <1>c DEF ClearRing, SilentRing
  <2>2. Back(k)' \in Slots
    BY <2>1, CaptureAssumption DEF Back, Slots
  <2>3. ~(k <= heard')
    BY <2>1, CaptureAssumption
  <2> QED  BY <2>1, <2>2, <2>3 DEF Played
<1>1. ASSUME NEW n \in 1 .. MaxFrames, NEW b \in Buffers, Process(n, b)
      PROVE  RingHolds'
  BY <1>1, ProcessKeepsRing
<1>2. CASE CaptureCommand \/ Measure \/ Tick
  BY <1>2, <1>s DEF CaptureCommand, Measure, Tick, ring
<1>3. CASE Reset \/ InitCommand
  BY <1>3, <1>c DEF Reset, InitCommand
<1>4. ASSUME NEW s \in BOOLEAN, NEW o \in BOOLEAN, Control(s, o) PROVE RingHolds'
  BY <1>4, <1>s DEF Control, ring
<1>5. ASSUME NEW n \in CaptureSizes, SetCaptureSize(n) PROVE RingHolds'
  BY <1>5, <1>s DEF SetCaptureSize
<1>6. ASSUME NEW m \in BOOLEAN, SetMeasMode(m) PROVE RingHolds'
  BY <1>6, <1>s DEF SetMeasMode, ring
<1>7. CASE UNCHANGED captureVars
  BY <1>7, <1>s DEF captureVars, ring
<1> QED BY <1>1, <1>2, <1>3, <1>4, <1>5, <1>6, <1>7 DEF CaptureNext

\* The two copies of a capture read the last capture_size bytes of the ring.
LEMMA CopiesAreBack ==
    ASSUME CaptureTypeOK, NEW k \in 1 .. capture_size
    PROVE  Copied[k] = capture_buf[Back(capture_size + 1 - k)]
<1>1. capture_idx \in 0 .. Size /\ capture_size \in 1 .. Size /\ Size \in Nat
  BY CaptureAssumption DEF CaptureTypeOK
<1>2. CASE k <= Wrapped
  <2>1. Copied[k] = capture_buf[Size + CapturePoint + k - 1]
    BY <1>2, Zenon DEF Copied
  <2>2. Size + CapturePoint + k - 1 = Back(capture_size + 1 - k)
    BY <1>1, <1>2 DEF CapturePoint, Wrapped, Smaller, Back
  <2> QED  BY <2>1, <2>2
<1>3. CASE ~(k <= Wrapped)
  <2>1. Copied[k] = capture_buf[(IF CapturePoint < 0 THEN 0 ELSE CapturePoint)
                                    + k - Wrapped - 1]
    BY <1>3, Zenon DEF Copied
  <2>2. (IF CapturePoint < 0 THEN 0 ELSE CapturePoint) + k - Wrapped - 1
            = Back(capture_size + 1 - k)
    BY <1>1, <1>3 DEF CapturePoint, Wrapped, Smaller, Back
  <2> QED  BY <2>1, <2>2
<1> QED BY <1>2, <1>3

LEMMA RingGivesCapture == CaptureTypeOK /\ RingHolds => CaptureIsLatest
<1> SUFFICES ASSUME CaptureTypeOK, RingHolds PROVE CaptureIsLatest
  OBVIOUS
<1>1. ASSUME NEW k \in 1 .. capture_size
      PROVE  Copied[k] = Played(capture_size + 1 - k)
  <2>1. capture_size + 1 - k \in 1 .. Size
    BY CaptureAssumption DEF CaptureTypeOK
  <2> QED  BY <2>1, CopiesAreBack DEF RingHolds
<1>2. Copied = [k \in 1 .. capture_size |-> Copied[k]]
  BY Zenon DEF Copied
<1>3. [k \in 1 .. capture_size |-> Copied[k]]
          = [k \in 1 .. capture_size |-> Played(capture_size + 1 - k)]
  BY <1>1, Zenon
<1> QED BY <1>2, <1>3, Zenon DEF CaptureIsLatest

-----------------------------------------------------------------------------
(* Theorems of the capture *)

\* The ring, the slots and the parameters stay in their types: every write goes
\* to a place of the ring, and every peak fits an unsigned sample.
THEOREM CaptureTyped == CaptureSpec => []CaptureTypeOK
BY CaptureTypesInit, CaptureTypesStep, PTL DEF CaptureSpec

\* For a ring, captures and buffers of any size, a capture is the last frames
\* played, in order, wherever the ring wraps.
THEOREM CaptureCorrect == CaptureSpec => []CaptureIsLatest
BY CaptureTyped, RingHoldsInit, RingHoldsStep, RingGivesCapture, PTL DEF CaptureSpec

\* For buffers of any length and any number of slots, a measurement is the largest
\* amplitude of the last buffers measured.
THEOREM PeakCorrect == CaptureSpec => []PeakIsOfWindow
BY CaptureTyped, SlotsHoldInit, SlotsHoldStep, SlotsGivePeak, PTL DEF CaptureSpec
=============================================================================
