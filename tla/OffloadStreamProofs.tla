------------------------- MODULE OffloadStreamProofs -------------------------
(***************************************************************************)
(* Proofs about OffloadStream.  For any number of client threads making    *)
(* any calls in any order, with or without the visualizer library: the     *)
(* state is well typed, no handle is closed while the offload thread uses  *)
(* it in the driver, a stream in standby owns nothing, and a device with   *)
(* data knows its metadata.  When one client drives the stream and the     *)
(* others only ask, and the visualizer is there: the path and the device   *)
(* follow the state, a closed stream leaves nothing, and PlaybackControl   *)
(* is implemented.                                                         *)
(***************************************************************************)
EXTENDS OffloadStream, TLAPS

\* A call that is stopping the device to put the stream in standby.
Stopping(c) == /\ pc[c] \in {"stopped", "wait", "woken"}
               /\ op[c] \in {"standby", "close", "route"}

\* Labels at which a thread owns out->lock, and at which it owns adev->lock.
InStream(t) ==
    \/ pc[t] \in {"run", "data", "put", "told", "stopped"}
    \/ t \in Clients /\ pc[t] \in {"adev", "hold"} /\ op[t] # "set_mode"

InDevice(c) == pc[c] = "hold" \/ Stopping(c)

OffloadLabels == {"pre", "lock", "run", "asleep", "woken", "call", "track",
                  "driver", "done"}

\* Who owns which mutex: what the labels say is what the mutexes say.
LockInv ==
    /\ pc[OT] \in OffloadLabels
    /\ \A c \in Clients : pc[c] # "asleep"
    /\ \A t \in Threads : pc[t] = "lock" => locks["pre_lock"] = t
    /\ \A t \in Threads : InStream(t) => locks["lock"] = t
    /\ \A c \in Clients : InDevice(c) => locks["adev"] = c

\* Why the handle stays open: the flag covers the time in the driver, the
\* handle exists while the flag is up, and a standby that found it up still
\* owns adev->lock, so nobody can have started the stream again meanwhile.
HandleInv ==
    /\ pc[OT] \in {"call", "track", "driver"} => blocked
    /\ blocked => compr # NULL
    /\ ~standby => compr # NULL
    /\ compr # NULL => dev[compr] # "closed"
    /\ pc[OT] \in {"track", "driver"} => used = compr
    /\ standby /\ compr # NULL => \E c \in Clients : Stopping(c)
    /\ \A c \in Clients : Stopping(c) => standby
    /\ \A c \in Clients : pc[c] \in {"data", "put", "told"} => ~standby

Inv == TypeOK /\ LockInv /\ HandleInv
-----------------------------------------------------------------------------
(* Lemmas about the helpers of the model.                                  *)

LEMMA SignalCondLabels ==
  ASSUME NEW p \in [Threads -> Labels], NEW q \in SignalCond(p)
  PROVE  /\ q \in [Threads -> Labels]
         /\ \A t \in Threads : q[t] # p[t] =>
                t \in Clients /\ p[t] = "wait" /\ q[t] = "woken"
BY DEF SignalCond, Labels, Threads

LEMMA SignalOffloadLabels ==
  ASSUME NEW p \in [Threads -> Labels], OffloadAssumption
  PROVE  /\ SignalOffload(p) \in [Threads -> Labels]
         /\ \A t \in Threads : SignalOffload(p)[t] # p[t] =>
                t = OT /\ p[t] = "asleep" /\ SignalOffload(p)[t] = "woken"
BY DEF SignalOffload, Labels, Threads, OffloadAssumption

LEMMA SignalOffloadGoto ==
  ASSUME OffloadAssumption, TypeOK, NEW c \in Clients, NEW l \in Labels,
         pc' = SignalOffload(Goto(c, l))
  PROVE  /\ pc' \in [Threads -> Labels]
         /\ pc'[c] = l
         /\ \A d \in Clients \ {c} : pc'[d] = pc[d]
         /\ pc'[OT] # pc[OT] => pc[OT] = "asleep" /\ pc'[OT] = "woken"
BY DEF SignalOffload, Goto, TypeOK, Threads, Labels, OffloadAssumption

LEMMA SignalCondGoto ==
  ASSUME OffloadAssumption, TypeOK, NEW l \in Labels,
         pc' \in SignalCond(Goto(OT, l))
  PROVE  /\ pc' \in [Threads -> Labels]
         /\ pc'[OT] = l
         /\ \A c \in Clients : pc'[c] # pc[c] => pc[c] = "wait" /\ pc'[c] = "woken"
<1>1. Goto(OT, l) \in [Threads -> Labels] /\ Goto(OT, l)[OT] = l
  BY DEF Goto, TypeOK, Threads
<1>2. \A c \in Clients : Goto(OT, l)[c] = pc[c]
  BY DEF Goto, TypeOK, Threads, OffloadAssumption
<1>3. /\ pc' \in [Threads -> Labels]
      /\ \A t \in Threads : pc'[t] # Goto(OT, l)[t] =>
            t \in Clients /\ Goto(OT, l)[t] = "wait" /\ pc'[t] = "woken"
  BY <1>1, SignalCondLabels
<1> QED
  BY <1>1, <1>2, <1>3 DEF Threads, OffloadAssumption

LEMMA SignalCondHere ==
  ASSUME OffloadAssumption, TypeOK, pc' \in SignalCond(pc)
  PROVE  /\ pc' \in [Threads -> Labels]
         /\ pc'[OT] = pc[OT]
         /\ \A c \in Clients : pc'[c] # pc[c] => pc[c] = "wait" /\ pc'[c] = "woken"
<1>1. /\ pc' \in [Threads -> Labels]
      /\ \A t \in Threads : pc'[t] # pc[t] =>
            t \in Clients /\ pc[t] = "wait" /\ pc'[t] = "woken"
  BY SignalCondLabels DEF TypeOK
<1> QED
  BY <1>1 DEF Threads, OffloadAssumption

LEMMA UnlockType ==
  ASSUME TypeOK, NEW t \in Threads, NEW ls
  PROVE  /\ Unlock(t, ls) \in [LockNames -> Threads \cup {Free}]
         /\ \A l \in LockNames : l \notin ls => Unlock(t, ls)[l] = locks[l]
         /\ \A l \in LockNames, u \in Threads :
               u # t /\ locks[l] = u => Unlock(t, ls)[l] = u
BY DEF TypeOK, Unlock

LEMMA GotoType ==
  ASSUME TypeOK, NEW t \in Threads, NEW l \in Labels
  PROVE  /\ Goto(t, l) \in [Threads -> Labels]
         /\ Goto(t, l)[t] = l
         /\ \A u \in Threads : u # t => Goto(t, l)[u] = pc[u]
BY DEF TypeOK, Goto

LEMMA SendType ==
  ASSUME TypeOK, NEW cmd \in Cmds, Send(cmd)
  PROVE  cmds' \in Seq(Cmds)
BY DEF TypeOK, Send

LEMMA TakeType ==
  ASSUME TypeOK, cmds # <<>>
  PROVE  Head(cmds) \in Cmds /\ Tail(cmds) \in Seq(Cmds)
BY DEF TypeOK

LEMMA CompressMoveType ==
  ASSUME TypeOK, NEW from, NEW to \in DevStates, CompressMove(from, to)
  PROVE  dev' \in [Handles -> DevStates]
BY DEF TypeOK, CompressMove, DevIs

LEMMA CompressStopType ==
  ASSUME TypeOK, CompressStop
  PROVE  dev' \in [Handles -> DevStates] /\ told' \in [Handles -> Mdata \cup {NULL}]
BY DEF TypeOK, CompressStop, DevIs, DevStates

LEMMA StopOutputType ==
  ASSUME TypeOK, NEW n \in Nat, StopOutput(n)
  PROVE  fx' \in BOOLEAN /\ offload_state' \in States /\ uc' \in Nat
<1>1. Disabled(n) \in Nat
  BY DEF Disabled
<1> QED
  BY <1>1 DEF TypeOK, StopOutput, States

-----------------------------------------------------------------------------
(* The state is well typed.                                                *)

LEMMA InitType == OffloadAssumption /\ Init => TypeOK
<1> SUFFICES ASSUME OffloadAssumption, Init PROVE TypeOK
  OBVIOUS
<1>1. pc \in [Threads -> Labels] /\ op \in [Clients -> Ops \cup {"exit"}]
  BY DEF Init, Threads, Labels, Ops
<1>2. cmds \in Seq(Cmds) /\ cur \in Cmds
  BY DEF Init, Cmds
<1>3. dev \in [Handles -> DevStates] /\ offload_state \in States
  BY DEF Init, DevStates, States
<1>4. told \in [Handles -> Mdata \cup {NULL}] /\ gapless_mdata \in Mdata
  BY DEF Init, OffloadAssumption
<1> QED
  BY <1>1, <1>2, <1>3, <1>4 DEF Init, TypeOK

LEMMA TypeStep ==
  ASSUME OffloadAssumption, TypeOK, HandleInv, [Next]_vars
  PROVE  TypeOK'
<1> USE DEF client, thread, device, stream, metadata
<1>a. \A c \in Clients : c \in Threads
  BY DEF Threads
<1>b. OT \in Threads
  BY DEF Threads
<1>1. ASSUME NEW c \in Clients, LockInputs(c) PROVE TypeOK'
  BY <1>1, <1>a, UnlockType, GotoType
     DEF LockInputs, LockNames, TypeOK, Labels, Return, UnlockAll
<1>2. ASSUME NEW c \in Clients, LockDevice(c) PROVE TypeOK'
  BY <1>2, <1>a, UnlockType, GotoType
     DEF LockDevice, LockNames, TypeOK, Labels, Return, UnlockAll
<1>3. ASSUME NEW c \in Clients, Query(c) PROVE TypeOK'
  <2>1. pc' \in [Threads -> Labels]
    BY <1>3, <1>a, GotoType DEF Query, Return, Labels
  <2>2. locks' \in [LockNames -> Threads \cup {Free}]
    BY <1>3, <1>a, UnlockType DEF Query, Return, UnlockAll, TypeOK
  <2> QED
    BY <1>3, <2>1, <2>2 DEF Query, TypeOK
<1>4. ASSUME NEW c \in Clients, SetMode(c) PROVE TypeOK'
  <2>1. pc' \in [Threads -> Labels]
    BY <1>4, <1>a, GotoType DEF SetMode, Return, Labels
  <2>2. locks' \in [LockNames -> Threads \cup {Free}]
    BY <1>4, <1>a, UnlockType DEF SetMode, Return, UnlockAll, TypeOK
  <2> QED
    BY <1>4, <2>1, <2>2 DEF SetMode, TypeOK
<1>5. ASSUME NEW c \in Clients, Drain(c) PROVE TypeOK'
  <2>1. cmds' \in Seq(Cmds)
    BY <1>5, SendType DEF Drain, Cmds
  <2>2. pc' \in [Threads -> Labels]
    <3>1. Goto(c, "idle") \in [Threads -> Labels]
      BY <1>a, GotoType DEF Labels
    <3> QED
      BY <1>5, <3>1, SignalOffloadLabels DEF Drain
  <2> QED
    BY <1>5, <1>a, <2>1, <2>2, UnlockType DEF Drain, TypeOK, UnlockAll
<1>6. ASSUME NEW c \in Clients, Pause(c) PROVE TypeOK'
  BY <1>6, <1>a, CompressMoveType, UnlockType, GotoType
     DEF Pause, DevStates, States, TypeOK, Labels, Return, UnlockAll
<1>7. ASSUME NEW c \in Clients, PauseDisable(c) PROVE TypeOK'
  BY <1>7, <1>a, UnlockType, GotoType
     DEF PauseDisable, Disabled, TypeOK, Labels, Return, UnlockAll
<1>8. ASSUME NEW c \in Clients, Resume(c) PROVE TypeOK'
  <2>1. pc' \in [Threads -> Labels]
    BY <1>8, <1>a, GotoType DEF Resume, Return, Labels
  <2>2. locks' \in [LockNames -> Threads \cup {Free}]
    BY <1>8, <1>a, UnlockType DEF Resume, Return, UnlockAll, TypeOK
  <2> QED
    BY <1>8, <2>1, <2>2 DEF Resume, TypeOK
<1>9. ASSUME NEW c \in Clients, ResumeEnable(c) PROVE TypeOK'
  BY <1>9, <1>a, CompressMoveType, UnlockType, GotoType
     DEF ResumeEnable, Enabled, DevStates, States, TypeOK, Labels, Return, UnlockAll
<1>10. ASSUME NEW c \in Clients, Flush(c) PROVE TypeOK'
  <2>1. pc' \in [Threads -> Labels] /\ locks' \in [LockNames -> Threads \cup {Free}]
    BY <1>10, <1>a, UnlockType, GotoType DEF Flush, TypeOK, Labels, Return, UnlockAll
  <2>2. /\ dev' \in [Handles -> DevStates] /\ told' \in [Handles -> Mdata \cup {NULL}]
        /\ send_new_metadata' \in BOOLEAN
        /\ UNCHANGED <<gapless_mdata, raced, unstarted>>
    BY <1>10, CompressStopType DEF Flush, StopCompressed, TypeOK
  <2> QED
    BY <1>10, <2>1, <2>2 DEF Flush, TypeOK
<1>11. ASSUME NEW c \in Clients, AwaitThread(c) PROVE TypeOK'
  <2>1. pc' \in [Threads -> Labels]
    BY <1>11, <1>a, GotoType DEF AwaitThread, Return, Labels
  <2>2. locks' \in [LockNames -> Threads \cup {Free}]
    BY <1>11, <1>a, UnlockType DEF AwaitThread, Return, UnlockAll, TypeOK
  <2> QED
    BY <1>11, <2>1, <2>2 DEF AwaitThread, TypeOK
<1>12. ASSUME NEW c \in Clients, FlushDone(c) PROVE TypeOK'
  BY <1>12, <1>a, UnlockType, GotoType
     DEF FlushDone, ThreadIsOut, States, TypeOK, Labels, Return, UnlockAll
<1>13. ASSUME NEW c \in Clients, Standby(c) PROVE TypeOK'
  <2>1. pc' \in [Threads -> Labels] /\ locks' \in [LockNames -> Threads \cup {Free}]
    BY <1>13, <1>a, UnlockType, GotoType DEF Standby, TypeOK, Labels, Return, UnlockAll
  <2>2. op' \in [Clients -> Ops \cup {"exit"}]
    BY <1>13 DEF Standby, TypeOK
  <2> QED
    BY <1>13, <2>1, <2>2 DEF Standby, TypeOK
<1>14. ASSUME NEW c \in Clients, StandbyLocked(c) PROVE TypeOK'
  BY <1>14, <1>a, CompressStopType, UnlockType, GotoType
     DEF StandbyLocked, BeginStandby, StopCompressed, TypeOK, Labels, Return, UnlockAll
<1>15. ASSUME NEW c \in Clients, FinishStandby(c) PROVE TypeOK'
  <2>1. pc' \in [Threads -> Labels] /\ locks' \in [LockNames -> Threads \cup {Free}]
    BY <1>15, <1>a, UnlockType, GotoType DEF FinishStandby, TypeOK, Labels, UnlockAll
  <2>2. op' \in [Clients -> Ops \cup {"exit"}]
    BY <1>15 DEF FinishStandby, TypeOK
  <2>3. fx' \in BOOLEAN /\ offload_state' \in States /\ uc' \in Nat
    BY <1>15, StopOutputType DEF FinishStandby, TypeOK
  <2>4. /\ compr' \in Handles \cup {NULL}
        /\ dev' \in [Handles -> DevStates] /\ told' \in [Handles -> Mdata \cup {NULL}]
    BY <1>15 DEF FinishStandby, TypeOK, DevIs, DevStates
  <2>5. gapless_mdata' \in Mdata
    BY <1>15 DEF FinishStandby, OffloadAssumption
  <2> QED
    BY <1>15, <2>1, <2>2, <2>3, <2>4, <2>5 DEF FinishStandby, TypeOK
<1>16. ASSUME NEW c \in Clients, Route(c) PROVE TypeOK'
  <2>1. pc' \in [Threads -> Labels]
    BY <1>16, <1>a, GotoType DEF Route, Return, Labels
  <2>2. locks' \in [LockNames -> Threads \cup {Free}]
    BY <1>16, <1>a, UnlockType DEF Route, Return, UnlockAll, TypeOK
  <2> QED
    BY <1>16, <2>1, <2>2 DEF Route, TypeOK
<1>17. ASSUME NEW c \in Clients, RouteLocked(c) PROVE TypeOK'
  <2>1. pc' \in [Threads -> Labels] /\ locks' \in [LockNames -> Threads \cup {Free}]
    BY <1>17, <1>a, UnlockType, GotoType
       DEF RouteLocked, BeginStandby, TypeOK, Labels, Return, UnlockAll
  <2>2. /\ dev' \in [Handles -> DevStates] /\ told' \in [Handles -> Mdata \cup {NULL}]
        /\ send_new_metadata' \in BOOLEAN /\ standby' \in BOOLEAN
        /\ UNCHANGED <<gapless_mdata, raced, unstarted>>
    BY <1>17, CompressStopType DEF RouteLocked, BeginStandby, StopCompressed, TypeOK
  <2> QED
    BY <1>17, <2>1, <2>2 DEF RouteLocked, TypeOK
<1>18. ASSUME NEW c \in Clients, WriteEnter(c) PROVE TypeOK'
  <2>1. pc' \in [Threads -> Labels]
    BY <1>18, <1>a, GotoType DEF WriteEnter, Return, Labels
  <2>2. locks' \in [LockNames -> Threads \cup {Free}]
    BY <1>18, <1>a, UnlockType DEF WriteEnter, Return, UnlockAll, TypeOK
  <2> QED
    BY <1>18, <2>1, <2>2 DEF WriteEnter, TypeOK
<1>19. ASSUME NEW c \in Clients, StartOutput(c) PROVE TypeOK'
  <2>1. pc' \in [Threads -> Labels] /\ locks' \in [LockNames -> Threads \cup {Free}]
    BY <1>19, <1>a, UnlockType, GotoType DEF StartOutput, TypeOK, Labels
  <2>2. compr' \in Handles /\ dev' \in [Handles -> DevStates]
    BY <1>19 DEF StartOutput, TypeOK, DevIs, DevStates
  <2>3. uc' \in Nat /\ fx' \in BOOLEAN
    BY <1>19 DEF StartOutput, TypeOK, Enabled, OffloadAssumption
  <2> QED
    BY <1>19, <2>1, <2>2, <2>3 DEF StartOutput, TypeOK
<1>20. ASSUME NEW c \in Clients, StartFails(c) PROVE TypeOK'
  BY <1>20, <1>a, StopOutputType, UnlockType, GotoType
     DEF StartFails, Enabled, Ops, TypeOK, Labels, Return, UnlockAll
<1>21. ASSUME NEW c \in Clients, WriteFlushed(c) PROVE TypeOK'
  <2>1. pc' \in [Threads -> Labels]
    BY <1>21, <1>a, GotoType DEF WriteFlushed, Return, Labels
  <2>2. locks' \in [LockNames -> Threads \cup {Free}]
    BY <1>21, <1>a, UnlockType DEF WriteFlushed, Return, UnlockAll, TypeOK
  <2> QED
    BY <1>21, <2>1, <2>2 DEF WriteFlushed, TypeOK
<1>22. ASSUME NEW c \in Clients, WriteEnable(c) PROVE TypeOK'
  BY <1>22, <1>a, UnlockType, GotoType
     DEF WriteEnable, Enabled, TypeOK, Labels, Return, UnlockAll
<1>23. ASSUME NEW c \in Clients, Put(c) PROVE TypeOK'
  <2>1. cmds' \in Seq(Cmds)
    BY <1>23, SendType DEF Put, Cmds, TypeOK
  <2>2. pc' \in [Threads -> Labels]
    <3>1. Goto(c, "idle") \in [Threads -> Labels]
      BY <1>a, GotoType DEF Labels
    <3> QED
      BY <1>23, <3>1, SignalOffloadLabels DEF Put
  <2>3. compr \in Handles
    BY <1>23 DEF Put, Ready, HandleInv, TypeOK
  <2>4. dev' \in [Handles -> DevStates] /\ unstarted' \in BOOLEAN
    <3>1. dev[compr] \in DevStates
      BY <2>3 DEF TypeOK
    <3>2. unstarted \in BOOLEAN
      BY DEF TypeOK
    <3> QED
      BY <1>23, <2>3, <3>1, <3>2 DEF Put, DevIs, DevStates, TypeOK
  <2>5. locks' \in [LockNames -> Threads \cup {Free}]
    BY <1>23, <1>a, UnlockType DEF Put, UnlockAll
  <2> QED
    BY <1>23, <2>1, <2>2, <2>4, <2>5 DEF Put, TypeOK, States
<1>40. ASSUME NEW c \in Clients, SendMetadata(c) PROVE TypeOK'
  <2>1. pc' \in [Threads -> Labels]
    BY <1>40, <1>a, GotoType DEF SendMetadata, Labels
  <2>2. told' \in [Handles -> Mdata \cup {NULL}]
    BY <1>40 DEF SendMetadata, TypeOK
  <2> QED
    BY <1>40, <2>1, <2>2 DEF SendMetadata, TypeOK
<1>41. ASSUME NEW c \in Clients, ParseMetadata(c) PROVE TypeOK'
  <2>1. pc' \in [Threads -> Labels] /\ gapless_mdata' \in Mdata
    BY <1>41, <1>a, GotoType DEF ParseMetadata, Labels, TypeOK
  <2> QED
    BY <1>41, <2>1 DEF ParseMetadata, TypeOK
<1>42. ASSUME NEW c \in Clients, ParseFlag(c) PROVE TypeOK'
  <2>1. pc' \in [Threads -> Labels]
    BY <1>42, <1>a, GotoType DEF ParseFlag, Labels
  <2>2. raced' \in BOOLEAN
    BY <1>42 DEF ParseFlag, TypeOK
  <2> QED
    BY <1>42, <2>1, <2>2 DEF ParseFlag, TypeOK
<1>24. ASSUME NEW c \in Clients, SendExit(c) PROVE TypeOK'
  <2>1. pc' \in [Threads -> Labels]
    BY <1>24, SignalOffloadGoto DEF SendExit, Labels
  <2>2. cmds' \in Seq(Cmds)
    BY <1>24, SendType DEF SendExit, Cmds
  <2>3. locks' \in [LockNames -> Threads \cup {Free}]
    BY <1>24, <1>a, UnlockType DEF SendExit, UnlockAll
  <2> QED
    BY <1>24, <2>1, <2>2, <2>3 DEF SendExit, TypeOK
<1>25. ASSUME NEW c \in Clients, Join(c) PROVE TypeOK'
  BY <1>25, <1>a, UnlockType, GotoType
     DEF Join, TypeOK, Labels, Return, UnlockAll
<1>26. ASSUME NEW t \in Threads, LockPre(t) PROVE TypeOK'
  <2>1. pc' \in [Threads -> Labels]
    BY <1>26, GotoType DEF LockPre, Labels
  <2>2. locks' \in [LockNames -> Threads \cup {Free}]
    BY <1>26 DEF LockPre, TypeOK
  <2> QED
    BY <1>26, <2>1, <2>2 DEF LockPre, TypeOK
<1>27. ASSUME NEW t \in Threads, LockStream(t) PROVE TypeOK'
  <2>1. pc' \in [Threads -> Labels]
    BY <1>27, GotoType DEF LockStream, Labels
  <2>2. locks' \in [LockNames -> Threads \cup {Free}]
    BY <1>27 DEF LockStream, TypeOK
  <2> QED
    BY <1>27, <2>1, <2>2 DEF LockStream, TypeOK
<1>28. ASSUME NEW t \in Threads, Relock(t) PROVE TypeOK'
  <2>1. pc' \in [Threads -> Labels]
    BY <1>28, GotoType DEF Relock, Labels
  <2>2. locks' \in [LockNames -> Threads \cup {Free}]
    BY <1>28 DEF Relock, TypeOK
  <2> QED
    BY <1>28, <2>1, <2>2 DEF Relock, TypeOK
<1>29. ASSUME NEW t \in Threads, Spurious(t) PROVE TypeOK'
  <2>1. pc' \in [Threads -> Labels]
    BY <1>29, GotoType DEF Spurious, Labels
  <2>2. locks' \in [LockNames -> Threads \cup {Free}]
    BY <1>29 DEF Spurious, TypeOK
  <2> QED
    BY <1>29, <2>1, <2>2 DEF Spurious, TypeOK
<1>30. ASSUME Sleep PROVE TypeOK'
  BY <1>30, <1>b, TakeType, SignalCondLabels, UnlockType, GotoType
     DEF Sleep, TypeOK, Labels, Cmds, UnlockAll
<1>31. ASSUME TakeExit PROVE TypeOK'
  <2>1. cmds' \in Seq(Cmds)
    BY <1>31 DEF TakeExit
  <2>2. pc' \in [Threads -> Labels]
    <3>1. Goto(OT, "done") \in [Threads -> Labels]
      BY <1>b, GotoType DEF Labels
    <3> QED
      BY <1>31, <3>1, SignalCondLabels DEF TakeExit
  <2> QED
    BY <1>31, <1>b, <2>1, <2>2, UnlockType DEF TakeExit, TypeOK, UnlockAll
<1>32. ASSUME DropCommand PROVE TypeOK'
  <2>1. pc' \in [Threads -> Labels] /\ cmds' \in Seq(Cmds)
    BY <1>32, SignalCondHere, TakeType DEF DropCommand
  <2> QED
    BY <1>32, <2>1 DEF DropCommand, TypeOK
<1>33. ASSUME TakeCommand PROVE TypeOK'
  BY <1>33, <1>b, TakeType, SignalCondLabels, UnlockType, GotoType
     DEF TakeCommand, TypeOK, Labels, Cmds, UnlockAll
<1>34. ASSUME NextTrack PROVE TypeOK'
  BY <1>34, <1>b, TakeType, SignalCondLabels, UnlockType, GotoType
     DEF NextTrack, TypeOK, Labels, Cmds, UnlockAll
<1>35. ASSUME EnterDriver PROVE TypeOK'
  BY <1>35, <1>b, TakeType, SignalCondLabels, UnlockType, GotoType
     DEF EnterDriver, TypeOK, Labels, Cmds, UnlockAll
<1>36. ASSUME LeaveDriver PROVE TypeOK'
  <2>1. pc' \in [Threads -> Labels]
    BY <1>36, <1>b, GotoType DEF LeaveDriver, Labels
  <2> QED
    BY <1>36, <2>1 DEF LeaveDriver, TypeOK
<1>43. ASSUME FindRoom PROVE TypeOK'
  <2>1. pc' \in [Threads -> Labels]
    BY <1>43, <1>b, GotoType DEF FindRoom, Labels
  <2> QED
    BY <1>43, <2>1 DEF FindRoom, TypeOK
<1>37. ASSUME Deliver PROVE TypeOK'
  <2>1. pc' \in [Threads -> Labels]
    BY <1>37, SignalCondHere DEF Deliver
  <2> QED
    BY <1>37, <2>1 DEF Deliver, TypeOK
<1>38. ASSUME NEW c \in Clients, NEW o \in Ops, Call(c, o) PROVE TypeOK'
  BY <1>38, <1>a, GotoType DEF Call, FirstLabel, TypeOK, Labels
<1>39. ASSUME UNCHANGED vars PROVE TypeOK'
  BY <1>39 DEF vars, TypeOK
<1> QED
  BY <1>1, <1>2, <1>3, <1>4, <1>5, <1>6, <1>7, <1>8, <1>9, <1>10, <1>11, <1>12, <1>13,
     <1>14, <1>15, <1>16, <1>17, <1>18, <1>19, <1>20, <1>21, <1>22, <1>23, <1>24, <1>25,
     <1>26, <1>27, <1>28, <1>29, <1>30, <1>31, <1>32, <1>33, <1>34, <1>35, <1>36, <1>37,
     <1>38, <1>39, <1>40, <1>41, <1>42, <1>43 DEF Next, ClientStep, OffloadStep, Gone

-----------------------------------------------------------------------------
(* The mutexes have the owners that the labels say.                        *)

\* A step of thread t: another thread at most learns of a signal, and keeps
\* its operation and its mutexes.
Frame(t) ==
    /\ \A u \in Threads \ {t} :
          \/ pc'[u] = pc[u]
          \/ u \in Clients /\ pc[u] = "wait" /\ pc'[u] = "woken"
          \/ u = OT /\ pc[u] = "asleep" /\ pc'[u] = "woken"
    /\ \A d \in Clients \ {t} : op'[d] = op[d]
    /\ \A l \in LockNames, u \in Threads \ {t} : locks[l] = u => locks'[l] = u

\* What remains to be seen of the thread that makes the step.
Owns(t) ==
    /\ t \in Clients => pc'[t] # "asleep"
    /\ pc'[t] = "lock" => locks'["pre_lock"] = t
    /\ InStream(t)' => locks'["lock"] = t
    /\ t \in Clients /\ InDevice(t)' => locks'["adev"] = t

LEMMA OtherStopping ==
  ASSUME OffloadAssumption, TypeOK, NEW t \in Threads, Frame(t),
         NEW c \in Clients, c # t
  PROVE  Stopping(c)' <=> Stopping(c)
BY DEF OffloadAssumption, Frame, Stopping, Threads, LockInv

LEMMA LockFrame ==
  ASSUME OffloadAssumption, LockInv, NEW t \in Threads, Frame(t), Owns(t),
         pc'[OT] \in OffloadLabels
  PROVE  LockInv'
<1>1. ASSUME NEW u \in Threads, InStream(u)' PROVE locks'["lock"] = u
  <2>1. CASE u = t
    BY <1>1, <2>1 DEF Owns
  <2>2. CASE u # t
    BY <1>1, <2>2 DEF Frame, InStream, LockInv, Threads, LockNames
  <2> QED
    BY <2>1, <2>2
<1>2. ASSUME NEW c \in Clients, InDevice(c)' PROVE locks'["adev"] = c
  <2>1. CASE c = t
    BY <1>2, <2>1 DEF Owns
  <2>2. CASE c # t
    BY <1>2, <2>2 DEF Frame, InDevice, Stopping, LockInv, Threads, LockNames
  <2> QED
    BY <2>1, <2>2
<1>3. \A c \in Clients : pc'[c] # "asleep"
  BY DEF Frame, Owns, LockInv, Threads
<1>4. ASSUME NEW u \in Threads, pc'[u] = "lock" PROVE locks'["pre_lock"] = u
  BY <1>4 DEF Frame, Owns, LockInv, LockNames
<1> QED
  BY <1>1, <1>2, <1>3, <1>4 DEF LockInv

\* A call that goes nowhere where a mutex is needed owns what it must.
LEMMA OwnsNothing ==
  ASSUME NEW c \in Clients, pc'[c] \in {"idle", "pre", "inputs", "parse", "flag", "join"}
  PROVE  Owns(c)
BY DEF Owns, InStream, InDevice, Stopping

\* A step of client c alone, which takes no mutex from another thread.
LEMMA FrameAlone ==
  ASSUME OffloadAssumption, TypeOK, LockInv, NEW c \in Clients, NEW l \in Labels,
         pc' = Goto(c, l), \A d \in Clients \ {c} : op'[d] = op[d],
         \A k \in LockNames, u \in Threads \ {c} : locks[k] = u => locks'[k] = u
  PROVE  Frame(c) /\ pc'[OT] \in OffloadLabels
<1>1. c \in Threads /\ OT \in Threads /\ c # OT
  BY DEF Threads, OffloadAssumption
<1>2. \A u \in Threads : u # c => pc'[u] = pc[u]
  BY <1>1, GotoType
<1> QED
  BY <1>1, <1>2 DEF Frame, LockInv

LEMMA LockStep ==
  ASSUME OffloadAssumption, TypeOK, LockInv, [Next]_vars
  PROVE  LockInv'
<1> USE DEF client, thread, device, stream, metadata
<1>a. \A c \in Clients : c \in Threads /\ c # OT
  BY DEF Threads, OffloadAssumption
<1>b. OT \in Threads /\ OT \notin Clients
  BY DEF Threads, OffloadAssumption
<1>1. ASSUME NEW c \in Clients, LockInputs(c) PROVE LockInv'
  <2>1. Frame(c) /\ pc'[OT] \in OffloadLabels
    BY <1>1, <1>a, <1>b, UnlockType, GotoType
       DEF LockInputs, Frame, TypeOK, LockInv, Labels, OffloadLabels, Return, UnlockAll
  <2>2. Owns(c)
    <3>1. pc'[c] \in {"idle", "pre"}
      BY <1>1, <1>a, GotoType DEF LockInputs, Labels
    <3> QED
      BY <3>1, OwnsNothing
  <2> QED
    BY <1>a, <2>1, <2>2, LockFrame
<1>2. ASSUME NEW c \in Clients, LockDevice(c) PROVE LockInv'
  <2>1. Frame(c) /\ pc'[OT] \in OffloadLabels
    BY <1>2, <1>a, <1>b, UnlockType, GotoType
       DEF LockDevice, Frame, TypeOK, LockInv, Labels, OffloadLabels, Return, UnlockAll
  <2>2. Owns(c)
    <3>1. pc'[c] = "hold" /\ op' = op
      BY <1>2, <1>a, GotoType DEF LockDevice, Labels
    <3>2. op[c] # "set_mode" => locks["lock"] = c
      BY <1>2, <1>a DEF LockDevice, InStream, LockInv
    <3>3. locks'["adev"] = c /\ locks'["lock"] = locks["lock"]
      BY <1>2 DEF LockDevice, TypeOK, LockNames
    <3> QED
      BY <3>1, <3>2, <3>3 DEF Owns, InStream, InDevice, Stopping
  <2> QED
    BY <1>a, <2>1, <2>2, LockFrame
<1>3. ASSUME NEW c \in Clients, Query(c) PROVE LockInv'
  <2>1. Frame(c) /\ pc'[OT] \in OffloadLabels
    BY <1>3, <1>a, <1>b, UnlockType, GotoType
       DEF Query, Frame, TypeOK, LockInv, Labels, OffloadLabels, Return, UnlockAll
  <2>2. Owns(c)
    <3>1. pc'[c] \in {"idle", "pre"}
      BY <1>3, <1>a, GotoType DEF Query, Return, Labels
    <3> QED
      BY <3>1, OwnsNothing
  <2> QED
    BY <1>a, <2>1, <2>2, LockFrame
<1>4. ASSUME NEW c \in Clients, SetMode(c) PROVE LockInv'
  <2>1. Frame(c) /\ pc'[OT] \in OffloadLabels
    BY <1>4, <1>a, <1>b, UnlockType, GotoType
       DEF SetMode, Frame, TypeOK, LockInv, Labels, OffloadLabels, Return, UnlockAll
  <2>2. Owns(c)
    <3>1. pc'[c] \in {"idle", "pre"}
      BY <1>4, <1>a, GotoType DEF SetMode, Return, Labels
    <3> QED
      BY <3>1, OwnsNothing
  <2> QED
    BY <1>a, <2>1, <2>2, LockFrame
<1>5. ASSUME NEW c \in Clients, Drain(c) PROVE LockInv'
  <2>1. /\ pc'[c] = "idle"
        /\ \A d \in Clients \ {c} : pc'[d] = pc[d]
        /\ pc'[OT] # pc[OT] => pc[OT] = "asleep" /\ pc'[OT] = "woken"
    <3>1. pc' = SignalOffload(Goto(c, "idle")) /\ "idle" \in Labels
      BY <1>5 DEF Drain, Labels
    <3> QED
      BY <3>1, SignalOffloadGoto
  <2>2. Frame(c) /\ pc'[OT] \in OffloadLabels
    BY <1>5, <1>a, <1>b, <2>1, UnlockType
       DEF Drain, Frame, Threads, LockInv, OffloadLabels, UnlockAll
  <2>3. Owns(c)
    BY <2>1, <1>a DEF Owns, InStream, InDevice, Stopping
  <2> QED
    BY <1>a, <2>2, <2>3, LockFrame
<1>6. ASSUME NEW c \in Clients, Pause(c) PROVE LockInv'
  <2>1. Frame(c) /\ pc'[OT] \in OffloadLabels
    BY <1>6, <1>a, <1>b, UnlockType, GotoType
       DEF Pause, Frame, TypeOK, LockInv, Labels, OffloadLabels, Return, UnlockAll
  <2>2. Owns(c)
    <3>1. \/ pc'[c] = "adev" /\ locks' = locks
          \/ pc'[c] \in {"idle", "pre"}
      BY <1>6, <1>a, GotoType DEF Pause, Return, Labels
    <3>2. locks["lock"] = c
      BY <1>6, <1>a DEF Pause, InStream, LockInv
    <3> QED
      BY <3>1, <3>2, OwnsNothing DEF Owns, InStream, InDevice, Stopping
  <2> QED
    BY <1>a, <2>1, <2>2, LockFrame
<1>7. ASSUME NEW c \in Clients, PauseDisable(c) PROVE LockInv'
  <2>1. Frame(c) /\ pc'[OT] \in OffloadLabels
    BY <1>7, <1>a, <1>b, UnlockType, GotoType
       DEF PauseDisable, Frame, TypeOK, LockInv, Labels, OffloadLabels, Return, UnlockAll
  <2>2. Owns(c)
    <3>1. pc'[c] \in {"idle", "pre"}
      BY <1>7, <1>a, GotoType DEF PauseDisable, Return, Labels
    <3> QED
      BY <3>1, OwnsNothing
  <2> QED
    BY <1>a, <2>1, <2>2, LockFrame
<1>8. ASSUME NEW c \in Clients, Resume(c) PROVE LockInv'
  <2>1. Frame(c) /\ pc'[OT] \in OffloadLabels
    BY <1>8, <1>a, <1>b, UnlockType, GotoType
       DEF Resume, Frame, TypeOK, LockInv, Labels, OffloadLabels, Return, UnlockAll
  <2>2. Owns(c)
    <3>1. \/ pc'[c] = "adev" /\ locks' = locks
          \/ pc'[c] \in {"idle", "pre"}
      BY <1>8, <1>a, GotoType DEF Resume, Return, Labels
    <3>2. locks["lock"] = c
      BY <1>8, <1>a DEF Resume, InStream, LockInv
    <3> QED
      BY <3>1, <3>2, OwnsNothing DEF Owns, InStream, InDevice, Stopping
  <2> QED
    BY <1>a, <2>1, <2>2, LockFrame
<1>9. ASSUME NEW c \in Clients, ResumeEnable(c) PROVE LockInv'
  <2>1. Frame(c) /\ pc'[OT] \in OffloadLabels
    BY <1>9, <1>a, <1>b, UnlockType, GotoType
       DEF ResumeEnable, Frame, TypeOK, LockInv, Labels, OffloadLabels, Return, UnlockAll
  <2>2. Owns(c)
    <3>1. pc'[c] \in {"idle", "pre"}
      BY <1>9, <1>a, GotoType DEF ResumeEnable, Return, Labels
    <3> QED
      BY <3>1, OwnsNothing
  <2> QED
    BY <1>a, <2>1, <2>2, LockFrame
<1>10. ASSUME NEW c \in Clients, Flush(c) PROVE LockInv'
  <2>1. Frame(c) /\ pc'[OT] \in OffloadLabels
    BY <1>10, <1>a, <1>b, UnlockType, GotoType
       DEF Flush, Frame, TypeOK, LockInv, Labels, OffloadLabels, Return, UnlockAll
  <2>2. Owns(c)
    BY <1>10, <1>a, UnlockType, GotoType
       DEF Flush, Owns, InStream, InDevice, Stopping, TypeOK, LockInv,
           LockNames, Labels, Return, UnlockAll
  <2> QED
    BY <1>a, <2>1, <2>2, LockFrame
<1>11. ASSUME NEW c \in Clients, AwaitThread(c) PROVE LockInv'
  <2>1. Frame(c) /\ pc'[OT] \in OffloadLabels
    BY <1>11, <1>a, <1>b, UnlockType, GotoType
       DEF AwaitThread, Frame, TypeOK, LockInv, Labels, OffloadLabels, Return, UnlockAll
  <2>2. Owns(c)
    BY <1>11, <1>a, UnlockType, GotoType
       DEF AwaitThread, Owns, InStream, InDevice, Stopping, TypeOK, LockInv,
           LockNames, Labels, Return, UnlockAll
  <2> QED
    BY <1>a, <2>1, <2>2, LockFrame
<1>12. ASSUME NEW c \in Clients, FlushDone(c) PROVE LockInv'
  <2>1. Frame(c) /\ pc'[OT] \in OffloadLabels
    BY <1>12, <1>a, <1>b, UnlockType, GotoType
       DEF FlushDone, ThreadIsOut, Frame, TypeOK, LockInv, Labels, OffloadLabels, Return, UnlockAll
  <2>2. Owns(c)
    <3>1. pc'[c] \in {"idle", "pre"}
      BY <1>12, <1>a, GotoType DEF FlushDone, Return, Labels
    <3> QED
      BY <3>1, OwnsNothing
  <2> QED
    BY <1>a, <2>1, <2>2, LockFrame
<1>13. ASSUME NEW c \in Clients, Standby(c) PROVE LockInv'
  <2>1. Frame(c) /\ pc'[OT] \in OffloadLabels
    <3>1. \E l \in {"adev", "idle", "pre"} : pc' = Goto(c, l)
      BY <1>13 DEF Standby, Return
    <3>2. {"adev", "idle", "pre"} \subseteq Labels
      BY DEF Labels
    <3>3. \A d \in Clients \ {c} : op'[d] = op[d]
      BY <1>13 DEF Standby, TypeOK
    <3>4. locks' = locks \/ locks' = Unlock(c, LockNames)
      BY <1>13 DEF Standby, Return, UnlockAll
    <3>5. \A k \in LockNames, u \in Threads \ {c} : locks[k] = u => locks'[k] = u
      BY <3>4, <1>a, UnlockType
    <3> QED
      BY <3>1, <3>2, <3>3, <3>5, FrameAlone
  <2>2. Owns(c)
    <3>1. \/ pc'[c] = "adev" /\ locks' = locks
          \/ pc'[c] \in {"idle", "pre"}
      BY <1>13, <1>a, GotoType DEF Standby, Return, Labels
    <3>2. locks["lock"] = c
      BY <1>13, <1>a DEF Standby, InStream, LockInv
    <3> QED
      BY <3>1, <3>2 DEF Owns, InStream, InDevice, Stopping
  <2> QED
    BY <1>a, <2>1, <2>2, LockFrame
<1>14. ASSUME NEW c \in Clients, StandbyLocked(c) PROVE LockInv'
  <2>1. Frame(c) /\ pc'[OT] \in OffloadLabels
    BY <1>14, <1>a, <1>b, UnlockType, GotoType
       DEF StandbyLocked, BeginStandby, Frame, TypeOK, LockInv, Labels, OffloadLabels,
          Return, UnlockAll
  <2>2. Owns(c)
    BY <1>14, <1>a, UnlockType, GotoType
       DEF StandbyLocked, BeginStandby, Owns, InStream, InDevice, Stopping, TypeOK, LockInv,
           LockNames, Labels, Return, UnlockAll
  <2> QED
    BY <1>a, <2>1, <2>2, LockFrame
<1>15. ASSUME NEW c \in Clients, FinishStandby(c) PROVE LockInv'
  <2>1. Frame(c) /\ pc'[OT] \in OffloadLabels
    <3>1. PICK l \in {"pre", "idle", "parse"} : pc' = Goto(c, l)
      BY <1>15 DEF FinishStandby
    <3>2. l \in Labels
      BY DEF Labels
    <3>3. \A d \in Clients \ {c} : op'[d] = op[d]
      BY <1>15 DEF FinishStandby, TypeOK
    <3>4. \A k \in LockNames, u \in Threads \ {c} : locks[k] = u => locks'[k] = u
      BY <1>15, <1>a, UnlockType DEF FinishStandby, UnlockAll
    <3> QED
      BY <3>1, <3>2, <3>3, <3>4, FrameAlone
  <2>2. Owns(c)
    <3>1. pc'[c] \in {"pre", "idle", "parse"}
      BY <1>15, <1>a, GotoType DEF FinishStandby, Labels
    <3> QED
      BY <3>1, OwnsNothing
  <2> QED
    BY <1>a, <2>1, <2>2, LockFrame
<1>16. ASSUME NEW c \in Clients, Route(c) PROVE LockInv'
  <2>1. Frame(c) /\ pc'[OT] \in OffloadLabels
    BY <1>16, <1>a, <1>b, UnlockType, GotoType
       DEF Route, Frame, TypeOK, LockInv, Labels, OffloadLabels, Return, UnlockAll
  <2>2. Owns(c)
    <3>1. pc'[c] = "adev" /\ locks' = locks
      BY <1>16, <1>a, GotoType DEF Route, Labels
    <3>2. locks["lock"] = c
      BY <1>16, <1>a DEF Route, InStream, LockInv
    <3> QED
      BY <3>1, <3>2 DEF Owns, InStream, InDevice, Stopping
  <2> QED
    BY <1>a, <2>1, <2>2, LockFrame
<1>17. ASSUME NEW c \in Clients, RouteLocked(c) PROVE LockInv'
  <2>1. Frame(c) /\ pc'[OT] \in OffloadLabels
    BY <1>17, <1>a, <1>b, UnlockType, GotoType
       DEF RouteLocked, BeginStandby, Frame, TypeOK, LockInv, Labels, OffloadLabels,
          Return, UnlockAll
  <2>2. Owns(c)
    BY <1>17, <1>a, UnlockType, GotoType
       DEF RouteLocked, BeginStandby, Owns, InStream, InDevice, Stopping, TypeOK, LockInv,
           LockNames, Labels, Return, UnlockAll
  <2> QED
    BY <1>a, <2>1, <2>2, LockFrame
<1>18. ASSUME NEW c \in Clients, WriteEnter(c) PROVE LockInv'
  <2>1. Frame(c) /\ pc'[OT] \in OffloadLabels
    BY <1>18, <1>a, <1>b, UnlockType, GotoType
       DEF WriteEnter, Frame, TypeOK, LockInv, Labels, OffloadLabels, Return, UnlockAll
  <2>2. Owns(c)
    <3>1. \/ pc'[c] = "inputs"
          \/ pc'[c] = "adev" /\ locks' = locks
          \/ pc'[c] = "data" /\ locks' = Unlock(c, {"lock_inputs"})
      BY <1>18, <1>a, GotoType DEF WriteEnter, Labels
    <3>2. locks["lock"] = c
      BY <1>18, <1>a DEF WriteEnter, InStream, LockInv
    <3>3. Unlock(c, {"lock_inputs"})["lock"] = c
      BY <3>2 DEF Unlock, LockNames
    <3> QED
      BY <3>1, <3>2, <3>3, OwnsNothing DEF Owns, InStream, InDevice, Stopping
  <2> QED
    BY <1>a, <2>1, <2>2, LockFrame
<1>19. ASSUME NEW c \in Clients, StartOutput(c) PROVE LockInv'
  <2>1. Frame(c) /\ pc'[OT] \in OffloadLabels
    BY <1>19, <1>a, <1>b, UnlockType, GotoType
       DEF StartOutput, Frame, TypeOK, LockInv, Labels, OffloadLabels, Return, UnlockAll
  <2>2. Owns(c)
    <3>1. locks["lock"] = c
      BY <1>19, <1>a DEF StartOutput, InStream, LockInv
    <3>2. pc'[c] = "data"
      BY <1>19, <1>a, GotoType DEF StartOutput, Labels
    <3>3. locks'["lock"] = c
      BY <1>19, <3>1 DEF StartOutput, Unlock, LockNames
    <3> QED
      BY <3>2, <3>3 DEF Owns, InDevice, Stopping
  <2> QED
    BY <1>a, <2>1, <2>2, LockFrame
<1>20. ASSUME NEW c \in Clients, StartFails(c) PROVE LockInv'
  <2>1. Frame(c) /\ pc'[OT] \in OffloadLabels
    <3>1. \E l \in {"pre"} : pc' = Goto(c, l)
      BY <1>20 DEF StartFails
    <3>2. {"pre"} \subseteq Labels
      BY DEF Labels
    <3>3. \A d \in Clients \ {c} : op'[d] = op[d]
      BY <1>20 DEF StartFails, TypeOK
    <3>4. locks' = locks \/ locks' = Unlock(c, LockNames)
      BY <1>20 DEF StartFails, UnlockAll
    <3>5. \A k \in LockNames, u \in Threads \ {c} : locks[k] = u => locks'[k] = u
      BY <3>4, <1>a, UnlockType
    <3> QED
      BY <3>1, <3>2, <3>3, <3>5, FrameAlone
  <2>2. Owns(c)
    <3>1. pc'[c] \in {"idle", "pre"}
      BY <1>20, <1>a, GotoType DEF StartFails, Labels
    <3> QED
      BY <3>1, OwnsNothing
  <2> QED
    BY <1>a, <2>1, <2>2, LockFrame
<1>21. ASSUME NEW c \in Clients, WriteFlushed(c) PROVE LockInv'
  <2>1. Frame(c) /\ pc'[OT] \in OffloadLabels
    BY <1>21, <1>a, <1>b, UnlockType, GotoType
       DEF WriteFlushed, Frame, TypeOK, LockInv, Labels, OffloadLabels, Return, UnlockAll
  <2>2. Owns(c)
    <3>1. pc'[c] = "adev" /\ locks' = locks
      BY <1>21, <1>a, GotoType DEF WriteFlushed, Labels
    <3>2. locks["lock"] = c
      BY <1>21, <1>a DEF WriteFlushed, InStream, LockInv
    <3> QED
      BY <3>1, <3>2 DEF Owns, InStream, InDevice, Stopping
  <2> QED
    BY <1>a, <2>1, <2>2, LockFrame
<1>22. ASSUME NEW c \in Clients, WriteEnable(c) PROVE LockInv'
  <2>1. Frame(c) /\ pc'[OT] \in OffloadLabels
    BY <1>22, <1>a, <1>b, UnlockType, GotoType
       DEF WriteEnable, Frame, TypeOK, LockInv, Labels, OffloadLabels, Return, UnlockAll
  <2>2. Owns(c)
    <3>1. locks["lock"] = c
      BY <1>22, <1>a DEF WriteEnable, InStream, LockInv
    <3>2. pc'[c] = "put" /\ locks'["lock"] = c
      BY <1>22, <1>a, <3>1, GotoType DEF WriteEnable, Unlock, LockNames, Labels
    <3> QED
      BY <3>2 DEF Owns, InDevice, Stopping
  <2> QED
    BY <1>a, <2>1, <2>2, LockFrame
<1>23. ASSUME NEW c \in Clients, Put(c) PROVE LockInv'
  <2>1. /\ pc'[c] = "idle"
        /\ \A d \in Clients \ {c} : pc'[d] = pc[d]
        /\ pc'[OT] # pc[OT] => pc[OT] = "asleep" /\ pc'[OT] = "woken"
    <3>1. CASE pc' = SignalOffload(Goto(c, "idle"))
      BY <3>1, SignalOffloadGoto DEF Labels
    <3>2. CASE pc' = Goto(c, "idle")
      BY <3>2, <1>a, <1>b, GotoType DEF Labels, Threads
    <3> QED
      BY <1>23, <3>1, <3>2 DEF Put
  <2>2. Frame(c) /\ pc'[OT] \in OffloadLabels
    BY <1>23, <1>a, <1>b, <2>1, UnlockType
       DEF Put, Frame, Threads, LockInv, OffloadLabels, UnlockAll
  <2>3. Owns(c)
    BY <2>1, <1>a DEF Owns, InStream, InDevice, Stopping
  <2> QED
    BY <1>a, <2>2, <2>3, LockFrame
<1>24. ASSUME NEW c \in Clients, SendExit(c) PROVE LockInv'
  <2>1. /\ pc'[c] = "join"
        /\ \A d \in Clients \ {c} : pc'[d] = pc[d]
        /\ pc'[OT] # pc[OT] => pc[OT] = "asleep" /\ pc'[OT] = "woken"
    <3>1. pc' = SignalOffload(Goto(c, "join")) /\ "join" \in Labels
      BY <1>24 DEF SendExit, Labels
    <3> QED
      BY <3>1, SignalOffloadGoto
  <2>2. Frame(c) /\ pc'[OT] \in OffloadLabels
    BY <1>24, <1>a, <1>b, <2>1, UnlockType
       DEF SendExit, Frame, Threads, LockInv, OffloadLabels, UnlockAll
  <2>3. Owns(c)
    BY <2>1, <1>a DEF Owns, InStream, InDevice, Stopping
  <2> QED
    BY <1>a, <2>2, <2>3, LockFrame
<1>25. ASSUME NEW c \in Clients, Join(c) PROVE LockInv'
  <2>1. Frame(c) /\ pc'[OT] \in OffloadLabels
    BY <1>25, <1>a, <1>b, UnlockType, GotoType
       DEF Join, Frame, TypeOK, LockInv, Labels, OffloadLabels, Return, UnlockAll
  <2>2. Owns(c)
    <3>1. pc'[c] \in {"idle", "pre"}
      BY <1>25, <1>a, GotoType DEF Join, Labels
    <3> QED
      BY <3>1, OwnsNothing
  <2> QED
    BY <1>a, <2>1, <2>2, LockFrame
<1>26. ASSUME NEW t \in Threads, LockPre(t) PROVE LockInv'
  <2>1. Frame(t) /\ pc'[OT] \in OffloadLabels
    BY <1>26, <1>b, GotoType
       DEF LockPre, Frame, TypeOK, LockInv, LockNames, Labels, OffloadLabels, OffloadAssumption
  <2>2. Owns(t)
    <3>1. pc'[t] = "lock" /\ locks'["pre_lock"] = t
      BY <1>26, GotoType DEF LockPre, TypeOK, LockNames, Labels
    <3> QED
      BY <3>1 DEF Owns, InStream, InDevice, Stopping
  <2> QED
    BY <2>1, <2>2, LockFrame
<1>27. ASSUME NEW t \in Threads, LockStream(t) PROVE LockInv'
  <2>1. Frame(t) /\ pc'[OT] \in OffloadLabels
    BY <1>27, <1>b, GotoType
       DEF LockStream, Frame, TypeOK, LockInv, LockNames, Labels, OffloadLabels, OffloadAssumption
  <2>2. Owns(t)
    BY <1>27, <1>b, GotoType
       DEF LockStream, Owns, InStream, InDevice, Stopping, TypeOK, LockInv, LockNames, Labels
  <2> QED
    BY <2>1, <2>2, LockFrame
<1>28. ASSUME NEW t \in Threads, Relock(t) PROVE LockInv'
  <2>1. Frame(t) /\ pc'[OT] \in OffloadLabels
    BY <1>28, <1>b, GotoType
       DEF Relock, Frame, TypeOK, LockInv, LockNames, Labels, OffloadLabels, OffloadAssumption
  <2>2. Owns(t)
    BY <1>28, <1>b, GotoType
       DEF Relock, Owns, InStream, InDevice, Stopping, TypeOK, LockInv, LockNames, Labels
  <2> QED
    BY <2>1, <2>2, LockFrame
<1>29. ASSUME NEW t \in Threads, Spurious(t) PROVE LockInv'
  <2>1. Frame(t) /\ pc'[OT] \in OffloadLabels
    BY <1>29, <1>b, GotoType
       DEF Spurious, Frame, TypeOK, LockInv, LockNames, Labels, OffloadLabels, OffloadAssumption
  <2>2. Owns(t)
    BY <1>29, <1>b, GotoType
       DEF Spurious, Owns, InStream, InDevice, Stopping, TypeOK, LockInv, LockNames, Labels
  <2> QED
    BY <2>1, <2>2, LockFrame
<1>30. ASSUME Sleep PROVE LockInv'
  <2>1. Frame(OT) /\ pc'[OT] \in OffloadLabels
    BY <1>30, <1>b, UnlockType, GotoType
       DEF Sleep, Frame, TypeOK, LockInv, Labels, OffloadLabels, UnlockAll
  <2>2. Owns(OT)
    BY <1>30, <1>b, UnlockType, GotoType
       DEF Sleep, Owns, InStream, TypeOK, LockInv, LockNames, Labels, UnlockAll
  <2> QED
    BY <1>b, <2>1, <2>2, LockFrame
<1>31. ASSUME TakeExit PROVE LockInv'
  <2>1. /\ pc'[OT] = "done"
        /\ \A c \in Clients : pc'[c] # pc[c] => pc[c] = "wait" /\ pc'[c] = "woken"
    BY <1>31, SignalCondGoto DEF TakeExit, Labels
  <2>2. Frame(OT) /\ pc'[OT] \in OffloadLabels
    BY <1>31, <1>b, <2>1, UnlockType
       DEF TakeExit, Frame, Threads, LockInv, OffloadLabels, UnlockAll
  <2>3. Owns(OT)
    BY <1>31, <1>b, <2>1 DEF TakeExit, Owns, InStream, LockInv
  <2> QED
    BY <1>b, <2>2, <2>3, LockFrame
<1>32. ASSUME DropCommand PROVE LockInv'
  <2>1. /\ pc'[OT] = pc[OT]
        /\ \A c \in Clients : pc'[c] # pc[c] => pc[c] = "wait" /\ pc'[c] = "woken"
    BY <1>32, SignalCondHere DEF DropCommand
  <2>2. Frame(OT) /\ pc'[OT] \in OffloadLabels
    BY <1>32, <1>b, <2>1, UnlockType
       DEF DropCommand, Frame, Threads, LockInv, OffloadLabels, UnlockAll
  <2>3. Owns(OT)
    BY <1>32, <1>b, <2>1 DEF DropCommand, Owns, InStream, LockInv
  <2> QED
    BY <1>b, <2>2, <2>3, LockFrame
<1>33. ASSUME TakeCommand PROVE LockInv'
  <2>1. Frame(OT) /\ pc'[OT] \in OffloadLabels
    BY <1>33, <1>b, UnlockType, GotoType
       DEF TakeCommand, Frame, TypeOK, LockInv, Labels, OffloadLabels, UnlockAll
  <2>2. Owns(OT)
    BY <1>33, <1>b, UnlockType, GotoType
       DEF TakeCommand, Owns, InStream, TypeOK, LockInv, LockNames, Labels, UnlockAll
  <2> QED
    BY <1>b, <2>1, <2>2, LockFrame
<1>34. ASSUME NextTrack PROVE LockInv'
  <2>1. Frame(OT) /\ pc'[OT] \in OffloadLabels
    BY <1>34, <1>b, UnlockType, GotoType
       DEF NextTrack, Frame, TypeOK, LockInv, Labels, OffloadLabels, UnlockAll
  <2>2. Owns(OT)
    BY <1>34, <1>b, UnlockType, GotoType
       DEF NextTrack, Owns, InStream, TypeOK, LockInv, LockNames, Labels, UnlockAll
  <2> QED
    BY <1>b, <2>1, <2>2, LockFrame
<1>35. ASSUME EnterDriver PROVE LockInv'
  <2>1. Frame(OT) /\ pc'[OT] \in OffloadLabels
    BY <1>35, <1>b, UnlockType, GotoType
       DEF EnterDriver, Frame, TypeOK, LockInv, Labels, OffloadLabels, UnlockAll
  <2>2. Owns(OT)
    BY <1>35, <1>b, UnlockType, GotoType
       DEF EnterDriver, Owns, InStream, TypeOK, LockInv, LockNames, Labels, UnlockAll
  <2> QED
    BY <1>b, <2>1, <2>2, LockFrame
<1>36. ASSUME LeaveDriver PROVE LockInv'
  <2>1. Frame(OT) /\ pc'[OT] \in OffloadLabels
    BY <1>36, <1>b, UnlockType, GotoType
       DEF LeaveDriver, Frame, TypeOK, LockInv, Labels, OffloadLabels, UnlockAll
  <2>2. Owns(OT)
    BY <1>36, <1>b, UnlockType, GotoType
       DEF LeaveDriver, Owns, InStream, TypeOK, LockInv, LockNames, Labels, UnlockAll
  <2> QED
    BY <1>b, <2>1, <2>2, LockFrame
<1>37. ASSUME Deliver PROVE LockInv'
  <2>1. /\ pc'[OT] = pc[OT]
        /\ \A c \in Clients : pc'[c] # pc[c] => pc[c] = "wait" /\ pc'[c] = "woken"
    BY <1>37, SignalCondHere DEF Deliver
  <2>2. Frame(OT) /\ pc'[OT] \in OffloadLabels
    BY <1>37, <1>b, <2>1, UnlockType
       DEF Deliver, Frame, Threads, LockInv, OffloadLabels, UnlockAll
  <2>3. Owns(OT)
    BY <1>37, <1>b, <2>1 DEF Deliver, Owns, InStream, LockInv
  <2> QED
    BY <1>b, <2>2, <2>3, LockFrame
<1>38. ASSUME NEW c \in Clients, NEW o \in Ops, Call(c, o) PROVE LockInv'
  <2>1. Frame(c) /\ pc'[OT] \in OffloadLabels
    BY <1>38, <1>a, <1>b, GotoType
       DEF Call, FirstLabel, Frame, TypeOK, LockInv, Labels, OffloadLabels
  <2>2. Owns(c)
    BY <1>38, <1>a, GotoType
       DEF Call, FirstLabel, Owns, InStream, InDevice, Stopping, TypeOK, Labels
  <2> QED
    BY <1>a, <2>1, <2>2, LockFrame
<1>40. ASSUME NEW c \in Clients, SendMetadata(c) PROVE LockInv'
  <2>1. pc' = Goto(c, "told") /\ op' = op /\ locks' = locks /\ "told" \in Labels
    BY <1>40 DEF SendMetadata, Labels
  <2>2. Frame(c) /\ pc'[OT] \in OffloadLabels
    BY <2>1, FrameAlone
  <2>3. pc'[c] = "told" /\ locks["lock"] = c
    BY <1>40, <1>a, <2>1, GotoType DEF SendMetadata, Ready, InStream, LockInv
  <2>4. Owns(c)
    BY <2>1, <2>3 DEF Owns, InDevice, Stopping
  <2> QED
    BY <1>a, <2>2, <2>4, LockFrame
<1>41. ASSUME NEW c \in Clients, ParseMetadata(c) \/ ParseFlag(c) PROVE LockInv'
  <2>1. PICK l \in {"idle", "flag"} : pc' = Goto(c, l)
    BY <1>41 DEF ParseMetadata, ParseFlag
  <2>2. op' = op /\ locks' = locks /\ l \in Labels
    BY <1>41 DEF ParseMetadata, ParseFlag, Labels
  <2>3. Frame(c) /\ pc'[OT] \in OffloadLabels
    BY <2>1, <2>2, FrameAlone
  <2>4. pc'[c] \in {"idle", "flag"}
    BY <1>a, <2>1, <2>2, GotoType
  <2>5. Owns(c)
    BY <2>4, OwnsNothing
  <2> QED
    BY <1>a, <2>3, <2>5, LockFrame
<1>43. ASSUME FindRoom PROVE LockInv'
  <2>1. Frame(OT) /\ pc'[OT] \in OffloadLabels
    BY <1>43, <1>b, UnlockType, GotoType
       DEF FindRoom, Frame, TypeOK, LockInv, Labels, OffloadLabels, UnlockAll
  <2>2. Owns(OT)
    BY <1>43, <1>b, UnlockType, GotoType
       DEF FindRoom, Owns, InStream, TypeOK, LockInv, LockNames, Labels, UnlockAll
  <2> QED
    BY <1>b, <2>1, <2>2, LockFrame
<1>39. ASSUME UNCHANGED vars PROVE LockInv'
  BY <1>39 DEF vars, LockInv, InStream, InDevice, Stopping
<1> QED
  BY <1>1, <1>2, <1>3, <1>4, <1>5, <1>6, <1>7, <1>8, <1>9, <1>10, <1>11, <1>12, <1>13,
     <1>14, <1>15, <1>16, <1>17, <1>18, <1>19, <1>20, <1>21, <1>22, <1>23, <1>24, <1>25,
     <1>26, <1>27, <1>28, <1>29, <1>30, <1>31, <1>32, <1>33, <1>34, <1>35, <1>36, <1>37,
     <1>38, <1>39, <1>40, <1>41, <1>43 DEF Next, ClientStep, OffloadStep, Gone

-----------------------------------------------------------------------------
(* The handle outlives its use in the driver.                              *)

\* A step that leaves the handle, the flag and the standby state alone keeps
\* the invariant if no thread enters a label that the invariant speaks of.
HandleKept ==
    /\ UNCHANGED <<used, blocked, compr, standby>>
    /\ compr # NULL /\ dev[compr] # "closed" => dev'[compr] # "closed"
    /\ pc'[OT] \in {"call", "track", "driver"} => pc'[OT] = pc[OT]
    /\ \A c \in Clients : Stopping(c)' <=> Stopping(c)
    /\ \A c \in Clients : pc'[c] \in {"data", "put", "told"} => ~standby

\* Only thread t moves, and the operation of no other client changes.
Moves(t) == /\ \A u \in Threads \ {t} : pc'[u] = pc[u]
            /\ \A d \in Clients \ {t} : op'[d] = op[d]

\* Thread t does not begin or end a stop, a use of the driver or a write.
Passes(t) ==
    /\ t = OT => pc'[t] \notin {"call", "track", "driver"}
    /\ t \in Clients => /\ Stopping(t)' <=> Stopping(t)
                        /\ pc'[t] \in {"data", "put", "told"} => ~standby

LEMMA MovesKept ==
  ASSUME OffloadAssumption, HandleInv, NEW t \in Threads, Moves(t), Passes(t),
         UNCHANGED <<used, blocked, compr, standby>>,
         compr # NULL /\ dev[compr] # "closed" => dev'[compr] # "closed"
  PROVE  HandleKept
<1>1. pc'[OT] \in {"call", "track", "driver"} => pc'[OT] = pc[OT]
  BY DEF Moves, Passes, Threads
<1>2. \A c \in Clients : Stopping(c)' <=> Stopping(c)
  BY DEF Moves, Passes, Stopping, Threads
<1>3. \A c \in Clients : pc'[c] \in {"data", "put", "told"} => ~standby
  BY DEF Moves, Passes, Threads, HandleInv
<1> QED
  BY <1>1, <1>2, <1>3 DEF HandleKept

LEMMA HandleFrame == HandleInv /\ HandleKept => HandleInv'
BY DEF HandleInv, HandleKept

\* Whoever starts the stream owns adev->lock, so no standby is under way and
\* there is no handle left from before.
LEMMA StartAlone ==
  ASSUME LockInv, HandleInv, NEW c \in Clients, pc[c] = "hold", standby
  PROVE  compr = NULL /\ ~blocked
<1>1. locks["adev"] = c
  BY DEF LockInv, InDevice
<1>2. \A d \in Clients : ~Stopping(d)
  BY <1>1 DEF LockInv, InDevice, Stopping
<1> QED
  BY <1>2 DEF HandleInv

LEMMA HandleStep ==
  ASSUME OffloadAssumption, TypeOK, LockInv, HandleInv, [Next]_vars
  PROVE  HandleInv'
<1> USE DEF client, thread, device, stream, metadata
<1>a. \A c \in Clients : c \in Threads /\ c # OT
  BY DEF Threads, OffloadAssumption
<1>b. OT \in Threads /\ OT \notin Clients
  BY DEF Threads, OffloadAssumption
<1>1. ASSUME NEW c \in Clients, LockInputs(c) PROVE HandleInv'
  <2>1. Moves(c)
    BY <1>1, <1>a, GotoType DEF LockInputs, Moves, Labels, Return
  <2>2. Passes(c)
    BY <1>1, <1>a, GotoType DEF LockInputs, Passes, Stopping, Labels, Return
  <2>3. /\ UNCHANGED <<used, blocked, compr, standby>>
        /\ compr # NULL /\ dev[compr] # "closed" => dev'[compr] # "closed"
    BY <1>1 DEF LockInputs, TypeOK
  <2> QED
    BY <1>a, <2>1, <2>2, <2>3, MovesKept, HandleFrame
<1>2. ASSUME NEW c \in Clients, LockDevice(c) PROVE HandleInv'
  <2>1. Moves(c)
    BY <1>2, <1>a, GotoType DEF LockDevice, Moves, Labels, Return
  <2>2. Passes(c)
    BY <1>2, <1>a, GotoType DEF LockDevice, Passes, Stopping, Labels, Return
  <2>3. /\ UNCHANGED <<used, blocked, compr, standby>>
        /\ compr # NULL /\ dev[compr] # "closed" => dev'[compr] # "closed"
    BY <1>2 DEF LockDevice, TypeOK
  <2> QED
    BY <1>a, <2>1, <2>2, <2>3, MovesKept, HandleFrame
<1>3. ASSUME NEW c \in Clients, Query(c) PROVE HandleInv'
  <2>1. Moves(c)
    BY <1>3, <1>a, GotoType DEF Query, Moves, Labels, Return
  <2>2. Passes(c)
    BY <1>3, <1>a, GotoType DEF Query, Passes, Stopping, Labels, Return
  <2>3. /\ UNCHANGED <<used, blocked, compr, standby>>
        /\ compr # NULL /\ dev[compr] # "closed" => dev'[compr] # "closed"
    BY <1>3 DEF Query, TypeOK
  <2> QED
    BY <1>a, <2>1, <2>2, <2>3, MovesKept, HandleFrame
<1>4. ASSUME NEW c \in Clients, SetMode(c) PROVE HandleInv'
  <2>1. Moves(c)
    BY <1>4, <1>a, GotoType DEF SetMode, Moves, Labels, Return
  <2>2. Passes(c)
    BY <1>4, <1>a, GotoType DEF SetMode, Passes, Stopping, Labels, Return
  <2>3. /\ UNCHANGED <<used, blocked, compr, standby>>
        /\ compr # NULL /\ dev[compr] # "closed" => dev'[compr] # "closed"
    BY <1>4 DEF SetMode, TypeOK
  <2> QED
    BY <1>a, <2>1, <2>2, <2>3, MovesKept, HandleFrame
<1>5. ASSUME NEW c \in Clients, Pause(c) PROVE HandleInv'
  <2>1. Moves(c)
    BY <1>5, <1>a, GotoType DEF Pause, Moves, Labels, Return
  <2>2. Passes(c)
    BY <1>5, <1>a, GotoType DEF Pause, Passes, Stopping, Labels, Return
  <2>3. /\ UNCHANGED <<used, blocked, compr, standby>>
        /\ compr # NULL /\ dev[compr] # "closed" => dev'[compr] # "closed"
    BY <1>5 DEF Pause, CompressMove, DevIs, TypeOK
  <2> QED
    BY <1>a, <2>1, <2>2, <2>3, MovesKept, HandleFrame
<1>6. ASSUME NEW c \in Clients, PauseDisable(c) PROVE HandleInv'
  <2>1. Moves(c)
    BY <1>6, <1>a, GotoType DEF PauseDisable, Moves, Labels, Return
  <2>2. Passes(c)
    BY <1>6, <1>a, GotoType DEF PauseDisable, Passes, Stopping, Labels, Return
  <2>3. /\ UNCHANGED <<used, blocked, compr, standby>>
        /\ compr # NULL /\ dev[compr] # "closed" => dev'[compr] # "closed"
    BY <1>6 DEF PauseDisable, TypeOK
  <2> QED
    BY <1>a, <2>1, <2>2, <2>3, MovesKept, HandleFrame
<1>7. ASSUME NEW c \in Clients, Resume(c) PROVE HandleInv'
  <2>1. Moves(c)
    BY <1>7, <1>a, GotoType DEF Resume, Moves, Labels, Return
  <2>2. Passes(c)
    BY <1>7, <1>a, GotoType DEF Resume, Passes, Stopping, Labels, Return
  <2>3. /\ UNCHANGED <<used, blocked, compr, standby>>
        /\ compr # NULL /\ dev[compr] # "closed" => dev'[compr] # "closed"
    BY <1>7 DEF Resume, TypeOK
  <2> QED
    BY <1>a, <2>1, <2>2, <2>3, MovesKept, HandleFrame
<1>8. ASSUME NEW c \in Clients, ResumeEnable(c) PROVE HandleInv'
  <2>1. Moves(c)
    BY <1>8, <1>a, GotoType DEF ResumeEnable, Moves, Labels, Return
  <2>2. Passes(c)
    BY <1>8, <1>a, GotoType DEF ResumeEnable, Passes, Stopping, Labels, Return
  <2>3. /\ UNCHANGED <<used, blocked, compr, standby>>
        /\ compr # NULL /\ dev[compr] # "closed" => dev'[compr] # "closed"
    BY <1>8 DEF ResumeEnable, CompressMove, DevIs, TypeOK
  <2> QED
    BY <1>a, <2>1, <2>2, <2>3, MovesKept, HandleFrame
<1>9. ASSUME NEW c \in Clients, Flush(c) PROVE HandleInv'
  <2>1. Moves(c)
    BY <1>9, <1>a, GotoType DEF Flush, Moves, Labels, Return
  <2>2. Passes(c)
    BY <1>9, <1>a, GotoType DEF Flush, Passes, Stopping, Labels, Return
  <2>3. /\ UNCHANGED <<used, blocked, compr, standby>>
        /\ compr # NULL /\ dev[compr] # "closed" => dev'[compr] # "closed"
    BY <1>9 DEF Flush, StopCompressed, CompressStop, DevIs, TypeOK
  <2> QED
    BY <1>a, <2>1, <2>2, <2>3, MovesKept, HandleFrame
<1>10. ASSUME NEW c \in Clients, AwaitThread(c) PROVE HandleInv'
  <2>1. Moves(c)
    BY <1>10, <1>a, GotoType DEF AwaitThread, Moves, Labels, Return
  <2>2. Passes(c)
    BY <1>10, <1>a, GotoType DEF AwaitThread, Passes, Stopping, Labels, Return
  <2>3. /\ UNCHANGED <<used, blocked, compr, standby>>
        /\ compr # NULL /\ dev[compr] # "closed" => dev'[compr] # "closed"
    BY <1>10 DEF AwaitThread, TypeOK
  <2> QED
    BY <1>a, <2>1, <2>2, <2>3, MovesKept, HandleFrame
<1>11. ASSUME NEW c \in Clients, FlushDone(c) PROVE HandleInv'
  <2>1. Moves(c)
    BY <1>11, <1>a, GotoType DEF FlushDone, Moves, Labels, Return
  <2>2. Passes(c)
    BY <1>11, <1>a, GotoType DEF FlushDone, ThreadIsOut, Passes, Stopping, Labels, Return
  <2>3. /\ UNCHANGED <<used, blocked, compr, standby>>
        /\ compr # NULL /\ dev[compr] # "closed" => dev'[compr] # "closed"
    BY <1>11 DEF FlushDone, ThreadIsOut, TypeOK
  <2> QED
    BY <1>a, <2>1, <2>2, <2>3, MovesKept, HandleFrame
<1>12. ASSUME NEW c \in Clients, Standby(c) PROVE HandleInv'
  <2>1. Moves(c)
    <3>1. \A t \in Threads \ {c} : pc'[t] = pc[t]
      BY <1>12, <1>a, GotoType DEF Standby, Labels, Return
    <3>2. \A d \in Clients \ {c} : op'[d] = op[d]
      BY <1>12 DEF Standby, TypeOK
    <3> QED
      BY <3>1, <3>2 DEF Moves
  <2>2. Passes(c)
    BY <1>12, <1>a, GotoType DEF Standby, Passes, Stopping, Labels, Return
  <2>3. /\ UNCHANGED <<used, blocked, compr, standby>>
        /\ compr # NULL /\ dev[compr] # "closed" => dev'[compr] # "closed"
    BY <1>12 DEF Standby, TypeOK
  <2> QED
    BY <1>a, <2>1, <2>2, <2>3, MovesKept, HandleFrame
<1>13. ASSUME NEW c \in Clients, Route(c) PROVE HandleInv'
  <2>1. Moves(c)
    BY <1>13, <1>a, GotoType DEF Route, Moves, Labels, Return
  <2>2. Passes(c)
    BY <1>13, <1>a, GotoType DEF Route, Passes, Stopping, Labels, Return
  <2>3. /\ UNCHANGED <<used, blocked, compr, standby>>
        /\ compr # NULL /\ dev[compr] # "closed" => dev'[compr] # "closed"
    BY <1>13 DEF Route, TypeOK
  <2> QED
    BY <1>a, <2>1, <2>2, <2>3, MovesKept, HandleFrame
<1>14. ASSUME NEW c \in Clients, WriteEnter(c) PROVE HandleInv'
  <2>1. Moves(c)
    BY <1>14, <1>a, GotoType DEF WriteEnter, Moves, Labels, Return
  <2>2. Passes(c)
    BY <1>14, <1>a, GotoType DEF WriteEnter, Passes, Stopping, Labels, Return
  <2>3. /\ UNCHANGED <<used, blocked, compr, standby>>
        /\ compr # NULL /\ dev[compr] # "closed" => dev'[compr] # "closed"
    BY <1>14 DEF WriteEnter, TypeOK
  <2> QED
    BY <1>a, <2>1, <2>2, <2>3, MovesKept, HandleFrame
<1>15. ASSUME NEW c \in Clients, WriteFlushed(c) PROVE HandleInv'
  <2>1. Moves(c)
    BY <1>15, <1>a, GotoType DEF WriteFlushed, Moves, Labels, Return
  <2>2. Passes(c)
    BY <1>15, <1>a, GotoType DEF WriteFlushed, Passes, Stopping, Labels, Return
  <2>3. /\ UNCHANGED <<used, blocked, compr, standby>>
        /\ compr # NULL /\ dev[compr] # "closed" => dev'[compr] # "closed"
    BY <1>15 DEF WriteFlushed, TypeOK
  <2> QED
    BY <1>a, <2>1, <2>2, <2>3, MovesKept, HandleFrame
<1>16. ASSUME NEW c \in Clients, WriteEnable(c) PROVE HandleInv'
  <2>1. Moves(c)
    BY <1>16, <1>a, GotoType DEF WriteEnable, Moves, Labels, Return
  <2>2. Passes(c)
    BY <1>16, <1>a, GotoType DEF WriteEnable, Passes, Stopping, Labels, Return
  <2>3. /\ UNCHANGED <<used, blocked, compr, standby>>
        /\ compr # NULL /\ dev[compr] # "closed" => dev'[compr] # "closed"
    BY <1>16 DEF WriteEnable, TypeOK
  <2> QED
    BY <1>a, <2>1, <2>2, <2>3, MovesKept, HandleFrame
<1>17. ASSUME NEW c \in Clients, Join(c) PROVE HandleInv'
  <2>1. Moves(c)
    BY <1>17, <1>a, GotoType DEF Join, Moves, Labels, Return
  <2>2. Passes(c)
    BY <1>17, <1>a, GotoType DEF Join, Passes, Stopping, Labels, Return
  <2>3. /\ UNCHANGED <<used, blocked, compr, standby>>
        /\ compr # NULL /\ dev[compr] # "closed" => dev'[compr] # "closed"
    BY <1>17 DEF Join, TypeOK
  <2> QED
    BY <1>a, <2>1, <2>2, <2>3, MovesKept, HandleFrame
<1>18. ASSUME NEW t \in Threads, LockPre(t) PROVE HandleInv'
  <2>1. Moves(t)
    BY <1>18, GotoType DEF LockPre, Moves, Labels
  <2>2. Passes(t)
    BY <1>18, <1>b, GotoType DEF LockPre, Passes, Stopping, LockInv, Labels
  <2> QED
    BY <1>18, <2>1, <2>2, MovesKept, HandleFrame DEF LockPre
<1>19. ASSUME NEW t \in Threads, LockStream(t) PROVE HandleInv'
  <2>1. Moves(t)
    BY <1>19, GotoType DEF LockStream, Moves, Labels
  <2>2. Passes(t)
    BY <1>19, <1>b, GotoType DEF LockStream, Passes, Stopping, LockInv, Labels
  <2> QED
    BY <1>19, <2>1, <2>2, MovesKept, HandleFrame DEF LockStream
<1>20. ASSUME NEW t \in Threads, Relock(t) PROVE HandleInv'
  <2>1. Moves(t)
    BY <1>20, GotoType DEF Relock, Moves, Labels
  <2>2. Passes(t)
    BY <1>20, <1>b, GotoType DEF Relock, Passes, Stopping, LockInv, Labels
  <2> QED
    BY <1>20, <2>1, <2>2, MovesKept, HandleFrame DEF Relock
<1>21. ASSUME NEW t \in Threads, Spurious(t) PROVE HandleInv'
  <2>1. Moves(t)
    BY <1>21, GotoType DEF Spurious, Moves, Labels
  <2>2. Passes(t)
    BY <1>21, <1>b, GotoType DEF Spurious, Passes, Stopping, LockInv, Labels
  <2> QED
    BY <1>21, <2>1, <2>2, MovesKept, HandleFrame DEF Spurious
<1>22. ASSUME Sleep PROVE HandleInv'
  <2>1. Moves(OT) /\ Passes(OT)
    BY <1>22, <1>b, GotoType DEF Sleep, Moves, Passes, Labels
  <2> QED
    BY <1>22, <1>b, <2>1, MovesKept, HandleFrame DEF Sleep
<1>23. ASSUME LeaveDriver PROVE HandleInv'
  <2>1. Moves(OT) /\ Passes(OT)
    BY <1>23, <1>b, GotoType DEF LeaveDriver, Moves, Passes, Labels
  <2> QED
    BY <1>23, <1>b, <2>1, MovesKept, HandleFrame DEF LeaveDriver
<1>40. ASSUME FindRoom PROVE HandleInv'
  <2>1. Moves(OT) /\ Passes(OT)
    BY <1>40, <1>b, GotoType DEF FindRoom, Moves, Passes, Labels
  <2> QED
    BY <1>40, <1>b, <2>1, MovesKept, HandleFrame DEF FindRoom
<1>41. ASSUME NEW c \in Clients, SendMetadata(c) PROVE HandleInv'
  <2>1. Moves(c)
    BY <1>41, <1>a, GotoType DEF SendMetadata, Moves, Labels
  <2>2. ~standby
    BY <1>41 DEF SendMetadata, Ready, HandleInv
  <2>3. Passes(c)
    BY <1>41, <2>2, <1>a, GotoType DEF SendMetadata, Ready, Passes, Stopping, Labels
  <2> QED
    BY <1>41, <1>a, <2>1, <2>3, MovesKept, HandleFrame DEF SendMetadata
<1>42. ASSUME NEW c \in Clients, ParseMetadata(c) \/ ParseFlag(c) PROVE HandleInv'
  <2>1. PICK l \in {"idle", "flag"} : pc' = Goto(c, l)
    BY <1>42 DEF ParseMetadata, ParseFlag
  <2>2. Moves(c)
    BY <1>42, <1>a, <2>1, GotoType DEF ParseMetadata, ParseFlag, Moves, Labels
  <2>3. Passes(c)
    BY <1>42, <1>a, <2>1, GotoType DEF ParseMetadata, ParseFlag, Passes, Stopping, Labels
  <2>4. UNCHANGED <<used, blocked, compr, dev, standby>>
    BY <1>42 DEF ParseMetadata, ParseFlag
  <2> QED
    BY <1>a, <2>2, <2>3, <2>4, MovesKept, HandleFrame
<1>24. ASSUME NEW c \in Clients, Drain(c) PROVE HandleInv'
  <2>1. /\ pc'[c] = "idle"
        /\ \A d \in Clients \ {c} : pc'[d] = pc[d]
        /\ pc'[OT] # pc[OT] => pc[OT] = "asleep" /\ pc'[OT] = "woken"
    <3>1. pc' = SignalOffload(Goto(c, "idle")) /\ "idle" \in Labels
      BY <1>24 DEF Drain, Labels
    <3> QED
      BY <3>1, SignalOffloadGoto
  <2>2. HandleKept
    BY <1>24, <1>a, <1>b, <2>1 DEF Drain, HandleKept, HandleInv, Stopping
  <2> QED
    BY <2>2, HandleFrame
<1>25. ASSUME NEW c \in Clients, SendExit(c) PROVE HandleInv'
  <2>1. /\ pc'[c] = "join"
        /\ \A d \in Clients \ {c} : pc'[d] = pc[d]
        /\ pc'[OT] # pc[OT] => pc[OT] = "asleep" /\ pc'[OT] = "woken"
    <3>1. pc' = SignalOffload(Goto(c, "join")) /\ "join" \in Labels
      BY <1>25 DEF SendExit, Labels
    <3> QED
      BY <3>1, SignalOffloadGoto
  <2>2. HandleKept
    BY <1>25, <1>a, <1>b, <2>1 DEF SendExit, HandleKept, HandleInv, Stopping
  <2> QED
    BY <2>2, HandleFrame
<1>26. ASSUME TakeExit PROVE HandleInv'
  <2>1. /\ pc'[OT] = "done"
        /\ \A c \in Clients : pc'[c] # pc[c] => pc[c] = "wait" /\ pc'[c] = "woken"
    BY <1>26, SignalCondGoto DEF TakeExit, Labels
  <2>2. HandleKept
    BY <1>26, <1>b, <2>1 DEF TakeExit, HandleKept, HandleInv, Stopping
  <2> QED
    BY <2>2, HandleFrame
<1>27. ASSUME DropCommand PROVE HandleInv'
  <2>1. /\ pc'[OT] = pc[OT]
        /\ \A c \in Clients : pc'[c] # pc[c] => pc[c] = "wait" /\ pc'[c] = "woken"
    BY <1>27, SignalCondHere DEF DropCommand
  <2>2. HandleKept
    BY <1>27, <1>b, <2>1 DEF DropCommand, HandleKept, HandleInv, Stopping
  <2> QED
    BY <2>2, HandleFrame
<1>28. ASSUME NEW c \in Clients, NEW o \in Ops, Call(c, o) PROVE HandleInv'
  <2>1. Moves(c) /\ Passes(c)
    BY <1>28, <1>a, GotoType
       DEF Call, FirstLabel, Moves, Passes, Stopping, TypeOK, Labels
  <2> QED
    BY <1>28, <1>a, <2>1, MovesKept, HandleFrame DEF Call
<1>29. ASSUME UNCHANGED vars PROVE HandleInv'
  BY <1>29 DEF vars, HandleInv, Stopping
\* The offload thread raises the flag with the handle in hand.
<1>30. ASSUME TakeCommand PROVE HandleInv'
  BY <1>30, <1>a, <1>b, GotoType
     DEF TakeCommand, HandleInv, Stopping, TypeOK, Threads, Labels
<1>31. ASSUME NextTrack PROVE HandleInv'
  BY <1>31, <1>a, <1>b, GotoType
     DEF NextTrack, HandleInv, Stopping, TypeOK, Threads, Labels
<1>32. ASSUME EnterDriver PROVE HandleInv'
  BY <1>32, <1>a, <1>b, GotoType
     DEF EnterDriver, HandleInv, Stopping, TypeOK, Threads, Labels
<1>33. ASSUME Deliver PROVE HandleInv'
  <2>1. /\ pc'[OT] = pc[OT]
        /\ \A c \in Clients : pc'[c] # pc[c] => pc[c] = "wait" /\ pc'[c] = "woken"
    BY <1>33, SignalCondHere DEF Deliver
  <2>2. \A c \in Clients : Stopping(c)' <=> Stopping(c)
    BY <1>33, <2>1 DEF Deliver, Stopping
  <2> QED
    BY <1>33, <2>1, <2>2 DEF Deliver, HandleInv
<1>34. ASSUME NEW c \in Clients, Put(c) PROVE HandleInv'
  <2>1. /\ pc'[c] = "idle"
        /\ \A d \in Clients \ {c} : pc'[d] = pc[d]
        /\ pc'[OT] # pc[OT] => pc[OT] = "asleep" /\ pc'[OT] = "woken"
    <3>1. CASE pc' = SignalOffload(Goto(c, "idle"))
      BY <3>1, SignalOffloadGoto DEF Labels
    <3>2. CASE pc' = Goto(c, "idle")
      BY <3>2, <1>a, <1>b, GotoType DEF Labels, Threads
    <3> QED
      BY <1>34, <3>1, <3>2 DEF Put
  <2>2. compr # NULL /\ dev[compr] # "closed" => dev'[compr] # "closed"
    BY <1>34 DEF Put, DevIs, TypeOK
  <2>3. HandleKept
    BY <1>34, <1>a, <1>b, <2>1, <2>2 DEF Put, Ready, HandleKept, HandleInv, Stopping
  <2> QED
    BY <2>3, HandleFrame
<1>35. ASSUME NEW c \in Clients, StandbyLocked(c) PROVE HandleInv'
  <2>1. ASSUME BeginStandby(c) PROVE HandleInv'
    <3>1. /\ pc'[c] = "stopped" /\ op' = op /\ standby' = TRUE
          /\ \A t \in Threads \ {c} : pc'[t] = pc[t]
      BY <1>35, <2>1, <1>a, GotoType DEF BeginStandby, StandbyLocked, Labels
    <3>2. UNCHANGED <<used, blocked, compr>>
      BY <1>35 DEF StandbyLocked
    <3>3. compr # NULL /\ dev[compr] # "closed" => dev'[compr] # "closed"
      BY <2>1 DEF BeginStandby, StopCompressed, CompressStop, DevIs, TypeOK
    <3>4. Stopping(c)'
      BY <1>35, <3>1 DEF StandbyLocked, Stopping
    <3>5. \A d \in Clients : pc'[d] \notin {"data", "put", "told"}
      BY <1>35, <1>a, <3>1 DEF StandbyLocked, LockInv, InStream
    <3> QED
      BY <1>a, <1>b, <3>1, <3>2, <3>3, <3>4, <3>5 DEF HandleInv
  <2> QED
    BY <1>35, <2>1 DEF StandbyLocked
<1>36. ASSUME NEW c \in Clients, RouteLocked(c) PROVE HandleInv'
  <2>1. ASSUME BeginStandby(c) PROVE HandleInv'
    <3>1. /\ pc'[c] = "stopped" /\ op' = op /\ standby' = TRUE
          /\ \A t \in Threads \ {c} : pc'[t] = pc[t]
      BY <1>36, <2>1, <1>a, GotoType DEF BeginStandby, RouteLocked, Labels
    <3>2. UNCHANGED <<used, blocked, compr>>
      BY <1>36 DEF RouteLocked
    <3>3. compr # NULL /\ dev[compr] # "closed" => dev'[compr] # "closed"
      BY <2>1 DEF BeginStandby, StopCompressed, CompressStop, DevIs, TypeOK
    <3>4. Stopping(c)'
      BY <1>36, <3>1 DEF RouteLocked, Stopping
    <3>5. \A d \in Clients : pc'[d] \notin {"data", "put", "told"}
      BY <1>36, <1>a, <3>1 DEF RouteLocked, LockInv, InStream
    <3> QED
      BY <1>a, <1>b, <3>1, <3>2, <3>3, <3>4, <3>5 DEF HandleInv
  <2>2. CASE pc' = Goto(c, "parse") /\ UNCHANGED <<standby, dev>>
    <3>1. Moves(c) /\ Passes(c)
      BY <1>36, <2>2, <1>a, GotoType
         DEF RouteLocked, Moves, Passes, Stopping, Labels
    <3> QED
      BY <1>36, <2>2, <1>a, <3>1, MovesKept, HandleFrame DEF RouteLocked
  <2> QED
    BY <1>36, <2>1, <2>2 DEF RouteLocked
\* The standby closes the handle with the flag down and out->lock held.
<1>37. ASSUME NEW c \in Clients, FinishStandby(c) PROVE HandleInv'
  <2>1. compr' = NULL /\ UNCHANGED <<used, blocked, standby>>
    BY <1>37 DEF FinishStandby
  <2>2. standby /\ ~blocked
    BY <1>37 DEF FinishStandby, ThreadIsOut, HandleInv, Stopping
  <2>3. /\ pc'[c] \in {"idle", "parse", "pre"}
        /\ \A t \in Threads \ {c} : pc'[t] = pc[t]
        /\ \A d \in Clients \ {c} : op'[d] = op[d]
    BY <1>37, <1>a, GotoType DEF FinishStandby, Labels, TypeOK
  <2> QED
    BY <1>a, <1>b, <2>1, <2>2, <2>3 DEF HandleInv, Stopping
<1>38. ASSUME NEW c \in Clients, StartOutput(c) PROVE HandleInv'
  <2>1. compr = NULL /\ ~blocked
    BY <1>38, StartAlone DEF StartOutput
  <2>2. \A d \in Clients : ~Stopping(d)
    BY <1>38 DEF StartOutput, LockInv, InDevice, Stopping
  <2>3. /\ pc'[c] = "data" /\ op' = op /\ ~standby' /\ UNCHANGED <<used, blocked>>
        /\ \A t \in Threads \ {c} : pc'[t] = pc[t]
    BY <1>38, <1>a, GotoType DEF StartOutput, Labels
  <2>4. compr' # NULL /\ dev'[compr'] # "closed"
    BY <1>38 DEF StartOutput, DevIs, TypeOK, OffloadAssumption
  <2>5. \A d \in Clients : ~Stopping(d)'
    BY <2>2, <2>3, <1>a DEF Stopping
  <2> QED
    BY <1>a, <1>b, <2>1, <2>3, <2>4, <2>5 DEF HandleInv
<1>39. ASSUME NEW c \in Clients, StartFails(c) PROVE HandleInv'
  <2>1. compr = NULL /\ ~blocked
    BY <1>39, StartAlone DEF StartFails
  <2>2. Moves(c) /\ Passes(c)
    BY <1>39, <1>a, GotoType DEF StartFails, Moves, Passes, Stopping, TypeOK, Labels
  <2> QED
    BY <1>39, <1>a, <2>1, <2>2, MovesKept, HandleFrame DEF StartFails
<1> QED
  BY <1>1, <1>2, <1>3, <1>4, <1>5, <1>6, <1>7, <1>8, <1>9, <1>10, <1>11, <1>12, <1>13,
     <1>14, <1>15, <1>16, <1>17, <1>18, <1>19, <1>20, <1>21, <1>22, <1>23, <1>24, <1>25,
     <1>26, <1>27, <1>28, <1>29, <1>30, <1>31, <1>32, <1>33, <1>34, <1>35, <1>36, <1>37,
     <1>38, <1>39, <1>40, <1>41, <1>42 DEF Next, ClientStep, OffloadStep, Gone

-----------------------------------------------------------------------------
(* The theorems.                                                           *)

LEMMA InitInv == OffloadAssumption /\ Init => Inv
<1> SUFFICES ASSUME OffloadAssumption, Init PROVE LockInv /\ HandleInv
  BY InitType DEF Inv
<1>1. pc[OT] = "pre" /\ \A c \in Clients : pc[c] = "idle"
  BY DEF Init, Threads, OffloadAssumption
<1>2. LockInv
  BY <1>1 DEF LockInv, InStream, InDevice, Stopping, OffloadLabels, Threads
<1>3. HandleInv
  BY <1>1 DEF HandleInv, Stopping, Init
<1> QED
  BY <1>2, <1>3

LEMMA InvStep == OffloadAssumption /\ Inv /\ [Next]_vars => Inv'
BY TypeStep, LockStep, HandleStep DEF Inv

LEMMA Invariance == Spec => []Inv
<1>1. Init => Inv
  BY InitInv, OffloadAssumption
<1>2. Inv /\ [Next]_vars => Inv'
  BY InvStep, OffloadAssumption
<1> QED
  BY <1>1, <1>2, PTL DEF Spec

\* The state is always well typed, whatever the threads do.
THEOREM TypeCorrect == Spec => []TypeOK
<1>1. Inv => TypeOK
  BY DEF Inv
<1> QED
  BY <1>1, Invariance, PTL

\* No standby, route change or failed restart closes the compress handle while
\* the offload thread uses it without holding out->lock, and the handle it uses
\* is the stream's: for any number of clients making any calls.
THEOREM HandleSafe == Spec => []HandleLive
<1>1. Inv => HandleLive
  BY DEF Inv, HandleInv, HandleLive
<1> QED
  BY <1>1, Invariance, PTL

-----------------------------------------------------------------------------
(* Who moves.                                                              *)

\* Everything that client c can do.
Moved(c) ==
    \/ ClientStep(c) \/ LockPre(c) \/ LockStream(c) \/ Relock(c) \/ Spurious(c)
    \/ \E o \in Ops : Call(c, o)

\* Client c alone moved.
Alone(c) == \A d \in Clients \ {c} : pc'[d] = pc[d] /\ op'[d] = op[d]

\* No client moved, but one may have been woken.
Woken == /\ \A c \in Clients : pc'[c] # pc[c] => pc[c] = "wait" /\ pc'[c] = "woken"
         /\ op' = op /\ UNCHANGED <<device, stream, metadata>>

LEMMA WhoMoves ==
  ASSUME OffloadAssumption, TypeOK, [Next]_vars
  PROVE  Woken \/ \E c \in Clients : Moved(c) /\ Alone(c)
<1> USE DEF client, thread, device, stream, metadata
<1>a. \A c \in Clients : c \in Threads /\ c # OT
  BY DEF Threads, OffloadAssumption
<1>b. OT \in Threads /\ OT \notin Clients
  BY DEF Threads, OffloadAssumption
<1>s. ASSUME NEW c \in Clients, NEW l \in Labels, pc' = Goto(c, l), op' = op PROVE Alone(c)
  BY <1>s, <1>a, GotoType DEF Alone
<1>1. ASSUME NEW c \in Clients, LockInputs(c) PROVE Alone(c)
  BY <1>1, <1>s DEF LockInputs, Return, Labels
<1>2. ASSUME NEW c \in Clients, LockDevice(c) PROVE Alone(c)
  BY <1>2, <1>s DEF LockDevice, Return, Labels
<1>3. ASSUME NEW c \in Clients, Query(c) PROVE Alone(c)
  BY <1>3, <1>s DEF Query, Return, Labels
<1>4. ASSUME NEW c \in Clients, SetMode(c) PROVE Alone(c)
  BY <1>4, <1>s DEF SetMode, Return, Labels
<1>5. ASSUME NEW c \in Clients, Pause(c) PROVE Alone(c)
  BY <1>5, <1>s DEF Pause, Return, Labels
<1>6. ASSUME NEW c \in Clients, PauseDisable(c) PROVE Alone(c)
  BY <1>6, <1>s DEF PauseDisable, Return, Labels
<1>7. ASSUME NEW c \in Clients, Resume(c) PROVE Alone(c)
  BY <1>7, <1>s DEF Resume, Return, Labels
<1>8. ASSUME NEW c \in Clients, ResumeEnable(c) PROVE Alone(c)
  BY <1>8, <1>s DEF ResumeEnable, Return, Labels
<1>9. ASSUME NEW c \in Clients, Flush(c) PROVE Alone(c)
  BY <1>9, <1>s DEF Flush, Return, Labels
<1>10. ASSUME NEW c \in Clients, AwaitThread(c) PROVE Alone(c)
  BY <1>10, <1>s DEF AwaitThread, Return, Labels
<1>11. ASSUME NEW c \in Clients, FlushDone(c) PROVE Alone(c)
  BY <1>11, <1>s DEF FlushDone, ThreadIsOut, Return, Labels
<1>12. ASSUME NEW c \in Clients, StandbyLocked(c) PROVE Alone(c)
  BY <1>12, <1>s DEF StandbyLocked, BeginStandby, Return, Labels
<1>13. ASSUME NEW c \in Clients, Route(c) PROVE Alone(c)
  BY <1>13, <1>s DEF Route, Return, Labels
<1>14. ASSUME NEW c \in Clients, RouteLocked(c) PROVE Alone(c)
  BY <1>14, <1>s DEF RouteLocked, BeginStandby, Return, Labels
<1>15. ASSUME NEW c \in Clients, WriteEnter(c) PROVE Alone(c)
  BY <1>15, <1>s DEF WriteEnter, Return, Labels
<1>16. ASSUME NEW c \in Clients, StartOutput(c) PROVE Alone(c)
  BY <1>16, <1>s DEF StartOutput, Return, Labels
<1>17. ASSUME NEW c \in Clients, WriteFlushed(c) PROVE Alone(c)
  BY <1>17, <1>s DEF WriteFlushed, Return, Labels
<1>18. ASSUME NEW c \in Clients, WriteEnable(c) PROVE Alone(c)
  BY <1>18, <1>s DEF WriteEnable, Return, Labels
<1>19. ASSUME NEW c \in Clients, Join(c) PROVE Alone(c)
  BY <1>19, <1>s DEF Join, Return, Labels
<1>20. ASSUME NEW c \in Clients, Drain(c) \/ SendExit(c) PROVE Alone(c)
  BY <1>20, SignalOffloadGoto DEF Drain, SendExit, Alone, Labels
<1>21. ASSUME NEW c \in Clients, Put(c) PROVE Alone(c)
  <2>1. CASE pc' = SignalOffload(Goto(c, "idle"))
    BY <1>21, <2>1, SignalOffloadGoto DEF Put, Alone, Labels
  <2>2. CASE pc' = Goto(c, "idle")
    BY <1>21, <2>2, <1>s DEF Put, Labels
  <2> QED
    BY <1>21, <2>1, <2>2 DEF Put
<1>31. ASSUME NEW c \in Clients, SendMetadata(c) \/ ParseMetadata(c) \/ ParseFlag(c)
       PROVE  Alone(c)
  BY <1>31, <1>s DEF SendMetadata, ParseMetadata, ParseFlag, Labels
<1>22. ASSUME NEW c \in Clients, NEW l \in Labels, pc' = Goto(c, l),
              NEW o, op' = [op EXCEPT ![c] = o]
       PROVE  Alone(c)
  BY <1>22, <1>a, GotoType DEF Alone, TypeOK
<1>23. ASSUME NEW c \in Clients, Standby(c) PROVE Alone(c)
  BY <1>23, <1>s, <1>22 DEF Standby, Return, Labels
<1>24. ASSUME NEW c \in Clients, FinishStandby(c) PROVE Alone(c)
  BY <1>24, <1>s, <1>22 DEF FinishStandby, Labels
<1>25. ASSUME NEW c \in Clients, StartFails(c) PROVE Alone(c)
  BY <1>25, <1>22 DEF StartFails, Labels
<1>26. ASSUME NEW c \in Clients, NEW o \in Ops, Call(c, o) PROVE Alone(c)
  BY <1>26, <1>22 DEF Call, FirstLabel, Labels
<1>27. ASSUME NEW t \in Threads, LockPre(t) \/ LockStream(t) \/ Relock(t) \/ Spurious(t)
       PROVE  /\ t \in Clients => Alone(t)
              /\ t = OT => Woken
  <2>1. PICK l \in Labels : pc' = Goto(t, l)
    BY <1>27 DEF LockPre, LockStream, Relock, Spurious, Labels
  <2>2. op' = op /\ UNCHANGED <<device, stream, metadata>>
    BY <1>27 DEF LockPre, LockStream, Relock, Spurious
  <2>3. t \in Clients => Alone(t)
    BY <1>s, <2>1, <2>2
  <2>4. ASSUME t = OT PROVE \A c \in Clients : pc'[c] = pc[c]
    BY <1>a, <1>b, <2>1, <2>4, GotoType
  <2> QED
    BY <2>2, <2>3, <2>4 DEF Woken
<1>28. ASSUME OffloadStep \/ FindRoom PROVE Woken
  <2>1. CASE TakeExit
    BY <2>1, SignalCondGoto DEF TakeExit, Woken, Labels
  <2>2. CASE DropCommand \/ Deliver
    BY <2>2, SignalCondHere DEF DropCommand, Deliver, Woken
  <2>3. CASE Sleep \/ TakeCommand \/ NextTrack \/ EnterDriver \/ LeaveDriver
             \/ FindRoom
    <3>1. PICK l \in Labels : pc' = Goto(OT, l)
      BY <2>3 DEF Sleep, TakeCommand, NextTrack, EnterDriver, LeaveDriver, FindRoom,
             Labels
    <3>2. op' = op /\ UNCHANGED <<device, stream, metadata>>
      BY <2>3 DEF Sleep, TakeCommand, NextTrack, EnterDriver, LeaveDriver, FindRoom
    <3> QED
      BY <1>a, <1>b, <3>1, <3>2, GotoType DEF Woken
  <2> QED
    BY <1>28, <2>1, <2>2, <2>3 DEF OffloadStep
<1>29. ASSUME NEW c \in Clients, ClientStep(c) PROVE Alone(c)
  BY <1>29, <1>1, <1>2, <1>3, <1>4, <1>5, <1>6, <1>7, <1>8, <1>9, <1>10, <1>11, <1>12,
     <1>13, <1>14, <1>15, <1>16, <1>17, <1>18, <1>19, <1>20, <1>21, <1>23, <1>24, <1>25,
     <1>31 DEF ClientStep
<1>30. ASSUME Gone \/ UNCHANGED vars PROVE Woken
  BY <1>30 DEF Gone, vars, Woken
<1> QED
  BY <1>26, <1>27, <1>28, <1>29, <1>30 DEF Next, Moved, Threads

\* The steps that change what the stream or the device is, all of clients.
Acts(c) ==
    \/ Pause(c) \/ PauseDisable(c) \/ ResumeEnable(c) \/ Flush(c) \/ FlushDone(c)
    \/ StandbyLocked(c) \/ FinishStandby(c) \/ RouteLocked(c)
    \/ StartOutput(c) \/ StartFails(c) \/ WriteEnable(c) \/ SendMetadata(c) \/ Put(c)

\* The steps that change the metadata without a mutex.
Parses(c) == ParseMetadata(c) \/ ParseFlag(c)

\* The other steps of a client.
Minor(c) ==
    \/ LockInputs(c) \/ LockDevice(c) \/ Query(c) \/ SetMode(c) \/ Drain(c)
    \/ Resume(c) \/ AwaitThread(c) \/ Standby(c) \/ Route(c) \/ WriteEnter(c)
    \/ WriteFlushed(c) \/ SendExit(c) \/ Join(c)
    \/ LockPre(c) \/ LockStream(c) \/ Relock(c) \/ Spurious(c)
    \/ \E o \in Ops : Call(c, o)

LEMMA MovedKinds ==
  ASSUME NEW c \in Clients, Moved(c)
  PROVE  Acts(c) \/ Parses(c) \/ Minor(c)
BY DEF Moved, ClientStep, Acts, Parses, Minor

LEMMA MinorChangesNothing ==
  ASSUME NEW c \in Clients, Minor(c)
  PROVE  UNCHANGED <<device, stream, metadata>>
BY DEF Minor, LockInputs, LockDevice, Query, SetMode, Drain, Resume, AwaitThread, Standby,
       Route, WriteEnter, WriteFlushed, SendExit, Join, Call, LockPre, LockStream, Relock,
       Spurious

LEMMA MovedActs ==
  ASSUME NEW c \in Clients, Moved(c), ~Acts(c)
  PROVE  UNCHANGED <<device, stream>>
<1>1. ASSUME Parses(c) PROVE UNCHANGED <<device, stream>>
  BY <1>1 DEF Parses, ParseMetadata, ParseFlag
<1> QED
  BY <1>1, MovedKinds, MinorChangesNothing

LEMMA ActsOnly ==
  ASSUME OffloadAssumption, TypeOK, [Next]_vars
  PROVE  UNCHANGED <<device, stream>> \/ \E c \in Clients : Acts(c)
BY WhoMoves, MovedActs DEF Woken

-----------------------------------------------------------------------------
(* What the stream owns in standby.                                        *)

\* Only the stream's own handle is open, and the visualizer knows of the stream
\* while it is out of standby and no longer once the standby closed the handle.
OwnInv ==
    /\ \A h \in Handles : h # compr => dev[h] = "closed"
    /\ FxLib => /\ ~standby => fx
                /\ standby /\ compr = NULL => ~fx

\* A stop and a move leave the other handles alone.
LEMMA StopKeeps ==
  ASSUME TypeOK, OwnInv, CompressStop
  PROVE  \A h \in Handles : h # compr => dev'[h] = "closed"
BY DEF TypeOK, OwnInv, CompressStop, DevIs

LEMMA MoveKeeps ==
  ASSUME TypeOK, OwnInv, NEW from, NEW to, CompressMove(from, to)
  PROVE  \A h \in Handles : h # compr => dev'[h] = "closed"
BY DEF TypeOK, OwnInv, CompressMove, DevIs

LEMMA OwnStep ==
  ASSUME OffloadAssumption, Inv, OwnInv, [Next]_vars
  PROVE  OwnInv'
<1> USE DEF Inv
<1>s. ASSUME UNCHANGED <<compr, dev, standby, fx>> PROVE OwnInv'
  BY <1>s DEF OwnInv
<1>0. ASSUME UNCHANGED <<device, stream>> PROVE OwnInv'
  BY <1>0, <1>s DEF device, stream
<1>1. ASSUME NEW c \in Clients, Pause(c) PROVE OwnInv'
  <2>1. CASE CompressMove("running", "paused")
    BY <1>1, <2>1, MoveKeeps DEF Pause, OwnInv
  <2>2. CASE UNCHANGED dev
    BY <1>1, <2>2, <1>s DEF Pause
  <2> QED
    BY <1>1, <2>1, <2>2 DEF Pause
<1>2. ASSUME NEW c \in Clients,
             PauseDisable(c) \/ FlushDone(c) \/ WriteEnable(c) \/ SendMetadata(c)
      PROVE  OwnInv'
  BY <1>2, <1>s DEF PauseDisable, FlushDone, WriteEnable, SendMetadata, device, stream
<1>3. ASSUME NEW c \in Clients, ResumeEnable(c) PROVE OwnInv'
  BY <1>3, MoveKeeps DEF ResumeEnable, OwnInv
<1>4. ASSUME NEW c \in Clients, Flush(c) PROVE OwnInv'
  <2>1. CASE StopCompressed
    BY <1>4, <2>1, StopKeeps DEF Flush, StopCompressed, OwnInv
  <2>2. CASE UNCHANGED dev
    BY <1>4, <2>2, <1>s DEF Flush
  <2> QED
    BY <1>4, <2>1, <2>2 DEF Flush
\* Going to standby: the handle is still there, or there never was one.
<1>5. ASSUME NEW c \in Clients, BeginStandby(c), UNCHANGED <<compr, fx>> PROVE OwnInv'
  <2>1. standby'
    BY <1>5 DEF BeginStandby
  <2>2. FxLib /\ compr = NULL => ~fx
    BY DEF OwnInv, HandleInv
  <2>3. \A h \in Handles : h # compr => dev'[h] = "closed"
    BY <1>5, StopKeeps DEF BeginStandby, StopCompressed
  <2> QED
    BY <1>5, <2>1, <2>2, <2>3 DEF OwnInv
<1>6. ASSUME NEW c \in Clients, StandbyLocked(c) PROVE OwnInv'
  BY <1>5, <1>6 DEF StandbyLocked
<1>7. ASSUME NEW c \in Clients, RouteLocked(c) PROVE OwnInv'
  <2>1. CASE BeginStandby(c)
    BY <1>5, <1>7, <2>1 DEF RouteLocked
  <2>2. CASE UNCHANGED <<standby, dev>>
    BY <1>7, <2>2, <1>s DEF RouteLocked
  <2> QED
    BY <1>7, <2>1, <2>2 DEF RouteLocked
<1>8. ASSUME NEW c \in Clients, FinishStandby(c) PROVE OwnInv'
  <2>1. standby' /\ compr' = NULL
    BY <1>8 DEF FinishStandby, HandleInv, Stopping, ThreadIsOut
  <2>2. FxLib => ~fx'
    BY <1>8 DEF FinishStandby, StopOutput
  <2>3. \A h \in Handles : dev'[h] = "closed"
    BY <1>8 DEF FinishStandby, DevIs, OwnInv, TypeOK
  <2> QED
    BY <2>1, <2>2, <2>3 DEF OwnInv
<1>9. ASSUME NEW c \in Clients, StartOutput(c) PROVE OwnInv'
  <2>1. compr = NULL
    BY <1>9, StartAlone DEF StartOutput
  <2>2. \A h \in Handles : dev[h] = "closed"
    BY <2>1 DEF OwnInv, OffloadAssumption
  <2>3. ~standby' /\ (FxLib => fx')
    BY <1>9, <2>1 DEF StartOutput
  <2>4. \A h \in Handles : h # compr' => dev'[h] = "closed"
    BY <1>9, <2>2 DEF StartOutput, DevIs, TypeOK
  <2> QED
    BY <2>3, <2>4 DEF OwnInv
<1>10. ASSUME NEW c \in Clients, StartFails(c) PROVE OwnInv'
  <2>1. compr = NULL /\ compr' = NULL
    BY <1>10, StartAlone DEF StartFails
  <2>2. FxLib => ~fx'
    BY <1>10 DEF StartFails, StopOutput
  <2> QED
    BY <1>10, <2>1, <2>2 DEF StartFails, OwnInv
<1>11. ASSUME NEW c \in Clients, Put(c) PROVE OwnInv'
  <2>1. \A h \in Handles : h # compr => dev'[h] = dev[h]
    BY <1>11 DEF Put, DevIs, TypeOK
  <2> QED
    BY <1>11, <2>1 DEF Put, OwnInv
<1> QED
  BY <1>0, <1>1, <1>2, <1>3, <1>4, <1>6, <1>7, <1>8, <1>9, <1>10, <1>11, ActsOnly
     DEF Acts

LEMMA OwnInit == OffloadAssumption /\ Init => OwnInv
BY DEF Init, OwnInv

LEMMA Ownership == Spec => []OwnInv
<1>1. Init => OwnInv
  BY OwnInit, OffloadAssumption
<1>2. Inv /\ OwnInv /\ [Next]_vars => OwnInv'
  BY OwnStep, OffloadAssumption
<1> QED
  BY <1>1, <1>2, Invariance, PTL DEF Spec

\* Between calls a stream in standby has no handle, no other handle is ever left
\* open, and the visualizer knows of the stream exactly while it is out of
\* standby: do_out_standby_l and start_output_stream, failed starts and route
\* changes included, for any clients making any calls.
THEOREM StandbyClean == Spec => []StandbyOwnsNothing
<1>1. Inv /\ OwnInv => StandbyOwnsNothing
  <2> SUFFICES ASSUME Inv, OwnInv, Quiet
               PROVE  /\ standby <=> compr = NULL
                      /\ \A h \in Handles : dev[h] # "closed" <=> h = compr
                      /\ FxLib => (fx <=> ~standby)
    BY DEF StandbyOwnsNothing
  <2>1. \A c \in Clients : ~Stopping(c)
    BY OffloadAssumption
       DEF Quiet, Stopping, Inv, LockInv, InStream, OffloadAssumption, Threads
  <2>2. standby <=> compr = NULL
    BY <2>1 DEF Inv, HandleInv
  <2>3. NULL \notin Handles /\ fx \in BOOLEAN /\ standby \in BOOLEAN
    BY OffloadAssumption DEF OffloadAssumption, Inv, TypeOK
  <2>4. compr # NULL => dev[compr] # "closed"
    BY DEF Inv, HandleInv
  <2> QED
    BY <2>2, <2>3, <2>4 DEF OwnInv
<1> QED
  BY <1>1, Invariance, Ownership, PTL

-----------------------------------------------------------------------------
(* What the device knows of the metadata.                                  *)

\* No call is between its new metadata and the flag that announces them.
Announced == \A c \in Clients : pc[c] # "flag"

\* The metadata are due whenever the device does not know them; between its
\* compress_set_gapless_metadata and the reset of the flag, out_write relies on
\* nobody having set new ones.
MetaInv ==
    /\ standby => send_new_metadata
    /\ ~send_new_metadata => told[compr] # NULL
    /\ \A h \in Handles : dev[h] \in {"prepared", "running", "paused"} => told[h] # NULL
    /\ ~send_new_metadata /\ ~raced /\ Announced => told[compr] = gapless_mdata
    /\ \A c \in Clients : pc[c] = "told" =>
          told[compr] # NULL /\ (~raced /\ Announced => told[compr] = gapless_mdata)

\* Nobody comes to the reset of the flag, and calls at ParseFlag stay there.
Calm == /\ \A c \in Clients : pc'[c] = "told" => pc[c] = "told"
        /\ Announced' => Announced

\* The step is made by a thread under out->lock that goes elsewhere.
Away == Calm /\ \A c \in Clients : pc'[c] # "told"

LEMMA MinorCalm ==
  ASSUME OffloadAssumption, TypeOK, NEW c \in Clients, Minor(c), Alone(c)
  PROVE  Calm
<1>a. c \in Threads
  BY DEF Threads
<1>1. pc[c] # "flag" /\ pc'[c] # "told"
  <2>1. CASE Drain(c) \/ SendExit(c)
    BY <2>1, SignalOffloadGoto DEF Drain, SendExit, Labels
  <2>2. CASE ~(Drain(c) \/ SendExit(c))
    <3>1. pc[c] # "flag"
      BY <2>2 DEF Minor, LockInputs, LockDevice, Query, SetMode, Resume, AwaitThread,
           Standby, Route, WriteEnter, WriteFlushed, Join, Call, LockPre, LockStream,
           Relock, Spurious
    <3>2. PICK l \in Labels \ {"told"} : pc' = Goto(c, l)
      BY <2>2 DEF Minor, LockInputs, LockDevice, Query, SetMode, Resume, AwaitThread,
           Standby, Route, WriteEnter, WriteFlushed, Join, Call, FirstLabel, Return,
           LockPre, LockStream, Relock, Spurious, Labels
    <3> QED
      BY <1>a, <3>1, <3>2, GotoType
  <2> QED
    BY <2>1, <2>2
<1> QED
  BY <1>1 DEF Calm, Announced, Alone

\* The client that acts owns out->lock: no other is at the reset of the flag.
LEMMA ActsAway ==
  ASSUME OffloadAssumption, Inv, NEW c \in Clients, Acts(c), ~SendMetadata(c), Alone(c)
  PROVE  Away
<1>a. c \in Threads /\ \A d \in Clients : d \in Threads
  BY DEF Threads
<1>1. pc[c] # "flag" /\ InStream(c)
  BY DEF Acts, Pause, PauseDisable, ResumeEnable, Flush, FlushDone, ThreadIsOut,
         StandbyLocked, FinishStandby, RouteLocked, StartOutput, StartFails, WriteEnable,
         Put, Ready, InStream
<1>2. pc'[c] # "told"
  <2>1. CASE Put(c)
    <3>1. CASE pc' = SignalOffload(Goto(c, "idle"))
      BY <3>1, SignalOffloadGoto DEF Inv, Labels
    <3>2. CASE pc' = Goto(c, "idle")
      BY <1>a, <3>2, GotoType DEF Inv, Labels
    <3> QED
      BY <2>1, <3>1, <3>2 DEF Put
  <2>2. CASE ~Put(c)
    <3>1. PICK l \in Labels \ {"told"} : pc' = Goto(c, l)
      BY <2>2 DEF Acts, Pause, PauseDisable, ResumeEnable, Flush, FlushDone, ThreadIsOut,
           StandbyLocked, FinishStandby, RouteLocked, BeginStandby, StartOutput,
           StartFails, WriteEnable, Return, Labels
    <3> QED
      BY <1>a, <3>1, GotoType DEF Inv
  <2> QED
    BY <2>1, <2>2
<1>3. \A d \in Clients \ {c} : pc[d] # "told"
  BY <1>a, <1>1 DEF Inv, LockInv, InStream
<1> QED
  BY <1>1, <1>2, <1>3 DEF Away, Calm, Announced, Alone

LEMMA MetaKept ==
  ASSUME MetaInv, Calm, UNCHANGED <<compr, dev, told, standby, metadata>>
  PROVE  MetaInv'
BY DEF MetaInv, Calm, metadata

\* A device that was emptied is told again before it gets data.
LEMMA MetaStop ==
  ASSUME TypeOK, MetaInv, Away, StopCompressed, compr' = compr
  PROVE  MetaInv'
<1>1. send_new_metadata' /\ \A c \in Clients : pc'[c] # "told"
  BY DEF StopCompressed, Away
<1>2. \A h \in Handles : dev'[h] \in {"prepared", "running", "paused"} => told'[h] # NULL
  BY DEF StopCompressed, CompressStop, DevIs, TypeOK, MetaInv
<1> QED
  BY <1>1, <1>2 DEF MetaInv

LEMMA MetaMove ==
  ASSUME TypeOK, MetaInv, Away, NEW from \in {"running", "paused"},
         NEW to \in {"running", "paused"}, CompressMove(from, to),
         UNCHANGED <<compr, told, standby, metadata>>
  PROVE  MetaInv'
<1>1. \A h \in Handles : dev'[h] \in {"prepared", "running", "paused"} => told'[h] # NULL
  BY DEF CompressMove, DevIs, TypeOK, MetaInv
<1> QED
  BY <1>1 DEF MetaInv, Away, Calm, metadata

LEMMA MetaStep ==
  ASSUME OffloadAssumption, Inv, OwnInv, MetaInv, [Next]_vars
  PROVE  MetaInv'
<1> USE DEF Inv
<1>1. ASSUME Woken PROVE MetaInv'
  <2>1. Calm /\ UNCHANGED <<compr, dev, told, standby, metadata>>
    BY <1>1 DEF Woken, Calm, Announced, device, stream
  <2> QED
    BY <2>1, MetaKept
<1>2. ASSUME NEW c \in Clients, Minor(c), Alone(c) PROVE MetaInv'
  <2>1. Calm /\ UNCHANGED <<compr, dev, told, standby, metadata>>
    BY <1>2, MinorCalm, MinorChangesNothing DEF device, stream
  <2> QED
    BY <2>1, MetaKept
\* New metadata are not announced yet; announcing them either makes them due or
\* is noted as a race.
<1>3. ASSUME NEW c \in Clients, ParseMetadata(c), Alone(c) PROVE MetaInv'
  <2>1. UNCHANGED <<compr, dev, told, standby, send_new_metadata, raced>>
    BY <1>3 DEF ParseMetadata, device, stream
  <2>2. PICK l \in {"idle", "flag"} : /\ pc' = Goto(c, l)
                                      /\ l = "idle" => UNCHANGED gapless_mdata
    BY <1>3 DEF ParseMetadata
  <2>3. pc'[c] = l /\ pc[c] = "parse"
    BY <1>3, <2>2, GotoType DEF ParseMetadata, Labels, Threads
  <2>4. Calm
    BY <1>3, <2>3 DEF Calm, Announced, Alone
  <2>5. CASE l = "idle"
    BY <2>1, <2>2, <2>4, <2>5, MetaKept DEF metadata
  <2>6. CASE l = "flag"
    <3>1. ~Announced'
      BY <2>3, <2>6 DEF Announced
    <3> QED
      BY <2>1, <2>4, <3>1 DEF MetaInv, Calm
  <2> QED
    BY <2>5, <2>6
<1>4. ASSUME NEW c \in Clients, ParseFlag(c), Alone(c) PROVE MetaInv'
  <2>1. UNCHANGED <<compr, dev, told, standby, gapless_mdata>> /\ send_new_metadata'
    BY <1>4 DEF ParseFlag, device, stream
  <2>2. pc'[c] = "idle"
    BY <1>4, GotoType DEF ParseFlag, Labels, Threads
  <2>3. \A d \in Clients : pc'[d] = "told" => pc[d] = "told"
    BY <1>4, <2>2 DEF Alone
  <2>4. (\E d \in Clients : pc[d] = "told") => raced'
    BY <1>4 DEF ParseFlag
  <2> QED
    BY <2>1, <2>3, <2>4 DEF MetaInv
<1>5. ASSUME NEW c \in Clients, SendMetadata(c), Alone(c) PROVE MetaInv'
  <2>1. /\ UNCHANGED <<compr, dev, standby, send_new_metadata, gapless_mdata>>
        /\ send_new_metadata
        /\ told' = [told EXCEPT ![compr] = gapless_mdata]
    BY <1>5 DEF SendMetadata, stream
  <2>2. compr \in Handles /\ gapless_mdata # NULL
    BY <1>5 DEF SendMetadata, Ready, HandleInv, TypeOK, OffloadAssumption
  <2>3. told'[compr'] = gapless_mdata'
    BY <2>1, <2>2 DEF TypeOK
  <2>4. \A h \in Handles : told[h] # NULL => told'[h] # NULL
    BY <2>1, <2>2 DEF TypeOK
  <2> QED
    BY <2>1, <2>2, <2>3, <2>4 DEF MetaInv
<1>6. ASSUME NEW c \in Clients, Put(c), Away PROVE MetaInv'
  <2>1. ~standby /\ compr \in Handles
    BY <1>6 DEF Put, Ready, HandleInv, TypeOK
  <2>2. /\ told[compr] # NULL
        /\ ~raced /\ Announced => told[compr] = gapless_mdata
    BY <1>6 DEF Put, MetaInv
  <2>3. UNCHANGED <<compr, told, standby, gapless_mdata, raced>>
    BY <1>6 DEF Put
  <2>4. \A h \in Handles : h # compr => dev'[h] = dev[h]
    BY <1>6 DEF Put, DevIs, TypeOK
  <2> QED
    BY <1>6, <2>1, <2>2, <2>3, <2>4 DEF MetaInv, Away, Calm
<1>7. ASSUME NEW c \in Clients, BeginStandby(c), compr' = compr, Away PROVE MetaInv'
  BY <1>7, MetaStop DEF BeginStandby
<1>8. ASSUME Away, UNCHANGED <<compr, dev, told, standby, metadata>> PROVE MetaInv'
  BY <1>8, MetaKept DEF Away
<1>9. ASSUME NEW c \in Clients, Pause(c) \/ ResumeEnable(c), Away PROVE MetaInv'
  <2>1. UNCHANGED <<compr, told, standby, metadata>>
    BY <1>9 DEF Pause, ResumeEnable
  <2>2. CASE CompressMove("running", "paused") \/ CompressMove("paused", "running")
    BY <1>9, <2>1, <2>2, MetaMove
  <2>3. CASE UNCHANGED dev
    BY <1>8, <1>9, <2>1, <2>3
  <2> QED
    BY <1>9, <2>2, <2>3 DEF Pause, ResumeEnable
<1>10. ASSUME NEW c \in Clients, PauseDisable(c) \/ FlushDone(c) \/ WriteEnable(c), Away
       PROVE  MetaInv'
  BY <1>8, <1>10 DEF PauseDisable, FlushDone, WriteEnable, device
<1>11. ASSUME NEW c \in Clients, Flush(c), Away PROVE MetaInv'
  <2>1. CASE StopCompressed
    BY <1>11, <2>1, MetaStop DEF Flush
  <2>2. CASE UNCHANGED <<dev, told, metadata>>
    BY <1>8, <1>11, <2>2 DEF Flush
  <2> QED
    BY <1>11, <2>1, <2>2 DEF Flush
<1>12. ASSUME NEW c \in Clients, StandbyLocked(c), Away PROVE MetaInv'
  BY <1>7, <1>12 DEF StandbyLocked
<1>13. ASSUME NEW c \in Clients, RouteLocked(c), Away PROVE MetaInv'
  <2>1. CASE BeginStandby(c)
    BY <1>7, <1>13, <2>1 DEF RouteLocked
  <2>2. CASE UNCHANGED <<standby, metadata, dev, told>>
    BY <1>8, <1>13, <2>2 DEF RouteLocked
  <2> QED
    BY <1>13, <2>1, <2>2 DEF RouteLocked
<1>14. ASSUME NEW c \in Clients, FinishStandby(c), Away PROVE MetaInv'
  <2>1. standby /\ standby' /\ send_new_metadata' /\ compr' = NULL
    BY <1>14 DEF FinishStandby, HandleInv, Stopping, ThreadIsOut, MetaInv
  <2>2. \A h \in Handles : dev'[h] = "closed"
    BY <1>14 DEF FinishStandby, DevIs, OwnInv, TypeOK
  <2> QED
    BY <1>14, <2>1, <2>2 DEF MetaInv, Away
<1>15. ASSUME NEW c \in Clients, StartOutput(c), Away PROVE MetaInv'
  <2>1. send_new_metadata /\ send_new_metadata' /\ ~standby' /\ compr = NULL
    BY <1>15, StartAlone DEF StartOutput, MetaInv, metadata
  <2>2. \A h \in Handles : dev[h] = "closed"
    BY <2>1 DEF OwnInv, OffloadAssumption
  <2>3. \A h \in Handles : dev'[h] \in {"closed", "setup"}
    BY <1>15, <2>2 DEF StartOutput, DevIs, TypeOK
  <2> QED
    BY <1>15, <2>1, <2>3 DEF MetaInv, Away
<1>16. ASSUME NEW c \in Clients, StartFails(c), Away PROVE MetaInv'
  <2>1. compr = NULL /\ compr' = NULL
    BY <1>16, StartAlone DEF StartFails
  <2> QED
    BY <1>8, <1>16, <2>1 DEF StartFails
<1>17. ASSUME NEW c \in Clients, Acts(c), Alone(c) PROVE MetaInv'
  <2>1. CASE SendMetadata(c)
    BY <1>5, <1>17, <2>1
  <2>2. CASE ~SendMetadata(c)
    <3>1. Away
      BY <1>17, <2>2, ActsAway
    <3> QED
      BY <1>17, <2>2, <3>1, <1>6, <1>9, <1>10, <1>11, <1>12, <1>13, <1>14, <1>15, <1>16
         DEF Acts
  <2> QED
    BY <2>1, <2>2
<1> QED
  BY <1>1, <1>2, <1>3, <1>4, <1>17, WhoMoves, MovedKinds DEF Parses

LEMMA MetaInit == OffloadAssumption /\ Init => MetaInv
<1> SUFFICES ASSUME OffloadAssumption, Init PROVE MetaInv
  OBVIOUS
<1>1. \A c \in Clients : pc[c] = "idle"
  BY DEF Init, Threads, OffloadAssumption
<1> QED
  BY <1>1 DEF Init, MetaInv

LEMMA Metadata == Spec => []MetaInv
<1>1. Init => MetaInv
  BY MetaInit, OffloadAssumption
<1>2. Inv /\ OwnInv /\ MetaInv /\ [Next]_vars => MetaInv'
  BY MetaStep, OffloadAssumption
<1> QED
  BY <1>1, <1>2, Invariance, Ownership, PTL DEF Spec

\* No device has data whose gapless metadata it was not given, and while none are
\* due the open device knows the last ones, whatever standbys (which zero them),
\* flushes, route changes and out_set_parameters without a mutex come between;
\* except after a flag that out_write reset unseen (3064-3065): for any clients.
THEOREM MetadataKnown == Spec => []MetadataFirst
<1>1. Inv /\ MetaInv => MetadataFirst
  BY DEF MetaInv, MetadataFirst, Announced
<1> QED
  BY <1>1, Invariance, Metadata, PTL

-----------------------------------------------------------------------------
(* Closing.                                                                *)

Exits == \E i \in 1 .. Len(cmds) : cmds[i] = "EXIT"

\* A close is alone from its beginning to its end, the thread is told to exit
\* only by a call that then joins it, and a thread that left the stream, for
\* good or between calls, holds none of its mutexes.
CloseInv ==
    /\ \A c \in Clients : pc[c] # "idle" /\ op[c] \in {"close", "exit"} =>
          \A d \in Clients \ {c} : pc[d] = "idle"
    /\ \A c \in Clients : pc[c] = "join" => op[c] = "exit"
    /\ \A c \in Clients : pc[c] # "idle" /\ op[c] = "exit" =>
          pc[c] \in {"pre", "lock", "run", "join"} /\ standby /\ compr = NULL
    /\ Exits => \E c \in Clients : pc[c] = "join"
    /\ pc[OT] = "done" =>
          cmds = <<>> /\ (closed \/ \E c \in Clients : pc[c] = "join")
    /\ closed => /\ pc[OT] = "done" /\ standby /\ compr = NULL
                 /\ \A c \in Clients : pc[c] = "idle"
    /\ \A t \in Threads, l \in LockNames :
          pc[t] \in {"idle", "parse", "flag", "join", "done"} => locks[l] # t

\* A step of client c inside a call, or its last one.
Works(c) ==
    /\ pc[c] \notin {"idle", "join"}
    /\ \A d \in Clients \ {c} : pc'[d] = pc[d] /\ op'[d] = op[d]
    /\ pc'[OT] = pc[OT] \/ pc'[OT] = "woken"
    /\ \A l \in LockNames, u \in Threads \ {c} : locks'[l] = u => locks[l] = u
    /\ pc'[c] \in {"idle", "parse", "flag", "join", "done"} =>
          \A l \in LockNames : locks'[l] # c
    /\ op'[c] \in {op[c], "standby"} \/ op[c] = "close"
    /\ pc'[c] = "join" => op'[c] = "exit"
    /\ pc'[c] # "idle" /\ op'[c] = "exit" =>
          pc'[c] \in {"pre", "lock", "run", "join"} /\ standby' /\ compr' = NULL
    /\ Exits' => Exits \/ pc'[c] = "join"
    /\ closed' = closed

LEMMA WorksKeeps ==
  ASSUME OffloadAssumption, TypeOK, LockInv, CloseInv, NEW c \in Clients, Works(c)
  PROVE  CloseInv'
<1>a. /\ \A d \in Clients : d \in Threads /\ d # OT
      /\ OT \in Threads
      /\ ~closed /\ ~closed'
      /\ \A d \in Clients : pc[d] # "join"
  BY DEF Works, CloseInv, Threads, OffloadAssumption
<1>b. pc[OT] # "done" /\ pc'[OT] \notin {"idle", "parse", "flag", "join", "done"}
  BY <1>a DEF Works, CloseInv, LockInv, OffloadLabels
<1>1. ASSUME NEW e \in Clients, pc'[e] # "idle", op'[e] \in {"close", "exit"}
      PROVE  \A d \in Clients \ {e} : pc'[d] = "idle"
  <2>1. CASE e = c
    <3>1. op[c] \in {"close", "exit"}
      BY <1>1, <2>1 DEF Works
    <3> QED
      BY <2>1, <3>1 DEF Works, CloseInv
  <2>2. CASE e # c
    BY <1>1, <2>2 DEF Works, CloseInv
  <2> QED
    BY <2>1, <2>2
<1>2. \A e \in Clients : pc'[e] = "join" => op'[e] = "exit"
  BY <1>a DEF Works
<1>3. \A e \in Clients : pc'[e] # "idle" /\ op'[e] = "exit" =>
          pc'[e] \in {"pre", "lock", "run", "join"} /\ standby' /\ compr' = NULL
  BY DEF Works, CloseInv
<1>4. Exits' => \E e \in Clients : pc'[e] = "join"
  BY <1>a DEF Works, CloseInv
<1>5. \A t \in Threads, l \in LockNames :
          pc'[t] \in {"idle", "parse", "flag", "join", "done"} => locks'[l] # t
  <2>1. ASSUME NEW e \in Clients \ {c}, NEW l \in LockNames,
               pc'[e] \in {"idle", "parse", "flag", "join", "done"}
        PROVE  locks'[l] # e
    BY <2>1, <1>a DEF Works, CloseInv
  <2>2. \A l \in LockNames :
          pc'[c] \in {"idle", "parse", "flag", "join", "done"} => locks'[l] # c
    BY DEF Works
  <2> QED
    BY <2>1, <2>2, <1>b DEF Threads
<1> QED
  BY <1>a, <1>b, <1>1, <1>2, <1>3, <1>4, <1>5 DEF CloseInv

\* A step of the offload thread that is not its last.
Serves ==
    /\ pc[OT] # "done" /\ pc'[OT] \notin {"idle", "parse", "flag", "join", "done"}
    /\ \A c \in Clients : pc'[c] # pc[c] => pc[c] = "wait" /\ pc'[c] = "woken"
    /\ \A l \in LockNames, u \in Clients : locks'[l] = u => locks[l] = u
    /\ Exits' => Exits
    /\ UNCHANGED <<op, standby, compr, closed>>

LEMMA ServesKeeps ==
  ASSUME OffloadAssumption, CloseInv, Serves
  PROVE  CloseInv'
<1>a. ~closed /\ ~closed'
  BY DEF Serves, CloseInv
<1>b. \A c \in Clients : /\ pc'[c] = "idle" <=> pc[c] = "idle"
                         /\ pc'[c] = "join" <=> pc[c] = "join"
  BY DEF Serves
<1>1. \A c \in Clients : pc'[c] # "idle" /\ op'[c] \in {"close", "exit"} =>
          \A d \in Clients \ {c} : pc'[d] = "idle"
  BY <1>b DEF Serves, CloseInv
<1>2. \A c \in Clients : pc'[c] = "join" => op'[c] = "exit"
  BY <1>b DEF Serves, CloseInv
<1>3. \A c \in Clients : pc'[c] # "idle" /\ op'[c] = "exit" =>
          pc'[c] \in {"pre", "lock", "run", "join"} /\ standby' /\ compr' = NULL
  BY <1>b DEF Serves, CloseInv
<1>4. Exits' => \E c \in Clients : pc'[c] = "join"
  BY <1>b DEF Serves, CloseInv
<1>5. \A t \in Threads, l \in LockNames :
          pc'[t] \in {"idle", "parse", "flag", "join", "done"} => locks'[l] # t
  BY <1>b DEF Serves, CloseInv, Threads
<1> QED
  BY <1>a, <1>1, <1>2, <1>3, <1>4, <1>5 DEF Serves, CloseInv

LEMMA UnlockGains ==
  ASSUME OffloadAssumption, NEW t \in Threads, NEW ls
  PROVE  /\ \A l \in LockNames, u \in Threads : Unlock(t, ls)[l] = u => locks[l] = u
         /\ \A l \in LockNames : UnlockAll(t)[l] # t
BY DEF Unlock, UnlockAll, OffloadAssumption

LEMMA SendExits ==
  ASSUME TypeOK, NEW cmd \in Cmds, cmd # "EXIT", Send(cmd)
  PROVE  Exits' => Exits
<1> SUFFICES ASSUME NEW i \in 1 .. Len(cmds'), cmds'[i] = "EXIT" PROVE Exits
  BY DEF Exits
<1>1. cmds \in Seq(Cmds) /\ cmds' = Append(cmds, cmd)
  BY DEF TypeOK, Send
<1>2. i \in 1 .. Len(cmds) /\ cmds[i] = "EXIT"
  BY <1>1
<1> QED
  BY <1>2 DEF Exits

LEMMA TailExits ==
  ASSUME TypeOK, cmds # <<>>, cmds' = Tail(cmds)
  PROVE  Exits' => Exits
<1> SUFFICES ASSUME NEW i \in 1 .. Len(cmds'), cmds'[i] = "EXIT" PROVE Exits
  BY DEF Exits
<1>1. cmds \in Seq(Cmds)
  BY DEF TypeOK
<1>2. i + 1 \in 1 .. Len(cmds) /\ cmds[i + 1] = "EXIT"
  BY <1>1
<1> QED
  BY <1>2 DEF Exits

\* A step of client c to another label, or the end of its call.
Turns(c) ==
    \/ Return(c)
    \/ \E l \in Labels \ {"idle", "parse", "flag", "join", "done"} : pc' = Goto(c, l)

\* The step gives no mutex to another thread.
Gains(c) == \A l \in LockNames, u \in Threads \ {c} : locks'[l] = u => locks[l] = u

LEMMA TurnsWorks ==
  ASSUME OffloadAssumption, TypeOK, CloseInv, NEW c \in Clients,
         pc[c] \notin {"idle", "join"}, op[c] # "exit", Turns(c), Gains(c),
         UNCHANGED <<op, cmds, closed>>
  PROVE  Works(c)
<1>a. c \in Threads /\ c # OT /\ OT \in Threads
  BY DEF Threads, OffloadAssumption
<1>1. Exits' => Exits
  BY DEF Exits
<1>2. CASE Return(c)
  <2>1. /\ pc'[c] = "idle"
        /\ \A u \in Threads \ {c} : pc'[u] = pc[u]
    BY <1>2, <1>a, GotoType DEF Return, Labels
  <2>2. \A l \in LockNames : locks'[l] # c
    BY <1>2, <1>a, UnlockGains DEF Return
  <2> QED
    BY <1>a, <1>1, <2>1, <2>2 DEF Works, Gains, Threads
<1>3. ASSUME NEW l \in Labels \ {"idle", "parse", "flag", "join", "done"}, pc' = Goto(c, l)
      PROVE  Works(c)
  <2>1. /\ pc'[c] = l
        /\ \A u \in Threads \ {c} : pc'[u] = pc[u]
    BY <1>3, <1>a, GotoType
  <2> QED
    BY <1>a, <1>1, <1>3, <2>1 DEF Works, Gains, Threads
<1> QED
  BY <1>2, <1>3 DEF Turns

LEMMA CloseStep ==
  ASSUME OffloadAssumption, Inv, CloseInv, [Next]_vars
  PROVE  CloseInv'
<1> USE DEF client, thread, device, stream, metadata, Inv
<1>a. \A c \in Clients : c \in Threads /\ c # OT
  BY DEF Threads, OffloadAssumption
<1>b. OT \in Threads /\ OT \notin Clients
  BY DEF Threads, OffloadAssumption
<1>c. /\ cmds' = cmds => (Exits' => Exits)
      /\ cmds' = <<>> => ~Exits'
  BY DEF Exits
<1>1. ASSUME NEW c \in Clients, LockInputs(c) PROVE CloseInv'
  <2>1. /\ pc[c] \notin {"idle", "join"} /\ op[c] # "exit"
        /\ UNCHANGED <<op, cmds, closed>>
    BY <1>1 DEF LockInputs, CloseInv
  <2>2. Turns(c)
    BY <1>1 DEF LockInputs, Turns, Labels
  <2>3. Gains(c)
    BY <1>1, <1>a, UnlockGains DEF LockInputs, Gains, Return, UnlockAll, LockNames
  <2> QED
    BY <2>1, <2>2, <2>3, TurnsWorks, WorksKeeps
<1>2. ASSUME NEW c \in Clients, LockDevice(c) PROVE CloseInv'
  <2>1. /\ pc[c] \notin {"idle", "join"} /\ op[c] # "exit"
        /\ UNCHANGED <<op, cmds, closed>>
    BY <1>2 DEF LockDevice, CloseInv
  <2>2. Turns(c)
    BY <1>2 DEF LockDevice, Turns, Labels
  <2>3. Gains(c)
    BY <1>2, <1>a, UnlockGains DEF LockDevice, Gains, Return, UnlockAll, LockNames
  <2> QED
    BY <2>1, <2>2, <2>3, TurnsWorks, WorksKeeps
<1>3. ASSUME NEW c \in Clients, Query(c) PROVE CloseInv'
  <2>1. /\ pc[c] \notin {"idle", "join"} /\ op[c] # "exit"
        /\ UNCHANGED <<op, cmds, closed>>
    BY <1>3 DEF Query, CloseInv
  <2>2. Turns(c)
    BY <1>3 DEF Query, Turns, Labels
  <2>3. Gains(c)
    BY <1>3, <1>a, UnlockGains DEF Query, Gains, Return, UnlockAll, LockNames
  <2> QED
    BY <2>1, <2>2, <2>3, TurnsWorks, WorksKeeps
<1>4. ASSUME NEW c \in Clients, SetMode(c) PROVE CloseInv'
  <2>1. /\ pc[c] \notin {"idle", "join"} /\ op[c] # "exit"
        /\ UNCHANGED <<op, cmds, closed>>
    BY <1>4 DEF SetMode, CloseInv
  <2>2. Turns(c)
    BY <1>4 DEF SetMode, Turns, Labels
  <2>3. Gains(c)
    BY <1>4, <1>a, UnlockGains DEF SetMode, Gains, Return, UnlockAll, LockNames
  <2> QED
    BY <2>1, <2>2, <2>3, TurnsWorks, WorksKeeps
<1>5. ASSUME NEW c \in Clients, Pause(c) PROVE CloseInv'
  <2>1. /\ pc[c] \notin {"idle", "join"} /\ op[c] # "exit"
        /\ UNCHANGED <<op, cmds, closed>>
    BY <1>5 DEF Pause, CloseInv
  <2>2. Turns(c)
    BY <1>5 DEF Pause, Turns, Labels
  <2>3. Gains(c)
    BY <1>5, <1>a, UnlockGains DEF Pause, Gains, Return, UnlockAll, LockNames
  <2> QED
    BY <2>1, <2>2, <2>3, TurnsWorks, WorksKeeps
<1>6. ASSUME NEW c \in Clients, PauseDisable(c) PROVE CloseInv'
  <2>1. /\ pc[c] \notin {"idle", "join"} /\ op[c] # "exit"
        /\ UNCHANGED <<op, cmds, closed>>
    BY <1>6 DEF PauseDisable, CloseInv
  <2>2. Turns(c)
    BY <1>6 DEF PauseDisable, Turns, Labels
  <2>3. Gains(c)
    BY <1>6, <1>a, UnlockGains DEF PauseDisable, Gains, Return, UnlockAll, LockNames
  <2> QED
    BY <2>1, <2>2, <2>3, TurnsWorks, WorksKeeps
<1>7. ASSUME NEW c \in Clients, Resume(c) PROVE CloseInv'
  <2>1. /\ pc[c] \notin {"idle", "join"} /\ op[c] # "exit"
        /\ UNCHANGED <<op, cmds, closed>>
    BY <1>7 DEF Resume, CloseInv
  <2>2. Turns(c)
    BY <1>7 DEF Resume, Turns, Labels
  <2>3. Gains(c)
    BY <1>7, <1>a, UnlockGains DEF Resume, Gains, Return, UnlockAll, LockNames
  <2> QED
    BY <2>1, <2>2, <2>3, TurnsWorks, WorksKeeps
<1>8. ASSUME NEW c \in Clients, ResumeEnable(c) PROVE CloseInv'
  <2>1. /\ pc[c] \notin {"idle", "join"} /\ op[c] # "exit"
        /\ UNCHANGED <<op, cmds, closed>>
    BY <1>8 DEF ResumeEnable, CloseInv
  <2>2. Turns(c)
    BY <1>8 DEF ResumeEnable, Turns, Labels
  <2>3. Gains(c)
    BY <1>8, <1>a, UnlockGains DEF ResumeEnable, Gains, Return, UnlockAll, LockNames
  <2> QED
    BY <2>1, <2>2, <2>3, TurnsWorks, WorksKeeps
<1>9. ASSUME NEW c \in Clients, Flush(c) PROVE CloseInv'
  <2>1. /\ pc[c] \notin {"idle", "join"} /\ op[c] # "exit"
        /\ UNCHANGED <<op, cmds, closed>>
    BY <1>9 DEF Flush, CloseInv
  <2>2. Turns(c)
    BY <1>9 DEF Flush, Turns, Labels
  <2>3. Gains(c)
    BY <1>9, <1>a, UnlockGains DEF Flush, Gains, Return, UnlockAll, LockNames
  <2> QED
    BY <2>1, <2>2, <2>3, TurnsWorks, WorksKeeps
<1>10. ASSUME NEW c \in Clients, AwaitThread(c) PROVE CloseInv'
  <2>1. /\ pc[c] \notin {"idle", "join"} /\ op[c] # "exit"
        /\ UNCHANGED <<op, cmds, closed>>
    BY <1>10 DEF AwaitThread, CloseInv
  <2>2. Turns(c)
    BY <1>10 DEF AwaitThread, Turns, Labels
  <2>3. Gains(c)
    BY <1>10, <1>a, UnlockGains DEF AwaitThread, Gains, Return, UnlockAll, LockNames
  <2> QED
    BY <2>1, <2>2, <2>3, TurnsWorks, WorksKeeps
<1>11. ASSUME NEW c \in Clients, FlushDone(c) PROVE CloseInv'
  <2>1. /\ pc[c] \notin {"idle", "join"} /\ op[c] # "exit"
        /\ UNCHANGED <<op, cmds, closed>>
    BY <1>11 DEF FlushDone, ThreadIsOut, CloseInv
  <2>2. Turns(c)
    BY <1>11 DEF FlushDone, ThreadIsOut, Turns, Labels
  <2>3. Gains(c)
    BY <1>11, <1>a, UnlockGains DEF FlushDone, ThreadIsOut, Gains, Return, UnlockAll, LockNames
  <2> QED
    BY <2>1, <2>2, <2>3, TurnsWorks, WorksKeeps
<1>12. ASSUME NEW c \in Clients, Route(c) PROVE CloseInv'
  <2>1. /\ pc[c] \notin {"idle", "join"} /\ op[c] # "exit"
        /\ UNCHANGED <<op, cmds, closed>>
    BY <1>12 DEF Route, CloseInv
  <2>2. Turns(c)
    BY <1>12 DEF Route, Turns, Labels
  <2>3. Gains(c)
    BY <1>12, <1>a, UnlockGains DEF Route, Gains, Return, UnlockAll, LockNames
  <2> QED
    BY <2>1, <2>2, <2>3, TurnsWorks, WorksKeeps
<1>13. ASSUME NEW c \in Clients, StandbyLocked(c) PROVE CloseInv'
  <2>1. /\ pc[c] \notin {"idle", "join"} /\ op[c] # "exit"
        /\ UNCHANGED <<op, cmds, closed>>
    BY <1>13 DEF StandbyLocked, BeginStandby, CloseInv
  <2>2. Turns(c)
    BY <1>13 DEF StandbyLocked, BeginStandby, Turns, Labels
  <2>3. Gains(c)
    BY <1>13, <1>a, UnlockGains DEF StandbyLocked, BeginStandby, Gains, Return, UnlockAll, LockNames
  <2> QED
    BY <2>1, <2>2, <2>3, TurnsWorks, WorksKeeps
<1>14. ASSUME NEW c \in Clients, RouteLocked(c) PROVE CloseInv'
  <2>1. /\ pc[c] \notin {"idle", "join"} /\ op[c] # "exit"
        /\ UNCHANGED <<op, cmds, closed>>
    BY <1>14 DEF RouteLocked, CloseInv
  <2>2. Gains(c)
    BY <1>14, <1>a, UnlockGains DEF RouteLocked, BeginStandby, Gains, UnlockAll, LockNames
  <2>3. CASE BeginStandby(c)
    <3>1. Turns(c)
      BY <2>3 DEF BeginStandby, Turns, Labels
    <3> QED
      BY <2>1, <2>2, <3>1, TurnsWorks, WorksKeeps
  <2>4. CASE pc' = Goto(c, "parse") /\ locks' = UnlockAll(c)
    <3>0. \A l \in LockNames : locks'[l] # c
      BY <1>a, <2>4, UnlockGains
    <3>1. pc'[c] = "parse" /\ \A u \in Threads \ {c} : pc'[u] = pc[u]
      BY <1>a, <2>4, GotoType DEF Labels
    <3>2. Exits' => Exits
      BY <1>c, <2>1
    <3>3. Works(c)
      BY <1>a, <1>b, <2>1, <2>2, <3>0, <3>1, <3>2 DEF Works, Gains
    <3> QED
      BY <3>3, WorksKeeps
  <2> QED
    BY <1>14, <2>3, <2>4 DEF RouteLocked
<1>15. ASSUME NEW c \in Clients, WriteEnter(c) PROVE CloseInv'
  <2>1. /\ pc[c] \notin {"idle", "join"} /\ op[c] # "exit"
        /\ UNCHANGED <<op, cmds, closed>>
    BY <1>15 DEF WriteEnter, CloseInv
  <2>2. Turns(c)
    BY <1>15 DEF WriteEnter, Turns, Labels
  <2>3. Gains(c)
    BY <1>15, <1>a, UnlockGains DEF WriteEnter, Gains, Return, UnlockAll, LockNames
  <2> QED
    BY <2>1, <2>2, <2>3, TurnsWorks, WorksKeeps
<1>16. ASSUME NEW c \in Clients, StartOutput(c) PROVE CloseInv'
  <2>1. /\ pc[c] \notin {"idle", "join"} /\ op[c] # "exit"
        /\ UNCHANGED <<op, cmds, closed>>
    BY <1>16 DEF StartOutput, CloseInv
  <2>2. Turns(c)
    BY <1>16 DEF StartOutput, Turns, Labels
  <2>3. Gains(c)
    BY <1>16, <1>a, UnlockGains DEF StartOutput, Gains, Return, UnlockAll, LockNames
  <2> QED
    BY <2>1, <2>2, <2>3, TurnsWorks, WorksKeeps
<1>17. ASSUME NEW c \in Clients, WriteFlushed(c) PROVE CloseInv'
  <2>1. /\ pc[c] \notin {"idle", "join"} /\ op[c] # "exit"
        /\ UNCHANGED <<op, cmds, closed>>
    BY <1>17 DEF WriteFlushed, CloseInv
  <2>2. Turns(c)
    BY <1>17 DEF WriteFlushed, Turns, Labels
  <2>3. Gains(c)
    BY <1>17, <1>a, UnlockGains DEF WriteFlushed, Gains, Return, UnlockAll, LockNames
  <2> QED
    BY <2>1, <2>2, <2>3, TurnsWorks, WorksKeeps
<1>18. ASSUME NEW c \in Clients, WriteEnable(c) PROVE CloseInv'
  <2>1. /\ pc[c] \notin {"idle", "join"} /\ op[c] # "exit"
        /\ UNCHANGED <<op, cmds, closed>>
    BY <1>18 DEF WriteEnable, CloseInv
  <2>2. Turns(c)
    BY <1>18 DEF WriteEnable, Turns, Labels
  <2>3. Gains(c)
    BY <1>18, <1>a, UnlockGains DEF WriteEnable, Gains, Return, UnlockAll, LockNames
  <2> QED
    BY <2>1, <2>2, <2>3, TurnsWorks, WorksKeeps
<1>19. ASSUME NEW c \in Clients, Drain(c) PROVE CloseInv'
  <2>1. /\ pc'[c] = "idle"
        /\ \A d \in Clients \ {c} : pc'[d] = pc[d]
        /\ pc'[OT] # pc[OT] => pc[OT] = "asleep" /\ pc'[OT] = "woken"
    <3>1. pc' = SignalOffload(Goto(c, "idle")) /\ "idle" \in Labels
      BY <1>19 DEF Drain, Labels
    <3> QED
      BY <3>1, SignalOffloadGoto
  <2>2. Exits' => Exits
    BY <1>19, SendExits DEF Drain, Cmds
  <2>3. Gains(c) /\ \A l \in LockNames : locks'[l] # c
    BY <1>19, <1>a, UnlockGains DEF Drain, Gains, UnlockAll
  <2>4. Works(c)
    BY <1>19, <2>1, <2>2, <2>3 DEF Drain, Works, Gains
  <2> QED
    BY <2>4, WorksKeeps
<1>20. ASSUME NEW c \in Clients, Put(c) PROVE CloseInv'
  <2>1. /\ pc'[c] = "idle"
        /\ \A d \in Clients \ {c} : pc'[d] = pc[d]
        /\ pc'[OT] # pc[OT] => pc[OT] = "asleep" /\ pc'[OT] = "woken"
    <3>1. CASE pc' = SignalOffload(Goto(c, "idle"))
      BY <3>1, SignalOffloadGoto DEF Labels
    <3>2. CASE pc' = Goto(c, "idle")
      BY <3>2, <1>a, <1>b, GotoType DEF Labels, Threads
    <3> QED
      BY <1>20, <3>1, <3>2 DEF Put
  <2>2. Exits' => Exits
    <3>1. CASE Send("WAIT_FOR_BUFFER")
      BY <3>1, SendExits DEF Cmds
    <3>2. CASE UNCHANGED cmds
      BY <3>2, <1>c
    <3> QED
      BY <1>20, <3>1, <3>2 DEF Put
  <2>3. Gains(c) /\ \A l \in LockNames : locks'[l] # c
    BY <1>20, <1>a, UnlockGains DEF Put, Gains, UnlockAll
  <2>4. pc[c] \in {"data", "put", "told"} /\ UNCHANGED <<op, closed>>
    BY <1>20 DEF Put, Ready
  <2>5. Works(c)
    BY <2>1, <2>2, <2>3, <2>4 DEF Works, Gains
  <2> QED
    BY <2>5, WorksKeeps
<1>40. ASSUME NEW c \in Clients, SendMetadata(c) PROVE CloseInv'
  <2>1. /\ pc[c] \notin {"idle", "join"} /\ op[c] # "exit"
        /\ UNCHANGED <<op, cmds, closed>>
    BY <1>40 DEF SendMetadata, Ready, CloseInv
  <2>2. Turns(c)
    BY <1>40 DEF SendMetadata, Turns, Labels
  <2>3. Gains(c)
    BY <1>40 DEF SendMetadata, Gains
  <2> QED
    BY <2>1, <2>2, <2>3, TurnsWorks, WorksKeeps
\* Without a mutex: none is held at these labels.
<1>41. ASSUME NEW c \in Clients, ParseMetadata(c) \/ ParseFlag(c) PROVE CloseInv'
  <2>1. /\ pc[c] \in {"parse", "flag"}
        /\ UNCHANGED <<op, locks, cmds, closed, standby, compr>>
    BY <1>41 DEF ParseMetadata, ParseFlag
  <2>2. PICK l \in {"idle", "flag"} : pc' = Goto(c, l)
    BY <1>41 DEF ParseMetadata, ParseFlag
  <2>3. pc'[c] = l /\ \A u \in Threads \ {c} : pc'[u] = pc[u]
    BY <1>a, <2>2, GotoType DEF Labels
  <2>4. op[c] # "exit" /\ \A k \in LockNames : locks[k] # c
    BY <1>a, <2>1 DEF CloseInv
  <2>5. Exits' => Exits
    BY <1>c, <2>1
  <2>6. Works(c)
    BY <1>a, <1>b, <2>1, <2>3, <2>4, <2>5 DEF Works
  <2> QED
    BY <2>6, WorksKeeps
\* A close in standby has no handle left: any other stop would be another call.
<1>21. ASSUME NEW c \in Clients, Standby(c) PROVE CloseInv'
  <2>1. pc[c] = "run" /\ UNCHANGED <<cmds, closed, standby, compr>>
    BY <1>21 DEF Standby
  <2>2. Gains(c)
    BY <1>21, <1>a, UnlockGains DEF Standby, Gains, Return, UnlockAll
  <2>3. CASE ~standby \/ op[c] = "standby"
    <3>1. Turns(c) /\ op[c] # "exit" /\ UNCHANGED op
      BY <1>21, <2>3 DEF Standby, Turns, Labels
    <3> QED
      BY <2>1, <2>2, <3>1, TurnsWorks, WorksKeeps
  <2>4. CASE standby /\ op[c] = "close"
    <3>1. /\ pc' = Goto(c, "pre") /\ op' = [op EXCEPT ![c] = "exit"]
          /\ locks' = UnlockAll(c)
      BY <1>21, <2>4 DEF Standby
    <3>2. compr = NULL
      <4>1. \A d \in Clients : ~Stopping(d)
        BY <2>1, <2>4 DEF CloseInv, Stopping
      <4> QED
        BY <2>4, <4>1 DEF HandleInv
    <3>3. /\ pc'[c] = "pre" /\ \A u \in Threads \ {c} : pc'[u] = pc[u]
          /\ op'[c] = "exit" /\ \A d \in Clients \ {c} : op'[d] = op[d]
      BY <1>a, <3>1, GotoType DEF Labels, TypeOK
    <3>4. Exits' => Exits
      BY <1>c, <2>1
    <3>5. Works(c)
      BY <1>a, <1>b, <2>1, <2>2, <2>4, <3>2, <3>3, <3>4 DEF Works, Gains
    <3> QED
      BY <3>5, WorksKeeps
  <2> QED
    BY <1>21, <2>3, <2>4 DEF Standby
<1>22. ASSUME NEW c \in Clients, FinishStandby(c) PROVE CloseInv'
  <2>1. /\ pc[c] = "stopped" /\ op[c] # "exit" /\ UNCHANGED <<cmds, closed, standby>>
        /\ compr' = NULL
    BY <1>22 DEF FinishStandby, ThreadIsOut
  <2>2. Gains(c) /\ \A l \in LockNames : locks'[l] # c
    BY <1>22, <1>a, UnlockGains DEF FinishStandby, Gains, UnlockAll
  <2>3. Exits' => Exits
    BY <1>c, <2>1
  <2>4. \/ op[c] = "close" /\ pc'[c] = "pre" /\ op'[c] = "exit"
        \/ pc'[c] \in {"idle", "parse"} /\ op' = op
    BY <1>22, <1>a, GotoType DEF FinishStandby, TypeOK, Labels
  <2>5. /\ \A u \in Threads \ {c} : pc'[u] = pc[u]
        /\ \A d \in Clients \ {c} : op'[d] = op[d]
    BY <1>22, <1>a, GotoType DEF FinishStandby, TypeOK, Labels
  <2>6. standby
    BY <1>22 DEF FinishStandby, ThreadIsOut, HandleInv, Stopping
  <2>7. Works(c)
    BY <1>a, <1>b, <2>1, <2>2, <2>3, <2>4, <2>5, <2>6 DEF Works, Gains
  <2> QED
    BY <2>7, WorksKeeps
<1>23. ASSUME NEW c \in Clients, StartFails(c) PROVE CloseInv'
  <2>1. /\ pc[c] = "hold" /\ op[c] = "write" /\ UNCHANGED <<cmds, closed>>
        /\ pc' = Goto(c, "pre") /\ op' = [op EXCEPT ![c] = "standby"]
    BY <1>23 DEF StartFails
  <2>2. Gains(c)
    BY <1>23, <1>a, UnlockGains DEF StartFails, Gains, UnlockAll
  <2>3. Exits' => Exits
    BY <1>c, <2>1
  <2>4. /\ pc'[c] = "pre" /\ \A u \in Threads \ {c} : pc'[u] = pc[u]
        /\ op'[c] = "standby" /\ \A d \in Clients \ {c} : op'[d] = op[d]
    BY <1>a, <2>1, GotoType DEF Labels, TypeOK
  <2>5. Works(c)
    BY <1>a, <1>b, <2>1, <2>2, <2>3, <2>4 DEF Works, Gains
  <2> QED
    BY <2>5, WorksKeeps
<1>24. ASSUME NEW c \in Clients, SendExit(c) PROVE CloseInv'
  <2>1. /\ pc'[c] = "join"
        /\ \A d \in Clients \ {c} : pc'[d] = pc[d]
        /\ pc'[OT] # pc[OT] => pc[OT] = "asleep" /\ pc'[OT] = "woken"
    <3>1. pc' = SignalOffload(Goto(c, "join")) /\ "join" \in Labels
      BY <1>24 DEF SendExit, Labels
    <3> QED
      BY <3>1, SignalOffloadGoto
  <2>2. /\ pc[c] = "run" /\ op[c] = "exit"
        /\ UNCHANGED <<op, closed, standby, compr>>
    BY <1>24 DEF SendExit
  <2>3. Gains(c) /\ \A l \in LockNames : locks'[l] # c
    BY <1>24, <1>a, UnlockGains DEF SendExit, Gains, UnlockAll
  <2>4. standby /\ compr = NULL
    BY <2>2 DEF CloseInv
  <2>5. Works(c)
    BY <2>1, <2>2, <2>3, <2>4 DEF Works, Gains
  <2> QED
    BY <2>5, WorksKeeps
<1>25. ASSUME NEW c \in Clients, Join(c) PROVE CloseInv'
  <2>1. /\ pc[c] = "join" /\ op[c] = "exit" /\ pc[OT] = "done" /\ closed'
        /\ UNCHANGED <<op, locks, cmds, standby, compr>>
    BY <1>25 DEF Join, CloseInv
  <2>2. standby /\ compr = NULL /\ cmds = <<>>
        /\ \A d \in Clients \ {c} : pc[d] = "idle"
    BY <2>1 DEF CloseInv
  <2>3. /\ pc'[c] = "idle" /\ \A u \in Threads \ {c} : pc'[u] = pc[u]
    BY <1>25, <1>a, GotoType DEF Join, Labels
  <2>4. pc'[OT] = "done" /\ \A d \in Clients : pc'[d] = "idle"
    BY <1>a, <1>b, <2>1, <2>2, <2>3
  <2>5. \A t \in Threads, l \in LockNames : locks'[l] # t
    BY <1>a, <1>b, <2>1, <2>2 DEF CloseInv, Threads
  <2>6. ~Exits'
    BY <1>c, <2>1, <2>2
  <2> QED
    BY <2>1, <2>2, <2>4, <2>5, <2>6 DEF CloseInv
<1>26. ASSUME NEW c \in Clients, NEW o \in Ops, Call(c, o) PROVE CloseInv'
  <2>1. /\ pc[c] = "idle" /\ ~closed /\ ~Closing
        /\ o = "close" => \A d \in Clients : pc[d] = "idle"
        /\ UNCHANGED <<locks, cmds, closed, standby, compr>>
    BY <1>26 DEF Call, MayCall
  <2>2. /\ pc'[c] \in {"inputs", "adev", "pre", "parse"}
        /\ \A u \in Threads \ {c} : pc'[u] = pc[u]
        /\ op'[c] = o /\ \A d \in Clients \ {c} : op'[d] = op[d]
    BY <1>26, <1>a, GotoType DEF Call, FirstLabel, Labels, TypeOK
  <2>3. o # "exit"
    BY DEF Ops
  <2>4. \A d \in Clients : pc[d] # "idle" => op[d] \notin {"close", "exit"}
    BY <2>1 DEF Closing
  <2>5. \A e \in Clients : pc'[e] # "idle" /\ op'[e] \in {"close", "exit"} =>
           \A d \in Clients \ {e} : pc'[d] = "idle"
    BY <1>a, <2>1, <2>2, <2>3, <2>4
  <2>6. \A e \in Clients : /\ pc'[e] = "join" => op'[e] = "exit"
                           /\ pc'[e] # "idle" => op'[e] # "exit"
    BY <1>a, <2>2, <2>3, <2>4 DEF CloseInv
  <2>7. ~Exits /\ pc[OT] # "done"
    BY <2>1, <2>4 DEF CloseInv
  <2>8. \A t \in Threads, l \in LockNames :
           pc'[t] \in {"idle", "parse", "flag", "join", "done"} => locks'[l] # t
    BY <2>1, <2>2 DEF CloseInv
  <2> QED
    BY <1>b, <1>c, <2>1, <2>2, <2>5, <2>6, <2>7, <2>8 DEF CloseInv
\* The mutexes and the wake-ups, for a client and for the offload thread.
<1>d. ASSUME NEW t \in Threads, NEW l \in Labels \ {"idle", "parse", "flag", "join", "done"},
             pc[t] \in {"pre", "lock", "woken", "wait", "asleep"}, pc' = Goto(t, l),
             t \in Clients => l \in {"lock", "run", "stopped", "woken"},
             pc[t] \in {"woken", "wait", "asleep"} \/ l \in {"lock", "run"},
             Gains(t), UNCHANGED <<op, thread, device, stream, closed>>
      PROVE  CloseInv'
  <2>1. pc'[t] = l /\ \A u \in Threads \ {t} : pc'[u] = pc[u]
    BY <1>d, GotoType
  <2>2. Exits' => Exits
    BY <1>c, <1>d
  <2>3. CASE t \in Clients
    <3>1. Works(t)
      BY <1>b, <1>d, <2>1, <2>2, <2>3, <1>a DEF Works, Gains, CloseInv
    <3> QED
      BY <2>3, <3>1, WorksKeeps
  <2>4. CASE t = OT
    <3>1. Serves
      BY <1>a, <1>b, <1>d, <2>1, <2>2, <2>4 DEF Serves, Gains
    <3> QED
      BY <3>1, ServesKeeps
  <2> QED
    BY <2>3, <2>4 DEF Threads
<1>27. ASSUME NEW t \in Threads, LockPre(t) PROVE CloseInv'
  <2>1. Gains(t) /\ "lock" \in Labels
    BY <1>27 DEF LockPre, Gains, Labels, TypeOK
  <2> QED
    BY <1>27, <1>d, <2>1 DEF LockPre
<1>28. ASSUME NEW t \in Threads, LockStream(t) PROVE CloseInv'
  <2>1. Gains(t) /\ "run" \in Labels
    BY <1>28 DEF LockStream, Gains, Labels, TypeOK, OffloadAssumption, LockNames
  <2> QED
    BY <1>28, <1>d, <2>1 DEF LockStream
<1>29. ASSUME NEW t \in Threads, Relock(t) PROVE CloseInv'
  <2>1. Gains(t) /\ "run" \in Labels /\ "stopped" \in Labels
    BY <1>29 DEF Relock, Gains, Labels, TypeOK, LockNames
  <2> QED
    BY <1>29, <1>d, <2>1 DEF Relock
<1>30. ASSUME NEW t \in Threads, Spurious(t) PROVE CloseInv'
  <2>1. Gains(t) /\ "woken" \in Labels
    BY <1>30 DEF Spurious, Gains, Labels
  <2> QED
    BY <1>30, <1>d, <2>1 DEF Spurious
<1>31. ASSUME TakeExit PROVE CloseInv'
  <2>1. /\ pc'[OT] = "done"
        /\ \A c \in Clients : pc'[c] # pc[c] => pc[c] = "wait" /\ pc'[c] = "woken"
    BY <1>31, SignalCondGoto DEF TakeExit, Labels
  <2>2. /\ pc[OT] = "run" /\ cmds' = <<>> /\ UNCHANGED <<op, standby, compr, closed>>
    BY <1>31 DEF TakeExit
  <2>3. Exits
    BY <1>31 DEF TakeExit, Exits, TypeOK
  <2>4. PICK c \in Clients : pc[c] = "join"
    BY <2>3 DEF CloseInv
  <2>5. pc'[c] = "join" /\ \A d \in Clients \ {c} : pc[d] = "idle" /\ pc'[d] = "idle"
    BY <2>1, <2>4 DEF CloseInv
  <2>6. \A l \in LockNames : /\ locks'[l] # OT
                             /\ \A u \in Clients : locks'[l] = u => locks[l] = u
    <3>1. locks' = UnlockAll(OT)
      BY <1>31 DEF TakeExit
    <3>2. \A l \in LockNames : locks'[l] # OT
      BY <1>b, <3>1, UnlockGains
    <3>3. \A l \in LockNames, u \in Clients : locks'[l] = u => locks[l] = u
      BY <1>a, <1>b, <3>1, UnlockGains DEF UnlockAll
    <3> QED
      BY <3>2, <3>3
  <2>7. \A t \in Threads, l \in LockNames :
           pc'[t] \in {"idle", "parse", "flag", "join", "done"} => locks'[l] # t
    BY <2>4, <2>5, <2>6 DEF CloseInv, Threads
  <2>8. ~closed /\ op[c] = "exit" /\ standby /\ compr = NULL
    BY <2>4 DEF CloseInv
  <2> QED
    BY <1>c, <2>1, <2>2, <2>5, <2>7, <2>8 DEF CloseInv
<1>e. ASSUME pc'[OT] \notin {"idle", "parse", "flag", "join", "done"}, pc[OT] # "done",
             \A c \in Clients : pc'[c] # pc[c] => pc[c] = "wait" /\ pc'[c] = "woken",
             locks' = locks \/ locks' = UnlockAll(OT), Exits' => Exits,
             UNCHANGED <<op, standby, compr, closed>>
      PROVE  CloseInv'
  <2>1. \A l \in LockNames, u \in Clients : locks'[l] = u => locks[l] = u
    BY <1>a, <1>b, <1>e, UnlockGains DEF UnlockAll
  <2>2. Serves
    BY <1>e, <2>1 DEF Serves
  <2> QED
    BY <2>2, ServesKeeps
<1>32. ASSUME Sleep PROVE CloseInv'
  <2>1. pc'[OT] = "asleep" /\ \A c \in Clients : pc'[c] = pc[c]
    BY <1>32, <1>a, <1>b, GotoType DEF Sleep, Labels
  <2> QED
    BY <1>32, <1>c, <1>e, <2>1 DEF Sleep
<1>33. ASSUME DropCommand PROVE CloseInv'
  <2>1. /\ pc'[OT] = pc[OT]
        /\ \A c \in Clients : pc'[c] # pc[c] => pc[c] = "wait" /\ pc'[c] = "woken"
    BY <1>33, SignalCondHere DEF DropCommand
  <2>2. Exits' => Exits
    BY <1>33, TailExits DEF DropCommand
  <2> QED
    BY <1>33, <1>e, <2>1, <2>2 DEF DropCommand
<1>34. ASSUME TakeCommand PROVE CloseInv'
  <2>1. pc'[OT] = "call" /\ \A c \in Clients : pc'[c] = pc[c]
    BY <1>34, <1>a, <1>b, GotoType DEF TakeCommand, Labels
  <2>2. Exits' => Exits
    BY <1>34, TailExits DEF TakeCommand
  <2> QED
    BY <1>34, <1>e, <2>1, <2>2 DEF TakeCommand
<1>35. ASSUME NextTrack PROVE CloseInv'
  <2>1. pc'[OT] = "track" /\ \A c \in Clients : pc'[c] = pc[c]
    BY <1>35, <1>a, <1>b, GotoType DEF NextTrack, Labels
  <2> QED
    BY <1>35, <1>c, <1>e, <2>1 DEF NextTrack
<1>36. ASSUME EnterDriver PROVE CloseInv'
  <2>1. pc'[OT] = "driver" /\ \A c \in Clients : pc'[c] = pc[c]
    BY <1>36, <1>a, <1>b, GotoType DEF EnterDriver, Labels
  <2> QED
    BY <1>36, <1>c, <1>e, <2>1 DEF EnterDriver
<1>37. ASSUME LeaveDriver PROVE CloseInv'
  <2>1. pc'[OT] = "pre" /\ \A c \in Clients : pc'[c] = pc[c]
    BY <1>37, <1>a, <1>b, GotoType DEF LeaveDriver, Labels
  <2> QED
    BY <1>37, <1>c, <1>e, <2>1 DEF LeaveDriver
<1>42. ASSUME FindRoom PROVE CloseInv'
  <2>1. pc'[OT] = "pre" /\ \A c \in Clients : pc'[c] = pc[c]
    BY <1>42, <1>a, <1>b, GotoType DEF FindRoom, Labels
  <2> QED
    BY <1>42, <1>c, <1>e, <2>1 DEF FindRoom
<1>38. ASSUME Deliver PROVE CloseInv'
  <2>1. /\ pc'[OT] = pc[OT]
        /\ \A c \in Clients : pc'[c] # pc[c] => pc[c] = "wait" /\ pc'[c] = "woken"
    BY <1>38, SignalCondHere DEF Deliver
  <2> QED
    BY <1>38, <1>c, <1>e, <2>1 DEF Deliver
<1>39. ASSUME UNCHANGED vars PROVE CloseInv'
  BY <1>39 DEF vars, CloseInv, Exits
<1> QED
  BY <1>1, <1>2, <1>3, <1>4, <1>5, <1>6, <1>7, <1>8, <1>9, <1>10, <1>11, <1>12, <1>13,
     <1>14, <1>15, <1>16, <1>17, <1>18, <1>19, <1>20, <1>21, <1>22, <1>23, <1>24, <1>25,
     <1>26, <1>27, <1>28, <1>29, <1>30, <1>31, <1>32, <1>33, <1>34, <1>35, <1>36, <1>37,
     <1>38, <1>39, <1>40, <1>41, <1>42 DEF Next, ClientStep, OffloadStep, Gone

LEMMA CloseInit == OffloadAssumption /\ Init => CloseInv
<1> SUFFICES ASSUME OffloadAssumption, Init PROVE CloseInv
  OBVIOUS
<1>1. pc[OT] = "pre" /\ \A c \in Clients : pc[c] = "idle"
  BY DEF Init, Threads, OffloadAssumption
<1>2. \A l \in LockNames, t \in Threads : locks[l] # t
  BY DEF Init, OffloadAssumption
<1>3. ~Exits /\ ~closed
  BY DEF Init, Exits
<1> QED
  BY <1>1, <1>2, <1>3 DEF CloseInv

LEMMA Closure == Spec => []CloseInv
<1>1. Init => CloseInv
  BY CloseInit, OffloadAssumption
<1>2. Inv /\ CloseInv /\ [Next]_vars => CloseInv'
  BY CloseStep, OffloadAssumption
<1> QED
  BY <1>1, <1>2, Invariance, PTL DEF Spec

-----------------------------------------------------------------------------
(* One client drives the stream.                                           *)

Asides == {"query", "drain", "params", "set_mode"}

\* Client d alone plays, and the stream has its visualizer.
Drives(d) == FxLib /\ \A c \in Clients \ {d} : Allowed[c] \subseteq Asides

Outside == {"idle", "pre", "lock", "run", "adev", "hold", "parse", "flag"}

\* The other clients stay out of what changes the stream.
BystanderInv(d) ==
    \A c \in Clients \ {d} :
        op[c] \in Asides /\ pc[c] \in Outside

LEMMA BystanderActs ==
  ASSUME NEW d \in Clients, BystanderInv(d), NEW c \in Clients \ {d}
  PROVE  ~Acts(c)
<1>1. op[c] \in Asides /\ pc[c] \in Outside
  BY DEF BystanderInv
<1> QED
  BY <1>1 DEF Outside, Asides, Acts, Pause, PauseDisable, ResumeEnable, Flush, FlushDone,
       StandbyLocked, FinishStandby, RouteLocked, StartOutput, StartFails, WriteEnable,
       SendMetadata, Put, Ready, ThreadIsOut

LEMMA BystanderStep ==
  ASSUME OffloadAssumption, TypeOK, NEW d \in Clients, Drives(d), BystanderInv(d),
         [Next]_vars
  PROVE  BystanderInv(d)'
<1>a. \A c \in Clients : c \in Threads /\ c # OT
  BY DEF Threads, OffloadAssumption
<1>1. CASE Woken
  BY <1>1 DEF Woken, BystanderInv, Outside
<1>2. ASSUME NEW e \in Clients, Moved(e), Alone(e) PROVE BystanderInv(d)'
  <2>1. CASE e = d
    BY <1>2, <2>1 DEF Alone, BystanderInv
  <2>2. CASE e # d
    <3>1. op[e] \in Asides /\ pc[e] \in Outside
      BY <2>2 DEF BystanderInv
    <3>2. ASSUME \/ LockDevice(e) \/ LockPre(e) \/ LockStream(e) \/ Query(e) \/ SetMode(e)
                 \/ Parses(e)
          PROVE  op' = op /\ pc'[e] \in Outside
      <4>1. PICK l \in Outside : pc' = Goto(e, l)
        BY <3>2, <1>a DEF LockDevice, LockPre, LockStream, Query, SetMode, Return, Parses,
             ParseMetadata, ParseFlag, Outside
      <4>2. op' = op
        BY <3>2 DEF LockDevice, LockPre, LockStream, Query, SetMode, Parses,
             ParseMetadata, ParseFlag
      <4>3. l \in Labels
        BY DEF Outside, Labels
      <4> QED
        BY <1>a, <4>1, <4>2, <4>3, GotoType
    <3>3. ASSUME Drain(e) PROVE op' = op /\ pc'[e] \in Outside
      BY <3>3, SignalOffloadGoto DEF Drain, Labels, Outside
    <3>4. ASSUME NEW o \in Ops, Call(e, o)
          PROVE  op'[e] \in Asides /\ pc'[e] \in Outside
      <4>1. o \in Asides
        BY <2>2, <3>4 DEF Call, MayCall, Drives
      <4>2. FirstLabel(o) \in {"pre", "parse", "adev"}
        BY <4>1 DEF FirstLabel, Asides
      <4>3. FirstLabel(o) \in Labels /\ FirstLabel(o) \in Outside
        BY <4>2 DEF Labels, Outside
      <4> QED
        BY <3>4, <4>1, <4>3, <1>a, GotoType DEF Call, TypeOK
    <3>5. \/ LockDevice(e) \/ LockPre(e) \/ LockStream(e) \/ Query(e) \/ SetMode(e)
          \/ Parses(e) \/ Drain(e) \/ \E o \in Ops : Call(e, o)
      <4>1. ~Acts(e)
        BY <2>2, BystanderActs
      <4>2. ~(\/ LockInputs(e) \/ Resume(e) \/ AwaitThread(e) \/ Standby(e) \/ Route(e)
              \/ WriteEnter(e) \/ WriteFlushed(e) \/ SendExit(e) \/ Join(e)
              \/ Relock(e) \/ Spurious(e))
        BY <3>1 DEF Asides, Outside, LockInputs, Resume, AwaitThread, Standby, Route,
                    WriteEnter, WriteFlushed, SendExit, Join, Relock, Spurious
      <4> QED
        BY <1>2, <4>1, <4>2, MovedKinds DEF Minor
    <3>6. op'[e] \in Asides /\ pc'[e] \in Outside
      BY <3>1, <3>2, <3>3, <3>4, <3>5
    <3> QED
      BY <1>2, <3>6 DEF Alone, BystanderInv
  <2> QED
    BY <2>1, <2>2
<1> QED
  BY <1>1, <1>2, WhoMoves

\* A call o of client t between two steps: on the way to adev->lock or under
\* it, or stopping the device and waiting for the offload thread.
Half(t, o) == op[t] = o /\ pc[t] \in {"adev", "hold"}
Stop(t, o) == op[t] = o /\ pc[t] \in {"stopped", "wait", "woken"}

\* The entries of the usecase list that the state calls for.
Shares == IF offload_state = "PLAYING" THEN 1 ELSE 0

\* The device is as the state has it, or was never started with its data.
DeviceIs(state) == dev[compr] \in IF unstarted THEN {"setup", "prepared"} ELSE {state}

\* What holds when nobody is in the middle of a change.
Settled ==
    /\ uc = Shares
    /\ standby <=> offload_state = "IDLE"
    /\ offload_state = "PLAYING" => DeviceIs("running")
    /\ offload_state = "PAUSED" => DeviceIs("paused")
    /\ offload_state = "PAUSED_FLUSHED" => DeviceIs("setup")

Changing(t) == \/ Half(t, "pause") \/ Stop(t, "flush") \/ Stopping(t)
               \/ pc[t] \in {"data", "put", "told"}

\* A handle that was opened, or flushed, and was not started since.
Fresh == ~standby /\ uc = 1 /\ DeviceIs("setup")

\* The state of the stream by what its driver is doing.
DriverInv(d) ==
    /\ ~Changing(d) => Settled
    /\ Half(d, "pause") =>
          ~standby /\ offload_state = "PAUSED" /\ uc = 1 /\ DeviceIs("paused")
    /\ Half(d, "resume") => offload_state = "PAUSED"
    /\ Stop(d, "flush") =>
          ~standby /\ offload_state = "PAUSED" /\ uc = 0 /\ DeviceIs("setup")
    /\ Stopping(d) => uc = Shares
    /\ pc[d] = "data" => \/ offload_state = "IDLE" /\ Fresh
                         \/ offload_state # "IDLE" /\ Settled
    /\ pc[d] = "put" => offload_state = "PAUSED_FLUSHED" /\ Fresh
    /\ pc[d] = "told" => \/ offload_state \in {"IDLE", "PAUSED_FLUSHED"} /\ Fresh
                         \/ offload_state = "PLAYING" /\ Settled
    /\ Half(d, "write") /\ ~standby => offload_state = "PAUSED_FLUSHED"
    /\ pc[d] \in {"data", "put", "told"} => op[d] = "write"
    /\ pc[d] # "idle" /\ op[d] = "write" => offload_state # "PAUSED"

LEMMA SettledKept ==
  ASSUME UNCHANGED <<device, stream>>
  PROVE  /\ UNCHANGED <<Settled, Shares, Fresh, standby, offload_state, uc, compr, dev>>
         /\ \A state : DeviceIs(state)' <=> DeviceIs(state)
BY DEF device, stream, Settled, Shares, Fresh, DeviceIs

LEMMA DriverKept ==
  ASSUME NEW d \in Clients, DriverInv(d), UNCHANGED <<device, stream>>, op'[d] = op[d],
         pc'[d] # pc[d] => pc[d] = "wait" /\ pc'[d] = "woken"
  PROVE  DriverInv(d)'
<1>1. /\ UNCHANGED <<Settled, Shares, Fresh, standby, offload_state, uc>>
      /\ DeviceIs("paused")' <=> DeviceIs("paused")
      /\ DeviceIs("setup")' <=> DeviceIs("setup")
  BY SettledKept
<1>2. /\ Changing(d)' <=> Changing(d)
      /\ Stopping(d)' <=> Stopping(d)
      /\ \A o : (Half(d, o)' <=> Half(d, o)) /\ (Stop(d, o)' <=> Stop(d, o))
  BY DEF Changing, Stopping, Half, Stop
<1> QED
  BY <1>1, <1>2 DEF DriverInv

\* A step of the driver that leaves the device and the stream alone, to a label
\* at which nothing is under way.
LEMMA DriverAside ==
  ASSUME NEW d \in Clients, DriverInv(d), ~Changing(d), UNCHANGED <<device, stream>>,
         ~Changing(d)', ~Half(d, "resume")', ~(Half(d, "write")' /\ ~standby),
         pc'[d] # "idle" /\ op'[d] = "write" => offload_state # "PAUSED"
  PROVE  DriverInv(d)'
<1>1. Settled /\ Settled'
  BY SettledKept DEF DriverInv
<1>2. UNCHANGED <<standby, offload_state>>
  BY DEF stream
<1> QED
  BY <1>1, <1>2 DEF DriverInv, Changing

LEMMA DriverStep ==
  ASSUME OffloadAssumption, Inv, NEW d \in Clients, Drives(d), BystanderInv(d),
         DriverInv(d), [Next]_vars
  PROVE  DriverInv(d)'
<1> USE DEF client, thread, device, stream, metadata, Inv
<1>a. d \in Threads /\ d # OT
  BY DEF Threads, OffloadAssumption
<1>b. uc \in Nat /\ standby \in BOOLEAN /\ offload_state \in States
  BY DEF TypeOK
<1>c. DriverInv(d)
  OBVIOUS
<1>d. ASSUME NEW l \in Labels, pc' = Goto(d, l) PROVE pc'[d] = l
  BY <1>a, <1>d, GotoType
\* Steps that leave the device and the stream alone.
<1>1. ASSUME Query(d) \/ SetMode(d) PROVE DriverInv(d)'
  <2>1. pc'[d] = "idle" /\ UNCHANGED <<device, stream>> /\ ~Changing(d)
    BY <1>1, <1>d DEF Query, SetMode, Return, Labels, Changing, Half, Stop, Stopping
  <2> QED
    BY <2>1, DriverAside DEF Changing, Half, Stop, Stopping
<1>2. ASSUME Drain(d) \/ SendExit(d) PROVE DriverInv(d)'
  <2>1. /\ pc'[d] \in {"idle", "join"} /\ UNCHANGED <<device, stream, op>>
        /\ ~Changing(d) /\ op[d] # "write"
    BY <1>2, SignalOffloadGoto
       DEF Drain, SendExit, Labels, Changing, Half, Stop, Stopping
  <2> QED
    BY <2>1, DriverAside DEF Changing, Half, Stop, Stopping
<1>3. ASSUME Join(d) PROVE DriverInv(d)'
  <2>1. pc'[d] = "idle" /\ UNCHANGED <<device, stream>> /\ ~Changing(d)
    BY <1>3, <1>d DEF Join, Labels, Changing, Half, Stop, Stopping
  <2> QED
    BY <2>1, DriverAside DEF Changing, Half, Stop, Stopping
<1>4. ASSUME LockInputs(d) \/ LockPre(d) \/ LockStream(d) PROVE DriverInv(d)'
  <2>1. /\ pc'[d] \in {"pre", "lock", "run"} /\ UNCHANGED <<device, stream, op>>
        /\ pc[d] \in {"inputs", "pre", "lock"}
    BY <1>4, <1>a, <1>d DEF LockInputs, LockPre, LockStream, Labels
  <2>2. ~Changing(d) /\ (op'[d] = "write" => offload_state # "PAUSED")
    BY <2>1 DEF Changing, Half, Stop, Stopping, DriverInv
  <2> QED
    BY <2>1, <2>2, DriverAside DEF Changing, Half, Stop, Stopping
<1>5. ASSUME LockDevice(d) \/ AwaitThread(d) \/ Relock(d) \/ Spurious(d) PROVE DriverInv(d)'
  <2>1. /\ UNCHANGED <<device, stream, op>>
        /\ \/ pc[d] = "adev" /\ pc'[d] = "hold"
           \/ pc[d] \in {"stopped", "wait", "woken"} /\ pc'[d] \in {"stopped", "wait", "woken"}
    BY <1>5, <1>a, <1>d DEF LockDevice, AwaitThread, Relock, Spurious, Labels, LockInv
  <2>2. /\ Changing(d)' <=> Changing(d)
        /\ Stopping(d)' <=> Stopping(d)
        /\ Stop(d, "flush")' <=> Stop(d, "flush")
        /\ \A o : Half(d, o)' <=> Half(d, o)
    BY <2>1 DEF Changing, Half, Stop, Stopping
  <2>3. /\ UNCHANGED <<Settled, Shares, Fresh, standby, offload_state, uc>>
        /\ DeviceIs("paused")' <=> DeviceIs("paused")
        /\ DeviceIs("setup")' <=> DeviceIs("setup")
    BY <2>1, SettledKept DEF device, stream
  <2> QED
    BY <2>1, <2>2, <2>3 DEF DriverInv
<1>6. ASSUME Route(d) PROVE DriverInv(d)'
  <2>1. /\ pc'[d] = "adev" /\ op'[d] = "route" /\ UNCHANGED <<device, stream>>
        /\ ~Changing(d)
    BY <1>6, <1>d DEF Route, Labels, Changing, Half, Stop, Stopping
  <2> QED
    BY <2>1, DriverAside DEF Changing, Half, Stop, Stopping
<1>7. ASSUME Standby(d) PROVE DriverInv(d)'
  <2>1. /\ pc'[d] \in {"adev", "idle", "pre"} /\ op'[d] \in {"standby", "close", "exit"}
        /\ UNCHANGED <<device, stream>> /\ ~Changing(d)
    BY <1>7, <1>d DEF Standby, Return, Labels, TypeOK, Changing, Half, Stop, Stopping
  <2> QED
    BY <2>1, DriverAside DEF Changing, Half, Stop, Stopping
<1>8. ASSUME Resume(d) PROVE DriverInv(d)'
  <2>1. UNCHANGED <<device, stream, op>> /\ ~Changing(d) /\ op[d] = "resume"
    BY <1>8 DEF Resume, Changing, Half, Stop, Stopping
  <2>2. CASE pc'[d] = "idle"
    BY <2>1, <2>2, DriverAside DEF Changing, Half, Stop, Stopping
  <2>3. CASE pc'[d] = "adev" /\ offload_state = "PAUSED"
    <3>1. Settled'
      BY <2>1, SettledKept DEF DriverInv
    <3> QED
      BY <2>1, <2>3, <3>1 DEF DriverInv, Changing, Half, Stop, Stopping
  <2> QED
    BY <1>8, <2>2, <2>3, <1>d DEF Resume, Return, Labels
<1>9. ASSUME WriteEnter(d) PROVE DriverInv(d)'
  <2>1. /\ UNCHANGED <<device, stream, op>> /\ ~Changing(d) /\ op[d] = "write"
        /\ pc[d] = "run"
    BY <1>9 DEF WriteEnter, Changing, Half, Stop, Stopping
  <2>2. offload_state # "PAUSED" /\ Settled
    BY <2>1 DEF DriverInv
  <2>3. CASE standby /\ pc'[d] \in {"inputs", "adev"}
    BY <2>1, <2>2, <2>3, DriverAside DEF Changing, Half, Stop, Stopping
  <2>4. CASE ~standby /\ pc'[d] = "data"
    <3>1. Settled' /\ offload_state # "IDLE" /\ UNCHANGED offload_state
      BY <2>1, <2>2, <2>4, SettledKept DEF Settled
    <3> QED
      BY <2>1, <2>2, <2>4, <3>1 DEF DriverInv, Changing, Half, Stop, Stopping
  <2> QED
    BY <1>9, <2>3, <2>4, <1>d DEF WriteEnter, Labels
<1>10. ASSUME WriteFlushed(d) PROVE DriverInv(d)'
  <2>1. /\ UNCHANGED <<device, stream, op>> /\ pc[d] = "data" /\ op[d] = "write"
        /\ pc'[d] = "adev" /\ offload_state = "PAUSED_FLUSHED"
    BY <1>10, <1>d DEF WriteFlushed, Labels, DriverInv
  <2>2. Settled /\ Settled'
    BY <2>1, SettledKept DEF DriverInv
  <2> QED
    BY <2>1, <2>2 DEF DriverInv, Changing, Half, Stop, Stopping
<1>11. ASSUME NEW o \in Ops, Call(d, o) PROVE DriverInv(d)'
  <2>1. /\ pc[d] = "idle" /\ op'[d] = o /\ UNCHANGED <<device, stream>>
        /\ o = "write" => offload_state # "PAUSED"
        /\ pc'[d] \in {"inputs", "adev", "pre", "parse"}
        /\ pc'[d] = "adev" => o = "set_mode"
    BY <1>11, <1>d DEF Call, MayCall, FirstLabel, Labels, TypeOK
  <2> QED
    BY <2>1, DriverAside DEF Changing, Half, Stop, Stopping
<1>27. ASSUME Parses(d) PROVE DriverInv(d)'
  <2>1. /\ pc'[d] \in {"idle", "flag"} /\ UNCHANGED <<device, stream, op>>
        /\ pc[d] \in {"parse", "flag"}
    BY <1>27, <1>d DEF Parses, ParseMetadata, ParseFlag, Labels
  <2>2. ~Changing(d)
    BY <2>1 DEF Changing, Half, Stop, Stopping
  <2>3. op[d] = "write" => offload_state # "PAUSED"
    BY <2>1 DEF DriverInv
  <2> QED
    BY <2>1, <2>2, <2>3, DriverAside DEF Changing, Half, Stop, Stopping
\* Steps that change the device or the stream.
<1>e. compr # NULL => compr \in Handles
  BY DEF TypeOK
<1>f. ASSUME UNCHANGED <<device, stream, op>>, pc'[d] = "idle", ~Changing(d)
      PROVE  DriverInv(d)'
  BY <1>f, DriverAside DEF Changing, Half, Stop, Stopping
<1>g. ASSUME Settled', pc'[d] \in {"idle", "pre", "parse"}, op'[d] # "write" \/ pc'[d] = "idle"
      PROVE  DriverInv(d)'
  BY <1>g DEF DriverInv, Changing, Half, Stop, Stopping
<1>12. ASSUME Pause(d) PROVE DriverInv(d)'
  <2>1. pc[d] = "run" /\ op[d] = "pause" /\ op' = op /\ ~Changing(d)
    BY <1>12 DEF Pause, Changing, Half, Stop, Stopping
  <2>2. CASE compr # NULL /\ offload_state = "PLAYING"
    <3>1. Settled
      BY <2>1 DEF DriverInv
    <3>2. /\ ~standby' /\ offload_state' = "PAUSED" /\ uc' = 1 /\ DeviceIs("paused")'
      BY <1>12, <2>2, <3>1, <1>e
         DEF Pause, CompressMove, DevIs, DeviceIs, Settled, Shares, TypeOK
    <3>3. pc'[d] = "adev"
      BY <1>12, <2>2, <1>d DEF Pause, Labels
    <3> QED
      BY <2>1, <3>2, <3>3 DEF DriverInv, Changing, Half, Stop, Stopping
  <2>3. CASE ~(compr # NULL /\ offload_state = "PLAYING")
    BY <1>12, <2>1, <2>3, <1>d, <1>f DEF Pause, Return, Labels
  <2> QED
    BY <2>2, <2>3
<1>13. ASSUME PauseDisable(d) PROVE DriverInv(d)'
  <2>1. /\ ~standby /\ offload_state = "PAUSED" /\ uc = 1 /\ DeviceIs("paused")
        /\ pc'[d] = "idle"
    BY <1>13, <1>d DEF PauseDisable, Half, DriverInv, Return, Labels
  <2>2. Settled'
    BY <1>13, <2>1 DEF PauseDisable, Disabled, Settled, Shares, DeviceIs
  <2> QED
    BY <2>1, <2>2, <1>g
<1>14. ASSUME ResumeEnable(d) PROVE DriverInv(d)'
  <2>1. /\ offload_state = "PAUSED" /\ ~Changing(d) /\ pc'[d] = "idle"
    BY <1>14, <1>d
       DEF ResumeEnable, Half, Changing, Stop, Stopping, DriverInv, Return, Labels
  <2>2. uc = 0 /\ DeviceIs("paused") /\ ~standby /\ compr \in Handles
    BY <2>1, <1>e DEF DriverInv, Settled, Shares, HandleInv
  <2>3. Settled'
    BY <1>14, <2>1, <2>2
       DEF ResumeEnable, Enabled, CompressMove, DevIs, DeviceIs, Settled, Shares, TypeOK
  <2> QED
    BY <2>1, <2>3, <1>g
<1>15. ASSUME Flush(d) PROVE DriverInv(d)'
  <2>1. pc[d] = "run" /\ op[d] = "flush" /\ op' = op /\ ~Changing(d)
    BY <1>15 DEF Flush, Changing, Half, Stop, Stopping
  <2>2. CASE offload_state = "PAUSED"
    <3>1. uc = 0 /\ DeviceIs("paused") /\ ~standby /\ compr \in Handles
      BY <2>1, <2>2, <1>e DEF DriverInv, Settled, Shares, HandleInv
    <3>2. DeviceIs("setup")'
      BY <1>15, <2>2, <3>1, <1>e, OffloadAssumption
         DEF Flush, StopCompressed, CompressStop, DevIs, DeviceIs, TypeOK, OffloadAssumption
    <3>3. pc'[d] = "stopped" /\ UNCHANGED <<standby, offload_state, uc, compr>>
      BY <1>15, <2>2, <1>d DEF Flush, Labels
    <3> QED
      BY <2>1, <2>2, <3>1, <3>2, <3>3 DEF DriverInv, Changing, Half, Stop, Stopping
  <2>3. CASE offload_state # "PAUSED"
    BY <1>15, <2>1, <2>3, <1>d, <1>f DEF Flush, Return, Labels
  <2> QED
    BY <2>2, <2>3
<1>16. ASSUME FlushDone(d) PROVE DriverInv(d)'
  <2>1. /\ ~standby /\ offload_state = "PAUSED" /\ uc = 0 /\ DeviceIs("setup")
        /\ pc'[d] = "idle"
    BY <1>16, <1>d DEF FlushDone, ThreadIsOut, Stop, DriverInv, Return, Labels
  <2>2. Settled'
    BY <1>16, <2>1 DEF FlushDone, device, Settled, Shares, DeviceIs
  <2> QED
    BY <2>1, <2>2, <1>g
\* The device stops; the state and the path stay as they were.
<1>h. ASSUME BeginStandby(d), pc[d] = "hold", op[d] \in {"standby", "close", "route"},
             UNCHANGED <<op, uc, offload_state>>
      PROVE  DriverInv(d)'
  <2>1. ~Changing(d)
    BY <1>h DEF Changing, Half, Stop, Stopping
  <2>2. uc = Shares /\ UNCHANGED Shares
    BY <1>h, <2>1 DEF DriverInv, Settled, Shares
  <2>3. pc'[d] = "stopped"
    BY <1>h, <1>d DEF BeginStandby, Labels
  <2> QED
    BY <1>h, <2>2, <2>3 DEF DriverInv, Changing, Half, Stop, Stopping
<1>17. ASSUME StandbyLocked(d) PROVE DriverInv(d)'
  BY <1>17, <1>h DEF StandbyLocked
<1>18. ASSUME RouteLocked(d) PROVE DriverInv(d)'
  <2>1. CASE BeginStandby(d)
    BY <1>18, <2>1, <1>h DEF RouteLocked
  <2>2. CASE pc' = Goto(d, "parse") /\ UNCHANGED <<standby, dev, told, unstarted>>
    <3>1. ~Changing(d) /\ pc'[d] = "parse" /\ op[d] = "route" /\ op' = op
      BY <1>18, <2>2, <1>d DEF RouteLocked, Labels, Changing, Half, Stop, Stopping
    <3>2. UNCHANGED <<device, stream>>
      BY <1>18, <2>2 DEF RouteLocked
    <3>3. Settled'
      BY <3>1, <3>2, SettledKept DEF DriverInv
    <3> QED
      BY <3>1, <3>3, <1>g
  <2> QED
    BY <1>18, <2>1, <2>2 DEF RouteLocked
<1>19. ASSUME FinishStandby(d) PROVE DriverInv(d)'
  <2>1. standby /\ standby' /\ uc = Shares
    BY <1>19 DEF FinishStandby, ThreadIsOut, Stopping, HandleInv, DriverInv
  <2>2. uc' = 0 /\ offload_state' = "IDLE"
    BY <1>19, <2>1 DEF FinishStandby, StopOutput, Disabled, Shares, Drives
  <2>3. Settled'
    BY <2>1, <2>2 DEF Settled, Shares
  <2>4. \/ pc'[d] = "idle"
        \/ pc'[d] = "parse" /\ op'[d] = "route"
        \/ pc'[d] = "pre" /\ op'[d] = "exit"
    BY <1>19, <1>d DEF FinishStandby, Labels, TypeOK
  <2> QED
    BY <2>3, <2>4, <1>g
<1>20. ASSUME StartOutput(d) PROVE DriverInv(d)'
  <2>1. /\ pc[d] = "hold" /\ op[d] = "write" /\ standby /\ ~Changing(d)
        /\ op' = op /\ offload_state' = offload_state
    BY <1>20 DEF StartOutput, Changing, Half, Stop, Stopping
  <2>2. uc = 0 /\ offload_state = "IDLE"
    BY <2>1 DEF DriverInv, Settled, Shares
  <2>3. ~standby' /\ uc' = 1 /\ DeviceIs("setup")'
    BY <1>20, <2>2 DEF StartOutput, Enabled, DevIs, DeviceIs, TypeOK
  <2>4. pc'[d] = "data"
    BY <1>20, <1>d DEF StartOutput, Labels
  <2> QED
    BY <2>1, <2>2, <2>3, <2>4 DEF DriverInv, Fresh, Changing, Half, Stop, Stopping
<1>21. ASSUME StartFails(d) PROVE DriverInv(d)'
  <2>1. pc[d] = "hold" /\ op[d] = "write" /\ standby /\ standby' /\ ~Changing(d)
    BY <1>21 DEF StartFails, Changing, Half, Stop, Stopping
  <2>2. uc = 0 /\ offload_state = "IDLE"
    BY <2>1 DEF DriverInv, Settled, Shares
  <2>3. uc' = 0 /\ offload_state' = "IDLE"
    BY <1>21, <2>2 DEF StartFails, StopOutput, Disabled, Enabled, Drives
  <2>4. pc'[d] = "pre" /\ op'[d] = "standby"
    BY <1>21, <1>d DEF StartFails, Labels, TypeOK
  <2>5. Settled'
    BY <2>1, <2>3 DEF Settled, Shares
  <2> QED
    BY <2>4, <2>5, <1>g
<1>22. ASSUME WriteEnable(d) PROVE DriverInv(d)'
  <2>1. /\ pc[d] = "hold" /\ op[d] = "write" /\ ~standby /\ ~Changing(d) /\ op' = op
        /\ UNCHANGED <<compr, dev, unstarted, standby, offload_state>>
    BY <1>22 DEF WriteEnable, Changing, Half, Stop, Stopping
  <2>2. uc = 0 /\ offload_state = "PAUSED_FLUSHED" /\ DeviceIs("setup")
    BY <2>1 DEF DriverInv, Settled, Shares, Half
  <2>3. pc'[d] = "put" /\ uc' = 1 /\ DeviceIs("setup")'
    BY <1>22, <2>1, <2>2, <1>d DEF WriteEnable, Enabled, Labels, DeviceIs
  <2> QED
    BY <2>1, <2>2, <2>3 DEF DriverInv, Fresh, Changing, Half, Stop, Stopping
\* The write has its path; whether the device plays already is what matters.
<1>i. ASSUME Ready(d)
      PROVE  \/ offload_state \in {"IDLE", "PAUSED_FLUSHED"} /\ Fresh
             \/ offload_state = "PLAYING" /\ Settled
  <2>1. CASE pc[d] = "put"
    BY <2>1 DEF DriverInv
  <2>2. CASE pc[d] = "data" /\ offload_state # "PAUSED_FLUSHED"
    <3>1. op[d] = "write" /\ offload_state # "PAUSED"
      BY <2>2 DEF DriverInv
    <3>2. offload_state \in {"IDLE", "PLAYING"}
      BY <2>2, <3>1, <1>b DEF States
    <3> QED
      BY <2>2, <3>2 DEF DriverInv
  <2> QED
    BY <1>i, <2>1, <2>2 DEF Ready
<1>28. ASSUME SendMetadata(d) PROVE DriverInv(d)'
  <2>1. /\ pc'[d] = "told" /\ op' = op /\ UNCHANGED <<compr, dev, unstarted, stream>>
    BY <1>28, <1>d DEF SendMetadata, Labels
  <2>2. op[d] = "write" /\ offload_state # "PAUSED"
    BY <1>28 DEF SendMetadata, Ready, DriverInv
  <2>3. /\ Settled' <=> Settled
        /\ Fresh' <=> Fresh
        /\ UNCHANGED offload_state
    BY <2>1 DEF stream, Settled, Shares, Fresh, DeviceIs
  <2>4. \/ offload_state \in {"IDLE", "PAUSED_FLUSHED"} /\ Fresh
        \/ offload_state = "PLAYING" /\ Settled
    BY <1>28, <1>i DEF SendMetadata
  <2> QED
    BY <2>1, <2>2, <2>3, <2>4 DEF DriverInv, Changing, Half, Stop, Stopping
<1>23. ASSUME Put(d) PROVE DriverInv(d)'
  <2>1. ~standby /\ compr \in Handles
    BY <1>23 DEF Put, Ready, HandleInv, TypeOK
  <2>2. \/ offload_state \in {"IDLE", "PAUSED_FLUSHED"} /\ Fresh
        \/ offload_state = "PLAYING" /\ Settled
    BY <1>23, <1>i DEF Put, DriverInv
  <2>3. uc = 1
    BY <2>2 DEF Fresh, Settled, Shares
  <2>4. /\ offload_state # "PLAYING" => DeviceIs("setup")
        /\ offload_state = "PLAYING" => DeviceIs("running")
    BY <2>2 DEF Fresh, Settled
  <2>5. UNCHANGED <<standby, uc, compr>> /\ offload_state' = "PLAYING"
    BY <1>23 DEF Put
  <2>6. DeviceIs("running")'
    <3>1. PICK takes \in BOOLEAN :
            LET starts  == offload_state # "PLAYING"
                written == IF takes /\ dev[compr] = "setup" THEN "prepared" ELSE dev[compr]
            IN  /\ DevIs(compr, IF starts /\ written = "prepared" THEN "running" ELSE written)
                /\ unstarted' = (IF starts THEN written = "setup" ELSE unstarted)
      BY <1>23 DEF Put
    <3>2. CASE offload_state = "PLAYING"
      <4>1. unstarted' = unstarted
        BY <3>1, <3>2
      <4>2. dev'[compr] = IF takes /\ dev[compr] = "setup" THEN "prepared" ELSE dev[compr]
        BY <2>1, <3>1, <3>2 DEF DevIs, TypeOK
      <4> QED
        BY <2>4, <2>5, <3>2, <4>1, <4>2 DEF DeviceIs
    <3>3. CASE offload_state # "PLAYING"
      <4>1. dev[compr] \in {"setup", "prepared"}
        BY <2>4, <3>3 DEF DeviceIs
      <4>2. CASE dev[compr] = "setup" /\ ~takes
        <5>1. unstarted' /\ dev'[compr] = "setup"
          BY <2>1, <3>1, <3>3, <4>2 DEF DevIs, TypeOK
        <5> QED
          BY <2>5, <5>1 DEF DeviceIs
      <4>3. CASE ~(dev[compr] = "setup" /\ ~takes)
        <5>1. ~unstarted' /\ dev'[compr] = "running"
          BY <2>1, <3>1, <3>3, <4>1, <4>3 DEF DevIs, TypeOK
        <5> QED
          BY <2>5, <5>1 DEF DeviceIs
      <4> QED
        BY <4>2, <4>3
    <3> QED
      BY <3>2, <3>3
  <2>7. Settled'
    BY <2>1, <2>3, <2>5, <2>6 DEF Settled, Shares
  <2>8. pc'[d] = "idle"
    <3>1. CASE pc' = SignalOffload(Goto(d, "idle"))
      BY <3>1, SignalOffloadGoto DEF Labels
    <3>2. CASE pc' = Goto(d, "idle")
      BY <3>2, <1>d DEF Labels
    <3> QED
      BY <1>23, <3>1, <3>2 DEF Put
  <2> QED
    BY <2>7, <2>8, <1>g
<1>24. ASSUME Moved(d) PROVE DriverInv(d)'
  BY <1>24, <1>1, <1>2, <1>3, <1>4, <1>5, <1>6, <1>7, <1>8, <1>9, <1>10, <1>11, <1>12,
     <1>13, <1>14, <1>15, <1>16, <1>17, <1>18, <1>19, <1>20, <1>21, <1>22, <1>23,
     <1>27, <1>28 DEF Moved, ClientStep, Parses
<1>25. CASE Woken
  BY <1>25, DriverKept DEF Woken
<1>26. ASSUME NEW e \in Clients \ {d}, Moved(e), Alone(e) PROVE DriverInv(d)'
  <2>1. UNCHANGED <<device, stream>>
    BY <1>26, BystanderActs, MovedActs
  <2> QED
    BY <1>26, <2>1, DriverKept DEF Alone
<1> QED
  BY <1>24, <1>25, <1>26, WhoMoves

LEMMA DriverInit ==
  ASSUME OffloadAssumption, NEW d \in Clients, Init
  PROVE  BystanderInv(d) /\ DriverInv(d)
<1>1. \A c \in Clients : c \in Threads /\ pc[c] = "idle" /\ op[c] = "query"
  BY DEF Init, Threads, OffloadAssumption
<1>2. Settled
  BY DEF Init, Settled, Shares
<1> QED
  BY <1>1, <1>2 DEF BystanderInv, Asides, Outside, DriverInv, Changing, Half, Stop, Stopping

LEMMA Driven ==
  ASSUME NEW CONSTANT d \in Clients, Drives(d)
  PROVE  Spec => [](BystanderInv(d) /\ DriverInv(d))
<1>1. Init => BystanderInv(d) /\ DriverInv(d)
  BY DriverInit, OffloadAssumption
<1>2. Inv /\ BystanderInv(d) /\ DriverInv(d) /\ [Next]_vars
      => (BystanderInv(d) /\ DriverInv(d))'
  BY DriverStep, BystanderStep, OffloadAssumption DEF Inv
<1> QED
  BY <1>1, <1>2, Invariance, PTL DEF Spec

\* When one client drives the stream, its path is on the usecase list once while
\* it plays and not otherwise, and the device runs while the state says PLAYING,
\* unless compress_start was called before the device had any data (3068-3076):
\* out_pause, out_resume, out_flush, out_write (its short and failed writes
\* included) and out_standby balance.
THEOREM PlayingHeard ==
  ASSUME NEW CONSTANT d \in Clients, Drives(d)
  PROVE  Spec => []PlayingIsHeard
<1>1. Inv /\ DriverInv(d) => PlayingIsHeard
  <2> SUFFICES ASSUME Inv, DriverInv(d), Quiet
               PROVE  /\ uc = (IF offload_state = "PLAYING" THEN 1 ELSE 0)
                      /\ offload_state = "PLAYING" /\ ~unstarted => dev[compr] = "running"
    BY DEF PlayingIsHeard
  <2>1. ~InStream(d) /\ pc[d] \notin {"wait", "woken"}
    BY OffloadAssumption DEF Quiet, Inv, LockInv, OffloadAssumption, Threads
  <2>2. ~Changing(d)
    BY <2>1 DEF Changing, InStream, Half, Stop, Stopping
  <2> QED
    BY <2>2 DEF DriverInv, Settled, Shares, DeviceIs
<1> QED
  BY <1>1, Invariance, Driven, PTL

\* What a closed stream leaves behind without any assumption about its callers:
\* everything but the path.
LEMMA ClosedOwnsNothing ==
  ASSUME OffloadAssumption, Inv, OwnInv, CloseInv, closed
  PROVE  /\ pc[OT] = "done" /\ cmds = <<>>
         /\ \A h \in Handles : dev[h] = "closed"
         /\ \A l \in LockNames : locks[l] = Free
<1>1. /\ pc[OT] = "done" /\ standby /\ compr = NULL
      /\ \A c \in Clients : pc[c] = "idle"
  BY DEF CloseInv
<1>2. cmds = <<>>
  BY <1>1 DEF CloseInv
<1>3. \A h \in Handles : dev[h] = "closed"
  BY <1>1 DEF OwnInv, OffloadAssumption
<1>4. \A l \in LockNames : locks[l] = Free
  BY <1>1 DEF CloseInv, Inv, TypeOK, Threads
<1> QED
  BY <1>1, <1>2, <1>3, <1>4

\* adev_close_output_stream leaves no thread, command, open handle, path or held
\* mutex behind; only the path needs the hypothesis on the driver.
THEOREM ClosedClean ==
  ASSUME NEW CONSTANT d \in Clients, Drives(d)
  PROVE  Spec => []ClosedCleanly
<1>1. Inv /\ OwnInv /\ CloseInv /\ DriverInv(d) => ClosedCleanly
  <2> SUFFICES ASSUME Inv, OwnInv, CloseInv, DriverInv(d), closed PROVE uc = 0
    BY ClosedOwnsNothing, OffloadAssumption DEF ClosedCleanly
  <2>1. pc[d] = "idle" /\ standby
    BY DEF CloseInv
  <2>2. Settled
    BY <2>1 DEF DriverInv, Changing, Half, Stop, Stopping
  <2> QED
    BY <2>1, <2>2 DEF Settled, Shares
<1> QED
  BY <1>1, Invariance, Ownership, Closure, Driven, PTL

-----------------------------------------------------------------------------
(* The stream implements PlaybackControl.                                  *)

LEMMA ModeIs ==
  ASSUME TypeOK
  PROVE  /\ standby \/ offload_state = "IDLE" => mode = "standby"
         /\ ~standby /\ offload_state = "PLAYING" => mode = "playing"
         /\ ~standby /\ offload_state = "PAUSED" => mode = "paused"
         /\ ~standby /\ offload_state = "PAUSED_FLUSHED" => mode = "flushed"
BY DEF mode, TypeOK, States

\* What a step must not do behind the back of the mode.
LEMMA ModeKept ==
  ASSUME UNCHANGED <<standby, offload_state>>
  PROVE  mode' = mode
BY DEF mode

LEMMA ModeStep ==
  ASSUME OffloadAssumption, Inv, Inv', NEW d \in Clients, Drives(d), BystanderInv(d),
         DriverInv(d), [Next]_vars
  PROVE  [Control!Next]_mode
<1> USE DEF Inv
<1> DEFINE G == [Control!Next]_mode
<1>t. TypeOK /\ TypeOK'
  BY DEF Inv
<1>m. /\ standby \/ offload_state = "IDLE" => mode = "standby"
      /\ ~standby /\ offload_state = "PLAYING" => mode = "playing"
      /\ ~standby /\ offload_state = "PAUSED" => mode = "paused"
      /\ ~standby /\ offload_state = "PAUSED_FLUSHED" => mode = "flushed"
  BY <1>t, ModeIs
<1>n. /\ standby' \/ offload_state' = "IDLE" => mode' = "standby"
      /\ ~standby' /\ offload_state' = "PLAYING" => mode' = "playing"
      /\ ~standby' /\ offload_state' = "PAUSED" => mode' = "paused"
      /\ ~standby' /\ offload_state' = "PAUSED_FLUSHED" => mode' = "flushed"
  BY <1>t DEF mode, TypeOK, States
<1>o. standby \in BOOLEAN /\ offload_state \in States
  BY DEF TypeOK
<1>s. ASSUME UNCHANGED <<standby, offload_state>> PROVE G
  BY <1>s, ModeKept
<1>b. ASSUME standby' PROVE G
  BY <1>b, <1>n DEF Control!Next, Control!Standby
<1>1. ASSUME UNCHANGED <<device, stream>> PROVE G
  BY <1>1, <1>s DEF stream
<1>2. ASSUME Pause(d) PROVE G
  <2>1. CASE compr # NULL /\ offload_state = "PLAYING"
    <3>1. ~standby
      BY <1>2, <2>1 DEF Pause, DriverInv, Settled, Changing, Half, Stop, Stopping
    <3>2. mode = "playing" /\ mode' = "paused"
      BY <1>2, <2>1, <3>1, <1>m, <1>n DEF Pause
    <3> QED
      BY <3>2 DEF Control!Next, Control!Pause
  <2>2. CASE ~(compr # NULL /\ offload_state = "PLAYING")
    BY <1>2, <2>2, <1>s DEF Pause
  <2> QED
    BY <2>1, <2>2
<1>3. ASSUME ResumeEnable(d) PROVE G
  <2>1. offload_state = "PAUSED" /\ ~Changing(d)
    BY <1>3 DEF ResumeEnable, Half, Changing, Stop, Stopping, DriverInv
  <2>2. ~standby
    BY <2>1 DEF DriverInv, Settled
  <2>3. mode = "paused" /\ mode' = "playing"
    BY <1>3, <2>1, <2>2, <1>m, <1>n DEF ResumeEnable
  <2> QED
    BY <2>3 DEF Control!Next, Control!Resume
<1>4. ASSUME FlushDone(d) PROVE G
  <2>1. ~standby /\ offload_state = "PAUSED"
    BY <1>4 DEF FlushDone, ThreadIsOut, Stop, DriverInv
  <2>2. mode = "paused" /\ mode' = "flushed"
    BY <1>4, <2>1, <1>m, <1>n DEF FlushDone
  <2> QED
    BY <2>2 DEF Control!Next, Control!Flush
<1>5. ASSUME Put(d) PROVE G
  <2>1. ~standby /\ op[d] = "write" /\ pc[d] # "idle"
    BY <1>5 DEF Put, Ready, HandleInv, DriverInv
  <2>2. offload_state # "PAUSED"
    BY <2>1 DEF DriverInv
  <2>3. mode \in {"standby", "playing", "flushed"} /\ mode' = "playing"
    BY <1>5, <2>1, <2>2, <1>m, <1>n, <1>o DEF Put, States
  <2> QED
    BY <2>3 DEF Control!Next, Control!Start
<1>6. ASSUME PauseDisable(d) \/ Flush(d) \/ WriteEnable(d) \/ SendMetadata(d) PROVE G
  BY <1>6, <1>s DEF PauseDisable, Flush, WriteEnable, SendMetadata, stream
<1>7. ASSUME StandbyLocked(d) PROVE G
  BY <1>7, <1>b DEF StandbyLocked, BeginStandby
<1>8. ASSUME RouteLocked(d) PROVE G
  BY <1>8, <1>b, <1>s DEF RouteLocked, BeginStandby
<1>9. ASSUME FinishStandby(d) PROVE G
  BY <1>9, <1>b DEF FinishStandby, ThreadIsOut, Stopping, HandleInv
<1>10. ASSUME StartFails(d) PROVE G
  BY <1>10, <1>b DEF StartFails
\* The stream leaves standby for the framework with its first data only.
<1>11. ASSUME StartOutput(d) PROVE G
  <2>1. standby /\ ~Changing(d)
    BY <1>11 DEF StartOutput, Changing, Half, Stop, Stopping
  <2>2. offload_state = "IDLE"
    BY <2>1 DEF DriverInv, Settled
  <2> QED
    BY <1>11, <2>2, <1>m, <1>n DEF StartOutput
<1>12. ASSUME NEW c \in Clients, Acts(c) PROVE G
  <2>1. c = d
    BY <1>12, BystanderActs
  <2> QED
    BY <1>12, <2>1, <1>2, <1>3, <1>4, <1>5, <1>6, <1>7, <1>8, <1>9, <1>10, <1>11 DEF Acts
<1> QED
  BY <1>1, <1>12, ActsOnly

\* With one driving client every step of the stream is a step of PlaybackControl
\* or leaves its mode alone: the framework never sees a stream that plays from
\* pause without a resume, or one that is flushed without a pause.
THEOREM ControlImplemented ==
  ASSUME NEW CONSTANT d \in Clients, Drives(d)
  PROVE  Spec => ControlSpec
<1>1. Init => Control!Init
  BY DEF Init, Control!Init, mode
<1>2. Inv /\ Inv' /\ BystanderInv(d) /\ DriverInv(d) /\ [Next]_vars => [Control!Next]_mode
  BY ModeStep, OffloadAssumption
<1> QED
  BY <1>1, <1>2, Invariance, Driven, PTL DEF Spec, ControlSpec, Control!Spec
=============================================================================
