---------------------------- MODULE OffloadStream ----------------------------
(***************************************************************************)
(* One compress-offloaded output stream of the audio HAL                   *)
(* (audio/hal/audio_hw.c): the calls the framework makes on it, the        *)
(* offload callback thread, the mutexes and the two condition variables    *)
(* that order them, and the compressed device they drive.                  *)
(*                                                                         *)
(* A thread is at a label (pc): what it does next, or the mutex it waits   *)
(* for.  The code between two lock operations is one step, because all the *)
(* state it touches is guarded by the mutexes it holds; what the offload   *)
(* thread does in the driver without the mutex is split into steps.        *)
(***************************************************************************)
EXTENDS Naturals, Sequences, FiniteSets

CONSTANTS Clients,   \* threads of the framework calling the stream
          OT,        \* the offload callback thread
          Handles,   \* compress handles the driver can give out
          NULL,      \* no handle
          Free,      \* owner of a mutex nobody holds
          Allowed,   \* Allowed[c]: the operations client c may call
          Mdata,     \* gapless metadata the framework can set
          Zero,      \* the metadata that are all zero
          FxLib,     \* the visualizer library was found at adev_open
          MaxCmds,   \* bound: commands queued or about to be
          MaxPaths   \* bound: entries of adev->usecase_list for the stream

LockNames == {"lock_inputs", "pre_lock", "lock", "adev"}
Ops       == {"write", "pause", "resume", "flush", "drain", "standby",
              "route", "params", "query", "set_mode", "close"}
Cmds      == {"EXIT", "DRAIN", "PARTIAL_DRAIN", "WAIT_FOR_BUFFER"}
Threads   == Clients \cup {OT}

ASSUME OffloadAssumption ==
    /\ OT \notin Clients
    /\ Free \notin Threads
    /\ NULL \notin Handles
    /\ Zero \in Mdata /\ NULL \notin Mdata
    /\ Allowed \in [Clients -> SUBSET Ops]
    /\ FxLib \in BOOLEAN
    /\ MaxCmds \in Nat /\ MaxPaths \in Nat

VARIABLES
    pc,        \* [Threads -> label]
    op,        \* [Clients -> the operation being executed]
    locks,     \* [LockNames -> owner]
    cmds,      \* out->offload_cmd_list
    cur,       \* the command the offload thread took
    used,      \* the handle the offload thread passed to the driver
    blocked,   \* out->offload_thread_blocked
    compr,     \* out->compr
    dev,       \* [Handles -> state of the compressed device]
    standby,   \* out->standby
    offload_state,
    uc,        \* entries of adev->usecase_list that belong to the stream
    fx,        \* the visualizer was told that the output is active
    send_new_metadata,
    gapless_mdata,
    told,      \* [Handles -> the metadata given since the device was empty]
    raced,     \* history: the flag was set while a write was clearing it
    unstarted, \* history: the last compress_start found nothing written
    closed     \* adev_close_output_stream freed the stream

client == <<pc, op, locks>>
thread == <<cmds, cur, used, blocked>>
device == <<compr, dev, told, unstarted>>
stream == <<standby, offload_state, uc, fx>>
metadata == <<send_new_metadata, gapless_mdata, raced>>
vars   == <<client, thread, device, stream, metadata, closed>>

Labels == {"idle", "inputs", "pre", "lock", "run", "adev", "hold", "data",
           "put", "told", "parse", "flag", "stopped", "wait", "woken", "join",
           "asleep", "call", "track", "driver", "done"}
DevStates == {"closed", "setup", "prepared", "running", "paused"}
States    == {"IDLE", "PLAYING", "PAUSED", "PAUSED_FLUSHED"}

Init ==
    /\ pc = [t \in Threads |-> IF t = OT THEN "pre" ELSE "idle"]
    /\ op = [c \in Clients |-> "query"]
    /\ locks = [l \in LockNames |-> Free]
    /\ cmds = <<>> /\ cur = "EXIT" /\ used = NULL /\ blocked = FALSE
    /\ compr = NULL /\ dev = [h \in Handles |-> "closed"]
    /\ told = [h \in Handles |-> NULL] /\ unstarted = FALSE
    /\ standby = TRUE /\ offload_state = "IDLE" /\ uc = 0 /\ fx = FALSE
    /\ send_new_metadata = TRUE /\ gapless_mdata = Zero /\ raced = FALSE
    /\ closed = FALSE

-----------------------------------------------------------------------------
(* Mutexes and condition variables.                                        *)

Goto(t, label) == [pc EXCEPT ![t] = label]
Unlock(t, ls)  == [l \in LockNames |->
                      IF l \in ls /\ locks[l] = t THEN Free ELSE locks[l]]
UnlockAll(t)   == Unlock(t, LockNames)

\* The call of c ends: it leaves every mutex it still holds.
Return(c) == pc' = Goto(c, "idle") /\ locks' = UnlockAll(c)

\* Fault: the waiter is not signalled.
SignalNobody(p) == {p}

\* pthread_cond_signal(&out->cond) wakes one waiter, if there is one.
SignalCond(p) ==
    LET waiters == {c \in Clients : p[c] = "wait"}
    IN  IF waiters = {} THEN {p} ELSE {[p EXCEPT ![c] = "woken"] : c \in waiters}

\* Fault: the command is queued without a signal.
SignalForgotten(p) == p

\* pthread_cond_signal(&out->offload_cond): only the offload thread waits there.
SignalOffload(p) == IF p[OT] = "asleep" THEN [p EXCEPT ![OT] = "woken"] ELSE p

LockInputs(c) ==
    /\ pc[c] = "inputs" /\ locks["lock_inputs"] = Free
    /\ locks' = [locks EXCEPT !["lock_inputs"] = c]
    /\ pc' = Goto(c, "pre")
    /\ UNCHANGED <<op, thread, device, stream, metadata, closed>>

\* Fault: out->lock is taken without passing through pre_lock.
SkipPre(t) ==
    /\ pc[t] = "pre"
    /\ pc' = Goto(t, "lock")
    /\ UNCHANGED <<op, locks, thread, device, stream, metadata, closed>>

\* lock_output_stream: pre_lock, then lock, then leave pre_lock.
LockPre(t) ==
    /\ pc[t] = "pre" /\ locks["pre_lock"] = Free
    /\ locks' = [locks EXCEPT !["pre_lock"] = t]
    /\ pc' = Goto(t, "lock")
    /\ UNCHANGED <<op, thread, device, stream, metadata, closed>>

LockStream(t) ==
    /\ pc[t] = "lock" /\ locks["lock"] = Free
    /\ locks' = [locks EXCEPT !["lock"] = t, !["pre_lock"] = Free]
    /\ pc' = Goto(t, "run")
    /\ UNCHANGED <<op, thread, device, stream, metadata, closed>>

\* pthread_cond_wait takes out->lock again, without pre_lock.
Relock(t) ==
    /\ pc[t] = "woken" /\ locks["lock"] = Free
    /\ locks' = [locks EXCEPT !["lock"] = t]
    /\ pc' = Goto(t, IF t = OT THEN "run" ELSE "stopped")
    /\ UNCHANGED <<op, thread, device, stream, metadata, closed>>

\* A condition variable may wake a waiter that was not signalled.
Spurious(t) ==
    /\ pc[t] \in {"wait", "asleep"}
    /\ pc' = Goto(t, "woken")
    /\ UNCHANGED <<op, locks, thread, device, stream, metadata, closed>>

LockDevice(c) ==
    /\ pc[c] = "adev" /\ locks["adev"] = Free
    /\ locks' = [locks EXCEPT !["adev"] = c]
    /\ pc' = Goto(c, "hold")
    /\ UNCHANGED <<op, thread, device, stream, metadata, closed>>

-----------------------------------------------------------------------------
(* The driver and the routing, as the stream uses them.                    *)

DevIs(h, state) == dev' = [dev EXCEPT ![h] = state]

\* compress_stop is refused unless the device runs or is paused; the device
\* forgets its data and their metadata.
CompressStop ==
    IF compr # NULL /\ dev[compr] \in {"running", "paused"}
    THEN DevIs(compr, "setup") /\ told' = [told EXCEPT ![compr] = NULL]
    ELSE UNCHANGED <<dev, told>>

\* A step of compress_pause, compress_resume or compress_start, refused when
\* the device is in another state.
CompressMove(from, to) ==
    DevIs(compr, IF dev[compr] = from THEN to ELSE dev[compr])

\* enable_output_path_l and disable_output_path_l on a list with n entries of
\* the stream; disabling is refused with -EINVAL when there is none.
Enabled(n)  == n + 1
Disabled(n) == IF n = 0 THEN 0 ELSE n - 1

\* Fault: a paused stream returns early and stays attached to the visualizer.
StopOutputPausedEarly(n) ==
    IF offload_state \in {"PAUSED", "PAUSED_FLUSHED"}
    THEN uc' = n /\ offload_state' = "IDLE" /\ UNCHANGED fx
    ELSE uc' = Disabled(n) /\ offload_state' = "IDLE" /\ fx' = FALSE

\* stop_output_stream; only a build with the visualizer resets offload_state.
StopOutput(n) ==
    IF FxLib
    THEN /\ fx' = FALSE
         /\ offload_state' = "IDLE"
         /\ uc' = IF offload_state \in {"PAUSED", "PAUSED_FLUSHED"}
                  THEN n ELSE Disabled(n)
    ELSE /\ uc' = Disabled(n)
         /\ UNCHANGED <<fx, offload_state>>

-----------------------------------------------------------------------------
(* The calls of the framework.                                             *)

\* Commands in the queue or that calls in progress may still add.
Pending == Len(cmds) + Cardinality({c \in Clients : pc[c] # "idle"
                                        /\ op[c] \in {"write", "drain"}})

Closing == \E c \in Clients : pc[c] # "idle" /\ op[c] \in {"close", "exit"}

\* What the framework keeps to: it closes a stream once and alone, and it
\* resumes or flushes a paused stream before it writes to it.
MayCall(c, o) ==
    /\ o \in Allowed[c] /\ ~closed /\ ~Closing
    /\ o = "close" => \A d \in Clients : pc[d] = "idle"
    /\ o = "write" => offload_state # "PAUSED" /\ uc < MaxPaths
    /\ o \in {"write", "drain"} => Pending < MaxCmds

FirstLabel(o) == CASE o = "route"    -> "inputs"
                   [] o = "params"   -> "parse"
                   [] o = "set_mode" -> "adev"
                   [] OTHER          -> "pre"

Call(c, o) ==
    /\ pc[c] = "idle" /\ MayCall(c, o)
    /\ op' = [op EXCEPT ![c] = o]
    /\ pc' = Goto(c, FirstLabel(o))
    /\ UNCHANGED <<locks, thread, device, stream, metadata, closed>>

\* out_get_render_position, out_get_presentation_position and
\* out_set_callback: they take the stream's mutex and leave the state alone.
Query(c) ==
    /\ pc[c] = "run" /\ op[c] = "query"
    /\ Return(c)
    /\ UNCHANGED <<op, thread, device, stream, metadata, closed>>

\* adev_set_mode and the other calls that only take adev->lock.
SetMode(c) ==
    /\ pc[c] = "hold" /\ op[c] = "set_mode"
    /\ Return(c)
    /\ UNCHANGED <<op, thread, device, stream, metadata, closed>>

Send(cmd) == cmds' = Append(cmds, cmd)

Drain(c) ==
    /\ pc[c] = "run" /\ op[c] = "drain"
    /\ \E cmd \in {"DRAIN", "PARTIAL_DRAIN"} : Send(cmd)
    /\ pc' = SignalOffload(Goto(c, "idle"))
    /\ locks' = UnlockAll(c)
    /\ UNCHANGED <<op, cur, used, blocked, device, stream, metadata, closed>>

\* out_pause: the device first, then the path under adev->lock.
Pause(c) ==
    /\ pc[c] = "run" /\ op[c] = "pause"
    /\ IF compr # NULL /\ offload_state = "PLAYING"
       THEN /\ CompressMove("running", "paused")
            /\ offload_state' = "PAUSED"
            /\ pc' = Goto(c, "adev")
            /\ UNCHANGED locks
       ELSE Return(c) /\ UNCHANGED <<dev, offload_state>>
    /\ UNCHANGED <<op, thread, compr, told, unstarted, standby, uc, fx, metadata,
                   closed>>

PauseDisable(c) ==
    /\ pc[c] = "hold" /\ op[c] = "pause"
    /\ uc' = Disabled(uc)
    /\ Return(c)
    /\ UNCHANGED <<op, thread, device, standby, offload_state, fx,
                   metadata, closed>>

\* out_resume: the path first, then the device.
Resume(c) ==
    /\ pc[c] = "run" /\ op[c] = "resume"
    /\ IF compr # NULL /\ offload_state = "PAUSED"
       THEN pc' = Goto(c, "adev") /\ UNCHANGED locks
       ELSE Return(c)
    /\ UNCHANGED <<op, thread, device, stream, metadata, closed>>

ResumeEnable(c) ==
    /\ pc[c] = "hold" /\ op[c] = "resume"
    /\ uc' = Enabled(uc)
    /\ CompressMove("paused", "running")
    /\ offload_state' = "PLAYING"
    /\ Return(c)
    /\ UNCHANGED <<op, thread, compr, told, unstarted, standby, fx, metadata,
                   closed>>

\* Fault: the metadata flag is not set again.
StopCompressedQuietly == CompressStop /\ UNCHANGED <<unstarted, metadata>>

\* stop_compressed_output_l up to its wait for the offload thread.
StopCompressed ==
    /\ send_new_metadata' = TRUE
    /\ CompressStop
    /\ UNCHANGED <<unstarted, gapless_mdata, raced>>

\* Fault: a playing stream is flushed as well.
FlushAnyState(c) ==
    /\ pc[c] = "run" /\ op[c] = "flush"
    /\ IF offload_state \in {"PLAYING", "PAUSED"}
       THEN StopCompressed /\ pc' = Goto(c, "stopped") /\ UNCHANGED locks
       ELSE Return(c) /\ UNCHANGED <<dev, told, unstarted, metadata>>
    /\ UNCHANGED <<op, thread, compr, standby, offload_state, uc, fx, closed>>

Flush(c) ==
    /\ pc[c] = "run" /\ op[c] = "flush"
    /\ IF offload_state = "PAUSED"
       THEN StopCompressed /\ pc' = Goto(c, "stopped") /\ UNCHANGED locks
       ELSE Return(c) /\ UNCHANGED <<dev, told, unstarted, metadata>>
    /\ UNCHANGED <<op, thread, compr, standby, offload_state, uc, fx, closed>>

\* The rest of stop_compressed_output_l: while the offload thread is in the
\* driver, wait on out->cond.  Only out->lock is left meanwhile.
AwaitThread(c) ==
    /\ pc[c] = "stopped" /\ compr # NULL /\ blocked
    /\ pc' = Goto(c, "wait") /\ locks' = Unlock(c, {"lock"})
    /\ UNCHANGED <<op, thread, device, stream, metadata, closed>>

\* Fault: the device is closed without waiting for the offload thread.
ThreadNotAwaited(c) == pc[c] = "stopped"

ThreadIsOut(c) == pc[c] = "stopped" /\ ~(compr # NULL /\ blocked)

FlushDone(c) ==
    /\ ThreadIsOut(c) /\ op[c] = "flush"
    /\ offload_state' = "PAUSED_FLUSHED"
    /\ Return(c)
    /\ UNCHANGED <<op, thread, device, standby, uc, fx, metadata,
                   closed>>

\* out_standby; adev_close_output_stream starts with it.
Standby(c) ==
    /\ pc[c] = "run" /\ op[c] \in {"standby", "close"}
    /\ IF ~standby THEN pc' = Goto(c, "adev") /\ UNCHANGED <<op, locks>>
       ELSE IF op[c] = "standby" THEN Return(c) /\ UNCHANGED op
       ELSE /\ op' = [op EXCEPT ![c] = "exit"]
            /\ pc' = Goto(c, "pre") /\ locks' = UnlockAll(c)
    /\ UNCHANGED <<thread, device, stream, metadata, closed>>

\* do_out_standby_l up to the wait for the offload thread.
BeginStandby(c) ==
    /\ standby' = TRUE
    /\ StopCompressed
    /\ pc' = Goto(c, "stopped") /\ UNCHANGED locks

StandbyLocked(c) ==
    /\ pc[c] = "hold" /\ op[c] \in {"standby", "close"}
    /\ BeginStandby(c)
    /\ UNCHANGED <<op, thread, compr, offload_state, uc, fx, closed>>

\* The rest of do_out_standby_l, then the call leaves its mutexes.
FinishStandby(c) ==
    /\ ThreadIsOut(c) /\ op[c] \in {"standby", "close", "route"}
    /\ gapless_mdata' = Zero
    /\ IF compr = NULL THEN UNCHANGED <<compr, dev, told>>
       ELSE /\ compr' = NULL
            /\ DevIs(compr, "closed")
            /\ told' = [told EXCEPT ![compr] = NULL]
    /\ StopOutput(uc)
    /\ locks' = UnlockAll(c)
    /\ IF op[c] = "close"
       THEN op' = [op EXCEPT ![c] = "exit"] /\ pc' = Goto(c, "pre")
       ELSE UNCHANGED op /\ pc' = Goto(c, IF op[c] = "route" THEN "parse" ELSE "idle")
    /\ UNCHANGED <<thread, unstarted, standby, send_new_metadata, raced, closed>>

\* out_set_parameters with a routing value takes adev->lock whatever the state.
Route(c) ==
    /\ pc[c] = "run" /\ op[c] = "route"
    /\ pc' = Goto(c, "adev")
    /\ UNCHANGED <<op, locks, thread, device, stream, metadata, closed>>

\* The new device needs another PCM profile (standby), or only a new route.
\* Either way the call goes on to the metadata, without a mutex.
RouteLocked(c) ==
    /\ pc[c] = "hold" /\ op[c] = "route"
    /\ \/ ~standby /\ uc > 0 /\ BeginStandby(c)
       \/ /\ pc' = Goto(c, "parse") /\ locks' = UnlockAll(c)
          /\ UNCHANGED <<standby, metadata, dev, told, unstarted>>
    /\ UNCHANGED <<op, thread, compr, offload_state, uc, fx, closed>>

\* parse_compress_metadata, at the end of every out_set_parameters: no mutex is
\* held.  The values may be absent; the structure is one value here.
ParseMetadata(c) ==
    /\ pc[c] = "parse"
    /\ \/ pc' = Goto(c, "idle") /\ UNCHANGED gapless_mdata
       \/ pc' = Goto(c, "flag") /\ gapless_mdata' \in Mdata
    /\ UNCHANGED <<op, locks, thread, device, stream, send_new_metadata, raced, closed>>

ParseFlag(c) ==
    /\ pc[c] = "flag"
    /\ send_new_metadata' = TRUE
    /\ raced' = (raced \/ \E d \in Clients : pc[d] = "told")
    /\ pc' = Goto(c, "idle")
    /\ UNCHANGED <<op, locks, thread, device, stream, gapless_mdata, closed>>

\* out_write in standby leaves the stream, takes lock_inputs before it again,
\* and looks at standby once more.
WriteEnter(c) ==
    /\ pc[c] = "run" /\ op[c] = "write"
    /\ \/ /\ standby /\ locks["lock_inputs"] # c
          /\ pc' = Goto(c, "inputs") /\ locks' = Unlock(c, {"lock"})
       \/ /\ standby /\ locks["lock_inputs"] = c
          /\ pc' = Goto(c, "adev") /\ UNCHANGED locks
       \/ /\ ~standby
          /\ pc' = Goto(c, "data") /\ locks' = Unlock(c, {"lock_inputs"})
    /\ UNCHANGED <<op, thread, device, stream, metadata, closed>>

\* start_output_stream opened the device.  lock_inputs stays locked when an
\* input that depends on the output is active.
StartOutput(c) ==
    /\ pc[c] = "hold" /\ op[c] = "write" /\ standby
    /\ \E h \in Handles :
          dev[h] = "closed" /\ compr' = h /\ DevIs(h, "setup")
    /\ uc' = Enabled(uc)
    /\ fx' = (FxLib \/ fx)
    /\ standby' = FALSE /\ unstarted' = FALSE
    /\ pc' = Goto(c, "data")
    /\ \E ls \in {{"adev"}, {"adev", "lock_inputs"}} : locks' = Unlock(c, ls)
    /\ UNCHANGED <<op, thread, told, offload_state, metadata, closed>>

\* The device was not ready: the path goes again, and the call puts the stream
\* in standby, whoever may have started it by then.
StartFails(c) ==
    /\ pc[c] = "hold" /\ op[c] = "write" /\ standby
    /\ compr' = NULL
    /\ StopOutput(Enabled(uc))
    /\ op' = [op EXCEPT ![c] = "standby"]
    /\ pc' = Goto(c, "pre") /\ locks' = UnlockAll(c)
    /\ UNCHANGED <<thread, dev, told, unstarted, standby, metadata, closed>>

\* Fault: the first write after a flush does not enable the path.
WriteFlushedUnrouted(c) ==
    /\ pc[c] = "data" /\ offload_state = "PAUSED_FLUSHED"
    /\ pc' = Goto(c, "put")
    /\ UNCHANGED <<op, locks, thread, device, stream, metadata, closed>>

\* The first write after a flush enables the path that the pause disabled.
WriteFlushed(c) ==
    /\ pc[c] = "data" /\ offload_state = "PAUSED_FLUSHED"
    /\ pc' = Goto(c, "adev")
    /\ UNCHANGED <<op, locks, thread, device, stream, metadata, closed>>

WriteEnable(c) ==
    /\ pc[c] = "hold" /\ op[c] = "write" /\ ~standby
    /\ uc' = Enabled(uc)
    /\ pc' = Goto(c, "put") /\ locks' = Unlock(c, {"adev"})
    /\ UNCHANGED <<op, thread, device, standby, offload_state, fx,
                   metadata, closed>>

\* The path is there: what is left of out_write needs only out->lock.
Ready(c) == \/ pc[c] = "put"
            \/ pc[c] = "data" /\ offload_state # "PAUSED_FLUSHED"

\* compress_set_gapless_metadata, before the flag is cleared.
SendMetadata(c) ==
    /\ Ready(c) /\ send_new_metadata
    /\ told' = [told EXCEPT ![compr] = gapless_mdata]
    /\ raced' = FALSE
    /\ pc' = Goto(c, "told")
    /\ UNCHANGED <<op, locks, thread, compr, dev, unstarted, stream, send_new_metadata,
                   gapless_mdata, closed>>

\* The flag is cleared; compress_write takes data or nothing, and comes back
\* short (a request to wait for room is queued) or not: all, some, nothing for
\* want of room, or an error.  Unless the state says PLAYING, compress_start is
\* called and the state becomes PLAYING whatever both calls returned.
Put(c) ==
    /\ \/ pc[c] = "told"
       \/ Ready(c) /\ ~send_new_metadata
    /\ send_new_metadata' = FALSE
    /\ \E takes, short \in BOOLEAN :
          LET starts  == offload_state # "PLAYING"
              written == IF takes /\ dev[compr] = "setup" THEN "prepared" ELSE dev[compr]
          IN  /\ DevIs(compr, IF starts /\ written = "prepared" THEN "running" ELSE written)
              /\ unstarted' = (IF starts THEN written = "setup" ELSE unstarted)
              /\ IF short
                 THEN Send("WAIT_FOR_BUFFER") /\ pc' = SignalOffload(Goto(c, "idle"))
                 ELSE UNCHANGED cmds /\ pc' = Goto(c, "idle")
    /\ offload_state' = "PLAYING"
    /\ locks' = UnlockAll(c)
    /\ UNCHANGED <<op, cur, used, blocked, compr, told, standby, uc, fx, gapless_mdata,
                   raced, closed>>

\* destroy_offload_callback_thread, after the standby of the close.
SendExit(c) ==
    /\ pc[c] = "run" /\ op[c] = "exit"
    /\ Send("EXIT")
    /\ pc' = SignalOffload(Goto(c, "join")) /\ locks' = UnlockAll(c)
    /\ UNCHANGED <<op, cur, used, blocked, device, stream, metadata, closed>>

\* Fault: the stream is freed without joining its thread.
NoJoin(c) ==
    /\ pc[c] = "join"
    /\ pc' = Goto(c, "idle")
    /\ closed' = TRUE
    /\ UNCHANGED <<op, locks, thread, device, stream, metadata>>

Join(c) ==
    /\ pc[c] = "join" /\ pc[OT] = "done"
    /\ pc' = Goto(c, "idle")
    /\ closed' = TRUE
    /\ UNCHANGED <<op, locks, thread, device, stream, metadata>>

-----------------------------------------------------------------------------
(* offload_thread_loop                                                     *)

\* pthread_cond_wait(&out->offload_cond) on an empty list.
Sleep ==
    /\ pc[OT] = "run" /\ ~blocked /\ cmds = <<>>
    /\ pc' = Goto(OT, "asleep") /\ locks' = UnlockAll(OT)
    /\ UNCHANGED <<op, thread, device, stream, metadata, closed>>

TakeExit ==
    /\ pc[OT] = "run" /\ ~blocked /\ cmds # <<>> /\ Head(cmds) = "EXIT"
    /\ cmds' = <<>>
    /\ pc' \in SignalCond(Goto(OT, "done")) /\ locks' = UnlockAll(OT)
    /\ UNCHANGED <<op, cur, used, blocked, device, stream, metadata, closed>>

\* A command that finds no handle is dropped, without a callback.
DropCommand ==
    /\ pc[OT] = "run" /\ ~blocked /\ cmds # <<>> /\ Head(cmds) # "EXIT"
    /\ compr = NULL
    /\ cmds' = Tail(cmds)
    /\ pc' \in SignalCond(pc)
    /\ UNCHANGED <<op, locks, cur, used, blocked, device, stream, metadata, closed>>

TakeCommand ==
    /\ pc[OT] = "run" /\ ~blocked /\ cmds # <<>> /\ Head(cmds) # "EXIT"
    /\ compr # NULL
    /\ cur' = Head(cmds) /\ cmds' = Tail(cmds)
    /\ blocked' = TRUE
    /\ pc' = Goto(OT, "call") /\ locks' = UnlockAll(OT)
    /\ UNCHANGED <<op, used, device, stream, metadata, closed>>

\* compress_next_track and compress_partial_drain each read out->compr.
NextTrack ==
    /\ pc[OT] = "call" /\ cur = "PARTIAL_DRAIN"
    /\ used' = compr
    /\ pc' = Goto(OT, "track")
    /\ UNCHANGED <<op, locks, cmds, cur, blocked, device, stream, metadata, closed>>

EnterDriver ==
    /\ \/ pc[OT] = "track"
       \/ pc[OT] = "call" /\ cur # "PARTIAL_DRAIN"
    /\ used' = compr
    /\ pc' = Goto(OT, "driver")
    /\ UNCHANGED <<op, locks, cmds, cur, blocked, device, stream, metadata, closed>>

\* The driver returns when the device played or was stopped; a drain of a
\* device that was not started is refused.
LeaveDriver ==
    /\ pc[OT] = "driver"
    /\ \/ dev[used] \in {"running", "setup"}
       \/ dev[used] = "prepared" /\ cur # "WAIT_FOR_BUFFER"
    /\ pc' = Goto(OT, "pre")
    /\ UNCHANGED <<op, locks, thread, device, stream, metadata, closed>>

\* A wait for room in a device that does not play ends only if there is room.
FindRoom ==
    /\ pc[OT] = "driver" /\ cur = "WAIT_FOR_BUFFER"
    /\ dev[used] \in {"prepared", "paused"}
    /\ pc' = Goto(OT, "pre")
    /\ UNCHANGED <<op, locks, thread, device, stream, metadata, closed>>

\* Back under the mutex: waiters on out->cond learn it, the client is called.
Deliver ==
    /\ pc[OT] = "run" /\ blocked
    /\ blocked' = FALSE
    /\ pc' \in SignalCond(pc)
    /\ UNCHANGED <<op, locks, cmds, cur, used, device, stream, metadata, closed>>

-----------------------------------------------------------------------------
ClientStep(c) ==
    \/ LockInputs(c) \/ LockDevice(c) \/ Query(c) \/ SetMode(c) \/ Drain(c)
    \/ Pause(c) \/ PauseDisable(c) \/ Resume(c) \/ ResumeEnable(c)
    \/ Flush(c) \/ AwaitThread(c) \/ FlushDone(c)
    \/ Standby(c) \/ StandbyLocked(c) \/ FinishStandby(c)
    \/ Route(c) \/ RouteLocked(c) \/ ParseMetadata(c) \/ ParseFlag(c)
    \/ WriteEnter(c) \/ StartOutput(c) \/ StartFails(c)
    \/ WriteFlushed(c) \/ WriteEnable(c)
    \/ SendMetadata(c) \/ Put(c)
    \/ SendExit(c) \/ Join(c)

OffloadStep ==
    \/ Sleep \/ TakeExit \/ DropCommand \/ TakeCommand
    \/ NextTrack \/ EnterDriver \/ LeaveDriver \/ Deliver

\* The stream is gone and so is its thread.
Gone == closed /\ UNCHANGED vars

Next ==
    \/ \E c \in Clients, o \in Ops : Call(c, o)
    \/ \E c \in Clients : ClientStep(c)
    \/ \E t \in Threads : LockPre(t) \/ LockStream(t) \/ Relock(t) \/ Spurious(t)
    \/ OffloadStep \/ FindRoom
    \/ Gone

Spec == Init /\ [][Next]_vars

\* A thread that can go on does.  pre_lock makes weak fairness enough for the
\* mutex of the stream; the two contended waits (pre_lock itself, and the way
\* out of a condition variable) rely on the kernel not passing over one thread
\* for ever.  Wake-ups without a signal stop at some time.  The calls of the
\* framework are not fair: it may never come back.  Nor is FindRoom: a device that
\* does not play may stay full.
Fairness ==
    /\ <>[][\A t \in Threads : ~Spurious(t)]_vars
    /\ \A c \in Clients : WF_vars(ClientStep(c) \/ LockStream(c))
    /\ WF_vars(OffloadStep \/ LockStream(OT))
    /\ \A t \in Threads : SF_vars(LockPre(t)) /\ SF_vars(Relock(t))

LiveSpec == Spec /\ Fairness

-----------------------------------------------------------------------------
(* Properties.                                                             *)

TypeOK ==
    /\ pc \in [Threads -> Labels]
    /\ op \in [Clients -> Ops \cup {"exit"}]
    /\ locks \in [LockNames -> Threads \cup {Free}]
    /\ cmds \in Seq(Cmds) /\ cur \in Cmds
    /\ used \in Handles \cup {NULL} /\ compr \in Handles \cup {NULL}
    /\ blocked \in BOOLEAN /\ standby \in BOOLEAN /\ fx \in BOOLEAN
    /\ dev \in [Handles -> DevStates] /\ unstarted \in BOOLEAN
    /\ told \in [Handles -> Mdata \cup {NULL}]
    /\ offload_state \in States
    /\ uc \in Nat
    /\ send_new_metadata \in BOOLEAN /\ gapless_mdata \in Mdata /\ raced \in BOOLEAN
    /\ closed \in BOOLEAN

\* While the offload thread is between dropping out->lock and taking it again,
\* the handle it passes, or passed, to the driver is open and is the stream's
\* own: no standby, route change or failed restart closes it underneath
\* (offload_thread_loop against do_out_standby_l).
HandleLive ==
    /\ pc[OT] \in {"call", "track", "driver"} => compr # NULL /\ dev[compr] # "closed"
    /\ pc[OT] \in {"track", "driver"} => used = compr

\* The stream's mutex is free and nobody left it half way through a stop.
Quiet == /\ locks["lock"] = Free
         /\ \A c \in Clients : pc[c] \notin {"wait", "woken"}

\* Between calls a stream in standby owns nothing, and one that is not owns one
\* handle and is known to the visualizer: no start, failed start, standby or
\* route change leaks a handle or leaves an effect attached.
StandbyOwnsNothing ==
    Quiet => /\ standby <=> compr = NULL
             /\ \A h \in Handles : dev[h] # "closed" <=> h = compr
             /\ FxLib => (fx <=> ~standby)

\* Between calls the stream's path is on the usecase list exactly once while it
\* plays and not at all otherwise, and the device runs while the stream says it
\* plays: the enable and disable calls of pause, resume, flush, write and
\* standby balance in every order, and each write after a stop starts the
\* device.  The one exception is in the code: out_write calls compress_start and
\* says PLAYING although compress_write had taken nothing (3068-3076), and no
\* later write starts the device then.
PlayingIsHeard ==
    Quiet => /\ uc = (IF offload_state = "PLAYING" THEN 1 ELSE 0)
             /\ offload_state = "PLAYING" /\ ~unstarted => dev[compr] = "running"

\* A device with data was given metadata since it was last empty; and while
\* out_write has none to send and out_set_parameters brings none, the open
\* device knows those that were set last, after standbys that zero them as
\* well.  Excepted is the race of the code: parse_compress_metadata takes no
\* mutex, and a flag it sets between out_write's compress_set_gapless_metadata
\* and its reset (3064-3065) is lost.
MetadataFirst ==
    /\ \A h \in Handles : dev[h] \in {"prepared", "running", "paused"} => told[h] # NULL
    /\ /\ ~send_new_metadata /\ ~raced
       /\ \A c \in Clients : pc[c] # "flag"
       => compr = NULL \/ told[compr] = gapless_mdata

\* A closed stream left nothing behind: no thread, command, handle, path or
\* mutex refers to the memory that adev_close_output_stream freed.
ClosedCleanly ==
    closed => /\ pc[OT] = "done" /\ cmds = <<>>
              /\ \A h \in Handles : dev[h] = "closed"
              /\ uc = 0 /\ \A l \in LockNames : locks[l] = Free

\* The order of the mutexes in audio_hw.h: whoever waits for one holds only
\* mutexes that come before it.
Rank == [lock_inputs |-> 1, pre_lock |-> 2, lock |-> 3, adev |-> 4]

Wants(t) == CASE pc[t] = "inputs"            -> {"lock_inputs"}
              [] pc[t] = "pre"               -> {"pre_lock"}
              [] pc[t] \in {"lock", "woken"} -> {"lock"}
              [] pc[t] = "adev"              -> {"adev"}
              [] OTHER                       -> {}

LockOrder ==
    \A t \in Threads : \A w \in Wants(t) : \A l \in LockNames :
        locks[l] = t => Rank[l] < Rank[w]

\* A device that was given data and never started: compress_stop is refused, so
\* nothing gets the offload thread out of a wait for room in it.
Stuck == compr # NULL /\ unstarted /\ dev[compr] = "prepared"

\* A standby, a flush or a route change that stops the device comes back: the
\* thread it waits for gets out of the driver and through the mutex, unless
\* the device was never started.
StopsEnd == \A c \in Clients :
    (pc[c] \in {"stopped", "wait", "woken"}) ~> (pc[c] \in {"idle", "pre", "parse"} \/ Stuck)

\* What the driver answered reaches the client: the offload thread gets the
\* mutex back although the playback thread keeps writing (pre_lock).
AnswerDelivered == (pc[OT] \in {"pre", "lock"}) ~> (pc[OT] = "run")

\* Closing the stream ends its thread, whatever is still queued, with the same
\* exception.
CloseEnds == Closing ~> (closed \/ Stuck)

-----------------------------------------------------------------------------
(* What the framework sees of the stream: PlaybackControl is implemented.  *)

mode == IF standby \/ offload_state = "IDLE" THEN "standby"
        ELSE [PLAYING |-> "playing", PAUSED |-> "paused",
              PAUSED_FLUSHED |-> "flushed"][offload_state]

Control == INSTANCE PlaybackControl
ControlSpec == Control!Spec
=============================================================================
