----------------------------- MODULE AudioStreams -----------------------------
(* The PCM streams of the audio HAL (audio/hal/audio_hw.c): the primary     *)
(* output and the inputs, their standby, the active input, the routing and  *)
(* the echo reference, as the output's, the input's and the binder's        *)
(* threads call into them.                                                  *)
(*                                                                          *)
(* Mutexes: adev->lock_inputs, then a stream's lock, then adev->lock. What  *)
(* happens under adev->lock never waits, so a section from taking a         *)
(* stream's lock to its release is one step unless the thread transfers     *)
(* samples in between. pre_lock only orders the waiters of a stream's lock. *)
EXTENDS AudioRouting, EchoReference

CONSTANTS
    out,        \* adev->primary_output
    Inputs,     \* input streams
    Hotword,    \* the inputs opened for the hotword (PCM_HOTWORD_STREAMING)
    AecInputs,  \* the inputs the framework attaches an echo canceller to
    Lost,       \* owner of lock_inputs when the call that took it has returned
    Players, Recorders, Binders,    \* threads
    RoutesOut, RoutesIn, InSources  \* what the framework selects

Streams == Inputs \cup {out}
Threads == Players \cup Recorders \cup Binders

ASSUME StreamsAssumption ==
    /\ out \notin Inputs /\ NULL \notin Streams /\ NULL \notin Threads
    /\ Lost \notin Threads /\ Lost # NULL
    /\ Hotword \subseteq Inputs /\ AecInputs \subseteq Inputs \ Hotword
    /\ RoutesOut \subseteq OutDevices /\ RoutesIn \subseteq InDevices
    /\ InSources \subseteq Sources \ {"hotword"}

\* One input at a time has an echo canceller: its reference is the device's.
ASSUME AecAssumption == \A i, j \in AecInputs : i = j

VARIABLES
    pc, arg,        \* where each thread is, and the input its call works on
    lock_inputs, lock,              \* owners of the mutexes
    opened,         \* the inputs that are open
    standby, conf,  \* of each stream, and the configuration of each input
    out_devices, active_input, route,
    echo, in_echo   \* the echo references

adev_vars == <<active_input, route, echo, in_echo>>
stream_vars == <<opened, standby, conf, out_devices>>
lock_vars == <<lock_inputs, lock>>
vars == <<pc, arg, lock_vars, stream_vars, adev_vars>>

InputCalls == {"in_standby", "in_set_parameters", "effect", "close"}
Labels == InputCalls \cup
    {"idle", "write", "start_output", "pick", "transfer", "out_standby",
     "out_set_parameters", "force", "read", "start_input", "started", "in_transfer"}

Conf == [source : Sources, devices : InDevices, enable_aec : BOOLEAN]
Routes == [listed : SUBSET Streams, use : [Streams -> SUBSET Sounds],
           cnt : [Sounds -> Nat], applied : SUBSET Sounds]

TypeOK ==
    /\ pc \in [Threads -> Labels]
    /\ arg \in [Threads -> Inputs \cup {NULL}]
    /\ lock_inputs \in Threads \cup {NULL, Lost}
    /\ lock \in [Streams -> Threads \cup {NULL}]
    /\ opened \subseteq Inputs
    /\ standby \in [Streams -> BOOLEAN]
    /\ conf \in [Inputs -> Conf]
    /\ out_devices \in OutDevices
    /\ active_input \in Inputs \cup {NULL}
    /\ route \in Routes
    /\ echo \in EchoReferences
    /\ in_echo \in [Inputs -> Refs \cup {NULL}]

Init ==
    /\ pc = [t \in Threads |-> "idle"] /\ arg = [t \in Threads |-> NULL]
    /\ lock_inputs = NULL /\ lock = [s \in Streams |-> NULL]
    /\ opened = {} /\ standby = [s \in Streams |-> TRUE]
    /\ conf = [i \in Inputs |->
                  [source |-> "mic", devices |-> "builtin", enable_aec |-> FALSE]]
    /\ out_devices = {"speaker"} /\ active_input = NULL
    /\ route = [listed |-> {}, use |-> [s \in Streams |-> {}],
                cnt |-> [d \in Sounds |-> 0], applied |-> {}]
    /\ echo = [adev |-> NULL, out |-> NULL, synced |-> TRUE, live |-> {}]
    /\ in_echo = [i \in Inputs |-> NULL]

-----------------------------------------------------------------------------
(* Calls, and what the framework keeps to                                   *)

Goto(t, l) == pc' = [pc EXCEPT ![t] = l]
Return(t) == Goto(t, "idle") /\ arg' = [arg EXCEPT ![t] = NULL]

\* A stream is closed when no call on it is in progress, and not used then.
MayCall(i) == i \in opened /\ \A t \in Threads : ~(arg[t] = i /\ pc[t] = "close")
MayClose(i) == i \in opened /\ \A t \in Threads : arg[t] = i => pc[t] = "force"

\* The audio policy records from one input at a time.
MayRead(i) ==
    /\ MayCall(i)
    /\ \A j \in Inputs \ {i} :
          standby[j] /\ \A t \in Recorders : arg[t] # j

Call(t, l, i) ==
    /\ pc[t] = "idle"
    /\ Goto(t, l) /\ arg' = [arg EXCEPT ![t] = i]
    /\ UNCHANGED <<lock_vars, stream_vars, adev_vars>>

CallOutput(t) ==
    \/ t \in Players /\ \E l \in {"write", "out_standby"} : Call(t, l, NULL)
    \/ t \in Binders /\ Call(t, "out_set_parameters", NULL)

CallInput(t) ==
    \E i \in Inputs :
        \/ t \in Recorders /\ MayRead(i) /\ Call(t, "read", i)
        \/ t \in Recorders /\ MayCall(i) /\ Call(t, "in_standby", i)
        \/ t \in Binders /\ MayCall(i) /\ Call(t, "in_set_parameters", i)
        \/ t \in Binders /\ i \in AecInputs /\ MayCall(i) /\ Call(t, "effect", i)
        \/ t \in Binders /\ MayClose(i) /\ Call(t, "close", i)

\* adev->lock_inputs, which every call that may start, stop or close an input
\* takes first.
TakeInputs(t) ==
    /\ pc[t] \in InputCalls \cup {"start_output", "out_set_parameters", "start_input"}
    /\ lock_inputs = NULL /\ lock_inputs' = t
    /\ UNCHANGED <<pc, arg, lock, stream_vars, adev_vars>>

HasBoth(t, s) == lock_inputs = t /\ lock[s] = NULL
Lock(s, t) == lock' = [lock EXCEPT ![s] = t]
Unlock(s) == lock' = [lock EXCEPT ![s] = NULL]

-----------------------------------------------------------------------------
(* Sections under adev->lock                                                *)

\* The output devices that matter to the microphone of configuration c.
Near(c, outs) == IF c.source = "voice_communication" THEN outs ELSE {}

\* select_devices of an input's use case; the hotword has a path of its own.
select_input(r, i, c, outs) ==
    IF i \in Hotword \/ i \notin r.listed THEN r
    ELSE Switch(r, i, {get_input_snd_device(c, Near(c, outs))})

\* select_devices of the output's use case. It selects the microphone of a
\* voice communication again first.
select_output(r, devs, outs) ==
    LET talking == {i \in Inputs \cap r.listed : conf[i].source = "voice_communication"}
        i == CHOOSE j \in talking : TRUE
        s == IF talking = {} THEN r ELSE select_input(r, i, conf[i], outs)
    IN  Switch(s, out, get_output_snd_device(devs))

\* Fault: only a plain microphone is thought to depend on the output.
AffectedMic ==
    IF active_input # NULL /\ conf[active_input].source = "mic" THEN active_input ELSE NULL

\* The active input, if a change of the output may change its microphone.
Affected ==
    IF active_input # NULL /\ conf[active_input].source \in {"voice_communication", "mic"}
    THEN active_input ELSE NULL

\* do_in_standby_l: nothing if it is in standby.
do_in_standby_l(i, r) ==
    IF standby[i] THEN route' = r /\ UNCHANGED <<standby, active_input, echo, in_echo>>
    ELSE /\ standby' = [standby EXCEPT ![i] = TRUE]
         /\ active_input' = NULL
         /\ route' = Unlist(r, i)
         /\ echo' = put_echo_reference(echo, in_echo[i], standby[out])
         /\ in_echo' = [in_echo EXCEPT ![i] = NULL]

\* do_out_standby_l with stop_output_stream, from routing r.
do_out_standby_l(r) ==
    /\ standby' = [standby EXCEPT ![out] = TRUE]
    /\ echo' = GiveBack(echo)
    /\ route' = Unlist(r, out)

-----------------------------------------------------------------------------
(* The output                                                               *)

\* out_write: an output in standby has to be started, with lock_inputs taken
\* before its lock.
WriteEnter(t) ==
    /\ pc[t] = "write" /\ lock[out] = NULL
    /\ IF standby[out] THEN Goto(t, "start_output") /\ UNCHANGED lock
       ELSE Goto(t, "pick") /\ Lock(out, t)
    /\ UNCHANGED <<arg, lock_inputs, stream_vars, adev_vars>>

\* Fault: lock_inputs is given back although an input has to be restarted.
StartOutputUnlocks(t) ==
    /\ pc[t] = "start_output" /\ HasBoth(t, out)
    /\ Lock(out, t) /\ Goto(t, "pick")
    /\ IF standby[out]
       THEN /\ route' = select_output(List(route, out), out_devices, {})
            /\ standby' = [standby EXCEPT ![out] = FALSE]
            /\ echo' = PickUp(echo)
            /\ arg' = [arg EXCEPT ![t] = Affected]
            /\ lock_inputs' = NULL
       ELSE lock_inputs' = NULL /\ UNCHANGED <<route, standby, echo, arg>>
    /\ UNCHANGED <<opened, conf, out_devices, active_input, in_echo>>

\* With both mutexes it looks again. lock_inputs stays locked if the active
\* input has to be restarted.
StartOutput(t) ==
    /\ pc[t] = "start_output" /\ HasBoth(t, out)
    /\ Lock(out, t) /\ Goto(t, "pick")
    /\ IF standby[out]
       THEN /\ route' = select_output(List(route, out), out_devices, {})
            /\ standby' = [standby EXCEPT ![out] = FALSE]
            /\ echo' = PickUp(echo)
            /\ arg' = [arg EXCEPT ![t] = Affected]
            /\ lock_inputs' = IF Affected = NULL THEN NULL ELSE t
       ELSE lock_inputs' = NULL /\ UNCHANGED <<route, standby, echo, arg>>
    /\ UNCHANGED <<opened, conf, out_devices, active_input, in_echo>>

\* The PCM device cannot be opened. out_write ends with out_standby.
StartOutputFails(t) ==
    /\ pc[t] = "start_output" /\ HasBoth(t, out) /\ standby[out]
    /\ route' = Unlist(select_output(List(route, out), out_devices, {}), out)
    /\ lock_inputs' = NULL /\ Goto(t, "out_standby")
    /\ UNCHANGED <<arg, lock, stream_vars, active_input, echo, in_echo>>

\* out_write follows the device's echo reference before it writes.
PickReference(t) ==
    /\ pc[t] = "pick"
    /\ echo' = Refresh(echo) /\ Goto(t, "transfer")
    /\ UNCHANGED <<arg, lock_vars, stream_vars, active_input, route, in_echo>>

\* Samples go to the PCM device and the echo reference.
Transfer(t, ok) ==
    /\ pc[t] = "transfer" /\ Unlock(out)
    /\ IF ~ok THEN Goto(t, "out_standby") /\ UNCHANGED arg
       ELSE IF arg[t] # NULL THEN Goto(t, "force") /\ UNCHANGED arg
       ELSE Return(t)
    /\ UNCHANGED <<lock_inputs, stream_vars, adev_vars>>

\* Before them the speaker's amplifier may have been configured (Amplifier).
\* If the PCM cannot be opened again after that, out_write returns at once and
\* leaves lock_inputs locked if there was an input to restart.
ReopenFails(t) ==
    /\ pc[t] = "transfer" /\ "speaker" \in out_devices
    /\ Unlock(out) /\ Return(t)
    /\ lock_inputs' = IF arg[t] = NULL THEN lock_inputs ELSE Lost
    /\ UNCHANGED <<stream_vars, adev_vars>>

\* out_standby, as a call or at the end of a failed write.
OutStandby(t) ==
    /\ pc[t] = "out_standby" /\ lock[out] = NULL
    /\ IF standby[out] THEN UNCHANGED <<standby, echo, route>> ELSE do_out_standby_l(route)
    /\ IF arg[t] # NULL THEN Goto(t, "force") /\ UNCHANGED arg ELSE Return(t)
    /\ UNCHANGED <<lock_vars, opened, conf, out_devices, active_input, in_echo>>

\* out_set_parameters with a new route: into standby if another PCM device
\* is needed. The input to restart is chosen before.
SetRouting(t, devs) ==
    LET playing == ~standby[out]
        forced == IF playing /\ devs # out_devices THEN Affected ELSE NULL
    IN  /\ pc[t] = "out_set_parameters" /\ HasBoth(t, out)
        /\ out_devices' = devs
        /\ IF ~playing THEN UNCHANGED <<standby, echo, route>>
           ELSE IF PcmsFor(devs) # PcmsFor(out_devices) THEN do_out_standby_l(route)
           ELSE route' = select_output(route, devs, devs) /\ UNCHANGED <<standby, echo>>
        /\ IF forced = NULL THEN Return(t) /\ lock_inputs' = NULL
           ELSE Goto(t, "force") /\ arg' = [arg EXCEPT ![t] = forced] /\ UNCHANGED lock_inputs
        /\ UNCHANGED <<lock, opened, conf, active_input, in_echo>>

\* out_write and out_set_parameters put the input they chose in standby.
ForceInput(t) ==
    /\ pc[t] = "force" /\ lock[arg[t]] = NULL
    /\ do_in_standby_l(arg[t], route)
    /\ lock_inputs' = NULL /\ Return(t)
    /\ UNCHANGED <<lock, opened, conf, out_devices>>

-----------------------------------------------------------------------------
(* The inputs                                                               *)

\* adev_open_input_stream
Open(i, source, dev) ==
    /\ i \notin opened /\ \A t \in Threads : arg[t] # i
    /\ opened' = opened \cup {i}
    /\ standby' = [standby EXCEPT ![i] = TRUE]
    /\ conf' = [conf EXCEPT ![i] =
                   [source |-> source, devices |-> dev, enable_aec |-> FALSE]]
    /\ in_echo' = [in_echo EXCEPT ![i] = NULL]
    /\ UNCHANGED <<pc, arg, lock_vars, out_devices, active_input, route, echo>>

\* in_read, like out_write.
ReadEnter(t) ==
    LET i == arg[t]
    IN  /\ pc[t] = "read" /\ lock[i] = NULL
        /\ IF standby[i] THEN Goto(t, "start_input") /\ UNCHANGED lock
           ELSE Goto(t, "in_transfer") /\ Lock(i, t)
        /\ UNCHANGED <<arg, lock_inputs, stream_vars, adev_vars>>

\* start_input_stream up to the point where the device is opened: the use
\* case with its sound device, and the echo reference.
Selected(i) == select_input(List(route, i), i, conf[i],
                            IF standby[out] THEN {} ELSE out_devices)
TakeReference(i) ==
    IF conf[i].enable_aec /\ in_echo[i] = NULL
    THEN \E r \in Unused(echo, {in_echo[j] : j \in Inputs}) :
            /\ echo' = get_echo_reference(echo, standby[out], r)
            /\ in_echo' = [in_echo EXCEPT ![i] = echo'.adev]
    ELSE UNCHANGED <<echo, in_echo>>

\* standby is cleared later, under the stream's lock alone.
StartInput(t) ==
    LET i == arg[t]
    IN  /\ pc[t] = "start_input" /\ HasBoth(t, i)
        /\ Lock(i, t) /\ lock_inputs' = NULL
        /\ IF standby[i]
           THEN /\ TakeReference(i) /\ route' = Selected(i)
                /\ active_input' = i /\ Goto(t, "started")
           ELSE UNCHANGED adev_vars /\ Goto(t, "in_transfer")
        /\ UNCHANGED <<arg, stream_vars>>

\* The PCM device or the DSP cannot be opened. The echo reference stays.
StartInputFails(t) ==
    LET i == arg[t]
    IN  /\ pc[t] = "start_input" /\ HasBoth(t, i) /\ standby[i]
        /\ TakeReference(i)
        /\ route' = Unlist(Selected(i), i) /\ active_input' = NULL
        /\ lock_inputs' = NULL /\ Goto(t, "in_standby")
        /\ UNCHANGED <<arg, lock, stream_vars>>

\* in_read clears standby when it has given adev->lock and lock_inputs back.
Started(t) ==
    /\ pc[t] = "started"
    /\ standby' = [standby EXCEPT ![arg[t]] = FALSE] /\ Goto(t, "in_transfer")
    /\ UNCHANGED <<arg, lock_vars, opened, conf, out_devices, adev_vars>>

\* Samples come from the PCM device, and from the echo reference if there is
\* one. A failed read ends with in_standby.
InTransfer(t, ok) ==
    /\ pc[t] = "in_transfer" /\ Unlock(arg[t])
    /\ IF ok THEN Return(t) ELSE Goto(t, "in_standby") /\ UNCHANGED arg
    /\ UNCHANGED <<lock_inputs, stream_vars, adev_vars>>

\* in_standby, as a call or at the end of a failed read.
InStandby(t) ==
    /\ pc[t] = "in_standby" /\ HasBoth(t, arg[t])
    /\ do_in_standby_l(arg[t], route)
    /\ lock_inputs' = NULL /\ Return(t)
    /\ UNCHANGED <<lock, opened, conf, out_devices>>

\* in_set_parameters. The framework changes the source of an input only
\* while it does not record.
SetInput(t, source, dev) ==
    LET i == arg[t]
        c == [conf[i] EXCEPT !.source = source, !.devices = dev]
    IN  /\ pc[t] = "in_set_parameters" /\ HasBoth(t, i)
        /\ source = conf[i].source \/ (standby[i] /\ i \notin Hotword)
        /\ i \in Hotword => dev = conf[i].devices
        /\ conf' = [conf EXCEPT ![i] = c]
        /\ IF standby[i] \/ dev = conf[i].devices
           THEN UNCHANGED <<standby, adev_vars>>
           ELSE IF Pcm(dev) # Pcm(conf[i].devices) THEN do_in_standby_l(i, route)
           ELSE /\ route' = select_input(route, i, c, IF standby[out] THEN {} ELSE out_devices)
                /\ UNCHANGED <<standby, active_input, echo, in_echo>>
        /\ lock_inputs' = NULL /\ Return(t)
        /\ UNCHANGED <<lock, opened, out_devices>>

\* add_remove_audio_effect with an echo canceller: a recording input selects
\* its microphone again and goes to standby, to start with what it needs.
AudioEffect(t, enable) ==
    LET i == arg[t]
        c == [conf[i] EXCEPT !.enable_aec = enable]
    IN  /\ pc[t] = "effect" /\ HasBoth(t, i)
        /\ conf[i].enable_aec # enable
        /\ conf' = [conf EXCEPT ![i] = c]
        /\ do_in_standby_l(i, IF standby[i] THEN route
                              ELSE select_input(route, i, c, IF standby[out] THEN {}
                                                             ELSE out_devices))
        /\ lock_inputs' = NULL /\ Return(t)
        /\ UNCHANGED <<lock, opened, out_devices>>

\* adev_close_input_stream: the stream is freed with lock_inputs held.
Close(t) ==
    LET i == arg[t]
    IN  /\ pc[t] = "close" /\ HasBoth(t, i)
        /\ do_in_standby_l(i, route)
        /\ opened' = opened \ {i}
        /\ lock_inputs' = NULL /\ Return(t)
        /\ UNCHANGED <<lock, conf, out_devices>>

-----------------------------------------------------------------------------
OutputStep(t) ==
    \/ WriteEnter(t) \/ StartOutput(t) \/ PickReference(t)
    \/ (\E ok \in BOOLEAN : Transfer(t, ok)) \/ ReopenFails(t)
    \/ OutStandby(t) \/ ForceInput(t)
    \/ \E devs \in RoutesOut : SetRouting(t, devs)

InputStep(t) ==
    \/ ReadEnter(t) \/ StartInput(t) \/ Started(t)
    \/ \E ok \in BOOLEAN : InTransfer(t, ok)
    \/ InStandby(t) \/ Close(t)
    \/ \E source \in InSources \cup {"hotword"}, dev \in RoutesIn : SetInput(t, source, dev)
    \/ \E enable \in BOOLEAN : AudioEffect(t, enable)

\* What a thread does once it has been called; failures are extra.
Step(t) == TakeInputs(t) \/ OutputStep(t) \/ InputStep(t)
Fails(t) == StartOutputFails(t) \/ StartInputFails(t)

OpenInput ==
    \E i \in Inputs :
        \/ i \in Hotword /\ Open(i, "hotword", "builtin")
        \/ i \notin Hotword /\ \E source \in InSources, dev \in RoutesIn : Open(i, source, dev)

\* Whoever needs lock_inputs then waits for ever.
Hung == lock_inputs = Lost /\ UNCHANGED vars

Next ==
    \/ OpenInput \/ Hung
    \/ \E t \in Threads : CallOutput(t) \/ CallInput(t) \/ Step(t) \/ Fails(t)

Spec == Init /\ [][Next]_vars

-----------------------------------------------------------------------------
(* Properties                                                               *)

\* An echo reference that the device, the output or an input has is not
\* released (so it is never used or released after its release), and one
\* that is not released has an owner: the device, or the output after the
\* device has dropped it.
ReferenceOwned ==
    /\ {echo.adev, echo.out} \subseteq echo.live \cup {NULL}
    /\ \A i \in opened : in_echo[i] \in echo.live \cup {NULL}
    /\ echo.live \subseteq {echo.adev} \cup (IF echo.synced THEN {} ELSE {echo.out})

\* The assertion of out_write and out_set_parameters: when they come to put
\* the input they chose in standby, they still have lock_inputs, and it is
\* still open and the active one, whatever other threads did to the inputs.
ForcedInputIsActive ==
    \A t \in Threads : pc[t] = "force" =>
        lock_inputs = t /\ arg[t] \in opened /\ active_input = arg[t]

\* Between calls that change them, a recording voice input has the microphone
\* that belongs to the output's device, and its echo canceller a reference to
\* what plays: it never goes on with what was right before the output
\* started or moved. It does in one case, with lock_inputs locked for ever:
\* when out_write returned at 3201 without restarting it.
InputIsCurrent ==
    lock_inputs = NULL /\ ~standby[out] =>
        \A i \in Inputs \ Hotword :
            ~standby[i] /\ conf[i].source \in {"voice_communication", "mic"} =>
                /\ route.use[i] = {get_input_snd_device(conf[i], Near(conf[i], out_devices))}
                /\ conf[i].enable_aec => in_echo[i] # NULL /\ in_echo[i] = echo.adev

\* The mixer paths applied, and the counters, are those of the use cases in
\* the list, and these are the streams that play, record or are about to:
\* whatever failed or was cut short, no path is kept and none is lost.
PathsMatchUse ==
    /\ \A d \in Sounds :
          /\ route.cnt[d] = Cardinality({s \in route.listed : d \in route.use[s]})
          /\ d \in route.applied <=> route.cnt[d] > 0
    /\ \A s \in Streams :
          s \in route.listed <=>
              ~standby[s] \/ \E t \in Threads : pc[t] = "started" /\ arg[t] = s
=============================================================================
