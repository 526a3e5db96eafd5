-------------------------- MODULE AudioStreamsProofs --------------------------
(***************************************************************************)
(* The streams of the audio HAL, for any threads, inputs and references:   *)
(* types, who owns which mutex, the input to restart, the echo reference,  *)
(* the counters of the sound devices, the microphone of a recording input. *)
(***************************************************************************)
EXTENDS AudioStreams, FiniteSetTheorems, TLAPS

-----------------------------------------------------------------------------
(* The operators on routings and echo references keep the types.           *)

LEMMA SwitchTyped ==
    ASSUME NEW r \in Routes, NEW s \in Streams, NEW S \in SUBSET Sounds
    PROVE  Switch(r, s, S) \in Routes
<1>1. ASSUME NEW q \in Routes, NEW T \in SUBSET Sounds
      PROVE  enable_snd_device(q, T) \in Routes /\ disable_snd_device(q, T) \in Routes
  <2>1. q.cnt \in [Sounds -> Nat] BY DEF Routes
  <2>2. [d \in Sounds |-> IF d \in T THEN q.cnt[d] + 1 ELSE q.cnt[d]] \in [Sounds -> Nat]
    BY <2>1
  <2>3. LET held == {d \in T : q.cnt[d] > 0} IN
        [d \in Sounds |-> IF d \in held THEN q.cnt[d] - 1 ELSE q.cnt[d]] \in [Sounds -> Nat]
    BY <2>1
  <2> QED BY <2>2, <2>3 DEF Routes, enable_snd_device, disable_snd_device
<1>2. r.use[s] \in SUBSET Sounds BY DEF Routes
<1>3. enable_snd_device(disable_snd_device(r, r.use[s]), S) \in Routes
  BY <1>1, <1>2
<1> QED BY <1>3 DEF Switch, Routes

LEMMA ListTyped ==
    ASSUME NEW r \in Routes, NEW s \in Streams
    PROVE  List(r, s) \in Routes /\ Unlist(r, s) \in Routes
<1>1. r.use[s] \in SUBSET Sounds /\ r.cnt \in [Sounds -> Nat] BY DEF Routes
<1>2. LET held == {d \in r.use[s] : r.cnt[d] > 0} IN
      [d \in Sounds |-> IF d \in held THEN r.cnt[d] - 1 ELSE r.cnt[d]] \in [Sounds -> Nat]
  BY <1>1
<1>3. disable_snd_device(r, r.use[s]) \in Routes
  BY <1>1, <1>2 DEF Routes, disable_snd_device
<1> QED BY <1>3 DEF Routes, List, Unlist

LEMMA SoundsTyped ==
    /\ \A devs : get_output_snd_device(devs) \in SUBSET Sounds
    /\ \A c : \A outs : {get_input_snd_device(c, outs)} \in SUBSET Sounds
<1>1. \A devs : get_output_snd_device(devs) \in SUBSET Sounds
  BY DEF get_output_snd_device, Sounds, OutSounds
<1>2. \A c : \A outs : get_input_snd_device(c, outs) \in Sounds
  BY DEF get_input_snd_device, Sounds, InSounds
<1> QED BY <1>1, <1>2

LEMMA SelectTyped ==
    ASSUME NEW r \in Routes
    PROVE  /\ \A i \in Inputs : \A c : \A outs : select_input(r, i, c, outs) \in Routes
           /\ \A devs : \A outs : select_output(r, devs, outs) \in Routes
<1>1. \A i \in Inputs : \A c : \A outs : select_input(r, i, c, outs) \in Routes
  BY SoundsTyped, SwitchTyped DEF select_input, Streams
<1>2. ASSUME NEW devs, NEW outs
      PROVE  select_output(r, devs, outs) \in Routes
  <2> DEFINE talking == {i \in Inputs \cap r.listed : conf[i].source = "voice_communication"}
             i == CHOOSE j \in talking : TRUE
             s == IF talking = {} THEN r ELSE select_input(r, i, conf[i], outs)
  <2>1. s \in Routes
    <3>1. CASE talking = {} BY <3>1
    <3>2. CASE talking # {}
      <4>1. i \in talking BY <3>2
      <4>2. i \in Inputs BY <4>1
      <4> HIDE DEF i, talking
      <4> QED BY <1>1, <3>2, <4>2
    <3> QED BY <3>1, <3>2
  <2>2. out \in Streams BY DEF Streams
  <2> HIDE DEF s
  <2>3. Switch(s, out, get_output_snd_device(devs)) \in Routes
    BY <2>1, <2>2, SoundsTyped, SwitchTyped
  <2> QED BY <2>3 DEF select_output, s
<1> QED BY <1>1, <1>2

\* What the operators on the echo reference do to its type.
LEMMA EchoTyped ==
    ASSUME NEW e \in EchoReferences
    PROVE  /\ \A ref : \A sb : put_echo_reference(e, ref, sb) \in EchoReferences
           /\ \A r \in Refs : \A sb : get_echo_reference(e, sb, r) \in EchoReferences
           /\ PickUp(e) \in EchoReferences /\ Refresh(e) \in EchoReferences
           /\ GiveBack(e) \in EchoReferences
<1>1. \A ref : \A sb : put_echo_reference(e, ref, sb) \in EchoReferences
  BY DEF put_echo_reference, EchoReferences
<1>2. \A r \in Refs : \A sb : get_echo_reference(e, sb, r) \in EchoReferences
  BY <1>1 DEF get_echo_reference, EchoReferences
<1>3. /\ PickUp(e) \in EchoReferences /\ Refresh(e) \in EchoReferences
      /\ GiveBack(e) \in EchoReferences
  BY DEF PickUp, Refresh, GiveBack, EchoReferences
<1> QED BY <1>1, <1>2, <1>3

-----------------------------------------------------------------------------
(* The invariant                                                           *)

OutLabels == {"pick", "transfer", "out_standby"}
InLabels == InputCalls \cup {"read", "start_input", "started", "in_transfer"}

\* The streams whose lock thread t has.
Held(t) == {s \in Streams : \/ s = out /\ pc[t] \in {"pick", "transfer"}
                            \/ s = arg[t] /\ pc[t] \in {"started", "in_transfer"}}

\* A mutex has an owner that is in a call that will release it; only the
\* owner of lock_inputs may be waiting, for the lock of a stream.
Owners ==
    /\ \A t \in Threads : lock_inputs = t =>
          \/ pc[t] \in InputCalls \cup {"start_output", "out_set_parameters",
                                        "start_input", "force"}
          \/ pc[t] \in OutLabels /\ arg[t] # NULL
    /\ \A t \in Threads, s \in Streams : lock[s] = t <=> s \in Held(t)

\* Calls work on open inputs, and nothing else is in an input that is closed.
Args ==
    /\ \A t \in Threads :
          /\ pc[t] \in InLabels => arg[t] \in opened
          /\ pc[t] \in {"idle", "write", "start_output", "out_set_parameters"} => arg[t] = NULL
          /\ pc[t] = "effect" => arg[t] \in AecInputs
    /\ \A t, u \in Threads :
          pc[t] = "close" /\ u # t /\ arg[u] = arg[t] => pc[u] \in OutLabels \cup {"force"}

\* The active input is open, and runs or is about to.
ActiveRuns ==
    active_input # NULL =>
        /\ active_input \in opened
        /\ \/ ~standby[active_input]
           \/ \E u \in Threads : pc[u] = "started" /\ arg[u] = active_input

\* A thread that has chosen an input to restart keeps lock_inputs until it
\* has put it in standby, and the input stays the active one.
Forced ==
    \A t \in Threads :
        pc[t] = "force" \/ (pc[t] \in OutLabels /\ arg[t] # NULL) =>
            arg[t] # NULL /\ lock_inputs = t /\ active_input = arg[t]

Inv == TypeOK /\ Owners /\ Args /\ ActiveRuns /\ Forced

-----------------------------------------------------------------------------
(* Types                                                                   *)

LEMMA InStandbyTyped ==
    ASSUME TypeOK, NEW i \in Inputs, NEW r \in Routes, do_in_standby_l(i, r)
    PROVE  /\ route' \in Routes /\ standby' \in [Streams -> BOOLEAN]
           /\ active_input' \in Inputs \cup {NULL}
           /\ echo' \in EchoReferences /\ in_echo' \in [Inputs -> Refs \cup {NULL}]
<1>1. i \in Streams BY DEF Streams
<1>2. Unlist(r, i) \in Routes BY <1>1, ListTyped
<1>3. put_echo_reference(echo, in_echo[i], standby[out]) \in EchoReferences
  BY EchoTyped DEF TypeOK
<1> QED BY <1>2, <1>3 DEF do_in_standby_l, TypeOK

LEMMA OutStandbyTyped ==
    ASSUME TypeOK, NEW r \in Routes, do_out_standby_l(r)
    PROVE  /\ route' \in Routes /\ standby' \in [Streams -> BOOLEAN]
           /\ echo' \in EchoReferences
<1>1. out \in Streams BY DEF Streams
<1>2. Unlist(r, out) \in Routes BY <1>1, ListTyped
<1>3. GiveBack(echo) \in EchoReferences BY EchoTyped DEF TypeOK
<1> QED BY <1>2, <1>3 DEF do_out_standby_l, TypeOK

LEMMA OutputTypes ==
    ASSUME TypeOK, Forced, NEW t \in Threads, OutputStep(t) \/ StartOutputFails(t)
    PROVE  TypeOK'
<1>1. CASE WriteEnter(t)
  BY <1>1 DEF WriteEnter, TypeOK, Goto, Lock, Labels, stream_vars, adev_vars
<1>2. select_output(List(route, out), out_devices, {}) \in Routes
  BY ListTyped, SelectTyped DEF TypeOK, Streams
<1>3. CASE StartOutput(t)
  <2>1. Affected \in Inputs \cup {NULL} BY DEF Affected, TypeOK
  <2>2. PickUp(echo) \in EchoReferences BY EchoTyped DEF TypeOK
  <2>3. out \in Streams BY DEF Streams
  <2> QED BY <1>2, <1>3, <2>1, <2>2, <2>3 DEF StartOutput, TypeOK, Goto, Lock, Labels
<1>4. CASE StartOutputFails(t)
  <2>1. Unlist(select_output(List(route, out), out_devices, {}), out) \in Routes
    BY <1>2, ListTyped DEF Streams
  <2> QED BY <1>4, <2>1 DEF StartOutputFails, TypeOK, Goto, Labels, stream_vars
<1>5. CASE PickReference(t)
  <2>1. Refresh(echo) \in EchoReferences BY EchoTyped DEF TypeOK
  <2> QED BY <1>5, <2>1 DEF PickReference, TypeOK, Goto, Labels, lock_vars, stream_vars
<1>6. CASE (\E ok \in BOOLEAN : Transfer(t, ok)) \/ ReopenFails(t)
  BY <1>6, StreamsAssumption
  DEF Transfer, ReopenFails, TypeOK, Goto, Return, Unlock, Labels, stream_vars, adev_vars
<1>7. CASE OutStandby(t)
  <2>1. CASE standby[out]
    BY <1>7, <2>1 DEF OutStandby, TypeOK, Goto, Return, Labels, lock_vars
  <2>2. CASE ~standby[out]
    <3>1. do_out_standby_l(route) BY <1>7, <2>2 DEF OutStandby
    <3>2. route \in Routes BY DEF TypeOK
    <3> QED BY <1>7, <3>1, <3>2, OutStandbyTyped
            DEF OutStandby, TypeOK, Goto, Return, Labels, lock_vars
  <2> QED BY <2>1, <2>2
<1>8. CASE ForceInput(t)
  <2>1. arg[t] \in Inputs /\ route \in Routes
    BY <1>8 DEF ForceInput, Forced, TypeOK
  <2>2. do_in_standby_l(arg[t], route) BY <1>8 DEF ForceInput
  <2> QED BY <1>8, <2>1, <2>2, InStandbyTyped
          DEF ForceInput, TypeOK, Goto, Return, Labels
<1>9. CASE \E devs \in RoutesOut : SetRouting(t, devs)
  <2>1. PICK devs \in RoutesOut : SetRouting(t, devs) BY <1>9
  <2>2. /\ route' \in Routes /\ standby' \in [Streams -> BOOLEAN]
        /\ echo' \in EchoReferences
    <3>1. route \in Routes BY DEF TypeOK
    <3>2. select_output(route, devs, devs) \in Routes BY <3>1, SelectTyped
    <3>3. CASE do_out_standby_l(route) BY <3>1, <3>3, OutStandbyTyped
    <3>4. CASE ~do_out_standby_l(route) BY <2>1, <3>1, <3>2, <3>4 DEF SetRouting, TypeOK
    <3> QED BY <3>3, <3>4
  <2>3. Affected \in Inputs \cup {NULL} BY DEF Affected, TypeOK
  <2>4. devs \in OutDevices BY StreamsAssumption
  <2>5. pc' \in [Threads -> Labels] /\ arg' \in [Threads -> Inputs \cup {NULL}]
    BY <2>1, <2>3 DEF SetRouting, TypeOK, Goto, Return, Labels
  <2> QED BY <2>1, <2>2, <2>4, <2>5 DEF SetRouting, TypeOK
<1> QED BY <1>1, <1>3, <1>4, <1>5, <1>6, <1>7, <1>8, <1>9 DEF OutputStep

\* The routing with the use case of an input, and its echo reference.
LEMMA StartTyped ==
    ASSUME TypeOK, NEW i \in Inputs
    PROVE  /\ Selected(i) \in Routes /\ Unlist(Selected(i), i) \in Routes
           /\ TakeReference(i) => /\ echo' \in EchoReferences
                                 /\ in_echo' \in [Inputs -> Refs \cup {NULL}]
<1>1. i \in Streams /\ route \in Routes BY DEF Streams, TypeOK
<1>2. Selected(i) \in Routes
  BY <1>1, ListTyped, SelectTyped DEF Selected
<1>3. ASSUME TakeReference(i)
      PROVE  echo' \in EchoReferences /\ in_echo' \in [Inputs -> Refs \cup {NULL}]
  <2>1. CASE UNCHANGED <<echo, in_echo>> BY <2>1 DEF TypeOK
  <2>2. CASE ~UNCHANGED <<echo, in_echo>>
    <3>1. PICK r \in Refs : /\ echo' = get_echo_reference(echo, standby[out], r)
                            /\ in_echo' = [in_echo EXCEPT ![i] = echo'.adev]
      BY <1>3, <2>2 DEF TakeReference, Unused
    <3>2. echo' \in EchoReferences BY <3>1, EchoTyped DEF TypeOK
    <3>3. echo'.adev \in Refs \cup {NULL} BY <3>2 DEF EchoReferences
    <3> QED BY <3>1, <3>2, <3>3 DEF TypeOK
  <2> QED BY <2>1, <2>2
<1> QED BY <1>1, <1>2, <1>3, ListTyped

LEMMA InputTypes ==
    ASSUME TypeOK, Args, NEW t \in Threads, InputStep(t) \/ StartInputFails(t)
    PROVE  TypeOK'
<1>0. pc[t] \in InLabels => arg[t] \in Inputs BY DEF Args, TypeOK
<1>1. CASE ReadEnter(t)
  BY <1>0, <1>1 DEF ReadEnter, TypeOK, Goto, Lock, Labels, stream_vars, adev_vars
<1>2. CASE StartInput(t)
  <2>1. arg[t] \in Inputs BY <1>0, <1>2 DEF StartInput, InLabels
  <2> QED BY <1>2, <2>1, StartTyped
          DEF StartInput, TypeOK, Goto, Lock, Labels, stream_vars, adev_vars
<1>3. CASE StartInputFails(t)
  <2>1. arg[t] \in Inputs BY <1>0, <1>3 DEF StartInputFails, InLabels
  <2> QED BY <1>3, <2>1, StartTyped
          DEF StartInputFails, TypeOK, Goto, Labels, InputCalls, stream_vars
<1>4. CASE Started(t)
  BY <1>4 DEF Started, TypeOK, Goto, Labels, lock_vars, adev_vars
<1>5. CASE \E ok \in BOOLEAN : InTransfer(t, ok)
  BY <1>5 DEF InTransfer, TypeOK, Goto, Return, Unlock, Labels, InputCalls,
              stream_vars, adev_vars
<1>6. CASE InStandby(t)
  <2>1. arg[t] \in Inputs /\ route \in Routes
    BY <1>0, <1>6 DEF InStandby, InLabels, InputCalls, TypeOK
  <2>2. do_in_standby_l(arg[t], route) BY <1>6 DEF InStandby
  <2> QED BY <1>6, <2>1, <2>2, InStandbyTyped
          DEF InStandby, TypeOK, Goto, Return, Labels
<1>7. CASE Close(t)
  <2>1. arg[t] \in Inputs /\ route \in Routes
    BY <1>0, <1>7 DEF Close, InLabels, InputCalls, TypeOK
  <2>2. do_in_standby_l(arg[t], route) BY <1>7 DEF Close
  <2> QED BY <1>7, <2>1, <2>2, InStandbyTyped
          DEF Close, TypeOK, Goto, Return, Labels
<1>8. CASE \E source \in InSources \cup {"hotword"}, dev \in RoutesIn :
             SetInput(t, source, dev)
  <2>1. PICK source \in InSources \cup {"hotword"}, dev \in RoutesIn :
               SetInput(t, source, dev)
    BY <1>8
  <2>2. arg[t] \in Inputs /\ route \in Routes
    BY <1>0, <2>1 DEF SetInput, InLabels, InputCalls, TypeOK
  <2> DEFINE c == [conf[arg[t]] EXCEPT !.source = source, !.devices = dev]
  <2>3. c \in Conf /\ conf' = [conf EXCEPT ![arg[t]] = c]
    <3>1. conf[arg[t]] \in Conf BY <2>2 DEF TypeOK
    <3>2. source \in Sources /\ dev \in InDevices BY StreamsAssumption DEF Sources
    <3>3. c \in Conf BY <3>1, <3>2 DEF Conf
    <3>4. conf' = [conf EXCEPT ![arg[t]] = c] BY <2>1 DEF SetInput
    <3> QED BY <3>3, <3>4
  <2>4. conf' \in [Inputs -> Conf] BY <2>2, <2>3 DEF TypeOK
  <2>5. /\ route' \in Routes /\ standby' \in [Streams -> BOOLEAN]
        /\ active_input' \in Inputs \cup {NULL}
        /\ echo' \in EchoReferences /\ in_echo' \in [Inputs -> Refs \cup {NULL}]
    <3>1. CASE do_in_standby_l(arg[t], route) BY <2>2, <3>1, InStandbyTyped
    <3>2. CASE ~do_in_standby_l(arg[t], route)
      BY <2>1, <2>2, <3>2, SelectTyped DEF SetInput, TypeOK, adev_vars
    <3> QED BY <3>1, <3>2
  <2> QED BY <2>1, <2>4, <2>5 DEF SetInput, TypeOK, Goto, Return, Labels
<1>9. CASE \E enable \in BOOLEAN : AudioEffect(t, enable)
  <2>1. PICK enable \in BOOLEAN : AudioEffect(t, enable) BY <1>9
  <2>2. arg[t] \in Inputs /\ route \in Routes
    BY <1>0, <2>1 DEF AudioEffect, InLabels, InputCalls, TypeOK
  <2> DEFINE c == [conf[arg[t]] EXCEPT !.enable_aec = enable]
             r == IF standby[arg[t]] THEN route
                  ELSE select_input(route, arg[t], c, IF standby[out] THEN {} ELSE out_devices)
  <2>3. c \in Conf /\ conf' = [conf EXCEPT ![arg[t]] = c]
    BY <2>1, <2>2 DEF AudioEffect, TypeOK, Conf
  <2>4. conf' \in [Inputs -> Conf] BY <2>2, <2>3 DEF TypeOK
  <2>5. r \in Routes BY <2>2, SelectTyped
  <2>6. do_in_standby_l(arg[t], r) BY <2>1 DEF AudioEffect
  <2> HIDE DEF r
  <2>7. /\ route' \in Routes /\ standby' \in [Streams -> BOOLEAN]
        /\ active_input' \in Inputs \cup {NULL}
        /\ echo' \in EchoReferences /\ in_echo' \in [Inputs -> Refs \cup {NULL}]
    BY <2>2, <2>5, <2>6, InStandbyTyped
  <2> QED BY <2>1, <2>4, <2>7 DEF AudioEffect, TypeOK, Goto, Return, Labels
<1> QED BY <1>1, <1>2, <1>3, <1>4, <1>5, <1>6, <1>7, <1>8, <1>9 DEF InputStep

LEMMA CallTypes ==
    ASSUME TypeOK, NEW t \in Threads, CallOutput(t) \/ CallInput(t) \/ TakeInputs(t)
    PROVE  TypeOK'
<1>1. ASSUME NEW l \in Labels, NEW i \in Inputs \cup {NULL}, Call(t, l, i)
      PROVE  TypeOK'
  BY <1>1 DEF Call, Goto, TypeOK, lock_vars, stream_vars, adev_vars
<1>2. CASE CallOutput(t)
  <2>1. "write" \in Labels /\ "out_standby" \in Labels /\ "out_set_parameters" \in Labels
    BY DEF Labels
  <2> QED BY <1>1, <1>2, <2>1 DEF CallOutput
<1>3. CASE CallInput(t)
  <2>1. InputCalls \cup {"read"} \subseteq Labels BY DEF Labels
  <2> QED BY <1>1, <1>3, <2>1 DEF CallInput, InputCalls
<1>4. CASE TakeInputs(t)
  BY <1>4 DEF TakeInputs, TypeOK, stream_vars, adev_vars
<1> QED BY <1>2, <1>3, <1>4

LEMMA OpenTypes == TypeOK /\ OpenInput => TypeOK'
<1> SUFFICES ASSUME TypeOK, NEW i \in Inputs, NEW source \in Sources, NEW dev \in InDevices,
                    Open(i, source, dev)
             PROVE  TypeOK'
  BY StreamsAssumption DEF OpenInput, Sources, InDevices
<1>1. [source |-> source, devices |-> dev, enable_aec |-> FALSE] \in Conf BY DEF Conf
<1> QED BY <1>1 DEF Open, TypeOK, lock_vars, Streams

-----------------------------------------------------------------------------
(* Who owns which mutex, and what the calls work on                        *)

LEMMA OutputKeeps ==
    ASSUME Inv, NEW t \in Threads, OutputStep(t) \/ StartOutputFails(t)
    PROVE  Owners' /\ Args' /\ ActiveRuns' /\ Forced'
<1> USE StreamsAssumption DEF Inv, TypeOK, Streams, InLabels, InputCalls, OutLabels,
        Goto, Return, Lock, Unlock, HasBoth, lock_vars, stream_vars, adev_vars
<1>1. CASE WriteEnter(t)
  <2>1. Owners' BY <1>1 DEF Owners, Held, Forced, Args, WriteEnter
  <2>2. Args' BY <1>1 DEF Args, Forced, WriteEnter
  <2>3. ActiveRuns' BY <1>1 DEF ActiveRuns, WriteEnter
  <2>4. Forced' BY <1>1 DEF Forced, Owners, Args, WriteEnter
  <2> QED BY <2>1, <2>2, <2>3, <2>4
<1>2. CASE StartOutput(t)
  <2>1. Owners' BY <1>2 DEF Owners, Held, Forced, Args, StartOutput, Affected
  <2>2. Args' BY <1>2 DEF Args, Forced, StartOutput, Affected
  <2>3. ActiveRuns' BY <1>2 DEF ActiveRuns, StartOutput, Affected
  <2>4. Forced' BY <1>2 DEF Forced, Owners, Args, StartOutput, Affected
  <2> QED BY <2>1, <2>2, <2>3, <2>4
<1>3. CASE StartOutputFails(t)
  <2>1. Owners' BY <1>3 DEF Owners, Held, Forced, Args, StartOutputFails
  <2>2. Args' BY <1>3 DEF Args, Forced, StartOutputFails
  <2>3. ActiveRuns' BY <1>3 DEF ActiveRuns, StartOutputFails
  <2>4. Forced' BY <1>3 DEF Forced, Owners, Args, StartOutputFails
  <2> QED BY <2>1, <2>2, <2>3, <2>4
<1>4. CASE PickReference(t)
  <2>1. Owners' BY <1>4 DEF Owners, Held, Forced, Args, PickReference
  <2>2. Args' BY <1>4 DEF Args, Forced, PickReference
  <2>3. ActiveRuns' BY <1>4 DEF ActiveRuns, PickReference
  <2>4. Forced' BY <1>4 DEF Forced, Owners, Args, PickReference
  <2> QED BY <2>1, <2>2, <2>3, <2>4
<1>5. CASE (\E ok \in BOOLEAN : Transfer(t, ok)) \/ ReopenFails(t)
  <2>1. Owners' BY <1>5 DEF Owners, Held, Forced, Args, Transfer, ReopenFails
  <2>2. Args' BY <1>5 DEF Args, Forced, Transfer, ReopenFails
  <2>3. ActiveRuns' BY <1>5 DEF ActiveRuns, Transfer, ReopenFails
  <2>4. Forced' BY <1>5 DEF Forced, Owners, Args, Transfer, ReopenFails
  <2> QED BY <2>1, <2>2, <2>3, <2>4
<1>6. CASE OutStandby(t)
  <2>1. Owners' BY <1>6 DEF Owners, Held, Forced, Args, OutStandby, do_out_standby_l
  <2>2. Args' BY <1>6 DEF Args, Forced, OutStandby, do_out_standby_l
  <2>3. ActiveRuns' BY <1>6 DEF ActiveRuns, OutStandby, do_out_standby_l
  <2>4. Forced' BY <1>6 DEF Forced, Owners, Args, OutStandby, do_out_standby_l
  <2> QED BY <2>1, <2>2, <2>3, <2>4
<1>7. CASE ForceInput(t)
  <2>1. Owners' BY <1>7 DEF Owners, Held, Forced, Args, ForceInput, do_in_standby_l
  <2>2. Args' BY <1>7 DEF Args, Forced, ForceInput, do_in_standby_l
  <2>3. ActiveRuns' BY <1>7 DEF ActiveRuns, ForceInput, do_in_standby_l
  <2>4. Forced' BY <1>7 DEF Forced, Owners, Args, ForceInput, do_in_standby_l
  <2> QED BY <2>1, <2>2, <2>3, <2>4
<1>8. CASE \E devs \in RoutesOut : SetRouting(t, devs)
  <2>1. Owners' BY <1>8 DEF Owners, Held, Forced, Args, SetRouting, do_out_standby_l, Affected
  <2>2. Args' BY <1>8 DEF Args, Forced, SetRouting, do_out_standby_l, Affected
  <2>3. ActiveRuns' BY <1>8 DEF ActiveRuns, SetRouting, do_out_standby_l, Affected
  <2>4. Forced' BY <1>8 DEF Forced, Owners, Args, SetRouting, do_out_standby_l, Affected
  <2> QED BY <2>1, <2>2, <2>3, <2>4
<1> QED BY <1>1, <1>2, <1>3, <1>4, <1>5, <1>6, <1>7, <1>8 DEF OutputStep

LEMMA InputKeeps ==
    ASSUME Inv, NEW t \in Threads, InputStep(t) \/ StartInputFails(t)
    PROVE  Owners' /\ Args' /\ ActiveRuns' /\ Forced'
<1> USE StreamsAssumption DEF Inv, TypeOK, Streams, InLabels, InputCalls, OutLabels,
        Goto, Return, Lock, Unlock, HasBoth, lock_vars, stream_vars, adev_vars
<1>1. CASE ReadEnter(t)
  <2>1. Owners' BY <1>1 DEF Owners, Held, Forced, Args, ReadEnter
  <2>2. Args' BY <1>1 DEF Args, Forced, ReadEnter
  <2>3. ActiveRuns' BY <1>1 DEF ActiveRuns, Args, ReadEnter
  <2>4. Forced' BY <1>1 DEF Forced, Owners, Args, ReadEnter
  <2> QED BY <2>1, <2>2, <2>3, <2>4
<1>2. CASE StartInput(t)
  <2>1. Owners' BY <1>2 DEF Owners, Held, Forced, Args, StartInput
  <2>2. Args' BY <1>2 DEF Args, Forced, StartInput
  <2>3. ActiveRuns' BY <1>2 DEF ActiveRuns, Args, StartInput
  <2>4. Forced' BY <1>2 DEF Forced, Owners, Args, StartInput
  <2> QED BY <2>1, <2>2, <2>3, <2>4
<1>3. CASE StartInputFails(t)
  <2>1. Owners' BY <1>3 DEF Owners, Held, Forced, Args, StartInputFails
  <2>2. Args' BY <1>3 DEF Args, Forced, StartInputFails
  <2>3. ActiveRuns' BY <1>3 DEF ActiveRuns, Args, StartInputFails
  <2>4. Forced' BY <1>3 DEF Forced, Owners, Args, StartInputFails
  <2> QED BY <2>1, <2>2, <2>3, <2>4
<1>4. CASE Started(t)
  <2>1. Owners' BY <1>4 DEF Owners, Held, Forced, Args, Started
  <2>2. Args' BY <1>4 DEF Args, Forced, Started
  <2>3. ActiveRuns' BY <1>4 DEF ActiveRuns, Args, Started
  <2>4. Forced' BY <1>4 DEF Forced, Owners, Args, Started
  <2> QED BY <2>1, <2>2, <2>3, <2>4
<1>5. CASE \E ok \in BOOLEAN : InTransfer(t, ok)
  <2>1. Owners' BY <1>5 DEF Owners, Held, Forced, Args, InTransfer
  <2>2. Args' BY <1>5 DEF Args, Forced, InTransfer
  <2>3. ActiveRuns' BY <1>5 DEF ActiveRuns, Args, InTransfer
  <2>4. Forced' BY <1>5 DEF Forced, Owners, Args, InTransfer
  <2> QED BY <2>1, <2>2, <2>3, <2>4
<1>6. CASE InStandby(t)
  <2>1. Owners' BY <1>6 DEF Owners, Held, Forced, Args, InStandby, do_in_standby_l
  <2>2. Args' BY <1>6 DEF Args, Forced, InStandby, do_in_standby_l
  <2>3. ActiveRuns' BY <1>6 DEF ActiveRuns, Args, InStandby, do_in_standby_l
  <2>4. Forced' BY <1>6 DEF Forced, Owners, Args, InStandby, do_in_standby_l
  <2> QED BY <2>1, <2>2, <2>3, <2>4
<1>7. CASE Close(t)
  <2>1. Owners' BY <1>7 DEF Owners, Held, Forced, Args, Close, do_in_standby_l
  <2>2. Args' BY <1>7 DEF Args, Forced, Close, do_in_standby_l
  <2>3. ActiveRuns' BY <1>7 DEF ActiveRuns, Args, Close, do_in_standby_l
  <2>4. Forced' BY <1>7 DEF Forced, Owners, Args, Close, do_in_standby_l
  <2> QED BY <2>1, <2>2, <2>3, <2>4
<1>8. CASE \E source \in InSources \cup {"hotword"}, dev \in RoutesIn : SetInput(t, source, dev)
  <2>1. Owners' BY <1>8 DEF Owners, Held, Forced, Args, SetInput, do_in_standby_l
  <2>2. Args' BY <1>8 DEF Args, Forced, SetInput, do_in_standby_l
  <2>3. ActiveRuns' BY <1>8 DEF ActiveRuns, Args, SetInput, do_in_standby_l
  <2>4. Forced' BY <1>8 DEF Forced, Owners, Args, SetInput, do_in_standby_l
  <2> QED BY <2>1, <2>2, <2>3, <2>4
<1>9. CASE \E enable \in BOOLEAN : AudioEffect(t, enable)
  <2>1. Owners' BY <1>9 DEF Owners, Held, Forced, Args, AudioEffect, do_in_standby_l
  <2>2. Args' BY <1>9 DEF Args, Forced, AudioEffect, do_in_standby_l
  <2>3. ActiveRuns' BY <1>9 DEF ActiveRuns, Args, AudioEffect, do_in_standby_l
  <2>4. Forced' BY <1>9 DEF Forced, Owners, Args, AudioEffect, do_in_standby_l
  <2> QED BY <2>1, <2>2, <2>3, <2>4
<1> QED BY <1>1, <1>2, <1>3, <1>4, <1>5, <1>6, <1>7, <1>8, <1>9 DEF InputStep

LEMMA CallKeeps ==
    ASSUME Inv, NEW t \in Threads, CallOutput(t) \/ CallInput(t) \/ TakeInputs(t)
    PROVE  Owners' /\ Args' /\ ActiveRuns' /\ Forced'
<1> USE StreamsAssumption DEF Inv, TypeOK, Streams, InLabels, InputCalls, OutLabels,
        Goto, Return, Lock, Unlock, HasBoth, lock_vars, stream_vars, adev_vars
<1>1. CASE CallOutput(t)
  <2>1. Owners' BY <1>1 DEF Owners, Held, Forced, Args, CallOutput, Call
  <2>2. Args' BY <1>1 DEF Args, Forced, CallOutput, Call
  <2>3. ActiveRuns' BY <1>1 DEF ActiveRuns, Args, CallOutput, Call
  <2>4. Forced' BY <1>1 DEF Forced, Owners, Args, CallOutput, Call
  <2> QED BY <2>1, <2>2, <2>3, <2>4
<1>2. CASE CallInput(t)
  <2>1. Owners'
    BY <1>2 DEF Owners, Held, Forced, Args, CallInput, MayRead, MayCall, MayClose, Call
  <2>2. Args' BY <1>2 DEF Args, Forced, CallInput, MayRead, MayCall, MayClose, Call
  <2>3. ActiveRuns' BY <1>2 DEF ActiveRuns, Args, CallInput, MayRead, MayCall, MayClose, Call
  <2>4. Forced' BY <1>2 DEF Forced, Owners, Args, CallInput, MayRead, MayCall, MayClose, Call
  <2> QED BY <2>1, <2>2, <2>3, <2>4
<1>3. CASE TakeInputs(t)
  <2>1. Owners' BY <1>3 DEF Owners, Held, Forced, Args, TakeInputs
  <2>2. Args' BY <1>3 DEF Args, Forced, TakeInputs
  <2>3. ActiveRuns' BY <1>3 DEF ActiveRuns, Args, TakeInputs
  <2>4. Forced' BY <1>3 DEF Forced, Owners, Args, TakeInputs
  <2> QED BY <2>1, <2>2, <2>3, <2>4
<1> QED BY <1>1, <1>2, <1>3

LEMMA OpenKeeps == Inv /\ OpenInput => Owners' /\ Args' /\ ActiveRuns' /\ Forced'
<1> SUFFICES ASSUME Inv, NEW i \in Inputs, NEW source, NEW dev, Open(i, source, dev)
             PROVE  Owners' /\ Args' /\ ActiveRuns' /\ Forced'
  BY DEF OpenInput
<1> USE DEF Inv, TypeOK, Streams, Open, lock_vars
<1>1. Owners' BY DEF Owners, Held
<1>2. Args' BY DEF Args
<1>3. ActiveRuns' BY DEF ActiveRuns
<1>4. Forced' BY DEF Forced
<1> QED BY <1>1, <1>2, <1>3, <1>4

\* lock_inputs is lost only in out_write's early return, and then for good.
LEMMA LostOnce ==
    ASSUME Inv, [Next]_vars
    PROVE  /\ lock_inputs = Lost => lock_inputs' = Lost
           /\ lock_inputs' = Lost =>
                  \/ lock_inputs = Lost
                  \/ \E t \in Threads : ReopenFails(t) /\ arg[t] # NULL
<1> USE StreamsAssumption DEF lock_vars
<1>1. CASE OpenInput
  BY <1>1 DEF OpenInput, Open
<1>2. ASSUME NEW t \in Threads, CallOutput(t) \/ CallInput(t) \/ TakeInputs(t)
      PROVE  \/ lock_inputs' = lock_inputs
             \/ lock_inputs = NULL /\ lock_inputs' = t
  BY <1>2 DEF CallOutput, CallInput, Call, TakeInputs
<1>3. ASSUME NEW t \in Threads, OutputStep(t) \/ StartOutputFails(t), ~ReopenFails(t)
      PROVE  \/ lock_inputs' = lock_inputs
             \/ lock_inputs = t /\ lock_inputs' \in {NULL, t}
  <2>1. CASE ForceInput(t)
    BY <2>1 DEF ForceInput, Inv, Forced
  <2>2. CASE ~ForceInput(t)
    BY <1>3, <2>2 DEF OutputStep, WriteEnter, StartOutput, StartOutputFails, PickReference,
       Transfer, OutStandby, SetRouting, HasBoth
  <2> QED BY <2>1, <2>2
<1>4. ASSUME NEW t \in Threads, InputStep(t) \/ StartInputFails(t)
      PROVE  \/ lock_inputs' = lock_inputs
             \/ lock_inputs = t /\ lock_inputs' \in {NULL, t}
  BY <1>4 DEF InputStep, StartInputFails, ReadEnter, StartInput, Started, InTransfer,
     InStandby, Close, SetInput, AudioEffect, HasBoth
<1>5. ASSUME NEW t \in Threads, ReopenFails(t)
      PROVE  \/ lock_inputs' = lock_inputs
             \/ arg[t] # NULL /\ lock_inputs' = Lost /\ ReopenFails(t)
  BY <1>5 DEF ReopenFails
<1>6. CASE UNCHANGED vars
  BY <1>6 DEF vars
<1> QED BY <1>1, <1>2, <1>3, <1>4, <1>5, <1>6 DEF Next, Hung, Step, Fails

LEMMA InvHolds == Spec => []Inv
<1>1. Init => Inv
  <2> SUFFICES ASSUME Init PROVE Inv OBVIOUS
  <2>1. TypeOK
    <3>1. /\ {"speaker"} \in OutDevices /\ "idle" \in Labels
          /\ [source |-> "mic", devices |-> "builtin", enable_aec |-> FALSE] \in Conf
      BY DEF OutDevices, Labels, Conf, Sources, InDevices
    <3>2. /\ route \in Routes /\ echo \in EchoReferences
      BY DEF Init, Routes, EchoReferences
    <3> QED BY <3>1, <3>2 DEF Init, TypeOK
  <2>2. Owners /\ Args /\ ActiveRuns /\ Forced
    BY StreamsAssumption
    DEF Init, Owners, Held, Args, ActiveRuns, Forced, InLabels, InputCalls, OutLabels
  <2> QED BY <2>1, <2>2 DEF Inv
<1>2. Inv /\ [Next]_vars => Inv'
  <2> SUFFICES ASSUME Inv, [Next]_vars PROVE Inv' OBVIOUS
  <2>1. TypeOK /\ Args /\ Forced BY DEF Inv
  <2>2. CASE OpenInput BY <2>1, <2>2, OpenTypes, OpenKeeps DEF Inv
  <2>3. ASSUME NEW t \in Threads, CallOutput(t) \/ CallInput(t) \/ Step(t) \/ Fails(t)
        PROVE  Inv'
    <3>1. CASE CallOutput(t) \/ CallInput(t) \/ TakeInputs(t)
      BY <2>1, <3>1, CallTypes, CallKeeps DEF Inv
    <3>2. CASE OutputStep(t) \/ StartOutputFails(t)
      BY <2>1, <3>2, OutputTypes, OutputKeeps DEF Inv
    <3>3. CASE InputStep(t) \/ StartInputFails(t)
      BY <2>1, <3>3, InputTypes, InputKeeps DEF Inv
    <3> QED BY <2>3, <3>1, <3>2, <3>3 DEF Step, Fails
  <2>4. CASE UNCHANGED vars
    BY <2>4 DEF vars, lock_vars, stream_vars, adev_vars, Inv, TypeOK, Owners, Held, Args,
                ActiveRuns, Forced
  <2> QED BY <2>2, <2>3, <2>4 DEF Next, Hung
<1> QED BY <1>1, <1>2, PTL DEF Spec

-----------------------------------------------------------------------------
(* The echo reference                                                      *)

\* With sb, whether the output is in standby: what exists is the device's or
\* was dropped by it and is still the output's; an output that plays and is
\* up to date has the device's; one in standby has none.
EchoOK(e, sb) ==
    /\ {e.adev, e.out} \subseteq e.live \cup {NULL}
    /\ e.live \subseteq {e.adev} \cup (IF e.synced THEN {} ELSE {e.out})
    /\ sb => e.out = NULL
    /\ ~sb /\ e.synced => e.out = e.adev
    /\ ~e.synced /\ e.out # NULL => e.out # e.adev

\* Only an open input with an echo canceller has a reference, the device's.
InputHas(i) == in_echo[i] # NULL => i \in AecInputs /\ in_echo[i] = echo.adev

EchoInv ==
    /\ EchoOK(echo, standby[out])
    /\ \A i \in opened : InputHas(i)
    /\ \A i \in Inputs : conf[i].enable_aec => i \in AecInputs
    /\ \A t \in Threads : pc[t] \in {"pick", "transfer"} => ~standby[out]

LEMMA PutOK ==
    ASSUME NEW e \in EchoReferences, NEW sb \in BOOLEAN, EchoOK(e, sb), NEW ref
    PROVE  /\ EchoOK(put_echo_reference(e, ref, sb), sb)
           /\ put_echo_reference(e, ref, sb).adev \in {e.adev, NULL}
           /\ ref # e.adev => put_echo_reference(e, ref, sb) = e
BY RefsAssumption DEF EchoOK, put_echo_reference, EchoReferences

LEMMA GetOK ==
    ASSUME NEW e \in EchoReferences, NEW sb \in BOOLEAN, EchoOK(e, sb),
           NEW held, NEW r \in Unused(e, held)
    PROVE  EchoOK(get_echo_reference(e, sb, r), sb)
<1> DEFINE p == put_echo_reference(e, e.adev, sb)
<1>1. r \in Refs /\ r # NULL /\ r # e.out /\ r \notin e.live
  BY RefsAssumption DEF Unused
<1>2. EchoOK(p, sb) BY PutOK
<1>3. p.adev = NULL /\ p.out = e.out /\ (sb \/ p.live \subseteq {e.out} \ {NULL})
  BY RefsAssumption DEF put_echo_reference, EchoOK, EchoReferences
<1>4. CASE sb BY <1>2, <1>4 DEF get_echo_reference
<1>5. CASE ~sb
  BY <1>1, <1>2, <1>3, <1>5 DEF get_echo_reference, EchoOK
<1> QED BY <1>4, <1>5

LEMMA OutputOK ==
    ASSUME NEW e \in EchoReferences
    PROVE  /\ EchoOK(e, TRUE) => EchoOK(PickUp(e), FALSE)
           /\ EchoOK(e, FALSE) => EchoOK(Refresh(e), FALSE) /\ EchoOK(GiveBack(e), TRUE)
           /\ PickUp(e).adev = e.adev /\ Refresh(e).adev = e.adev /\ GiveBack(e).adev = e.adev
BY RefsAssumption DEF EchoOK, PickUp, Refresh, GiveBack, EchoReferences

\* The part of EchoInv that a section under adev->lock can disturb.
EchoKept == EchoOK(echo, standby[out]) /\ \A i \in opened : InputHas(i)

LEMMA InStandbyEcho ==
    ASSUME TypeOK, EchoInv, NEW i \in opened, NEW r, do_in_standby_l(i, r),
           opened' \subseteq opened
    PROVE  EchoKept' /\ standby'[out] = standby[out]
<1>1. i \in Inputs /\ i # out /\ i \in Streams /\ out \in Streams
  BY StreamsAssumption DEF TypeOK, Streams
<1>2. /\ echo \in EchoReferences /\ standby[out] \in BOOLEAN
      /\ EchoOK(echo, standby[out]) /\ \A j \in opened : InputHas(j)
  BY <1>1 DEF TypeOK, EchoInv
<1>3. CASE standby[i]
  BY <1>2, <1>3 DEF do_in_standby_l, EchoKept, InputHas
<1>4. CASE ~standby[i]
  <2>1. /\ echo' = put_echo_reference(echo, in_echo[i], standby[out])
        /\ in_echo' = [in_echo EXCEPT ![i] = NULL]
        /\ standby'[out] = standby[out]
    BY <1>1, <1>4 DEF do_in_standby_l, TypeOK
  <2>2. EchoOK(echo', standby[out]) BY <1>2, <2>1, PutOK
  <2>3. ASSUME NEW j \in opened PROVE InputHas(j)'
    <3>1. j \in Inputs /\ in_echo \in [Inputs -> Refs \cup {NULL}] BY DEF TypeOK
    <3>2. CASE j = i BY <1>1, <2>1, <3>1, <3>2 DEF InputHas
    <3>3. CASE j # i /\ in_echo[j] # NULL
      <4>1. j \in AecInputs /\ in_echo[j] = echo.adev BY <1>2, <3>3 DEF InputHas
      <4>2. in_echo[i] = NULL BY <1>2, <3>3, <4>1, AecAssumption DEF InputHas
      <4>3. echo' = echo BY <1>2, <2>1, <3>3, <4>1, <4>2, PutOK
      <4> QED BY <2>1, <3>1, <3>3, <4>1, <4>3 DEF InputHas
    <3>4. CASE j # i /\ in_echo[j] = NULL BY <2>1, <3>1, <3>4 DEF InputHas
    <3> QED BY <3>2, <3>3, <3>4
  <2> QED BY <2>1, <2>2, <2>3 DEF EchoKept
<1> QED BY <1>3, <1>4

LEMMA TakeReferenceEcho ==
    ASSUME TypeOK, EchoInv, NEW i \in opened, TakeReference(i),
           UNCHANGED <<opened, standby>>
    PROVE  EchoKept'
<1>1. i \in Inputs /\ out \in Streams BY DEF TypeOK, Streams
<1>2. /\ echo \in EchoReferences /\ standby[out] \in BOOLEAN
      /\ EchoOK(echo, standby[out]) /\ \A j \in opened : InputHas(j)
  BY <1>1 DEF TypeOK, EchoInv
<1>3. CASE UNCHANGED <<echo, in_echo>>
  BY <1>2, <1>3 DEF EchoKept, InputHas
<1>4. CASE ~UNCHANGED <<echo, in_echo>>
  <2> DEFINE held == {in_echo[j] : j \in Inputs}
  <2>1. PICK r \in Unused(echo, held) :
            /\ echo' = get_echo_reference(echo, standby[out], r)
            /\ in_echo' = [in_echo EXCEPT ![i] = echo'.adev]
    BY <1>4 DEF TakeReference
  <2>2. i \in AecInputs BY <1>1, <1>4 DEF TakeReference, EchoInv
  <2>3. EchoOK(echo', standby[out]) BY <1>2, <2>1, GetOK
  <2>4. ASSUME NEW j \in opened PROVE InputHas(j)'
    <3>1. j \in Inputs /\ in_echo \in [Inputs -> Refs \cup {NULL}] BY DEF TypeOK
    <3>2. CASE j = i BY <2>1, <2>2, <3>1, <3>2 DEF InputHas
    <3>3. CASE j # i
      <4>1. in_echo[j] = NULL BY <1>2, <2>2, <3>3, AecAssumption DEF InputHas
      <4> QED BY <2>1, <3>1, <3>3, <4>1 DEF InputHas
    <3> QED BY <3>2, <3>3
  <2> QED BY <2>3, <2>4 DEF EchoKept
<1> QED BY <1>3, <1>4

\* Steps that leave the echo reference and the output's standby alone.
LEMMA EchoUntouched ==
    ASSUME TypeOK, EchoInv, UNCHANGED <<echo, in_echo>>,
           standby'[out] = standby[out], opened' \subseteq opened
    PROVE  EchoKept'
BY DEF EchoInv, EchoKept, InputHas

LEMMA EchoOutputKeeps ==
    ASSUME Inv, EchoInv, NEW t \in Threads, OutputStep(t) \/ StartOutputFails(t)
    PROVE  EchoInv'
<1> USE DEF Goto, Return, lock_vars, stream_vars, adev_vars
<1>1. /\ TypeOK /\ Owners /\ Args /\ Forced
      /\ out \in Streams /\ out \notin Inputs /\ NULL \notin Threads
      /\ echo \in EchoReferences /\ standby[out] \in BOOLEAN
      /\ EchoOK(echo, standby[out]) /\ \A i \in opened : InputHas(i)
      /\ \A i \in Inputs : conf[i].enable_aec => i \in AecInputs
  BY StreamsAssumption DEF Inv, EchoInv, TypeOK, Streams
<1>2. /\ pc \in [Threads -> Labels] /\ standby \in [Streams -> BOOLEAN]
      /\ \A u \in Threads : pc[u] \in {"pick", "transfer"} => ~standby[out] /\ lock[out] # NULL
  BY <1>1 DEF EchoInv, TypeOK, Owners, Held
<1>3. conf' = conf
  BY DEF OutputStep, WriteEnter, StartOutput, StartOutputFails, PickReference, Transfer, ReopenFails,
         OutStandby, ForceInput, SetRouting
<1>4. EchoKept' /\ \A u \in Threads : pc'[u] \in {"pick", "transfer"} => ~standby'[out]
  <2>1. CASE WriteEnter(t) \/ (\E ok \in BOOLEAN : Transfer(t, ok)) \/ ReopenFails(t)
    <3>1. UNCHANGED <<echo, in_echo, standby, opened>> BY <2>1 DEF WriteEnter, Transfer, ReopenFails
    <3>2. EchoKept' BY <1>1, <3>1, EchoUntouched
    <3>3. \A u \in Threads : pc'[u] \in {"pick", "transfer"} => ~standby'[out]
      BY <1>2, <2>1, <3>1 DEF WriteEnter, Transfer, ReopenFails
    <3> QED BY <3>2, <3>3
  <2>2. CASE StartOutput(t)
    <3>1. CASE standby[out]
      <4>1. echo' = PickUp(echo) /\ standby'[out] = FALSE /\ UNCHANGED <<in_echo, opened>>
        BY <1>1, <1>2, <2>2, <3>1 DEF StartOutput
      <4>2. EchoOK(echo', standby'[out]) /\ echo'.adev = echo.adev
        <5>1. standby[out] = TRUE BY <1>1, <3>1
        <5> QED BY <1>1, <4>1, <5>1, OutputOK
      <4> QED BY <1>1, <4>1, <4>2 DEF EchoKept, InputHas
    <3>2. CASE ~standby[out]
      <4>1. UNCHANGED <<echo, in_echo, standby, opened>> BY <2>2, <3>2 DEF StartOutput
      <4> QED BY <1>1, <3>2, <4>1, EchoUntouched
    <3> QED BY <3>1, <3>2
  <2>3. CASE StartOutputFails(t)
    <3>1. UNCHANGED <<echo, in_echo, standby, opened>> BY <2>3 DEF StartOutputFails
    <3>2. \A u \in Threads : pc'[u] \in {"pick", "transfer"} => ~standby'[out]
      BY <1>2, <2>3, <3>1 DEF StartOutputFails
    <3> QED BY <1>1, <3>1, <3>2, EchoUntouched
  <2>4. CASE PickReference(t)
    <3>1. /\ standby[out] = FALSE /\ echo' = Refresh(echo)
          /\ UNCHANGED <<in_echo, standby, opened>>
      BY <1>1, <1>2, <2>4 DEF PickReference
    <3>2. EchoOK(echo', standby'[out]) /\ echo'.adev = echo.adev
      BY <1>1, <3>1, OutputOK
    <3> QED BY <1>1, <3>1, <3>2 DEF EchoKept, InputHas
  <2>5. ASSUME NEW r, do_out_standby_l(r), lock[out] = NULL, ~standby[out],
               UNCHANGED <<in_echo, opened>>, pc' = [pc EXCEPT ![t] = "idle"]
                                              \/ pc' = [pc EXCEPT ![t] = "force"]
        PROVE  EchoKept' /\ \A u \in Threads : pc'[u] \in {"pick", "transfer"} => ~standby'[out]
    <3>1. echo' = GiveBack(echo) /\ standby'[out] = TRUE /\ standby[out] = FALSE
      BY <1>1, <1>2, <2>5 DEF do_out_standby_l
    <3>2. EchoOK(echo', standby'[out]) /\ echo'.adev = echo.adev
      BY <1>1, <3>1, OutputOK
    <3>3. EchoKept' BY <1>1, <2>5, <3>1, <3>2 DEF EchoKept, InputHas
    <3> QED BY <1>2, <2>5, <3>3
  <2>6. CASE OutStandby(t)
    <3>1. /\ lock[out] = NULL /\ UNCHANGED <<in_echo, opened>>
          /\ pc' = [pc EXCEPT ![t] = "idle"] \/ pc' = [pc EXCEPT ![t] = "force"]
      BY <2>6 DEF OutStandby
    <3>2. CASE standby[out]
      <4>1. UNCHANGED <<echo, standby>> BY <2>6, <3>2 DEF OutStandby
      <4> QED BY <1>1, <1>2, <3>1, <4>1, EchoUntouched
    <3>3. CASE ~standby[out]
      <4>1. do_out_standby_l(route) BY <2>6, <3>3 DEF OutStandby
      <4> QED BY <2>5, <3>1, <3>3, <4>1
    <3> QED BY <3>2, <3>3
  <2>7. CASE \E devs \in RoutesOut : SetRouting(t, devs)
    <3>1. /\ lock[out] = NULL /\ UNCHANGED <<in_echo, opened>>
          /\ pc' = [pc EXCEPT ![t] = "idle"] \/ pc' = [pc EXCEPT ![t] = "force"]
      BY <2>7 DEF SetRouting, HasBoth
    <3>2. CASE UNCHANGED <<echo, standby>>
      BY <1>1, <1>2, <3>1, <3>2, EchoUntouched
    <3>3. CASE ~UNCHANGED <<echo, standby>>
      <4>1. ~standby[out] /\ do_out_standby_l(route) BY <2>7, <3>3 DEF SetRouting
      <4> QED BY <2>5, <3>1, <4>1
    <3> QED BY <3>2, <3>3
  <2>8. CASE ForceInput(t)
    <3>1. arg[t] \in opened /\ do_in_standby_l(arg[t], route) /\ opened' = opened
      BY <1>1, <2>8 DEF ForceInput, Forced, Inv, ActiveRuns
    <3>2. EchoKept' /\ standby'[out] = standby[out] BY <1>1, <3>1, InStandbyEcho
    <3>3. \A u \in Threads : pc'[u] \in {"pick", "transfer"} => ~standby'[out]
      BY <1>2, <2>8, <3>2 DEF ForceInput
    <3> QED BY <3>2, <3>3
  <2> QED BY <2>1, <2>2, <2>3, <2>4, <2>6, <2>7, <2>8 DEF OutputStep
<1>5. \A i \in Inputs : conf'[i].enable_aec => i \in AecInputs BY <1>1, <1>3
<1> QED BY <1>4, <1>5 DEF EchoInv, EchoKept

LEMMA EchoInputKeeps ==
    ASSUME Inv, EchoInv, NEW t \in Threads, InputStep(t) \/ StartInputFails(t)
    PROVE  EchoInv'
<1> USE DEF Goto, Return, lock_vars, stream_vars, adev_vars
<1>1. /\ TypeOK /\ Args /\ out \in Streams /\ out \notin Inputs
      /\ conf \in [Inputs -> Conf] /\ pc \in [Threads -> Labels]
      /\ \A u \in Threads : pc[u] \in {"pick", "transfer"} => ~standby[out]
      /\ \A i \in Inputs : conf[i].enable_aec => i \in AecInputs
  BY StreamsAssumption DEF Inv, EchoInv, TypeOK, Streams
<1>2. arg[t] \in opened /\ arg[t] \in Inputs /\ arg[t] # out /\ arg[t] \in Streams
  <2>1. pc[t] \in InLabels
    BY DEF InputStep, StartInputFails, ReadEnter, StartInput, Started, InTransfer, InStandby,
           Close, SetInput, AudioEffect, InLabels, InputCalls
  <2> QED BY <1>1, <2>1 DEF Args, TypeOK, Streams
<1>3. EchoKept' /\ standby'[out] = standby[out]
  <2>1. CASE ReadEnter(t) \/ \E ok \in BOOLEAN : InTransfer(t, ok)
    BY <1>1, <2>1, EchoUntouched DEF ReadEnter, InTransfer
  <2>2. CASE StartInput(t) \/ StartInputFails(t)
    <3>1. /\ UNCHANGED <<opened, standby>>
          /\ TakeReference(arg[t]) \/ UNCHANGED <<echo, in_echo>>
      BY <2>2 DEF StartInput, StartInputFails
    <3>2. CASE TakeReference(arg[t]) BY <1>1, <1>2, <3>1, <3>2, TakeReferenceEcho
    <3>3. CASE UNCHANGED <<echo, in_echo>> BY <1>1, <3>1, <3>3, EchoUntouched
    <3> QED BY <3>1, <3>2, <3>3
  <2>3. CASE Started(t)
    <3>1. standby'[out] = standby[out] /\ UNCHANGED <<echo, in_echo, opened>>
      BY <1>1, <1>2, <2>3 DEF Started, TypeOK
    <3> QED BY <1>1, <3>1, EchoUntouched
  <2>4. CASE InStandby(t) \/ Close(t)
    <3>1. do_in_standby_l(arg[t], route) /\ opened' \subseteq opened
      BY <2>4 DEF InStandby, Close
    <3> QED BY <1>1, <1>2, <3>1, InStandbyEcho
  <2>5. CASE \E source \in InSources \cup {"hotword"}, dev \in RoutesIn : SetInput(t, source, dev)
    <3>1. /\ opened' = opened
          /\ do_in_standby_l(arg[t], route) \/ UNCHANGED <<standby, echo, in_echo>>
      BY <2>5 DEF SetInput
    <3>2. CASE do_in_standby_l(arg[t], route) BY <1>1, <1>2, <3>1, <3>2, InStandbyEcho
    <3>3. CASE UNCHANGED <<standby, echo, in_echo>> BY <1>1, <3>1, <3>3, EchoUntouched
    <3> QED BY <3>1, <3>2, <3>3
  <2>6. CASE \E enable \in BOOLEAN : AudioEffect(t, enable)
    <3>1. opened' = opened /\ \E r : do_in_standby_l(arg[t], r)
      BY <2>6 DEF AudioEffect
    <3> QED BY <1>1, <1>2, <3>1, InStandbyEcho
  <2> QED BY <2>1, <2>2, <2>3, <2>4, <2>5, <2>6 DEF InputStep
<1>4. \A u \in Threads : pc'[u] \in {"pick", "transfer"} => ~standby'[out]
  <2>1. \A u \in Threads : pc'[u] \in {"pick", "transfer"} => pc[u] = pc'[u]
    BY <1>1 DEF InputStep, StartInputFails, ReadEnter, StartInput, Started, InTransfer,
           InStandby, Close, SetInput, AudioEffect
  <2> QED BY <1>1, <1>3, <2>1
<1>5. \A i \in Inputs : conf'[i].enable_aec => i \in AecInputs
  <2>1. CASE \E enable \in BOOLEAN : AudioEffect(t, enable)
    <3>1. PICK enable \in BOOLEAN : AudioEffect(t, enable) BY <2>1
    <3>2. arg[t] \in AecInputs BY <1>1, <3>1 DEF AudioEffect, Args
    <3> QED BY <1>1, <3>1, <3>2 DEF AudioEffect
  <2>2. CASE \E source \in InSources \cup {"hotword"}, dev \in RoutesIn : SetInput(t, source, dev)
    <3>1. PICK source \in InSources \cup {"hotword"}, dev \in RoutesIn : SetInput(t, source, dev)
      BY <2>2
    <3>2. conf[arg[t]] \in Conf BY <1>1, <1>2
    <3>3. [conf[arg[t]] EXCEPT !.source = source, !.devices = dev].enable_aec
             = conf[arg[t]].enable_aec
      BY <3>2 DEF Conf
    <3> QED BY <1>1, <1>2, <3>1, <3>3 DEF SetInput
  <2>3. CASE conf' = conf BY <1>1, <2>3
  <2> QED BY <2>1, <2>2, <2>3
          DEF InputStep, StartInputFails, ReadEnter, StartInput, Started, InTransfer,
              InStandby, Close
<1> QED BY <1>3, <1>4, <1>5 DEF EchoInv, EchoKept

LEMMA EchoHolds == Spec => []EchoInv
<1>1. Init => EchoInv
  BY RefsAssumption, StreamsAssumption
  DEF Init, EchoInv, EchoOK, InputHas, Streams
<1>2. Inv /\ EchoInv /\ [Next]_vars => EchoInv'
  <2> SUFFICES ASSUME Inv, EchoInv, [Next]_vars PROVE EchoInv' OBVIOUS
  <2>1. CASE OpenInput
    <3>1. PICK i \in Inputs : \E source : \E dev : Open(i, source, dev) BY <2>1 DEF OpenInput
    <3>2. UNCHANGED <<pc, echo>> /\ standby'[out] = standby[out]
      <4>1. UNCHANGED <<pc, echo>> /\ standby' = [standby EXCEPT ![i] = TRUE]
        BY <3>1 DEF Open
      <4>2. i # out /\ standby \in [Streams -> BOOLEAN] /\ out \in Streams
        BY StreamsAssumption DEF Inv, TypeOK, Streams
      <4> QED BY <4>1, <4>2
    <3>3. /\ \A j \in opened' : j # i => j \in opened /\ in_echo'[j] = in_echo[j]
          /\ in_echo'[i] = NULL
          /\ \A j \in Inputs : conf'[j].enable_aec => conf[j].enable_aec
      BY <3>1 DEF Open, Inv, TypeOK
    <3> QED BY <3>2, <3>3 DEF EchoInv, InputHas
  <2>2. ASSUME NEW t \in Threads, CallOutput(t) \/ CallInput(t) \/ Step(t) \/ Fails(t)
        PROVE  EchoInv'
    <3>1. CASE CallOutput(t) \/ CallInput(t) \/ TakeInputs(t)
      <4>1. UNCHANGED <<echo, in_echo, standby, opened, conf>>
        BY <3>1 DEF CallOutput, CallInput, Call, TakeInputs, lock_vars, stream_vars, adev_vars
      <4>2. \A u \in Threads : pc'[u] \in {"pick", "transfer"} => pc[u] = pc'[u]
        BY <3>1 DEF CallOutput, CallInput, Call, Goto, TakeInputs, Inv, TypeOK
      <4> QED BY <4>1, <4>2 DEF EchoInv, InputHas
    <3>2. CASE OutputStep(t) \/ StartOutputFails(t) BY <3>2, EchoOutputKeeps
    <3>3. CASE InputStep(t) \/ StartInputFails(t) BY <3>3, EchoInputKeeps
    <3> QED BY <2>2, <3>1, <3>2, <3>3 DEF Step, Fails
  <2>3. CASE UNCHANGED vars
    BY <2>3 DEF vars, lock_vars, stream_vars, adev_vars, EchoInv, InputHas
  <2> QED BY <2>1, <2>2, <2>3 DEF Next, Hung
<1> QED BY <1>1, <1>2, InvHolds, PTL DEF Spec

-----------------------------------------------------------------------------
(* The routing: counters, mixer paths and use cases                        *)

\* The streams in the list whose use case has taken sound device d.
Users(r, d) == {s \in r.listed : d \in r.use[s]}

\* The counters are those of the use cases, the paths those of the counters,
\* and a stream that is not in the list has no sound device.
RouteOK(r) ==
    /\ IsFiniteSet(r.listed)
    /\ \A d \in Sounds : /\ r.cnt[d] = Cardinality(Users(r, d))
                         /\ d \in r.applied <=> r.cnt[d] > 0
    /\ \A s \in Streams \ r.listed : r.use[s] = {}

\* disable_snd_device leaves to every sound device its users but s.
LEMMA Disabled ==
    ASSUME NEW r \in Routes, RouteOK(r), NEW s \in Streams, NEW d \in Sounds
    PROVE  LET q == disable_snd_device(r, r.use[s])
               k == Cardinality(Users(r, d) \ {s})
           IN  /\ IsFiniteSet(Users(r, d) \ {s}) /\ k \in Nat
               /\ q.cnt[d] = k /\ (d \in q.applied <=> k > 0)
               /\ q.cnt \in [Sounds -> Nat]
               /\ q.use = r.use /\ q.listed = r.listed /\ q \in Routes
<1> DEFINE U == Users(r, d)
           q == disable_snd_device(r, r.use[s])
           held == {e \in r.use[s] : r.cnt[e] > 0}
<1>1. /\ r.cnt \in [Sounds -> Nat] /\ r.use \in [Streams -> SUBSET Sounds]
      /\ r.applied \subseteq Sounds
  BY DEF Routes
<1>2. IsFiniteSet(U)
  <2>1. U \in SUBSET r.listed BY DEF Users
  <2> QED BY <2>1, FS_Subset DEF RouteOK
<1>3. /\ IsFiniteSet(U \ {s})
      /\ Cardinality(U \ {s}) = IF s \in U THEN Cardinality(U) - 1 ELSE Cardinality(U)
  BY <1>2, FS_RemoveElement
<1>4. Cardinality(U) \in Nat /\ Cardinality(U \ {s}) \in Nat
  BY <1>2, <1>3, FS_CardinalityType
<1>5. s \in U <=> d \in r.use[s] BY DEF Users, RouteOK
<1>6. r.cnt[d] = Cardinality(U) /\ (d \in r.applied <=> r.cnt[d] > 0) BY DEF RouteOK
<1>7. d \in held <=> s \in U
  <2>1. s \in U => Cardinality(U) > 0 BY <1>3, <1>4
  <2> QED BY <1>4, <1>5, <1>6, <2>1
<1>8. /\ q.cnt = [e \in Sounds |-> IF e \in held THEN r.cnt[e] - 1 ELSE r.cnt[e]]
      /\ q.applied = r.applied \ {e \in held : r.cnt[e] = 1}
      /\ q.use = r.use /\ q.listed = r.listed
  BY DEF disable_snd_device, Routes
<1>9. q.cnt \in [Sounds -> Nat] BY <1>1, <1>8
<1>10. q \in Routes BY <1>9 DEF Routes, disable_snd_device
<1>11. q.cnt[d] = Cardinality(U \ {s})
  BY <1>1, <1>3, <1>4, <1>6, <1>7, <1>8
<1>12. d \in q.applied <=> Cardinality(U \ {s}) > 0
  <2>1. d \in q.applied <=> r.cnt[d] > 0 /\ ~(d \in held /\ r.cnt[d] = 1)
    BY <1>6, <1>8
  <2> QED BY <1>3, <1>4, <1>6, <1>7, <2>1
<1> QED BY <1>3, <1>4, <1>8, <1>9, <1>10, <1>11, <1>12

\* A use case in the list that changes its sound devices keeps the counters right.
LEMMA SwitchOK ==
    ASSUME NEW r \in Routes, RouteOK(r), NEW s \in r.listed, NEW S \in SUBSET Sounds
    PROVE  LET q == Switch(r, s, S)
           IN  RouteOK(q) /\ q.listed = r.listed /\ q.use = [r.use EXCEPT ![s] = S]
<1> DEFINE p == disable_snd_device(r, r.use[s])
           e == enable_snd_device(p, S)
           q == [e EXCEPT !.use[s] = S]
<1>0. s \in Streams BY DEF Routes
<1>1. CASE r.use[s] = S
  BY <1>0, <1>1 DEF Switch, Routes
<1>2. CASE r.use[s] # S
  <2>1. Switch(r, s, S) = q BY <1>2 DEF Switch
  <2>2. p \in Routes /\ p.use = r.use /\ p.listed = r.listed
    <3>1. "speaker" \in Sounds BY DEF Sounds, OutSounds
    <3> QED BY <1>0, <3>1, Disabled
  <2> HIDE DEF p
  <2>3. /\ q.cnt = [d \in Sounds |-> IF d \in S THEN p.cnt[d] + 1 ELSE p.cnt[d]]
        /\ q.applied = p.applied \cup {d \in S : p.cnt[d] = 0}
        /\ q.listed = r.listed /\ q.use = [r.use EXCEPT ![s] = S]
    BY <2>2 DEF enable_snd_device, Routes
  <2> HIDE DEF q
  <2>4. r.use \in [Streams -> SUBSET Sounds] /\ r.listed \subseteq Streams BY DEF Routes
  <2>5. ASSUME NEW d \in Sounds
        PROVE  q.cnt[d] = Cardinality(Users(q, d)) /\ (d \in q.applied <=> q.cnt[d] > 0)
    <3> DEFINE U == Users(r, d)
    <3>1. /\ IsFiniteSet(U \ {s}) /\ Cardinality(U \ {s}) \in Nat
          /\ p.cnt[d] = Cardinality(U \ {s})
          /\ (d \in p.applied <=> Cardinality(U \ {s}) > 0)
      BY <1>0, Disabled DEF p
    <3>2. CASE d \in S
      <4>1. Users(q, d) = (U \ {s}) \cup {s}
        BY <1>0, <2>3, <2>4, <3>2 DEF Users
      <4>2. Cardinality(Users(q, d)) = Cardinality(U \ {s}) + 1
        <5> HIDE DEF U
        <5>1. s \notin U \ {s} OBVIOUS
        <5> QED BY <3>1, <4>1, <5>1, FS_AddElement
      <4>3. q.cnt[d] = p.cnt[d] + 1 BY <2>3, <3>2
      <4>4. d \in q.applied <=> d \in p.applied \/ p.cnt[d] = 0 BY <2>3, <3>2
      <4> QED BY <3>1, <4>2, <4>3, <4>4
    <3>3. CASE d \notin S
      <4>1. Users(q, d) = U \ {s}
        BY <1>0, <2>3, <2>4, <3>3 DEF Users
      <4>2. q.cnt[d] = p.cnt[d] BY <2>3, <3>3
      <4>3. d \in q.applied <=> d \in p.applied BY <2>3, <3>3
      <4> QED BY <3>1, <4>1, <4>2, <4>3
    <3> QED BY <3>2, <3>3
  <2>6. \A x \in Streams \ q.listed : q.use[x] = {}
    BY <2>3, <2>4 DEF RouteOK
  <2>7. RouteOK(q) BY <2>3, <2>5, <2>6 DEF RouteOK
  <2> QED BY <2>1, <2>3, <2>7
<1> QED BY <1>1, <1>2

\* A new use case takes nothing; one that leaves the list gives back what it has.
LEMMA ListOK ==
    ASSUME NEW r \in Routes, RouteOK(r), NEW s \in Streams
    PROVE  /\ s \notin r.listed => RouteOK(List(r, s))
           /\ List(r, s).listed = r.listed \cup {s}
           /\ List(r, s).use = [r.use EXCEPT ![s] = {}]
           /\ RouteOK(Unlist(r, s))
           /\ Unlist(r, s).listed = r.listed \ {s}
           /\ Unlist(r, s).use = [r.use EXCEPT ![s] = {}]
<1>1. r.use \in [Streams -> SUBSET Sounds] /\ r.listed \subseteq Streams BY DEF Routes
<1>2. /\ List(r, s).listed = r.listed \cup {s}
      /\ List(r, s).use = [r.use EXCEPT ![s] = {}]
      /\ List(r, s).cnt = r.cnt /\ List(r, s).applied = r.applied
  BY DEF List, Routes
<1>3. ASSUME s \notin r.listed PROVE RouteOK(List(r, s))
  <2>1. \A d \in Sounds : Users(List(r, s), d) = Users(r, d)
    BY <1>1, <1>2, <1>3 DEF Users, RouteOK
  <2>2. IsFiniteSet(List(r, s).listed) BY <1>2, FS_AddElement DEF RouteOK
  <2>3. \A x \in Streams \ List(r, s).listed : List(r, s).use[x] = {}
    BY <1>1, <1>2 DEF RouteOK
  <2> QED BY <1>2, <2>1, <2>2, <2>3 DEF RouteOK
<1> DEFINE p == disable_snd_device(r, r.use[s])
           q == Unlist(r, s)
<1>4. p \in Routes /\ p.use = r.use /\ p.listed = r.listed
  <2>1. "speaker" \in Sounds BY DEF Sounds, OutSounds
  <2> QED BY <2>1, Disabled
<1> HIDE DEF p
<1>5. /\ q.listed = r.listed \ {s} /\ q.use = [r.use EXCEPT ![s] = {}]
      /\ q.cnt = p.cnt /\ q.applied = p.applied
  BY <1>4 DEF Unlist, p, Routes
<1> HIDE DEF q
<1>6. ASSUME NEW d \in Sounds
      PROVE  q.cnt[d] = Cardinality(Users(q, d)) /\ (d \in q.applied <=> q.cnt[d] > 0)
  <2>1. Users(q, d) = Users(r, d) \ {s} BY <1>1, <1>5 DEF Users
  <2> QED BY <1>5, <2>1, Disabled DEF p
<1>7. IsFiniteSet(q.listed) BY <1>5, FS_RemoveElement DEF RouteOK
<1>8. \A x \in Streams \ q.listed : q.use[x] = {} BY <1>1, <1>5 DEF RouteOK
<1>9. RouteOK(q) BY <1>6, <1>7, <1>8 DEF RouteOK
<1> QED BY <1>2, <1>3, <1>5, <1>9 DEF q

\* The microphone an input is given by select_devices.
LEMMA SelectUse ==
    ASSUME NEW r \in Routes, RouteOK(r), NEW i \in r.listed, i \notin Hotword, NEW c, NEW outs
    PROVE  select_input(r, i, c, outs).use[i] = {get_input_snd_device(c, Near(c, outs))}
<1> DEFINE S == {get_input_snd_device(c, Near(c, outs))}
<1>1. S \in SUBSET Sounds BY SoundsTyped
<1>2. select_input(r, i, c, outs) = Switch(r, i, S) BY DEF select_input
<1>3. i \in Streams /\ r.use \in [Streams -> SUBSET Sounds] BY DEF Routes
<1> HIDE DEF S
<1>4. Switch(r, i, S).use = [r.use EXCEPT ![i] = S] BY <1>1, SwitchOK
<1> USE DEF S
<1> QED BY <1>2, <1>3, <1>4

\* select_devices of an input, and below of the output, keeps the counters right.
LEMMA SelectInputOK ==
    ASSUME NEW r \in Routes, RouteOK(r), NEW i \in Inputs, NEW c, NEW outs
    PROVE  /\ select_input(r, i, c, outs) \in Routes
           /\ RouteOK(select_input(r, i, c, outs))
           /\ select_input(r, i, c, outs).listed = r.listed
<1>0. select_input(r, i, c, outs) \in Routes BY SelectTyped
<1>1. CASE i \in Hotword \/ i \notin r.listed BY <1>1 DEF select_input
<1>2. CASE ~(i \in Hotword \/ i \notin r.listed)
  <2> DEFINE S == {get_input_snd_device(c, Near(c, outs))}
  <2>1. S \in SUBSET Sounds BY SoundsTyped
  <2>2. select_input(r, i, c, outs) = Switch(r, i, S) BY <1>2 DEF select_input
  <2> HIDE DEF S
  <2>3. LET q == Switch(r, i, S)
        IN  RouteOK(q) /\ q.listed = r.listed /\ q.use = [r.use EXCEPT ![i] = S]
    BY <1>2, <2>1, SwitchOK
  <2> QED BY <1>0, <2>2, <2>3
<1> QED BY <1>0, <1>1, <1>2

LEMMA SelectOutputOK ==
    ASSUME NEW r \in Routes, RouteOK(r), out \in r.listed, NEW devs, NEW outs
    PROVE  LET q == select_output(r, devs, outs)
           IN  q \in Routes /\ RouteOK(q) /\ q.listed = r.listed
<1> DEFINE talking == {i \in Inputs \cap r.listed : conf[i].source = "voice_communication"}
           i == CHOOSE j \in talking : TRUE
           s == IF talking = {} THEN r ELSE select_input(r, i, conf[i], outs)
<1>1. s \in Routes /\ RouteOK(s) /\ s.listed = r.listed
  <2>1. CASE talking = {} BY <2>1
  <2>2. CASE talking # {}
    <3>1. i \in talking BY <2>2
    <3>2. i \in Inputs BY <3>1
    <3> HIDE DEF i, talking
    <3> QED BY <2>2, <3>2, SelectInputOK
  <2> QED BY <2>1, <2>2
<1> HIDE DEF s
<1>2. out \in s.listed /\ get_output_snd_device(devs) \in SUBSET Sounds
  BY <1>1, SoundsTyped
<1>3. LET q == Switch(s, out, get_output_snd_device(devs))
      IN  RouteOK(q) /\ q.listed = s.listed
  BY <1>1, <1>2, SwitchOK
<1>4. select_output(r, devs, outs) = Switch(s, out, get_output_snd_device(devs))
  BY DEF select_output, s
<1> QED BY <1>1, <1>3, <1>4, SelectTyped

\* Stream s is being started: its routing is set and its standby is not yet
\* cleared.
Busy(s) == \E t \in Threads : pc[t] = "started" /\ arg[t] = s

\* The use cases are those of the streams that run or are being started, and
\* an input that is closed does not run.
RouteInv ==
    /\ RouteOK(route)
    /\ \A s \in Streams : s \in route.listed <=> ~standby[s] \/ Busy(s)
    /\ \A i \in Inputs \ opened : standby[i]

\* A stream whose lock is free is not being started, and the output never is.
LEMMA NotBusy ==
    ASSUME Inv
    PROVE  ~Busy(out) /\ \A s \in Streams : lock[s] = NULL => ~Busy(s)
<1>1. \A s \in Streams : Busy(s) => \E t \in Threads : lock[s] = t
  BY DEF Busy, Inv, Owners, Held
<1>2. \A t \in Threads : arg[t] # out
  BY StreamsAssumption DEF Inv, TypeOK, Streams
<1> QED BY <1>1, <1>2, StreamsAssumption DEF Busy

\* do_in_standby_l with the input's lock free: its use case is gone.
LEMMA InStandbyRoute ==
    ASSUME Inv, RouteInv, NEW i \in Inputs, lock[i] = NULL, NEW r \in Routes, RouteOK(r),
           r.listed = route.listed, do_in_standby_l(i, r)
    PROVE  /\ RouteOK(route') /\ route'.listed = route.listed \ {i}
           /\ standby' = [standby EXCEPT ![i] = TRUE]
           /\ standby[i] => route' = r
<1>1. i \in Streams /\ standby \in [Streams -> BOOLEAN] BY DEF Inv, TypeOK, Streams
<1>2. i \in route.listed <=> ~standby[i] BY <1>1, NotBusy DEF RouteInv
<1>3. CASE standby[i]
  <2>1. standby[i] = TRUE BY <1>1, <1>3
  <2>2. standby' = [standby EXCEPT ![i] = TRUE] BY <1>1, <1>3, <2>1 DEF do_in_standby_l
  <2> QED BY <1>2, <1>3, <2>2 DEF do_in_standby_l
<1>4. CASE ~standby[i]
  <2>1. route' = Unlist(r, i) /\ standby' = [standby EXCEPT ![i] = TRUE]
    BY <1>4 DEF do_in_standby_l
  <2>2. RouteOK(Unlist(r, i)) /\ Unlist(r, i).listed = r.listed \ {i} BY <1>1, ListOK
  <2> QED BY <1>4, <2>1, <2>2
<1> QED BY <1>3, <1>4

\* Every step of the output, and below of an input, keeps the routing right.
LEMMA RouteOutputKeeps ==
    ASSUME Inv, RouteInv, NEW t \in Threads, OutputStep(t) \/ StartOutputFails(t)
    PROVE  RouteInv'
<1> USE DEF Goto, Return, lock_vars, stream_vars, adev_vars
<1>1. /\ out \in Streams /\ out \notin Inputs /\ route \in Routes /\ RouteOK(route)
      /\ standby \in [Streams -> BOOLEAN] /\ pc \in [Threads -> Labels]
      /\ out \in route.listed <=> ~standby[out]
      /\ Inputs \subseteq Streams
  BY StreamsAssumption, NotBusy DEF Inv, TypeOK, Streams, RouteInv
<1>2. \A s : Busy(s)' <=> Busy(s)
  <2>1. \A u \in Threads : /\ pc'[u] = "started" <=> pc[u] = "started"
                           /\ pc[u] = "started" => arg'[u] = arg[u]
    BY <1>1 DEF Inv, TypeOK, OutputStep, WriteEnter, StartOutput, StartOutputFails, PickReference,
                Transfer, ReopenFails, OutStandby, ForceInput, SetRouting
  <2> QED BY <2>1 DEF Busy
<1>3. opened' = opened
  BY DEF OutputStep, WriteEnter, StartOutput, StartOutputFails, PickReference, Transfer, ReopenFails,
         OutStandby, ForceInput, SetRouting
<1>4. ASSUME UNCHANGED standby, RouteOK(route'), route'.listed = route.listed
      PROVE  RouteInv'
  BY <1>2, <1>3, <1>4 DEF RouteInv
<1>5. CASE WriteEnter(t) \/ PickReference(t) \/ (\E ok \in BOOLEAN : Transfer(t, ok)) \/ ReopenFails(t)
  BY <1>1, <1>4, <1>5 DEF WriteEnter, PickReference, Transfer, ReopenFails
<1> DEFINE q == List(route, out)
           r == select_output(q, out_devices, {})
<1>6. standby[out] => /\ RouteOK(r) /\ r.listed = route.listed \cup {out}
                      /\ r \in Routes
  <2>1. q \in Routes BY <1>1, ListTyped
  <2>2. standby[out] => RouteOK(q) /\ q.listed = route.listed \cup {out} BY <1>1, ListOK
  <2> HIDE DEF q
  <2> QED BY <2>1, <2>2, SelectOutputOK
<1>7. CASE StartOutput(t)
  <2>1. CASE standby[out]
    <3>1. route' = r /\ standby' = [standby EXCEPT ![out] = FALSE]
      BY <1>7, <2>1 DEF StartOutput
    <3> HIDE DEF r
    <3>2. \A s \in Streams : s \in route'.listed <=> ~standby'[s] \/ Busy(s)
      BY <1>1, <1>6, <2>1, <3>1 DEF RouteInv
    <3> QED BY <1>1, <1>2, <1>3, <1>6, <2>1, <3>1, <3>2 DEF RouteInv
  <2>2. CASE ~standby[out] BY <1>1, <1>4, <1>7, <2>2 DEF StartOutput
  <2> QED BY <2>1, <2>2
<1>8. CASE StartOutputFails(t)
  <2>1. standby[out] /\ route' = Unlist(r, out) /\ UNCHANGED standby
    BY <1>8 DEF StartOutputFails
  <2> HIDE DEF r
  <2>2. RouteOK(Unlist(r, out)) /\ Unlist(r, out).listed = r.listed \ {out}
    BY <1>1, <1>6, <2>1, ListOK
  <2>3. route'.listed = route.listed BY <1>1, <1>6, <2>1, <2>2
  <2> QED BY <1>4, <2>1, <2>2, <2>3
<1>9. ASSUME do_out_standby_l(route) PROVE RouteInv'
  <2>1. /\ route' = Unlist(route, out) /\ standby' = [standby EXCEPT ![out] = TRUE]
    BY <1>9 DEF do_out_standby_l
  <2>2. RouteOK(route') /\ route'.listed = route.listed \ {out} BY <1>1, <2>1, ListOK
  <2>3. \A s \in Streams : s \in route'.listed <=> ~standby'[s] \/ Busy(s)
    BY <1>1, <2>1, <2>2, NotBusy DEF RouteInv
  <2> QED BY <1>1, <1>2, <1>3, <2>1, <2>2, <2>3 DEF RouteInv
<1>10. CASE OutStandby(t)
  BY <1>1, <1>4, <1>9, <1>10 DEF OutStandby
<1>11. CASE \E devs \in RoutesOut : SetRouting(t, devs)
  <2>1. PICK devs \in RoutesOut : SetRouting(t, devs) BY <1>11
  <2>2. CASE do_out_standby_l(route) BY <1>9, <2>2
  <2>3. CASE ~do_out_standby_l(route) /\ ~standby[out]
    <3>1. route' = select_output(route, devs, devs) /\ UNCHANGED standby
      BY <2>1, <2>3 DEF SetRouting
    <3>2. RouteOK(route') /\ route'.listed = route.listed
      BY <1>1, <2>3, <3>1, SelectOutputOK
    <3> QED BY <1>4, <3>1, <3>2
  <2>4. CASE standby[out] BY <1>1, <1>4, <2>1, <2>4 DEF SetRouting
  <2> QED BY <2>2, <2>3, <2>4
<1>12. CASE ForceInput(t)
  <2>1. /\ arg[t] \in Inputs /\ lock[arg[t]] = NULL /\ do_in_standby_l(arg[t], route)
    BY <1>12 DEF ForceInput, Inv, TypeOK, Forced
  <2>2. /\ RouteOK(route') /\ route'.listed = route.listed \ {arg[t]}
        /\ standby' = [standby EXCEPT ![arg[t]] = TRUE]
    BY <1>1, <2>1, InStandbyRoute
  <2>3. \A s \in Streams : s \in route'.listed <=> ~standby'[s] \/ Busy(s)
    BY <1>1, <2>1, <2>2, NotBusy DEF RouteInv
  <2> QED BY <1>1, <1>2, <1>3, <2>2, <2>3 DEF RouteInv
<1> QED BY <1>5, <1>7, <1>8, <1>10, <1>11, <1>12 DEF OutputStep

LEMMA RouteInputKeeps ==
    ASSUME Inv, RouteInv, NEW t \in Threads, InputStep(t) \/ StartInputFails(t)
    PROVE  RouteInv'
<1> USE DEF Goto, Return, lock_vars, stream_vars, adev_vars
<1> DEFINE i == arg[t]
<1>1. /\ route \in Routes /\ RouteOK(route) /\ conf \in [Inputs -> Conf]
      /\ standby \in [Streams -> BOOLEAN] /\ pc \in [Threads -> Labels]
      /\ Inputs \subseteq Streams /\ opened \subseteq Inputs
  BY DEF Inv, TypeOK, Streams, RouteInv
<1>2. i \in opened /\ i \in Inputs /\ i \in Streams
  <2>1. pc[t] \in InLabels
    BY DEF InputStep, StartInputFails, ReadEnter, StartInput, Started, InTransfer, InStandby,
           Close, SetInput, AudioEffect, InLabels, InputCalls
  <2> QED BY <1>1, <2>1 DEF Inv, Args
<1>3. CASE StartInput(t) /\ standby[i]
  <2> DEFINE q == List(route, i)
  <2>1. i \notin route.listed /\ route' = Selected(i) /\ UNCHANGED <<standby, arg, opened>>
        /\ pc' = [pc EXCEPT ![t] = "started"]
    BY <1>2, <1>3, NotBusy DEF StartInput, HasBoth, RouteInv
  <2>2. q \in Routes /\ RouteOK(q) /\ q.listed = route.listed \cup {i}
    BY <1>1, <1>2, <2>1, ListTyped, ListOK
  <2> HIDE DEF q
  <2>3. RouteOK(route') /\ route'.listed = route.listed \cup {i}
    <3>1. \E c, outs : route' = select_input(q, i, c, outs) BY <2>1 DEF Selected, q
    <3> QED BY <1>2, <2>2, <3>1, SelectInputOK
  <2>4. pc[t] = "start_input" BY <1>3 DEF StartInput
  <2>5. \A s : Busy(s)' <=> Busy(s) \/ s = i BY <1>1, <2>1, <2>4 DEF Busy
  <2> QED BY <1>1, <1>2, <2>1, <2>3, <2>5 DEF RouteInv
<1>4. CASE Started(t)
  <2>1. /\ standby' = [standby EXCEPT ![i] = FALSE] /\ UNCHANGED <<route, opened, arg>>
        /\ pc[t] = "started" /\ pc' = [pc EXCEPT ![t] = "in_transfer"]
    BY <1>4 DEF Started
  <2>2. \A s : Busy(s)' \/ s = i <=> Busy(s) BY <1>1, <2>1 DEF Busy
  <2>3. \A s \in Streams : s \in route'.listed <=> ~standby'[s] \/ Busy(s)'
    BY <1>1, <1>2, <2>1, <2>2 DEF RouteInv
  <2> QED BY <1>1, <1>2, <2>1, <2>3 DEF RouteInv
<1>5. CASE ~(StartInput(t) /\ standby[i]) /\ ~Started(t)
  <2>1. \A s : Busy(s)' <=> Busy(s)
    <3>1. pc'[t] # "started" /\ pc[t] # "started"
      BY <1>1, <1>5 DEF Inv, TypeOK, InputStep, ReadEnter, StartInput, StartInputFails, InTransfer,
                InStandby, Close, SetInput, AudioEffect, Started
    <3>2. \A u \in Threads \ {t} : pc'[u] = pc[u] /\ arg'[u] = arg[u]
      BY <1>1, <1>5 DEF Inv, TypeOK, InputStep, ReadEnter, StartInput, StartInputFails, InTransfer,
                InStandby, Close, SetInput, AudioEffect
    <3> QED BY <3>1, <3>2 DEF Busy
  <2>2. ASSUME UNCHANGED <<standby, opened>>, RouteOK(route'), route'.listed = route.listed
        PROVE  RouteInv'
    BY <2>1, <2>2 DEF RouteInv
  <2>3. CASE ReadEnter(t) \/ StartInput(t) \/ \E ok \in BOOLEAN : InTransfer(t, ok)
    BY <1>1, <1>5, <2>2, <2>3 DEF ReadEnter, StartInput, InTransfer
  <2>4. CASE StartInputFails(t)
    <3> DEFINE q == List(route, i)
    <3>1. i \notin route.listed /\ route' = Unlist(Selected(i), i) /\ UNCHANGED <<standby, opened>>
      BY <1>2, <2>4, NotBusy DEF StartInputFails, HasBoth, RouteInv
    <3>2. q \in Routes /\ RouteOK(q) /\ q.listed = route.listed \cup {i}
      BY <1>1, <1>2, <3>1, ListTyped, ListOK
    <3> HIDE DEF q
    <3>3. Selected(i) \in Routes /\ RouteOK(Selected(i)) /\ Selected(i).listed = q.listed
      <4>1. \E c, outs : Selected(i) = select_input(q, i, c, outs) BY DEF Selected, q
      <4> QED BY <1>2, <3>2, <4>1, SelectInputOK
    <3>4. RouteOK(route') /\ route'.listed = route.listed
      <4>1. /\ RouteOK(Unlist(Selected(i), i))
            /\ Unlist(Selected(i), i).listed = Selected(i).listed \ {i}
        BY <1>2, <3>3, ListOK
      <4> QED BY <3>1, <3>2, <3>3, <4>1
    <3> QED BY <2>2, <3>1, <3>4
  <2>5. ASSUME NEW r \in Routes, RouteOK(r), r.listed = route.listed, lock[i] = NULL,
               do_in_standby_l(i, r), opened' = opened \/ opened' = opened \ {i}
        PROVE  RouteInv'
    <3>1. /\ RouteOK(route') /\ route'.listed = route.listed \ {i}
          /\ standby' = [standby EXCEPT ![i] = TRUE]
      BY <1>2, <2>5, InStandbyRoute
    <3>2. \A s \in Streams : s \in route'.listed <=> ~standby'[s] \/ Busy(s)
      BY <1>1, <1>2, <2>5, <3>1, NotBusy DEF RouteInv
    <3> QED BY <1>1, <1>2, <2>1, <2>5, <3>1, <3>2 DEF RouteInv
  <2>6. CASE InStandby(t) \/ Close(t)
    BY <1>1, <2>5, <2>6 DEF InStandby, Close, HasBoth
  <2>7. CASE \E source \in InSources \cup {"hotword"}, dev \in RoutesIn : SetInput(t, source, dev)
    <3>1. PICK source \in InSources \cup {"hotword"}, dev \in RoutesIn : SetInput(t, source, dev)
      BY <2>7
    <3>2. opened' = opened /\ lock[i] = NULL BY <3>1 DEF SetInput, HasBoth
    <3>3. CASE do_in_standby_l(i, route) BY <1>1, <2>5, <3>2, <3>3
    <3>4. CASE ~do_in_standby_l(i, route)
      <4>1. /\ UNCHANGED standby
            /\ UNCHANGED route \/ \E c, outs : route' = select_input(route, i, c, outs)
        BY <3>1, <3>4 DEF SetInput
      <4>2. RouteOK(route') /\ route'.listed = route.listed
        <5>1. CASE UNCHANGED route BY <1>1, <5>1
        <5>2. CASE \E c, outs : route' = select_input(route, i, c, outs)
          <6>1. PICK c, outs : route' = select_input(route, i, c, outs) BY <5>2
          <6> QED BY <1>1, <1>2, <6>1, SelectInputOK
        <5> QED BY <4>1, <5>1, <5>2
      <4> QED BY <2>2, <3>2, <4>1, <4>2
    <3> QED BY <3>3, <3>4
  <2>8. CASE \E enable \in BOOLEAN : AudioEffect(t, enable)
    <3>1. PICK enable \in BOOLEAN : AudioEffect(t, enable) BY <2>8
    <3> DEFINE c == [conf[i] EXCEPT !.enable_aec = enable]
               r == IF standby[i] THEN route
                    ELSE select_input(route, i, c, IF standby[out] THEN {} ELSE out_devices)
    <3>2. opened' = opened /\ lock[i] = NULL /\ do_in_standby_l(i, r)
      BY <3>1 DEF AudioEffect, HasBoth
    <3>3. r \in Routes /\ RouteOK(r) /\ r.listed = route.listed
      <4>1. r = route \/ \E d, outs : r = select_input(route, i, d, outs) OBVIOUS
      <4> HIDE DEF r
      <4>2. CASE r = route BY <1>1, <4>2
      <4>3. CASE \E d, outs : r = select_input(route, i, d, outs)
        <5>1. PICK d, outs : r = select_input(route, i, d, outs) BY <4>3
        <5> QED BY <1>1, <1>2, <5>1, SelectInputOK
      <4> QED BY <4>1, <4>2, <4>3
    <3> HIDE DEF r
    <3> QED BY <2>5, <3>2, <3>3
  <2> QED BY <1>5, <2>3, <2>4, <2>6, <2>7, <2>8 DEF InputStep
<1> QED BY <1>3, <1>4, <1>5

LEMMA RouteHolds == Spec => []RouteInv
<1>1. Init => RouteInv
  <2> SUFFICES ASSUME Init PROVE RouteInv OBVIOUS
  <2>1. route.listed = {} /\ \A d : Users(route, d) = {} BY DEF Init, Users
  <2>2. RouteOK(route)
    <3>1. \A s \in Streams : route.use[s] = {} BY DEF Init
    <3>2. \A d \in Sounds : route.cnt[d] = 0 /\ d \notin route.applied BY DEF Init
    <3>3. IsFiniteSet({}) /\ Cardinality({}) = 0 BY FS_EmptySet
    <3> QED BY <2>1, <3>1, <3>2, <3>3 DEF RouteOK
  <2> QED BY <2>2 DEF Init, RouteInv, Busy, Streams
<1>2. Inv /\ RouteInv /\ [Next]_vars => RouteInv'
  <2> SUFFICES ASSUME Inv, RouteInv, [Next]_vars PROVE RouteInv' OBVIOUS
  <2>1. CASE OpenInput
    <3>1. PICK i \in Inputs : \E source : \E dev : Open(i, source, dev) BY <2>1 DEF OpenInput
    <3>2. UNCHANGED <<pc, arg, route>> /\ opened' = opened \cup {i} /\ i \notin opened
      BY <3>1 DEF Open
    <3>3. standby[i] = TRUE /\ standby' = standby
      BY <3>1, <3>2 DEF Open, RouteInv, Inv, TypeOK, Streams
    <3> QED BY <3>2, <3>3 DEF RouteInv, Busy
  <2>2. ASSUME NEW t \in Threads, CallOutput(t) \/ CallInput(t) \/ Step(t) \/ Fails(t)
        PROVE  RouteInv'
    <3>1. CASE CallOutput(t) \/ CallInput(t) \/ TakeInputs(t)
      <4>1. UNCHANGED <<route, standby, opened>>
        BY <3>1 DEF CallOutput, CallInput, Call, TakeInputs, lock_vars, stream_vars, adev_vars
      <4>2. \A u \in Threads : /\ pc'[u] = "started" <=> pc[u] = "started"
                               /\ pc[u] = "started" => arg'[u] = arg[u]
        BY <3>1 DEF CallOutput, CallInput, Call, Goto, TakeInputs, Inv, TypeOK
      <4> QED BY <4>1, <4>2 DEF RouteInv, Busy
    <3>2. CASE OutputStep(t) \/ StartOutputFails(t) BY <3>2, RouteOutputKeeps
    <3>3. CASE InputStep(t) \/ StartInputFails(t) BY <3>3, RouteInputKeeps
    <3> QED BY <2>2, <3>1, <3>2, <3>3 DEF Step, Fails
  <2>3. CASE UNCHANGED vars
    BY <2>3 DEF vars, lock_vars, stream_vars, adev_vars, RouteInv, Busy
  <2> QED BY <2>1, <2>2, <2>3 DEF Next, Hung
<1> QED BY <1>1, <1>2, InvHolds, PTL DEF Spec

-----------------------------------------------------------------------------
(* One input at a time                                                     *)

Reading == {"read", "start_input", "started", "in_transfer"}

\* Input i records or is about to.
Live(i) == ~standby[i] \/ Busy(i)

\* While a read of an input is in progress no other input records or is read,
\* and an input that is live is the active one.
Solo ==
    /\ \A t \in Threads : pc[t] \in Reading =>
          /\ t \in Recorders
          /\ \A j \in Inputs \ {arg[t]} : standby[j]
          /\ \A u \in Threads : pc[u] \in Reading => arg[u] = arg[t]
    /\ \A i \in Inputs : Live(i) => active_input = i

\* The first part of Solo is only about what threads read and who stands by.
LEMMA ReadersKeep ==
    ASSUME TypeOK, Solo, NEW t \in Threads,
           \A u \in Threads \ {t} : pc'[u] = pc[u] /\ arg'[u] = arg[u],
           pc'[t] \in Reading => pc[t] \in Reading /\ arg'[t] = arg[t],
           \A j \in Inputs : standby[j] => standby'[j] \/ (pc[t] \in Reading /\ j = arg[t])
    PROVE  \A v \in Threads : pc'[v] \in Reading =>
              /\ v \in Recorders
              /\ \A j \in Inputs \ {arg'[v]} : standby'[j]
              /\ \A u \in Threads : pc'[u] \in Reading => arg'[u] = arg'[v]
<1>1. \A u \in Threads : pc'[u] \in Reading => pc[u] \in Reading /\ arg'[u] = arg[u]
  OBVIOUS
<1>2. ASSUME NEW v \in Threads, pc'[v] \in Reading, NEW j \in Inputs \ {arg'[v]}
      PROVE  standby'[j]
  <2>1. standby[j] BY <1>1, <1>2 DEF Solo
  <2>2. pc[t] \in Reading => arg[t] = arg[v] BY <1>1, <1>2 DEF Solo
  <2> QED BY <1>1, <1>2, <2>1, <2>2
<1> QED BY <1>1, <1>2 DEF Solo

\* After do_in_standby_l of a live input no input is live.
LEMMA StandbyAlone ==
    ASSUME Inv, RouteInv, Solo, NEW i \in Inputs, lock[i] = NULL, ~standby[i],
           NEW r, do_in_standby_l(i, r), \A s : Busy(s)' => Busy(s)
    PROVE  \A j \in Inputs : ~Live(j)'
<1>1. standby' = [standby EXCEPT ![i] = TRUE] BY DEF do_in_standby_l
<1>2. i \in Streams /\ standby \in [Streams -> BOOLEAN] BY DEF Inv, TypeOK, Streams
<1>3. ASSUME NEW j \in Inputs, Live(j)' PROVE FALSE
  <2>1. Live(i) BY DEF Live
  <2>2. CASE j = i
    <3>1. ~Busy(i) BY <1>2, NotBusy
    <3> QED BY <1>1, <1>2, <1>3, <2>2, <3>1 DEF Live
  <2>3. CASE j # i
    <3>1. Live(j) BY <1>1, <1>2, <1>3, <2>3 DEF Live
    <3> QED BY <2>1, <2>3, <3>1 DEF Solo
  <2> QED BY <2>2, <2>3
<1> QED BY <1>3

\* Only one input is read, started or stopped by a failed read at a time.
LEMMA SoloKeeps ==
    ASSUME Inv, RouteInv, Solo, NEW t \in Threads,
           CallOutput(t) \/ CallInput(t) \/ Step(t) \/ Fails(t)
    PROVE  Solo'
<1> USE DEF Goto, Return, lock_vars, stream_vars, adev_vars
<1>1. /\ TypeOK /\ Args /\ Forced /\ out \notin Inputs /\ Inputs \subseteq Streams
      /\ standby \in [Streams -> BOOLEAN] /\ pc \in [Threads -> Labels]
      /\ arg \in [Threads -> Inputs \cup {NULL}]
      /\ opened \subseteq Inputs
  BY StreamsAssumption DEF Inv, TypeOK, Streams
<1>2. CASE CallInput(t) \/ CallOutput(t) \/ TakeInputs(t)
  <2>1. UNCHANGED <<standby, active_input>>
    BY <1>2 DEF CallOutput, CallInput, Call, TakeInputs
  <2>2. \A s : Busy(s)' <=> Busy(s)
    <3>1. \A u \in Threads : /\ pc'[u] = "started" <=> pc[u] = "started"
                             /\ pc[u] = "started" => arg'[u] = arg[u]
      BY <1>1, <1>2 DEF CallOutput, CallInput, Call, TakeInputs
    <3> QED BY <3>1 DEF Busy
  <2>3. \A u \in Threads \ {t} : pc'[u] = pc[u] /\ arg'[u] = arg[u]
    BY <1>1, <1>2 DEF CallOutput, CallInput, Call, TakeInputs
  <2>4. CASE pc'[t] \in Reading => pc[t] \in Reading /\ arg'[t] = arg[t]
    <3>1. \A v \in Threads : pc'[v] \in Reading =>
              /\ v \in Recorders
              /\ \A j \in Inputs \ {arg'[v]} : standby'[j]
              /\ \A u \in Threads : pc'[u] \in Reading => arg'[u] = arg'[v]
      BY <1>1, <2>1, <2>3, <2>4, ReadersKeep
    <3> QED BY <2>1, <2>2, <3>1 DEF Solo, Live
  <2>5. CASE pc'[t] \in Reading /\ ~(pc[t] \in Reading /\ arg'[t] = arg[t])
    <3>1. PICK i \in Inputs : t \in Recorders /\ MayRead(i) /\ Call(t, "read", i)
      BY <1>1, <1>2, <2>5 DEF CallOutput, CallInput, Call, TakeInputs, Reading
    <3>2. /\ pc'[t] = "read" /\ arg'[t] = i
      BY <1>1, <3>1 DEF Call
    <3>3. /\ \A j \in Inputs \ {i} : standby[j] /\ \A u \in Recorders : arg[u] # j
      BY <3>1 DEF MayRead
    <3>4. \A u \in Threads : pc'[u] \in Reading => u \in Recorders /\ arg'[u] = i
      <4>1. ASSUME NEW u \in Threads, u # t, pc'[u] \in Reading
            PROVE  u \in Recorders /\ arg'[u] = i
        <5>1. pc[u] \in Reading /\ arg'[u] = arg[u] BY <2>3, <4>1
        <5>2. u \in Recorders BY <5>1 DEF Solo
        <5>3. arg[u] \in Inputs BY <1>1, <5>1 DEF Args, InLabels, Reading
        <5> QED BY <3>3, <5>1, <5>2, <5>3
      <4> QED BY <3>1, <3>2, <4>1
    <3> QED BY <2>1, <2>2, <3>3, <3>4 DEF Solo, Live
  <2> QED BY <2>4, <2>5
<1>3. CASE OutputStep(t) \/ StartOutputFails(t)
  <2>1. \A u \in Threads : /\ pc'[u] = "started" <=> pc[u] = "started"
                           /\ pc[u] = "started" => arg'[u] = arg[u]
    BY <1>1, <1>3 DEF OutputStep, WriteEnter, StartOutput, StartOutputFails, PickReference,
                Transfer, ReopenFails, OutStandby, ForceInput, SetRouting
  <2>2. \A s : Busy(s)' <=> Busy(s) BY <2>1 DEF Busy
  <2>3. \A u \in Threads \ {t} : pc'[u] = pc[u] /\ arg'[u] = arg[u]
    BY <1>1, <1>3 DEF OutputStep, WriteEnter, StartOutput, StartOutputFails, PickReference,
                Transfer, ReopenFails, OutStandby, ForceInput, SetRouting
  <2>4. pc'[t] \notin Reading
    BY <1>1, <1>3 DEF OutputStep, WriteEnter, StartOutput, StartOutputFails, PickReference,
                Transfer, ReopenFails, OutStandby, ForceInput, SetRouting, Reading
  <2>5. CASE ForceInput(t)
    <3>1. /\ arg[t] \in Inputs /\ lock[arg[t]] = NULL /\ do_in_standby_l(arg[t], route)
      BY <1>1, <2>5 DEF ForceInput, Forced
    <3>2. \A j \in Inputs : standby[j] => standby'[j]
      BY <1>1, <3>1 DEF do_in_standby_l
    <3>3. \A i \in Inputs : Live(i)' => active_input' = i
      <4>1. CASE standby[arg[t]]
        <5>1. UNCHANGED <<standby, active_input>> BY <3>1, <4>1 DEF do_in_standby_l
        <5> QED BY <2>2, <5>1 DEF Solo, Live
      <4>2. CASE ~standby[arg[t]] BY <2>2, <3>1, <4>2, StandbyAlone
      <4> QED BY <4>1, <4>2
    <3> QED BY <1>1, <2>3, <2>4, <3>2, <3>3, ReadersKeep DEF Solo
  <2>6. CASE ~ForceInput(t)
    <3>1. active_input' = active_input /\ \A j \in Inputs : standby'[j] = standby[j]
      BY <1>1, <1>3, <2>6
      DEF OutputStep, WriteEnter, StartOutput, StartOutputFails, PickReference,
          Transfer, ReopenFails, OutStandby, SetRouting, do_out_standby_l
    <3> QED BY <1>1, <2>2, <2>3, <2>4, <3>1, ReadersKeep DEF Solo, Live
  <2> QED BY <2>5, <2>6
<1>4. CASE InputStep(t) \/ StartInputFails(t)
  <2> DEFINE i == arg[t]
  <2>1. i \in Inputs /\ i \in Streams
    <3>1. pc[t] \in InLabels
      BY <1>4 DEF InputStep, StartInputFails, ReadEnter, StartInput, Started, InTransfer, InStandby,
           Close, SetInput, AudioEffect, InLabels, InputCalls
    <3> QED BY <1>1, <3>1 DEF Args
  <2>2. \A u \in Threads \ {t} : pc'[u] = pc[u] /\ arg'[u] = arg[u]
    BY <1>1, <1>4 DEF InputStep, StartInputFails, ReadEnter, StartInput, Started, InTransfer,
           InStandby, Close, SetInput, AudioEffect
  <2>3. pc'[t] \in Reading => pc[t] \in Reading /\ arg'[t] = arg[t]
    BY <1>1, <1>4 DEF InputStep, StartInputFails, ReadEnter, StartInput, Started, InTransfer,
           InStandby, Close, SetInput, AudioEffect, Reading
  <2>4. \A j \in Inputs : standby[j] => standby'[j] \/ (pc[t] \in Reading /\ j = i)
    BY <1>1, <1>4, <2>1 DEF InputStep, StartInputFails, ReadEnter, StartInput, Started, InTransfer,
           InStandby, Close, SetInput, AudioEffect, Reading, do_in_standby_l
  <2>5. \A j \in Inputs : Live(j)' => active_input' = j
    <3>1. CASE (StartInput(t) /\ standby[i]) \/ StartInputFails(t)
      <4>1. /\ lock[i] = NULL /\ standby[i] /\ standby' = standby
            /\ pc[t] = "start_input" /\ UNCHANGED arg
            /\ pc'[t] = "started" => active_input' = i
        BY <1>1, <3>1 DEF StartInput, StartInputFails, HasBoth
      <4>2. ASSUME NEW j \in Inputs, Live(j)' PROVE j = i /\ pc'[t] = "started"
        <5>1. j # i => standby[j] BY <4>1 DEF Solo, Reading
        <5>2. Busy(j)' BY <4>1, <4>2, <5>1 DEF Live
        <5>3. PICK u \in Threads : pc'[u] = "started" /\ arg[u] = j BY <4>1, <5>2 DEF Busy
        <5>4. CASE u = t BY <5>3, <5>4
        <5>5. CASE u # t
          <6>1. pc[u] = "started" BY <2>2, <5>3, <5>5
          <6>2. j = i BY <4>1, <5>3, <6>1 DEF Solo, Reading
          <6>3. Busy(i) BY <5>3, <6>1, <6>2 DEF Busy
          <6> QED BY <2>1, <4>1, <6>3, NotBusy
        <5> QED BY <5>4, <5>5
      <4> QED BY <4>1, <4>2
    <3>2. CASE Started(t)
      <4>1. active_input' = active_input /\ pc[t] = "started" /\ UNCHANGED arg
            /\ standby' = [standby EXCEPT ![i] = FALSE] /\ pc'[t] = "in_transfer"
        BY <1>1, <3>2 DEF Started
      <4>2. Busy(i) BY <4>1 DEF Busy
      <4>3. \A j \in Inputs : Live(j)' => Live(j)
        BY <1>1, <2>1, <2>2, <4>1, <4>2 DEF Live, Busy
      <4> QED BY <4>1, <4>3 DEF Solo
    <3>3. CASE ~(StartInput(t) /\ standby[i]) /\ ~StartInputFails(t) /\ ~Started(t)
      <4>1. \A s : Busy(s)' => Busy(s)
        <5>1. \A u \in Threads : pc'[u] = "started" => pc[u] = "started" /\ arg'[u] = arg[u]
          BY <1>1, <1>4, <3>3 DEF InputStep, ReadEnter, StartInput, InTransfer,
                InStandby, Close, SetInput, AudioEffect
        <5> QED BY <5>1 DEF Busy
      <4>2. \/ UNCHANGED <<standby, active_input>>
            \/ lock[i] = NULL /\ \E r : do_in_standby_l(i, r)
        BY <1>1, <1>4, <3>3 DEF InputStep, ReadEnter, StartInput, InTransfer,
                InStandby, Close, SetInput, AudioEffect, HasBoth
      <4>3. CASE UNCHANGED <<standby, active_input>>
        BY <4>1, <4>3 DEF Solo, Live
      <4>4. CASE lock[i] = NULL /\ \E r : do_in_standby_l(i, r)
        <5>1. PICK r : do_in_standby_l(i, r) BY <4>4
        <5>2. CASE standby[i]
          <6>1. UNCHANGED <<standby, active_input>> BY <5>1, <5>2 DEF do_in_standby_l
          <6> QED BY <4>3, <6>1
        <5>3. CASE ~standby[i] BY <2>1, <4>1, <4>4, <5>1, <5>3, StandbyAlone
        <5> QED BY <5>2, <5>3
      <4> QED BY <4>2, <4>3, <4>4
    <3> QED BY <3>1, <3>2, <3>3
  <2> QED BY <1>1, <2>2, <2>3, <2>4, <2>5, ReadersKeep DEF Solo
<1> QED BY <1>2, <1>3, <1>4 DEF Step, Fails

LEMMA SoloHolds == Spec => []Solo
<1>1. Init => Solo BY DEF Init, Solo, Live, Busy, Reading, Streams
<1>2. Inv /\ RouteInv /\ Solo /\ [Next]_vars => Solo'
  <2> SUFFICES ASSUME Inv, RouteInv, Solo, [Next]_vars PROVE Solo' OBVIOUS
  <2>1. CASE OpenInput
    <3>1. PICK i \in Inputs : \E source : \E dev : Open(i, source, dev) BY <2>1 DEF OpenInput
    <3>2. UNCHANGED <<pc, arg, active_input>> BY <3>1 DEF Open
    <3>3. standby' = standby
      BY <3>1 DEF Open, RouteInv, Inv, TypeOK, Streams
    <3> QED BY <3>2, <3>3 DEF Solo, Live, Busy
  <2>2. CASE \E t \in Threads : CallOutput(t) \/ CallInput(t) \/ Step(t) \/ Fails(t)
    BY <2>2, SoloKeeps
  <2>3. CASE UNCHANGED vars
    BY <2>3 DEF vars, lock_vars, stream_vars, adev_vars, Solo, Live, Busy
  <2> QED BY <2>1, <2>2, <2>3 DEF Next, Hung
<1> QED BY <1>1, <1>2, InvHolds, RouteHolds, PTL DEF Spec

-----------------------------------------------------------------------------
(* The microphone and the echo reference of a recording input              *)

\* Thread t has chosen an input and will put it in standby.
Forcing(t) == pc[t] = "force" \/ (pc[t] \in OutLabels /\ arg[t] # NULL)

\* The microphone of input i depends on what plays.
Voice(i) == i \notin Hotword /\ conf[i].source \in {"voice_communication", "mic"}

Right(i) ==
    /\ route.use[i] = {get_input_snd_device(conf[i], Near(conf[i], out_devices))}
    /\ conf[i].enable_aec => in_echo[i] # NULL /\ in_echo[i] = echo.adev

\* While the output plays, a live voice input is right, or a thread that has
\* lock_inputs is on its way to restart it, or lock_inputs is lost.
Current ==
    ~standby[out] /\ lock_inputs # Lost =>
        \A i \in Inputs : Live(i) /\ Voice(i) =>
            Right(i) \/ \E t \in Threads : Forcing(t) /\ arg[t] = i

\* select_output leaves an input's microphone or selects it for outs.
LEMMA SelectOutputUse ==
    ASSUME NEW r \in Routes, RouteOK(r), NEW devs, NEW outs, NEW i \in Inputs, i \notin Hotword
    PROVE  select_output(r, devs, outs).use[i] \in
              {r.use[i], {get_input_snd_device(conf[i], Near(conf[i], outs))}}
<1> DEFINE talking == {j \in Inputs \cap r.listed : conf[j].source = "voice_communication"}
           k == CHOOSE j \in talking : TRUE
           s == IF talking = {} THEN r ELSE select_input(r, k, conf[k], outs)
           S == {get_input_snd_device(conf[i], Near(conf[i], outs))}
<1>0. i # out /\ i \in Streams BY StreamsAssumption DEF Streams
<1>1. s \in Routes /\ s.use[i] \in {r.use[i], S}
  <2>1. CASE talking = {} BY <2>1
  <2>2. CASE talking # {}
    <3>1. k \in talking BY <2>2
    <3>2. k \in Inputs /\ k \in r.listed BY <3>1
    <3>3. s = select_input(r, k, conf[k], outs) BY <2>2
    <3> HIDE DEF k, talking, s
    <3>4. s \in Routes BY <3>2, <3>3, SelectInputOK
    <3>5. CASE k = i BY <3>2, <3>3, <3>4, <3>5, SelectUse
    <3>6. CASE k # i
      <4>1. r.use \in [Streams -> SUBSET Sounds] BY DEF Routes
      <4>2. CASE k \in Hotword BY <3>3, <3>4, <4>2 DEF select_input
      <4>3. CASE k \notin Hotword
        <5> DEFINE T == {get_input_snd_device(conf[k], Near(conf[k], outs))}
        <5>1. s = Switch(r, k, T) BY <3>2, <3>3, <4>3 DEF select_input
        <5>2. T \in SUBSET Sounds BY SoundsTyped
        <5> HIDE DEF T
        <5>3. s.use = [r.use EXCEPT ![k] = T] BY <3>2, <5>1, <5>2, SwitchOK
        <5> QED BY <1>0, <3>4, <3>6, <4>1, <5>3
      <4> QED BY <4>2, <4>3
    <3> QED BY <3>4, <3>5, <3>6
  <2> QED BY <2>1, <2>2
<1> DEFINE O == get_output_snd_device(devs)
<1>2. select_output(r, devs, outs) = Switch(s, out, O) BY DEF select_output
<1> HIDE DEF s, S, O
<1>3. Switch(s, out, O).use[i] = s.use[i]
  <2>1. s.use \in [Streams -> SUBSET Sounds] BY <1>1 DEF Routes
  <2>2. CASE s.use[out] = O BY <2>2 DEF Switch
  <2>3. CASE s.use[out] # O
    <3>1. Switch(s, out, O).use = [s.use EXCEPT ![out] = O]
      BY <1>1, <2>3 DEF Switch, enable_snd_device, disable_snd_device, Routes
    <3> QED BY <1>0, <2>1, <3>1
  <2> QED BY <2>2, <2>3
<1> QED BY <1>1, <1>2, <1>3 DEF S

\* When the output starts or moves, the thread that made it do so has chosen
\* the live voice input to restart; nothing else the output does matters.
LEMMA CurrentOutputKeeps ==
    ASSUME Inv, RouteInv, Solo, Current, lock_inputs # Lost, lock_inputs' # Lost,
           NEW t \in Threads, OutputStep(t) \/ StartOutputFails(t)
    PROVE  Current'
<1> USE DEF Goto, Return, lock_vars, stream_vars, adev_vars
<1>1. /\ TypeOK /\ Args /\ Forced
      /\ out \notin Inputs /\ out \in Streams /\ Inputs \subseteq Streams
      /\ standby \in [Streams -> BOOLEAN] /\ pc \in [Threads -> Labels]
      /\ arg \in [Threads -> Inputs \cup {NULL}] /\ NULL \notin Inputs
      /\ route \in Routes /\ RouteOK(route) /\ echo \in EchoReferences
      /\ \A i \in Inputs : Live(i) => active_input = i
  BY StreamsAssumption DEF Inv, TypeOK, Streams, RouteInv, Solo
<1>2. \A s : Busy(s)' <=> Busy(s)
  <2>1. \A u \in Threads : /\ pc'[u] = "started" <=> pc[u] = "started"
                           /\ pc[u] = "started" => arg'[u] = arg[u]
    BY <1>1 DEF OutputStep, WriteEnter, StartOutput, StartOutputFails, PickReference,
                Transfer, ReopenFails, OutStandby, ForceInput, SetRouting
  <2> QED BY <2>1 DEF Busy
<1>3. \A u \in Threads \ {t} : pc'[u] = pc[u] /\ arg'[u] = arg[u]
  BY <1>1 DEF OutputStep, WriteEnter, StartOutput, StartOutputFails, PickReference,
              Transfer, ReopenFails, OutStandby, ForceInput, SetRouting
<1>4. CASE ForceInput(t)
  <2>1. /\ arg[t] \in Inputs /\ lock[arg[t]] = NULL /\ do_in_standby_l(arg[t], route)
        /\ active_input = arg[t]
    BY <1>1, <1>4 DEF ForceInput, Forced
  <2>2. ~standby[arg[t]]
    <3>1. ~Busy(arg[t]) BY <1>1, <2>1, NotBusy
    <3> QED BY <1>1, <2>1, <3>1 DEF Inv, ActiveRuns, Busy
  <2>3. \A j \in Inputs : ~Live(j)' BY <1>2, <2>1, <2>2, StandbyAlone
  <2> QED BY <2>3 DEF Current
<1>5. CASE ~ForceInput(t)
  <2>1. \A u \in Threads : Forcing(u) => Forcing(u)' /\ arg'[u] = arg[u]
    <3>1. Forcing(t) => Forcing(t)' /\ arg'[t] = arg[t]
      BY <1>1, <1>5 DEF OutputStep, WriteEnter, StartOutput, StartOutputFails, PickReference,
              Transfer, ReopenFails, OutStandby, SetRouting, Forcing, OutLabels, Forced
    <3> QED BY <1>3, <3>1 DEF Forcing
  <2>2. UNCHANGED <<conf, in_echo, active_input>> /\ \A j \in Inputs : standby'[j] = standby[j]
    BY <1>1, <1>5
    DEF OutputStep, WriteEnter, StartOutput, StartOutputFails, PickReference,
        Transfer, ReopenFails, OutStandby, SetRouting, do_out_standby_l
  <2>3. \A i \in Inputs : (Live(i)' <=> Live(i)) /\ (Voice(i)' <=> Voice(i))
    BY <1>2, <2>2 DEF Live, Voice
  <2>4. \A i \in Inputs : Live(i) /\ Voice(i) => Affected = i
    BY <1>1 DEF Affected, Voice
  <2>5. echo'.adev = echo.adev
    <3>1. echo' \in {echo, PickUp(echo), Refresh(echo), GiveBack(echo)}
      BY <1>1, <1>5
      DEF OutputStep, WriteEnter, StartOutput, StartOutputFails, PickReference,
          Transfer, ReopenFails, OutStandby, SetRouting, do_out_standby_l
    <3> QED BY <1>1, <3>1, OutputOK
  <2>6. CASE standby'[out] BY <2>6 DEF Current
  <2>7. ASSUME ~standby[out], out_devices' = out_devices,
               \A i \in Inputs : Live(i) /\ Voice(i) /\ Right(i) =>
                   route'.use[i] \in {route.use[i],
                                      {get_input_snd_device(conf[i], Near(conf[i], out_devices))}}
        PROVE  Current'
    <3>1. \A i \in Inputs : Live(i) /\ Voice(i) /\ Right(i) => Right(i)'
      BY <2>2, <2>5, <2>7 DEF Right
    <3> QED BY <2>1, <2>3, <2>7, <3>1 DEF Current
  <2>8. CASE ~standby'[out] /\ StartOutput(t) /\ standby[out]
    <3>1. pc'[t] = "pick" /\ arg'[t] = Affected BY <1>1, <2>8 DEF StartOutput
    <3>2. \A i \in Inputs : Live(i) /\ Voice(i) => Forcing(t)' /\ arg'[t] = i
      BY <1>1, <2>4, <3>1 DEF Forcing, OutLabels
    <3> QED BY <2>3, <3>2 DEF Current
  <2>9. CASE ~standby'[out] /\ \E devs \in RoutesOut : SetRouting(t, devs)
    <3>1. PICK devs \in RoutesOut : SetRouting(t, devs) BY <2>9
    <3>2. ~standby[out] BY <1>1, <2>9, <3>1 DEF SetRouting
    <3>3. route' = select_output(route, devs, devs) /\ out_devices' = devs
      BY <1>1, <2>9, <3>1, <3>2 DEF SetRouting, do_out_standby_l
    <3>4. CASE devs = out_devices
      <4>1. \A i \in Inputs : Live(i) /\ Voice(i) /\ Right(i) =>
              route'.use[i] \in {route.use[i],
                                 {get_input_snd_device(conf[i], Near(conf[i], out_devices))}}
        BY <1>1, <3>3, <3>4, SelectOutputUse DEF Voice
      <4> QED BY <2>7, <3>2, <3>3, <3>4, <4>1
    <3>5. CASE devs # out_devices
      <4>1. \A i \in Inputs : Live(i) /\ Voice(i) => pc'[t] = "force" /\ arg'[t] = i
        BY <1>1, <2>4, <3>1, <3>2, <3>5 DEF SetRouting
      <4> QED BY <2>3, <4>1 DEF Current, Forcing
    <3> QED BY <3>4, <3>5
  <2>10. CASE ~standby'[out] /\ ~(StartOutput(t) /\ standby[out])
                             /\ ~(\E devs \in RoutesOut : SetRouting(t, devs))
    <3>1. ~standby[out] /\ UNCHANGED <<out_devices, route>>
      BY <1>1, <1>5, <2>10
      DEF OutputStep, WriteEnter, StartOutput, StartOutputFails, PickReference,
          Transfer, ReopenFails, OutStandby, do_out_standby_l
    <3> QED BY <2>7, <3>1
  <2> QED BY <2>6, <2>8, <2>9, <2>10
<1> QED BY <1>4, <1>5

\* An input that starts takes the microphone and the reference of what plays,
\* and every other change of an input leaves none live or the live one right.
LEMMA CurrentInputKeeps ==
    ASSUME Inv, EchoInv, RouteInv, Solo, Current, lock_inputs # Lost, lock_inputs' # Lost,
           NEW t \in Threads, InputStep(t) \/ StartInputFails(t)
    PROVE  Current'
<1> USE DEF Goto, Return, lock_vars, stream_vars, adev_vars
<1>1. /\ TypeOK /\ Args /\ out \notin Inputs /\ out \in Streams /\ Inputs \subseteq Streams
      /\ standby \in [Streams -> BOOLEAN] /\ pc \in [Threads -> Labels]
      /\ arg \in [Threads -> Inputs \cup {NULL}] /\ NULL \notin Inputs
      /\ route \in Routes /\ RouteOK(route) /\ echo \in EchoReferences
      /\ conf \in [Inputs -> Conf] /\ in_echo \in [Inputs -> Refs \cup {NULL}]
      /\ \A j \in Inputs : Live(j) => active_input = j
  BY StreamsAssumption DEF Inv, TypeOK, Streams, RouteInv, Solo
<1>2. PICK i \in opened : i = arg[t] /\ i \in Inputs /\ i \in Streams /\ i # out
  <2>1. pc[t] \in InLabels
    BY DEF InputStep, StartInputFails, ReadEnter, StartInput, Started, InTransfer, InStandby,
         Close, SetInput, AudioEffect, InLabels, InputCalls
  <2> QED BY <1>1, <2>1 DEF Args, TypeOK
<1>3. \A u \in Threads \ {t} : pc'[u] = pc[u] /\ arg'[u] = arg[u]
  BY <1>1 DEF InputStep, StartInputFails, ReadEnter, StartInput, Started, InTransfer,
         InStandby, Close, SetInput, AudioEffect
<1>4. \A u \in Threads : Forcing(u) => Forcing(u)' /\ arg'[u] = arg[u]
  <2>1. ~Forcing(t)
    <3>1. pc[t] \notin OutLabels \cup {"force"}
      BY DEF InputStep, StartInputFails, ReadEnter, StartInput, Started, InTransfer, InStandby,
         Close, SetInput, AudioEffect, OutLabels
    <3> QED BY <3>1 DEF Forcing
  <2> QED BY <1>3, <2>1 DEF Forcing
<1>5. CASE \A j \in Inputs : ~Live(j)' BY <1>5 DEF Current
<1>6. out_devices' = out_devices /\ standby'[out] = standby[out]
  BY <1>1, <1>2 DEF InputStep, StartInputFails, ReadEnter, StartInput, Started, InTransfer,
         InStandby, Close, SetInput, AudioEffect, do_in_standby_l
<1>7. ASSUME UNCHANGED <<route, in_echo, echo>>,
             \A j \in Inputs : Live(j)' => Live(j) /\ conf'[j] = conf[j]
      PROVE  Current'
  <2>1. \A j \in Inputs : Live(j)' /\ Voice(j)' => Live(j) /\ Voice(j) /\ (Right(j) => Right(j)')
    BY <1>6, <1>7 DEF Voice, Right
  <2> QED BY <1>4, <1>6, <2>1 DEF Current
<1>8. ASSUME ~(StartInput(t) /\ standby[i]) PROVE \A s : Busy(s)' => Busy(s)
  <2>1. \A u \in Threads : pc'[u] = "started" => pc[u] = "started" /\ arg'[u] = arg[u]
    BY <1>1, <1>2, <1>8 DEF InputStep, ReadEnter, StartInput, StartInputFails, Started, InTransfer,
              InStandby, Close, SetInput, AudioEffect
  <2> QED BY <2>1 DEF Busy
<1>9. ASSUME lock[i] = NULL, ~standby[i], NEW r, do_in_standby_l(i, r), ~StartInput(t)
      PROVE  Current'
  BY <1>2, <1>5, <1>8, <1>9, StandbyAlone
<1>10. CASE ReadEnter(t) \/ (StartInput(t) /\ ~standby[i]) \/ \E ok \in BOOLEAN : InTransfer(t, ok)
  <2>1. UNCHANGED <<route, in_echo, echo, conf, standby>>
    BY <1>2, <1>10 DEF ReadEnter, StartInput, InTransfer
  <2>2. ~(StartInput(t) /\ standby[i])
    BY <1>10 DEF ReadEnter, StartInput, InTransfer
  <2> QED BY <1>7, <1>8, <2>1, <2>2 DEF Live
<1>11. CASE Started(t)
  <2>1. UNCHANGED <<route, in_echo, echo, conf>> /\ standby' = [standby EXCEPT ![i] = FALSE]
        /\ pc[t] = "started"
    BY <1>2, <1>11 DEF Started
  <2>2. Busy(i) BY <1>2, <2>1 DEF Busy
  <2>3. ~StartInput(t) BY <2>1 DEF StartInput
  <2> QED BY <1>1, <1>7, <1>8, <2>1, <2>2, <2>3 DEF Live
<1>12. CASE (StartInput(t) /\ standby[i]) \/ StartInputFails(t)
  <2>1. /\ lock[i] = NULL /\ standby[i] /\ standby' = standby /\ conf' = conf
        /\ pc[t] = "start_input" /\ UNCHANGED arg
    BY <1>1, <1>2, <1>12 DEF StartInput, StartInputFails, HasBoth
  <2>2. ASSUME NEW j \in Inputs, Live(j)' PROVE j = i /\ pc'[t] = "started"
    <3>1. j # i => standby[j] BY <1>2, <2>1 DEF Solo, Reading
    <3>2. Busy(j)' BY <2>1, <2>2, <3>1 DEF Live
    <3>3. PICK u \in Threads : pc'[u] = "started" /\ arg[u] = j BY <2>1, <3>2 DEF Busy
    <3>4. CASE u = t BY <1>2, <3>3, <3>4
    <3>5. CASE u # t
      <4>1. pc[u] = "started" BY <1>3, <3>3, <3>5
      <4>2. j = i BY <1>2, <2>1, <3>3, <4>1 DEF Solo, Reading
      <4>3. Busy(i) BY <3>3, <4>1, <4>2 DEF Busy
      <4> QED BY <1>2, <2>1, <4>3, NotBusy
    <3> QED BY <3>4, <3>5
  <2>3. CASE StartInputFails(t)
    <3>1. pc'[t] # "started" BY <1>1, <2>3 DEF StartInputFails
    <3> QED BY <1>5, <2>2, <3>1
  <2>4. CASE StartInput(t) /\ ~standby[out] /\ Voice(i)
    <3> DEFINE q == List(route, i)
    <3>1. TakeReference(i) /\ route' = Selected(i) BY <1>2, <2>1, <2>4 DEF StartInput
    <3>2. i \notin route.listed BY <1>2, <2>1, NotBusy DEF RouteInv
    <3>3. q \in Routes /\ RouteOK(q) /\ i \in q.listed
      <4>1. q \in Routes BY <1>1, <1>2, ListTyped
      <4>2. RouteOK(q) /\ q.listed = route.listed \cup {i} BY <1>1, <1>2, <3>2, ListOK
      <4> QED BY <4>1, <4>2
    <3>4. Selected(i) = select_input(q, i, conf[i], out_devices) BY <2>4 DEF Selected
    <3> HIDE DEF q
    <3>5. route'.use[i] = {get_input_snd_device(conf[i], Near(conf[i], out_devices))}
      BY <2>4, <3>1, <3>3, <3>4, SelectUse DEF Voice
    <3>6. conf[i].enable_aec => in_echo'[i] # NULL /\ in_echo'[i] = echo'.adev
      <4>1. CASE conf[i].enable_aec /\ in_echo[i] = NULL
        <5>1. PICK r \in Refs : echo' = get_echo_reference(echo, standby[out], r)
                               /\ in_echo' = [in_echo EXCEPT ![i] = echo'.adev]
          BY <3>1, <4>1 DEF TakeReference, Unused
        <5>2. echo'.adev = r /\ r # NULL
          BY <2>4, <5>1, RefsAssumption DEF get_echo_reference
        <5> QED BY <1>1, <1>2, <5>1, <5>2
      <4>2. CASE conf[i].enable_aec /\ in_echo[i] # NULL
        <5>1. UNCHANGED <<echo, in_echo>> BY <3>1, <4>2 DEF TakeReference
        <5>2. in_echo[i] = echo.adev BY <4>2 DEF EchoInv, InputHas
        <5> QED BY <4>2, <5>1, <5>2
      <4> QED BY <4>1, <4>2
    <3>7. Right(i)' BY <1>6, <2>1, <3>5, <3>6 DEF Right
    <3> QED BY <2>2, <3>7 DEF Current
  <2>5. CASE standby[out] \/ ~Voice(i)
    <3>1. Voice(i)' <=> Voice(i) BY <2>1 DEF Voice
    <3> QED BY <1>6, <2>2, <2>5, <3>1 DEF Current
  <2> QED BY <1>12, <2>3, <2>4, <2>5
<1>13. ASSUME lock[i] = NULL, standby[i], UNCHANGED <<route, in_echo, echo, standby>>,
              \A j \in Inputs \ {i} : conf'[j] = conf[j], ~StartInput(t)
       PROVE  Current'
  <2>1. ~Live(i)' BY <1>2, <1>8, <1>13, NotBusy DEF Live
  <2>2. \A j \in Inputs : Live(j)' => Live(j) /\ conf'[j] = conf[j]
    BY <1>8, <1>13, <2>1 DEF Live
  <2> QED BY <1>7, <1>13, <2>2
<1>14. CASE InStandby(t) \/ Close(t)
  <2>1. lock[i] = NULL /\ do_in_standby_l(i, route) /\ conf' = conf /\ ~StartInput(t)
    BY <1>2, <1>14 DEF InStandby, Close, HasBoth, StartInput
  <2>2. CASE standby[i] BY <1>13, <2>1, <2>2 DEF do_in_standby_l
  <2>3. CASE ~standby[i] BY <1>9, <2>1, <2>3
  <2> QED BY <2>2, <2>3
<1>15. CASE \E source \in InSources \cup {"hotword"}, dev \in RoutesIn : SetInput(t, source, dev)
  <2>1. PICK source \in InSources \cup {"hotword"}, dev \in RoutesIn : SetInput(t, source, dev)
    BY <1>15
  <2> DEFINE c == [conf[i] EXCEPT !.source = source, !.devices = dev]
  <2>2. lock[i] = NULL /\ conf' = [conf EXCEPT ![i] = c] /\ ~StartInput(t)
    BY <1>2, <2>1 DEF SetInput, HasBoth, StartInput
  <2>3. conf[i] \in Conf BY <1>1, <1>2
  <2>4. CASE standby[i]
    BY <1>1, <1>2, <1>13, <2>1, <2>2, <2>4 DEF SetInput
  <2>5. CASE ~standby[i] /\ dev = conf[i].devices
    <3>1. source = conf[i].source /\ UNCHANGED <<standby, route, in_echo, echo>>
      BY <1>2, <2>1, <2>5 DEF SetInput
    <3>2. c = conf[i] BY <2>3, <2>5, <3>1 DEF Conf
    <3>3. conf' = conf BY <1>1, <2>2, <3>2
    <3> QED BY <1>7, <1>8, <2>2, <3>1, <3>3 DEF Live
  <2>6. CASE ~standby[i] /\ dev # conf[i].devices /\ Pcm(dev) # Pcm(conf[i].devices)
    <3>1. do_in_standby_l(i, route) BY <1>2, <2>1, <2>6 DEF SetInput
    <3> QED BY <1>9, <2>2, <2>6, <3>1
  <2>7. CASE ~standby[i] /\ dev # conf[i].devices /\ Pcm(dev) = Pcm(conf[i].devices)
    <3> DEFINE outs == IF standby[out] THEN {} ELSE out_devices
    <3>1. /\ i \notin Hotword /\ UNCHANGED <<standby, active_input, echo, in_echo>>
          /\ route' = select_input(route, i, c, outs)
      BY <1>2, <2>1, <2>7 DEF SetInput
    <3>2. Live(i) /\ i \in route.listed BY <1>2, <2>7 DEF Live, RouteInv
    <3>3. ASSUME NEW j \in Inputs, Live(j)' PROVE j = i
      <4>1. Live(j) BY <1>8, <2>2, <3>1, <3>3 DEF Live
      <4> QED BY <1>1, <1>2, <3>2, <4>1
    <3>4. conf'[i] = c /\ c.enable_aec = conf[i].enable_aec /\ c.source = conf[i].source
      <4>1. source = conf[i].source BY <1>2, <2>1, <2>7 DEF SetInput
      <4> QED BY <1>1, <1>2, <2>2, <2>3, <4>1 DEF Conf
    <3> HIDE DEF c
    <3>5. CASE standby[out] BY <1>6, <3>5 DEF Current
    <3>6. CASE ~standby[out]
      <4>1. route'.use[i] = {get_input_snd_device(c, Near(c, out_devices))}
        <5>1. route' = select_input(route, i, c, out_devices) BY <3>1, <3>6
        <5> QED BY <1>1, <3>1, <3>2, <5>1, SelectUse
      <4>2. Right(i) => Right(i)' BY <1>6, <3>1, <3>4, <4>1 DEF Right
      <4>3. Voice(i)' => Voice(i) BY <3>4 DEF Voice
      <4> QED BY <1>4, <3>2, <3>3, <3>6, <4>2, <4>3 DEF Current
    <3> QED BY <3>5, <3>6
  <2> QED BY <2>4, <2>5, <2>6, <2>7
<1>16. CASE \E enable \in BOOLEAN : AudioEffect(t, enable)
  <2>1. PICK enable \in BOOLEAN : AudioEffect(t, enable) BY <1>16
  <2>2. /\ lock[i] = NULL /\ ~StartInput(t)
        /\ \A j \in Inputs \ {i} : conf'[j] = conf[j]
        /\ \E r : do_in_standby_l(i, r) /\ (standby[i] => r = route)
    BY <1>1, <1>2, <2>1 DEF AudioEffect, HasBoth, StartInput
  <2>3. PICK r : do_in_standby_l(i, r) /\ (standby[i] => r = route) BY <2>2
  <2>4. CASE standby[i] BY <1>13, <2>2, <2>3, <2>4 DEF do_in_standby_l
  <2>5. CASE ~standby[i] BY <1>9, <2>2, <2>3, <2>5
  <2> QED BY <2>4, <2>5
<1> QED BY <1>10, <1>11, <1>12, <1>14, <1>15, <1>16 DEF InputStep

LEMMA CurrentHolds == Spec => []Current
<1>1. Init => Current BY DEF Init, Current, Streams
<1>2. Inv /\ EchoInv /\ RouteInv /\ Solo /\ Current /\ [Next]_vars => Current'
  <2> SUFFICES ASSUME Inv, EchoInv, RouteInv, Solo, Current, [Next]_vars, lock_inputs' # Lost
               PROVE  Current'
    BY DEF Current
  <2> lock_inputs # Lost
    BY LostOnce
  <2>1. CASE OpenInput
    <3>1. PICK i \in Inputs : \E source : \E dev : Open(i, source, dev) BY <2>1 DEF OpenInput
    <3>2. /\ UNCHANGED <<pc, arg, out_devices, route, echo>>
          /\ \A j \in Inputs \ {i} : conf'[j] = conf[j] /\ in_echo'[j] = in_echo[j]
          /\ \A u \in Threads : arg[u] # i
      BY <3>1 DEF Open, Inv, TypeOK
    <3>3. standby' = standby /\ standby[i]
      BY <3>1 DEF Open, RouteInv, Inv, TypeOK, Streams
    <3>4. ~Live(i)' BY <3>2, <3>3 DEF Live, Busy
    <3>5. \A j \in Inputs : Live(j)' /\ Voice(j)' => Live(j) /\ Voice(j) /\ (Right(j) => Right(j)')
      BY <3>2, <3>3, <3>4 DEF Live, Busy, Voice, Right
    <3> QED BY <3>2, <3>3, <3>5 DEF Current, Forcing
  <2>2. ASSUME NEW t \in Threads, CallOutput(t) \/ CallInput(t) \/ Step(t) \/ Fails(t)
        PROVE  Current'
    <3>1. CASE CallOutput(t) \/ CallInput(t) \/ TakeInputs(t)
      <4>1. UNCHANGED <<route, standby, opened, conf, in_echo, echo, out_devices>>
        BY <3>1 DEF CallOutput, CallInput, Call, TakeInputs, lock_vars, stream_vars, adev_vars
      <4>2. \A u \in Threads : /\ pc'[u] = "started" <=> pc[u] = "started"
                               /\ pc[u] = "started" => arg'[u] = arg[u]
        BY <3>1 DEF CallOutput, CallInput, Call, Goto, TakeInputs, Inv, TypeOK
      <4>3. \A u \in Threads : Forcing(u) => Forcing(u)' /\ arg'[u] = arg[u]
        BY <3>1 DEF CallOutput, CallInput, Call, Goto, TakeInputs, Inv, TypeOK, Args, Forcing,
                    OutLabels, InputCalls
      <4> QED BY <4>1, <4>2, <4>3 DEF Current, Live, Busy, Voice, Right
    <3>2. CASE OutputStep(t) \/ StartOutputFails(t) BY <3>2, CurrentOutputKeeps
    <3>3. CASE InputStep(t) \/ StartInputFails(t) BY <3>3, CurrentInputKeeps
    <3> QED BY <2>2, <3>1, <3>2, <3>3 DEF Step, Fails
  <2>3. CASE UNCHANGED vars
    BY <2>3 DEF vars, lock_vars, stream_vars, adev_vars, Current, Live, Busy, Voice, Right, Forcing
  <2> QED BY <2>1, <2>2, <2>3 DEF Next, Hung
<1> QED BY <1>1, <1>2, InvHolds, EchoHolds, RouteHolds, SoloHolds, PTL DEF Spec

-----------------------------------------------------------------------------
(* The theorems                                                            *)

\* Every variable stays in its type, in every run of any number of threads,
\* inputs and references.
THEOREM TypeCorrect == Spec => []TypeOK
<1>1. Inv => TypeOK BY DEF Inv
<1> QED BY <1>1, InvHolds, PTL

\* No call returns with the lock of a stream or adev->lock_inputs still locked,
\* but out_write at 3201, when the PCM could not be opened again after the
\* amplifier's configuration and an input was to be restarted: it leaves
\* lock_inputs locked, and nobody unlocks it after that.
THEOREM LocksReleased ==
    Spec => /\ [](\A t \in Threads : pc[t] = "idle" =>
                     lock_inputs # t /\ \A s \in Streams : lock[s] # t)
            /\ [][lock_inputs' = Lost =>
                     \/ lock_inputs = Lost
                     \/ \E t \in Threads : ReopenFails(t) /\ arg[t] # NULL]_vars
            /\ [][lock_inputs = Lost => lock_inputs' = Lost]_vars
<1>1. Inv => \A t \in Threads : pc[t] = "idle" =>
                lock_inputs # t /\ \A s \in Streams : lock[s] # t
  BY DEF Inv, Owners, Held, InputCalls, OutLabels
<1>2. Inv /\ [Next]_vars
        => [lock_inputs' = Lost =>
               \/ lock_inputs = Lost
               \/ \E t \in Threads : ReopenFails(t) /\ arg[t] # NULL]_vars
  BY LostOnce
<1>3. Inv /\ [Next]_vars => [lock_inputs = Lost => lock_inputs' = Lost]_vars
  BY LostOnce
<1> QED BY <1>1, <1>2, <1>3, InvHolds, PTL DEF Spec

\* out_write and out_set_parameters restart an input that is open and active,
\* with lock_inputs held since they chose it.
THEOREM RestartsActiveInput == Spec => []ForcedInputIsActive
<1>1. Inv => ForcedInputIsActive
  BY DEF Inv, Forced, ActiveRuns, ForcedInputIsActive
<1> QED BY <1>1, InvHolds, PTL

\* No echo reference is used after its release, released twice or lost,
\* however the device, the output and the inputs take and drop it.
THEOREM ReferenceSafe == Spec => []ReferenceOwned
<1>1. Inv /\ EchoInv => ReferenceOwned
  <2> SUFFICES ASSUME Inv, EchoInv PROVE ReferenceOwned OBVIOUS
  <2>1. \A i \in opened : in_echo[i] \in echo.live \cup {NULL}
    BY DEF EchoInv, EchoOK, InputHas
  <2> QED BY <2>1 DEF EchoInv, EchoOK, ReferenceOwned
<1> QED BY <1>1, InvHolds, EchoHolds, PTL

\* Whatever failed or was cut short, the mixer paths applied and the counters
\* are those of the streams that play, record or are about to.
THEOREM PathsRight == Spec => []PathsMatchUse
<1>1. RouteInv => PathsMatchUse
  BY DEF RouteInv, RouteOK, Users, Busy, PathsMatchUse
<1> QED BY <1>1, RouteHolds, PTL

\* A recording voice input never goes on with the microphone or the echo
\* reference of an output that has stopped playing there or moved.
THEOREM VoiceCurrent == Spec => []InputIsCurrent
<1>1. Inv /\ Current => InputIsCurrent
  <2> SUFFICES ASSUME Inv, Current, lock_inputs = NULL, ~standby[out],
                      NEW i \in Inputs \ Hotword, ~standby[i],
                      conf[i].source \in {"voice_communication", "mic"}
               PROVE  Right(i)
    BY DEF InputIsCurrent, Right
  <2>1. lock_inputs # Lost /\ \A t \in Threads : ~Forcing(t)
    BY StreamsAssumption DEF Inv, Forced, Forcing
  <2> QED BY <2>1 DEF Current, Live, Voice
<1> QED BY <1>1, InvHolds, CurrentHolds, PTL
=============================================================================
