# A TLA+ verification of the flounder device HALs

This directory holds TLA+ models of the stateful programs in the device tree of
the HTC "flounder" (Nexus 9), the TLC configurations that check them on small
instances, and proofs that TLAPS checks for every instance. `PROJECT.json` lists
the runs, the properties of each, a fault per property that the run detects, the
source lines each definition stands for, the hazards and the findings.

Paths below are relative to the repository. A reader who knows the code can start
at the table of modules; one who knows TLA+ at `OffloadStream.tla`.

## 1. Inventory

Most of the repository is configuration: makefiles, init scripts, overlays,
firmware, security policy. The programs with state of their own are the hardware
abstraction layers (HALs) that Android's services load, and healthd's board hook.

| Component | State | Operations | What it talks to |
|---|---|---|---|
| Offloaded output stream (`audio/hal/audio_hw.c`, `audio_hw.h`) | `standby`, `offload_state`, `compr`, the command list, `offload_thread_blocked`, the stream's part of `adev->usecase_list`; mutexes `lock`, `pre_lock`, `adev->lock`, `lock_inputs`; `cond`, `offload_cond` | write, pause, resume, flush, drain, standby, set_parameters, position queries, close; the callback thread | compress driver, visualizer library, AudioFlinger |
| Audio routing (same file) | use case list, sound device counters, mixer paths | `select_devices`, `enable/disable_snd_device` | mixer, every stream, under `adev->lock` |
| Echo reference (same file) | the device's and the output's reference, two generation numbers | `get/put_echo_reference`, pick-up by the output, write, read | inputs with an echo canceller, the primary output |
| Primary output and inputs (same file) | per stream `standby`, devices, source, PCM handles, preprocessors; `active_input`; mutexes `lock_inputs`, each stream's `lock` and `pre_lock` | write/read/standby/set_parameters, effects, open/close | ALSA, routing, the hotword stream of the sound trigger HAL |
| Dummy-buffer and amplifier threads (same file) | `dummybuf_thread_*`, `tfa9895_init`, `tfa9895_mode_change`, `tfa9895_lock` | open/close of the dummy buffer by `adev_open`, the two dummy threads, the configuration thread, set_mode, the amplifier's part of `out_write` | ALSA, the amplifier's DSP |
| Voice call (same file) | `in_call`, voice PCMs | device-wide set_parameters, set_voice_volume | ALSA |
| Offload visualizer, effects and thread (`audio/visualizer/nv_offload_visualizer.c`) | `created_effects_list`, `active_outputs_list`, `thread_status`, `exit_thread`; mutexes `lock`, `thread_lock`; `cond` | create, release, command (enable, disable, offload), start/stop output; the capture thread | effect framework, audio HAL, capture PCM |
| Offload visualizer, capture buffer (same file) | capture ring, write index, time of the last buffer, measurement slots | process, capture, measure, reset, init, set/get parameter | capture thread and framework |
| Sound trigger HAL (`audio/soundtrigger/sound_trigger_hw.c`) | model handle, callback, configuration, callback thread, its sockets, DSP power, streaming buffer | open, close, load, unload, start, stop; the callback thread; open/read for streaming | framework, kernel uevents, DSP, audio HAL |
| Sensor event ring (`libsensors/InputEventReader.cpp`) | `mHead`, `mCurr`, `mFreeSpace` | fill, readEvent, next | IIO device, sensor HAL |
| Sensor HAL (`libsensors/CwMcuSensor.cpp`, `sensors.cpp`) | `mEnabled`, IIO buffer switch, `revents`, pending flush | pollEvents, activate, batch, flush; one-shot self-disable | the hub's driver (sysfs, IIO), the wake pipe, the framework's two threads |
| Sensor time stamps (`CwMcuSensor.cpp`) | offset and slope, last event and stamp of each sensor; two mutexes that guard overlapping data | per event conversion, synchronisation thread | hub |
| Battery filter (`health/healthd-flounder.cpp`) | last level reported, its time, forced-drop flags, voltage threshold remembered | one update | healthd's loop, fuel gauge, voltage monitor in the kernel |
| Power HAL (`power/power_flounder.c`) | `low_power_mode`, boost descriptors | set_interactive, power_hint, set_feature | cpufreq and touch sysfs nodes |
| Lights, thermal | one mutex; none | write a value; read values | sysfs |

### Behaviours that are hard to get right

* **Threads inside drivers without a lock.** The offload thread drains the compress
  device with the stream's mutex released, while any call may close that device.
  The capture thread reads a PCM, and the sound trigger's thread polls and calls
  the framework, in the same way.
* **Joins with locks released or held.** `stop_output`, `stop_recognition` and
  `adev_close_output_stream` join a thread that wants the same mutex.
* **Condition variables.** Each sleep must have a wake-up on every path that makes
  its condition true; `pthread_cond_signal` wakes one waiter.
* **Lock order.** Seven mutexes in the audio HAL with the order written in
  `audio_hw.h`; `pre_lock` exists to let the offload thread in. `lock_inputs` stays
  locked across two functions so that an input chosen early can be restarted late.
* **Shared ownership.** An echo reference is released by the device or by the output,
  whoever drops it last, as decided by generation numbers.
* **Partial failure.** A compress device that is not ready, `pthread_create` failing,
  a socket pair that cannot be made, `read()` failing in the middle of a poll.
* **State read on one side of an unlock and used on the other**: the callback and
  configuration of the sound trigger, `revents` of the sensor HAL, `standby` of a
  write, `mEnabled` of a sensor.
* **Readings applied late.** The sensor hub's clock and the CPU's are read without a
  lock and applied under one, by two threads; the amplifier's mode is read and sent
  under another lock than the one it is changed under.
* **Handshakes by flags.** A dummy thread that was not scheduled yet looks like one
  that ended; then two of them share a flag, a timeout and a mutex.
* **Boundaries**: the wrap of the sensor ring, an index of the capture ring that may
  stand one past its end, an update in the same second as the last, a voltage equal to
  a threshold, the preprocessor table.
* **Restart**: healthd forgets what it told the kernel; the sensor hub's clock starts
  again at 0.

`PROJECT.json` lists each of them under `hazards` at the line where it bites, with
the properties that would show it going wrong, or why there is none yet.

### What makes each component correct

* Offloaded stream: the handle in use by the thread is never closed; a stream in
  standby owns nothing; path and device follow the play state; no command, wake-up
  or answer is lost; a close frees everything.
* Streams: an echo reference is released once and not used afterwards; an input chosen
  to be restarted is still there; a voice input follows the output's device; mixer paths
  are those of the use cases; a call leaves no mutex locked, but `out_write` at 3201.
* Visualizer: the two lists agree; one capture thread, exactly while there is an
  output; it sleeps only if nothing is enabled; calls return; enabled effects are fed.
* Sound trigger: an accepted recognition is served by one live thread, if one could be
  created; at most one event, none after stop; audio streamed in order.
* Sensor ring: a bounded first-in first-out queue.
* Sensors: events are never lost, doubled or reordered between kernel and caller; the
  caller's array is never overrun; an enabled sensor is served; one-shot is one shot.
* Capture buffer: a capture is the last audio played, a measurement is the peak of the
  last buffers measured.
* Time stamps: a sensor's stamps do not go back, and some time after the hub was reset
  none lies before the first event since the last synchronisation.
* Amplifier: configured while its clock runs, and for the last mode; dummy threads end.
* Battery: the level moves slowly, level 0 needs a cause, the right voltage
  is watched, and the gauge is reached in the end.

## 2. Plan

The first ten are done; the rest would follow in this order.

| # | Module(s) | What | State |
|---|---|---|---|
| 1 | `PlaybackControl`, `OffloadStream`, `OffloadStreamProofs` | offloaded output stream and its abstract specification | modelled, checked, all safety and the refinement proved |
| 2 | `Visualizer`, `VisualizerProofs` | effects, outputs, capture thread | modelled, checked, all safety proved |
| 3 | `SoundTrigger`, `SoundTriggerProofs` | sound trigger HAL | modelled, checked, all safety proved |
| 4 | `EventQueue`, `EventBuffer`, `EventRing` | sensor ring and the queue it implements | modelled, checked, refinement proved (in `SensorsProofs`) |
| 5 | `Sensors`, `SensorsProofs` | sensor HAL over the queue | modelled, checked, all safety proved |
| 6 | `HealthSoc`, `HealthSocProofs` | battery filter | modelled, checked, all safety proved |
| 7 | `AudioRouting`, `EchoReference`, `AudioStreams`, `AudioStreamsProofs` | primary output, inputs, `lock_inputs`, routing, echo reference | modelled, checked, all safety proved |
| 8 | `VisualizerCapture` | capture ring and measurements against what was played | modelled, checked, all safety proved (in `VisualizerProofs`) |
| 9 | `SensorClock`, `SensorClockProofs` | time stamps, the synchronisation thread, resets of the hub | modelled, checked, all safety proved |
| 10 | `Amplifier`, `AmplifierProofs` | dummy threads, configuration thread, mode changes, the amplifier's part of `out_write` | modelled, checked, all safety proved |
| 11 | `OffloadVisualizer` | `OffloadStream` and `Visualizer` together: effects attached exactly while the stream runs | planned |
| 12 | `InputFrames` | from the PCM to the caller of `in_read`: period buffer, preprocessors, echo reference, channels that are added and removed | planned |
| 13 | `PowerHal` | interactive, low power and boost, one of them without the mutex | planned |

Abstract specifications: `PlaybackControl` (the states a player sees) and
`EventQueue`/`EventBuffer` (a bounded queue) exist; planned are a one-shot
recognition (waiting, reported, stopped) for `SoundTrigger` and a counter-free
"path is applied while some use case needs it" for `AudioRouting`.

Theorems worth proving next: that the threads of `AudioStreams` never wait for each
other in a circle, as a property of the labels rather than of `ENABLED`; the same for
`Visualizer`; what of `OffloadStream` survives two clients that drive the stream.

## 3. The modules

Each component has one module with its state, actions and properties; an `MC`
module adds what only TLC needs (the elements of the sets, symmetry, which client
makes which calls), and a `Proofs` module holds the theorems. A definition whose
comment begins with *Fault* is a plausible mistake in the definition after it; it
is in no next-state relation, and serves to show that a property notices.

### OffloadStream, PlaybackControl

*State.* Every thread has a label (`pc`): the mutex it waits for or what it does
next. `locks` has the owner of `lock_inputs`, `pre_lock`, `lock` and `adev->lock`.
`cmds`, `cur`, `used` and `blocked` are the command list, the command taken, the
handle passed to the driver and `offload_thread_blocked`. `compr` is the stream's
handle, `dev` the driver's state of each handle. `uc` counts the stream's entries
of `adev->usecase_list`; `fx` is what the visualizer was told.

*Actions.* The code between two lock operations is one step: everything it touches
is guarded by the mutexes it holds. `out_write` is `WriteEnter`, `StartOutput` or
`StartFails`, `WriteFlushed`, `WriteEnable`, `SendMetadata`, `Put`; `do_out_standby_l` is
`BeginStandby`, `AwaitThread`, `FinishStandby`, and so on. `compress_write` may take
all of the data, a part of it, nothing, or fail; whatever it returned, `Put` calls `compress_start` and
says PLAYING if the state did not say so before, as the code does. `unstarted` remembers
a `compress_start` that found no data. Gapless metadata are set by `ParseMetadata` and `ParseFlag`
(the two halves of `parse_compress_metadata`, without a mutex), zeroed by `FinishStandby` and sent by
`SendMetadata`; `raced` remembers that the flag was set between the sending and the
reset of the flag, which loses it. What the offload thread
does in the driver without `out->lock` is split: it reads `out->compr` once or
twice (`NextTrack`, `EnterDriver`), leaves the driver, takes the mutexes again.
Condition variables have spurious wake-ups.

*Environment.* `MayCall` is what AudioFlinger keeps to: it closes a stream once and
alone, and does not write to a stream it paused. `Allowed` says which client makes
which calls. The driver is external: states as `tinycompress` and the HAL's use of
it imply.

*Abstract specification.* `PlaybackControl` has the four states a player sees;
`mode` maps `standby` and `offload_state` to them.

### Visualizer

*State.* The two lists (`created`, and `active` with `effects_list` per output), the
state and output of each effect, the two mutexes, `exit_thread`, `thread_status`,
the identity stored by `pthread_create`, and which threads have the PCM open.

*Actions.* Effect calls take only `lock` and are one step. The HAL's
`start_output` and `stop_output` take `thread_lock`, then `lock`; the last stop gives
up `lock`, joins, and takes it again. The capture thread's loop is `Capture`
(process what was read), `Sleep`, `ReadPcm`, `Exit`.

*Constants.* `Outputs` are the outputs an effect can be attached to, `Offloaded` those
of them that the audio HAL starts and stops. `MoveActive`: may `EFFECT_CMD_OFFLOAD`
move an enabled effect? Android's effect framework moves effects when a stream is
invalidated, mostly disabled ones. It is FALSE in the run: with TRUE, an enabled
effect moved to an active output does not wake the thread and may never be fed.

### VisualizerCapture

*State.* `capture_buf` is the ring, of which `capture_idx` is the write index and
`last_capture_idx` where it stood at the last capture; `updated` says whether
`buffer_update_time` is set and `age` how long ago that was. `past_meas` and `meas_buffer_idx`
are the slots of the measurements. The byte of a frame is the frame's number, so that
order and age of what a capture returns can be seen. The history variables say what was played
(`frames`, `heard`) and which buffers were measured (`measured`); the properties
compare with them.

*Actions.* `Process` is `visualizer_process` on a buffer: measure it, then copy it into
the ring. `CaptureCommand` and `Measure` are the two commands; `Copied` and `MeasuredPeak` are what
they answer, and `Reply` the answer of a capture when playback may have stalled. All of
them run under `lock`, so each is one step. `Reset`, `InitCommand`, `Control` (enable,
disable, offload) and the two parameters are the rest of `effect_command`. Names that
`Visualizer` has too begin with `Capture` here, so that `VisualizerProofs` can extend
both modules.

### SoundTrigger

All state is under `stdev->lock`, and nothing keeps it over a step, so a step is
one locked section or one thing done without the mutex: `poll`, the callback into
the framework, `pthread_join`. The audio HAL's hotword stream appears as `reader`.
`streaming_buf` holds the numbers of the pieces of audio the DSP handed out, so
that order and loss can be seen. `CreateThread` may fail, which the code does not look at:
the recognition is accepted, `callback_thread` keeps an old identity, and a stop joins
that. `uncreated` remembers it. The framework serializes its calls (one client),
passes the handles it was given and unloads before it closes (`MayClose`).

### EventQueue, EventBuffer, EventRing

`EventQueue` is a bounded queue with two steps, `Put` a block and `Take` one event;
`EventBuffer` names the block that arrives. `EventRing` is `InputEventReader`: an
array of twice the ring's size, head and current index and free space, `fill()` with
its read past the end and the copy to the front. `Unread` is the sequence of events
between current and head; `IsQueue` says that the ring implements `EventBuffer` with
`queue <- Unread`.

### Sensors

The poll thread's `pollEvents()` with `readEvents()` in it is cut where another
thread can come between: `Check`, `Fill`, `Process` (one event), `OneShotFired` (which
takes `sys_fs_mutex`), `Drained`, `Poll`. The framework's other thread does `Batch`,
`Activate`, `Wake`, `Deactivate`; bodies under `sys_fs_mutex` are one step. The ring
is the queue that `RingIsQueue` proves it to be. `PipeIsQueue` is the abstract
specification: kernel buffer and ring together (`Waiting`) are one `EventQueue`. Assumed of the environment: the
framework calls `batch()` immediately before it turns a sensor on, in one thread; the
driver keeps queued events when the buffer is disabled, hands out whole events, and
its `read()` of an empty buffer returns at once.

### SensorClock

*State.* `time_slope` and `time_offset` turn the hub's time into the CPU's; the two tables
have the last event of each sensor and its stamp, and `offset_reset` says which sensors take
the offset next. `read` has the two clocks as a thread read them, until it applies them. The
hub has a clock that starts again at each `run`, and events on their way.

*Actions.* A synchronisation is `ReadHub`, then `ReadCpu`, both without a lock and any time
apart, then `ApplySync` under `sync_timestamp_algo_mutex`; `ReadFails` is a hub that cannot be
read. The synchronisation thread does this again and again, and the poll thread when an
event's time is before the last one's. `TakeEvent`, `Convert` and `Store` are
one turn of the poll thread's loop; `Convert` is under that mutex and `Store` under another. `TurnOn`
is what `setEnable` does to the offset. Members that nobody initialises hold
any value of `Memory` at first. Both clocks run at the same rate.

*Floats.* `time_slope` is a float, and `Advanced` multiplies by it and converts back. `Scaled` stands
for what comes out: any integer within `Rounding` of the exact product that has its sign. That
covers the rounding of the quotient, of the difference and of the product while the
difference of the hub's times times the relative error of a float stays below
`Rounding`, which is any number in the proofs.

*What can be said of a stamp.* Not that an event is stamped after it happened: between two
synchronisations a stamp is the last one advanced by the slope, and the slope is off when
the clocks were read some time apart (196, 197), when it was divided by members nobody
initialised (`last_mcu_sync_time`, `last_cpu_sync_time` at the first synchronisation), or by rounding. The
offset is not: the hub's clock is read first, so the offset is at least the distance between
the clocks, and the first event after a synchronisation gets a stamp that is not before it. `first` is
when that event happened; `StampFollowsSync` says that no stamp of the sensor
lies before it until the next synchronisation. `synced` restricts this to an estimate
of the hub's present run, made when nothing of an earlier run was on its way or stored.

### Amplifier

*State.* The fields of `struct audio_device` of these names; `pcm` says which dummy
thread has the PCM open, `arg` the mode a thread read for `set_amp_mode()`, `amp` the mode
the amplifier is configured for. `stolen` remembers that a write released another
thread's `tfa9895_lock`.

*Actions.* A dummy thread holds `dummybuf_thread_lock` from its first line to a sleep;
its steps are the places where others see what it did: `DummySetup`, `DummyWrite`,
`DummyTest`, `DummyExit`. `Close` is `dummybuf_thread_close`, whose `pthread_join`
returns at once, because the threads detach themselves. A mutex can be initialised or
destroyed while a thread has it or waits for it: what that thread then gets is left open.
Polling loops with a bound may give up at any time. `ConfigThread`, `SetMode` with
`ModeChanged`, and `OutWrite` are the users of `tfa9895_lock`.

### HealthSoc

`Update(p, ok)` is one `healthd_board_battery_update` on gauge reading `p`, with
`sysinfo()` succeeding or not: `SocAdjust` (the filter), then `HealthCheck`,
`StatusCheck` and `VoltageMonitorCheck` on the adjusted level, in the code's order.
`Restart` clears healthd's static variables but not the kernel's threshold. The
time since the last update is kept up to one second beyond the minimum period,
from where it makes no difference. `Due` is the set of thresholds that lie ahead of the
battery, for the properties; `told` remembers that since healthd started there was one, from when
healthd knows what the kernel watches.

### AudioRouting, EchoReference, AudioStreams

`AudioRouting` and `EchoReference` are the two parts of the device's state that
`adev->lock` guards, as operators on a record each, so that they can be composed in
the order a locked section calls them. A routing has the use case list, the sound
devices of each use case, `snd_dev_ref_cnt` and the paths applied. An echo reference
record has the reference of the device, that of the output, whether the output's
generation is the device's, and which references are not released yet.

*State of `AudioStreams`.* `pc` and `arg` say where each thread is in its call and
which input it works on; in `out_write` and `out_set_parameters`, `arg` is the input to
restart. `lock_inputs` and `lock` have the owners of the mutexes; `standby`, `conf`,
`out_devices`, `active_input` are the fields of that name; `in_echo` has each input's
`echo_reference`.

*Actions.* What happens under `adev->lock` never waits, and the stream's mutex is
always taken right before it, so such a section is one step; a thread keeps a mutex
over several steps only where it transfers samples, or between `start_input_stream`
and the clearing of `standby`. Before, it waits for `lock_inputs` (`TakeInputs`), with
`standby` possibly changed by the time it has it. `out_write` is `WriteEnter`,
`StartOutput` or `StartOutputFails`, `PickReference`, `Transfer`, then `OutStandby` if it
failed and `ForceInput` if an input has to be restarted. `ReopenFails` is the return at 3201, after
the amplifier was configured: `lock_inputs` stays locked if there was an input to restart,
and its owner is then `Lost`. `pre_lock` only orders the waiters of a stream's mutex.

*Environment.* `audio_policy.conf` opens one output, the primary one, and never closes
it, so the model has one; it lets one client record at a time (`MayRead`). A stream is
closed when no call on it is in progress (`MayClose`), its source is changed only while
it does not record, and one input has an echo canceller at a time
(`AecAssumption`). Devices are the speaker, the headset and Bluetooth; there is
no voice call.

*Deadlock.* `audio_streams` is checked for deadlock: a thread may always call, unless it
waits, so a deadlock is a set of threads that wait for each other. Waiting for a
`lock_inputs` that was lost is none in this sense (`Hung`): it is what the code does.

## 4. The runs

### Runs that pass

| Run | Instance | What it shows |
|---|---|---|
| `offload_safety` | 2 clients (one makes every call, one drains, sets metadata and the mode), 2 handles, 2 commands, 2 list entries, 2 metadata | handle never closed under the thread; standby owns nothing; path and device follow the play state (but for a device started without data); the device knows the metadata set last (but for the race at 3064); clean close; `PlaybackControl` is implemented |
| `offload_live` | 2 clients (one plays, stops and closes, one queries), 1 handle, 1 command | stops and closes end unless the device was never started; answers are delivered |
| `visualizer` | 2 HAL threads, 2 thread identities, 2 outputs of which one is started and stopped, 1 effect, `pthread_create` may fail | lists agree; thread follows outputs; sleeps only if idle; every call returns; an enabled effect is fed for ever |
| `capture` | a ring of 3 frames, 2 measurement slots, buffers of 1 and 2 frames, captures of 2 and 3, samples of 3 bits | a capture is the last frames played; a measurement is the peak of the last buffers measured |
| `trigger` | 1 framework thread, 2 identities of the callback thread, 3 uevents, 6 pieces of audio, I/O and `pthread_create` may fail | recognitions served by one thread, if it could be created; one event, quiet after stop; audio in order; stops return; a hotword that arrived is reported |
| `event_ring` | ring of 3, 2 different events | the ring implements a bounded queue, for reads of every size at every position |
| `sensors` | an ordinary and the one-shot sensor; kernel buffer, ring and array of 2; a read or poll may fail once | one-shot is one shot; an enabled sensor has its buffer on; order; waiting events are worked on |
| `sensor_clock` | one sensor, the poll and the synchronisation thread, 5 units of time, one reset of the hub, 2 events on their way, memory of 0 or 2 at first, products rounded by 1 | stamps do not go back before the reset; in each run of the hub, once an estimate made in it is used, none lies before the first event since the last synchronisation |
| `health` | levels 0..4, voltages 0..4, period 1, `sysinfo` may fail | 0 has a cause; the level moves slowly; the kernel watches the next threshold and no other, over restarts; a critical battery ends at 0; a steady gauge is reached for good |
| `audio_streams` | a player, a recorder and a binder thread; the primary output, a voice input with an echo canceller, the hotword's input; 3 references; 3 output routes, 2 input devices, 2 sources (one whose microphone depends on the output, one that is only restarted); starts and transfers may fail | echo reference never used after release, never lost; the input to restart is open and active; a voice input follows the output; paths and counters are those in use; threads wait for each other in no circle, but for a lost `lock_inputs` |
| `amplifier` | the two dummy threads, a timeout of 1 round, 2 modes, one writer, one thread that sets the mode | a mode is not lost while no configuration failed and no lock was stolen; configured while a dummy thread plays; dummy threads end; no deadlock |

### Runs that end in a violation

It shows a place where the code does not do what a header says.

| Run | Statement | What happens |
|---|---|---|
| `offload_lock_order` | order of mutexes, `audio_hw.h` 438-449 | `pthread_cond_wait` in `stop_compressed_output_l` takes `out->lock` again with `adev->lock` held, while another call holds the stream and waits for the device |

Observations made while modelling, which no run is spent on:

* An enabled effect that `EFFECT_CMD_OFFLOAD` moves to an active output does not wake the
  capture thread (`nv_offload_visualizer.c` 1124-1154), which by the comment at 147 runs
  when "at least one visualizer effect is enabled on an active output".
* A one-shot sensor that turns itself off between another sensor's `batch()`, which finds
  it on and leaves the IIO buffer alone, and its `activate()` (`CwMcuSensor.cpp` 893, 1138,
  810) leaves that sensor on with the buffer off. `EnabledIsServed` excludes this with
  the history variable `undone`.
* A compress device that was started without data (`audio_hw.c` 3068-3076): when `compress_write`
  takes nothing, for an error or for want of room, `compress_start` is refused and the state becomes PLAYING
  all the same. Later writes see PLAYING and never start the device. A wait for room in
  it need not end, `compress_stop` is refused too, and a standby then waits for the offload
  thread with `adev->lock` held. `PlayingIsHeard`, `StopsEnd` and `CloseEnds` name this exception
  (`unstarted`, `Stuck`).
* `parse_compress_metadata` takes no mutex (2698-2728, from 2835): a flag it sets between 3064 and
  3065 is lost, and the device goes on with the old metadata (`raced` in `MetadataFirst`). A standby zeroes the
  metadata (2660); what the next start sends is zero unless they were set again.
* `pthread_create` is not looked at in three places. The sound trigger HAL (`sound_trigger_hw.c` 480) accepts
  the recognition that has no thread: no hotword is reported, later starts are refused
  until a stop, which joins an old identity (`uncreated` in `RecognitionIsServed`). A compress stream
  without its callback thread (`audio_hw.c` 2238) queues commands that nobody takes, and a dummy
  thread (4564) that was not created is closed as if it had been: these two are not modelled.
* `pollEvents` subtracts a negative error of `readEvents` from the room left in the
  caller's array and moves the place to store back (`sensors.cpp` 711). `EventsFlow`
  therefore holds only while no read failed (`errors = 0`), and says so.
* An elapsed time of 0 seconds passes both comparisons of the minimum period between
  two falls of the battery level (`healthd-flounder.cpp` 207).
* The capture thread calls `process` on every effect of an active output, enabled or
  not (`nv_offload_visualizer.c` 346), against the comment at 147.
* `effect_get_descriptor` walks `created_effects_list` without the mutex that "must be
  held when ... accessing created_effects_list" (150); a release at the same time can
  free the element it is at.
* Captures (`nv_offload_visualizer.c`): when playback stalls and the capture wraps, the
  `memset` at 785 starts after the part already copied, so old samples stay and as many bytes
  behind the reply are written; silence is answered once only, because it sets
  the time to 0; after a reset or such a capture the age of the measurements is 0 and stale
  ones are not thrown away (801); -32768 overflows `max_sample`; the latency parameter is
  accepted and never stored; a measure command ignores `offload_enabled`; the capture size
  is not bounded.
* Time stamps (`CwMcuSensor.cpp`): when a thread reads the clocks before another and
  applies them after it, the older estimate wins (191, 223); a sensor turned on sets
  `offset_reset` without a mutex (791). Neither makes the stamps of one run go back.
  The two clocks are read one after the other (196, 197), the slope is a float, and the first one is
  divided by members that nobody initialised: each can make the slope less than 1 or rounded down, and
  an event after the first of a synchronisation is then stamped before it happened. For instance
  (1, 3) and (4, 5), as times of the hub and the CPU whose clocks are one apart, have
  a slope of 2/3: the event of 4 (at 5) is stamped 5, that of 5 (at 6) is stamped 5.
* healthd, started again, takes the kernel's threshold for 0 and writes nothing while it computes 0
  itself (`healthd-flounder.cpp` 149): one that the earlier healthd wrote stays until a threshold is due. `VoltageIsWatched`
  names this (`told`).
* `processEvent` stores the pending event of the identifiers 97 to 99 beyond the end of its
  table (1168).
* The amplifier (`audio_hw.c`): a write for another device than the speaker unlocks
  `tfa9895_lock` without locking it (3205); if that frees it for another thread, the call with
  the older mode can be the last. `ModeIsNotLost` excludes this with `stolen`.
* `dummybuf_thread_close` sees a thread that did not start yet as one that ended (4581):
  its cancellation is then reset by the next open (4560), which also
  initialises the mutex again; both dummy threads share one timeout, cancellation and flag. The
  join returns at once and the mutex is destroyed while a thread sleeps and will lock
  it again. By the comment at 4780 the configuration thread closes the dummy thread: it does
  only if that thread became active in time. A thread left over outlives
  `adev_close`, which frees its context.
* A `set_amp_mode()` that fails in `out_write` (3178) is not tried again, although the mark was
  cleared; one that fails in the configuration thread is. `ModeIsNotLost` speaks of an amplifier
  whose last configuration did not fail (`tfa9895_init`).
* `adev_open_output_stream` starts the callback thread and, when it then fails (3961, 3990),
  frees the stream with that thread alive.
* `stop` and `unload` of the sound trigger HAL end in `stdev_dsp_set_power(stdev, 0)` on their
  error paths too (438): a wrong handle takes the DSP's power from an armed recognition.
* When the amplifier has to be reconfigured and its device cannot be opened again,
  `out_write` returns at 3201 with `lock_inputs` still locked if it had an input to
  restart, against the comment at 3245. Every later start, stop or close of an input waits for
  ever. `AudioStreams` has this (`ReopenFails`): `LocksReleased` states that it is the only way
  a mutex is kept, and `InputIsCurrent` speaks of the time before it.
* A second output (deep buffer) would release the device's echo reference too
  (`start_output_stream` and `do_out_standby_l` do not ask which output it is), and a
  start of an input that fails at `error_open` keeps `in->echo_reference`, which a
  second open input with an echo canceller would leave dangling. The policy of this
  device opens neither.
* `out_open_pcm_devices` (2341) takes a PCM that could not be opened off the list and
  does not close it. `adev_close_output_stream` does not clear `primary_output`.
* `MAX_PREPROCESSORS` is compared with `>` (3798): one effect too many is stored.
* The buffers of an input (`audio_hw.c` 1559-1709) go wrong in three sequences. Mono
  capture (the PCM has two channels, line 79) allocates `proc_buf_out` only, and sets the
  `proc_buf_size` that stands for `proc_buf_in` too: an effect other than the echo canceller, added
  while the stream runs and with no auxiliary channels, finds no reason to allocate (1600) and reads into
  a null pointer. Frames an effect did not consume stay in `proc_buf_in` when it is removed, and
  come before the next ones when another is added to the running stream; `ref_buf_frames` is not
  even reset by a restart (2078). Every added effect sets `aux_channels_changed` (3809), so that
  the next start takes the number of channels from the stream although the PCM still has its own, against
  "a change in aux_channels will not have an effect" (2041).
* A plain microphone input is restarted when the output starts (3034-3042) although its
  sound device never depends on the output: 861 asks for a voice communication.
* The sound trigger's thread fetches from the DSP after the callback although the
  audio HAL may have started to read (`sound_trigger_hw.c` 323): pieces can be
  skipped. `StreamInOrder` states what is left: no piece twice, none out of order.

### Bounds, and why they are enough

* Two clients: a lock has a holder and a waiter, `pthread_cond_signal` has a waiter
  that is the wrong one, and the offload thread is the third party. The call that
  takes `adev->lock` for long is made by one client in the passing runs; with two,
  the deadlock of `offload_lock_order` is real and stops everything else.
* Two handles: enough to see a restart while the old handle is in use. Two commands:
  one taken, one queued behind it. The proofs are for any number of them; what needs one
  driving client says so. Two metadata, zero and another: what was set, sent and zeroed can be told apart.
* Two outputs of which one is offloaded, and one effect: the effect is attached to the output
  that is started and stopped, or to the other, and moves between them, before, during and after
  the capture thread's life. Two outputs that play at once and lists of several effects are left to the proofs, which
  are for any number. Two identities of a thread: a second one could be created while the first lives.
* A ring of three frames and buffers of one and two: a write ends before, at and past
  the end, and a capture of two or three lies inside the ring, wraps or is all of it. Two slots: a slot that is
  overwritten and one that is kept. Proved for all sizes.
* Two threads that synchronise: one reads first and applies last. One reset: events of two
  runs of the hub are queued together. One sensor: the tables have an entry for each, and
  only the estimate, which events of any sensor use, is shared. Five units of time: two readings
  before a reset or after it, each with its two clocks apart or together, and events between and behind
  them, in particular an event stamped before it happened. Uninitialized members of 0 and 2: a synchronisation that only sets the offset, a first
  slope above 1 and below. Rounding by one: up and down, to a difference of 0 as well.
  Proved for all.
* Dummy threads of a few rounds: each may be late, run beside the other, time out first or
  last. Two modes: the old and the new one.
* Three uevents: a hotword behind and before another. A chunk of two pieces: a reader
  that takes half a buffer; six pieces are several fetches.
* A ring of three: free space and position differ, a read wraps by one or two; a
  full and an empty ring have the same indices. Proved for all sizes.
* Kernel buffer, ring and array of two events: each can be full alone, a ring can be
  left half read, and a call can go through `readEvents` twice. One failure: its
  effect on what follows is seen, a second one adds nothing to `PipeIsQueue`. Proved for
  all sizes and any number of failures.
* A player, a recorder, a binder thread: every pair of calls on the same stream and on
  different ones can meet, and the input that one chooses can be stopped or closed by
  another. One input that depends on the output, and one that never does. Three references:
  one of the device, one dropped that the output still has, one an input that failed to
  start still names. All of it but the absence of deadlock is proved for all.
* Battery: the scale keeps every relation of the code's constants that the branches
  test (low below full, dead below critical, steps of 2 and 3, times of 0, within and
  beyond the period; one temperature, which no other value depends on), with
  voltages below, at and above each threshold. Proved for every scale.

### Fairness, and why the code justifies it

* Threads run (weak fairness of each thread's step). A mutex that is released again
  and again is granted in the end (strong fairness) where two or more threads
  contend for it: bionic's mutexes do not promise order but the kernel's futex queue
  does not pass over one waiter for ever. For `out->lock` weak fairness is enough,
  which is what `pre_lock` is for.
* Spurious wake-ups end at some time.
* Drivers return: a drain when the device was stopped or has played, a wait for room when the
  device plays (not when it was never started: `FindRoom` is not fair), a PCM read with
  data infinitely often. The capture PCM can be opened from some time on; without
  that assumption the capture thread spins with `lock` held (line 305) and no call
  returns.
* The dummy threads are scheduled (weak fairness of each): they never wait for
  anything but `dummybuf_thread_lock`, which its owner keeps for one round.
* Nobody is forced to fail, to call or to make a sensor report: calls of the
  framework, errors and uevents have no fairness. healthd is polled, and is not
  restarted for ever.

## 5. Proofs

The theorems hold for every value of the constants that satisfies the `ASSUME`s of
the module, which TLC evaluates in every run. They say that sets are disjoint and
numbers natural; some say more, with a reason in the code:

* `SoundTrigger`: one client, because the framework serializes its calls on the device.
* `SensorClock`: the time at which the HAL starts is within the bound on time.
* `AudioStreams`: one input at a time has an echo canceller, whose reference is the device's.
* `VisualizerCapture`: a buffer is not longer than the ring (65,536 bytes, a period of the capture
  is far shorter), and more frame numbers than the ring has places, so that no two frames in it
  have the same.
* `HealthSoc`: the order of the code's constants (dead below critical, low below full).

**OffloadStreamProofs**: `TypeCorrect`, `HandleSafe`, `StandbyClean`, `MetadataKnown`, for
any clients making any calls; `PlayingHeard`, `ClosedClean`, `ControlImplemented` for one
driving client. `HandleLive` is not inductive: nothing in it says why a call about to
close the handle is not there while the thread is in the driver. The invariant adds
`LockInv` (a label implies the mutexes its thread owns, hence two clients cannot both be
past `out->lock`) and `HandleInv`: `offload_thread_blocked` is up for the whole time in the
driver, the handle exists while it is up, and a standby that found it up has not given
`adev->lock` away, so that no start can replace the handle meanwhile. `FinishStandby`
needs the flag down, which gives the contradiction. For a standby stream `OwnInv` says
that only the stream's own handle is open and that the visualizer is told of the end
together with the close. `MetaInv` is the reason of `MetadataFirst`: the device of the handle
knows the metadata when `send_new_metadata` is down, and from the sending on when nobody has set new ones
since. A call between the two halves of `parse_compress_metadata` (`Announced`) will raise
the flag, unless the writer's reset comes after it, which `raced` records. `CloseInv` follows a close to its end: it
is alone, the thread exits only for a call that joins it, and a thread that left holds nothing.

The last three theorems have the hypothesis `Drives(d)`: client `d` alone plays, pauses, flushes and
closes, the others query, drain, set metadata and change the mode (which is how the framework uses a
stream, and what `offload_safety` checks), and the visualizer library is loaded.
`DriverInv` then says that the path, the device and the state agree (`Settled`) but for a
call of `d` that is in the middle of a change (`Changing`), one clause for each half of each
call. A device that a start found without data (`unstarted`) is in setup or prepared instead
(`DeviceIs`). Neither part of the hypothesis can go: with two drivers a write that was issued
while another call pauses plays with its path disabled, and a resume during a flush's wait
leaves a playing device in `PAUSED_FLUSHED`; without the library `offload_state` is
not reset in standby (`audio_hw.c` 2417-2424).
`ControlImplemented` maps a pause, a resume, the end of a flush and a write's data to the
action of that name (`ModeStep`), every step that ends in standby to `Standby`, and
the rest to a stutter; `DriverInv` gives the mode before the step.

**VisualizerProofs**: `TypeCorrect`, `ListsCorrect`, `ThreadSafe`, `PcmReleased`,
`NoLostEnable`. `ThreadFollowsOutputs` needs to know who is between locks:
`ThreadLockInv` (the joining call owns `thread_lock`) and `LifeInv` (the life of the
thread against `exit_thread`, `thread_status` and the active outputs).
`NoLostEnable` has the hypothesis `~MoveActive`.

Its second part is about `VisualizerCapture`: `CaptureTyped`, `CaptureCorrect`, `PeakCorrect`, for
rings, captures, buffers and windows of any size. What a capture copies depends on where it
begins, so the invariant `RingHolds` reads the ring backwards from `capture_idx`: the `k`-th
byte back is the `k`-th last frame played, silence before the first. A buffer moves the
index and shifts what was played by the same number, and `CopiesAreBack` shows that both
ways a capture is copied (in one piece, or wrapped) read these places. `SlotsHold` is the
same for the slots of the measurements. That a slot's number is the peak of its buffer is
about a loop: `Peak` is a recursive function, unfolded once in `LoopUnfolds` and followed to
the end by `PeakIsLargest`. Induction over naturals comes from the well-founded order on them, for a
*set* of numbers (`AllNaturals`), which needs no operator as a parameter. The
magnitude of the most negative sample overflows (section 4); buffers with one
are stored and captured, and `PeakIsOfWindow` speaks of windows without.

**SensorsProofs**: `RingCorrect` and `RingIsQueue` are about the reader of the device
(`Reader`, the module `EventRing` with the ring's size of `Sensors`), for every size. The
invariant is that indices are in range and head, current and free space agree;
`FillKeepsUnread` and `FillAppends` say what the copy to the front does to the
unread sequence, `FillIsPut`, `FillFailsIsStutter` and `ReadAndNextIsTake` map the
steps. They are the licence for `Sensors` to use the queue.

`PollThreadTyped`, `OneShotReportsOnce`, `BufferServes`, `PipeCorrect` are about the poll thread, for any
sensors and sizes. `ArmedInv` counts: a one-shot sensor was activated more often than it
was answered while it is on, or while its event is between the answer and the poll thread's own `setEnable`.
`ServedInv` has the buffer on from `batch()`, before the sensor is. `PipeStep` maps each
step to the one queue that kernel buffer and ring are together (`Waiting`): the hub puts, `readEvents` takes,
`fill` moves events from one part to the other and is a stutter, and so is a read that fails.

**AudioStreamsProofs**: `TypeCorrect`, `LocksReleased`, `RestartsActiveInput`,
`ReferenceSafe`, `PathsRight`, `VoiceCurrent`, for any number of threads, inputs and references.
`ForcedInputIsActive` speaks of the moment before the restart; what makes it true is
older. The invariant says so from the moment of choice (`Forced`: who has chosen an input
owns `lock_inputs`, and it is the active one), which needs that only the owner of
`lock_inputs` changes the active input (`Owners`: each mutex is owned by a call that
will release it), that an active input is open (`ActiveRuns`), and that calls work on
open inputs (`Args`). `ReferenceSafe` needs more than one reference at a time: `EchoOK`
relates the two owners to the output's standby (an output in standby has none; one
that is up to date has the device's; one that is not has another one), `EchoInv` adds
that only the input with the echo canceller names a reference, and that it is the device's.
`PutOK`, `GetOK` and `OutputOK` show that each operator keeps `EchoOK`.

`PathsMatchUse` needs to know which use cases a sound device has: `RouteOK` says that its
counter is their number (`Users`) and that its path is applied when there is one, and
each routing operator has a lemma that keeps it, `select_devices`'s two switches
included. `RouteInv` adds who is in the list: the streams out of standby, and one that a
call is starting (`Busy`), which a failed start takes out again. `InputIsCurrent` is the
deepest: an output starts or moves in one critical section and restarts the input in
a later one. `Solo` says that only the active input can be live, so the input that the output
looked at is the only one concerned; `Current` says that while the output plays a live
voice input has the microphone and the reference of that output, or a thread with `lock_inputs`
is on its way to restart it. `LostOnce` is about the one return that breaks this: only `ReopenFails` with an
input to restart makes `Lost` the owner of `lock_inputs`, and it stays that. `LocksReleased` states both
and that an idle thread owns no mutex.

**SoundTriggerProofs**: `TypeCorrect`, `ServedCorrect`, `QuietCorrect`, `StreamCorrect`, for
any number of thread identities, uevents and pieces of audio. `RecognitionIsServed`
says which thread serves an accepted recognition, and the steps that could break it are
those of a *stop*: it takes the callback away, unlocks, joins and locks again. `Served`
therefore speaks of all threads: one that has not left is `callback_thread`, and
it lives only as long as its recognition is registered or the stop that unregistered it
waits to join it; so a start, which needs the framework's only call, finds none. A recognition whose
thread could not be created has none (`uncreated`), and the join then finds an identity that
no thread has.
`Quiet` says what such a thread may still do (return from a callback, not begin one).
For the stream, `BufferOK` bounds the read index by what was fetched and `Session`
relates buffer and DSP: what is buffered is the last the DSP gave, in order, and beyond
what the reader got.

**SensorClockProofs**: `TypeCorrect`, `StampsCorrect`, `StampsFollowSync`, for any number of sensors,
resets, events on their way, any time and any rounding that keeps the sign. Two threads apply estimates in any order; stamps do
not go back because `Converted`, with any estimate that has a slope which is not negative, is
not before the last stamp if the event is not before the last event (`ConvertedNotBefore`).
`Ordered` says that this is so in the first run of the hub, all the way from its queue to the
stamp the poll thread holds between the two mutexes.
After a reset old events, old times and old estimates are still about. `Past`, `ReadInOrder` and `Runs` say
how to tell them: each is of a run that began, an event of this run has its two times `boot` apart, and
a reading of this run has the CPU's time at least `boot` after the hub's, because that is read first.
`InOrder` orders the events and stamps of this run, `FirstKept` relates `first` to `offset_reset`.
So the offset of a synchronised estimate is at least `boot` (`Synced`): the first event
converted with it gets a stamp that is not before it happened (the offset's, or one not before
a last stamp that is later still), and the later ones follow it in the hub's order (`ConvertedFollows`).

**AmplifierProofs**: `TypeCorrect`, `ModeCorrect`, `PlayingCorrect`. A mode that was read
before a change is sent after it: `Announced` says that the setter then still waits to
set the mark, which is so because the reader owns `tfa9895_lock` (`Owners`) from before
it clears the mark. Both hold while no write released a lock that was not its own
(`stolen`); that the mode sent has arrived needs that the call did not fail (`tfa9895_init`). `ConfiguredWhilePlaying` rests on the order of the threads in `adev_open`
(`Sequence`) and on nobody cancelling a dummy thread from the opening of the
speaker's to the end of the configuration (`Uncancelled`): the thread that reported
that it plays is in its loop with the PCM (`Playing`), and leaves it only when the time is out,
which it records by making the timeout negative.

**HealthSocProofs**: `ReportIsSound`, `ZeroNeedsCause`, `LevelMovesSlowly`, for every
scale. The invariant adds `MonitorIsTold` to the properties: once a threshold was due (`told`)
what healthd remembers is what the kernel has, and before that it is 0. `ReportIsSound` therefore has no
more exceptions to the voltage watched than `VoltageIsWatched` names.

### Only model-checked

Every invariant and every action property that a passing run checks is the statement of a
theorem. What is left to TLC:

* Liveness, for which the prover has no rule: `StopsEnd`, `AnswerDelivered`, `CloseEnds`, `CallsReturn`,
  `EnabledIsFed`, `StopReturns`, `HotwordIsReported`, `EventsFlow`, `CriticalEndsAtZero`,
  `GaugeIsReached`, `DummyEnds`. The absence of deadlock, which is about `ENABLED`.
* `IsBoundedQueue`, the form of the queue's specification that TLC can evaluate (it bounds what a
  read puts); `RingIsQueue` proves the unbounded form.
* `PlayingIsHeard`, `ClosedCleanly` and the refinement with several driving clients: the paragraph
  on `OffloadStreamProofs` gives the runs that break them. The order of mutexes is false too
  (`offload_lock_order`).

## 6. What is not modelled

* Samples, effects' signal processing, resampling, gain, mixer control values.
* Failed sysfs writes (the code does not notice them), partial reads of the IIO
  device (the driver hands out whole events), gauge levels outside 0..100.
* Memory allocation failures. Failures of `pthread_create` for the offload callback thread and the dummy
  threads (section 4); the capture thread's, the sound trigger's and the configuration thread's are modelled.
* The initialisation window of `adev_open_output_stream`, in which the callback thread
  exists before its mutexes are initialised.
* The buffers an input's samples pass on their way to the caller; `AudioStreams` has one step
  (`Transfer`) for them.
* Voice calls, HDMI, a second output.
* `select_devices` switches the mixer with `tfa9895_lock` held (883-885): it waits for the
  configuration of the amplifier, and changes nothing that `Amplifier` has.
* The power HAL: `power_set_interactive` and a low power hint both write the processors'
  frequency limit, one of them without the mutex (`power_flounder.c` 122); a model would be
  two writes in two orders.
* The planned components of section 2, and the configuration, firmware and resource
  parts of the tree, which have no behaviour of their own. `PROJECT.json` gives the
  reason for each under `components`.
