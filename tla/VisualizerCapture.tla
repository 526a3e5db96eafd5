-------------------------- MODULE VisualizerCapture --------------------------
(***************************************************************************)
(* What one offload visualizer effect keeps of the audio it is given, and  *)
(* answers from (audio/visualizer/nv_offload_visualizer.c): the capture    *)
(* ring, the silence after a stall, and the peaks of the last buffers.     *)
(* Every operation runs under `lock' and is one step.                      *)
(*                                                                         *)
(* The byte a frame becomes is represented by the frame's number; its      *)
(* amplitude is seen by the measurement only.  The RMS is treated by the   *)
(* code as the peak is, and left out.  Time is counted in units of which   *)
(* the two limits are multiples.  The latency is 0 for ever: SET_PARAM     *)
(* accepts VISUALIZER_PARAM_LATENCY and stores nothing.                    *)
(*                                                                         *)
(* What Visualizer has too is named Capture... here, so that a module can  *)
(* extend both.                                                            *)
(***************************************************************************)
EXTENDS Integers, Sequences

CONSTANTS
    Size,           \* CAPTURE_BUF_SIZE
    CaptureSizes,   \* what the framework sets capture_size to
    MaxCaptureSize, \* VISUALIZER_CAPTURE_SIZE_MAX
    Window,         \* MEASUREMENT_WINDOW_MAX_SIZE_IN_BUFFERS
    MaxStall,       \* MAX_STALL_TIME_MS
    Discard,        \* DISCARD_MEASUREMENTS_TIME_MS
    FullScale,      \* 2^15: a sample is in -FullScale .. FullScale - 1
    Buffers,        \* the samples a buffer can have
    MaxFrames,      \* bound: frames in a buffer
    Numbers,        \* bound: frames are numbered modulo this
    Silence         \* the byte 0x80

ASSUME CaptureAssumption ==
    /\ Size \in Nat \ {0} /\ Window \in Nat \ {0}
    /\ CaptureSizes \subseteq 1 .. Size /\ MaxCaptureSize \in 1 .. Size
    /\ MaxStall \in Nat /\ Discard \in Nat /\ MaxStall <= Discard
    /\ FullScale \in Nat \ {0}
    /\ Buffers \subseteq Seq((-FullScale) .. (FullScale - 1)) \ {<<>>}
    /\ MaxFrames \in 1 .. Size
    /\ Numbers \in Nat /\ Numbers > Size /\ Silence \notin Nat

VARIABLES
    enabled,            \* is its state EFFECT_STATE_ACTIVE?
    offload_enabled,
    capture_buf, capture_idx, last_capture_idx, capture_size,
    updated,            \* is buffer_update_time set?
    meas_mode,          \* MEASUREMENT_MODE_PEAK_RMS
    meas_buffer_idx,
    past_meas,          \* [slot -> the peak of a buffer, or that it is not valid]
    age,                \* history: time since the last buffer, up to Discard + 1
    frames,             \* history: the number of the next frame
    heard,              \* history: frames since the last reset, up to Size
    measured            \* history: the buffers measured since the last discard,
                        \* at most Window of them, the newest last

control == <<enabled, offload_enabled>>
ring    == <<capture_buf, capture_idx, last_capture_idx, capture_size, frames, heard>>
meas    == <<meas_mode, meas_buffer_idx, past_meas, measured>>
captureVars == <<control, ring, updated, meas, age>>

Slots     == 0 .. Size - 1
MeasSlots == 0 .. Window - 1
NotValid  == -1

SilentRing == [i \in Slots |-> Silence]

NoMeasurement == [i \in MeasSlots |-> NotValid]

\* effect_lib_create(): the context is initialised.
CaptureInit ==
    /\ enabled = FALSE /\ offload_enabled = FALSE
    /\ capture_buf = SilentRing /\ capture_idx = 0 /\ last_capture_idx = 0
    /\ capture_size = MaxCaptureSize
    /\ updated = FALSE
    /\ meas_mode = FALSE
    /\ meas_buffer_idx = 0 /\ past_meas = NoMeasurement /\ measured = <<>>
    /\ age = Discard + 1 /\ frames = 0 /\ heard = 0

-----------------------------------------------------------------------------
(* visualizer_process(), from the capture thread *)

\* max_sample is an int16_t: -(-FullScale) is stored as -FullScale.  The result
\* is read as a uint16_t.
Peak(b) ==
    LET max_sample[i \in 0 .. Len(b)] ==
            IF i = 0 THEN 0
            ELSE IF b[i] > max_sample[i - 1] THEN b[i]
            ELSE IF -b[i] > max_sample[i - 1]
                 THEN IF b[i] = -FullScale THEN -FullScale ELSE -b[i]
            ELSE max_sample[i - 1]
    IN  max_sample[Len(b)] % (2 * FullScale)

\* The last Window elements of a history.
Latest(s) == IF Len(s) > Window THEN Tail(s) ELSE s

\* The measurement of a buffer with the samples b.
MeasureBuffer(b) ==
    IF meas_mode
      THEN /\ past_meas' = [past_meas EXCEPT ![meas_buffer_idx] = Peak(b)]
           /\ meas_buffer_idx' = IF meas_buffer_idx + 1 >= Window THEN 0
                                                                  ELSE meas_buffer_idx + 1
           /\ measured' = Latest(Append(measured, b))
           /\ UNCHANGED meas_mode
      ELSE UNCHANGED meas

\* Fault: the index that reached the end of the ring starts again at 1.
SlotAfterEnd(k) ==
    IF capture_idx + k - 1 >= Size THEN (capture_idx + k) % Size ELSE capture_idx + k - 1

\* Where the k-th frame of a buffer is stored.  The index may stand at the end
\* of the ring, and wraps before the next store.
Slot(k) ==
    IF capture_idx + k - 1 >= Size THEN capture_idx + k - 1 - Size ELSE capture_idx + k - 1

Smaller(a, b) == IF a < b THEN a ELSE b

\* A buffer of n frames with the samples b, whether the effect is enabled or not.
Process(n, b) ==
    /\ MeasureBuffer(b)
    /\ capture_buf' =
          [i \in Slots |-> IF \E k \in 1 .. n : Slot(k) = i
                           THEN (frames + (CHOOSE k \in 1 .. n : Slot(k) = i) - 1) % Numbers
                           ELSE capture_buf[i]]
    /\ capture_idx' = Slot(n) + 1
    /\ updated' = TRUE
    /\ age' = 0
    /\ frames' = (frames + n) % Numbers
    /\ heard' = Smaller(heard + n, Size)
    /\ UNCHANGED <<control, last_capture_idx, capture_size>>

-----------------------------------------------------------------------------
(* visualizer_command() *)

\* The time since buffer_update_time, 0 if that is not set.
DeltaTime == IF updated THEN age ELSE 0

CapturePoint == capture_idx - capture_size

\* The bytes taken from the end of the ring when the capture wraps.
Wrapped == IF CapturePoint < 0 THEN Smaller(-CapturePoint, capture_size) ELSE 0

\* The two copies out of the ring.
Copied ==
    [k \in 1 .. capture_size |->
        IF k <= Wrapped THEN capture_buf[Size + CapturePoint + k - 1]
        ELSE capture_buf[(IF CapturePoint < 0 THEN 0 ELSE CapturePoint) + k - Wrapped - 1]]

\* Playback has stalled: no buffer came since the last capture, nor for long.
Stalled == last_capture_idx = capture_idx /\ updated /\ DeltaTime > MaxStall

\* What VISUALIZER_CMD_CAPTURE answers an active effect.  After a stall silence
\* is stored behind the part that wrapped, where pReplyData points by then.
Reply ==
    [k \in 1 .. capture_size |->
        IF Stalled /\ k > Wrapped THEN Silence ELSE Copied[k]]

\* VISUALIZER_CMD_CAPTURE; an inactive effect answers silence.
CaptureCommand ==
    /\ offload_enabled /\ enabled
    /\ updated' = (updated /\ ~Stalled)
    /\ last_capture_idx' = capture_idx
    /\ UNCHANGED <<control, capture_buf, capture_idx, capture_size, frames, heard,
                   meas, age>>

\* Are the measurements too old?
TooOld == DeltaTime > Discard

MaxOf(S) == CHOOSE m \in S : \A x \in S : x <= m

\* The peak VISUALIZER_CMD_MEASURE answers.
MeasuredPeak ==
    IF TooOld THEN 0 ELSE MaxOf({0} \cup {past_meas[i] : i \in MeasSlots})

\* Fault: the slots stay valid.
DiscardIndex == meas_buffer_idx' = 0 /\ measured' = <<>> /\ UNCHANGED past_meas

DiscardMeasurements ==
    /\ meas_buffer_idx' = 0
    /\ past_meas' = NoMeasurement
    /\ measured' = <<>>

\* VISUALIZER_CMD_MEASURE: measurements that are too old are thrown away.
Measure ==
    /\ TooOld
    /\ DiscardMeasurements
    /\ UNCHANGED <<control, ring, updated, meas_mode, age>>

-----------------------------------------------------------------------------
(* effect_command() *)

\* visualizer_reset(): silence in the ring, and no time of an update.
ClearRing ==
    /\ capture_buf' = SilentRing
    /\ capture_idx' = 0 /\ last_capture_idx' = 0
    /\ updated' = FALSE
    /\ heard' = 0

\* EFFECT_CMD_RESET or EFFECT_CMD_SET_CONFIG: the measurements are kept.
Reset ==
    /\ ClearRing
    /\ UNCHANGED <<control, capture_size, frames, meas, age>>

\* visualizer_init(), by EFFECT_CMD_INIT.
InitCommand ==
    /\ ClearRing
    /\ capture_size' = MaxCaptureSize
    /\ meas_mode' = FALSE /\ DiscardMeasurements
    /\ UNCHANGED <<control, frames, age>>

\* EFFECT_CMD_ENABLE, EFFECT_CMD_DISABLE and EFFECT_CMD_OFFLOAD.
Control(s, o) ==
    /\ enabled' = s /\ offload_enabled' = o
    /\ enabled' = enabled \/ offload_enabled' = offload_enabled
    /\ UNCHANGED <<ring, updated, meas, age>>

\* EFFECT_CMD_SET_PARAM.
SetCaptureSize(n) ==
    /\ capture_size' = n
    /\ UNCHANGED <<control, capture_buf, capture_idx, last_capture_idx, frames, heard,
                   updated, meas, age>>

SetMeasMode(m) ==
    /\ meas_mode' = m
    /\ UNCHANGED <<control, ring, updated, meas_buffer_idx, past_meas, measured, age>>

\* Time passes.
Tick ==
    /\ age <= Discard
    /\ age' = age + 1
    /\ UNCHANGED <<control, ring, updated, meas>>

CaptureNext ==
    \/ \E n \in 1 .. MaxFrames, b \in Buffers : Process(n, b)
    \/ CaptureCommand \/ Measure \/ Reset \/ InitCommand \/ Tick
    \/ \E s \in BOOLEAN, o \in BOOLEAN : Control(s, o)
    \/ \E n \in CaptureSizes : SetCaptureSize(n)
    \/ \E m \in BOOLEAN : SetMeasMode(m)

CaptureSpec == CaptureInit /\ [][CaptureNext]_captureVars

-----------------------------------------------------------------------------
\* The variables have values of their types.
CaptureTypeOK ==
    /\ enabled \in BOOLEAN /\ offload_enabled \in BOOLEAN
    /\ capture_buf \in [Slots -> (0 .. Numbers - 1) \cup {Silence}]
    /\ capture_idx \in 0 .. Size /\ last_capture_idx \in 0 .. Size
    /\ capture_size \in 1 .. Size
    /\ updated \in BOOLEAN /\ meas_mode \in BOOLEAN
    /\ meas_buffer_idx \in MeasSlots
    /\ past_meas \in [MeasSlots -> {NotValid} \cup 0 .. 2 * FullScale - 1]
    /\ age \in 0 .. Discard + 1 /\ frames \in 0 .. Numbers - 1 /\ heard \in 0 .. Size
    /\ measured \in Seq(Buffers)

\* The k-th last frame the effect was given, silence if there was none since the
\* last reset.
Played(k) == IF k <= heard THEN (frames - k) % Numbers ELSE Silence

\* Whenever a capture is asked for, wherever the index stands and whatever the
\* sizes of the buffers, of the capture and of the ring, the two copies give the
\* last frames played, in order, and silence before them.
CaptureIsLatest == Copied = [k \in 1 .. capture_size |-> Played(capture_size + 1 - k)]

Magnitude(x) == IF x < 0 THEN -x ELSE x

TruePeak(b) == MaxOf({Magnitude(b[i]) : i \in 1 .. Len(b)})

HasFullScale(b) == \E i \in 1 .. Len(b) : b[i] = -FullScale

\* A measurement answers the largest amplitude of the last Window buffers
\* measured since measurements were thrown away, however captures, resets and
\* pauses come between.  A sample of -FullScale overflows the int16_t that holds
\* the maximum, so buffers with one are left out.
PeakIsOfWindow ==
    ~TooOld /\ (\A i \in 1 .. Len(measured) : ~HasFullScale(measured[i])) =>
        MeasuredPeak = MaxOf({0} \cup {TruePeak(measured[i]) : i \in 1 .. Len(measured)})

\* "If audio framework has stopped playing audio although the effect is still
\* active we must clear the capture buffer to return silence" (782-783).
StallIsSilent ==
    enabled /\ age > MaxStall /\ last_capture_idx = capture_idx =>
        \A k \in 1 .. capture_size : Reply[k] = Silence
=============================================================================
