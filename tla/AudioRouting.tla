----------------------------- MODULE AudioRouting -----------------------------
(* The routing half of the audio HAL (audio/hal/audio_hw.c): the use cases  *)
(* in adev->usecase_list, the sound devices each of them took, the counter  *)
(* of every sound device and the mixer paths applied. All of it is guarded  *)
(* by adev->lock. A routing is a record                                     *)
(*   listed   the streams that have a use case in the list                  *)
(*   use      the sound devices of each stream's use case                   *)
(*   cnt      adev->snd_dev_ref_cnt                                         *)
(*   applied  the sound devices whose mixer path is set                     *)
(* A combined sound device (speaker and headphones) is the set of its parts *)
(* and SND_DEVICE_NONE the empty set. The device makes no voice calls.      *)
EXTENDS Integers, FiniteSets

OutSounds == {"speaker", "headphones", "bt_sco"}
InSounds == {"handset_mic", "handset_mic_aec", "speaker_mic", "speaker_mic_aec",
             "headset_mic", "headset_mic_aec", "voice_rec_mic",
             "voice_rec_headset_mic", "bt_sco_mic"}
Sounds == OutSounds \cup InSounds

\* The output devices the framework selects: one, or speaker and headset.
OutDevices == {{"speaker"}, {"headset"}, {"speaker", "headset"}, {"sco"}}
InDevices == {"builtin", "headset", "sco"}
Sources == {"mic", "voice_communication", "voice_recognition", "hotword"}

\* The PCM device that serves a device: pcm_devices[] has one for the codec
\* and one for Bluetooth.
Pcm(d) == IF d = "sco" THEN "pcm_sco" ELSE "pcm_codec"
PcmsFor(devs) == {Pcm(d) : d \in devs}

get_output_snd_device(devs) ==
    {IF d = "speaker" THEN "speaker"
     ELSE IF d = "headset" THEN "headphones" ELSE "bt_sco" : d \in devs}

\* The microphone of an input with configuration c while the output plays on
\* outs: with a voice source and the speaker it is the one at the back.
get_input_snd_device(c, outs) ==
    LET voice == c.source \in {"voice_communication", "mic"}
        dev == IF voice /\ "speaker" \in outs THEN "back" ELSE c.devices
    IN  IF dev = "sco" THEN "bt_sco_mic"
        ELSE IF c.source = "voice_recognition"
             THEN IF dev = "headset" THEN "voice_rec_headset_mic" ELSE "voice_rec_mic"
        ELSE LET aec == voice /\ c.enable_aec
             IN  IF dev = "back" THEN IF aec THEN "speaker_mic_aec" ELSE "speaker_mic"
                 ELSE IF dev = "headset" THEN IF aec THEN "headset_mic_aec" ELSE "headset_mic"
                 ELSE IF aec THEN "handset_mic_aec" ELSE "handset_mic"

enable_snd_device(r, S) ==
    [r EXCEPT !.cnt = [d \in Sounds |-> IF d \in S THEN @[d] + 1 ELSE @[d]],
              !.applied = @ \cup {d \in S : r.cnt[d] = 0}]

disable_snd_device(r, S) ==
    LET held == {d \in S : r.cnt[d] > 0}
    IN  [r EXCEPT !.cnt = [d \in Sounds |-> IF d \in held THEN @[d] - 1 ELSE @[d]],
                  !.applied = @ \ {d \in held : r.cnt[d] = 1}]

\* The second half of select_devices: nothing if the devices stay the same,
\* else the use case of s gives its sound devices back and takes S.
Switch(r, s, S) ==
    IF r.use[s] = S THEN r
    ELSE [enable_snd_device(disable_snd_device(r, r.use[s]), S) EXCEPT !.use[s] = S]

\* A new use case, with no sound device yet.
List(r, s) == [r EXCEPT !.listed = @ \cup {s}, !.use[s] = {}]

\* Fault: the use case leaves the list with its sound devices on.
UnlistEnabled(r, s) == [r EXCEPT !.listed = @ \ {s}, !.use[s] = {}]

\* The use case of s gives its sound devices back and leaves the list.
Unlist(r, s) ==
    [disable_snd_device(r, r.use[s]) EXCEPT !.listed = @ \ {s}, !.use[s] = {}]
=============================================================================
