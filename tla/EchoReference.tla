----------------------------- MODULE EchoReference -----------------------------
(* The echo reference of the audio HAL (audio/hal/audio_hw.c): a buffer the *)
(* primary output writes what it plays to and an input with echo            *)
(* cancellation reads. The device owns it (adev->echo_reference) and the    *)
(* output borrows it. When the device drops a reference that the output     *)
(* still has, the output must release it, and knows by the generation       *)
(* numbers. A record holds                                                  *)
(*   adev, out  the references of the device and of the output              *)
(*   synced     out->echo_reference_generation is the device's              *)
(*   live       the references created and not released                     *)
(* The numbers only serve to be compared: the device increments its own and *)
(* the output copies it, so whether they are equal is all that is kept.     *)
CONSTANTS Refs, NULL

ASSUME RefsAssumption == NULL \notin Refs

EchoReferences == [adev : Refs \cup {NULL}, out : Refs \cup {NULL},
                   synced : BOOLEAN, live : SUBSET Refs]

\* Fault: the reference is released although the output may write to it.
PutAndRelease(e, ref, out_standby) ==
    IF e.adev = NULL \/ ref # e.adev THEN e
    ELSE [adev |-> NULL, out |-> e.out, synced |-> FALSE, live |-> e.live \ {ref}]

\* The device drops ref. It is released here if the output is in standby
\* or has not picked it up; otherwise the output will.
put_echo_reference(e, ref, out_standby) ==
    IF e.adev = NULL \/ ref # e.adev THEN e
    ELSE [adev |-> NULL, out |-> e.out, synced |-> FALSE,
          live |-> IF ~e.synced \/ out_standby THEN e.live \ {ref} ELSE e.live]

\* The device drops its reference and, if the output plays, creates r.
get_echo_reference(e, out_standby, r) ==
    LET p == put_echo_reference(e, e.adev, out_standby)
    IN  IF out_standby THEN p
        ELSE [adev |-> r, out |-> p.out, synced |-> FALSE, live |-> p.live \cup {r}]

\* A reference that can be the address of a new one.
Unused(e, held) == Refs \ (e.live \cup {e.adev, e.out} \cup held)

\* start_output_stream takes what the device has.
PickUp(e) == [e EXCEPT !.out = e.adev, !.synced = TRUE]

\* out_write saw another generation: what it has is not the device's any more.
Refresh(e) ==
    IF e.synced THEN e
    ELSE [adev |-> e.adev, out |-> e.adev, synced |-> TRUE, live |-> e.live \ {e.out}]

\* do_out_standby_l stops writing, and releases what the device has dropped.
GiveBack(e) ==
    IF e.out = NULL THEN e
    ELSE [adev |-> e.adev, out |-> NULL, synced |-> TRUE,
          live |-> IF e.synced THEN e.live ELSE e.live \ {e.out}]
=============================================================================
