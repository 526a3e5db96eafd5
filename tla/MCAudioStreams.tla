---------------------------- MODULE MCAudioStreams ----------------------------
(* The primary output, an input for voice and the hotword's input.         *)
EXTENDS AudioStreams, TLC

CONSTANTS in_voice, in_hotword, player, recorder, binder, r1, r2, r3

MCRoutesOut == {{"speaker"}, {"speaker", "headset"}, {"sco"}}

MCSymmetry == Permutations(Refs)
=============================================================================
