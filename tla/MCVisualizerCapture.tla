------------------------ MODULE MCVisualizerCapture ------------------------
(***************************************************************************)
(* The capture of one effect for TLC: a ring of 3 frames, samples of 3     *)
(* bits, among them the one whose absolute value does not fit.             *)
(***************************************************************************)
EXTENDS VisualizerCapture

MCBuffers == {<<1>>, <<-3, 2>>, <<-4, -3>>}
=============================================================================
