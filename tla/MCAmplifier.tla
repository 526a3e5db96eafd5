----------------------------- MODULE MCAmplifier -----------------------------
(* The amplifier for TLC: two modes, dummy threads that run for 2 rounds.  *)
EXTENDS Amplifier

CONSTANTS m1, m2
=============================================================================
