----------------------------- MODULE MCSensors -----------------------------
(***************************************************************************)
(* The sensor HAL for TLC: one ordinary sensor and the one-shot sensor.    *)
(***************************************************************************)
EXTENDS Sensors

CONSTANTS acc, motion

MCSensor == {acc, motion}
MCOneShot == {motion}
NoOneShot == {}
=============================================================================
