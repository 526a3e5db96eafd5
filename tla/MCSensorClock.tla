--------------------------- MODULE MCSensorClock ---------------------------
(* The sensors' time stamps for TLC: one sensor, two runs of the hub.      *)
EXTENDS SensorClock

CONSTANT s1
=============================================================================
