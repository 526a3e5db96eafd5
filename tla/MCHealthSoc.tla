---------------------------- MODULE MCHealthSoc -----------------------------
(***************************************************************************)
(* The battery filter for TLC.  The constants keep the order of the code's *)
(* (100, 15, 3000, 2800, 2, 6, 55) at a smaller scale; the voltages are on *)
(* both sides of each threshold and at it.                                 *)
(***************************************************************************)
EXTENDS HealthSoc

MCVoltage == 0 .. 4
MCTemperature == {"normal"}
=============================================================================
