----------------------------- MODULE MCVisualizer -----------------------------
(* Two HAL threads, an offloaded output and another one, an effect, two    *)
(* thread identities.                                                      *)
EXTENDS Visualizer

CONSTANTS c1, c2, t1, t2, o1, o2, e1
=============================================================================
