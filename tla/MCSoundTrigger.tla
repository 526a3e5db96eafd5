---------------------------- MODULE MCSoundTrigger ----------------------------
(* One thread of the framework, which serializes its calls; two identities *)
(* for the callback thread, so that a second one could exist.              *)
EXTENDS SoundTrigger

CONSTANTS c1, t1, t2
=============================================================================
