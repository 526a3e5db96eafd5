--------------------------- MODULE MCOffloadStream ---------------------------
(* OffloadStream with the values that TLC checks it for.                   *)
EXTENDS OffloadStream, TLC

CONSTANTS c1, c2

\* The playback thread makes every call; another thread drains, or sets
\* metadata or the mode.
OneDriver   == [c \in {c1, c2} |-> IF c = c1 THEN Ops ELSE {"drain", "params", "set_mode"}]
\* Two threads make every call but close.
TwoDrivers  == [c \in {c1, c2} |-> Ops \ {"close"}]
\* What playing needs, against a thread that queries the position.
Playing     == [c \in {c1, c2} |-> IF c = c1 THEN Ops \ {"query", "params", "route", "set_mode"}
                                   ELSE {"query"}]

\* Handles are alike.
MCSymmetry == Permutations(Handles)

\* What a state decides by: not the operation of an idle client, the command and
\* the handle of a thread that is not in the driver, or a history that the next
\* start or the next metadata forget.
MCView ==
    <<[c \in Clients |-> IF pc[c] = "idle" THEN "none" ELSE op[c]],
      IF pc[OT] \in {"call", "track", "driver"} THEN cur ELSE "EXIT",
      IF pc[OT] \in {"track", "driver"} THEN used ELSE NULL,
      IF compr = NULL THEN FALSE ELSE unstarted,
      IF send_new_metadata THEN \E c \in Clients : pc[c] = "told" /\ raced ELSE raced,
      pc, locks, cmds, blocked, compr, dev, told, stream,
      send_new_metadata, gapless_mdata, closed>>
=============================================================================
