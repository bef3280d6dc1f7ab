------------------------- MODULE MCSubagentMailbox -------------------------
(* Three calls to one child: c1 and c2 present one key, c3 another. *)
EXTENDS SubagentMailbox

CONSTANTS c1, c2, c3, m1, m2

MCCallers == {c1, c2, c3}
MCMessages == {m1, m2}
MCKey(c) == IF c = c3 THEN m2 ELSE m1

=============================================================================
