---------------------------- MODULE MCWriteBehind ----------------------------
(***************************************************************************)
(* Model-checking instance of WriteBehind.                                  *)
(***************************************************************************)
EXTENDS WriteBehind

CONSTANTS f1, f2

MCFlushers == {f1, f2}
=============================================================================
