--------------------------- MODULE MCAgentDriver ---------------------------
(***************************************************************************)
(* Model-checking instance of AgentDriver: one message of each kind, the    *)
(* third one a prompt or a steering message.                                *)
(***************************************************************************)
EXTENDS AgentDriver

CONSTANTS m1, m2, m3

MCMessages == {m1, m2, m3}
MCWays ==
  [m \in MCMessages |->
     CASE m = m1 -> {"inject"} [] m = m2 -> {"followup"} [] m = m3 -> {"followup", "steer"}]
=============================================================================
