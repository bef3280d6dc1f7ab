------------------------ MODULE MCSessionCoordinator ------------------------
(* Three calls on one session: a resumption with a fence, one without or a     *)
(* load, and an inspection.                                                    *)
EXTENDS SessionCoordinator

MCCallers == {"c1", "c2", "c3"}
MCRoles(c) == CASE c = "c1" -> {"fenced"}
                [] c = "c2" -> {"prepare", "load"}
                [] c = "c3" -> {"inspect"}

=============================================================================
