---------------------------- MODULE MCWorkspace -----------------------------
(***************************************************************************)
(* An agent of each institution and a system administrator of the          *)
(* receiver; a case above the one clearance that rules can name; two       *)
(* overlapping requests and two rows.                                      *)
(***************************************************************************)
EXTENDS Workspace, TLC

CONSTANTS ann, bob, sue, q1, q2

MCRuleKeys ==
  {<<Receiver, "cases.read">>, <<None, "cases.read">>, <<None, "cases.comment">>}

\* Writes that overlap can mix the two.
MCRuleValues == {[allowed |-> TRUE, clearance |-> None], [allowed |-> FALSE, clearance |-> 1]}

Symmetry == Permutations({q1, q2})

MCInstitution == ann :> Sender @@ bob :> Receiver @@ sue :> Receiver

=============================================================================
