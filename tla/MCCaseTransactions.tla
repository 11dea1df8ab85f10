------------------------- MODULE MCCaseTransactions -------------------------
(***************************************************************************)
(* Overlapping requests to one case.  The staff is the smallest with two   *)
(* validators to race (either can be the assignee) and a system            *)
(* administrator who can act for all the others.  Agents and delegations   *)
(* only narrow or widen who may act: the runs of CaseWorkflow have them.   *)
(***************************************************************************)
EXTENDS CaseTransactions, TLC

CONSTANTS va, vb, sys, none

MCUsers == {va, vb, sys}

MCRole == va :> "VALIDATOR" @@ vb :> "VALIDATOR" @@ sys :> "SYSTEM_ADMIN"

MCInstitution ==
  [u \in MCUsers |-> IF u = sys THEN "sender" ELSE "receiver"]

MCCircuits == {<<>>, <<"VALIDATOR", "VALIDATOR">>}

Validators == Permutations({va, vb})

=============================================================================
