--------------------------- MODULE MCCaseWorkflow ---------------------------
(***************************************************************************)
(* The smallest staff that reaches every branch: at the sender an agent    *)
(* who creates and a validator who closes; at the receiver two agents (one *)
(* can replace the other), an administrator and two validators; one system *)
(* administrator, who may do everything everywhere.                        *)
(***************************************************************************)
EXTENDS CaseWorkflow, TLC

CONSTANTS sa, sv, ra, rb, rv, rw, ri, sys, none

MCUsers == {sa, sv, ra, rb, rv, rw, ri, sys}

MCRole ==
  sa :> "AGENT" @@ sv :> "VALIDATOR" @@ ra :> "AGENT" @@ rb :> "AGENT" @@
  rv :> "VALIDATOR" @@ rw :> "VALIDATOR" @@ ri :> "INSTITUTION_ADMIN" @@
  sys :> "SYSTEM_ADMIN"

MCInstitution ==
  [u \in MCUsers |-> IF u \in {sa, sv} THEN "sender"
                     ELSE IF u = sys THEN "platform" ELSE "receiver"]

\* No rule, a circuit of one step, one of two steps of the same role and one
\* that climbs from a role to the other.
MCCircuits == {<<>>, <<"INSTITUTION_ADMIN">>, <<"VALIDATOR", "VALIDATOR">>,
               <<"VALIDATOR", "INSTITUTION_ADMIN">>}

\* An access rule that takes the processing of cases from the second agent.
MCBarred == {<<rb, "cases.process">>}

=============================================================================
