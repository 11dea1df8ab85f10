---------------------------- MODULE MCApiClients ----------------------------
(***************************************************************************)
(* One client, of the one institution or global; two scopes; a version     *)
(* that can count twice, so that a suspension can be lifted; a token       *)
(* request beside the requests of two administrators, interchangeable.     *)
(***************************************************************************)
EXTENDS ApiClients, TLC

CONSTANTS bank, tax

\* No column tells administrators or secrets apart.
Symmetry == Permutations(Admins) \cup Permutations(Secrets)

MCParties == "ours" :> {bank} @@ "theirs" :> {tax}

=============================================================================
