----------------------------- MODULE MCAccounts -----------------------------
(***************************************************************************)
(* The first administrator and one account that is created beside it; two  *)
(* institutions and two addresses, so that one can be suspended and an     *)
(* address is wanted twice; two requests at a time.  Nothing tells         *)
(* accounts, addresses, institutions and requests apart but the state.     *)
(***************************************************************************)
EXTENDS Accounts, TLC

Symmetry ==
  Permutations(Users) \cup Permutations(Institutions) \cup Permutations(Emails)
    \cup Permutations(Requests)

MCChanges ==
  {[status |-> "DISABLED"]} \cup {[email |-> e] : e \in Emails}

=============================================================================
