---------------------------- MODULE MCLifecycle -----------------------------
(***************************************************************************)
(* Noon and the next midnight; one case that has been late for more than   *)
(* two days and is escalated, to level 1 then to level 2, and one that is  *)
(* due now, becomes late and can be closed.  Two workers and one run by    *)
(* hand over both cases, one failure: enough for two transactions to wait  *)
(* for each other and for a scan to run over midnight.                     *)
(***************************************************************************)
EXTENDS Lifecycle, TLC

CONSTANTS c1, c2, ia, sys

MCDueAt == c1 :> -5 @@ c2 :> 0

MCRecipients == <<{ia}, {sys}>>

=============================================================================
