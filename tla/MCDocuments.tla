---------------------------- MODULE MCDocuments -----------------------------
(***************************************************************************)
(* One original and two replacements of it, or of one another, that race;  *)
(* the worker's purge and a manual one; one failure.  The sender must join *)
(* evidence: the first two uploads are evidence, the third is not, so that *)
(* a replacement can also change the use.                                  *)
(***************************************************************************)
EXTENDS Documents

\* A date that is over on the second day, and one that never is: as to documents,
\* it stands for no date too.
MCByHand == {1, 2}

MCPurposeOf == [d \in 1 .. MaxDocs |-> IF d < 3 THEN "EVIDENCE" ELSE "REQUEST"]

=============================================================================
