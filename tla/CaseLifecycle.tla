---------------------------- MODULE CaseLifecycle ----------------------------
(***************************************************************************)
(* What InfoBridge promises about one case, without saying how: the case   *)
(* goes forward along one chain, a response leaves only after each member  *)
(* of a quorum fixed at its submission has endorsed that very text, and    *)
(* the end of the chain is final.  CaseWorkflow is shown to implement it.  *)
(***************************************************************************)
EXTENDS Naturals, Sequences

CONSTANT Persons   \* those who can endorse a text

VARIABLES
  status,      \* the place of the case in the chain
  text,        \* the number of the response's text, 0 for none
  quorum,      \* how many persons must endorse it
  endorsers    \* the persons who have, in order

lvars == <<status, text, quorum, endorsers>>

Init ==
  /\ status = "DRAFT"
  /\ text = 0
  /\ quorum = 0
  /\ endorsers = <<>>

\* The steps that carry the case without deciding anything about the response.
Successor ==
  [DRAFT |-> "SENT", SENT |-> "RECEIVED", RECEIVED |-> "ASSIGNED",
   ASSIGNED |-> "IN_PROGRESS", RESPONSE_SENT |-> "CLOSED", CLOSED |-> "ARCHIVED"]

Advance ==
  /\ status \in DOMAIN Successor
  /\ status' = Successor[status]
  /\ UNCHANGED <<text, quorum, endorsers>>

\* A new text is submitted: nobody has endorsed it yet.
Submit ==
  /\ status \in {"IN_PROGRESS", "REJECTED"}
  /\ status' = "PENDING_VALIDATION"
  /\ text' = text + 1
  /\ quorum' \in Nat
  /\ endorsers' = <<>>

\* A person who has not endorsed the text does; the last of the quorum
\* approves it.
Endorse(p) ==
  /\ status = "PENDING_VALIDATION"
  /\ Len(endorsers) < quorum
  /\ \A i \in DOMAIN endorsers : endorsers[i] # p
  /\ endorsers' = Append(endorsers, p)
  /\ status' = IF Len(endorsers) + 1 = quorum THEN "APPROVED" ELSE status
  /\ UNCHANGED <<text, quorum>>

\* Without a quorum one decision approves the text.
Approve ==
  /\ status = "PENDING_VALIDATION"
  /\ quorum = 0
  /\ status' = "APPROVED"
  /\ UNCHANGED <<text, quorum, endorsers>>

Reject ==
  /\ status = "PENDING_VALIDATION"
  /\ status' = "REJECTED"
  /\ UNCHANGED <<text, quorum, endorsers>>

\* Only a text with its whole quorum goes out.
Publish ==
  /\ status = "APPROVED"
  /\ Len(endorsers) = quorum
  /\ status' = "RESPONSE_SENT"
  /\ UNCHANGED <<text, quorum, endorsers>>

Next ==
  \/ Advance
  \/ Submit
  \/ \E p \in Persons : Endorse(p)
  \/ Approve
  \/ Reject
  \/ Publish

Spec == Init /\ [][Next]_lvars

=============================================================================
