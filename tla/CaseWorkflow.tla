---------------------------- MODULE CaseWorkflow ----------------------------
(***************************************************************************)
(* One exchange case from its creation to its archiving, each handler in   *)
(* one step: what the API does when two requests to the same case never    *)
(* overlap.  CaseTransactions takes that hypothesis away.                  *)
(***************************************************************************)
EXTENDS CaseRules

CONSTANT MaxTexts   \* bound on the texts of the response that are drafted

ASSUME MaxTextsAssumption == MaxTexts \in Nat

VARIABLES
  row,          \* the case's row, and the status of its workflow's row
  texts,        \* how many texts have been drafted
  circuit,      \* the validation circuit the receiver's policies spell now
  delegations   \* the <<owner, delegate>> pairs in force

desk == <<circuit, delegations>>

vars == <<row, texts, desk>>

Init ==
  /\ row = NewRow
  /\ texts = 0
  /\ circuit = <<>>
  /\ delegations = {}

-----------------------------------------------------------------------------
(***************************************************************************)
(* The handlers of the case                                                *)
(***************************************************************************)
SendCase(u) ==
  /\ MaySend(u, row)
  /\ row' = Moved(row, "SENT")
  /\ UNCHANGED <<texts, desk>>

ReceiveCase(u) ==
  /\ MayReceive(u, row)
  /\ row' = Moved(row, "RECEIVED")
  /\ UNCHANGED <<texts, desk>>

AssignCase(u, assignee) ==
  /\ MayAssign(u, assignee, row)
  /\ row' = Assigned(row, assignee)
  /\ UNCHANGED <<texts, desk>>

StartCase(u) ==
  /\ MayStart(u, row, delegations)
  /\ row' = Moved(row, "IN_PROGRESS")
  /\ UNCHANGED <<texts, desk>>

DraftResponse(u) ==
  /\ texts < MaxTexts
  /\ MayDraft(u, row, delegations)
  /\ texts' = texts + 1
  /\ row' = Drafted(row, circuit, texts + 1)
  /\ UNCHANGED desk

ApproveResponse(u) ==
  /\ MayDecide(u, row)
  /\ row' = Approved(u, row)
  /\ UNCHANGED <<texts, desk>>

RejectResponse(u) ==
  /\ MayDecide(u, row)
  /\ row' = Rejected(u, row)
  /\ UNCHANGED <<texts, desk>>

SendResponse(u) ==
  /\ MaySendResponse(u, row, delegations)
  /\ row' = Moved(row, "RESPONSE_SENT")
  /\ UNCHANGED <<texts, desk>>

CloseCase(u) ==
  /\ MayClose(u, row)
  /\ row' = Moved(row, "CLOSED")
  /\ UNCHANGED <<texts, desk>>

ArchiveCase(u) ==
  /\ MayArchive(u, row)
  /\ \E retention \in {"none", "explicit"} : row' = Archived(row, retention)
  /\ UNCHANGED <<texts, desk>>

UploadAttachment(u) ==
  /\ MayUpload(u, row)
  /\ row' = Recorded(row)
  /\ UNCHANGED <<texts, desk>>

DownloadAttachment(u) ==
  /\ MayDownload(u, row)
  /\ row' = Recorded(row)
  /\ UNCHANGED <<texts, desk>>

\* The lifecycle scan finds the case closed for long enough.
RetainCase ==
  /\ MayRetain(row)
  /\ row' = Retained(row)
  /\ UNCHANGED <<texts, desk>>

-----------------------------------------------------------------------------
(***************************************************************************)
(* What changes around the case                                            *)
(***************************************************************************)
SavePolicy(u) ==
  /\ Role[u] \in Administrators /\ ReceiverAccess(u)
  /\ circuit' \in Circuits
  /\ UNCHANGED <<row, texts, delegations>>

DelegateCase(u, delegate) ==
  /\ MayDelegate(u, delegate, row)
  /\ delegations' = delegations \cup {<<row.assigned, delegate>>}
  /\ UNCHANGED <<row, texts, circuit>>

\* A delegation is revoked, or its window ends.
EndDelegation(d) ==
  /\ d \in delegations
  /\ delegations' = delegations \ {d}
  /\ UNCHANGED <<row, texts, circuit>>

DeskStep ==
  \/ \E u \in Users : SavePolicy(u)
  \/ \E u, d \in Users : DelegateCase(u, d)
  \/ \E d \in delegations : EndDelegation(d)

CaseStep ==
  \/ \E u \in Users :
       \/ SendCase(u)
       \/ ReceiveCase(u)
       \/ \E a \in Users : AssignCase(u, a)
       \/ StartCase(u)
       \/ DraftResponse(u)
       \/ ApproveResponse(u)
       \/ RejectResponse(u)
       \/ SendResponse(u)
       \/ CloseCase(u)
       \/ ArchiveCase(u)
       \/ UploadAttachment(u)
       \/ DownloadAttachment(u)
  \/ RetainCase

Next == CaseStep \/ DeskStep

Spec == Init /\ [][Next]_vars

-----------------------------------------------------------------------------
(***************************************************************************)
(* Properties                                                              *)
(***************************************************************************)

\* The row, the counter and the surroundings keep the types of their columns.
TypeOK ==
  /\ row \in CaseRow
  /\ texts \in Nat
  /\ circuit \in Circuits
  /\ delegations \in SUBSET (Users \X Users)

AfterApproval == {"APPROVED", "RESPONSE_SENT", "CLOSED", "ARCHIVED"}

\* Once approved, and from then on however the case moves, the response is the
\* text its last decision was about, its circuit is complete, each step was
\* approved for this text by a different person who holds the step's role (or
\* is a system administrator): validate_response, approve_step and
\* prepare_validation together, whatever policies were edited in between.
AnsweredWithConsent ==
  row.status \in AfterApproval =>
    /\ row.decision.text = row.body
    /\ CircuitComplete(row)
    /\ \A i \in DOMAIN row.progress :
         /\ row.progress[i].text = row.body
         /\ row.progress[i].role \in {row.steps[i], "SYSTEM_ADMIN"}
    /\ DistinctUsers(row.progress)

\* A pending response can always be decided: its circuit has a step left, so
\* neither an approval nor a rejection is refused as "Circuit deja termine".
NeverStuck ==
  row.status = "PENDING_VALIDATION" => AwaitsADecision(row)

\* From the assignment on somebody answers for the case, and it is a member of
\* the receiver: draft_response, which lets any agent draft when assigned_to is
\* null, never sees it null.
SomebodyAnswers ==
  /\ row.status \notin {"DRAFT", "SENT", "RECEIVED"} => row.assigned # NoUser
  /\ row.assigned # NoUser => Institution[row.assigned] = Receiver

\* The status of the case's workflow tells an open case from a closed one, also
\* after the scan's archiving, which does not write it.
WorkflowAgrees ==
  row.flow = "CLOSED" <=> row.status \in {"CLOSED", "ARCHIVED"}

-----------------------------------------------------------------------------
\* The case as the abstract specification sees it.
Lifecycle ==
  INSTANCE CaseLifecycle WITH
    Persons <- Users,
    status <- row.status,
    text <- row.body,
    quorum <- Len(row.steps),
    endorsers <- UsersOf(row.progress)

\* Requests that do not overlap give exactly the lifecycle promised.
ImplementsLifecycle == Lifecycle!Spec

=============================================================================
