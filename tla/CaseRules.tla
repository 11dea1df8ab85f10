------------------------------ MODULE CaseRules ------------------------------
(***************************************************************************)
(* The rules of one exchange case: who may perform each operation on the   *)
(* case's row, and what the row becomes.  A handler of the API is a guard  *)
(* (MayX, the refusals of the handler in order) and an effect (the row     *)
(* after it), so that CaseWorkflow can run it in one step and              *)
(* CaseTransactions in two, a read and a later commit.                     *)
(*                                                                         *)
(* Users are accounts that can authenticate.  Access rules are the pairs   *)
(* of Barred; they refuse operations and do nothing else, so Barred = {}   *)
(* allows every behaviour of rules that change with time.                  *)
(***************************************************************************)
EXTENDS Naturals, Sequences

CONSTANTS
  Users,        \* the accounts
  Role,         \* the role of each account
  Institution,  \* the institution of each account
  Sender,       \* the institution that sends the case
  Receiver,     \* the institution that answers it
  Creator,      \* the account that created the case
  NoUser,       \* a null account column
  Circuits,     \* the validation circuits that case policies can spell
  Barred        \* <<account, permission>> pairs that an access rule refuses

Roles == {"SYSTEM_ADMIN", "INSTITUTION_ADMIN", "AGENT", "VALIDATOR",
          "CONSULTANT", "OBSERVER", "AUDITOR"}

\* PolicyInput accepts only these two roles as the steps of a circuit.
ValidationRoles == {"VALIDATOR", "INSTITUTION_ADMIN"}

ASSUME RolesAssumption == Role \in [Users -> Roles]
ASSUME NoUserAssumption == NoUser \notin Users
ASSUME CircuitsAssumption == Circuits \subseteq Seq(ValidationRoles)
ASSUME EmptyCircuitAssumption == <<>> \in Circuits

-----------------------------------------------------------------------------
(***************************************************************************)
(* The row                                                                 *)
(***************************************************************************)
Status == {"DRAFT", "SENT", "RECEIVED", "IN_REVIEW", "ASSIGNED", "IN_PROGRESS",
           "PENDING_VALIDATION", "APPROVED", "REJECTED", "RESPONSE_SENT",
           "CLOSED", "ARCHIVED"}

AllowedTransitions ==
  [DRAFT |-> {"SENT"}, SENT |-> {"RECEIVED"}, RECEIVED |-> {"ASSIGNED"},
   ASSIGNED |-> {"IN_PROGRESS"}, IN_PROGRESS |-> {"PENDING_VALIDATION"},
   PENDING_VALIDATION |-> {"APPROVED", "REJECTED"},
   APPROVED |-> {"RESPONSE_SENT"}, REJECTED |-> {"PENDING_VALIDATION"},
   RESPONSE_SENT |-> {"CLOSED"}, CLOSED |-> {"ARCHIVED"}, ARCHIVED |-> {},
   IN_REVIEW |-> {"ASSIGNED"}]

CanMove(r, target) == target \in AllowedTransitions[r.status]

\* A text of the response is named by the number of the draft that brought
\* it; 0 is no text.  The text field of an approval and of a decision is
\* auxiliary: it names the text that was in the row when the user agreed to it.
Approval == [user : Users, role : Roles, text : Nat]
Decision == [by : Users \cup {NoUser}, text : Nat]

CaseRow ==
  [status    : Status,
   assigned  : Users \cup {NoUser},
   steps     : Circuits,
   progress  : Seq(Approval),
   body      : Nat,
   decision  : Decision,                           \* validated_by
   retention : {"none", "explicit", "default"},    \* retention_until
   flow      : {"PENDING", "IN_PROGRESS", "CLOSED"}] \* workflows.status

NewRow ==
  [status |-> "DRAFT", assigned |-> NoUser, steps |-> <<>>, progress |-> <<>>,
   body |-> 0, decision |-> [by |-> NoUser, text |-> 0], retention |-> "none",
   flow |-> "PENDING"]

\* Mutant of Recorded: only an archived case closes its workflow.
RecordedClosingLate(r) ==
  [r EXCEPT !.flow = IF r.status = "ARCHIVED" THEN "CLOSED" ELSE "IN_PROGRESS"]

\* _record_workflow_action copies what the status says of the workflow.
Recorded(r) ==
  [r EXCEPT !.flow = IF r.status \in {"CLOSED", "ARCHIVED"} THEN "CLOSED"
                     ELSE "IN_PROGRESS"]

\* transition_case, then _record_workflow_action.
Moved(r, target) == Recorded([r EXCEPT !.status = target])

-----------------------------------------------------------------------------
(***************************************************************************)
(* Access                                                                  *)
(***************************************************************************)
IsSystemAdmin(u) == Role[u] = "SYSTEM_ADMIN"

SenderAccess(u) == IsSystemAdmin(u) \/ Institution[u] = Sender

ReceiverAccess(u) == IsSystemAdmin(u) \/ Institution[u] = Receiver

CaseAccess(u, r) ==
  SenderAccess(u) \/ ReceiverAccess(u) \/ r.assigned = u

Permitted(u, permission) == IsSystemAdmin(u) \/ <<u, permission>> \notin Barred

\* A delegation in force is an <<owner, delegate>> pair: it counts only while
\* its owner is still the one the case is assigned to.  One whose window opens
\* later is taken as granted then.
IsOperator(u, r, delegations) ==
  \/ r.assigned = u
  \/ Institution[u] = Receiver /\ <<r.assigned, u>> \in delegations

\* Agents act only as operators; the two administrator roles always may.
ActsAsOperator(u, r, delegations) ==
  Role[u] = "AGENT" => IsOperator(u, r, delegations)

Handlers == {"SYSTEM_ADMIN", "INSTITUTION_ADMIN", "AGENT"}
Deciders == {"SYSTEM_ADMIN", "INSTITUTION_ADMIN", "VALIDATOR"}
Administrators == {"SYSTEM_ADMIN", "INSTITUTION_ADMIN"}

-----------------------------------------------------------------------------
(***************************************************************************)
(* The operations                                                          *)
(***************************************************************************)
\* enforce_checklist can also refuse, for what the documents of the case are:
\* its verdict is an input here.
MaySend(u, r) ==
  /\ Role[u] \in Handlers /\ SenderAccess(u) /\ Permitted(u, "cases.send")
  /\ Role[u] = "AGENT" => u = Creator
  /\ CanMove(r, "SENT")

MayReceive(u, r) ==
  /\ Role[u] \in Handlers /\ ReceiverAccess(u) /\ Permitted(u, "cases.receive")
  /\ CanMove(r, "RECEIVED")

\* Mutant of MayAssign: any account can be the assignee.
MayAssignAnyone(u, assignee, r) ==
  /\ Role[u] \in Deciders /\ ReceiverAccess(u) /\ Permitted(u, "cases.assign")
  /\ CanMove(r, "ASSIGNED")

MayAssign(u, assignee, r) ==
  /\ Role[u] \in Deciders /\ ReceiverAccess(u) /\ Permitted(u, "cases.assign")
  /\ Institution[assignee] = Receiver
  /\ CanMove(r, "ASSIGNED")

Assigned(r, assignee) == [Moved(r, "ASSIGNED") EXCEPT !.assigned = assignee]

MayStart(u, r, delegations) ==
  /\ Role[u] \in Handlers /\ ReceiverAccess(u) /\ Permitted(u, "cases.process")
  /\ ActsAsOperator(u, r, delegations)
  /\ CanMove(r, "IN_PROGRESS")

MayDraft(u, r, delegations) ==
  /\ Role[u] \in Handlers /\ ReceiverAccess(u) /\ Permitted(u, "cases.respond")
  /\ r.assigned # NoUser => ActsAsOperator(u, r, delegations)
  /\ CanMove(r, "PENDING_VALIDATION")

\* Mutant of Drafted: a new text keeps the approvals of the one before.
DraftedKeepingProgress(r, circuit, text) ==
  [Moved(r, "PENDING_VALIDATION") EXCEPT !.steps = circuit, !.body = text]

\* The circuit in force is copied into the row and its progress starts again.
Drafted(r, circuit, text) ==
  [Moved(r, "PENDING_VALIDATION") EXCEPT
     !.steps = circuit, !.progress = <<>>, !.body = text]

\* Mutant of MayDecide: the role of the step is not compared.
MayDecideAnyRole(u, r) ==
  /\ Role[u] \in Deciders /\ ReceiverAccess(u) /\ Permitted(u, "cases.validate")
  /\ r.status = "PENDING_VALIDATION"
  /\ r.steps # <<>> =>
       /\ Len(r.progress) < Len(r.steps)
       /\ \A i \in DOMAIN r.progress : r.progress[i].user # u

\* Mutant of MayDecide: nobody looks for an earlier approval by the user.
MayDecideAgain(u, r) ==
  /\ Role[u] \in Deciders /\ ReceiverAccess(u) /\ Permitted(u, "cases.validate")
  /\ r.status = "PENDING_VALIDATION"
  /\ r.steps # <<>> =>
       /\ Len(r.progress) < Len(r.steps)
       /\ IsSystemAdmin(u) \/ Role[u] = r.steps[Len(r.progress) + 1]

\* The guards of approve_step, which hold for a rejection too.
MayDecide(u, r) ==
  /\ Role[u] \in Deciders /\ ReceiverAccess(u) /\ Permitted(u, "cases.validate")
  /\ r.status = "PENDING_VALIDATION"
  /\ r.steps # <<>> =>
       /\ Len(r.progress) < Len(r.steps)
       /\ IsSystemAdmin(u) \/ Role[u] = r.steps[Len(r.progress) + 1]
       /\ \A i \in DOMAIN r.progress : r.progress[i].user # u

Decided(u, r, target) ==
  [Moved(r, target) EXCEPT !.decision = [by |-> u, text |-> r.body]]

Rejected(u, r) == Decided(u, r, "REJECTED")

\* Mutant of ApprovalOf: the role is not recorded.
ApprovalWithoutRole(u, r) == [user |-> u, text |-> r.body]

ApprovalOf(u, r) == [user |-> u, role |-> Role[u], text |-> r.body]

\* Mutant of Approved: any approval approves the response.
ApprovedAtOnce(u, r) ==
  Decided(u, [r EXCEPT !.progress = IF r.steps = <<>> THEN @
                                    ELSE Append(@, ApprovalOf(u, r))], "APPROVED")

\* The approval of the last step of the circuit, or without a circuit the only
\* one, approves the response; an earlier one is recorded and changes nothing
\* else.
Approved(u, r) ==
  LET done == Append(r.progress, ApprovalOf(u, r))
  IN  IF r.steps = <<>> THEN Decided(u, r, "APPROVED")
      ELSE IF Len(done) = Len(r.steps)
           THEN Decided(u, [r EXCEPT !.progress = done], "APPROVED")
           ELSE Recorded([r EXCEPT !.progress = done])

MaySendResponse(u, r, delegations) ==
  /\ Role[u] \in Handlers /\ ReceiverAccess(u)
  /\ Permitted(u, "cases.send_response")
  /\ ActsAsOperator(u, r, delegations)
  /\ CanMove(r, "RESPONSE_SENT")

MayClose(u, r) ==
  /\ Role[u] \in Deciders /\ SenderAccess(u) /\ Permitted(u, "cases.close")
  /\ CanMove(r, "CLOSED")

MayArchive(u, r) ==
  /\ Role[u] \in Administrators /\ SenderAccess(u)
  /\ Permitted(u, "cases.archive")
  /\ CanMove(r, "ARCHIVED")

\* The retention date of the request replaces the column, even by a null.
Archived(r, retention) == [Moved(r, "ARCHIVED") EXCEPT !.retention = retention]

\* The retention scan archives without transition_case and writes no workflow
\* action; a date already there is kept.
MayRetain(r) == r.status = "CLOSED"

Retained(r) ==
  [r EXCEPT !.status = "ARCHIVED",
            !.retention = IF @ = "none" THEN "default" ELSE @]

\* A document can be uploaded at any time: for the row only the record of the
\* action matters, which also opens the workflow of a draft.
MayUpload(u, r) ==
  Role[u] \in Handlers /\ CaseAccess(u, r) /\ Permitted(u, "documents.upload")

\* Anybody with access downloads, once there is a document: its upload has
\* recorded an action.
MayDownload(u, r) ==
  CaseAccess(u, r) /\ Permitted(u, "documents.download") /\ r.flow # "PENDING"

\* A delegation is granted by an administrator of the receiver to another
\* agent of the receiver, for a case that is assigned and not yet answered.
MayDelegate(u, delegate, r) ==
  /\ Role[u] \in Administrators /\ ReceiverAccess(u)
  /\ Permitted(u, "cases.assign")
  /\ r.assigned \notin {NoUser, delegate}
  /\ Institution[delegate] = Receiver /\ Role[delegate] = "AGENT"
  /\ Permitted(delegate, "cases.read")
  /\ r.status \in {"ASSIGNED", "IN_PROGRESS", "REJECTED", "PENDING_VALIDATION",
                   "APPROVED"}

-----------------------------------------------------------------------------
(***************************************************************************)
(* What the circuit of a row says                                          *)
(***************************************************************************)
CircuitComplete(r) == r.steps = <<>> \/ Len(r.progress) = Len(r.steps)

\* The users of a list of approvals, in order.
UsersOf(progress) == [i \in DOMAIN progress |-> progress[i].user]

\* No user has two of the approvals.
DistinctUsers(progress) ==
  \A i, j \in DOMAIN progress : progress[i].user = progress[j].user => i = j

\* The decision still open on a pending response can be taken: some step of
\* its circuit is left.
AwaitsADecision(r) == r.steps = <<>> \/ Len(r.progress) < Len(r.steps)

=============================================================================
