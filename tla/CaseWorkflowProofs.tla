------------------------- MODULE CaseWorkflowProofs -------------------------
(***************************************************************************)
(* The invariants of CaseWorkflow, and that it implements CaseLifecycle,   *)
(* for any staff, any access rules and any circuits.                       *)
(***************************************************************************)
EXTENDS CaseWorkflow, CaseRulesProofs

-----------------------------------------------------------------------------
(***************************************************************************)
(* The inductive invariant.  AnsweredWithConsent says nothing of a pending *)
(* response, yet depends on what the circuit of one looks like: the steps  *)
(* taken so far are in order, for this text, by different persons, and     *)
(* never more than the circuit has.                                        *)
(***************************************************************************)
ProgressOK ==
  /\ Len(row.progress) <= Len(row.steps)
  /\ DistinctUsers(row.progress)
  /\ \A i \in DOMAIN row.progress :
       /\ row.progress[i].text = row.body
       /\ row.progress[i].role \in {row.steps[i], "SYSTEM_ADMIN"}

DecisionOK ==
  row.status \in AfterApproval =>
    /\ row.decision.text = row.body
    /\ Len(row.progress) = Len(row.steps)

CaseInv ==
  /\ TypeOK
  /\ ProgressOK
  /\ DecisionOK
  /\ NeverStuck
  /\ SomebodyAnswers
  /\ WorkflowAgrees
  /\ row.status # "IN_REVIEW"   \* the status no handler sets
  /\ row.body = texts

-----------------------------------------------------------------------------
\* An empty sequence is the one of length zero.
LEMMA EmptyCircuit ==
  ASSUME NEW r \in CaseRow
  PROVE  /\ r.steps \in Seq(ValidationRoles) /\ Len(r.steps) \in Nat
         /\ r.progress \in Seq(Approval) /\ Len(r.progress) \in Nat
         /\ r.steps = <<>> <=> Len(r.steps) = 0
         /\ DOMAIN r.progress = 1 .. Len(r.progress)
  <1>1. r.steps \in Seq(ValidationRoles) /\ r.progress \in Seq(Approval)
    BY CircuitsAssumption DEF CaseRow
  <1>2. QED
    BY <1>1, EmptySeq, LenProperties

\* A step that moves the case along its chain, and touches neither the response
\* nor its circuit, preserves the invariant.
LEMMA AdministrativeStep ==
  ASSUME CaseInv, UNCHANGED <<texts, desk>>,
         row' \in CaseRow,
         row'.steps = row.steps, row'.progress = row.progress,
         row'.body = row.body, row'.decision = row.decision,
         row'.status \notin {"PENDING_VALIDATION", "IN_REVIEW"},
         row'.status \in AfterApproval => row.status \in AfterApproval,
         row'.flow = "CLOSED" <=> row'.status \in {"CLOSED", "ARCHIVED"},
         row'.assigned # NoUser => Institution[row'.assigned] = Receiver,
         row'.status \notin {"DRAFT", "SENT", "RECEIVED"} => row'.assigned # NoUser
  PROVE  CaseInv'
  <1>1. TypeOK'
    BY DEF CaseInv, TypeOK, desk
  <1>2. ProgressOK'
    BY DEF CaseInv, ProgressOK
  <1>3. DecisionOK'
    BY DEF CaseInv, DecisionOK
  <1>4. NeverStuck' /\ SomebodyAnswers' /\ WorkflowAgrees'
    BY DEF NeverStuck, SomebodyAnswers, WorkflowAgrees
  <1>5. QED
    BY <1>1, <1>2, <1>3, <1>4 DEF CaseInv

\* A submission starts the circuit again, on a text nobody has seen.
LEMMA SubmissionStep ==
  ASSUME CaseInv, NEW u \in Users, DraftResponse(u)
  PROVE  CaseInv'
  <1>1. row \in CaseRow /\ texts + 1 \in Nat /\ circuit \in Circuits
    BY DEF CaseInv, TypeOK
  <1>2. /\ row' \in CaseRow
        /\ row'.status = "PENDING_VALIDATION" /\ row'.flow = "IN_PROGRESS"
        /\ row'.assigned = row.assigned
        /\ row'.steps = circuit /\ row'.progress = <<>> /\ row'.body = texts + 1
    BY <1>1, DraftedRow DEF DraftResponse
  <1>3. row.status \in {"IN_PROGRESS", "REJECTED"}
    BY <1>1, MoveComesFrom DEF DraftResponse, MayDraft, Status
  <1>4. TypeOK'
    BY <1>1, <1>2 DEF CaseInv, TypeOK, DraftResponse, desk
  <1>5. Len(row'.steps) \in Nat /\ Len(row'.progress) = 0
        /\ (row'.steps = <<>> <=> Len(row'.steps) = 0)
    BY <1>2, EmptyCircuit
  <1>6. ProgressOK'
    BY <1>2, <1>5 DEF ProgressOK, DistinctUsers
  <1>7. DecisionOK' /\ NeverStuck'
    BY <1>2, <1>5 DEF DecisionOK, AfterApproval, NeverStuck, AwaitsADecision
  <1>8. SomebodyAnswers' /\ WorkflowAgrees'
    BY <1>2, <1>3 DEF CaseInv, SomebodyAnswers, WorkflowAgrees
  <1>9. row'.body = texts'
    BY <1>2 DEF DraftResponse
  <1>10. QED
    BY <1>2, <1>4, <1>6, <1>7, <1>8, <1>9 DEF CaseInv

\* An approval adds a step to the circuit, or ends it.
LEMMA ApprovalStep ==
  ASSUME CaseInv, NEW u \in Users, ApproveResponse(u)
  PROVE  CaseInv'
  <1>1. row \in CaseRow /\ row' = Approved(u, row) /\ MayDecide(u, row)
        /\ DistinctUsers(row.progress) /\ UNCHANGED <<texts, desk>>
        /\ row.status = "PENDING_VALIDATION"
    BY DEF CaseInv, TypeOK, ProgressOK, ApproveResponse, MayDecide
  <1>2. ApprovalLeaves(u, row, row')
    BY <1>1, ApprovedRow
  <1>3. TypeOK'
    BY <1>1, <1>2 DEF CaseInv, TypeOK, ApprovalLeaves, desk
  <1>4. SomebodyAnswers' /\ WorkflowAgrees' /\ row'.body = texts'
        /\ row'.status # "IN_REVIEW"
    BY <1>1, <1>2 DEF CaseInv, SomebodyAnswers, WorkflowAgrees, ApprovalLeaves
  <1>5. CASE row.steps = <<>>
    <2>1. Len(row.progress) = Len(row.steps)
      BY <1>1, <1>5, EmptyCircuit DEF CaseInv, ProgressOK
    <2>2. ProgressOK' /\ DecisionOK' /\ NeverStuck'
      BY <1>2, <1>5, <2>1 DEF CaseInv, ProgressOK, DecisionOK, NeverStuck, ApprovalLeaves
    <2>3. QED
      BY <1>3, <1>4, <2>2 DEF CaseInv
  <1>6. CASE row.steps # <<>>
    <2> DEFINE a == ApprovalOf(u, row)
    <2>1. /\ a \in Approval /\ a.user = u /\ a.role = Role[u] /\ a.text = row.body
          /\ Len(row.progress) < Len(row.steps)
          /\ a.role \in {row.steps[Len(row.progress) + 1], "SYSTEM_ADMIN"}
          /\ row'.progress = Append(row.progress, a)
          /\ row'.steps = row.steps /\ row'.body = row.body
          /\ DistinctUsers(row'.progress)
      BY <1>2, <1>6 DEF ApprovalLeaves, ApprovalOf
    <2>2. /\ Len(row'.progress) = Len(row.progress) + 1
          /\ DOMAIN row'.progress = DOMAIN row.progress \cup {Len(row.progress) + 1}
          /\ \A i \in DOMAIN row.progress : row'.progress[i] = row.progress[i]
          /\ row'.progress[Len(row.progress) + 1] = a
      <3>1. \A i \in DOMAIN row.progress : row.progress[i].user # a.user
        BY <1>2, <1>6, <2>1 DEF ApprovalLeaves
      <3>2. QED
        BY <1>1, <2>1, <3>1, EmptyCircuit, AppendedApproval
    <2>3. Len(row.progress) \in Nat /\ Len(row.steps) \in Nat
      BY <1>1, EmptyCircuit
    <2>4. \A i \in DOMAIN row'.progress :
             /\ row'.progress[i].text = row'.body
             /\ row'.progress[i].role \in {row'.steps[i], "SYSTEM_ADMIN"}
      BY <2>1, <2>2 DEF CaseInv, ProgressOK
    <2>5. ProgressOK'
      BY <2>1, <2>2, <2>3, <2>4 DEF ProgressOK
    <2>6. DecisionOK' /\ NeverStuck'
      BY <1>1, <1>2, <1>6, <2>1, <2>2, <2>3
      DEF ApprovalLeaves, DecisionOK, AfterApproval, NeverStuck, AwaitsADecision
    <2>7. QED
      BY <1>3, <1>4, <2>5, <2>6 DEF CaseInv
  <1>7. QED
    BY <1>5, <1>6

\* A new case satisfies the invariant.
LEMMA CaseInvInitial == Init => CaseInv
  <1> SUFFICES ASSUME Init PROVE CaseInv
    OBVIOUS
  <1>1. row \in CaseRow /\ row.status = "DRAFT" /\ row.assigned = NoUser
        /\ row.progress = <<>> /\ row.steps = <<>> /\ row.body = 0 /\ row.flow = "PENDING"
    BY NewRowTyped DEF Init, NewRow
  <1>2. TypeOK
    BY <1>1, EmptyCircuitAssumption DEF Init, TypeOK
  <1>3. ProgressOK /\ DecisionOK /\ NeverStuck
    BY <1>1, EmptyCircuit
    DEF ProgressOK, DistinctUsers, DecisionOK, AfterApproval, NeverStuck
  <1>4. QED
    BY <1>1, <1>2, <1>3 DEF CaseInv, Init, SomebodyAnswers, WorkflowAgrees

\* Each handler preserves the invariant.
LEMMA CaseInvInductive == CaseInv /\ [Next]_vars => CaseInv'
  <1> SUFFICES ASSUME CaseInv, [Next]_vars PROVE CaseInv'
    OBVIOUS
  <1>0. row \in CaseRow /\ SomebodyAnswers /\ WorkflowAgrees
    BY DEF CaseInv, TypeOK
  <1>1. ASSUME NEW u \in Users, SendCase(u) PROVE CaseInv'
    BY <1>0, <1>1, MovedRow, MoveComesFrom, AdministrativeStep
    DEF SendCase, MaySend, Status, SomebodyAnswers, AfterApproval
  <1>2. ASSUME NEW u \in Users, ReceiveCase(u) PROVE CaseInv'
    BY <1>0, <1>2, MovedRow, MoveComesFrom, AdministrativeStep
    DEF ReceiveCase, MayReceive, Status, SomebodyAnswers, AfterApproval
  <1>3. ASSUME NEW u \in Users, NEW a \in Users, AssignCase(u, a) PROVE CaseInv'
    BY <1>0, <1>3, AssignedRow, NoUserAssumption, AdministrativeStep
    DEF AssignCase, MayAssign, AfterApproval
  <1>4. ASSUME NEW u \in Users, StartCase(u) PROVE CaseInv'
    BY <1>0, <1>4, MovedRow, MoveComesFrom, AdministrativeStep
    DEF StartCase, MayStart, Status, SomebodyAnswers, AfterApproval
  <1>5. ASSUME NEW u \in Users, DraftResponse(u) PROVE CaseInv'
    BY <1>5, SubmissionStep
  <1>6. ASSUME NEW u \in Users, ApproveResponse(u) PROVE CaseInv'
    BY <1>6, ApprovalStep
  <1>7. ASSUME NEW u \in Users, RejectResponse(u) PROVE CaseInv'
    <2>1. row.status = "PENDING_VALIDATION"
      BY <1>7 DEF RejectResponse, MayDecide
    <2>2. /\ row' \in CaseRow /\ row'.status = "REJECTED" /\ row'.flow = "IN_PROGRESS"
          /\ row'.assigned = row.assigned /\ row'.steps = row.steps
          /\ row'.progress = row.progress /\ row'.body = row.body
      BY <1>0, <1>7, DecidedRow DEF RejectResponse, Rejected
    <2>3. TypeOK' /\ ProgressOK' /\ row'.body = texts'
      BY <1>7, <2>2 DEF CaseInv, TypeOK, ProgressOK, RejectResponse, desk
    <2>4. DecisionOK' /\ NeverStuck' /\ SomebodyAnswers' /\ WorkflowAgrees'
      BY <1>0, <2>1, <2>2
      DEF DecisionOK, AfterApproval, NeverStuck, SomebodyAnswers, WorkflowAgrees
    <2>5. QED
      BY <2>2, <2>3, <2>4 DEF CaseInv
  <1>8. ASSUME NEW u \in Users, SendResponse(u) PROVE CaseInv'
    BY <1>0, <1>8, MovedRow, MoveComesFrom, AdministrativeStep
    DEF SendResponse, MaySendResponse, Status, SomebodyAnswers, AfterApproval
  <1>9. ASSUME NEW u \in Users, CloseCase(u) PROVE CaseInv'
    BY <1>0, <1>9, MovedRow, MoveComesFrom, AdministrativeStep
    DEF CloseCase, MayClose, Status, SomebodyAnswers, AfterApproval
  <1>10. ASSUME NEW u \in Users, ArchiveCase(u) PROVE CaseInv'
    <2>1. PICK d \in {"none", "explicit"} : row' = Archived(row, d)
      BY <1>10 DEF ArchiveCase
    <2>2. row.status = "CLOSED" /\ UNCHANGED <<texts, desk>>
      BY <1>0, <1>10, MoveComesFrom DEF ArchiveCase, MayArchive, Status
    <2>3. QED
      BY <1>0, <2>1, <2>2, ArchivedRow, AdministrativeStep
      DEF SomebodyAnswers, AfterApproval
  <1>11. ASSUME RetainCase PROVE CaseInv'
    BY <1>0, <1>11, RetainedRow, AdministrativeStep
    DEF RetainCase, MayRetain, SomebodyAnswers, WorkflowAgrees, AfterApproval
  <1>12. ASSUME DeskStep PROVE CaseInv'
    <2>1. row' = row /\ texts' = texts
      BY <1>12 DEF DeskStep, SavePolicy, DelegateCase, EndDelegation
    <2>2. circuit' \in Circuits
      BY <1>12 DEF CaseInv, TypeOK, DeskStep, SavePolicy, DelegateCase, EndDelegation
    <2>3. delegations' \in SUBSET (Users \X Users)
      <3>1. ASSUME NEW u \in Users, NEW d \in Users, DelegateCase(u, d)
            PROVE  delegations' \in SUBSET (Users \X Users)
        <4>1. row.assigned \in Users
          BY <1>0, <3>1 DEF DelegateCase, MayDelegate, CaseRow
        <4>2. QED
          BY <3>1, <4>1 DEF CaseInv, TypeOK, DelegateCase
      <3>2. QED
        BY <1>12, <3>1 DEF CaseInv, TypeOK, DeskStep, SavePolicy, EndDelegation
    <2>4. QED
      BY <2>1, <2>2, <2>3
      DEF CaseInv, TypeOK, ProgressOK, DecisionOK, NeverStuck, SomebodyAnswers, WorkflowAgrees
  <1>13. ASSUME NEW u \in Users, UploadAttachment(u) \/ DownloadAttachment(u)
         PROVE CaseInv'
    <2>1. /\ row' \in CaseRow /\ row'.status = row.status
          /\ row'.flow = IF row.status \in {"CLOSED", "ARCHIVED"} THEN "CLOSED"
                         ELSE "IN_PROGRESS"
          /\ row'.assigned = row.assigned /\ row'.steps = row.steps
          /\ row'.progress = row.progress /\ row'.body = row.body
          /\ row'.decision = row.decision
      BY <1>0, <1>13, RecordedRow DEF UploadAttachment, DownloadAttachment
    <2>2. TypeOK' /\ row'.body = texts'
      BY <1>13, <2>1 DEF CaseInv, TypeOK, UploadAttachment, DownloadAttachment, desk
    <2>3. ProgressOK' /\ DecisionOK' /\ NeverStuck'
      BY <2>1 DEF CaseInv, ProgressOK, DecisionOK, NeverStuck, AwaitsADecision
    <2>4. SomebodyAnswers' /\ WorkflowAgrees' /\ row'.status # "IN_REVIEW"
      BY <1>0, <2>1 DEF CaseInv, SomebodyAnswers, WorkflowAgrees
    <2>5. QED
      BY <2>2, <2>3, <2>4 DEF CaseInv
  <1>14. CASE UNCHANGED vars
    BY <1>14
    DEF CaseInv, TypeOK, ProgressOK, DecisionOK, NeverStuck, SomebodyAnswers,
        WorkflowAgrees, vars, desk
  <1>15. QED
    BY <1>1, <1>2, <1>3, <1>4, <1>5, <1>6, <1>7, <1>8, <1>9, <1>10, <1>11, <1>12, <1>13,
       <1>14
    DEF Next, CaseStep

\* The invariant holds in every state of a case whose handlers do not overlap.
THEOREM CaseInvariant == Spec => []CaseInv
  BY CaseInvInitial, CaseInvInductive, PTL DEF Spec

-----------------------------------------------------------------------------
\* The row and its surroundings keep their types.
THEOREM CaseTyping == Spec => []TypeOK
  <1>1. CaseInv => TypeOK
    BY DEF CaseInv
  <1>2. QED
    BY <1>1, CaseInvariant, PTL

\* Whatever the staff, the rules and the edits of policies, an approved response
\* carries the consent of its whole circuit to its very text, for good.
THEOREM ConsentTheorem == Spec => []AnsweredWithConsent
  <1>1. CaseInv => AnsweredWithConsent
    BY DEF CaseInv, ProgressOK, DecisionOK, AnsweredWithConsent, CircuitComplete
  <1>2. QED
    BY <1>1, CaseInvariant, PTL

\* A pending response can always be decided.
THEOREM NeverStuckTheorem == Spec => []NeverStuck
  <1>1. CaseInv => NeverStuck
    BY DEF CaseInv
  <1>2. QED
    BY <1>1, CaseInvariant, PTL

\* From its assignment on, a member of the receiver answers for the case.
THEOREM SomebodyAnswersTheorem == Spec => []SomebodyAnswers
  <1>1. CaseInv => SomebodyAnswers
    BY DEF CaseInv
  <1>2. QED
    BY <1>1, CaseInvariant, PTL

\* The status of the workflow's row says whether the case is closed, also after
\* the retention scan.
THEOREM WorkflowTheorem == Spec => []WorkflowAgrees
  <1>1. CaseInv => WorkflowAgrees
    BY DEF CaseInv
  <1>2. QED
    BY <1>1, CaseInvariant, PTL

-----------------------------------------------------------------------------
(***************************************************************************)
(* Every handler is a step of the lifecycle or leaves it unchanged.        *)
(***************************************************************************)
\* Under the invariant, each handler maps to a step of the lifecycle or to none.
LEMMA LifecycleStep ==
  CaseInv /\ [Next]_vars => [Lifecycle!Next]_(Lifecycle!lvars)
  <1> SUFFICES ASSUME CaseInv, [Next]_vars
               PROVE  [Lifecycle!Next]_(Lifecycle!lvars)
    OBVIOUS
  <1> USE DEF Lifecycle!Next
  <1>0. row \in CaseRow /\ row.body = texts /\ DistinctUsers(row.progress)
        /\ Len(row.steps) \in Nat
    BY EmptyCircuit DEF CaseInv, TypeOK, ProgressOK
  <1> DEFINE Kept == /\ row'.steps = row.steps /\ row'.progress = row.progress
                     /\ row'.body = row.body
  <1>1. ASSUME NEW u \in Users, SendCase(u) PROVE Lifecycle!Advance
    <2>1. Kept /\ row.status = "DRAFT" /\ row'.status = "SENT"
      BY <1>0, <1>1, MovedRow, MoveComesFrom DEF SendCase, MaySend, Status
    <2>2. QED
      BY <2>1 DEF Lifecycle!Advance, Lifecycle!Successor
  <1>2. ASSUME NEW u \in Users, ReceiveCase(u) PROVE Lifecycle!Advance
    <2>1. Kept /\ row.status = "SENT" /\ row'.status = "RECEIVED"
      BY <1>0, <1>2, MovedRow, MoveComesFrom DEF ReceiveCase, MayReceive, Status
    <2>2. QED
      BY <2>1 DEF Lifecycle!Advance, Lifecycle!Successor
  <1>3. ASSUME NEW u \in Users, NEW a \in Users, AssignCase(u, a)
        PROVE  Lifecycle!Advance
    <2>1. Kept /\ row.status = "RECEIVED" /\ row'.status = "ASSIGNED"
      BY <1>0, <1>3, AssignedRow, MoveComesFrom
      DEF AssignCase, MayAssign, Status, CaseInv
    <2>2. QED
      BY <2>1 DEF Lifecycle!Advance, Lifecycle!Successor
  <1>4. ASSUME NEW u \in Users, StartCase(u) PROVE Lifecycle!Advance
    <2>1. Kept /\ row.status = "ASSIGNED" /\ row'.status = "IN_PROGRESS"
      BY <1>0, <1>4, MovedRow, MoveComesFrom DEF StartCase, MayStart, Status
    <2>2. QED
      BY <2>1 DEF Lifecycle!Advance, Lifecycle!Successor
  <1>5. ASSUME NEW u \in Users, DraftResponse(u) PROVE Lifecycle!Submit
    <2>1. row.status \in {"IN_PROGRESS", "REJECTED"}
      BY <1>0, <1>5, MoveComesFrom DEF DraftResponse, MayDraft, Status
    <2>2. /\ row' \in CaseRow /\ row'.status = "PENDING_VALIDATION"
          /\ row'.progress = <<>> /\ row'.body = row.body + 1
      BY <1>0, <1>5, DraftedRow DEF DraftResponse, CaseInv, TypeOK
    <2>3. Len(row'.steps) \in Nat
      BY <2>2, EmptyCircuit
    <2>4. UsersOf(row'.progress) = <<>>
      BY <2>2 DEF UsersOf
    <2>5. QED
      BY <2>1, <2>2, <2>3, <2>4 DEF Lifecycle!Submit
  <1>6. ASSUME NEW u \in Users, ApproveResponse(u)
        PROVE  Lifecycle!Approve \/ Lifecycle!Endorse(u)
    <2>1. MayDecide(u, row) /\ row' = Approved(u, row)
          /\ row.status = "PENDING_VALIDATION"
      BY <1>6 DEF ApproveResponse, MayDecide
    <2>2. ApprovalLeaves(u, row, row')
      BY <1>0, <2>1, ApprovedRow
    <2>3. CASE row.steps = <<>>
      <3>1. Kept /\ row'.status = "APPROVED" /\ Len(row.steps) = 0
        BY <1>0, <2>2, <2>3, EmptyCircuit DEF ApprovalLeaves
      <3>2. QED
        BY <2>1, <3>1 DEF Lifecycle!Approve
    <2>4. CASE row.steps # <<>>
      <3> DEFINE p == row.progress
                 a == ApprovalOf(u, row)
      <3>1. /\ p \in Seq(Approval) /\ a \in Approval /\ a.user = u
            /\ row'.progress = Append(p, a) /\ Len(p) < Len(row.steps)
            /\ \A i \in DOMAIN p : p[i].user # u
            /\ row'.steps = row.steps /\ row'.body = row.body
            /\ row'.status = IF Len(p) + 1 = Len(row.steps) THEN "APPROVED"
                             ELSE row.status
        BY <1>0, <2>2, <2>4, EmptyCircuit DEF ApprovalLeaves, ApprovalOf
      <3> HIDE DEF p, a
      <3>2. /\ Len(UsersOf(p)) = Len(p) /\ DOMAIN UsersOf(p) = DOMAIN p
            /\ \A i \in DOMAIN p : UsersOf(p)[i] = p[i].user
            /\ UsersOf(row'.progress) = Append(UsersOf(p), u)
        BY <3>1, UsersOfAppend
      <3>3. QED
        BY <2>1, <3>1, <3>2 DEF Lifecycle!Endorse, p
    <2>5. QED
      BY <2>3, <2>4
  <1>7. ASSUME NEW u \in Users, RejectResponse(u) PROVE Lifecycle!Reject
    <2>1. Kept /\ row.status = "PENDING_VALIDATION" /\ row'.status = "REJECTED"
      BY <1>0, <1>7, DecidedRow DEF RejectResponse, Rejected, MayDecide
    <2>2. QED
      BY <2>1 DEF Lifecycle!Reject
  <1>8. ASSUME NEW u \in Users, SendResponse(u) PROVE Lifecycle!Publish
    <2>1. Kept /\ row.status = "APPROVED" /\ row'.status = "RESPONSE_SENT"
      BY <1>0, <1>8, MovedRow, MoveComesFrom DEF SendResponse, MaySendResponse, Status
    <2>2. Len(UsersOf(row.progress)) = Len(row.steps)
      <3>1. Len(row.progress) = Len(row.steps)
        BY <2>1 DEF CaseInv, DecisionOK, AfterApproval
      <3>2. QED
        BY <1>0, <3>1, EmptyCircuit, UsersOfLength
    <2>3. QED
      BY <2>1, <2>2 DEF Lifecycle!Publish
  <1>9. ASSUME NEW u \in Users, CloseCase(u) PROVE Lifecycle!Advance
    <2>1. Kept /\ row.status = "RESPONSE_SENT" /\ row'.status = "CLOSED"
      BY <1>0, <1>9, MovedRow, MoveComesFrom DEF CloseCase, MayClose, Status
    <2>2. QED
      BY <2>1 DEF Lifecycle!Advance, Lifecycle!Successor
  <1>10. ASSUME NEW u \in Users, ArchiveCase(u) PROVE Lifecycle!Advance
    <2>1. PICK d \in {"none", "explicit"} : row' = Archived(row, d)
      BY <1>10 DEF ArchiveCase
    <2>2. Kept /\ row.status = "CLOSED" /\ row'.status = "ARCHIVED"
      BY <1>0, <1>10, <2>1, ArchivedRow, MoveComesFrom
      DEF ArchiveCase, MayArchive, Status
    <2>3. QED
      BY <2>2 DEF Lifecycle!Advance, Lifecycle!Successor
  <1>11. ASSUME RetainCase PROVE Lifecycle!Advance
    <2>1. Kept /\ row.status = "CLOSED" /\ row'.status = "ARCHIVED"
      BY <1>0, <1>11, RetainedRow DEF RetainCase, MayRetain
    <2>2. QED
      BY <2>1 DEF Lifecycle!Advance, Lifecycle!Successor
  <1>12. ASSUME DeskStep \/ UNCHANGED vars PROVE UNCHANGED Lifecycle!lvars
    <2>1. row' = row
      BY <1>12 DEF DeskStep, SavePolicy, DelegateCase, EndDelegation, vars
    <2>2. QED
      BY <2>1 DEF Lifecycle!lvars
  <1>13. ASSUME NEW u \in Users, UploadAttachment(u) \/ DownloadAttachment(u)
         PROVE UNCHANGED Lifecycle!lvars
    <2>1. Kept /\ row'.status = row.status
      BY <1>0, <1>13, RecordedRow DEF UploadAttachment, DownloadAttachment
    <2>2. QED
      BY <2>1 DEF Lifecycle!lvars
  <1>14. QED
    BY <1>1, <1>2, <1>3, <1>4, <1>5, <1>6, <1>7, <1>8, <1>9, <1>10, <1>11, <1>12, <1>13
    DEF Next, CaseStep

\* Handlers that do not overlap implement the lifecycle that was promised.
THEOREM LifecycleImplemented == Spec => ImplementsLifecycle
  <1>1. Init => Lifecycle!Init
    <2>1. ASSUME Init
          PROVE  /\ row.status = "DRAFT" /\ row.body = 0 /\ row.steps = <<>>
                 /\ row.progress = <<>>
      BY <2>1 DEF Init, NewRow
    <2>2. UsersOf(<<>>) = <<>>
      BY DEF UsersOf
    <2>3. QED
      BY <2>1, <2>2 DEF Lifecycle!Init
  <1>2. QED
    BY <1>1, CaseInvariant, LifecycleStep, PTL
    DEF Spec, ImplementsLifecycle, Lifecycle!Spec

=============================================================================
