--------------------------- MODULE CaseRulesProofs ---------------------------
(***************************************************************************)
(* Lemmas about the operators of CaseRules: what row each effect leaves.   *)
(***************************************************************************)
EXTENDS CaseRules, SequenceTheorems, TLAPS

\* A new case's row has the types of its columns.
LEMMA NewRowTyped == NewRow \in CaseRow
  BY EmptyCircuitAssumption DEF NewRow, CaseRow, Status, Decision

\* _record_workflow_action changes the workflow's status alone.
LEMMA RecordedRow ==
  ASSUME NEW r \in CaseRow
  PROVE  /\ Recorded(r) \in CaseRow
         /\ Recorded(r).status = r.status
         /\ Recorded(r).flow =
              IF r.status \in {"CLOSED", "ARCHIVED"} THEN "CLOSED" ELSE "IN_PROGRESS"
         /\ Recorded(r).assigned = r.assigned
         /\ Recorded(r).steps = r.steps
         /\ Recorded(r).progress = r.progress
         /\ Recorded(r).body = r.body
         /\ Recorded(r).decision = r.decision
         /\ Recorded(r).retention = r.retention
  BY DEF Recorded, CaseRow

\* transition_case and _record_workflow_action change two columns.
LEMMA MovedRow ==
  ASSUME NEW r \in CaseRow, NEW target \in Status
  PROVE  /\ Moved(r, target) \in CaseRow
         /\ Moved(r, target).status = target
         /\ Moved(r, target).flow =
              IF target \in {"CLOSED", "ARCHIVED"} THEN "CLOSED" ELSE "IN_PROGRESS"
         /\ Moved(r, target).assigned = r.assigned
         /\ Moved(r, target).steps = r.steps
         /\ Moved(r, target).progress = r.progress
         /\ Moved(r, target).body = r.body
         /\ Moved(r, target).decision = r.decision
         /\ Moved(r, target).retention = r.retention
  BY DEF Moved, Recorded, CaseRow

\* The map of transitions read backwards: each status a handler asks for has
\* one status it can come from, or two.
LEMMA MoveComesFrom ==
  ASSUME NEW r \in CaseRow, NEW target \in Status, CanMove(r, target)
  PROVE  /\ target = "SENT" => r.status = "DRAFT"
         /\ target = "RECEIVED" => r.status = "SENT"
         /\ target = "ASSIGNED" => r.status \in {"RECEIVED", "IN_REVIEW"}
         /\ target = "IN_PROGRESS" => r.status = "ASSIGNED"
         /\ target = "PENDING_VALIDATION" => r.status \in {"IN_PROGRESS", "REJECTED"}
         /\ target \in {"APPROVED", "REJECTED"} => r.status = "PENDING_VALIDATION"
         /\ target = "RESPONSE_SENT" => r.status = "APPROVED"
         /\ target = "CLOSED" => r.status = "RESPONSE_SENT"
         /\ target = "ARCHIVED" => r.status = "CLOSED"
  <1>1. r.status \in Status
    BY DEF CaseRow
  <1>2. QED
    BY <1>1 DEF CanMove, AllowedTransitions, Status

\* The assignment changes the assignee beside the status (assign_case).
LEMMA AssignedRow ==
  ASSUME NEW r \in CaseRow, NEW a \in Users
  PROVE  /\ Assigned(r, a) \in CaseRow
         /\ Assigned(r, a).status = "ASSIGNED"
         /\ Assigned(r, a).flow = "IN_PROGRESS"
         /\ Assigned(r, a).assigned = a
         /\ Assigned(r, a).steps = r.steps
         /\ Assigned(r, a).progress = r.progress
         /\ Assigned(r, a).body = r.body
         /\ Assigned(r, a).decision = r.decision
         /\ Assigned(r, a).retention = r.retention
  BY DEF Assigned, Moved, Recorded, CaseRow, Status

\* A submission changes the text and the circuit, and empties the progress
\* (draft_response, prepare_validation).
LEMMA DraftedRow ==
  ASSUME NEW r \in CaseRow, NEW c \in Circuits, NEW text \in Nat
  PROVE  /\ Drafted(r, c, text) \in CaseRow
         /\ Drafted(r, c, text).status = "PENDING_VALIDATION"
         /\ Drafted(r, c, text).flow = "IN_PROGRESS"
         /\ Drafted(r, c, text).assigned = r.assigned
         /\ Drafted(r, c, text).steps = c
         /\ Drafted(r, c, text).progress = <<>>
         /\ Drafted(r, c, text).body = text
         /\ Drafted(r, c, text).decision = r.decision
         /\ Drafted(r, c, text).retention = r.retention
  <1>1. <<>> \in Seq(Approval)
    OBVIOUS
  <1> DEFINE m == Moved(r, "PENDING_VALIDATION")
  <1>2. /\ m \in CaseRow /\ m.status = "PENDING_VALIDATION" /\ m.flow = "IN_PROGRESS"
        /\ m.assigned = r.assigned /\ m.decision = r.decision
        /\ m.retention = r.retention
    BY MovedRow DEF Status
  <1>3. Drafted(r, c, text) = [m EXCEPT !.steps = c, !.progress = <<>>, !.body = text]
    BY DEF Drafted
  <1> HIDE DEF m
  <1>4. QED
    BY <1>1, <1>2, <1>3 DEF CaseRow

\* A decision changes the validator beside the status (validate_response).
LEMMA DecidedRow ==
  ASSUME NEW r \in CaseRow, NEW u \in Users, NEW target \in {"APPROVED", "REJECTED"}
  PROVE  /\ Decided(u, r, target) \in CaseRow
         /\ Decided(u, r, target).status = target
         /\ Decided(u, r, target).flow = "IN_PROGRESS"
         /\ Decided(u, r, target).assigned = r.assigned
         /\ Decided(u, r, target).steps = r.steps
         /\ Decided(u, r, target).progress = r.progress
         /\ Decided(u, r, target).body = r.body
         /\ Decided(u, r, target).decision = [by |-> u, text |-> r.body]
         /\ Decided(u, r, target).retention = r.retention
  BY DEF Decided, Moved, Recorded, CaseRow, Status, Decision

\* Archiving changes the retention date beside the status (archive_case).
LEMMA ArchivedRow ==
  ASSUME NEW r \in CaseRow, NEW d \in {"none", "explicit"}
  PROVE  /\ Archived(r, d) \in CaseRow
         /\ Archived(r, d).status = "ARCHIVED"
         /\ Archived(r, d).flow = "CLOSED"
         /\ Archived(r, d).assigned = r.assigned
         /\ Archived(r, d).steps = r.steps
         /\ Archived(r, d).progress = r.progress
         /\ Archived(r, d).body = r.body
         /\ Archived(r, d).decision = r.decision
  BY DEF Archived, Moved, Recorded, CaseRow, Status

\* The retention scan changes the status and the retention date alone
\* (apply_retention_policy).
LEMMA RetainedRow ==
  ASSUME NEW r \in CaseRow
  PROVE  /\ Retained(r) \in CaseRow
         /\ Retained(r).status = "ARCHIVED"
         /\ Retained(r).flow = r.flow
         /\ Retained(r).assigned = r.assigned
         /\ Retained(r).steps = r.steps
         /\ Retained(r).progress = r.progress
         /\ Retained(r).body = r.body
         /\ Retained(r).decision = r.decision
  BY DEF Retained, CaseRow, Status

\* An approval added by a user who has none yet keeps the users distinct and
\* the earlier approvals where they are.
LEMMA AppendedApproval ==
  ASSUME NEW p \in Seq(Approval), NEW a \in Approval,
         DistinctUsers(p),
         \A i \in DOMAIN p : p[i].user # a.user
  PROVE  /\ Append(p, a) \in Seq(Approval)
         /\ Len(Append(p, a)) = Len(p) + 1
         /\ DOMAIN Append(p, a) = DOMAIN p \cup {Len(p) + 1}
         /\ \A i \in DOMAIN p : Append(p, a)[i] = p[i]
         /\ Append(p, a)[Len(p) + 1] = a
         /\ DistinctUsers(Append(p, a))
  <1>1. /\ Append(p, a) \in Seq(Approval)
        /\ Len(Append(p, a)) = Len(p) + 1
        /\ \A i \in 1 .. Len(p) : Append(p, a)[i] = p[i]
        /\ Append(p, a)[Len(p) + 1] = a
    BY AppendProperties
  <1>2. DOMAIN p = 1 .. Len(p) /\ DOMAIN Append(p, a) = 1 .. (Len(p) + 1)
        /\ Len(p) \in Nat
    BY <1>1, LenProperties
  <1>3. DOMAIN Append(p, a) = DOMAIN p \cup {Len(p) + 1}
    BY <1>2
  <1>4. DistinctUsers(Append(p, a))
    BY <1>1, <1>2, <1>3 DEF DistinctUsers
  <1>5. QED
    BY <1>1, <1>2, <1>3, <1>4

\* What approve_step leaves on a row whose circuit is open to the user: without
\* a circuit, or on its last step, the response is approved, else one step is
\* recorded.
ApprovalLeaves(u, r, s) ==
  /\ s \in CaseRow
  /\ s.assigned = r.assigned /\ s.steps = r.steps /\ s.body = r.body
  /\ s.retention = r.retention /\ s.flow = "IN_PROGRESS"
  /\ ApprovalOf(u, r) \in Approval
  /\ DistinctUsers(s.progress)
  /\ \/ /\ r.steps = <<>>
        /\ s.status = "APPROVED" /\ s.progress = r.progress
        /\ s.decision = [by |-> u, text |-> r.body]
     \/ /\ r.steps # <<>>
        /\ Len(r.progress) < Len(r.steps)
        /\ Role[u] \in {r.steps[Len(r.progress) + 1], "SYSTEM_ADMIN"}
        /\ \A i \in DOMAIN r.progress : r.progress[i].user # u
        /\ s.progress = Append(r.progress, ApprovalOf(u, r))
        /\ \/ /\ Len(r.progress) + 1 = Len(r.steps)
              /\ s.status = "APPROVED"
              /\ s.decision = [by |-> u, text |-> r.body]
           \/ /\ Len(r.progress) + 1 # Len(r.steps)
              /\ s.status = r.status /\ s.decision = r.decision

\* What an allowed approval leaves (approve_step, validate_response).
LEMMA ApprovedRow ==
  ASSUME NEW r \in CaseRow, NEW u \in Users, MayDecide(u, r),
         DistinctUsers(r.progress)
  PROVE  ApprovalLeaves(u, r, Approved(u, r))
  <1> DEFINE s == Approved(u, r)
             a == ApprovalOf(u, r)
             d == Append(r.progress, a)
             rd == [r EXCEPT !.progress = d]
  <1>1. a \in Approval /\ a.user = u /\ a.role = Role[u]
    BY RolesAssumption DEF Approval, ApprovalOf, CaseRow
  <1>2. CASE r.steps = <<>>
    <2>1. s = Decided(u, r, "APPROVED")
      BY <1>2 DEF Approved
    <2> HIDE DEF s
    <2>2. QED
      BY <1>1, <1>2, <2>1, DecidedRow DEF ApprovalLeaves, s
  <1>3. CASE r.steps # <<>>
    <2>1. /\ r.status = "PENDING_VALIDATION"
          /\ Len(r.progress) < Len(r.steps)
          /\ Role[u] \in {r.steps[Len(r.progress) + 1], "SYSTEM_ADMIN"}
          /\ \A i \in DOMAIN r.progress : r.progress[i].user # u
      BY <1>3 DEF MayDecide, IsSystemAdmin
    <2>2. /\ d \in Seq(Approval)
          /\ Len(d) = Len(r.progress) + 1
          /\ DistinctUsers(d)
      <3>1. r.progress \in Seq(Approval)
        BY DEF CaseRow
      <3>2. QED
        BY <1>1, <2>1, <3>1, AppendedApproval
    <2>3. /\ rd \in CaseRow /\ rd.status = r.status /\ rd.assigned = r.assigned
          /\ rd.steps = r.steps /\ rd.body = r.body /\ rd.decision = r.decision
          /\ rd.retention = r.retention /\ rd.progress = d
      <3> HIDE DEF d
      <3>1. QED
        BY <2>2 DEF CaseRow
    <2>4. s = IF Len(d) = Len(r.steps) THEN Decided(u, rd, "APPROVED")
              ELSE Recorded(rd)
      BY <1>3 DEF Approved
    <2> HIDE DEF d, rd, s
    <2>5. CASE Len(d) = Len(r.steps)
      <3>1. s = Decided(u, rd, "APPROVED")
        BY <2>4, <2>5
      <3>2. /\ s \in CaseRow /\ s.status = "APPROVED" /\ s.flow = "IN_PROGRESS"
            /\ s.assigned = r.assigned /\ s.steps = r.steps /\ s.body = r.body
            /\ s.retention = r.retention /\ s.progress = d
            /\ s.decision = [by |-> u, text |-> r.body]
        BY <2>3, <3>1, DecidedRow
      <3>3. QED
        BY <1>1, <1>3, <2>1, <2>2, <2>5, <3>2 DEF ApprovalLeaves, d, s
    <2>6. CASE Len(d) # Len(r.steps)
      <3>1. s = Recorded(rd) /\ rd.status = "PENDING_VALIDATION"
        BY <2>1, <2>3, <2>4, <2>6
      <3>2. /\ s \in CaseRow /\ s.status = r.status /\ s.flow = "IN_PROGRESS"
            /\ s.assigned = r.assigned /\ s.steps = r.steps /\ s.body = r.body
            /\ s.retention = r.retention /\ s.progress = d
            /\ s.decision = r.decision
        BY <2>1, <2>3, <3>1, RecordedRow
      <3>3. QED
        BY <1>1, <1>3, <2>1, <2>2, <2>6, <3>2 DEF ApprovalLeaves, d, s
    <2>7. QED
      BY <2>5, <2>6
  <1>4. QED
    BY <1>2, <1>3

\* The users of a list of approvals are as many.
LEMMA UsersOfLength ==
  ASSUME NEW p \in Seq(Approval)
  PROVE  Len(UsersOf(p)) = Len(p)
  <1>1. Len(p) \in Nat /\ p \in [1 .. Len(p) -> Approval] /\ DOMAIN p = 1 .. Len(p)
    BY LenProperties
  <1>2. UsersOf(p) \in [1 .. Len(p) -> Users]
    BY <1>1 DEF UsersOf, Approval
  <1>3. QED
    BY <1>1, <1>2, SeqDef, LenProperties

\* Adding an approval adds its user.
LEMMA UsersOfAppend ==
  ASSUME NEW p \in Seq(Approval), NEW a \in Approval
  PROVE  /\ UsersOf(p) \in Seq(Users)
         /\ Len(UsersOf(p)) = Len(p)
         /\ DOMAIN UsersOf(p) = DOMAIN p
         /\ \A i \in DOMAIN p : UsersOf(p)[i] = p[i].user
         /\ UsersOf(Append(p, a)) = Append(UsersOf(p), a.user)
  <1> DEFINE d == Append(p, a)
             up == UsersOf(p)
             ud == UsersOf(d)
             e == Append(up, a.user)
  <1>1. /\ Len(p) \in Nat /\ p \in [1 .. Len(p) -> Approval]
        /\ DOMAIN p = 1 .. Len(p)
    BY LenProperties
  <1>2. up \in [1 .. Len(p) -> Users]
    BY <1>1 DEF UsersOf, Approval
  <1>3. up \in Seq(Users) /\ Len(up) = Len(p)
    BY <1>1, <1>2, SeqDef, LenProperties
  <1>4. /\ d \in Seq(Approval) /\ Len(d) = Len(p) + 1
        /\ \A i \in 1 .. Len(p) : d[i] = p[i]
        /\ d[Len(p) + 1] = a
    BY AppendProperties
  <1>5. DOMAIN d = 1 .. (Len(p) + 1) /\ d \in [1 .. (Len(p) + 1) -> Approval]
    BY <1>4, LenProperties
  <1> HIDE DEF d
  <1>6. ud = [i \in 1 .. (Len(p) + 1) |-> d[i].user]
    BY <1>5 DEF UsersOf
  <1>7. /\ e \in Seq(Users) /\ Len(e) = Len(p) + 1
        /\ \A i \in 1 .. Len(p) : e[i] = up[i]
        /\ e[Len(p) + 1] = a.user
    <2>1. a.user \in Users
      BY DEF Approval
    <2> HIDE DEF up
    <2>2. QED
      BY <1>3, <2>1, AppendProperties
  <1> HIDE DEF e
  <1>8. e \in [1 .. (Len(p) + 1) -> Users] /\ DOMAIN e = 1 .. (Len(p) + 1)
    BY <1>7, LenProperties
  <1>9. \A i \in 1 .. (Len(p) + 1) : e[i] = d[i].user
    <2>1. \A i \in 1 .. Len(p) : up[i] = p[i].user
      BY <1>1 DEF UsersOf
    <2>2. QED
      BY <1>1, <1>4, <1>7, <2>1
  <1>10. ud = e
    BY <1>6, <1>8, <1>9
  <1>11. QED
    BY <1>1, <1>2, <1>3, <1>10 DEF UsersOf, d, e

=============================================================================
