----------------------- MODULE CaseTransactionsProofs -----------------------
(***************************************************************************)
(* What the row lock of validate_response is enough for, whatever the      *)
(* number of requests in flight: the invariants of CaseTransactions.       *)
(***************************************************************************)
EXTENDS CaseTransactions, CaseRulesProofs

-----------------------------------------------------------------------------
(***************************************************************************)
(* Commits                                                                 *)
(***************************************************************************)

\* Columns of rows make a row.
LEMMA WrittenRow ==
  ASSUME NEW c \in CaseRow, NEW o \in CaseRow, NEW n \in CaseRow
  PROVE  Written(c, o, n) \in CaseRow
  BY DEF Written, Column, CaseRow

\* A commit over the very row that was read leaves the row intended.
LEMMA WrittenOverRead ==
  ASSUME NEW r \in CaseRow, NEW n \in CaseRow
  PROVE  Written(r, r, n) = n
  BY DEF Written, Column, CaseRow

-----------------------------------------------------------------------------
(***************************************************************************)
(* The inductive invariant.  A decision in flight is one that approve_step *)
(* allows on the row as it is now; any other request will write a status   *)
(* that is not a decision, keep the decision it read, and write the        *)
(* progress only to empty it.                                              *)
(***************************************************************************)
DecidesNow(s) ==
  /\ s.old = row
  /\ \E u \in Users :
       /\ MayDecide(u, s.old)
       /\ s.new \in {Approved(u, s.old), Rejected(u, s.old)}

DecidesNothing(s) ==
  /\ s.new.status \notin {s.old.status, "APPROVED", "REJECTED"}
  /\ s.new.decision = s.old.decision
  /\ s.new.progress \in {s.old.progress, <<>>}

Unassignable == {"DRAFT", "SENT", "RECEIVED"}

KeepsAssignee(s) ==
  /\ s.new.status \notin Unassignable => s.new.assigned # NoUser
  /\ s.new.assigned # NoUser => Institution[s.new.assigned] = Receiver
  /\ s.old.assigned # NoUser => row.assigned # NoUser /\ s.new.assigned # NoUser

SessionOK(t) ==
  Open(t) =>
    /\ session[t].op = "VALIDATE" => DecidesNow(session[t])
    /\ session[t].op = "OTHER" => DecidesNothing(session[t])
    /\ KeepsAssignee(session[t])

OneLock == \A s, t \in Requests : HoldsRowLock(s) /\ HoldsRowLock(t) => s = t

TInv ==
  /\ TTypeOK
  /\ OneLock
  /\ \A t \in Requests : SessionOK(t)
  /\ NobodyCountsTwice
  /\ ApprovedByTheCircuit
  /\ NeverUnassigned

\* A new case with no request in flight satisfies the invariant.
LEMMA TInvInitial == TInit => TInv
  <1> SUFFICES ASSUME TInit PROVE TInv
    OBVIOUS
  <1>1. row \in CaseRow /\ row.status = "DRAFT" /\ row.assigned = NoUser
        /\ row.progress = <<>>
    BY NewRowTyped DEF TInit, Init, NewRow
  <1>2. TTypeOK
    BY <1>1, EmptyCircuitAssumption DEF TInit, Init, TTypeOK, TypeOK
  <1>3. \A t \in Requests : ~Open(t)
    BY DEF TInit, Open
  <1>4. QED
    BY <1>1, <1>2, <1>3
    DEF TInv, OneLock, HoldsRowLock, SessionOK, NobodyCountsTwice, DistinctUsers,
        ApprovedByTheCircuit, NeverUnassigned

-----------------------------------------------------------------------------
\* A read preserves the invariant if the transaction it opens satisfies it.
LEMMA BeginStep ==
  ASSUME TInv, NEW t \in Requests, NEW op \in {"VALIDATE", "OTHER"},
         NEW new \in CaseRow, Begin(t, op, new), texts' \in Nat,
         LET s == [op |-> op, old |-> row, new |-> new]
         IN  /\ op = "VALIDATE" => ~RowLockedBeyond(t) /\ DecidesNow(s)
             /\ op = "OTHER" => DecidesNothing(s)
             /\ KeepsAssignee(s)
  PROVE  TInv'
  <1> DEFINE s == [op |-> op, old |-> row, new |-> new]
  <1>1. row \in CaseRow /\ session \in [Requests -> Transaction \cup {Idle}]
    BY DEF TInv, TTypeOK, TypeOK
  <1>2. /\ s \in Transaction /\ s.op = op /\ s.old = row /\ s.new = new
        /\ s # Idle
    BY <1>1, IdleAssumption DEF Transaction
  <1>3. /\ op = "VALIDATE" => ~RowLockedBeyond(t) /\ DecidesNow(s)
        /\ op = "OTHER" => DecidesNothing(s)
        /\ KeepsAssignee(s)
    OBVIOUS
  <1>4. session' = [session EXCEPT ![t] = s] /\ row' = row /\ desk' = desk
    BY DEF Begin
  <1> HIDE DEF s
  <1>5. /\ session' \in [Requests -> Transaction \cup {Idle}]
        /\ session'[t] = s
        /\ \A x \in Requests \ {t} : session'[x] = session[x]
    BY <1>1, <1>2, <1>4
  <1>6. TTypeOK'
    BY <1>4, <1>5 DEF TInv, TTypeOK, TypeOK, desk
  <1>7. SessionOK(t)'
    BY <1>2, <1>3, <1>4, <1>5 DEF SessionOK, Open, DecidesNow, DecidesNothing, KeepsAssignee
  <1>8. \A x \in Requests \ {t} : SessionOK(x)'
    BY <1>4, <1>5 DEF TInv, SessionOK, Open, DecidesNow, DecidesNothing, KeepsAssignee
  <1>9. OneLock'
    <2>1. \A x \in Requests \ {t} : HoldsRowLock(x)' = HoldsRowLock(x)
      BY <1>5 DEF HoldsRowLock, Open
    <2>2. HoldsRowLock(t)' => op = "VALIDATE"
      BY <1>2, <1>5 DEF HoldsRowLock, Open
    <2>3. HoldsRowLock(t)' => \A x \in Requests \ {t} : ~HoldsRowLock(x)
      BY <1>3, <2>2 DEF RowLockedBeyond
    <2>4. QED
      BY <2>1, <2>3 DEF TInv, OneLock
  <1>10. NobodyCountsTwice' /\ ApprovedByTheCircuit' /\ NeverUnassigned'
    BY <1>4
    DEF TInv, NobodyCountsTwice, ApprovedByTheCircuit, NeverUnassigned
  <1>11. QED
    BY <1>6, <1>7, <1>8, <1>9, <1>10 DEF TInv

\* When a transaction ends, the others' are as good as before if the row they
\* might hold is still the same, and somebody still answers for the case.
LEMMA EndStep ==
  ASSUME TInv, NEW t \in Requests,
         session' = [session EXCEPT ![t] = Idle], UNCHANGED <<texts, desk>>,
         row' \in CaseRow,
         row' = row \/ ~RowLockedBeyond(t),
         row.assigned # NoUser => row'.assigned # NoUser
  PROVE  TTypeOK' /\ OneLock' /\ \A x \in Requests : SessionOK(x)'
  <1>1. session \in [Requests -> Transaction \cup {Idle}]
    BY DEF TInv, TTypeOK
  <1>2. /\ session' \in [Requests -> Transaction \cup {Idle}]
        /\ session'[t] = Idle
        /\ \A x \in Requests \ {t} : session'[x] = session[x]
    BY <1>1
  <1>3. TTypeOK'
    BY <1>2 DEF TInv, TTypeOK, TypeOK, desk
  <1>4. ~HoldsRowLock(t)' /\ ~Open(t)'
    BY <1>2 DEF HoldsRowLock, Open
  <1>5. \A x \in Requests \ {t} : HoldsRowLock(x)' = HoldsRowLock(x) /\ Open(x)' = Open(x)
    BY <1>2 DEF HoldsRowLock, Open
  <1>6. OneLock'
    BY <1>4, <1>5 DEF TInv, OneLock
  <1>7. ASSUME NEW x \in Requests \ {t}, Open(x) PROVE SessionOK(x)'
    <2>1. session'[x] = session[x] /\ SessionOK(x)
      BY <1>2 DEF TInv
    <2>2. session[x].op = "VALIDATE" => row' = row
      BY <1>7 DEF RowLockedBeyond, HoldsRowLock
    <2>3. session[x].op = "VALIDATE" => DecidesNow(session[x])'
      BY <1>7, <2>1, <2>2 DEF SessionOK, DecidesNow
    <2>4. session[x].op = "OTHER" => DecidesNothing(session[x])'
      BY <1>7, <2>1 DEF SessionOK, DecidesNothing
    <2>5. KeepsAssignee(session[x])'
      BY <1>7, <2>1 DEF SessionOK, KeepsAssignee
    <2>6. QED
      BY <2>1, <2>3, <2>4, <2>5 DEF SessionOK
  <1>8. \A x \in Requests : SessionOK(x)'
    BY <1>4, <1>5, <1>7 DEF SessionOK
  <1>9. QED
    BY <1>3, <1>6, <1>8

\* A commit preserves the invariant.  A validation commits over the row it read;
\* any other commit leaves the decision alone, and the approvals too or none.
LEMMA CommitStep ==
  ASSUME TInv, NEW t \in Requests, Commit(t)
  PROVE  TInv'
  <1> DEFINE o == session[t].old
             n == session[t].new
  <1>1. /\ session[t] \in Transaction /\ row \in CaseRow
        /\ o \in CaseRow /\ n \in CaseRow
        /\ session[t].op \in {"VALIDATE", "OTHER"}
    BY DEF TInv, TTypeOK, TypeOK, Commit, Open, Transaction
  <1>2. /\ row' = Written(row, o, n) /\ row' \in CaseRow
        /\ session' = [session EXCEPT ![t] = Idle]
        /\ UNCHANGED <<texts, desk>> /\ ~RowLockedBeyond(t)
    BY <1>1, WrittenRow DEF Commit
  <1>3. SessionOK(t) /\ Open(t)
    BY DEF TInv, Commit
  <1>4. KeepsAssignee(session[t])
    BY <1>3 DEF SessionOK
  <1>5. CASE session[t].op = "VALIDATE"
    <2>1. DecidesNow(session[t])
      BY <1>3, <1>5 DEF SessionOK
    <2>2. row' = n
      BY <1>1, <1>2, <2>1, WrittenOverRead DEF DecidesNow
    <2>3. NobodyCountsTwice' /\ ApprovedByTheCircuit'
      <3>1. PICK u \in Users : MayDecide(u, row) /\ n \in {Approved(u, row), Rejected(u, row)}
        BY <2>1 DEF DecidesNow
      <3>2. DistinctUsers(row.progress)
        BY DEF TInv, NobodyCountsTwice
      <3>3. CASE n = Approved(u, row)
        <4>1. ApprovalLeaves(u, row, n)
          BY <1>1, <3>1, <3>2, <3>3, ApprovedRow
        <4>2. NobodyCountsTwice'
          BY <2>2, <4>1 DEF NobodyCountsTwice, ApprovalLeaves
        <4>3. row.status = "PENDING_VALIDATION" /\ row.progress \in Seq(Approval)
          BY <1>1, <3>1 DEF MayDecide, CaseRow
        <4> HIDE DEF n
        <4>4. ASSUME row.steps # <<>>, n.status = "APPROVED"
              PROVE  /\ Len(n.progress) = Len(n.steps)
                     /\ n.decision.by = n.progress[Len(n.progress)].user
          <5>1. /\ n.steps = row.steps
                /\ n.progress = Append(row.progress, ApprovalOf(u, row))
                /\ Len(row.progress) + 1 = Len(row.steps)
                /\ n.decision = [by |-> u, text |-> row.body]
                /\ ApprovalOf(u, row) \in Approval
            BY <4>1, <4>3, <4>4 DEF ApprovalLeaves
          <5>2. /\ Len(n.progress) = Len(row.progress) + 1
                /\ n.progress[Len(row.progress) + 1] = ApprovalOf(u, row)
            BY <4>3, <5>1, AppendProperties
          <5>3. QED
            BY <5>1, <5>2 DEF ApprovalOf
        <4>5. n.steps = row.steps
          BY <4>1 DEF ApprovalLeaves
        <4>6. ApprovedByTheCircuit'
          BY <2>2, <4>4, <4>5 DEF ApprovedByTheCircuit, CircuitComplete
        <4>7. QED
          BY <4>2, <4>6
      <3>4. CASE n = Rejected(u, row)
        <4>1. n = Decided(u, row, "REJECTED")
          BY <3>4 DEF Rejected
        <4> HIDE DEF n
        <4>2. n.status = "REJECTED" /\ n.progress = row.progress
          BY <1>1, <4>1, DecidedRow
        <4>3. QED
          BY <2>2, <3>2, <4>2 DEF NobodyCountsTwice, ApprovedByTheCircuit
      <3>5. QED
        BY <3>1, <3>3, <3>4
    <2>4. NeverUnassigned' /\ (row.assigned # NoUser => row'.assigned # NoUser)
      BY <1>4, <2>1, <2>2 DEF DecidesNow, KeepsAssignee, NeverUnassigned, Unassignable
    <2>5. TTypeOK' /\ OneLock' /\ \A x \in Requests : SessionOK(x)'
      BY <1>2, <2>4, EndStep
    <2>6. QED
      BY <2>3, <2>4, <2>5 DEF TInv
  <1>6. CASE session[t].op = "OTHER"
    <2>1. DecidesNothing(session[t])
      BY <1>3, <1>6 DEF SessionOK
    <2>2. /\ row'.status = n.status
          /\ row'.progress \in {row.progress, <<>>}
          /\ row'.assigned \in {row.assigned, n.assigned}
          /\ row'.assigned = row.assigned => n.assigned \in {o.assigned, row.assigned}
      BY <1>2, <2>1 DEF DecidesNothing, Written, Column
    <2>3. NobodyCountsTwice' /\ ApprovedByTheCircuit'
      BY <2>1, <2>2
      DEF DecidesNothing, TInv, NobodyCountsTwice, DistinctUsers, ApprovedByTheCircuit
    <2>4. NeverUnassigned' /\ (row.assigned # NoUser => row'.assigned # NoUser)
      <3>1. row.assigned # NoUser => Institution[row.assigned] = Receiver
        BY DEF TInv, NeverUnassigned
      <3>2. row'.assigned # NoUser => Institution[row'.assigned] = Receiver
        BY <1>4, <2>2, <3>1 DEF KeepsAssignee
      <3>3. /\ row'.assigned = IF n.assigned = o.assigned THEN row.assigned ELSE n.assigned
            /\ o.assigned # NoUser => row.assigned # NoUser /\ n.assigned # NoUser
            /\ n.status \notin Unassignable => n.assigned # NoUser
        BY <1>2, <1>4 DEF Written, Column, KeepsAssignee
      <3>4. row'.status \notin Unassignable => row'.assigned # NoUser
        BY <2>2, <3>3
      <3>5. row.assigned # NoUser => row'.assigned # NoUser
        BY <3>3
      <3>6. QED
        BY <3>2, <3>4, <3>5 DEF NeverUnassigned, Unassignable
    <2>5. TTypeOK' /\ OneLock' /\ \A x \in Requests : SessionOK(x)'
      BY <1>2, <2>4, EndStep
    <2>6. QED
      BY <2>3, <2>4, <2>5 DEF TInv
  <1>7. QED
    BY <1>1, <1>5, <1>6

\* A transaction that is rolled back preserves the invariant.
LEMMA AbortStep ==
  ASSUME TInv, NEW t \in Requests, Abort(t)
  PROVE  TInv'
  <1>1. /\ session' = [session EXCEPT ![t] = Idle]
        /\ row' = row /\ UNCHANGED <<texts, desk>>
    BY DEF Abort, vars
  <1>2. row' \in CaseRow
    BY <1>1 DEF TInv, TTypeOK, TypeOK
  <1>3. TTypeOK' /\ OneLock' /\ \A x \in Requests : SessionOK(x)'
    BY <1>1, <1>2, EndStep
  <1>4. NobodyCountsTwice' /\ ApprovedByTheCircuit' /\ NeverUnassigned'
    BY <1>1 DEF TInv, NobodyCountsTwice, ApprovedByTheCircuit, NeverUnassigned
  <1>5. QED
    BY <1>3, <1>4 DEF TInv

-----------------------------------------------------------------------------
\* What the unlocked handlers have in common: they write another status, never
\* a decision, and keep or set the assignee.
LEMMA UnlockedStep ==
  ASSUME TInv, NEW t \in Requests, NEW new \in CaseRow,
         Begin(t, "OTHER", new), texts' \in Nat,
         new.status \notin {row.status, "APPROVED", "REJECTED"},
         new.decision = row.decision,
         new.progress \in {row.progress, <<>>},
         \/ new.assigned = row.assigned
         \/ new.assigned # NoUser /\ Institution[new.assigned] = Receiver,
         new.status \notin Unassignable => new.assigned # NoUser
  PROVE  TInv'
  <1> DEFINE s == [op |-> "OTHER", old |-> row, new |-> new]
  <1>1. DecidesNothing(s)
    BY DEF DecidesNothing
  <1>2. KeepsAssignee(s)
    BY DEF KeepsAssignee, TInv, NeverUnassigned
  <1> HIDE DEF s
  <1>3. QED
    BY <1>1, <1>2, BeginStep DEF s

\* The four handlers that only move the case, and closing it.
LEMMA MoveStep ==
  ASSUME TInv, NEW t \in Requests,
         NEW target \in {"SENT", "RECEIVED", "IN_PROGRESS", "RESPONSE_SENT", "CLOSED"},
         CanMove(row, target), Reads(t, Moved(row, target))
  PROVE  TInv'
  <1> DEFINE m == Moved(row, target)
  <1>1. row \in CaseRow /\ texts \in Nat /\ target \in Status
    BY DEF TInv, TTypeOK, TypeOK, Status
  <1>2. /\ m \in CaseRow /\ m.status = target /\ m.assigned = row.assigned
        /\ m.progress = row.progress /\ m.decision = row.decision
    BY <1>1, MovedRow
  <1>3. row.status # target /\ (target \notin Unassignable => row.status \notin Unassignable)
    BY <1>1, MoveComesFrom DEF Unassignable
  <1>4. target \notin Unassignable => row.assigned # NoUser
    BY <1>3 DEF TInv, NeverUnassigned, Unassignable
  <1>5. Begin(t, "OTHER", m) /\ texts' \in Nat
    BY <1>1 DEF Reads
  <1> HIDE DEF m
  <1>6. QED
    BY <1>2, <1>3, <1>4, <1>5, UnlockedStep

\* Reading for assign_case preserves the invariant.
LEMMA AssignStep ==
  ASSUME TInv, NEW t \in Requests, NEW u \in Users, NEW a \in Users,
         BeginAssign(t, u, a)
  PROVE  TInv'
  <1> DEFINE m == Assigned(row, a)
  <1>1. row \in CaseRow /\ texts \in Nat
    BY DEF TInv, TTypeOK, TypeOK
  <1>2. /\ m \in CaseRow /\ m.status = "ASSIGNED" /\ m.assigned = a
        /\ m.progress = row.progress /\ m.decision = row.decision
    BY <1>1, AssignedRow
  <1>3. a # NoUser /\ Institution[a] = Receiver /\ CanMove(row, "ASSIGNED")
    BY NoUserAssumption DEF BeginAssign, MayAssign
  <1>4. row.status # "ASSIGNED"
    BY <1>1, <1>3, MoveComesFrom DEF Status
  <1>5. Begin(t, "OTHER", m) /\ texts' \in Nat
    BY <1>1 DEF BeginAssign, Reads
  <1> HIDE DEF m
  <1>6. QED
    BY <1>2, <1>3, <1>4, <1>5, UnlockedStep

\* Reading for draft_response preserves the invariant.
LEMMA DraftStep ==
  ASSUME TInv, NEW t \in Requests, NEW u \in Users, BeginDraft(t, u)
  PROVE  TInv'
  <1> DEFINE m == Drafted(row, circuit, texts + 1)
  <1>1. row \in CaseRow /\ texts \in Nat /\ circuit \in Circuits
    BY DEF TInv, TTypeOK, TypeOK
  <1>2. /\ m \in CaseRow /\ m.status = "PENDING_VALIDATION"
        /\ m.assigned = row.assigned
        /\ m.progress = <<>> /\ m.decision = row.decision
    BY <1>1, DraftedRow
  <1>3. row.status \in {"IN_PROGRESS", "REJECTED"}
    BY <1>1, MoveComesFrom DEF BeginDraft, MayDraft, Status
  <1>4. row.assigned # NoUser
    BY <1>3 DEF TInv, NeverUnassigned
  <1>5. Begin(t, "OTHER", m) /\ texts' \in Nat
    BY <1>1 DEF BeginDraft
  <1> HIDE DEF m
  <1>6. QED
    BY <1>2, <1>3, <1>4, <1>5, UnlockedStep

\* Reading for archive_case preserves the invariant.
LEMMA ArchiveStep ==
  ASSUME TInv, NEW t \in Requests, NEW u \in Users, BeginArchive(t, u)
  PROVE  TInv'
  <1>1. PICK d \in {"none", "explicit"} : Reads(t, Archived(row, d))
    BY DEF BeginArchive
  <1> DEFINE m == Archived(row, d)
  <1>2. row \in CaseRow /\ texts \in Nat
    BY DEF TInv, TTypeOK, TypeOK
  <1>3. /\ m \in CaseRow /\ m.status = "ARCHIVED" /\ m.assigned = row.assigned
        /\ m.progress = row.progress /\ m.decision = row.decision
    BY <1>2, ArchivedRow
  <1>4. row.status = "CLOSED"
    BY <1>2, MoveComesFrom DEF BeginArchive, MayArchive, Status
  <1>5. row.assigned # NoUser
    BY <1>4 DEF TInv, NeverUnassigned
  <1>6. Begin(t, "OTHER", m) /\ texts' \in Nat
    BY <1>1, <1>2 DEF Reads
  <1> HIDE DEF m
  <1>7. QED
    BY <1>3, <1>4, <1>5, <1>6, UnlockedStep

\* Reading for apply_retention_policy preserves the invariant.
LEMMA RetainStep ==
  ASSUME TInv, NEW t \in Requests, BeginRetain(t)
  PROVE  TInv'
  <1> DEFINE m == Retained(row)
  <1>1. row \in CaseRow /\ texts \in Nat
    BY DEF TInv, TTypeOK, TypeOK
  <1>2. /\ m \in CaseRow /\ m.status = "ARCHIVED" /\ m.assigned = row.assigned
        /\ m.progress = row.progress /\ m.decision = row.decision
    BY <1>1, RetainedRow
  <1>3. row.status = "CLOSED"
    BY DEF BeginRetain, MayRetain
  <1>4. row.assigned # NoUser
    BY <1>3 DEF TInv, NeverUnassigned
  <1>5. Begin(t, "OTHER", m) /\ texts' \in Nat
    BY <1>1 DEF BeginRetain, Reads
  <1> HIDE DEF m
  <1>6. QED
    BY <1>2, <1>3, <1>4, <1>5, UnlockedStep

\* A validation opens only with the lock, on the row it will commit over.
LEMMA ValidateStep ==
  ASSUME TInv, NEW t \in Requests, NEW u \in Users, BeginApprove(t, u) \/ BeginReject(t, u)
  PROVE  TInv'
  <1>1. PICK new \in {Approved(u, row), Rejected(u, row)} : MayDecide(u, row) /\ Locks(t, new)
    BY DEF BeginApprove, BeginReject
  <1>2. row \in CaseRow /\ texts \in Nat /\ DistinctUsers(row.progress)
    BY DEF TInv, TTypeOK, TypeOK, NobodyCountsTwice
  <1>3. new \in CaseRow /\ new.assigned = row.assigned
    <2>1. CASE new = Approved(u, row)
      <3>1. ApprovalLeaves(u, row, new)
        BY <1>1, <1>2, <2>1, ApprovedRow
      <3>2. QED
        BY <3>1 DEF ApprovalLeaves
    <2>2. CASE new = Rejected(u, row)
      <3>1. new = Decided(u, row, "REJECTED")
        BY <2>2 DEF Rejected
      <3>2. QED
        BY <1>2, <3>1, DecidedRow
    <2>3. QED
      BY <1>1, <2>1, <2>2
  <1>4. row.assigned # NoUser
    BY <1>1 DEF MayDecide, TInv, NeverUnassigned
  <1> DEFINE s == [op |-> "VALIDATE", old |-> row, new |-> new]
  <1>5. DecidesNow(s)
    BY <1>1 DEF DecidesNow
  <1>6. KeepsAssignee(s)
    BY <1>3, <1>4 DEF KeepsAssignee, TInv, NeverUnassigned
  <1>7. Begin(t, "VALIDATE", new) /\ ~RowLockedBeyond(t) /\ texts' \in Nat
    BY <1>1, <1>2 DEF Locks
  <1> HIDE DEF s
  <1>8. QED
    BY <1>3, <1>5, <1>6, <1>7, BeginStep DEF s

\* Policies and delegations are not in the row.
LEMMA DeskChange ==
  ASSUME TInv, DeskStep, UNCHANGED session
  PROVE  TInv'
  <1>1. row' = row /\ texts' = texts
    BY DEF DeskStep, SavePolicy, DelegateCase, EndDelegation
  <1>2. circuit' \in Circuits
    BY DEF DeskStep, SavePolicy, DelegateCase, EndDelegation, TInv, TTypeOK, TypeOK
  <1>3. delegations' \in SUBSET (Users \X Users)
    <2>1. delegations \in SUBSET (Users \X Users) /\ row \in CaseRow
      BY DEF TInv, TTypeOK, TypeOK
    <2>2. ASSUME NEW u \in Users, NEW d \in Users, DelegateCase(u, d)
          PROVE  delegations' \in SUBSET (Users \X Users)
      BY <2>1, <2>2 DEF DelegateCase, MayDelegate, CaseRow
    <2>3. QED
      BY <2>1, <2>2 DEF DeskStep, SavePolicy, EndDelegation
  <1>4. TTypeOK'
    BY <1>1, <1>2, <1>3 DEF TInv, TTypeOK, TypeOK
  <1>5. QED
    BY <1>1, <1>4
    DEF TInv, OneLock, HoldsRowLock, SessionOK, Open, DecidesNow, DecidesNothing,
        KeepsAssignee, NobodyCountsTwice, ApprovedByTheCircuit, NeverUnassigned

-----------------------------------------------------------------------------
\* Every step of the overlapping requests preserves the invariant.
LEMMA TInvInductive == TInv /\ [TNext]_tvars => TInv'
  <1> SUFFICES ASSUME TInv, [TNext]_tvars PROVE TInv'
    OBVIOUS
  <1>1. ASSUME NEW t \in Requests, NEW u \in Users, BeginSend(t, u) PROVE TInv'
    BY <1>1, MoveStep DEF BeginSend, MaySend
  <1>2. ASSUME NEW t \in Requests, NEW u \in Users, BeginReceive(t, u) PROVE TInv'
    BY <1>2, MoveStep DEF BeginReceive, MayReceive
  <1>3. ASSUME NEW t \in Requests, NEW u \in Users, NEW a \in Users,
               BeginAssign(t, u, a)
        PROVE  TInv'
    BY <1>3, AssignStep
  <1>4. ASSUME NEW t \in Requests, NEW u \in Users, BeginStart(t, u) PROVE TInv'
    BY <1>4, MoveStep DEF BeginStart, MayStart
  <1>5. ASSUME NEW t \in Requests, NEW u \in Users, BeginDraft(t, u) PROVE TInv'
    BY <1>5, DraftStep
  <1>6. ASSUME NEW t \in Requests, NEW u \in Users,
               BeginApprove(t, u) \/ BeginReject(t, u)
        PROVE  TInv'
    BY <1>6, ValidateStep
  <1>7. ASSUME NEW t \in Requests, NEW u \in Users, BeginSendResponse(t, u)
        PROVE  TInv'
    BY <1>7, MoveStep DEF BeginSendResponse, MaySendResponse
  <1>8. ASSUME NEW t \in Requests, NEW u \in Users, BeginClose(t, u) PROVE TInv'
    BY <1>8, MoveStep DEF BeginClose, MayClose
  <1>9. ASSUME NEW t \in Requests, NEW u \in Users, BeginArchive(t, u) PROVE TInv'
    BY <1>9, ArchiveStep
  <1>10. ASSUME NEW t \in Requests, BeginRetain(t) PROVE TInv'
    BY <1>10, RetainStep
  <1>11. ASSUME NEW t \in Requests, Commit(t) \/ Abort(t) PROVE TInv'
    BY <1>11, CommitStep, AbortStep
  <1>12. CASE DeskStep /\ UNCHANGED session
    BY <1>12, DeskChange
  <1>13. CASE UNCHANGED tvars
    <2>1. row' = row /\ texts' = texts /\ circuit' = circuit
          /\ delegations' = delegations /\ session' = session
      BY <1>13 DEF tvars, vars, desk
    <2>2. QED
      BY <2>1
      DEF TInv, TTypeOK, TypeOK, OneLock, HoldsRowLock, SessionOK, Open, DecidesNow,
          DecidesNothing, KeepsAssignee, NobodyCountsTwice, ApprovedByTheCircuit,
          NeverUnassigned
  <1>14. QED
    BY <1>1, <1>2, <1>3, <1>4, <1>5, <1>6, <1>7, <1>8, <1>9, <1>10, <1>11, <1>12, <1>13
    DEF TNext, RequestStep

\* The invariant holds in every state, for any number of requests in flight.
LEMMA TInvariant == TSpec => []TInv
  BY TInvInitial, TInvInductive, PTL DEF TSpec

\* Overlap cannot give the row, or a transaction in flight, a value outside the
\* types of its columns.
THEOREM OverlapTyping == TSpec => []TTypeOK
  <1>1. TInv => TTypeOK
    BY DEF TInv
  <1>2. QED
    BY <1>1, TInvariant, PTL

\* Whatever overlaps, a response is approved only once its whole circuit has
\* approved it, and the last approver is the one recorded as its validator.
THEOREM CircuitTheorem == TSpec => []ApprovedByTheCircuit
  <1>1. TInv => ApprovedByTheCircuit
    BY DEF TInv
  <1>2. QED
    BY <1>1, TInvariant, PTL

\* Whatever overlaps, no person counts for two steps of a circuit.
THEOREM DistinctTheorem == TSpec => []NobodyCountsTwice
  <1>1. TInv => NobodyCountsTwice
    BY DEF TInv
  <1>2. QED
    BY <1>1, TInvariant, PTL

\* The row lock of validate_response is enough for its decision to be computed
\* from the row it is committed over.
THEOREM LockTheorem == TSpec => []ValidationNeverStale
  <1>1. TInv => ValidationNeverStale
    BY DEF TInv, SessionOK, HoldsRowLock, DecidesNow, ValidationNeverStale
  <1>2. QED
    BY <1>1, TInvariant, PTL

\* Whatever overlaps, an assigned case stays with a member of the receiver.
THEOREM AssigneeTheorem == TSpec => []NeverUnassigned
  <1>1. TInv => NeverUnassigned
    BY DEF TInv
  <1>2. QED
    BY <1>1, TInvariant, PTL

\* Whatever overlaps, a response becomes approved or rejected only from the
\* state in which it awaits a decision.
THEOREM DecisionTheorem == TSpec => DecisionsArePending
  <1> DEFINE A == /\ row'.status \in {"APPROVED", "REJECTED"}
                  /\ row'.status # row.status
                  => row.status = "PENDING_VALIDATION"
  <1>1. TInv /\ [TNext]_tvars => [A]_tvars
    <2> SUFFICES ASSUME TInv, TNext, row'.status # row.status,
                        row'.status \in {"APPROVED", "REJECTED"}
                 PROVE  row.status = "PENDING_VALIDATION"
      OBVIOUS
    <2>1. PICK t \in Requests : Commit(t)
      BY DEF TNext, RequestStep, BeginSend, BeginReceive, BeginAssign, BeginStart,
             BeginDraft, BeginApprove, BeginReject, BeginSendResponse, BeginClose,
             BeginArchive, BeginRetain, Reads, Locks, Begin, Abort, vars, DeskStep,
             SavePolicy, DelegateCase, EndDelegation
    <2>2. SessionOK(t) /\ Open(t) /\ session[t].op \in {"VALIDATE", "OTHER"}
      BY <2>1 DEF Commit, TInv, TTypeOK, Open, Transaction
    <2>3. row'.status \in {row.status, session[t].new.status}
      BY <2>1 DEF Commit, Written, Column
    <2>4. session[t].op = "VALIDATE"
      BY <2>2, <2>3 DEF SessionOK, DecidesNothing
    <2>5. QED
      BY <2>2, <2>4 DEF SessionOK, DecidesNow, MayDecide
  <1>2. QED
    BY <1>1, TInvariant, PTL DEF TSpec, DecisionsArePending

=============================================================================
