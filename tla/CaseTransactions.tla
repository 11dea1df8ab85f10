-------------------------- MODULE CaseTransactions --------------------------
(***************************************************************************)
(* The same case when requests overlap.  A handler reads the row in its    *)
(* own database session without a lock, decides on what it read, and       *)
(* commits later the columns whose values it changed; PostgreSQL runs at   *)
(* READ COMMITTED and the rows carry no version, so a commit cannot see    *)
(* that the row moved in between.  Only validate_response locks the row,   *)
(* from its read to its commit: other commits wait for it, reads do not.   *)
(*                                                                         *)
(* A read is one step, with what the handler looks up beside the row       *)
(* (policies, delegations, the workflow's row), and so is a commit: the    *)
(* flush takes the row's lock and the commit releases it, with nothing in  *)
(* between that another session can observe.  Uploads and downloads are    *)
(* left out: of the row they touch only the workflow's status, which       *)
(* nothing here reads.                                                     *)
(***************************************************************************)
EXTENDS CaseWorkflow

CONSTANTS
  Requests,   \* requests that can be in flight at once
  Idle        \* no request

\* A request in flight: the row it read and the row it would leave.
Transaction == [op : {"VALIDATE", "OTHER"}, old : CaseRow, new : CaseRow]

ASSUME IdleAssumption == Idle \notin Transaction

VARIABLE session   \* the transaction of each request, or Idle

tvars == <<vars, session>>

TInit ==
  /\ Init
  /\ session = [t \in Requests |-> Idle]

-----------------------------------------------------------------------------
(***************************************************************************)
(* Sessions                                                                *)
(***************************************************************************)
Open(t) == session[t] # Idle

\* SELECT ... FOR UPDATE of validate_response.
HoldsRowLock(t) == Open(t) /\ session[t].op = "VALIDATE"

\* Mutant of RowLockedBeyond: the refresh of validate_response takes no lock.
NeverLocked(t) == FALSE

RowLockedBeyond(t) == \E other \in Requests \ {t} : HoldsRowLock(other)

\* The session flushes a column only if its value is not the one it read.
Column(current, read, left) == IF left = read THEN current ELSE left

Written(current, read, left) ==
  [status    |-> Column(current.status, read.status, left.status),
   assigned  |-> Column(current.assigned, read.assigned, left.assigned),
   steps     |-> Column(current.steps, read.steps, left.steps),
   progress  |-> Column(current.progress, read.progress, left.progress),
   body      |-> Column(current.body, read.body, left.body),
   decision  |-> Column(current.decision, read.decision, left.decision),
   retention |-> Column(current.retention, read.retention, left.retention),
   flow      |-> Column(current.flow, read.flow, left.flow)]

Begin(t, op, new) ==
  /\ ~Open(t)
  /\ session' = [session EXCEPT ![t] = [op |-> op, old |-> row, new |-> new]]
  /\ UNCHANGED <<row, desk>>

\* A handler that locks nothing reads the row and passes its checks.
Reads(t, new) == Begin(t, "OTHER", new) /\ UNCHANGED texts

\* validate_response waits for the lock and reads the row under it.
Locks(t, new) ==
  /\ ~RowLockedBeyond(t)
  /\ Begin(t, "VALIDATE", new)
  /\ UNCHANGED texts

-----------------------------------------------------------------------------
(***************************************************************************)
(* The handlers up to their commit                                         *)
(***************************************************************************)
BeginSend(t, u) == MaySend(u, row) /\ Reads(t, Moved(row, "SENT"))

BeginReceive(t, u) == MayReceive(u, row) /\ Reads(t, Moved(row, "RECEIVED"))

BeginAssign(t, u, a) == MayAssign(u, a, row) /\ Reads(t, Assigned(row, a))

BeginStart(t, u) ==
  MayStart(u, row, delegations) /\ Reads(t, Moved(row, "IN_PROGRESS"))

BeginDraft(t, u) ==
  /\ texts < MaxTexts
  /\ MayDraft(u, row, delegations)
  /\ texts' = texts + 1
  /\ Begin(t, "OTHER", Drafted(row, circuit, texts + 1))

BeginApprove(t, u) == MayDecide(u, row) /\ Locks(t, Approved(u, row))

BeginReject(t, u) == MayDecide(u, row) /\ Locks(t, Rejected(u, row))

BeginSendResponse(t, u) ==
  MaySendResponse(u, row, delegations) /\ Reads(t, Moved(row, "RESPONSE_SENT"))

BeginClose(t, u) == MayClose(u, row) /\ Reads(t, Moved(row, "CLOSED"))

BeginArchive(t, u) ==
  /\ MayArchive(u, row)
  /\ \E retention \in {"none", "explicit"} : Reads(t, Archived(row, retention))

BeginRetain(t) == MayRetain(row) /\ Reads(t, Retained(row))

\* The commit: the UPDATE waits while a validation holds the row.
Commit(t) ==
  /\ Open(t)
  /\ ~RowLockedBeyond(t)
  /\ row' = Written(row, session[t].old, session[t].new)
  /\ session' = [session EXCEPT ![t] = Idle]
  /\ UNCHANGED <<texts, desk>>

\* The process dies, or the database refuses: the transaction is rolled back.
Abort(t) ==
  /\ Open(t)
  /\ session' = [session EXCEPT ![t] = Idle]
  /\ UNCHANGED vars

RequestStep(t) ==
  \/ \E u \in Users :
       \/ BeginSend(t, u)
       \/ BeginReceive(t, u)
       \/ \E a \in Users : BeginAssign(t, u, a)
       \/ BeginStart(t, u)
       \/ BeginDraft(t, u)
       \/ BeginApprove(t, u)
       \/ BeginReject(t, u)
       \/ BeginSendResponse(t, u)
       \/ BeginClose(t, u)
       \/ BeginArchive(t, u)
  \/ BeginRetain(t)
  \/ Commit(t)
  \/ Abort(t)

TNext ==
  \/ \E t \in Requests : RequestStep(t)
  \/ DeskStep /\ UNCHANGED session

TSpec == TInit /\ [][TNext]_tvars

-----------------------------------------------------------------------------
(***************************************************************************)
(* What overlapping requests cannot break                                  *)
(***************************************************************************)

TTypeOK ==
  /\ TypeOK
  /\ session \in [Requests -> Transaction \cup {Idle}]

\* An approved response has its circuit complete and approved by different
\* persons, the last of whom took the decision: validate_response counts the
\* approvals on the row it has locked, so two validators who answer at once are
\* never both the first, and no unlocked commit can bring "APPROVED" back with
\* an unfinished circuit.
ApprovedByTheCircuit ==
  row.status = "APPROVED" =>
    /\ CircuitComplete(row)
    /\ row.steps # <<>> => row.decision.by = row.progress[Len(row.progress)].user

\* No person ever counts for two steps of a circuit, in any state.
NobodyCountsTwice == DistinctUsers(row.progress)

\* The row a validation will commit on is the row it read: its approval is
\* never computed from a row that has changed.
ValidationNeverStale ==
  \A t \in Requests : HoldsRowLock(t) => session[t].old = row

\* Once somebody answers for the case, no overlap leaves it without anyone:
\* every status after RECEIVED has its assignee, and so does every handler that
\* read such a status.
NeverUnassigned ==
  /\ row.status \notin {"DRAFT", "SENT", "RECEIVED"} => row.assigned # NoUser
  /\ row.assigned # NoUser => Institution[row.assigned] = Receiver

\* A decision is taken on a pending response only: overlap can replay an old
\* status, never a decision.
DecisionsArePending ==
  [][row'.status \in {"APPROVED", "REJECTED"} /\ row'.status # row.status
       => row.status = "PENDING_VALIDATION"]_tvars

-----------------------------------------------------------------------------
(***************************************************************************)
(* What they do break                                                      *)
(***************************************************************************)

\* An archived case never changes again (test_archived_case_is_terminal).
ArchivedIsTerminal ==
  [][row.status = "ARCHIVED" => row'.status = "ARCHIVED"]_tvars

\* A response that is out was approved: the text is the one the last decision
\* approved.
SentResponseWasApproved ==
  row.status = "RESPONSE_SENT" => row.decision.text = row.body

\* A response that awaits validation can be approved or rejected.
PendingCanBeDecided ==
  row.status = "PENDING_VALIDATION" => AwaitsADecision(row)

=============================================================================
