----------------------------- MODULE Documents ------------------------------
(***************************************************************************)
(* The documents of one case, between the rows of the database and the     *)
(* store that holds their encrypted content.  An upload reads the case and *)
(* the document it replaces, suspends while the file is received, stores   *)
(* the content, and only then inserts its row: other requests run at each  *)
(* of these points and the process can die there.  A purge, by the worker  *)
(* or by an administrator, reads the rows that are due, deletes their      *)
(* contents one by one and commits the rows at the end; the manual purge   *)
(* takes no lock, so two purges can overlap.                               *)
(*                                                                         *)
(* The life of the case is cut down to what documents depend on: "SENT"    *)
(* stands for every status from the sending to the closing, among which no *)
(* document tells a difference, and the only column beside the status is   *)
(* the retention date.                                                     *)
(* Its handlers read the row without a lock and commit later, as in        *)
(* CaseTransactions, so a stale one can take an archived case back or give *)
(* it another date, also while a purge is under way.  Any number of        *)
(* requests can be in flight and each can be slow: what one may have read  *)
(* for in some state, it may write in every later one.  No operation here  *)
(* looks at the status but the handlers of the case and the purge.         *)
(* Contents, names and the bookkeeping of failed purges are left out.      *)
(***************************************************************************)
EXTENDS Naturals, FiniteSets

CONSTANTS
  MaxDocs,    \* uploads in all
  MaxOriginals,   \* those that replace no document
  PurposeOf,  \* the use that each upload declares, of those enabled
  Required,   \* the uses the sender's policies require
  LastDay,    \* bound of the calendar
  ByHand,     \* the retention dates an administrator may give
  RetentionDays,  \* default_retention_days
  Purgers,    \* the worker and the administrators who purge
  Worker,     \* the one of them that comes back by itself
  MaxFaults,  \* crashes of a purge and refusals of the store
  None,       \* no document, no purge, no date
  Kept        \* of a column that a request does not write

ASSUME MaxDocsAssumption == MaxDocs \in Nat /\ None \notin 1 .. MaxDocs

ASSUME PurposeAssumption == DOMAIN PurposeOf = 1 .. MaxDocs

ASSUME FaultsAssumption == MaxFaults \in Nat

ASSUME DatesAssumption ==
  /\ LastDay \in Nat /\ RetentionDays \in Nat \ {0}
  /\ ByHand \subseteq Nat \cup {None} /\ None \notin Nat
  /\ Kept \notin Nat \cup {None}

VARIABLES
  status,     \* of the case
  retention,  \* its retention date, if any
  today,
  automatic,  \* the setting document_purge_enabled
  pending,    \* what the requests to the case in flight may write
  doc,        \* each document: its upload, then its row
  store,      \* the documents whose content is stored
  purge,      \* each purger: the rows it still has to delete and has deleted
  faults,
  wasDue      \* history: the rows that have been there while the case was due

columns == <<status, retention, today, automatic>>

vars == <<columns, pending, doc, store, purge, faults, wasDue>>

Docs == 1 .. MaxDocs

\* new: no upload yet; received: checks passed, file awaited; stored: content
\* written, no row; row: committed; lost: refused, or dead before its commit.
Stages == {"new", "received", "stored", "row", "lost"}

Document ==
  [stage : Stages, logical : Docs, version : Nat, supersedes : Docs \cup {None},
   deleted : BOOLEAN, purged : BOOLEAN]

Purge == [todo : SUBSET Docs, done : SUBSET Docs]

\* The dates that come up, and what a request writes to the case.
Dates == ByHand \cup {None} \cup 1 .. LastDay + RetentionDays

Write == [status : {"SENT", "ARCHIVED"}, retention : Dates \cup {Kept}]

ASSUME NoneAssumption == None \notin Purge

-----------------------------------------------------------------------------
(***************************************************************************)
(* What the queries select                                                 *)
(***************************************************************************)
IsRow(d) == doc[d].stage = "row"

Live(d) == IsRow(d) /\ ~doc[d].deleted

\* read_encrypted_file fails on a content that is gone.
Readable(d) == d \in store

\* max(Attachment.version) over a logical document, deleted versions included.
VersionsOf(l) == {doc[d].version : d \in {e \in Docs : IsRow(e) /\ doc[e].logical = l}}

LatestVersion(l) == CHOOSE v \in VersionsOf(l) : \A w \in VersionsOf(l) : w <= v

\* Mutant of PresentPurposes: a document counts from its upload's first check.
AnnouncedPurposes == {PurposeOf[d] : d \in {e \in Docs : doc[e].stage # "new"}}

PresentPurposes ==
  {PurposeOf[d] : d \in {e \in Docs : Live(e) /\ ~doc[e].purged}}

CaseDue == status = "ARCHIVED" /\ retention # None /\ retention <= today

\* Mutant of Eligible: the retention date of the case is not looked at.
ArchivedRows == {d \in Docs : IsRow(d) /\ ~doc[d].purged /\ status = "ARCHIVED"}

Eligible == {d \in Docs : IsRow(d) /\ ~doc[d].purged /\ CaseDue}

Init ==
  /\ status = "DRAFT"
  /\ retention = None
  /\ today = 0
  /\ automatic = FALSE
  /\ pending = {}
  /\ doc = [d \in Docs |-> [stage |-> "new", logical |-> d, version |-> 1,
                           supersedes |-> None, deleted |-> FALSE, purged |-> FALSE]]
  /\ store = {}
  /\ purge = [p \in Purgers |-> None]
  /\ faults = 0
  /\ wasDue = {}

-----------------------------------------------------------------------------
(***************************************************************************)
(* Uploads                                                                 *)
(***************************************************************************)
Stage(d, s) == doc' = [doc EXCEPT ![d].stage = s]

\* Identifiers are fresh: uploads take them in order.
Fresh(d) == doc[d].stage = "new" /\ \A e \in Docs : e < d => doc[e].stage # "new"

Originals == {d \in Docs : doc[d].stage # "new" /\ doc[d].supersedes = None}

\* A first version: its own logical document, version 1.
BeginUpload(d) ==
  /\ Fresh(d)
  /\ Cardinality(Originals) < MaxOriginals
  /\ Stage(d, "received")
  /\ UNCHANGED <<columns, store, purge, faults>>

\* A replacement: the version it will have is computed before the file comes.
BeginReplacement(d, previous) ==
  /\ Fresh(d)
  /\ Live(previous)
  /\ doc' = [doc EXCEPT ![d].stage = "received",
                        ![d].logical = doc[previous].logical,
                        ![d].version = LatestVersion(doc[previous].logical) + 1,
                        ![d].supersedes = previous]
  /\ UNCHANGED <<columns, store, purge, faults>>

\* The file is too large, of a type that is refused or not what it says.
RefuseUpload(d) ==
  /\ doc[d].stage = "received"
  /\ Stage(d, "lost")
  /\ UNCHANGED <<columns, store, purge, faults>>

StoreContent(d) ==
  /\ doc[d].stage = "received"
  /\ Stage(d, "stored")
  /\ store' = store \cup {d}
  /\ UNCHANGED <<columns, purge, faults>>

\* Mutant of Taken: the table has no unique constraint.
NeverTaken(d) == FALSE

\* uq_attachment_document_version
Taken(d) == \E e \in Docs \ {d} :
  IsRow(e) /\ doc[e].logical = doc[d].logical /\ doc[e].version = doc[d].version

InsertRow(d) ==
  /\ doc[d].stage = "stored"
  /\ ~Taken(d)
  /\ Stage(d, "row")
  /\ UNCHANGED <<columns, store, purge, faults>>

\* The version is taken, or the process dies: the content stays behind.
LoseUpload(d) ==
  /\ doc[d].stage = "stored"
  /\ Stage(d, "lost")
  /\ UNCHANGED <<columns, store, purge, faults>>

\* archive_attachment, a logical deletion: the content stays.
ArchiveAttachment(d) ==
  /\ Live(d)
  /\ doc' = [doc EXCEPT ![d].deleted = TRUE]
  /\ UNCHANGED <<columns, store, purge, faults>>

-----------------------------------------------------------------------------
(***************************************************************************)
(* The case                                                                *)
(***************************************************************************)
\* A date that is the one the handler read is not written.
Writes(w, target, until) ==
  w = [status |-> target, retention |-> IF until = retention THEN Kept ELSE until]

\* enforce_checklist, then the rest of send_case up to its commit.
MaySend(w) ==
  /\ status = "DRAFT"
  /\ Required \subseteq PresentPurposes
  /\ Writes(w, "SENT", retention)

\* The handlers from receive_case to close_case move between the statuses that
\* "SENT" stands for.
MayProcess(w) == status = "SENT" /\ Writes(w, "SENT", retention)

\* archive_case of a case that is closed by then, with any date or none.
MayArchive(w) == status = "SENT" /\ \E until \in ByHand : Writes(w, "ARCHIVED", until)

\* apply_retention_policy, which commits at the end of its scan.
MayRetain(w) ==
  /\ status = "SENT"
  /\ Writes(w, "ARCHIVED", IF retention = None THEN today + RetentionDays ELSE retention)

\* The handlers whose read and checks pass in this state, by what they write.
MayRead(w) ==
  MaySend(w) \/ MayProcess(w) \/ MayArchive(w) \/ MayRetain(w)

\* One of them commits.  Others may have read the same: the write stays.
CommitRequest(w) ==
  /\ w \in pending
  /\ status' = w.status
  /\ retention' = IF w.retention = Kept THEN retention ELSE w.retention
  /\ UNCHANGED <<today, automatic, doc, store, purge, faults>>

DayPasses ==
  /\ today < LastDay
  /\ today' = today + 1
  /\ UNCHANGED <<status, retention, automatic, doc, store, purge, faults>>

\* update_platform_setting
SetAutomatic(on) ==
  /\ automatic' = on
  /\ UNCHANGED <<status, retention, today, doc, store, purge, faults>>

-----------------------------------------------------------------------------
(***************************************************************************)
(* Purges                                                                  *)
(***************************************************************************)
Purging(p) == purge[p] # None

\* A purge that finds nothing changes nothing.  The scan purges only if the
\* setting is on; an administrator may at any time.
StartPurge(p) ==
  /\ ~Purging(p)
  /\ p = Worker => automatic
  /\ Eligible # {}
  /\ purge' = [purge EXCEPT ![p] = [todo |-> Eligible, done |-> {}]]
  /\ UNCHANGED <<columns, doc, store, faults>>

\* A purge goes through its rows by their date of upload, the time at which the
\* transaction of the upload began.
Turn(p, d) == Purging(p) /\ d \in purge[p].todo /\ \A e \in purge[p].todo : d <= e

\* Deleting a content that is already gone succeeds.
DeleteContent(p, d) ==
  /\ Turn(p, d)
  /\ store' = store \ {d}
  /\ purge' = [purge EXCEPT ![p].todo = @ \ {d}, ![p].done = @ \cup {d}]
  /\ UNCHANGED <<columns, doc, faults>>

\* Mutant of RefuseDelete: no `continue` after the failure.
RefuseButMark(p, d) ==
  /\ faults < MaxFaults
  /\ Turn(p, d)
  /\ purge' = [purge EXCEPT ![p].todo = @ \ {d}, ![p].done = @ \cup {d}]
  /\ faults' = faults + 1
  /\ UNCHANGED <<columns, doc, store>>

\* The store refuses: the purge goes on and leaves this row as it is.
RefuseDelete(p, d) ==
  /\ faults < MaxFaults
  /\ Turn(p, d)
  /\ purge' = [purge EXCEPT ![p].todo = @ \ {d}]
  /\ faults' = faults + 1
  /\ UNCHANGED <<columns, doc, store>>

\* Mutant of MarkPurged: only the documents that a user had archived.
MarkArchived(p) ==
  doc' = [d \in Docs |-> IF d \in purge[p].done /\ doc[d].deleted
                         THEN [doc[d] EXCEPT !.purged = TRUE] ELSE doc[d]]

\* Mutant of MarkPurged: the row is not taken off the lists.
MarkOnly(p) ==
  doc' = [d \in Docs |-> IF d \in purge[p].done
                         THEN [doc[d] EXCEPT !.purged = TRUE] ELSE doc[d]]

MarkPurged(p) ==
  doc' = [d \in Docs |-> IF d \in purge[p].done
                         THEN [doc[d] EXCEPT !.deleted = TRUE, !.purged = TRUE]
                         ELSE doc[d]]

CommitPurge(p) ==
  /\ Purging(p)
  /\ purge[p].todo = {}
  /\ MarkPurged(p)
  /\ purge' = [purge EXCEPT ![p] = None]
  /\ UNCHANGED <<columns, store, faults>>

\* The process dies, or a later step of the scan fails: the rows are rolled
\* back, the contents that were deleted are not.
CrashPurge(p) ==
  /\ faults < MaxFaults
  /\ Purging(p)
  /\ purge' = [purge EXCEPT ![p] = None]
  /\ faults' = faults + 1
  /\ UNCHANGED <<columns, doc, store>>

-----------------------------------------------------------------------------
DocumentStep ==
  \E d \in Docs :
    \/ BeginUpload(d)
    \/ \E previous \in Docs : BeginReplacement(d, previous)
    \/ RefuseUpload(d)
    \/ StoreContent(d)
    \/ InsertRow(d)
    \/ LoseUpload(d)
    \/ ArchiveAttachment(d)

CaseStep ==
  \/ \E w \in Write : CommitRequest(w)
  \/ DayPasses
  \/ \E on \in BOOLEAN : SetAutomatic(on)

\* What a purge does when nothing fails.
PurgeProgress(p) ==
  \/ StartPurge(p)
  \/ \E d \in Docs : DeleteContent(p, d)
  \/ CommitPurge(p)

PurgeFault(p) == CrashPurge(p) \/ \E d \in Docs : RefuseDelete(p, d)

\* What the state after the step adds: requests that read it, and history.
Remember ==
  /\ pending' = pending \cup {w \in Write : MayRead(w)'}
  /\ wasDue' = wasDue \cup {d \in Docs : IsRow(d)' /\ CaseDue'}

Next ==
  /\ \/ DocumentStep
     \/ CaseStep
     \/ \E p \in Purgers : PurgeProgress(p) \/ PurgeFault(p)
  /\ Remember

\* The worker scans again and again; whether it purges is the setting's matter.
Fairness == WF_vars(PurgeProgress(Worker) /\ Remember)

Spec == Init /\ [][Next]_vars /\ Fairness

-----------------------------------------------------------------------------
TypeOK ==
  /\ status \in {"DRAFT", "SENT", "ARCHIVED"}
  /\ retention \in Dates
  /\ today \in 0 .. LastDay
  /\ automatic \in BOOLEAN
  /\ pending \subseteq Write
  /\ doc \in [Docs -> Document]
  /\ \A d \in Docs : doc[d].purged => doc[d].deleted
  /\ store \subseteq Docs
  /\ purge \in [Purgers -> Purge \cup {None}]
  /\ faults \in 0 .. MaxFaults
  /\ wasDue \subseteq Docs

\* No document loses its content before its time: whatever was interrupted, a
\* row has its content, unless it has been the row of an archived case whose
\* retention was over (upload stores before it inserts, a purge selects by the
\* date).  That the case is so still cannot be said: a stale request may have
\* taken it back since the purge began.
KeptUntilDue == \A d \in Docs : IsRow(d) => Readable(d) \/ d \in wasDue

\* What the audit trail calls purged is gone: no row is marked while its
\* content remains, with a store that refuses, a purge that dies or two purges
\* at once.
PurgedIsGone == \A d \in Docs : doc[d].purged => IsRow(d) /\ d \notin store

\* The versions of a logical document are 1, 2, ... without a gap or a double,
\* and each replaces an older one of the same document: replacements that
\* computed the same version from the same maximum are not both inserted.
VersionHistory ==
  \A d \in Docs : IsRow(d) =>
    /\ VersionsOf(doc[d].logical) = 1 .. Cardinality({e \in Docs : IsRow(e) /\ doc[e].logical = doc[d].logical})
    /\ doc[d].supersedes # None =>
         /\ IsRow(doc[d].supersedes)
         /\ doc[doc[d].supersedes].logical = doc[d].logical
         /\ doc[doc[d].supersedes].version < doc[d].version

\* A case that was sent, or that some request is about to send, had a document
\* for each use on the list it was sent under, though by then somebody may have
\* archived it: send_case checks the rows, not uploads that may still fail, and
\* rows stay.
SentWithDocuments ==
  status # "DRAFT" \/ pending # {} =>
    \A use \in Required : \E d \in Docs : IsRow(d) /\ PurposeOf[d] = use

\* A document that is due is purged in the end, as long as the case stays due
\* and the setting on: what a purge that died or was refused left behind is
\* found again by the next scan.
DueIsPurged ==
  \A d \in Docs :
    d \in Eligible /\ automatic ~> (IsRow(d) /\ doc[d].purged) \/ ~CaseDue \/ ~automatic

=============================================================================
