# InfoBridge: a formal model

InfoBridge is a platform on which institutions exchange cases: one institution
sends a request, another receives it, assigns it, drafts a response, has it
validated along a circuit, sends it back, and the case is closed, archived and in
the end purged. The server is a FastAPI application (`src/backend/app`) over
SQLAlchemy and PostgreSQL, with an object store for documents and one background
worker; the client is a React page (`src/frontend`).

This directory holds TLA+ modules that model the parts of the server whose
correctness depends on order, the TLC runs that check them on small instances, and
TLAPS proofs of the main results for every value of the constants.

## 1. The system

| Component | State | Operations | What makes it correct |
|---|---|---|---|
| Case workflow (`routes.py` 729-1056, `services/workflow.py`) | the row of `exchange_cases`, the status of its `workflows` row | create, send, receive, assign, start, draft, validate, send the response, close, archive | one chain of statuses; a response leaves only when approved; an archived case is final |
| Validation circuits, delegations (`services/productivity.py`, `api/productivity.py`) | `case_policies`, the circuit and progress in the case, `case_delegations` | save a policy, approve a step, reject, delegate, revoke | each step by another person with its role; a running circuit ignores edits; a pending response can be decided |
| Case access (`services/permissions.py`, `api/deps.py`) | `access_rules` | enforce, upsert a rule | an institution's rule precedes the general one |
| Documents (`services/documents.py`, `services/storage.py`, `routes.py` 1059-1278) | `attachments`, the blobs of the store | upload, replace, archive, download, purge | a listed document can be read; versions are unique; a purge ends, and deletes what has come due only |
| Lifecycle scan (`services/lifecycle.py`, `services/deadlines.py`, `main.py`) | the advisory lock, `_state`, deduplicated `notifications` | alerts, escalations, retention, purge | one scan at a time; one alert a day; a closed case is archived in the end |
| Accounts, institutions, sessions (`routes.py` 133-667, `services/sessions.py`) | `users`, `institutions`, `auth_sessions` | log in, refresh, log out, update, revoke | one refresh token valid per session; a session that was ended stays so; a disabled account does not come back by itself |
| Password recovery (`services/password_reset.py`) | `password_resets`, the throttle | request, issue, complete | one use per link; a new link supersedes the others; a disabled account cannot recover |
| API clients (`routes.py` 1380-1608, `services/m2m.py`) | `api_clients` with a token version | create, update, rotate, issue a token, read cases | a rotation, a suspension or a change of scopes ends earlier tokens |
| Receipts, notifications (`routes.py` 1178-1220, 1777-1792) | `receipts`, `notifications` | acknowledge, mark read, list | one receipt per user and case, never withdrawn |
| Comments (`api/productivity.py` 129-153) | `case_comments` | note, message, mention | nothing of a draft crosses to the other institution |
| Reference data, settings | key-value rows | list, update | values stay inside their bounds |
| Audit log | append-only rows | write, list, export | written with the operation, never changed |
| Encryption, migrations, seed, web client | - | - | outside the model (section 8) |

Components interact through the database: there are no messages between them and,
beside the scan's advisory lock, no lock but the row locks of `validate_response`
and password recovery. Each request has a SQLAlchemy session of its own
(`autoflush=False`), at PostgreSQL's default READ COMMITTED. A typical handler loads
its rows, checks them, changes the objects and commits; the flush writes the
columns whose value changed. No row has a version column. So what is hard here is
mostly one thing, in many places: **a handler decides on a row that has changed by
the time it commits**. The rest is the upload's `await` between check and insert,
the object store that no transaction covers, and the worker.

## 2. The modules

| Module | What it models |
|---|---|
| `CaseRules` | the row of a case and, for each handler, its guard (`MayX`) and its effect on the row; no variables |
| `CaseWorkflow` | one case, each handler in one step |
| `CaseLifecycle` | the abstract specification: what is promised of one case |
| `CaseTransactions` | the same handlers as a read and a later commit, in overlapping requests |
| `Documents` | the rows and the store of a case's documents: uploads, versions, the checklist, purges |
| `Lifecycle` | workers, the advisory lock, alerts and escalations by key, the retention step |
| `Accounts` | accounts, institutions, sessions and password-reset links, in overlapping requests |
| `ApiClients` | machine clients, their token version, tokens and what they serve |
| `Workspace` | receipts, comments, access rules, reference values: look-ups followed by inserts |
| `MCx` | the instance of module `x` for TLC |
| `CaseRulesProofs`, `CaseWorkflowProofs`, `CaseTransactionsProofs`, `DocumentsProofs`, `LifecycleProofs`, `AccountsProofs`, `ApiClientsProofs`, `WorkspaceProofs` | lemmas and theorems (section 4) |

The components of the second half meet the case through few columns, so each module
has its own small picture of the case: `Documents` draft, sent (and not yet archived)
or archived, with its retention date, `Lifecycle` whether it is open, closed, closed long enough or
archived, `Workspace` draft, sent, received or closed. `CaseWorkflow` justifies them:
the order of statuses is the one it proves.

### The case

`row` is the row of `exchange_cases` with the columns that some handler decides on:
`status`, `assigned` (`assigned_to`), `steps` and `progress` (`validation_steps`,
`validation_progress`), `body` (`response_body`), `decision` (`validated_by`),
`retention` (`retention_until`: none, an explicit date, or the scan's default), and
`flow`, the status of its `workflows` row. Dates that are only recorded are left
out. A text is the number of the draft that brought it. The `text` of an approval
and of a decision is auxiliary: it names the text that was in the row when the user
agreed to it, so that properties can speak of consent; no guard reads it.

`circuit` is the list of roles that the receiver's active policies spell for the
case, concatenated in order of creation (`prepare_validation`); saving a policy
(`SavePolicy`) can make it any of `Circuits`. `delegations` are the pairs in force.

Each `MayX` is the list of refusals of the handler, in `CaseRules`: the role
(`require_roles`), the institution (`_require_sender_access`,
`_require_receiver_access`), the access rule (`enforce_case_permission`), what is
particular to the handler, and `transition_case`. Each effect is what the handler
assigns, the record of the workflow action included. `apply_retention_policy`, which
uses neither `transition_case` nor `_record_workflow_action`, has its own.

In `CaseTransactions` a handler is two steps. `BeginX` reads the row, with what is
looked up beside it, and passes the checks; its transaction keeps the row read (`old`)
and the row it would leave (`new`). `Commit` writes the columns in which they differ
(`Written`). `Abort` is a rollback or a crash: nothing was written, so a crash loses
the transaction and no more. `validate_response` refreshes its row `FOR UPDATE`:
`Locks` waits for another validation and `Commit` waits for one too, while plain reads
wait for nobody. Policies and delegations change in one step.

### Documents

`doc` holds each upload from its first check to its row, `store` the documents whose
encrypted content is stored. `upload_attachment` is cut where it can be interrupted:
`BeginUpload` or `BeginReplacement` (the checks, and for a replacement the next
version from `max(version)`), the `await` of the file, `StoreContent`, and `InsertRow`
or `LoseUpload` (the unique constraint on logical document and version, or a crash).
`archive_attachment` deletes logically.

A purge reads what is due (`StartPurge`), deletes contents one by one in the order of
their upload (`DeleteContent`, or `RefuseDelete` when the store refuses and the loop
goes on), and commits the marks of all it deleted; `CrashPurge` is a death, or a later
step of the scan that fails: rows are rolled back, contents are not. The worker and a
manual purge do not exclude each other. The worker purges only while `automatic`
(`document_purge_enabled`, off at first) is on, which `SetAutomatic` changes at any time.

The handlers of the case read its row without a lock and commit later, so a stale one
can write over what came in between: a case that is due can be taken back to `"SENT"`, or
be archived again with another date or none, also while a purge is under way. `pending`
is the set of the writes that requests in flight may make: what a handler could decide
in some state (`MaySend`, `MayProcess`, `MayArchive`, `MayRetain`) it may write in every
later one (`CommitRequest`), the retention date only if it changed it. Since any number
of requests can have read the same row and each can be slow, nothing leaves the set.
`"SENT"` stands for every status from the sending to the closing. `wasDue` is auxiliary:
the rows that have been there while the case was due; no guard reads it.

### Lifecycle

`session` is the transaction of each process: what it has still to insert (`todo`),
its uncommitted keys (`mine`), all it had to send (`seen`), and the cases its retention
step read. A scan (`StartScan`) needs that no other worker's transaction is open, for
it takes the advisory lock or skips; a manual run of the alerts (`StartRun`) takes no
lock. `Insert` inserts one key, skips a committed one, and waits for another
transaction's uncommitted one; `BreakDeadlock` is the database's choice of a victim
when two wait for each other. `Escalate` comes after the alerts, `ReadClosed` after
it; `Commit` archives what was read. `Fail` rolls back. `BeginArchive` and
`CommitArchive` are `archive_case` beside the scan. The clock ticks by half-days, so
that a scan can run over a midnight.

### Accounts

`user`, `institution`, `owner`/`live` (sessions) and `link` are tables; `tx` is the
transaction of each request, with the columns it will write (`Differing`: those whose
value it changed), the session it opens or closes and the links it marks. A password is the
number of resets behind it, so a link's identity hash is the password and address it
was issued for (`Identity`). Issue and use of a link hold the account's row `FOR
UPDATE`; requests that write this row, or insert a row that refers to it, wait.

### API clients

`client` is the row with its `token_version`; a token carries what `m2m_token` writes
into it. An exchange is a read of the row and a later hand-out. An administrator's
request reads the row, changes it, counts the version up where `routes.py` does, and
commits the changed columns; any number of administrators may do so at once. `Served`
is `m2m.py`'s check of a token against the row, with the scope and the case's
institutions. `epoch` is auxiliary: it counts the changes of secret, scopes and activity,
so that a property can tell on which side of a change a token was made, and `clash`
remembers the clients of which two edits were in flight at once; no guard reads them.

### Workspace

Each request looks up a row (`old`) and later commits the row it wants (`new`), an
insert or an update, in one of four tables; `Begin` and the commit are shared, each
handler adds its guard and its row. Unique constraints are checked at the commit. The
constraint on access rules contains a nullable column: two general rules do not collide
(`Conflicts` says so), and `Applicable` then leaves the choice open.

## 3. Runs

| Run | Asks | Result |
|---|---|---|
| `case_workflow` | do handlers that never overlap keep a case right, and implement `CaseLifecycle`? | yes; about 30,000 states |
| `case_transactions` | what survives any overlap of two requests? | decisions do; about 425,000 states |
| `documents` | do rows, versions and store agree through overlap, crash and refusal, and is what is due purged? | yes; about 417,000 states |
| `lifecycle` | is each alert sent once and none lost, each closed case archived? | yes; about 356,000 states |
| `accounts` | do sessions, addresses and reset links survive any overlap of two requests? | yes; about 1,056,000 states up to symmetry |
| `api_clients` | does a change end every earlier token of a client that never saw two edits at once? | yes; about 1,313,000 states up to symmetry |
| `workspace` | do constraints answer for every look-up that went stale? | yes; about 43,000 states up to symmetry |
| `archived_is_terminal` | does an archived case stay archived, as `test_archived_case_is_terminal` has it? | no |
| `sent_response_was_approved` | is the text that is sent the approved one, as the user manual says? | no |
| `pending_can_be_decided` | can a pending response always be approved or rejected, as the workspace guide says? | no |
| `disabled_cannot_recover` | is a disabled account beyond recovery, as the repository's README says? | no |
| `old_tokens_refused` | does a change of scopes, a suspension or a rotation end every earlier token, as the repository's README says? | no |

Each passing run checks its module's type invariant and:

- `case_workflow`: `AnsweredWithConsent` (from its approval on, the response is the
  text its validators agreed to, each step by another person with the step's role),
  `NeverStuck`, `SomebodyAnswers`, `WorkflowAgrees`, and the refinement
  `ImplementsLifecycle`;
- `case_transactions`: the part that the row lock is responsible for:
  `ApprovedByTheCircuit`, `NobodyCountsTwice`, `ValidationNeverStale`,
  `NeverUnassigned`, and that a status becomes a decision only from
  `PENDING_VALIDATION` (`DecisionsArePending`);
- `documents`: `KeptUntilDue` (no content is lost before its time: only a row that was
  there while the case was archived with its retention over may have lost its content;
  that the case still is so cannot be said, a stale request may have taken it back),
  `PurgedIsGone` (no mark while the content remains), `VersionHistory` (1, 2, ...
  without gap or double, each replacing an older one), `SentWithDocuments`, and the
  liveness property `DueIsPurged` (what is due is purged, unless the case ceases to be
  due or the setting is switched off);
- `lifecycle`: `OneAlertADay`, `NoneForgotten` (what a transaction passed over is
  committed, or its own), `EscalatedAfterAlert`, `ArchivedOnceWithDate`, and the
  liveness properties `ClosedIsArchived` and `LateIsTold`;
- `accounts`: `OneUsableLink`, `AddressesDiffer`, and the action properties
  `RevokedStaysRevoked` and `ResetByItsLink`;
- `api_clients`: `ApartChangesEndTokens`;
- `workspace`: `OneAnswer`, `ReceiptsAreUnique` (against the audit trail), `DraftStaysInside`,
  and the action property `ReceiptsOnlyGrow`.

### The five disagreements

The first three have one cause: only validations lock. A request reads the case,
others move it on, and the first commits what it decided on the old row. The
counterexamples are of at most two requests at a time:

- *archived*: two requests for one and the same step read the row; one commits; the case
  goes on until it is archived; the other commits its older status over `ARCHIVED`. Any
  step that takes no lock will do (two requests to send the case leave it `SENT`, two to
  send the response `RESPONSE_SENT`, two to close it `CLOSED`): the counterexamples have
  the same length, and TLC prints the one its search meets first;
- *sent*: two drafts overlap; the later to be read is approved; the earlier commits
  its text while `send_response`, which read `APPROVED`, has yet to commit;
- *pending*: the same two drafts; the stale one does not write `validation_progress`,
  which it did not change, so the case waits for a circuit that is complete, and
  `approve_step` answers « Circuit déjà terminé » to everyone.

The fourth is the same in the clients of the interface, the fifth needs no overlap:

- *tokens*: two administrators change a client or rotate its secret; both read version 1;
  the first commits version 2; a token is made of that row; the second commits its change
  and again version 2, so the token of before this change is still accepted;
- *disabled*: `login` writes `LOCKED` once the failures reach the threshold, whatever the
  account is: the status `DISABLED` becomes `LOCKED`, which `eligible` accepts, and a reset
  link then makes the account active.

Deadlock is not checked in any run: an archived case, an account nobody uses and a
clock at its bound may rest for ever.

### Bounds

- `MCCaseWorkflow`: eight accounts, the smallest staff with which every branch of
  every guard is taken both ways; circuits of zero, one and two steps, with the same
  and with different roles; `MaxTexts = 3`, so a circuit can be rejected, redrafted
  under another policy, and rejected again; one access rule that refuses.
- `MCCaseTransactions`: two requests in flight. Every hazard listed is between two
  requests; a third is a later one and finds a session free. Two validators who are
  interchangeable (symmetry) and a system administrator who can do the rest; two
  texts; circuits of zero and two steps. The invariants are proved for any number.
- `MCDocuments`: three uploads (`MaxDocs`), one of them an original (`MaxOriginals`), so
  that two replacements of one document race, with different uses; two purges; one fault
  (`MaxFaults`); two days (`LastDay`), a default delay of one, and by hand a date that
  comes on the second day or one that never does, which stands for none as well. The
  requests to the case are not bounded. The invariants are proved for any number.
- `MCLifecycle`: two workers and one manual run (`MaxRuns`), two cases at different
  levels of lateness, two half-days (`LastTick`) with a midnight between them, one
  fault: two transactions can wait for each other, and a scan can cross midnight.
- `MCAccounts`: two accounts, institutions, addresses and requests, one session, two
  links (`MaxLinks`), two changes by hand (`MaxChanges`); `Threshold = 1`, so that one
  failure locks. The violation run has one request and `Threshold = 2`.
- `MCApiClients`: one client, `MaxVersion = 3`, so that a suspension can be lifted
  again; two administrators' requests beside one exchange, three secrets, up to the
  symmetry of administrators and secrets. The theorem is for any number.
- `MCWorkspace`: two requests and two rows in all (`MaxRows`): one row and its double,
  or one that is changed twice; three users, one of each institution and an exempt one.

No bound other than these is in the modules. The proofs use none of their values.

### Fairness

- `Documents`: weak fairness of the progress of the worker's purge, which starts only
  while the setting `document_purge_enabled` is on. `main.py` runs the scan for ever,
  after a failure too (`except Exception`, then the sleep), and the purge is one of its
  steps when the setting says so (`lifecycle.py` 61); it is off by default
  (`core/config.py` 26). Nothing is assumed of the setting, which may be switched at any
  time, nor of the manual purge, uploads or the case: `DueIsPurged` promises nothing once
  the setting is off or the case is no longer due.
- `Lifecycle`: weak fairness of the workers taken together (some worker goes on), and of
  manual runs that were started (a request ends). None of the clock, of
  administrators or of the retention delay. The properties hold with a bounded number
  of faults and manual runs: manual runs repeated for ever could each time
  choose the scan as the victim of a deadlock, which is a real, if remote, livelock.
- The other modules state safety only and no fairness.

## 4. What is proved

TLAPS checks, for every value of the constants:

- `Spec => []TypeOK`, `[]AnsweredWithConsent`, `[]NeverStuck`, `[]SomebodyAnswers`,
  `[]WorkflowAgrees`, and `Spec => ImplementsLifecycle` (`CaseWorkflowProofs`);
- `TSpec => []TTypeOK`, `[]ApprovedByTheCircuit`, `[]NobodyCountsTwice`,
  `[]ValidationNeverStale`, `[]NeverUnassigned`, and `TSpec => DecisionsArePending`
  (`CaseTransactionsProofs`);
- `Spec => []TypeOK`, `[]KeptUntilDue`, `[]PurgedIsGone`, `[]VersionHistory`,
  `[]SentWithDocuments` (`DocumentsProofs`);
- `Spec => []TypeOK`, `[]OneAlertADay`, `[]NoneForgotten`, `[]EscalatedAfterAlert`,
  `[]ArchivedOnceWithDate` (`LifecycleProofs`);
- `Spec => []TypeOK`, `[]OneUsableLink`, `[]AddressesDiffer`, and
  `Spec => RevokedStaysRevoked`, `Spec => ResetByItsLink` (`AccountsProofs`);
- `Spec => []TypeOK`, `[]ApartChangesEndTokens` (`ApiClientsProofs`);
- `Spec => []TypeOK`, `[]OneAnswer`, `[]ReceiptsAreUnique`, `[]DraftStaysInside`, and
  `Spec => ReceiptsOnlyGrow` (`WorkspaceProofs`).

So every safety property that a passing run checks is a theorem, for any number of users,
requests, workers, cases and rows.

The assumptions are those of the modules: `Role` is a function from the accounts to
the roles, the null account is not an account, a circuit is a sequence of the two
roles a policy can name, the empty circuit exists (a case without policies), bounds
are natural numbers, and null values (`Idle`, `None`) are none of the values they stand
beside. `Lifecycle` has finitely many cases and recipients, since a scan goes through
them in some order; in `Accounts` a change names columns of a row and leaves a row when
it is written (`UserUpdate` has typed fields, and none for the password), and the roles
that an administrator can grant are roles; in `Workspace` every user has an institution
(`users.institution_id` is not nullable). TLC evaluates them on each run.

**`CaseInv`.** `AnsweredWithConsent` is about approved responses and is not inductive: an
approval makes it true only if the circuit was already in order while it was
pending. `ProgressOK` says that of every state (never more approvals than
steps, in the order of the roles, by different persons, for the text in the row),
`DecisionOK` what the last approval adds. With `NeverStuck`, an approval always has
a step to fill. `row.status # "IN_REVIEW"` is there for the refinement: the status
exists, is accepted by `transition_case`, and no handler sets it.

**`TInv`.** Overlap breaks `ProgressOK`, so the invariant of `CaseTransactions` is another
one, about the transactions in flight. A validation is a decision that `approve_step`
allows on the row *as it is now* (`DecidesNow`); this stays true because no one else
commits (`OneLock`, and the wait of `Commit`). Every other transaction will write a
status that is no decision, leaves the decision alone, and the approvals too or
empties them (`DecidesNothing`), and does not lose the assignee (`KeepsAssignee`). So
a status `APPROVED` can come only from a validation, on the row it holds.

**The refinement** maps `status`, `text`, `quorum` and `endorsers` to the row's status,
body, length of the circuit and users of its approvals. Each handler is a step of
the lifecycle; an upload and the steps of the desk are stutters.

**`Inv` of `Documents`** has two halves. For the versions, `VersionsOK` says of every
logical document what `VersionHistory` says of those with a row, and `ChainsOK` says
of an upload still under way that the version it computed is at most the next one: then
the unique constraint, which only refuses equals, lets a row in only as exactly the
next (`InsertVersions`). For the contents, `StoreOK` ties the stage of each document to
the store, `HistoryOK` says that while the case is due its rows are in `wasDue`, and
`PurgesOK` that the rows a purge has in hand were so when it began, whatever has become
of the case since, and that what it has deleted has no content. A row that is once in
`wasDue` stays there, so no assumption on the case is needed to let a purge go on after
a stale request took the case back. Nothing in it limits the number of purges or of
requests: the worker's purge and a manual one need no lock. `SentWithDocuments` is
inductive because it speaks of the writes that are pending too, and rows stay
(`RowsStay`).

**`IInv` of `Lifecycle`** adds five facts to the four properties. `OneScan` is what the
advisory lock gives. `NoneForgotten` and `OneAlertADay` need no lock: they hold by
themselves of any number of transactions that insert keys, because an insertion waits
for whoever has the key uncommitted; the loop over the keys that remain is a sequence,
and `HeadAndTail` is the step that moves one key. `EscalatedAfterAlert` needs
`WarnedFirst`, the same of what is not yet committed, and that needs `LateAreSeen`: when
a scan turns to escalations, it has in hand the overdue alert of every case that was
late when it began. The alert may be of the day before, hence `Short`: a scan ends
within a tick of its beginning, the one assumption on speed, which is a guard of
the clock. `ReadOnce` says that what a scan has read as closed was not archived by
another one, which is the lock again; a case archived by hand meanwhile has its date,
or gets it.

**`IInv` of `Accounts`** is about the requests in flight. `RequestOK` says what each carries:
columns that fit any row, sessions and links of the account it is about, and a
password only in a reset. `HolderOK` is the row lock: a request that issues or uses a
link is alone on its account, has marked every link that is open, and the link it
uses is still open and still issued for what the account is. With it a commit of
an issue closes all the others (`OneUsableLink`), and a reset meets the account
it was issued for (`ResetByItsLink`). What no lock protects is proved from the
commits alone: addresses from the unique index, `RevokedStaysRevoked` from the fact
that a commit ends sessions or opens a new one, and no more. A link was issued for a password
older than itself (`LinksOK`), which bounds the passwords by the links.

**`IInv` of `Workspace`** has no lock to lean on. `WriteOK` says what is true of a
request's row at any time between its look-up and its commit: a new one has an
identifier that no other row and no other insertion has; a row to be changed
is still there with its key, since nothing deletes rows; and of a receipt the request
can at most make it read, and then records it. `AfterIsRow` is the other half: a commit
writes the changed columns over what the row holds *by then*, and what comes out is a
row of the table with the same key. Uniqueness then follows from the constraint at the
moment of the insertion (`InsertIsNew`), and the trail agrees with the receipts
(`CountsOK`) because an entry and its row are one commit. Whatever could cross from a
draft is refused at the look-up, and a case never becomes a draft again.

**`Inv` of `ApiClients`** is about the clients outside `clash`, for any number of
administrators. A token, handed out or in the making, of the version the row has was
made in the epoch the row is in (`TokensHonest`). That needs `EditsApart`: such a client
has one edit in flight at most, and the row this edit read is still the row, so that the
version it commits is a new one. Of a client in `clash` nothing is claimed, and the run
`old_tokens_refused` shows that nothing can be.

## 5. What is only model-checked

Liveness (`DueIsPurged`, `ClosedIsArchived`, `LateIsTold`), which is outside the prover's
reach, as is anything about `ENABLED`; and the five violations, which are TLC's
counterexamples.

## 6. Abstractions worth knowing

- In the case modules accounts stay active with a fixed role and institution. A
  disabled account has fewer behaviours; their changes are in `Accounts`.
- `Barred` is constant. Rules only refuse, so `Barred = {}` (`MCCaseTransactions`, and
  the proofs for any value) covers rules that change. The rules as rows are in
  `Workspace`, for one role.
- `enforce_checklist` can refuse a sending; in the case modules it may or may not. Its
  verdict on documents is in `Documents`.
- The type of a case, and a change of it while the case is sent, are left out.
- The `workflows` row is read with the case; nothing in `CaseTransactions` depends on it.
- Deleted cases: no handler sets `deleted_at` on a case.
- `Documents` keeps of the case what its documents depend on. It forgets contents whose
  upload died: they stay in the store for ever, as in the code, and no property says
  otherwise. A stale request can have the contents of a case deleted that is no longer
  due: the module shows it, and `KeptUntilDue` does not exclude it. `purge_attempts` and
  `purge_error` are left out.
- A download records a workflow action, as an upload does; both are in `CaseWorkflow`, which
  lets a case be downloaded from as soon as some action is recorded. `CaseTransactions`
  leaves both out: that a late one opens the workflow's status again is not examined.
- `Lifecycle` takes who is told as constant, and counts a manual run over one scope.
- `Accounts` leaves out the values of refresh tokens (which of two overlapping rotations
  keeps its cookie), the expiry of access tokens, the throttle of recovery by mail (which
  counts per clock hour, so twice its limit passes around the change of hour). Two
  failures at once lose an increment in the model as in the code; no property is
  about it. Failed log-ins can lock the only system administrator, and two who demote
  each other at once can leave none, although the manual (line 193) says that one is kept:
  both are behaviours of the module, and no run is about them.
- Tokens do not expire in `ApiClients`, which only adds behaviours.
- `Workspace` lets the general rules be doubled, as the table does, and then
  `enforce_case_permission` reads either.

## 7. Plan

That with one request at a time `CaseTransactions` implements `CaseLifecycle`, by the
argument of `LifecycleImplemented`: what a request commits is then the effect on the
row it reads. An aborted draft uses up the number of its text, so the lifecycle must
first let a new text have any greater number.

## 8. Not modelled

Encryption and MIME detection (pure functions over a library), the audit log's export,
text extraction, summaries, searches and other read-only endpoints, rendering in the
client, migrations and demonstration data. Labels and order of reference values and the
platform settings other than the alert switch are values that the modules take as
constants. The read flag of notifications is one column that one handler sets.
