----------------------------- MODULE Lifecycle ------------------------------
(***************************************************************************)
(* The lifecycle scan.  Each backend process runs a worker that scans over *)
(* and over; a scan is one transaction under an advisory lock that a       *)
(* second worker does not wait for: it skips its turn.  In it the alerts   *)
(* of the day are inserted, then the escalations, then the cases closed    *)
(* long ago are archived.  Administrators run the alerts by hand in a      *)
(* transaction without the lock, and archive cases while a scan runs.      *)
(*                                                                         *)
(* An alert is a notification with a key that says what, for which case    *)
(* and on which day; the key is unique, and an insertion that meets a key  *)
(* another transaction has not yet committed waits for it.  Two            *)
(* transactions that wait for each other are told apart by the database,   *)
(* which aborts one.  The order of the cases within a scan is any, for its *)
(* query gives none.                                                       *)
(*                                                                         *)
(* A tick of the clock is half a day, and a scan takes less than that: it  *)
(* can run over a midnight, not over a day.  Texts and counts are left     *)
(* out, and so is who receives an alert; the purge is in Documents.        *)
(***************************************************************************)
EXTENDS Integers, Sequences, FiniteSets, SequencesExt

CONSTANTS
  Cases,
  Closable,     \* those that are closed while we watch
  DueAt,        \* the half-day each case is due
  SoonTicks,    \* due_soon_hours
  Workers,      \* the processes whose worker is enabled
  Runners,      \* requests that run the alerts by hand
  Scope,        \* the cases of their institution
  Recipients,   \* who is told at each level: active, with access to the case
  LastTick,     \* bound of the clock
  MaxFaults,    \* scans and runs that fail
  MaxRuns,      \* runs by hand
  None          \* no session, no request, no recipient

Processes == Workers \cup Runners

ASSUME ClockAssumption ==
  LastTick \in Nat /\ MaxFaults \in Nat /\ MaxRuns \in Nat /\ SoonTicks \in Int

ASSUME CasesAssumption ==
  /\ IsFiniteSet(Cases) /\ Scope \cup Closable \subseteq Cases
  /\ DueAt \in [Cases -> Int]

ASSUME ProcessAssumption == Workers \cap Runners = {}

ASSUME RecipientsAssumption ==
  DOMAIN Recipients = {1, 2} /\ \A level \in {1, 2} : IsFiniteSet(Recipients[level])

VARIABLES
  now,
  status,     \* of each case: open, closed, closed past the delay, archived
  retention,  \* its retention date: none, the default, one given by hand
  archiving,  \* archive_case in flight: its case and the date it was given
  enabled,    \* due_alerts_enabled
  sent,       \* the keys of the committed alerts
  recorded,   \* how often each case is recorded as archived by a scan
  session,    \* the transaction of each process
  runs,
  faults

vars == <<now, status, retention, archiving, enabled, sent, recorded, session, runs, faults>>

\* dedupe_key: one alert for each kind, case and day, one escalation for each level, case,
\* recipient and day.
People == UNION {Recipients[level] : level \in {1, 2}}

Days == 0 .. (LastTick + 1) \div 2

Keys ==
  [kind : {"due_soon", "overdue", "level_1", "level_2"}, case : Cases,
   to : People \cup {None}, day : Days]

Session ==
  [began : 0 .. LastTick,
   phase : {"ALERTS", "ESCALATIONS", "RETENTION"},
   on : BOOLEAN,              \* due_alerts_enabled as the scan read it
   todo : Seq(Keys),          \* still to insert, in this order
   seen : SUBSET Keys,        \* all that the transaction had to insert
   mine : SUBSET Keys,        \* inserted, not committed
   closed : SUBSET Cases,     \* read as closed past the delay
   undated : SUBSET Cases]    \* of these, read without a retention date

Archiving == [case : Cases, until : {"none", "explicit"}]

ASSUME NoneAssumption == None \notin Session \cup Archiving

Init ==
  /\ now = 0
  /\ status = [c \in Cases |-> "OPEN"]
  /\ retention = [c \in Cases |-> "none"]
  /\ archiving = None
  /\ enabled = TRUE
  /\ sent = {}
  /\ recorded = [c \in Cases |-> 0]
  /\ session = [p \in Processes |-> None]
  /\ runs = 0
  /\ faults = 0

-----------------------------------------------------------------------------
(***************************************************************************)
(* What is to be told today                                                *)
(***************************************************************************)
\* The clock starts at noon.
Today == (now + 1) \div 2

OpenCases == {c \in Cases : status[c] = "OPEN"}

Late(c) == now > DueAt[c]

DueSoon(c) == ~Late(c) /\ DueAt[c] - now <= SoonTicks

Alert(kind, c) == [kind |-> kind, case |-> c, to |-> None, day |-> Today]

\* Mutant of Alerts: after its first day a late case is left to escalations.
AlertsOfTheDay(cases) ==
  {Alert("overdue", c) : c \in {x \in cases : Late(x) /\ now - DueAt[x] < 2}} \cup
  {Alert("due_soon", c) : c \in {x \in cases : DueSoon(x)}}

Alerts(cases) ==
  {Alert("overdue", c) : c \in {x \in cases : Late(x)}} \cup
  {Alert("due_soon", c) : c \in {x \in cases : DueSoon(x)}}

\* Level 1 after 24 hours, level 2 instead of it after 72.
EscalationLevel(c) ==
  IF now - DueAt[c] >= 6 THEN 2 ELSE IF now - DueAt[c] >= 2 THEN 1 ELSE 0

LevelName == <<"level_1", "level_2">>

Escalations ==
  UNION {{[kind |-> LevelName[EscalationLevel(c)], case |-> c, to |-> r, day |-> Today] :
            r \in Recipients[EscalationLevel(c)]} :
         c \in {x \in OpenCases : EscalationLevel(x) > 0}}

\* Mutant of DueEscalations: a scan escalates even with the alerts off.
AlwaysEscalations(on) == Escalations

\* Escalations when the alerts are switched on.
DueEscalations(on) == IF on THEN Escalations ELSE {}

-----------------------------------------------------------------------------
(***************************************************************************)
(* Transactions and the unique key                                         *)
(***************************************************************************)
Open(p) == session[p] # None

\* Mutant of LockHeldBeyond: the scan takes no lock.
NeverHeld(w) == FALSE

\* pg_try_advisory_xact_lock fails: another worker is scanning.
LockHeldBeyond(w) == \E other \in Workers \ {w} : Open(other)

\* Mutant of WaitsFor: an uncommitted key counts as already sent.
NeverWaits(p, q) == FALSE

\* The transaction whose uncommitted key an insertion waits for.
WaitsFor(p, q) ==
  /\ Open(p) /\ Open(q) /\ p # q
  /\ session[p].todo # <<>>
  /\ Head(session[p].todo) \in session[q].mine

Pending(k) == \E p \in Processes : Open(p) /\ k \in session[p].mine

\* Mutant of Conflicts: the key is not unique.
NeverConflicts(k) == FALSE

\* on_conflict_do_nothing
Conflicts(k) == k \in sent \/ Pending(k)

Started(on, keys, order) ==
  [began |-> now, phase |-> "ALERTS", on |-> on, todo |-> order, seen |-> keys,
   mine |-> {}, closed |-> {}, undated |-> {}]

StartScan(w) ==
  /\ ~Open(w)
  /\ ~LockHeldBeyond(w)
  /\ \E order \in SetToSeqs(IF enabled THEN Alerts(OpenCases) ELSE {}) :
       session' = [session EXCEPT ![w] = Started(enabled, ToSet(order), order)]
  /\ UNCHANGED <<now, status, retention, archiving, enabled, sent, recorded, runs, faults>>

\* run_due_alerts: no lock, whatever the setting, and nothing to do is no step.
StartRun(r) ==
  /\ runs < MaxRuns
  /\ ~Open(r)
  /\ Alerts(OpenCases \cap Scope) # {}
  /\ \E order \in SetToSeqs(Alerts(OpenCases \cap Scope)) :
       session' = [session EXCEPT ![r] = Started(TRUE, ToSet(order), order)]
  /\ runs' = runs + 1
  /\ UNCHANGED <<now, status, retention, archiving, enabled, sent, recorded, faults>>

Insert(p) ==
  /\ Open(p)
  /\ session[p].todo # <<>>
  /\ \A q \in Processes : ~WaitsFor(p, q)
  /\ LET k == Head(session[p].todo) IN
     session' = [session EXCEPT ![p].todo = Tail(@),
                                ![p].mine = IF Conflicts(k) THEN @ ELSE @ \cup {k}]
  /\ UNCHANGED <<now, status, retention, archiving, enabled, sent, recorded, runs, faults>>

\* create_escalations reads the clock and the cases again.
Escalate(w) ==
  /\ Open(w)
  /\ session[w].phase = "ALERTS" /\ session[w].todo = <<>>
  /\ \E order \in SetToSeqs(DueEscalations(session[w].on)) :
       session' = [session EXCEPT ![w].phase = "ESCALATIONS", ![w].todo = order,
                                  ![w].seen = @ \cup ToSet(order)]
  /\ UNCHANGED <<now, status, retention, archiving, enabled, sent, recorded, runs, faults>>

\* Mutant of ReadClosed: every undated case gets a date.
ReadClosedDatingAll(w) ==
  /\ Open(w)
  /\ session[w].phase = "ESCALATIONS" /\ session[w].todo = <<>>
  /\ LET closed == {c \in Cases : status[c] = "PAST_DELAY"} IN
     session' = [session EXCEPT ![w].phase = "RETENTION", ![w].closed = closed,
                                ![w].undated = {c \in Cases : retention[c] = "none"}]
  /\ UNCHANGED <<now, status, retention, archiving, enabled, sent, recorded, runs, faults>>

\* apply_retention_policy: its changes wait for the commit in the session.
ReadClosed(w) ==
  /\ Open(w)
  /\ session[w].phase = "ESCALATIONS" /\ session[w].todo = <<>>
  /\ LET closed == {c \in Cases : status[c] = "PAST_DELAY"} IN
     session' = [session EXCEPT ![w].phase = "RETENTION", ![w].closed = closed,
                                ![w].undated = {c \in closed : retention[c] = "none"}]
  /\ UNCHANGED <<now, status, retention, archiving, enabled, sent, recorded, runs, faults>>

Done(p) ==
  /\ Open(p)
  /\ session[p].todo = <<>>
  /\ session[p].phase = IF p \in Workers THEN "RETENTION" ELSE "ALERTS"

\* Every case the scan archives has a date after it.
Dated(p, c) == IF c \in session[p].undated THEN "default" ELSE retention[c]

Commit(p) ==
  /\ Done(p)
  /\ LET closed == session[p].closed IN
     /\ status' = [c \in Cases |-> IF c \in closed THEN "ARCHIVED" ELSE status[c]]
     /\ retention' = [c \in Cases |-> IF c \in closed THEN Dated(p, c) ELSE retention[c]]
     /\ recorded' = [c \in Cases |-> IF c \in closed THEN recorded[c] + 1 ELSE recorded[c]]
  /\ sent' = sent \cup session[p].mine
  /\ session' = [session EXCEPT ![p] = None]
  /\ UNCHANGED <<now, archiving, enabled, runs, faults>>

Rollback(p) ==
  /\ session' = [session EXCEPT ![p] = None]
  /\ UNCHANGED <<now, status, retention, archiving, enabled, sent, recorded, runs>>

\* An exception anywhere in the scan, the purge included, or a dead process.
Fail(p) ==
  /\ faults < MaxFaults
  /\ Open(p)
  /\ Rollback(p)
  /\ faults' = faults + 1

\* Mutant of BreakDeadlock: the scan waits for ever.
NeverBroken(p) == FALSE /\ UNCHANGED vars

\* The database finds that two transactions wait for each other.
BreakDeadlock(p) ==
  /\ \E q \in Processes : WaitsFor(p, q) /\ WaitsFor(q, p)
  /\ Rollback(p)
  /\ UNCHANGED faults

-----------------------------------------------------------------------------
(***************************************************************************)
(* The cases, the clock and the setting meanwhile                          *)
(***************************************************************************)
Tick ==
  /\ now < LastTick
  /\ \A p \in Processes : Open(p) => session[p].began = now
  /\ now' = now + 1
  /\ UNCHANGED <<status, retention, archiving, enabled, sent, recorded, session, runs, faults>>

CloseCase(c) ==
  /\ c \in Closable
  /\ status[c] = "OPEN"
  /\ status' = [status EXCEPT ![c] = "CLOSED"]
  /\ UNCHANGED <<now, retention, archiving, enabled, sent, recorded, session, runs, faults>>

\* auto_archive_days have passed since closed_at.
DelayPasses(c) ==
  /\ status[c] = "CLOSED"
  /\ status' = [status EXCEPT ![c] = "PAST_DELAY"]
  /\ UNCHANGED <<now, retention, archiving, enabled, sent, recorded, session, runs, faults>>

\* archive_case reads the case, with a date or without.
BeginArchive(c, until) ==
  /\ archiving = None
  /\ status[c] \in {"CLOSED", "PAST_DELAY"}
  /\ archiving' = [case |-> c, until |-> until]
  /\ UNCHANGED <<now, status, retention, enabled, sent, recorded, session, runs, faults>>

\* The commit writes the columns it changed: no date given, none is written.
CommitArchive ==
  /\ archiving # None
  /\ status' = [status EXCEPT ![archiving.case] = "ARCHIVED"]
  /\ retention' = [retention EXCEPT ![archiving.case] =
                    IF archiving.until = "none" THEN @ ELSE archiving.until]
  /\ archiving' = None
  /\ UNCHANGED <<now, enabled, sent, recorded, session, runs, faults>>

SetAlerts(on) ==
  /\ enabled' = on
  /\ UNCHANGED <<now, status, retention, archiving, sent, recorded, session, runs, faults>>

-----------------------------------------------------------------------------
\* What a process does once its transaction is open, when nothing fails.
Progress(p) ==
  \/ Insert(p)
  \/ p \in Workers /\ (Escalate(p) \/ ReadClosed(p))
  \/ Commit(p)
  \/ BreakDeadlock(p)

\* lifecycle_worker
Worker(w) == StartScan(w) \/ Progress(w)

Next ==
  \/ \E w \in Workers : StartScan(w)
  \/ \E r \in Runners : StartRun(r)
  \/ \E p \in Processes : Progress(p) \/ Fail(p)
  \/ \E c \in Cases :
       \/ CloseCase(c)
       \/ DelayPasses(c)
       \/ \E until \in {"none", "explicit"} : BeginArchive(c, until)
  \/ CommitArchive
  \/ Tick
  \/ \E on \in BOOLEAN : SetAlerts(on)

\* The workers loop for ever, one or another, and a run by hand goes on to its
\* end.  Nothing is assumed of the clock, of administrators or of faults.
Fairness ==
  /\ WF_vars(\E w \in Workers : Worker(w))
  /\ WF_vars(\E r \in Runners : Progress(r))

Spec == Init /\ [][Next]_vars /\ Fairness

-----------------------------------------------------------------------------
TypeOK ==
  /\ now \in 0 .. LastTick
  /\ status \in [Cases -> {"OPEN", "CLOSED", "PAST_DELAY", "ARCHIVED"}]
  /\ retention \in [Cases -> {"none", "default", "explicit"}]
  /\ archiving \in Archiving \cup {None}
  /\ enabled \in BOOLEAN
  /\ sent \subseteq Keys
  /\ recorded \in [Cases -> Nat]
  /\ session \in [Processes -> Session \cup {None}]
  /\ \A p \in Processes : Open(p) => session[p].undated \subseteq session[p].closed
  /\ runs \in 0 .. MaxRuns
  /\ faults \in 0 .. MaxFaults

\* Nobody is told twice: a row that waits for its commit has a key that no
\* committed row and no other transaction has, with scans, runs by hand and
\* runs again after a failure on the same day.
OneAlertADay ==
  \A p \in Processes : Open(p) =>
    /\ session[p].mine \cap sent = {}
    /\ \A q \in Processes \ {p} : Open(q) => session[p].mine \cap session[q].mine = {}

\* Nobody is forgotten: what a transaction has passed over is committed or its
\* own, so when it commits every alert it had to send is sent.  An insertion
\* that met the key of another waited until that one was decided.
NoneForgotten ==
  \A p \in Processes : Open(p) =>
    session[p].seen \subseteq sent \cup session[p].mine \cup ToSet(session[p].todo)

\* An escalation never comes before its alert: the overdue alert of the day, or
\* of the day before when the scan ran over midnight, is committed with it at
\* the latest.
EscalatedAfterAlert ==
  \A k \in sent : k.kind \in {"level_1", "level_2"} =>
    \E a \in sent : a.kind = "overdue" /\ a.case = k.case /\ a.day \in {k.day, k.day - 1}

\* The automatic archiving of a case happens once and leaves it a retention
\* date, whoever archives it by hand meanwhile: two workers never archive the
\* same case.
ArchivedOnceWithDate ==
  \A c \in Cases :
    /\ recorded[c] <= 1
    /\ recorded[c] = 1 => status[c] = "ARCHIVED" /\ retention[c] # "none"

\* A closed case past its delay is archived in the end, though scans fail,
\* are skipped or are aborted in a deadlock.
ClosedIsArchived ==
  \A c \in Closable : (status[c] = "PAST_DELAY") ~> (status[c] = "ARCHIVED")

\* A case that is late, and stays open, is told of unless the alerts are
\* switched off before.
LateIsTold ==
  \A c \in Cases \ Closable :
    Late(c) ~> (~enabled \/ \E k \in sent : k.kind = "overdue" /\ k.case = c)

=============================================================================
