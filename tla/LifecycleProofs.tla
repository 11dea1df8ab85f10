-------------------------- MODULE LifecycleProofs ---------------------------
(***************************************************************************)
(* Nobody is told twice, nobody is forgotten, no escalation comes before   *)
(* its alert and no case is archived twice: for any cases, due dates,      *)
(* recipients, workers and runs by hand, and whatever the bounds.  Workers *)
(* exclude each other by the lock; runs by hand and scans share nothing    *)
(* but the unique key of an alert.                                         *)
(***************************************************************************)
EXTENDS Lifecycle, FiniteSetTheorems, SequenceTheorems, TLAPS

-----------------------------------------------------------------------------
(***************************************************************************)
(* The inductive invariant                                                 *)
(***************************************************************************)
\* The advisory lock.
OneScan == \A v, w \in Workers : Open(v) /\ Open(w) => v = w

\* A scan is shorter than a tick.
Short == \A p \in Processes : Open(p) =>
  session[p].began <= now /\ now <= session[p].began + 1

\* Before it escalates, a scan has an overdue alert in hand for every case that
\* is open and was late when it began.
LateAreSeen ==
  \A w \in Workers : Open(w) /\ session[w].phase = "ALERTS" /\ session[w].on =>
    \A c \in OpenCases : session[w].began > DueAt[c] =>
      [kind |-> "overdue", case |-> c, to |-> None, day |-> (session[w].began + 1) \div 2]
        \in session[w].seen

IsEscalation(k) == k.kind \in {"level_1", "level_2"}

Warns(a, k) == a.kind = "overdue" /\ a.case = k.case /\ a.day \in {k.day, k.day - 1}

\* What a transaction escalates, or is about to, it has warned of.
WarnedFirst ==
  \A p \in Processes : Open(p) =>
    \A k \in session[p].mine \cup ToSet(session[p].todo) : IsEscalation(k) =>
      \E a \in sent \cup session[p].mine : Warns(a, k)

\* Only scans archive, and what they read is not archived by another scan.
ReadOnce ==
  \A p \in Processes : Open(p) =>
    /\ p \in Runners => session[p].closed = {}
    /\ \A c \in session[p].closed :
         recorded[c] = 0 /\ (c \in session[p].undated \/ retention[c] # "none")

IInv ==
  /\ TypeOK
  /\ OneScan /\ Short /\ LateAreSeen /\ WarnedFirst /\ ReadOnce
  /\ OneAlertADay /\ NoneForgotten /\ EscalatedAfterAlert /\ ArchivedOnceWithDate

-----------------------------------------------------------------------------
(***************************************************************************)
(* Keys and their orders                                                   *)
(***************************************************************************)
\* An order of finitely many keys has all of them and no other.
LEMMA OrderHasAll ==
  ASSUME NEW S \in SUBSET Keys, IsFiniteSet(S), NEW order \in SetToSeqs(S)
  PROVE  order \in Seq(Keys) /\ ToSet(order) = S
<1> DEFINE n == Cardinality(S)
<1>1. n \in Nat
  BY FS_CardinalityType
<1>2. order \in [1 .. n -> S] /\ \A i, j \in 1 .. n : i # j => order[i] # order[j]
  BY DEF SetToSeqs
<1>3. order \in Injection(1 .. n, S)
  BY <1>2 DEF Injection, IsInjective
<1>4. Cardinality(1 .. n) = n
  BY <1>1, FS_Interval
<1>5. order \in Surjection(1 .. n, S)
  BY <1>3, <1>4, FS_Injection
<1>6. ToSet(order) = S
  BY <1>2, <1>5 DEF ToSet, Surjection
<1> HIDE DEF n
<1>7. order \in Seq(Keys)
  BY <1>1, <1>2
<1> QED
  BY <1>6, <1>7

\* What is left of an order when its first key is inserted.
LEMMA HeadAndTail ==
  ASSUME NEW s \in Seq(Keys), s # <<>>
  PROVE  /\ Head(s) \in Keys /\ Tail(s) \in Seq(Keys)
         /\ ToSet(s) = {Head(s)} \cup ToSet(Tail(s))
<1>1. /\ Head(s) \in Keys /\ Tail(s) \in Seq(Keys) /\ Len(Tail(s)) = Len(s) - 1
      /\ \A i \in 1 .. Len(Tail(s)) : Tail(s)[i] = s[i + 1]
      /\ Head(s) = s[1] /\ Len(s) \in Nat /\ Len(s) > 0
  BY HeadTailProperties, EmptySeq
<1>2. ASSUME NEW k \in ToSet(s)
      PROVE  k \in {Head(s)} \cup ToSet(Tail(s))
  <2>1. PICK i \in 1 .. Len(s) : k = s[i]
    BY <1>2 DEF ToSet
  <2>2. CASE i = 1
    BY <1>1, <2>1, <2>2
  <2>3. CASE i # 1
    <3>1. i - 1 \in 1 .. Len(Tail(s)) /\ Tail(s)[i - 1] = k
      BY <1>1, <2>1, <2>3
    <3>2. i - 1 \in DOMAIN Tail(s)
      BY <1>1, <3>1
    <3> QED
      BY <3>1, <3>2 DEF ToSet
  <2> QED
    BY <2>2, <2>3
<1>3. Head(s) \in ToSet(s)
  BY <1>1 DEF ToSet
<1>4. ASSUME NEW k \in ToSet(Tail(s))
      PROVE  k \in ToSet(s)
  <2>1. PICK i \in 1 .. Len(Tail(s)) : k = Tail(s)[i]
    BY <1>1, <1>4 DEF ToSet
  <2>2. i + 1 \in 1 .. Len(s) /\ s[i + 1] = k
    BY <1>1, <2>1
  <2> QED
    BY <2>2 DEF ToSet
<1> QED
  BY <1>1, <1>2, <1>3, <1>4

\* The keys of an order are keys, and an empty one has none.
LEMMA KeysOfOrder ==
  /\ ToSet(<<>>) = {}
  /\ \A s \in Seq(Keys) : ToSet(s) \subseteq Keys
<1>1. ToSet(<<>>) = {}
  BY DEF ToSet
<1>2. ASSUME NEW s \in Seq(Keys), NEW i \in DOMAIN s
      PROVE  s[i] \in Keys
  OBVIOUS
<1> QED
  BY <1>1, <1>2 DEF ToSet

\* Finitely many alerts, one for a case at most of each kind, and no escalation.
LEMMA AlertsAreKeys ==
  ASSUME NEW cases \in SUBSET Cases, now \in 0 .. LastTick
  PROVE  /\ Alerts(cases) \in SUBSET Keys /\ IsFiniteSet(Alerts(cases))
         /\ \A k \in Alerts(cases) : ~IsEscalation(k)
<1> USE ClockAssumption
<1>1. Today \in Days
  BY DEF Today, Days
<1>2. ASSUME NEW kind \in {"overdue", "due_soon"}, NEW S \in SUBSET Cases
      PROVE  /\ {Alert(kind, c) : c \in S} \subseteq Keys
             /\ IsFiniteSet({Alert(kind, c) : c \in S})
             /\ \A k \in {Alert(kind, c) : c \in S} : ~IsEscalation(k)
  <2> DEFINE T == {Alert(kind, c) : c \in S}
             f == [c \in S |-> Alert(kind, c)]
  <2>1. f \in Surjection(S, T)
    BY DEF Surjection
  <2>2. IsFiniteSet(S)
    BY CasesAssumption, FS_Subset
  <2>3. IsFiniteSet(T)
    <3> HIDE DEF f, T
    <3> QED BY <2>1, <2>2, FS_Surjection
  <2>4. ASSUME NEW c \in S
        PROVE  Alert(kind, c) \in Keys /\ ~IsEscalation(Alert(kind, c))
    <3>1. Alert(kind, c) \in Keys
      BY <1>1 DEF Alert, Keys
    <3>2. Alert(kind, c).kind = kind
      BY DEF Alert
    <3> QED
      BY <3>1, <3>2 DEF IsEscalation
  <2> QED
    BY <2>3, <2>4
<1> DEFINE O == {Alert("overdue", c) : c \in {x \in cases : Late(x)}}
           D == {Alert("due_soon", c) : c \in {x \in cases : DueSoon(x)}}
<1>3. {x \in cases : Late(x)} \in SUBSET Cases /\ {x \in cases : DueSoon(x)} \in SUBSET Cases
  OBVIOUS
<1>4. O \subseteq Keys /\ IsFiniteSet(O) /\ \A k \in O : ~IsEscalation(k)
  BY <1>2, <1>3
<1>5. D \subseteq Keys /\ IsFiniteSet(D) /\ \A k \in D : ~IsEscalation(k)
  BY <1>2, <1>3
<1>6. Alerts(cases) = O \cup D
  BY DEF Alerts
<1> HIDE DEF O, D
<1> QED
  BY <1>4, <1>5, <1>6, FS_Union

\* Finitely many escalations, of open cases that are late by a day at least.
LEMMA EscalationsAreKeys ==
  ASSUME now \in 0 .. LastTick, NEW on \in BOOLEAN
  PROVE  /\ DueEscalations(on) \in SUBSET Keys /\ IsFiniteSet(DueEscalations(on))
         /\ \A k \in DueEscalations(on) :
              on /\ k.case \in OpenCases /\ now - DueAt[k.case] >= 2 /\ k.day = Today
<1> USE ClockAssumption
<1>1. Today \in Days
  BY DEF Today, Days
<1> DEFINE level(c) == EscalationLevel(c)
           key(c, r) == [kind |-> LevelName[level(c)], case |-> c, to |-> r, day |-> Today]
           D == {x \in Cases \X People :
                   /\ x[1] \in OpenCases /\ level(x[1]) > 0 /\ x[2] \in Recipients[level(x[1])]}
           f == [x \in D |-> key(x[1], x[2])]
<1>2. ASSUME NEW c \in Cases
      PROVE  level(c) \in {0, 1, 2} /\ (level(c) > 0 => now - DueAt[c] >= 2)
  <2>1. now - DueAt[c] \in Int
    BY CasesAssumption
  <2> QED
    BY <2>1 DEF EscalationLevel
<1>3. OpenCases \subseteq Cases
  BY DEF OpenCases
<1>4. ASSUME NEW k \in Escalations
      PROVE  \E x \in D : k = key(x[1], x[2])
  <2>1. PICK c \in OpenCases : level(c) > 0 /\ \E r \in Recipients[level(c)] : k = key(c, r)
    BY <1>4 DEF Escalations
  <2>2. PICK r \in Recipients[level(c)] : k = key(c, r)
    BY <2>1
  <2>3. r \in People
    BY <1>2, <1>3, <2>1 DEF People
  <2>4. <<c, r>> \in D
    BY <1>3, <2>1, <2>3
  <2> QED
    BY <2>2, <2>4
<1>5. ASSUME NEW x \in D
      PROVE  /\ key(x[1], x[2]) \in Escalations /\ key(x[1], x[2]) \in Keys
             /\ x[1] \in OpenCases /\ now - DueAt[x[1]] >= 2
  <2>1. x[1] \in OpenCases /\ x[1] \in Cases /\ x[2] \in People /\ level(x[1]) > 0
        /\ x[2] \in Recipients[level(x[1])]
    OBVIOUS
  <2>2. key(x[1], x[2]) \in Escalations
    BY <2>1 DEF Escalations
  <2>3. LevelName[level(x[1])] \in {"level_1", "level_2"}
    <3>1. LevelName[1] = "level_1" /\ LevelName[2] = "level_2"
      BY DEF LevelName
    <3>2. level(x[1]) \in {1, 2}
      BY <1>2, <2>1
    <3> QED
      BY <3>1, <3>2
  <2>4. key(x[1], x[2]) \in Keys
    BY <1>1, <2>1, <2>3 DEF Keys
  <2> QED
    BY <1>2, <2>1, <2>2, <2>4
<1>6. IsFiniteSet(D)
  <2>1. IsFiniteSet(Recipients[1]) /\ IsFiniteSet(Recipients[2])
    BY RecipientsAssumption
  <2>2. People = Recipients[1] \cup Recipients[2]
    BY DEF People
  <2>3. IsFiniteSet(People)
    BY <2>1, <2>2, FS_Union
  <2>4. IsFiniteSet(Cases \X People)
    BY <2>3, CasesAssumption, FS_Product
  <2> QED
    BY <2>4, FS_Subset
<1>7. f \in Surjection(D, Escalations)
  BY <1>4, <1>5 DEF Surjection
<1>8. IsFiniteSet(Escalations)
  <2> HIDE DEF f, D
  <2> QED BY <1>6, <1>7, FS_Surjection
<1>9. \A k \in Escalations :
        k \in Keys /\ k.case \in OpenCases /\ now - DueAt[k.case] >= 2 /\ k.day = Today
  BY <1>4, <1>5
<1> HIDE DEF key, D, f
<1> QED
  BY <1>8, <1>9, FS_EmptySet DEF DueEscalations

-----------------------------------------------------------------------------
(***************************************************************************)
(* One transaction at a time                                               *)
(***************************************************************************)
\* What the invariant asks of the transaction of one process.
Fits(p, s) ==
  /\ s \in Session /\ s.undated \subseteq s.closed
  /\ s.began <= now /\ now <= s.began + 1
  /\ p \in Workers /\ s.phase = "ALERTS" /\ s.on =>
       \A c \in OpenCases : s.began > DueAt[c] =>
         [kind |-> "overdue", case |-> c, to |-> None, day |-> (s.began + 1) \div 2] \in s.seen
  /\ \A k \in s.mine \cup ToSet(s.todo) : IsEscalation(k) =>
       \E a \in sent \cup s.mine : Warns(a, k)
  /\ p \in Runners => s.closed = {}
  /\ \A c \in s.closed : recorded[c] = 0 /\ (c \in s.undated \/ retention[c] # "none")
  /\ s.mine \cap sent = {}
  /\ \A q \in Processes \ {p} : Open(q) => s.mine \cap session[q].mine = {}
  /\ s.seen \subseteq sent \cup s.mine \cup ToSet(s.todo)

\* That is what it asks of each.
LEMMA OpenFits ==
  ASSUME IInv, NEW p \in Processes, Open(p)
  PROVE  Fits(p, session[p])
<1>1. session[p] \in Session
  BY DEF IInv, TypeOK, Open
<1>2. session[p].undated \subseteq session[p].closed
  BY DEF IInv, TypeOK
<1>3. session[p].began <= now /\ now <= session[p].began + 1
  BY DEF IInv, Short
<1>4. p \in Workers /\ session[p].phase = "ALERTS" /\ session[p].on =>
        \A c \in OpenCases : session[p].began > DueAt[c] =>
          [kind |-> "overdue", case |-> c, to |-> None, day |-> (session[p].began + 1) \div 2]
            \in session[p].seen
  BY DEF IInv, LateAreSeen
<1>5. \A k \in session[p].mine \cup ToSet(session[p].todo) : IsEscalation(k) =>
        \E a \in sent \cup session[p].mine : Warns(a, k)
  BY DEF IInv, WarnedFirst
<1>6. /\ p \in Runners => session[p].closed = {}
      /\ \A c \in session[p].closed :
           recorded[c] = 0 /\ (c \in session[p].undated \/ retention[c] # "none")
  BY DEF IInv, ReadOnce
<1>7. /\ session[p].mine \cap sent = {}
      /\ \A q \in Processes \ {p} : Open(q) => session[p].mine \cap session[q].mine = {}
  BY DEF IInv, OneAlertADay
<1>8. session[p].seen \subseteq sent \cup session[p].mine \cup ToSet(session[p].todo)
  BY DEF IInv, NoneForgotten
<1> QED
  BY <1>1, <1>2, <1>3, <1>4, <1>5, <1>6, <1>7, <1>8 DEF Fits

\* A step of one transaction, by which nothing is committed.
LEMMA SessionSteps ==
  ASSUME IInv, NEW p \in Processes, NEW s, Fits(p, s),
         session' = [session EXCEPT ![p] = s],
         p \in Workers => \A w \in Workers \ {p} : ~Open(w),
         UNCHANGED <<now, status, retention, archiving, enabled, sent, recorded, faults>>,
         runs' \in 0 .. MaxRuns
  PROVE  IInv'
<1>1. /\ session \in [Processes -> Session \cup {None}]
      /\ s \in Session /\ s # None
  BY NoneAssumption DEF IInv, TypeOK, Fits
<1>2. /\ session' \in [Processes -> Session \cup {None}] /\ session'[p] = s
      /\ \A q \in Processes \ {p} : session'[q] = session[q]
  BY <1>1
<1>3. \A q \in Processes \ {p} : Open(q)' <=> Open(q)
  BY <1>2 DEF Open
<1>4. TypeOK'
  <2>1. \A q \in Processes : Open(q)' => session'[q].undated \subseteq session'[q].closed
    BY <1>2, <1>3 DEF IInv, TypeOK, Fits
  <2> QED
    BY <1>2, <2>1 DEF IInv, TypeOK
<1>5. OneScan'
  BY <1>3 DEF IInv, OneScan, Processes
<1>6. Short'
  BY <1>2, <1>3 DEF IInv, Short, Fits
<1>7. LateAreSeen'
  <2> SUFFICES ASSUME NEW w \in Workers, Open(w)', session'[w].phase = "ALERTS", session'[w].on,
                      NEW c \in OpenCases, session'[w].began > DueAt[c]
               PROVE  [kind |-> "overdue", case |-> c, to |-> None,
                       day |-> (session'[w].began + 1) \div 2] \in session'[w].seen
    BY DEF LateAreSeen, OpenCases
  <2>1. CASE w = p
    BY <1>2, <2>1 DEF Fits
  <2>2. CASE w # p
    BY <1>2, <1>3, <2>2 DEF IInv, LateAreSeen, Processes
  <2> QED
    BY <2>1, <2>2
<1>8. WarnedFirst'
  <2> SUFFICES ASSUME NEW q \in Processes, Open(q)',
                      NEW k \in session'[q].mine \cup ToSet(session'[q].todo), IsEscalation(k)
               PROVE  \E a \in sent \cup session'[q].mine : Warns(a, k)
    BY DEF WarnedFirst
  <2>1. CASE q = p
    BY <1>2, <2>1 DEF Fits
  <2>2. CASE q # p
    BY <1>2, <1>3, <2>2 DEF IInv, WarnedFirst
  <2> QED
    BY <2>1, <2>2
<1>9. ReadOnce'
  <2> SUFFICES ASSUME NEW q \in Processes, Open(q)'
               PROVE  /\ q \in Runners => session'[q].closed = {}
                      /\ \A c \in session'[q].closed :
                           recorded[c] = 0 /\ (c \in session'[q].undated \/ retention[c] # "none")
    BY DEF ReadOnce
  <2>1. CASE q = p
    BY <1>2, <2>1 DEF Fits
  <2>2. CASE q # p
    BY <1>2, <1>3, <2>2 DEF IInv, ReadOnce
  <2> QED
    BY <2>1, <2>2
<1>10. OneAlertADay'
  <2> SUFFICES ASSUME NEW q \in Processes, Open(q)'
               PROVE  /\ session'[q].mine \cap sent = {}
                      /\ \A o \in Processes \ {q} : Open(o)' =>
                           session'[q].mine \cap session'[o].mine = {}
    BY DEF OneAlertADay
  <2>1. CASE q = p
    BY <1>2, <1>3, <2>1 DEF Fits
  <2>2. CASE q # p
    <3>1. session'[q] = session[q] /\ Open(q)
      BY <1>2, <1>3, <2>2
    <3>2. session[q].mine \cap s.mine = {}
      BY <2>2, <3>1 DEF Fits
    <3> QED
      BY <1>2, <1>3, <3>1, <3>2 DEF IInv, OneAlertADay
  <2> QED
    BY <2>1, <2>2
<1>11. NoneForgotten'
  <2> SUFFICES ASSUME NEW q \in Processes, Open(q)'
               PROVE  session'[q].seen \subseteq
                        sent \cup session'[q].mine \cup ToSet(session'[q].todo)
    BY DEF NoneForgotten
  <2>1. CASE q = p
    BY <1>2, <2>1 DEF Fits
  <2>2. CASE q # p
    BY <1>2, <1>3, <2>2 DEF IInv, NoneForgotten
  <2> QED
    BY <2>1, <2>2
<1>12. EscalatedAfterAlert' /\ ArchivedOnceWithDate'
  BY DEF IInv, EscalatedAfterAlert, ArchivedOnceWithDate
<1> QED
  BY <1>4, <1>5, <1>6, <1>7, <1>8, <1>9, <1>10, <1>11, <1>12 DEF IInv

\* A scan or a run that starts, on alerts of the day.
LEMMA StartFits ==
  ASSUME IInv, NEW p \in Processes, NEW on \in BOOLEAN, NEW keys \in SUBSET Keys,
         IsFiniteSet(keys), NEW order \in SetToSeqs(keys),
         \A k \in keys : ~IsEscalation(k),
         p \in Workers /\ on => keys = Alerts(OpenCases)
  PROVE  Fits(p, Started(on, ToSet(order), order))
<1> USE ClockAssumption
<1>1. order \in Seq(Keys) /\ ToSet(order) = keys
  BY OrderHasAll
<1> DEFINE s == Started(on, ToSet(order), order)
<1>2. now \in 0 .. LastTick
  BY DEF IInv, TypeOK
<1>3. s \in Session
  BY <1>1, <1>2 DEF Started, Session
<1>4. /\ s.began = now /\ s.phase = "ALERTS" /\ s.on = on /\ s.todo = order
      /\ s.seen = keys /\ s.mine = {} /\ s.closed = {} /\ s.undated = {}
  BY <1>1 DEF Started
<1>5. ASSUME p \in Workers, on, NEW c \in OpenCases, now > DueAt[c]
      PROVE  [kind |-> "overdue", case |-> c, to |-> None, day |-> (now + 1) \div 2] \in keys
  <2>1. Alert("overdue", c) \in Alerts(OpenCases)
    BY <1>5 DEF Alerts, Late
  <2> QED
    BY <1>5, <2>1 DEF Alert, Today
<1> HIDE DEF s
<1>6. s.began <= now /\ now <= s.began + 1
  BY <1>2, <1>4
<1>7. p \in Workers /\ s.phase = "ALERTS" /\ s.on =>
        \A c \in OpenCases : s.began > DueAt[c] =>
          [kind |-> "overdue", case |-> c, to |-> None, day |-> (s.began + 1) \div 2] \in s.seen
  BY <1>4, <1>5
<1>8. Fits(p, s)
  BY <1>1, <1>3, <1>4, <1>6, <1>7 DEF Fits
<1> QED
  BY <1>8 DEF s

\* A scan starts when no worker has the lock, a run at any time.
LEMMA Starts ==
  ASSUME IInv,
         \/ \E w \in Workers : StartScan(w)
         \/ \E r \in Runners : StartRun(r)
  PROVE  IInv'
<1>1. now \in 0 .. LastTick /\ runs \in 0 .. MaxRuns /\ enabled \in BOOLEAN /\ MaxRuns \in Nat
  BY ClockAssumption DEF IInv, TypeOK
<1>2. OpenCases \in SUBSET Cases /\ (OpenCases \cap Scope) \in SUBSET Cases
  BY DEF OpenCases
<1>3. ASSUME NEW w \in Workers, StartScan(w)
      PROVE  IInv'
  <2> DEFINE keys == IF enabled THEN Alerts(OpenCases) ELSE {}
  <2>1. PICK order \in SetToSeqs(keys) :
          session' = [session EXCEPT ![w] = Started(enabled, ToSet(order), order)]
    BY <1>3 DEF StartScan
  <2>2. keys \in SUBSET Keys /\ IsFiniteSet(keys) /\ (\A k \in keys : ~IsEscalation(k))
        /\ (enabled => keys = Alerts(OpenCases))
    BY <1>1, <1>2, AlertsAreKeys, FS_EmptySet
  <2>3. w \in Processes
    BY DEF Processes
  <2> HIDE DEF keys
  <2>4. Fits(w, Started(enabled, ToSet(order), order))
    BY <1>1, <2>2, <2>3, StartFits
  <2>5. \A v \in Workers \ {w} : ~Open(v)
    BY <1>3 DEF StartScan, LockHeldBeyond
  <2>6. UNCHANGED <<now, status, retention, archiving, enabled, sent, recorded, runs, faults>>
    BY <1>3 DEF StartScan
  <2> QED
    BY <1>1, <2>1, <2>3, <2>4, <2>5, <2>6, SessionSteps
<1>4. ASSUME NEW r \in Runners, StartRun(r)
      PROVE  IInv'
  <2> DEFINE keys == Alerts(OpenCases \cap Scope)
  <2>1. PICK order \in SetToSeqs(keys) :
          session' = [session EXCEPT ![r] = Started(TRUE, ToSet(order), order)]
    BY <1>4 DEF StartRun
  <2>2. keys \in SUBSET Keys /\ IsFiniteSet(keys) /\ (\A k \in keys : ~IsEscalation(k))
    BY <1>1, <1>2, AlertsAreKeys
  <2>3. r \in Processes /\ r \notin Workers
    BY ProcessAssumption DEF Processes
  <2> HIDE DEF keys
  <2>4. Fits(r, Started(TRUE, ToSet(order), order))
    BY <2>2, <2>3, StartFits
  <2>5. UNCHANGED <<now, status, retention, archiving, enabled, sent, recorded, faults>>
        /\ runs' \in 0 .. MaxRuns
    BY <1>1, <1>4 DEF StartRun
  <2> QED
    BY <2>1, <2>3, <2>4, <2>5, SessionSteps
<1> QED
  BY <1>3, <1>4

\* A transaction with other keys to insert, or inserted.
LEMMA OtherKeys ==
  ASSUME NEW s \in Session, NEW todo \in Seq(Keys), NEW mine \in SUBSET Keys,
         NEW seen \in SUBSET Keys, NEW closed \in SUBSET Cases, NEW undated \in SUBSET Cases
  PROVE  /\ [s EXCEPT !.todo = todo, !.mine = mine] \in Session
         /\ [s EXCEPT !.phase = "ESCALATIONS", !.todo = todo, !.seen = seen] \in Session
         /\ [s EXCEPT !.phase = "RETENTION", !.closed = closed, !.undated = undated] \in Session
BY DEF Session

\* A worker that is open is alone.
LEMMA Alone ==
  ASSUME IInv, NEW p \in Processes, Open(p)
  PROVE  p \in Workers => \A w \in Workers \ {p} : ~Open(w)
BY DEF IInv, OneScan

\* A key is inserted unless another row has it, and nobody else's is pending.
LEMMA Inserts ==
  ASSUME IInv, NEW p \in Processes, Insert(p)
  PROVE  IInv'
<1> DEFINE old == session[p]
           k == Head(old.todo)
           mine == IF Conflicts(k) THEN old.mine ELSE old.mine \cup {k}
           new == [old EXCEPT !.todo = Tail(old.todo), !.mine = mine]
<1>1. Open(p) /\ old.todo # <<>> /\ \A q \in Processes : ~WaitsFor(p, q)
  BY DEF Insert
<1>2. Fits(p, old) /\ old \in Session
  BY <1>1, OpenFits DEF Fits
<1>3. old.todo \in Seq(Keys) /\ old.mine \in SUBSET Keys
  BY <1>2 DEF Session
<1>4. /\ k \in Keys /\ Tail(old.todo) \in Seq(Keys)
      /\ ToSet(old.todo) = {k} \cup ToSet(Tail(old.todo))
  BY <1>1, <1>3, HeadAndTail
<1>5. mine \in SUBSET Keys /\ old.mine \subseteq mine /\ mine \subseteq old.mine \cup {k}
  BY <1>3, <1>4
<1>6. session' = [session EXCEPT ![p] = new]
  BY DEF Insert
<1>7. \A q \in Processes \ {p} : Open(q) => k \notin session[q].mine
  BY <1>1 DEF WaitsFor
<1>8. k \in sent \cup mine
  BY <1>1, <1>7 DEF Conflicts, Pending
<1>9. k \in mine => k \in old.mine \/ k \notin sent
  BY DEF Conflicts
<1>10. new \in Session
  <2> HIDE DEF mine, k, old
  <2> QED BY <1>2, <1>4, <1>5, OtherKeys
<1>11. /\ new.began = old.began /\ new.phase = old.phase /\ new.on = old.on
       /\ new.todo = Tail(old.todo) /\ new.seen = old.seen /\ new.mine = mine
       /\ new.closed = old.closed /\ new.undated = old.undated
  <2> HIDE DEF mine, k
  <2> QED BY <1>2 DEF Session
<1>12. UNCHANGED <<now, status, retention, archiving, enabled, sent, recorded, runs, faults>>
       /\ runs \in 0 .. MaxRuns
  BY DEF Insert, IInv, TypeOK
<1> HIDE DEF old, k, mine, new
<1>13. Fits(p, new)
  <2>1. \A x \in new.mine \cup ToSet(new.todo) : IsEscalation(x) =>
          \E a \in sent \cup new.mine : Warns(a, x)
    BY <1>2, <1>4, <1>5, <1>11 DEF Fits
  <2>2. new.mine \cap sent = {}
        /\ \A q \in Processes \ {p} : Open(q) => new.mine \cap session[q].mine = {}
    BY <1>2, <1>5, <1>7, <1>9, <1>11 DEF Fits
  <2>3. new.seen \subseteq sent \cup new.mine \cup ToSet(new.todo)
    BY <1>2, <1>4, <1>5, <1>8, <1>11 DEF Fits
  <2> QED
    BY <1>2, <1>10, <1>11, <2>1, <2>2, <2>3 DEF Fits
<1> QED
  BY <1>1, <1>6, <1>12, <1>13, Alone, SessionSteps

\* A scan escalates what it has warned of, this day or, over a midnight, the day
\* before.
LEMMA Escalates ==
  ASSUME IInv, NEW w \in Workers, Escalate(w)
  PROVE  IInv'
<1> USE ClockAssumption
<1> DEFINE old == session[w]
           due == DueEscalations(old.on)
<1>1. w \in Processes /\ w \notin Runners /\ Open(w) /\ old.phase = "ALERTS" /\ old.todo = <<>>
  BY ProcessAssumption DEF Escalate, Processes
<1>2. Fits(w, old) /\ old \in Session
  BY <1>1, OpenFits DEF Fits
<1>3. /\ old.on \in BOOLEAN /\ old.mine \in SUBSET Keys /\ old.seen \in SUBSET Keys
      /\ old.began \in 0 .. LastTick /\ now \in 0 .. LastTick
  BY <1>2 DEF Session, IInv, TypeOK
<1>4. /\ due \in SUBSET Keys /\ IsFiniteSet(due)
      /\ \A k \in due :
           old.on /\ k.case \in OpenCases /\ now - DueAt[k.case] >= 2 /\ k.day = Today
  BY <1>3, EscalationsAreKeys
<1>5. PICK order \in SetToSeqs(due) :
        session' = [session EXCEPT ![w].phase = "ESCALATIONS", ![w].todo = order,
                                   ![w].seen = @ \cup ToSet(order)]
  BY DEF Escalate
<1>6. order \in Seq(Keys) /\ ToSet(order) = due
  <2> HIDE DEF due
  <2> QED BY <1>4, OrderHasAll
<1> DEFINE seen == old.seen \cup ToSet(order)
           new == [old EXCEPT !.phase = "ESCALATIONS", !.todo = order, !.seen = seen]
<1>7. session' = [session EXCEPT ![w] = new]
  BY <1>5
<1>8. seen \in SUBSET Keys
  BY <1>3, <1>4, <1>6
<1> HIDE DEF due
<1>9. new \in Session
  <2> HIDE DEF seen, old
  <2> QED BY <1>2, <1>6, <1>8, OtherKeys
<1>10. /\ new.began = old.began /\ new.phase = "ESCALATIONS" /\ new.on = old.on
       /\ new.todo = order /\ new.seen = seen /\ new.mine = old.mine
       /\ new.closed = old.closed /\ new.undated = old.undated
  <2> HIDE DEF seen
  <2> QED BY <1>2 DEF Session
<1>11. old.seen \subseteq sent \cup old.mine
  BY <1>1, <1>2, KeysOfOrder DEF Fits
<1>12. ASSUME NEW k \in due
       PROVE  \E a \in sent \cup old.mine : Warns(a, k)
  <2> DEFINE c == k.case
             a == [kind |-> "overdue", case |-> c, to |-> None, day |-> (old.began + 1) \div 2]
  <2>1. /\ old.on /\ c \in OpenCases /\ c \in Cases /\ DueAt[c] \in Int
        /\ now - DueAt[c] >= 2 /\ k.day = Today
    BY <1>4, CasesAssumption DEF OpenCases
  <2>2. old.began <= now /\ now <= old.began + 1
    BY <1>2 DEF Fits
  <2>3. old.began > DueAt[c]
    BY <1>3, <2>1, <2>2
  <2>4. a \in old.seen
    BY <1>1, <1>2, <2>1, <2>3 DEF Fits
  <2>5. (old.began + 1) \div 2 \in {Today, Today - 1}
    BY <1>3, <2>2 DEF Today
  <2>6. Warns(a, k)
    BY <2>1, <2>5 DEF Warns
  <2> QED
    BY <1>11, <2>4, <2>6
<1>13. UNCHANGED <<now, status, retention, archiving, enabled, sent, recorded, runs, faults>>
       /\ runs \in 0 .. MaxRuns
  BY DEF Escalate, IInv, TypeOK
<1> HIDE DEF old, new, seen
<1>14. Fits(w, new)
  <2>1. \A x \in new.mine \cup ToSet(new.todo) : IsEscalation(x) =>
          \E a \in sent \cup new.mine : Warns(a, x)
    BY <1>2, <1>6, <1>10, <1>12 DEF Fits
  <2>2. new.seen \subseteq sent \cup new.mine \cup ToSet(new.todo)
    BY <1>10, <1>11 DEF seen
  <2> QED
    BY <1>1, <1>2, <1>9, <1>10, <2>1, <2>2 DEF Fits
<1> QED
  BY <1>1, <1>7, <1>13, <1>14, Alone, SessionSteps

\* A scan reads the cases that are closed past the delay: none is recorded.
LEMMA ReadsClosed ==
  ASSUME IInv, NEW w \in Workers, ReadClosed(w)
  PROVE  IInv'
<1> DEFINE old == session[w]
           closed == {c \in Cases : status[c] = "PAST_DELAY"}
           undated == {c \in closed : retention[c] = "none"}
           new == [old EXCEPT !.phase = "RETENTION", !.closed = closed, !.undated = undated]
<1>1. w \in Processes /\ w \notin Runners /\ Open(w)
  BY ProcessAssumption DEF ReadClosed, Processes
<1>2. Fits(w, old) /\ old \in Session
  BY <1>1, OpenFits DEF Fits
<1>3. session' = [session EXCEPT ![w] = new]
  BY DEF ReadClosed
<1>4. closed \in SUBSET Cases /\ undated \in SUBSET Cases /\ undated \subseteq closed
  OBVIOUS
<1>5. \A c \in closed : recorded[c] = 0 /\ (c \in undated \/ retention[c] # "none")
  <2> SUFFICES ASSUME NEW c \in Cases, status[c] = "PAST_DELAY"
               PROVE  recorded[c] = 0
    OBVIOUS
  <2>1. recorded[c] \in Nat /\ recorded[c] <= 1
    BY DEF IInv, ArchivedOnceWithDate, TypeOK
  <2>2. recorded[c] # 1
    BY DEF IInv, ArchivedOnceWithDate
  <2> QED
    BY <2>1, <2>2
<1> HIDE DEF closed, undated
<1>6. new \in Session
  <2>1. old.todo \in Seq(Keys) /\ old.mine \in SUBSET Keys /\ old.seen \in SUBSET Keys
    BY <1>2 DEF Session
  <2> HIDE DEF old
  <2> QED BY <1>2, <1>4, <2>1, OtherKeys
<1>7. /\ new.began = old.began /\ new.phase = "RETENTION" /\ new.on = old.on
      /\ new.todo = old.todo /\ new.seen = old.seen /\ new.mine = old.mine
      /\ new.closed = closed /\ new.undated = undated
  BY <1>2 DEF Session
<1>8. UNCHANGED <<now, status, retention, archiving, enabled, sent, recorded, runs, faults>>
      /\ runs \in 0 .. MaxRuns
  BY DEF ReadClosed, IInv, TypeOK
<1> HIDE DEF old, new
<1>9. Fits(w, new)
  BY <1>1, <1>2, <1>4, <1>5, <1>6, <1>7 DEF Fits
<1> QED
  BY <1>1, <1>3, <1>8, <1>9, Alone, SessionSteps

-----------------------------------------------------------------------------
(***************************************************************************)
(* The end of a transaction                                                *)
(***************************************************************************)
\* What of the invariant is about transactions that stay open holds when one
\* ends, if more is sent and the cases that others have read stay as they are.
LEMMA EndKeeps ==
  ASSUME IInv, NEW p \in Processes, session' = [session EXCEPT ![p] = None],
         UNCHANGED <<now, archiving, enabled, runs>>, faults' \in 0 .. MaxFaults,
         status' \in [Cases -> {"OPEN", "CLOSED", "PAST_DELAY", "ARCHIVED"}],
         retention' \in [Cases -> {"none", "default", "explicit"}],
         recorded' \in [Cases -> Nat],
         sent \subseteq sent', sent' \subseteq Keys, OpenCases' \subseteq OpenCases,
         \A q \in Processes \ {p} : Open(q) =>
           /\ session[q].mine \cap sent' = {}
           /\ \A c \in session[q].closed :
                recorded'[c] = recorded[c] /\ (retention[c] # "none" => retention'[c] # "none"),
         EscalatedAfterAlert', ArchivedOnceWithDate'
  PROVE  IInv'
<1>1. /\ session' \in [Processes -> Session \cup {None}] /\ ~Open(p)'
      /\ \A q \in Processes \ {p} : session'[q] = session[q]
  BY DEF IInv, TypeOK, Open
<1>2. \A q \in Processes : Open(q)' => Open(q) /\ q # p /\ session'[q] = session[q]
  BY <1>1 DEF Open
<1>3. TypeOK'
  BY <1>1, <1>2 DEF IInv, TypeOK
<1>4. OneScan'
  BY <1>2 DEF IInv, OneScan, Processes
<1>10. Short'
  BY <1>2 DEF IInv, Short
<1>5. LateAreSeen'
  BY <1>2 DEF IInv, LateAreSeen, Processes
<1>6. WarnedFirst'
  BY <1>2 DEF IInv, WarnedFirst
<1>7. ReadOnce'
  <2> SUFFICES ASSUME NEW q \in Processes, Open(q)'
               PROVE  /\ q \in Runners => session'[q].closed = {}
                      /\ \A c \in session'[q].closed :
                           recorded'[c] = 0 /\ (c \in session'[q].undated \/ retention'[c] # "none")
    BY DEF ReadOnce
  <2>1. Open(q) /\ q # p /\ session'[q] = session[q]
    BY <1>2
  <2> QED
    BY <2>1 DEF IInv, ReadOnce
<1>8. OneAlertADay'
  BY <1>2 DEF IInv, OneAlertADay
<1>9. NoneForgotten'
  <2> SUFFICES ASSUME NEW q \in Processes, Open(q)'
               PROVE  session'[q].seen \subseteq
                        sent' \cup session'[q].mine \cup ToSet(session'[q].todo)
    BY DEF NoneForgotten
  <2>1. Open(q) /\ session'[q] = session[q]
    BY <1>2
  <2> QED
    BY <2>1 DEF IInv, NoneForgotten
<1> QED
  BY <1>3, <1>4, <1>5, <1>6, <1>7, <1>8, <1>9, <1>10 DEF IInv

\* A failure or a deadlock undoes a transaction.
LEMMA Rollbacks ==
  ASSUME IInv, NEW p \in Processes, Rollback(p), faults' \in 0 .. MaxFaults
  PROVE  IInv'
<1>1. /\ session' = [session EXCEPT ![p] = None]
      /\ UNCHANGED <<now, status, retention, archiving, enabled, sent, recorded, runs>>
  BY DEF Rollback
<1>2. EscalatedAfterAlert' /\ ArchivedOnceWithDate' /\ OpenCases' = OpenCases
  BY <1>1 DEF IInv, EscalatedAfterAlert, ArchivedOnceWithDate, OpenCases
<1>3. \A q \in Processes \ {p} : Open(q) => session[q].mine \cap sent = {}
  BY DEF IInv, OneAlertADay
<1>4. /\ status \in [Cases -> {"OPEN", "CLOSED", "PAST_DELAY", "ARCHIVED"}]
      /\ retention \in [Cases -> {"none", "default", "explicit"}]
      /\ recorded \in [Cases -> Nat] /\ sent \subseteq Keys
  BY DEF IInv, TypeOK
<1> QED
  BY <1>1, <1>2, <1>3, <1>4, EndKeeps

\* A commit sends what was inserted, and archives what was read, which nobody
\* else had read.
LEMMA Commits ==
  ASSUME IInv, NEW p \in Processes, Commit(p)
  PROVE  IInv'
<1> DEFINE s == session[p]
<1>1. Open(p) /\ s.todo = <<>>
  BY DEF Commit, Done
<1>2. Fits(p, s) /\ s \in Session
  BY <1>1, OpenFits DEF Fits
<1>3. s.closed \in SUBSET Cases /\ s.mine \in SUBSET Keys
  BY <1>2 DEF Session
<1>4. /\ status \in [Cases -> {"OPEN", "CLOSED", "PAST_DELAY", "ARCHIVED"}]
      /\ retention \in [Cases -> {"none", "default", "explicit"}]
      /\ recorded \in [Cases -> Nat] /\ sent \subseteq Keys /\ faults \in 0 .. MaxFaults
  BY DEF IInv, TypeOK
<1>5. /\ status' = [c \in Cases |-> IF c \in s.closed THEN "ARCHIVED" ELSE status[c]]
      /\ retention' = [c \in Cases |-> IF c \in s.closed THEN Dated(p, c) ELSE retention[c]]
      /\ recorded' = [c \in Cases |-> IF c \in s.closed THEN recorded[c] + 1 ELSE recorded[c]]
      /\ sent' = sent \cup s.mine
      /\ session' = [session EXCEPT ![p] = None]
      /\ UNCHANGED <<now, archiving, enabled, runs, faults>>
  BY DEF Commit
<1>6. \A c \in Cases : Dated(p, c) \in {"default", retention[c]}
  BY DEF Dated
<1>7. ASSUME NEW c \in s.closed
      PROVE  recorded[c] = 0 /\ Dated(p, c) # "none"
  BY <1>2 DEF Fits, Dated
<1> HIDE DEF s
<1>8. status' \in [Cases -> {"OPEN", "CLOSED", "PAST_DELAY", "ARCHIVED"}]
  BY <1>4, <1>5
<1>9. retention' \in [Cases -> {"none", "default", "explicit"}]
  BY <1>4, <1>5, <1>6
<1>10. recorded' \in [Cases -> Nat]
  BY <1>4, <1>5
<1>11. sent \subseteq sent' /\ sent' \subseteq Keys
  BY <1>3, <1>4, <1>5
<1>12. OpenCases' \subseteq OpenCases
  BY <1>5 DEF OpenCases
<1>13. ASSUME NEW q \in Processes \ {p}, Open(q)
       PROVE  /\ session[q].mine \cap sent' = {}
              /\ \A c \in session[q].closed :
                   recorded'[c] = recorded[c] /\ (retention[c] # "none" => retention'[c] # "none")
  <2>1. Fits(q, session[q])
    BY <1>13, OpenFits
  <2>2. session[q].mine \cap sent' = {}
    BY <1>1, <1>5, <2>1 DEF Fits, s
  <2>3. session[q].closed = {} \/ s.closed = {}
    <3>1. p \in Runners \/ q \in Runners
      BY <1>1, <1>13 DEF IInv, OneScan, Processes
    <3> QED
      BY <1>2, <2>1, <3>1 DEF Fits
  <2>4. session[q].closed \subseteq Cases
    <3>1. session[q] \in Session
      BY <2>1 DEF Fits
    <3> QED
      BY <3>1 DEF Session
  <2>5. \A c \in session[q].closed :
          recorded'[c] = recorded[c] /\ (retention[c] # "none" => retention'[c] # "none")
    BY <1>5, <2>3, <2>4
  <2> QED
    BY <2>2, <2>5
<1>14. EscalatedAfterAlert'
  <2> SUFFICES ASSUME NEW k \in sent', IsEscalation(k)
               PROVE  \E a \in sent' : Warns(a, k)
    BY DEF EscalatedAfterAlert, IsEscalation, Warns
  <2>1. CASE k \in sent
    BY <1>11, <2>1 DEF IInv, EscalatedAfterAlert, IsEscalation, Warns
  <2>2. CASE k \in s.mine
    BY <1>2, <1>5, <2>2 DEF Fits
  <2> QED
    BY <1>5, <2>1, <2>2
<1>15. ArchivedOnceWithDate'
  <2> SUFFICES ASSUME NEW c \in Cases
               PROVE  /\ recorded'[c] <= 1
                      /\ recorded'[c] = 1 => status'[c] = "ARCHIVED" /\ retention'[c] # "none"
    BY DEF ArchivedOnceWithDate
  <2>1. CASE c \in s.closed
    BY <1>5, <1>7, <2>1
  <2>2. CASE c \notin s.closed
    BY <1>5, <2>2 DEF IInv, ArchivedOnceWithDate
  <2> QED
    BY <2>1, <2>2
<1> QED
  BY <1>4, <1>5, <1>8, <1>9, <1>10, <1>11, <1>12, <1>13, <1>14, <1>15, EndKeeps

-----------------------------------------------------------------------------
(***************************************************************************)
(* The cases, the clock and the setting meanwhile                          *)
(***************************************************************************)
\* The clock waits for every transaction that is open.
LEMMA Ticks ==
  ASSUME IInv, Tick
  PROVE  IInv'
<1> USE ClockAssumption
<1>1. UNCHANGED <<status, retention, archiving, enabled, sent, recorded, session, runs, faults>>
      /\ now' = now + 1 /\ now < LastTick /\ now \in 0 .. LastTick
      /\ \A p \in Processes : Open(p) => session[p].began = now
  BY DEF Tick, IInv, TypeOK
<1>2. now' \in 0 .. LastTick
  BY <1>1
<1>3. TypeOK'
  BY <1>1, <1>2 DEF IInv, TypeOK, Open
<1>4. Short'
  BY <1>1 DEF Short, Open
<1>5. OneScan' /\ LateAreSeen'
  BY <1>1 DEF IInv, OneScan, LateAreSeen, Open, OpenCases
<1>6. WarnedFirst'
  BY <1>1 DEF IInv, WarnedFirst, Open
<1>7. ReadOnce'
  BY <1>1 DEF IInv, ReadOnce, Open
<1>8. OneAlertADay' /\ NoneForgotten'
  BY <1>1 DEF IInv, OneAlertADay, NoneForgotten, Open
<1>9. EscalatedAfterAlert' /\ ArchivedOnceWithDate'
  BY <1>1 DEF IInv, EscalatedAfterAlert, ArchivedOnceWithDate
<1> QED
  BY <1>3, <1>4, <1>5, <1>6, <1>7, <1>8, <1>9 DEF IInv

\* No case is opened again, loses its date or leaves the archive.
LEMMA CasesMove ==
  ASSUME IInv,
         status' \in [Cases -> {"OPEN", "CLOSED", "PAST_DELAY", "ARCHIVED"}],
         retention' \in [Cases -> {"none", "default", "explicit"}],
         archiving' \in Archiving \cup {None}, enabled' \in BOOLEAN,
         OpenCases' \subseteq OpenCases,
         \A c \in Cases : /\ status[c] = "ARCHIVED" => status'[c] = "ARCHIVED"
                          /\ retention[c] # "none" => retention'[c] # "none",
         UNCHANGED <<now, sent, recorded, session, runs, faults>>
  PROVE  IInv'
<1>1. TypeOK'
  BY DEF IInv, TypeOK, Open
<1>2. OneScan' /\ Short'
  BY DEF IInv, OneScan, Short, Open
<1>3. LateAreSeen'
  BY DEF IInv, LateAreSeen, Open
<1>4. WarnedFirst'
  BY DEF IInv, WarnedFirst, Open
<1>5. ReadOnce'
  <2> SUFFICES ASSUME NEW p \in Processes, Open(p), NEW c \in session[p].closed
               PROVE  recorded[c] = 0 /\ (c \in session[p].undated \/ retention'[c] # "none")
    BY DEF IInv, ReadOnce, Open
  <2>1. session[p] \in Session
    BY DEF IInv, TypeOK, Open
  <2>2. c \in Cases
    BY <2>1 DEF Session
  <2> QED
    BY <2>2 DEF IInv, ReadOnce
<1>6. OneAlertADay'
  BY DEF IInv, OneAlertADay, Open
<1>7. NoneForgotten'
  BY DEF IInv, NoneForgotten, Open
<1>8. EscalatedAfterAlert' /\ ArchivedOnceWithDate'
  BY DEF IInv, EscalatedAfterAlert, ArchivedOnceWithDate
<1> QED
  BY <1>1, <1>2, <1>3, <1>4, <1>5, <1>6, <1>7, <1>8 DEF IInv

\* They close, pass the delay and are archived by hand meanwhile.
LEMMA Meanwhile ==
  ASSUME IInv,
         \/ \E c \in Cases :
              \/ CloseCase(c)
              \/ DelayPasses(c)
              \/ \E until \in {"none", "explicit"} : BeginArchive(c, until)
         \/ CommitArchive
         \/ \E on \in BOOLEAN : SetAlerts(on)
  PROVE  IInv'
<1>0. /\ status \in [Cases -> {"OPEN", "CLOSED", "PAST_DELAY", "ARCHIVED"}]
      /\ retention \in [Cases -> {"none", "default", "explicit"}]
      /\ archiving \in Archiving \cup {None} /\ enabled \in BOOLEAN
  BY DEF IInv, TypeOK
<1>1. ASSUME NEW c \in Cases, NEW old \in {"OPEN", "CLOSED"}, NEW new \in {"CLOSED", "PAST_DELAY"},
             status[c] = old, status' = [status EXCEPT ![c] = new],
             UNCHANGED <<now, retention, archiving, enabled, sent, recorded, session, runs, faults>>
      PROVE  IInv'
  <2>1. status' \in [Cases -> {"OPEN", "CLOSED", "PAST_DELAY", "ARCHIVED"}]
    BY <1>0, <1>1
  <2>2. OpenCases' \subseteq OpenCases
    BY <1>0, <1>1 DEF OpenCases
  <2>3. \A x \in Cases : status[x] = "ARCHIVED" => status'[x] = "ARCHIVED"
    BY <1>0, <1>1
  <2> QED
    BY <1>0, <1>1, <2>1, <2>2, <2>3, CasesMove
<1>2. ASSUME NEW c \in Cases, CloseCase(c)
      PROVE  IInv'
  BY <1>1, <1>2 DEF CloseCase
<1>3. ASSUME NEW c \in Cases, DelayPasses(c)
      PROVE  IInv'
  BY <1>1, <1>3 DEF DelayPasses
<1>4. ASSUME NEW c \in Cases, NEW until \in {"none", "explicit"}, BeginArchive(c, until)
      PROVE  IInv'
  <2>1. [case |-> c, until |-> until] \in Archiving
    BY DEF Archiving
  <2>2. /\ archiving' \in Archiving \cup {None} /\ OpenCases' = OpenCases
        /\ UNCHANGED <<now, status, retention, enabled, sent, recorded, session, runs, faults>>
    BY <1>4, <2>1 DEF BeginArchive, OpenCases
  <2> QED
    BY <1>0, <2>2, CasesMove
<1>5. ASSUME CommitArchive
      PROVE  IInv'
  <2> DEFINE c == archiving.case
             date == IF archiving.until = "none" THEN retention[c] ELSE archiving.until
  <2>1. c \in Cases /\ archiving.until \in {"none", "explicit"}
    BY <1>0, <1>5 DEF CommitArchive, Archiving
  <2>2. /\ status' = [status EXCEPT ![c] = "ARCHIVED"]
        /\ retention' = [retention EXCEPT ![c] = date]
        /\ archiving' = None
        /\ UNCHANGED <<now, enabled, sent, recorded, session, runs, faults>>
    BY <1>5 DEF CommitArchive
  <2>3. date \in {"none", "default", "explicit"} /\ (retention[c] # "none" => date # "none")
    BY <1>0, <2>1
  <2> HIDE DEF c, date
  <2>4. /\ status' \in [Cases -> {"OPEN", "CLOSED", "PAST_DELAY", "ARCHIVED"}]
        /\ retention' \in [Cases -> {"none", "default", "explicit"}]
    BY <1>0, <2>1, <2>2, <2>3
  <2>5. OpenCases' \subseteq OpenCases
    BY <1>0, <2>1, <2>2 DEF OpenCases
  <2>6. \A x \in Cases : /\ status[x] = "ARCHIVED" => status'[x] = "ARCHIVED"
                         /\ retention[x] # "none" => retention'[x] # "none"
    BY <1>0, <2>1, <2>2, <2>3
  <2> QED
    BY <1>0, <2>2, <2>4, <2>5, <2>6, CasesMove
<1>6. ASSUME NEW on \in BOOLEAN, SetAlerts(on)
      PROVE  IInv'
  <2>1. enabled' \in BOOLEAN /\ OpenCases' = OpenCases
        /\ UNCHANGED <<now, status, retention, archiving, sent, recorded, session, runs, faults>>
    BY <1>6 DEF SetAlerts, OpenCases
  <2> QED
    BY <1>0, <2>1, CasesMove
<1> QED
  BY <1>2, <1>3, <1>4, <1>5, <1>6

-----------------------------------------------------------------------------
(***************************************************************************)
(* What holds of the specification                                         *)
(***************************************************************************)
\* At first nothing is closed, sent or open.
LEMMA InitIInv == Init => IInv
<1> SUFFICES ASSUME Init PROVE IInv
  OBVIOUS
<1>1. \A p \in Processes : ~Open(p)
  BY DEF Init, Open
<1>2. TypeOK
  BY <1>1, ClockAssumption DEF Init, TypeOK
<1>3. OneScan /\ Short /\ LateAreSeen /\ WarnedFirst /\ ReadOnce
  BY <1>1 DEF OneScan, Short, LateAreSeen, WarnedFirst, ReadOnce, Processes
<1>4. OneAlertADay /\ NoneForgotten
  BY <1>1 DEF OneAlertADay, NoneForgotten
<1>5. EscalatedAfterAlert /\ ArchivedOnceWithDate
  BY DEF Init, EscalatedAfterAlert, ArchivedOnceWithDate
<1> QED
  BY <1>2, <1>3, <1>4, <1>5 DEF IInv

\* Every step keeps the invariant.
LEMMA NextIInv == IInv /\ [Next]_vars => IInv'
<1> SUFFICES ASSUME IInv, [Next]_vars PROVE IInv'
  OBVIOUS
<1>1. ASSUME \/ \E w \in Workers : StartScan(w)
             \/ \E r \in Runners : StartRun(r)
      PROVE  IInv'
  BY <1>1, Starts
<1>2. ASSUME NEW p \in Processes, Progress(p)
      PROVE  IInv'
  <2>1. CASE Insert(p)
    BY <2>1, Inserts
  <2>2. CASE p \in Workers /\ Escalate(p)
    BY <2>2, Escalates
  <2>3. CASE p \in Workers /\ ReadClosed(p)
    BY <2>3, ReadsClosed
  <2>4. CASE Commit(p)
    BY <2>4, Commits
  <2>5. CASE BreakDeadlock(p)
    <3>1. Rollback(p) /\ faults' \in 0 .. MaxFaults
      BY <2>5 DEF BreakDeadlock, IInv, TypeOK
    <3> QED
      BY <3>1, Rollbacks
  <2> QED
    BY <1>2, <2>1, <2>2, <2>3, <2>4, <2>5 DEF Progress
<1>3. ASSUME NEW p \in Processes, Fail(p)
      PROVE  IInv'
  <2>1. Rollback(p) /\ faults' = faults + 1 /\ faults < MaxFaults /\ faults \in 0 .. MaxFaults
    BY <1>3 DEF Fail, IInv, TypeOK
  <2>2. faults' \in 0 .. MaxFaults
    BY <2>1, ClockAssumption
  <2> QED
    BY <2>1, <2>2, Rollbacks
<1>4. ASSUME \/ \E c \in Cases :
                  \/ CloseCase(c)
                  \/ DelayPasses(c)
                  \/ \E until \in {"none", "explicit"} : BeginArchive(c, until)
             \/ CommitArchive
             \/ \E on \in BOOLEAN : SetAlerts(on)
      PROVE  IInv'
  BY <1>4, Meanwhile
<1>5. CASE Tick
  BY <1>5, Ticks
<1>6. CASE UNCHANGED vars
  <2>1. /\ UNCHANGED <<now, sent, recorded, session, runs, faults, status, retention,
                       archiving, enabled>>
        /\ OpenCases' = OpenCases
    BY <1>6 DEF vars, OpenCases
  <2>2. /\ status \in [Cases -> {"OPEN", "CLOSED", "PAST_DELAY", "ARCHIVED"}]
        /\ retention \in [Cases -> {"none", "default", "explicit"}]
        /\ archiving \in Archiving \cup {None} /\ enabled \in BOOLEAN
    BY DEF IInv, TypeOK
  <2> QED
    BY <2>1, <2>2, CasesMove
<1> QED
  BY <1>1, <1>2, <1>3, <1>4, <1>5, <1>6 DEF Next

\* In every state reached, what each open transaction has read, inserted and
\* still to insert fits what is committed.
THEOREM InvariantHolds == Spec => []IInv
BY InitIInv, NextIInv, PTL DEF Spec

\* The types, whatever has happened.
THEOREM TypesHold == Spec => []TypeOK
<1>1. IInv => TypeOK
  BY DEF IInv
<1> QED
  BY <1>1, InvariantHolds, PTL

\* However many scans and runs by hand overlap, fail and start again in a day,
\* no key is sent that was sent or is about to be.
THEOREM OneAlertADayHolds == Spec => []OneAlertADay
<1>1. IInv => OneAlertADay
  BY DEF IInv
<1> QED
  BY <1>1, InvariantHolds, PTL

\* Every alert that a transaction had to send is sent when it commits, by it or
\* by the one that it waited for.
THEOREM NoneForgottenHolds == Spec => []NoneForgotten
<1>1. IInv => NoneForgotten
  BY DEF IInv
<1> QED
  BY <1>1, InvariantHolds, PTL

\* No escalation is sent before the overdue alert of its day or of the day
\* before.
THEOREM EscalatedAfterAlertHolds == Spec => []EscalatedAfterAlert
<1>1. IInv => EscalatedAfterAlert
  BY DEF IInv
<1> QED
  BY <1>1, InvariantHolds, PTL

\* A case is archived by a scan once at most, and has a retention date then.
THEOREM ArchivedOnceWithDateHolds == Spec => []ArchivedOnceWithDate
<1>1. IInv => ArchivedOnceWithDate
  BY DEF IInv
<1> QED
  BY <1>1, InvariantHolds, PTL

=============================================================================
