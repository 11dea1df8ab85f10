--------------------------- MODULE AccountsProofs ---------------------------
(***************************************************************************)
(* One usable link for an account, one account for an address, and no      *)
(* change of a password but by a link: for any accounts, institutions,     *)
(* addresses and changes, any number of requests at a time, and whatever   *)
(* the bounds.  What carries it is the row that issuing and using a link   *)
(* hold FOR UPDATE: what such a request has read of its account is still   *)
(* so when it commits.                                                     *)
(***************************************************************************)
EXTENDS Accounts, FiniteSetTheorems, TLAPS

-----------------------------------------------------------------------------
(***************************************************************************)
(* The inductive invariant                                                 *)
(***************************************************************************)
OnAccount ==
  {"login", "fail", "refresh", "revoke", "update", "close", "issue", "complete"}

Holder == {"issue", "complete"}

\* Writing these columns over any row leaves a row.
Fits(writes) == \A row \in Row : Written(row, writes) \in Row

\* What a request carries.  Only a reset writes a password, and a password is
\* never further than the links that were issued.
RequestOK(t) ==
  /\ Op(t) \in OnAccount \cup {"none", "bootstrap", "institution"}
  /\ Op(t) = "institution" =>
       tx[t].institution \in Institutions /\ tx[t].status \in {"ACTIVE", "SUSPENDED"}
  /\ Op(t) = "bootstrap" =>
       /\ tx[t].user \in Users /\ tx[t].writes \in Row /\ tx[t].writes.password = 0
       /\ tx[t].session = 0 /\ tx[t].marks = {}
  /\ Op(t) \in OnAccount =>
       /\ tx[t].user \in Users /\ Exists(tx[t].user)
       /\ tx[t].session \in Sessions \cup {0}
       /\ tx[t].marks \subseteq Links
       /\ \A l \in tx[t].marks : link[l].user = tx[t].user
       /\ Fits(tx[t].writes)
       /\ "password" \in DOMAIN tx[t].writes =>
            Op(t) = "complete" /\ tx[t].writes["password"] <= Len(link)

\* A request that holds the row of an account is alone to hold it, has marked
\* every link that is open, and if it uses one that link is still open and was
\* issued for what the account still is.
HolderOK(t) ==
  Op(t) \in Holder =>
    /\ \A other \in Requests \ {t} : Op(other) \in Holder => tx[other].user # tx[t].user
    /\ \A l \in Links : link[l].user = tx[t].user /\ link[l].open => l \in tx[t].marks
    /\ Op(t) = "complete" =>
         \E l \in Links :
           /\ link[l].user = tx[t].user /\ link[l].open
           /\ link[l].identity = Identity(user[tx[t].user])

LinkRecord == [user : Users, identity : (0 .. MaxLinks) \X Emails, open : BOOLEAN]

\* The rows, without the requests.
RowsOK ==
  /\ user \in [Users -> Row \cup {None}]
  /\ institution \in [Institutions -> {"ABSENT", "ACTIVE", "SUSPENDED"}]
  /\ owner \in Seq(Users) /\ Len(owner) <= MaxSessions
  /\ \A s \in Sessions : Exists(owner[s])
  /\ live \subseteq Sessions
  /\ barred \subseteq Users
  /\ changes \in 0 .. MaxChanges

\* A link was issued for a password that fewer links than it preceded.
LinksOK ==
  /\ link \in Seq(LinkRecord) /\ Len(link) <= MaxLinks
  /\ \A l \in Links : link[l].identity[1] < l
  /\ \A l, m \in Links :
       link[l].user = link[m].user /\ link[l].open /\ link[m].open => l = m
  /\ \A u \in Users : Exists(u) => user[u].password <= Len(link)

RequestsOK ==
  /\ tx = [t \in Requests |-> tx[t]]
  /\ \A t \in Requests : RequestOK(t) /\ HolderOK(t)

IInv == RowsOK /\ LinksOK /\ RequestsOK /\ AddressesDiffer

-----------------------------------------------------------------------------
(***************************************************************************)
(* Rows and the columns that are written over them                         *)
(***************************************************************************)
\* A row whose every column is that of one of two rows is a row.
LEMMA MixedIsRow ==
  ASSUME NEW r \in Row, NEW s \in Row, NEW m, m = [f \in DOMAIN r |-> m[f]],
         \A f \in DOMAIN r : m[f] \in {r[f], s[f]}
  PROVE  m \in Row
BY DEF Row

\* Of columns that fit, those that differ from a row fit.
LEMMA DifferingFits ==
  ASSUME NEW old \in Row, NEW values, Fits(values)
  PROVE  Fits(Differing(old, values))
<1> SUFFICES ASSUME NEW row \in Row
             PROVE  Written(row, Differing(old, values)) \in Row
  BY DEF Fits
<1> DEFINE some == Written(row, Differing(old, values))
           all == Written(row, values)
<1>1. all \in Row
  BY DEF Fits
<1>2. some = [f \in DOMAIN row |-> some[f]]
  BY DEF Written
<1>3. ASSUME NEW f \in DOMAIN row
      PROVE  some[f] \in {row[f], all[f]}
  BY DEF Written, Differing
<1> QED
  BY <1>1, <1>2, <1>3, MixedIsRow

\* No columns at all fit.
LEMMA NothingFits == Fits(<<>>) /\ "password" \notin DOMAIN <<>>
BY DEF Fits, Written, Row

\* What a log-in and a failed one set.
LEMMA FailsFit ==
  ASSUME NEW n \in 0 .. Threshold
  PROVE  Fits([fails |-> n]) /\ Fits([fails |-> n, status |-> "LOCKED"])
BY DEF Fits, Written, Row

\* What a reset sets.
LEMMA ResetFits ==
  ASSUME NEW p \in 0 .. MaxLinks
  PROVE  Fits([password |-> p, fails |-> 0, status |-> "ACTIVE"])
<1>1. 0 \in 0 .. Threshold
  BY BoundsAssumption
<1> QED
  BY <1>1 DEF Fits, Written, Row

\* What is written over the columns that the properties are about.
LEMMA WrittenColumns ==
  ASSUME NEW row \in Row, NEW writes
  PROVE  /\ Written(row, writes).email \in {row.email} \cup
              {writes[f] : f \in {"email"} \cap DOMAIN writes}
         /\ "password" \notin DOMAIN writes => Written(row, writes).password = row.password
         /\ "password" \in DOMAIN writes => Written(row, writes).password = writes["password"]
BY DEF Row, Written

\* The row of an account that exists.
LEMMA RowOf ==
  ASSUME RowsOK, NEW u \in Users, Exists(u)
  PROVE  user[u] \in Row
BY DEF RowsOK, Exists

-----------------------------------------------------------------------------
(***************************************************************************)
(* A request begins                                                        *)
(***************************************************************************)
\* What a new request may carry is all there is to check of it.
LEMMA BeginKeeps ==
  ASSUME IInv, NEW t \in Requests, NEW request, Begin(t, request),
         changes' \in 0 .. MaxChanges, RequestOK(t)', HolderOK(t)'
  PROVE  IInv'
<1>1. UNCHANGED <<user, institution, owner, live, link, barred>>
  BY DEF Begin
<1>2. RowsOK' /\ LinksOK' /\ AddressesDiffer'
  BY <1>1 DEF IInv, RowsOK, LinksOK, AddressesDiffer, Exists, Sessions, Links
<1>3. tx' = [o \in Requests |-> tx'[o]] /\ \A o \in Requests \ {t} : tx'[o] = tx[o]
  BY DEF Begin, IInv, RequestsOK
<1>4. ASSUME NEW o \in Requests \ {t}
      PROVE  RequestOK(o)'
  BY <1>1, <1>3 DEF IInv, RequestsOK, RequestOK, Op, Exists, Sessions, Links
<1>5. ASSUME NEW o \in Requests \ {t}
      PROVE  HolderOK(o)'
  <2>1. HolderOK(o) /\ Op(o)' = Op(o) /\ tx'[o] = tx[o]
    BY <1>3 DEF IInv, RequestsOK, Op
  <2> SUFFICES ASSUME Op(o) \in Holder
               PROVE  HolderOK(o)'
    BY <2>1 DEF HolderOK
  <2>2. ASSUME NEW other \in Requests \ {o}, Op(other)' \in Holder
        PROVE  tx'[other].user # tx'[o].user
    <3>1. CASE other = t
      BY <2>1, <2>2, <3>1 DEF HolderOK
    <3>2. CASE other # t
      BY <1>3, <2>1, <2>2, <3>2 DEF HolderOK, Op
    <3> QED
      BY <3>1, <3>2
  <2> QED
    BY <1>1, <2>1, <2>2 DEF HolderOK, Links, Identity
<1> QED
  BY <1>2, <1>3, <1>4, <1>5 DEF IInv, RequestsOK

\* A request on an account that exists.
LEMMA BeginOnAccount ==
  ASSUME IInv, NEW t \in Requests, NEW op \in OnAccount, NEW u \in Users, Exists(u),
         NEW writes, Fits(writes), "password" \notin DOMAIN writes,
         NEW session \in Sessions \cup {0}, op \notin Holder,
         Begin(t, [op |-> op, user |-> u, writes |-> writes, session |-> session, marks |-> {}]),
         changes' \in 0 .. MaxChanges
  PROVE  IInv'
<1> DEFINE r == [op |-> op, user |-> u, writes |-> writes, session |-> session, marks |-> {}]
<1>1. tx'[t] = r /\ UNCHANGED <<user, owner, link>>
  BY DEF Begin, IInv, RequestsOK
<1>2. Op(t)' \in {"none", op}
  BY <1>1 DEF Op
<1>3. RequestOK(t)'
  BY <1>1, <1>2 DEF RequestOK, OnAccount, Exists, Sessions, Links
<1>4. HolderOK(t)'
  BY <1>2 DEF HolderOK, Holder
<1> QED
  BY <1>3, <1>4, BeginKeeps

\* A request that takes the row of the account FOR UPDATE.
LEMMA BeginHolding ==
  ASSUME IInv, NEW t \in Requests, NEW op \in Holder, NEW u \in Users, Exists(u),
         NEW writes, Fits(writes), ~HeldBeyond(t, u),
         "password" \in DOMAIN writes => op = "complete" /\ writes["password"] <= Len(link),
         op = "complete" =>
           \E l \in Links :
             link[l].user = u /\ link[l].open /\ link[l].identity = Identity(user[u]),
         Begin(t, [op |-> op, user |-> u, writes |-> writes, session |-> 0,
                   marks |-> OpenLinks(u)]),
         changes' \in 0 .. MaxChanges
  PROVE  IInv'
<1> DEFINE r == [op |-> op, user |-> u, writes |-> writes, session |-> 0,
                 marks |-> OpenLinks(u)]
<1>1. tx'[t] = r /\ UNCHANGED <<user, owner, link>>
      /\ \A o \in Requests \ {t} : tx'[o] = tx[o]
  BY DEF Begin, IInv, RequestsOK
<1>2. Op(t)' \in {"none", op} /\ op \in OnAccount
  BY <1>1 DEF Op, Holder, OnAccount
<1>3. /\ tx'[t].marks \subseteq Links
      /\ \A l \in tx'[t].marks : link[l].user = u
  BY <1>1 DEF OpenLinks
<1>4. RequestOK(t)'
  BY <1>1, <1>2, <1>3 DEF RequestOK, Holder, OnAccount, Exists, Sessions, Links
<1>5. \A other \in Requests \ {t} : Op(other)' \in Holder => tx'[other].user # u
  BY <1>1 DEF HeldBeyond, Holder, Op
<1>6. \A l \in Links : link[l].user = u /\ link[l].open => l \in tx'[t].marks
  BY <1>1 DEF OpenLinks
<1>7. HolderOK(t)'
  BY <1>1, <1>2, <1>5, <1>6 DEF HolderOK, Links, Identity
<1> QED
  BY <1>4, <1>7, BeginKeeps

\* The request that a session makes.
LEMMA OfSession ==
  ASSUME NEW op, NEW u, NEW s
  PROVE  [Request(op, u, <<>>) EXCEPT !.session = s] =
           [op |-> op, user |-> u, writes |-> <<>>, session |-> s, marks |-> {}]
<1>1. ASSUME NEW r, r = [f \in {"op", "user", "writes", "session", "marks"} |-> r[f]],
             r.op = op, r.user = u, r.writes = <<>>, r.marks = {}
      PROVE  [r EXCEPT !.session = s] =
               [op |-> op, user |-> u, writes |-> <<>>, session |-> s, marks |-> {}]
  <2> DEFINE e == [r EXCEPT !.session = s]
  <2>1. e = [f \in {"op", "user", "writes", "session", "marks"} |-> e[f]]
    BY <1>1
  <2>2. e.op = op /\ e.user = u /\ e.writes = <<>> /\ e.session = s /\ e.marks = {}
    BY <1>1
  <2> HIDE DEF e
  <2>3. e = [op |-> op, user |-> u, writes |-> <<>>, session |-> s, marks |-> {}]
    BY <2>1, <2>2
  <2> QED
    BY <2>3 DEF e
<1> QED
  BY <1>1 DEF Request

\* Any request that begins keeps the invariant.
LEMMA SessionBegins ==
  ASSUME IInv, NEW t \in Requests, SessionStep(t)
  PROVE  IInv'
<1> USE BoundsAssumption
<1>0. RowsOK /\ changes \in 0 .. MaxChanges
  BY DEF IInv, RowsOK
<1>1. ASSUME NEW u \in Users, BeginLogin(t, u)
      PROVE  IInv'
  <2> DEFINE writes == Differing(user[u], [fails |-> 0])
  <2>1. Exists(u) /\ user[u] \in Row
    BY <1>0, <1>1, RowOf DEF BeginLogin, MayAct
  <2>2. Fits([fails |-> 0])
    <3>1. 0 \in 0 .. Threshold
      OBVIOUS
    <3> QED
      BY <3>1, FailsFit
  <2>3. Fits(writes)
    BY <2>1, <2>2, DifferingFits
  <2>4. "password" \notin DOMAIN writes
    BY DEF Differing
  <2>5. Begin(t, [op |-> "login", user |-> u, writes |-> writes, session |-> 0, marks |-> {}])
    BY <1>1 DEF BeginLogin, Request
  <2>6. changes' = changes
    BY <1>1 DEF BeginLogin
  <2> HIDE DEF writes
  <2> QED
    BY <1>0, <2>1, <2>3, <2>4, <2>5, <2>6, BeginOnAccount DEF OnAccount, Holder
<1>2. ASSUME NEW u \in Users, BeginFailedLogin(t, u)
      PROVE  IInv'
  <2> DEFINE n == AtMost(Threshold, user[u].fails + 1)
             values == IF n = Threshold THEN [fails |-> n, status |-> "LOCKED"] ELSE [fails |-> n]
             writes == Differing(user[u], values)
  <2>1. Exists(u) /\ user[u] \in Row
    BY <1>0, <1>2, RowOf DEF BeginFailedLogin
  <2>2. n \in 0 .. Threshold
    BY <2>1 DEF Row, AtMost
  <2>3. Fits(values) /\ "password" \notin DOMAIN values
    <3> HIDE DEF n
    <3>1. Fits([fails |-> n]) /\ Fits([fails |-> n, status |-> "LOCKED"])
      BY <2>2, FailsFit
    <3> QED
      BY <3>1
  <2>4. Fits(writes) /\ "password" \notin DOMAIN writes
    <3> HIDE DEF values
    <3> QED BY <2>1, <2>3, DifferingFits DEF Differing
  <2>5. Begin(t, [op |-> "fail", user |-> u, writes |-> writes, session |-> 0, marks |-> {}])
    BY <1>2 DEF BeginFailedLogin, Request
  <2>6. changes' = changes
    BY <1>2 DEF BeginFailedLogin
  <2> HIDE DEF writes
  <2> QED
    BY <1>0, <2>1, <2>4, <2>5, <2>6, BeginOnAccount DEF OnAccount, Holder
<1>3. ASSUME NEW s \in Sessions, NEW op \in {"refresh", "revoke"},
             Begin(t, [Request(op, owner[s], <<>>) EXCEPT !.session = s]), changes' = changes
      PROVE  IInv'
  <2>1. owner[s] \in Users /\ Exists(owner[s])
    BY <1>0, <1>3 DEF RowsOK, Sessions
  <2>2. Begin(t, [op |-> op, user |-> owner[s], writes |-> <<>>, session |-> s, marks |-> {}])
    BY <1>3, OfSession
  <2> QED
    BY <1>0, <1>3, <2>1, <2>2, NothingFits, BeginOnAccount DEF OnAccount, Holder
<1>4. ASSUME NEW s \in Sessions, BeginRefresh(t, s)
      PROVE  IInv'
  BY <1>3, <1>4 DEF BeginRefresh
<1>5. ASSUME NEW s \in Sessions, BeginLogout(t, s)
      PROVE  IInv'
  BY <1>3, <1>5 DEF BeginLogout
<1> QED
  BY <1>1, <1>2, <1>4, <1>5 DEF SessionStep

\* An administrator's request, or the first administrator's, begins.
LEMMA AdminBegins ==
  ASSUME IInv, NEW t \in Requests, AdminStep(t)
  PROVE  IInv'
<1> USE BoundsAssumption
<1>0. RowsOK /\ changes \in 0 .. MaxChanges
  BY DEF IInv, RowsOK
<1>a. OneMoreChange => changes' \in 0 .. MaxChanges
  BY <1>0 DEF OneMoreChange
<1>1. ASSUME NEW u \in Users, NEW i \in Institutions, NEW email \in Emails,
             BeginBootstrap(t, u, i, email)
      PROVE  IInv'
  <2> DEFINE row == NewRow("SYSTEM_ADMIN", i, email)
             r == Request("bootstrap", u, row)
  <2>1. row \in Row /\ row.password = 0
    BY DEF NewRow, Row
  <2>2. Begin(t, r) /\ changes' = changes
    BY <1>1 DEF BeginBootstrap
  <2>3. tx'[t] = r
    BY <2>2 DEF Begin, IInv, RequestsOK
  <2>4. Op(t)' \in {"none", "bootstrap"}
    BY <2>3 DEF Op, Request
  <2> HIDE DEF row
  <2>5. RequestOK(t)' /\ HolderOK(t)'
    BY <2>1, <2>3, <2>4 DEF RequestOK, HolderOK, Holder, Request, OnAccount
  <2> QED
    BY <1>0, <2>2, <2>5, BeginKeeps
<1>2. ASSUME NEW a \in Users, NEW u \in Users, NEW change \in Changes,
             BeginUpdateUser(t, a, u, change)
      PROVE  IInv'
  <2> DEFINE writes == Differing(user[u], change)
             op == IF Gives(change, "status", {"LOCKED", "DISABLED"}) THEN "close" ELSE "update"
  <2>1. Exists(u) /\ user[u] \in Row
    BY <1>0, <1>2, RowOf DEF BeginUpdateUser
  <2>2. Fits(change) /\ "password" \notin DOMAIN change
    BY ChangesAssumption DEF Fits
  <2>3. Fits(writes) /\ "password" \notin DOMAIN writes
    BY <2>1, <2>2, DifferingFits DEF Differing
  <2>4. Begin(t, [op |-> op, user |-> u, writes |-> writes, session |-> 0, marks |-> {}])
    BY <1>2 DEF BeginUpdateUser, Request
  <2>5. changes' \in 0 .. MaxChanges
    BY <1>a, <1>2 DEF BeginUpdateUser
  <2>6. op \in OnAccount /\ op \notin Holder
    BY DEF OnAccount, Holder
  <2> HIDE DEF writes, op
  <2> QED
    BY <2>1, <2>3, <2>4, <2>5, <2>6, BeginOnAccount
<1>3. ASSUME NEW i \in Institutions, NEW status \in {"ACTIVE", "SUSPENDED"},
             BeginUpdateInstitution(t, i, status)
      PROVE  IInv'
  <2> DEFINE r == [op |-> "institution", institution |-> i, status |-> status]
  <2>1. Begin(t, r) /\ changes' \in 0 .. MaxChanges
    BY <1>a, <1>3 DEF BeginUpdateInstitution
  <2>2. tx'[t] = r
    BY <2>1 DEF Begin, IInv, RequestsOK
  <2>3. Op(t)' \in {"none", "institution"}
    BY <2>2 DEF Op
  <2>4. RequestOK(t)' /\ HolderOK(t)'
    BY <2>2, <2>3 DEF RequestOK, HolderOK, Holder, OnAccount
  <2> QED
    BY <2>1, <2>4, BeginKeeps
<1> QED
  BY <1>1, <1>2, <1>3 DEF AdminStep

\* A link is asked for, or used.
LEMMA RecoveryBegins ==
  ASSUME IInv, NEW t \in Requests, RecoveryStep(t)
  PROVE  IInv'
<1> USE BoundsAssumption
<1>0. RowsOK /\ changes \in 0 .. MaxChanges
  BY DEF IInv, RowsOK
<1>1. ASSUME NEW u \in Users, BeginIssue(t, u)
      PROVE  IInv'
  <2>1. Exists(u) /\ ~HeldBeyond(t, u) /\ changes' = changes
    BY <1>1 DEF BeginIssue, Recoverable
  <2>2. Begin(t, [op |-> "issue", user |-> u, writes |-> <<>>, session |-> 0,
                  marks |-> OpenLinks(u)])
    BY <1>1 DEF BeginIssue, Request
  <2> QED
    BY <1>0, <2>1, <2>2, NothingFits, BeginHolding DEF Holder
<1>2. ASSUME NEW l \in Links, BeginComplete(t, l)
      PROVE  IInv'
  <2> DEFINE u == link[l].user
             p == user[u].password + 1
             values == [password |-> p, fails |-> 0, status |-> "ACTIVE"]
             writes == Differing(user[u], values)
  <2>1. link[l] \in LinkRecord /\ u \in Users /\ Len(link) \in Nat /\ Len(link) <= MaxLinks
    <3>1. link \in Seq(LinkRecord) /\ Len(link) <= MaxLinks
      BY DEF IInv, LinksOK
    <3>2. link[l] \in LinkRecord /\ Len(link) \in Nat
      BY <3>1 DEF Links
    <3> QED
      BY <3>1, <3>2 DEF LinkRecord
  <2>2. Exists(u) /\ user[u] \in Row /\ ~HeldBeyond(t, u) /\ changes' = changes
    BY <1>0, <1>2, <2>1, RowOf DEF BeginComplete, Recoverable
  <2>3. link[l].user = u /\ link[l].open /\ link[l].identity = Identity(user[u])
    BY <1>2 DEF BeginComplete, OpenLinks
  <2>4. p \in 0 .. MaxLinks /\ p <= Len(link)
    <3>1. link[l].identity[1] = user[u].password /\ link[l].identity[1] < l
      BY <2>3 DEF Identity, IInv, LinksOK
    <3>2. l \in 1 .. Len(link) /\ user[u].password \in Nat
      BY <2>2 DEF Links, Row
    <3> QED
      BY <2>1, <3>1, <3>2
  <2>5. Begin(t, [op |-> "complete", user |-> u, writes |-> writes, session |-> 0,
                  marks |-> OpenLinks(u)])
    BY <1>2 DEF BeginComplete, Request
  <2> HIDE DEF p
  <2>6. Fits(values)
    BY <2>4, ResetFits
  <2>7. Fits(writes)
    <3> HIDE DEF values
    <3> QED BY <2>2, <2>6, DifferingFits
  <2>8. "password" \in DOMAIN writes => writes["password"] <= Len(link)
    BY <2>4 DEF Differing
  <2> HIDE DEF writes, u
  <2> QED
    BY <1>0, <2>1, <2>2, <2>3, <2>5, <2>7, <2>8, BeginHolding DEF Holder
<1> QED
  BY <1>1, <1>2 DEF RecoveryStep

-----------------------------------------------------------------------------
(***************************************************************************)
(* A request ends, and steps that are no request                           *)
(***************************************************************************)
\* A request that is gone leaves the others as they were.
LEMMA EndKeeps ==
  ASSUME IInv, NEW t \in Requests, End(t), UNCHANGED <<user, owner, link>>
  PROVE  RequestsOK'
<1>1. tx' = [o \in Requests |-> tx'[o]] /\ \A o \in Requests : tx'[o] \in {tx[o], None}
  BY DEF End, IInv, RequestsOK
<1>2. ASSUME NEW o \in Requests
      PROVE  Op(o)' = "none" \/ (Op(o)' = Op(o) /\ tx'[o] = tx[o])
  BY <1>1 DEF Op
<1>3. ASSUME NEW o \in Requests
      PROVE  RequestOK(o)'
  BY <1>2 DEF IInv, RequestsOK, RequestOK, OnAccount, Exists, Sessions, Links
<1>4. ASSUME NEW o \in Requests
      PROVE  HolderOK(o)'
  <2> SUFFICES ASSUME Op(o)' \in Holder
               PROVE  HolderOK(o)'
    BY DEF HolderOK
  <2>1. Op(o)' = Op(o) /\ tx'[o] = tx[o] /\ HolderOK(o)
    BY <1>2 DEF Holder, IInv, RequestsOK
  <2>2. \A other \in Requests : Op(other)' \in Holder =>
          Op(other) \in Holder /\ tx'[other] = tx[other]
    BY <1>2 DEF Holder
  <2> QED
    BY <2>1, <2>2 DEF HolderOK, Links, Identity
<1> QED
  BY <1>1, <1>3, <1>4 DEF RequestsOK

\* When an institution's status or the sessions alone change.
LEMMA SessionsShrink ==
  ASSUME IInv, institution' \in [Institutions -> {"ABSENT", "ACTIVE", "SUSPENDED"}],
         live' \subseteq live, changes' \in 0 .. MaxChanges,
         UNCHANGED <<user, owner, link, barred>>
  PROVE  RowsOK' /\ LinksOK' /\ AddressesDiffer' /\ (UNCHANGED tx => RequestsOK')
<1>1. RowsOK' /\ LinksOK' /\ AddressesDiffer'
  BY DEF IInv, RowsOK, LinksOK, AddressesDiffer, Exists, Sessions, Links
<1>2. ASSUME UNCHANGED tx
      PROVE  RequestsOK'
  <2>1. ASSUME NEW o \in Requests
        PROVE  RequestOK(o)'
    BY <1>2 DEF IInv, RequestsOK, RequestOK, Op, Exists, Sessions, Links
  <2>2. ASSUME NEW o \in Requests
        PROVE  HolderOK(o)'
    <3>1. HolderOK(o)
      BY DEF IInv, RequestsOK
    <3> QED
      BY <1>2, <3>1 DEF HolderOK, Op, Links, Identity
  <2> QED
    BY <1>2, <2>1, <2>2 DEF IInv, RequestsOK
<1> QED
  BY <1>1, <1>2

\* Such steps keep the invariant.
LEMMA SmallSteps ==
  ASSUME IInv,
         \/ \E t \in Requests : Abort(t) \/ CommitUpdateInstitution(t)
         \/ \E i \in Institutions : CreateInstitution(i)
         \/ \E u \in Users : RevokeSessions(u)
         \/ \E s \in Sessions : ExpireSession(s)
         \/ UNCHANGED vars
  PROVE  IInv'
<1> USE BoundsAssumption
<1>0. /\ institution \in [Institutions -> {"ABSENT", "ACTIVE", "SUSPENDED"}]
      /\ changes \in 0 .. MaxChanges
  BY DEF IInv, RowsOK
<1>1. ASSUME NEW t \in Requests, Abort(t)
      PROVE  IInv'
  BY <1>0, <1>1, SessionsShrink, EndKeeps DEF Abort, IInv
<1>2. ASSUME NEW t \in Requests, CommitUpdateInstitution(t)
      PROVE  IInv'
  <2>1. tx[t].institution \in Institutions /\ tx[t].status \in {"ACTIVE", "SUSPENDED"}
    BY <1>2 DEF CommitUpdateInstitution, IInv, RequestsOK, RequestOK
  <2>2. institution' \in [Institutions -> {"ABSENT", "ACTIVE", "SUSPENDED"}]
    BY <1>0, <1>2, <2>1 DEF CommitUpdateInstitution
  <2>3. live' \subseteq live
    BY <1>2 DEF CommitUpdateInstitution
  <2>4. End(t) /\ UNCHANGED <<user, owner, link, barred, changes>>
    BY <1>2 DEF CommitUpdateInstitution
  <2> QED
    BY <1>0, <2>2, <2>3, <2>4, SessionsShrink, EndKeeps DEF IInv
<1>3. ASSUME NEW i \in Institutions, CreateInstitution(i)
      PROVE  IInv'
  <2>1. /\ institution' \in [Institutions -> {"ABSENT", "ACTIVE", "SUSPENDED"}]
        /\ changes' \in 0 .. MaxChanges
    BY <1>0, <1>3 DEF CreateInstitution, OneMoreChange
  <2> QED
    BY <1>3, <2>1, SessionsShrink DEF CreateInstitution, IInv
<1>4. ASSUME NEW u \in Users, RevokeSessions(u)
      PROVE  IInv'
  BY <1>0, <1>4, SessionsShrink DEF RevokeSessions, IInv
<1>5. ASSUME NEW s \in Sessions, ExpireSession(s)
      PROVE  IInv'
  BY <1>0, <1>5, SessionsShrink DEF ExpireSession, IInv
<1>6. CASE UNCHANGED vars
  BY <1>0, <1>6, SessionsShrink DEF vars, IInv
<1> QED
  BY <1>1, <1>2, <1>3, <1>4, <1>5, <1>6

\* An account comes into existence, with an address that nobody has.
LEMMA AccountAppears ==
  ASSUME IInv, NEW u \in Users, ~Exists(u), NEW row \in Row, row.password = 0,
         ~EmailTaken(u, row.email), user' = [user EXCEPT ![u] = row],
         institution' \in [Institutions -> {"ABSENT", "ACTIVE", "SUSPENDED"}],
         changes' \in 0 .. MaxChanges, UNCHANGED <<owner, live, link, barred>>
  PROVE  /\ RowsOK' /\ LinksOK' /\ AddressesDiffer'
         /\ \A v \in Users : Exists(v) => Exists(v)' /\ user'[v] = user[v]
<1>1. user \in [Users -> Row \cup {None}] /\ row # None
  BY RowAssumption DEF IInv, RowsOK
<1>2. user' \in [Users -> Row \cup {None}] /\ user'[u] = row
      /\ \A v \in Users \ {u} : user'[v] = user[v]
  BY <1>1
<1>3. \A v \in Users : Exists(v) => Exists(v)' /\ user'[v] = user[v]
  BY <1>1, <1>2 DEF Exists
<1>4. \A v \in Users : Exists(v)' => v = u \/ Exists(v)
  BY <1>2 DEF Exists
<1>5. RowsOK'
  BY <1>2, <1>3 DEF IInv, RowsOK, Sessions
<1>6. LinksOK'
  <2>1. Len(link) \in Nat
    BY DEF IInv, LinksOK
  <2> QED
    BY <1>2, <1>4, <2>1 DEF IInv, LinksOK, Links
<1>7. AddressesDiffer'
  BY <1>2, <1>4 DEF IInv, AddressesDiffer, EmailTaken
<1> QED
  BY <1>3, <1>5, <1>6, <1>7

\* The two ways it does keep the invariant.
LEMMA Creations ==
  ASSUME IInv,
         \/ \E t \in Requests : CommitBootstrap(t)
         \/ \E a, u \in Users, role \in Grantable, i \in Institutions, email \in Emails :
              CreateUser(a, u, role, i, email)
  PROVE  IInv'
<1> USE BoundsAssumption
<1>0. /\ institution \in [Institutions -> {"ABSENT", "ACTIVE", "SUSPENDED"}]
      /\ changes \in 0 .. MaxChanges
  BY DEF IInv, RowsOK
<1>1. ASSUME NEW t \in Requests, CommitBootstrap(t)
      PROVE  IInv'
  <2> DEFINE u == tx[t].user
             row == tx[t].writes
  <2>1. u \in Users /\ row \in Row /\ row.password = 0
    BY <1>1 DEF CommitBootstrap, IInv, RequestsOK, RequestOK
  <2>2. /\ ~Exists(u) /\ ~EmailTaken(u, row.email) /\ user' = [user EXCEPT ![u] = row]
        /\ institution' = [institution EXCEPT ![row.inst] = "ACTIVE"]
        /\ End(t) /\ UNCHANGED <<owner, live, link, barred, changes>>
    BY <1>1 DEF CommitBootstrap
  <2>3. institution' \in [Institutions -> {"ABSENT", "ACTIVE", "SUSPENDED"}]
    BY <1>0, <2>2
  <2>4. RowsOK' /\ LinksOK' /\ AddressesDiffer'
        /\ \A v \in Users : Exists(v) => Exists(v)' /\ user'[v] = user[v]
    <3> HIDE DEF u, row
    <3> QED BY <1>0, <2>1, <2>2, <2>3, AccountAppears
  <2>5. tx' = [o \in Requests |-> tx'[o]] /\ \A o \in Requests : tx'[o] \in {tx[o], None}
    BY <2>2 DEF End, IInv, RequestsOK
  <2>6. ASSUME NEW o \in Requests
        PROVE  Op(o)' = "none" \/ (Op(o)' = Op(o) /\ tx'[o] = tx[o])
    BY <2>5 DEF Op
  <2>7. ASSUME NEW o \in Requests
        PROVE  RequestOK(o)'
    BY <2>2, <2>4, <2>6 DEF IInv, RequestsOK, RequestOK, OnAccount, Sessions, Links
  <2>8. ASSUME NEW o \in Requests
        PROVE  HolderOK(o)'
    <3> SUFFICES ASSUME Op(o)' \in Holder
                 PROVE  HolderOK(o)'
      BY DEF HolderOK
    <3>1. Op(o)' = Op(o) /\ tx'[o] = tx[o] /\ HolderOK(o) /\ RequestOK(o)
      BY <2>6 DEF Holder, IInv, RequestsOK
    <3>2. \A other \in Requests : Op(other)' \in Holder =>
            Op(other) \in Holder /\ tx'[other] = tx[other]
      BY <2>6 DEF Holder
    <3>3. user'[tx[o].user] = user[tx[o].user]
      BY <2>4, <3>1 DEF RequestOK, Holder, OnAccount
    <3> QED
      BY <2>2, <3>1, <3>2, <3>3 DEF HolderOK, Links, Identity
  <2> QED
    BY <2>4, <2>5, <2>7, <2>8 DEF IInv, RequestsOK
<1>2. ASSUME NEW a \in Users, NEW u \in Users, NEW role \in Grantable,
             NEW i \in Institutions, NEW email \in Emails, CreateUser(a, u, role, i, email)
      PROVE  IInv'
  <2> DEFINE row == NewRow(role, i, email)
  <2>1. row \in Row /\ row.password = 0 /\ row.email = email
    BY RowAssumption DEF NewRow, Row
  <2>2. /\ ~Exists(u) /\ ~EmailTaken(u, email) /\ user' = [user EXCEPT ![u] = row]
        /\ UNCHANGED <<institution, owner, live, link, tx, barred>>
    BY <1>2 DEF CreateUser
  <2>3. changes' \in 0 .. MaxChanges
    BY <1>0, <1>2 DEF CreateUser, OneMoreChange
  <2>4. RowsOK' /\ LinksOK' /\ AddressesDiffer'
        /\ \A v \in Users : Exists(v) => Exists(v)' /\ user'[v] = user[v]
    <3> HIDE DEF row
    <3> QED BY <1>0, <2>1, <2>2, <2>3, AccountAppears
  <2>5. ASSUME NEW o \in Requests
        PROVE  RequestOK(o)'
    BY <2>2, <2>4 DEF IInv, RequestsOK, RequestOK, OnAccount, Sessions, Links, Op
  <2>6. ASSUME NEW o \in Requests
        PROVE  HolderOK(o)'
    <3> SUFFICES ASSUME Op(o) \in Holder
                 PROVE  HolderOK(o)'
      BY <2>2 DEF HolderOK, Op
    <3>1. HolderOK(o) /\ RequestOK(o)
      BY DEF IInv, RequestsOK
    <3>2. user'[tx[o].user] = user[tx[o].user]
      BY <2>4, <3>1 DEF RequestOK, Holder, OnAccount
    <3> QED
      BY <2>2, <3>1, <3>2 DEF HolderOK, Links, Identity, Op
  <2> QED
    BY <2>2, <2>4, <2>5, <2>6 DEF IInv, RequestsOK
<1> QED
  BY <1>1, <1>2

\* A link expires, but none that a request is using.
LEMMA ExpiryKeeps ==
  ASSUME IInv, NEW l \in Links, ExpireLink(l)
  PROVE  IInv'
<1>1. UNCHANGED <<user, institution, owner, live, tx, barred, changes>>
      /\ link' = [link EXCEPT ![l].open = FALSE]
  BY DEF ExpireLink
<1>2. link \in Seq(LinkRecord) /\ Len(link) \in Nat /\ link[l] \in LinkRecord
      /\ link = [m \in Links |-> link[m]]
  BY DEF IInv, LinksOK, Links
<1>3. [link[l] EXCEPT !.open = FALSE] \in LinkRecord
  BY <1>2 DEF LinkRecord
<1>4. /\ link' \in Seq(LinkRecord) /\ Links' = Links /\ Len(link') = Len(link)
      /\ \A m \in Links : link'[m] = IF m = l THEN [link[l] EXCEPT !.open = FALSE] ELSE link[m]
  BY <1>1, <1>2, <1>3 DEF Links
<1>5. \A m \in Links :
        /\ link'[m].user = link[m].user /\ link'[m].identity = link[m].identity
        /\ link'[m].open = (link[m].open /\ m # l)
  <2>1. /\ [link[l] EXCEPT !.open = FALSE].user = link[l].user
        /\ [link[l] EXCEPT !.open = FALSE].identity = link[l].identity
        /\ [link[l] EXCEPT !.open = FALSE].open = FALSE
    BY <1>2 DEF LinkRecord
  <2>2. \A m \in Links : link[m].open \in BOOLEAN
    <3>1. \A m \in Links : link[m] \in LinkRecord
      BY <1>2 DEF Links
    <3> QED
      BY <3>1 DEF LinkRecord
  <2> QED
    BY <1>4, <2>1, <2>2
<1>6. RowsOK' /\ AddressesDiffer'
  BY <1>1 DEF IInv, RowsOK, AddressesDiffer, Exists, Sessions
<1>7. LinksOK'
  BY <1>1, <1>4, <1>5 DEF IInv, LinksOK, Exists
<1>8. ASSUME NEW o \in Requests
      PROVE  RequestOK(o)'
  BY <1>1, <1>4, <1>5 DEF IInv, RequestsOK, RequestOK, Op, Exists, Sessions
<1>9. ASSUME NEW o \in Requests
      PROVE  HolderOK(o)'
  <2> SUFFICES ASSUME Op(o) \in Holder
               PROVE  HolderOK(o)'
    BY <1>1 DEF HolderOK, Op
  <2>1. HolderOK(o)
    BY DEF IInv, RequestsOK
  <2>2. Op(o) = "complete" => l \notin tx[o].marks
    BY DEF ExpireLink
  <2> QED
    BY <1>1, <1>4, <1>5, <2>1, <2>2 DEF HolderOK, Op, Identity
<1> QED
  BY <1>1, <1>6, <1>7, <1>8, <1>9 DEF IInv, RequestsOK

-----------------------------------------------------------------------------
(***************************************************************************)
(* The commit of a request on one account                                  *)
(***************************************************************************)
\* What the request was, and the row it makes.
LEMMA CommitReads ==
  ASSUME IInv, NEW t \in Requests, Commit(t)
  PROVE  /\ Op(t) = tx[t].op /\ tx[t] # None /\ Op(t) \in OnAccount
         /\ RequestOK(t) /\ HolderOK(t)
         /\ tx[t].user \in Users /\ Exists(tx[t].user) /\ user[tx[t].user] \in Row
         /\ Written(user[tx[t].user], tx[t].writes) \in Row
         /\ \A o \in Requests \ {t} : Op(o) \in Holder => tx[o].user # tx[t].user
<1>1. RequestOK(t) /\ HolderOK(t) /\ RowsOK
  BY DEF IInv, RequestsOK
<1>2. Op(t) \notin {"none", "bootstrap", "institution"} /\ ~HeldBeyond(t, tx[t].user)
  BY DEF Commit
<1>3. Op(t) \in OnAccount /\ Op(t) = tx[t].op /\ tx[t] # None
  BY <1>1, <1>2 DEF RequestOK, Op
<1>4. tx[t].user \in Users /\ Exists(tx[t].user) /\ Fits(tx[t].writes)
  BY <1>1, <1>3 DEF RequestOK
<1>5. user[tx[t].user] \in Row
  BY <1>1, <1>4, RowOf
<1> QED
  BY <1>1, <1>2, <1>3, <1>4, <1>5 DEF Fits, HeldBeyond, Holder

\* The marked links are closed, the others are as they were.
LEMMA MarkedLinks ==
  ASSUME LinksOK, NEW marks,
         NEW marked, marked = [l \in Links |-> Marked(l, marks)]
  PROVE  /\ marked \in Seq(LinkRecord) /\ Len(marked) = Len(link) /\ Len(link) \in Nat
         /\ \A l \in Links :
              /\ marked[l].user = link[l].user /\ marked[l].identity = link[l].identity
              /\ marked[l].open = (link[l].open /\ l \notin marks)
<1>1. link \in Seq(LinkRecord) /\ Len(link) \in Nat
  BY DEF LinksOK
<1>2. ASSUME NEW l \in Links
      PROVE  /\ Marked(l, marks) \in LinkRecord
             /\ Marked(l, marks).user = link[l].user
             /\ Marked(l, marks).identity = link[l].identity
             /\ Marked(l, marks).open = (link[l].open /\ l \notin marks)
  <2>1. link[l] \in LinkRecord
    BY <1>1 DEF Links
  <2>2. \A r \in LinkRecord : \A b \in BOOLEAN :
          /\ [r EXCEPT !.open = b] \in LinkRecord
          /\ [r EXCEPT !.open = b].user = r.user
          /\ [r EXCEPT !.open = b].identity = r.identity
          /\ [r EXCEPT !.open = b].open = b
    BY DEF LinkRecord
  <2>3. Marked(l, marks) = [link[l] EXCEPT !.open = (link[l].open /\ l \notin marks)]
    BY DEF Marked
  <2>4. (link[l].open /\ l \notin marks) \in BOOLEAN
    OBVIOUS
  <2> QED
    BY <2>1, <2>2, <2>3, <2>4
<1>3. marked \in [1 .. Len(link) -> LinkRecord]
  BY <1>2 DEF Links
<1>4. marked \in Seq(LinkRecord) /\ Len(marked) = Len(link)
  BY <1>1, <1>3
<1> QED
  BY <1>1, <1>2, <1>4 DEF Links

\* What a commit does to the links: it closes those it has marked, and what it
\* adds is one open link for what the account was.
LEMMA CommitLinks ==
  ASSUME IInv, NEW t \in Requests, Commit(t)
  PROVE  /\ link' \in Seq(LinkRecord) /\ Len(link) \in Nat /\ Len(link') <= MaxLinks
         /\ Len(link') = IF Op(t) = "issue" THEN Len(link) + 1 ELSE Len(link)
         /\ \A l \in Links :
              /\ l \in Links'
              /\ link'[l].user = link[l].user /\ link'[l].identity = link[l].identity
              /\ link'[l].open = (link[l].open /\ l \notin tx[t].marks)
         /\ \A l \in Links' \ Links :
              /\ Op(t) = "issue" /\ l = Len(link) + 1
              /\ link'[l].user = tx[t].user /\ link'[l].identity = Identity(user[tx[t].user])
<1> DEFINE u == tx[t].user
           marked == [l \in Links |-> Marked(l, tx[t].marks)]
           new == NewLink(u)
<1>1. /\ Op(t) = tx[t].op /\ u \in Users /\ user[u] \in Row /\ LinksOK
      /\ Len(link) <= MaxLinks /\ MaxLinks \in Nat
  BY CommitReads, BoundsAssumption DEF IInv, LinksOK
<1>2. /\ link' = IF Op(t) = "issue" THEN Append(marked, new) ELSE marked
      /\ Op(t) = "issue" => Len(link) < MaxLinks
  BY <1>1 DEF Commit
<1>3. /\ marked \in Seq(LinkRecord) /\ Len(marked) = Len(link) /\ Len(link) \in Nat
      /\ \A l \in Links :
           /\ marked[l].user = link[l].user /\ marked[l].identity = link[l].identity
           /\ marked[l].open = (link[l].open /\ l \notin tx[t].marks)
  BY <1>1, MarkedLinks
<1>4. new \in LinkRecord /\ new.user = u /\ new.identity = Identity(user[u])
  BY <1>1 DEF NewLink, LinkRecord, Identity, Row
<1> HIDE DEF marked, new, u
<1>5. CASE Op(t) = "issue"
  <2>1. link' = Append(marked, new) /\ Len(link') = Len(link) + 1 /\ link' \in Seq(LinkRecord)
    BY <1>2, <1>3, <1>4, <1>5
  <2>2. \A l \in Links : link'[l] = marked[l] /\ l \in Links'
    BY <1>3, <2>1 DEF Links
  <2>3. \A l \in Links' \ Links : l = Len(link) + 1 /\ link'[l] = new
    BY <1>3, <2>1 DEF Links
  <2>4. Len(link') <= MaxLinks
    BY <1>1, <1>2, <1>3, <1>5, <2>1
  <2> QED
    BY <1>3, <1>4, <1>5, <2>1, <2>2, <2>3, <2>4 DEF u
<1>6. CASE Op(t) # "issue"
  BY <1>1, <1>2, <1>3, <1>6 DEF Links
<1> QED
  BY <1>5, <1>6

\* What a commit does to the accounts and the sessions.
LEMMA CommitRows ==
  ASSUME IInv, NEW t \in Requests, Commit(t)
  PROVE  /\ RowsOK' /\ AddressesDiffer'
         /\ user' = [user EXCEPT ![tx[t].user] = Written(user[tx[t].user], tx[t].writes)]
         /\ \A v \in Users : Exists(v)' <=> Exists(v)
         /\ \A v \in Users \ {tx[t].user} : user'[v] = user[v]
         /\ Sessions \subseteq Sessions'
<1> DEFINE u == tx[t].user
           writes == tx[t].writes
           row == Written(user[u], writes)
<1>1. /\ Op(t) = tx[t].op /\ RequestOK(t) /\ Op(t) \in OnAccount
      /\ u \in Users /\ Exists(u) /\ user[u] \in Row /\ row \in Row
  BY CommitReads
<1>2. /\ user \in [Users -> Row \cup {None}] /\ owner \in Seq(Users) /\ Len(owner) <= MaxSessions
      /\ live \subseteq Sessions /\ barred \subseteq Users
      /\ \A s \in Sessions : Exists(owner[s])
      /\ institution \in [Institutions -> {"ABSENT", "ACTIVE", "SUSPENDED"}]
      /\ changes \in 0 .. MaxChanges
  BY DEF IInv, RowsOK
<1>3. user' = [user EXCEPT ![u] = row] /\ UNCHANGED <<institution, changes>>
  BY DEF Commit
<1>4. /\ user' \in [Users -> Row \cup {None}] /\ user'[u] = row
      /\ \A v \in Users \ {u} : user'[v] = user[v]
  <2> HIDE DEF row
  <2> QED BY <1>1, <1>2, <1>3
<1>5. \A v \in Users : Exists(v)' <=> Exists(v)
  BY <1>1, <1>4, RowAssumption DEF Exists
<1>6. /\ owner' = IF Op(t) = "login" THEN Append(owner, u) ELSE owner
      /\ Op(t) = "login" => Len(owner) < MaxSessions
      /\ live' = LiveAfter(Op(t), u, tx[t].session)
      /\ barred' = BarredAfter(Op(t), u, writes)
  BY <1>1 DEF Commit
<1>7. /\ owner' \in Seq(Users) /\ Len(owner') <= MaxSessions /\ Sessions \subseteq Sessions'
      /\ \A s \in Sessions' : owner'[s] \in Users /\ user[owner'[s]] # None
      /\ Op(t) = "login" => Len(owner) + 1 \in Sessions'
  <2> HIDE DEF u
  <2>1. CASE Op(t) = "login"
    <3>1. /\ owner' = Append(owner, u) /\ Len(owner) \in Nat /\ Len(owner) < MaxSessions
          /\ MaxSessions \in Nat
      BY <1>2, <1>6, <2>1, BoundsAssumption
    <3>2. /\ owner' \in Seq(Users) /\ Len(owner') = Len(owner) + 1
          /\ \A s \in 1 .. Len(owner) : owner'[s] = owner[s]
          /\ owner'[Len(owner) + 1] = u
      BY <1>1, <1>2, <3>1
    <3>3. Sessions' = Sessions \cup {Len(owner) + 1}
      BY <3>1, <3>2 DEF Sessions
    <3>4. \A s \in Sessions' : owner'[s] \in Users /\ user[owner'[s]] # None
      BY <1>1, <1>2, <3>2, <3>3 DEF Sessions, Exists
    <3>5. Len(owner') <= MaxSessions
      BY <3>1, <3>2
    <3>6. Sessions \subseteq Sessions' /\ Len(owner) + 1 \in Sessions'
      BY <3>3
    <3> QED
      BY <3>2, <3>4, <3>5, <3>6
  <2>2. CASE Op(t) # "login"
    BY <1>2, <1>6, <2>2 DEF Sessions, Exists
  <2> QED
    BY <2>1, <2>2
<1>8. live' \subseteq Sessions'
  BY <1>2, <1>6, <1>7 DEF LiveAfter
<1>9. barred' \subseteq Users
  BY <1>1, <1>2, <1>6 DEF BarredAfter
<1>10. RowsOK'
  <2>1. \A s \in Sessions' : user'[owner'[s]] # None
    BY <1>5, <1>7 DEF Exists
  <2> QED
    BY <1>2, <1>3, <1>4, <1>7, <1>8, <1>9, <2>1 DEF RowsOK, Exists
<1>11. AddressesDiffer'
  <2>1. \A v, w \in Users : Exists(v) /\ Exists(w) /\ v # w => user[v].email # user[w].email
    BY DEF IInv, AddressesDiffer
  <2>2. \A v \in Users \ {u} : Exists(v) => user[v].email # row.email
    <3>1. row.email \in Emails
      BY <1>1 DEF Row
    <3>2. row.email = user[u].email
          \/ ("email" \in DOMAIN writes /\ row.email = writes["email"])
      <4>1. row.email \in {user[u].email} \cup {writes[f] : f \in {"email"} \cap DOMAIN writes}
        BY <1>1, WrittenColumns
      <4> QED
        BY <4>1
    <3>3. CASE row.email = user[u].email
      BY <1>1, <2>1, <3>3
    <3>4. CASE "email" \in DOMAIN writes /\ row.email = writes["email"]
      <4>1. ~EmailTaken(u, row.email)
        BY <3>1, <3>4 DEF Commit, Gives
      <4> QED
        BY <4>1 DEF EmailTaken
    <3> QED
      BY <3>2, <3>3, <3>4
  <2> HIDE DEF row
  <2>3. SUFFICES ASSUME NEW v \in Users, NEW w \in Users, Exists(v), Exists(w), v # w
                 PROVE  user'[v].email # user'[w].email
    BY <1>5 DEF AddressesDiffer
  <2>4. CASE v = u
    BY <1>4, <2>2, <2>3, <2>4
  <2>5. CASE w = u
    BY <1>4, <2>2, <2>3, <2>5
  <2>6. CASE v # u /\ w # u
    BY <1>4, <2>1, <2>3, <2>6
  <2> QED
    BY <2>4, <2>5, <2>6
<1> QED
  BY <1>3, <1>4, <1>5, <1>7, <1>10, <1>11

\* A commit keeps the invariant.
LEMMA CommitKeeps ==
  ASSUME IInv, NEW t \in Requests, Commit(t)
  PROVE  IInv'
<1> DEFINE u == tx[t].user
           row == Written(user[u], tx[t].writes)
<1>1. /\ Op(t) \in OnAccount /\ RequestOK(t) /\ HolderOK(t)
      /\ u \in Users /\ Exists(u) /\ user[u] \in Row /\ row \in Row
      /\ \A o \in Requests \ {t} : Op(o) \in Holder => tx[o].user # u
  BY CommitReads
<1>2. /\ link' \in Seq(LinkRecord) /\ Len(link) \in Nat /\ Len(link') <= MaxLinks
      /\ Len(link') = IF Op(t) = "issue" THEN Len(link) + 1 ELSE Len(link)
      /\ \A l \in Links :
           /\ l \in Links'
           /\ link'[l].user = link[l].user /\ link'[l].identity = link[l].identity
           /\ link'[l].open = (link[l].open /\ l \notin tx[t].marks)
      /\ \A l \in Links' \ Links :
           /\ Op(t) = "issue" /\ l = Len(link) + 1
           /\ link'[l].user = u /\ link'[l].identity = Identity(user[u])
  BY CommitLinks
<1>3. /\ RowsOK' /\ AddressesDiffer' /\ user' = [user EXCEPT ![u] = row]
      /\ \A v \in Users : Exists(v)' <=> Exists(v)
      /\ \A v \in Users \ {u} : user'[v] = user[v]
      /\ Sessions \subseteq Sessions'
  BY CommitRows
<1>4. user'[u] = row
  BY <1>1, <1>3 DEF IInv, RowsOK
<1>5. /\ \A l \in Links : link[l].identity[1] < l
      /\ \A l, m \in Links :
           link[l].user = link[m].user /\ link[l].open /\ link[m].open => l = m
      /\ \A v \in Users : Exists(v) => user[v].password <= Len(link)
  BY DEF IInv, LinksOK
<1>6. LinksOK'
  <2>1. \A l \in Links' : link'[l].identity[1] < l
    <3> SUFFICES ASSUME NEW l \in Links'
                 PROVE  link'[l].identity[1] < l
      OBVIOUS
    <3>1. CASE l \in Links
      BY <1>2, <1>5, <3>1
    <3>2. CASE l \notin Links
      <4>1. l = Len(link) + 1 /\ link'[l].identity = Identity(user[u])
        BY <1>2, <3>2
      <4>2. user[u].password \in Nat /\ user[u].password <= Len(link)
        BY <1>1, <1>5 DEF Row
      <4> QED
        BY <1>2, <4>1, <4>2 DEF Identity
    <3> QED
      BY <3>1, <3>2
  <2>2. ASSUME NEW l \in Links', NEW m \in Links', link'[l].user = link'[m].user,
               link'[l].open, link'[m].open
        PROVE  l = m
    <3>1. ASSUME NEW k \in Links, link'[k].open, link'[k].user = u
          PROVE  Op(t) # "issue"
      BY <1>1, <1>2, <3>1 DEF HolderOK, Holder
    <3>2. CASE l \in Links /\ m \in Links
      BY <1>2, <1>5, <2>2, <3>2
    <3>3. CASE l \notin Links /\ m \in Links
      BY <1>2, <2>2, <3>1, <3>3
    <3>4. CASE l \in Links /\ m \notin Links
      BY <1>2, <2>2, <3>1, <3>4
    <3>5. CASE l \notin Links /\ m \notin Links
      BY <1>2, <3>5
    <3> QED
      BY <3>2, <3>3, <3>4, <3>5
  <2>3. ASSUME NEW v \in Users, Exists(v)
        PROVE  user'[v].password <= Len(link')
    <3>1. user[v].password <= Len(link) /\ user[v].password \in Nat
      BY <1>5, <2>3, RowOf DEF IInv, Row
    <3>2. Len(link) <= Len(link') /\ Len(link') \in Nat
      BY <1>2
    <3>3. CASE v # u
      BY <1>3, <3>1, <3>2, <3>3
    <3>4. CASE v = u /\ "password" \notin DOMAIN tx[t].writes
      <4>1. row.password = user[u].password
        BY <1>1, <3>4, WrittenColumns
      <4> QED
        BY <1>4, <3>1, <3>2, <3>4, <4>1
    <3>5. CASE v = u /\ "password" \in DOMAIN tx[t].writes
      <4>1. row.password = tx[t].writes["password"] /\ row.password \in Nat
        BY <1>1, <3>5, WrittenColumns DEF Row
      <4>2. tx[t].writes["password"] <= Len(link)
        BY <1>1, <3>5 DEF RequestOK
      <4> QED
        BY <1>2, <1>4, <3>2, <3>5, <4>1, <4>2
    <3> QED
      BY <3>3, <3>4, <3>5
  <2> QED
    BY <1>2, <1>3, <2>1, <2>2, <2>3 DEF LinksOK
<1>7. /\ tx' = [o \in Requests |-> tx'[o]] /\ tx'[t] = None
      /\ \A o \in Requests \ {t} : tx'[o] = tx[o]
  BY DEF Commit, End, IInv, RequestsOK
<1>8. Op(t)' = "none"
  BY <1>7 DEF Op
<1>9. RequestOK(t)' /\ HolderOK(t)'
  BY <1>8 DEF RequestOK, HolderOK, OnAccount, Holder
<1>10. ASSUME NEW o \in Requests \ {t}
       PROVE  RequestOK(o)'
  <2>1. RequestOK(o) /\ Op(o)' = Op(o) /\ tx'[o] = tx[o]
    BY <1>7 DEF IInv, RequestsOK, Op
  <2>2. ASSUME Op(o) \in OnAccount
        PROVE  /\ user'[tx[o].user] # None
               /\ tx[o].session \in Sessions' \cup {0}
               /\ tx[o].marks \subseteq Links'
               /\ \A l \in tx[o].marks : link'[l].user = tx[o].user
    <3>1. /\ tx[o].user \in Users /\ Exists(tx[o].user)
          /\ tx[o].session \in Sessions \cup {0}
          /\ tx[o].marks \subseteq Links
          /\ \A l \in tx[o].marks : link[l].user = tx[o].user
      BY <2>1, <2>2 DEF RequestOK
    <3> QED
      BY <1>2, <1>3, <3>1 DEF Exists
  <2>3. ASSUME Op(o) \in OnAccount, "password" \in DOMAIN tx[o].writes
        PROVE  tx[o].writes["password"] <= Len(link')
    <3>1. tx[o].writes["password"] <= Len(link) /\ Fits(tx[o].writes)
      BY <2>1, <2>3 DEF RequestOK
    <3>2. tx[o].writes["password"] \in Nat
      <4>1. Written(user[u], tx[o].writes) \in Row
        BY <1>1, <3>1 DEF Fits
      <4>2. Written(user[u], tx[o].writes).password = tx[o].writes["password"]
        BY <1>1, <2>3, WrittenColumns
      <4> QED
        BY <4>1, <4>2 DEF Row
    <3> QED
      BY <1>2, <3>1, <3>2
  <2> QED
    BY <2>1, <2>2, <2>3 DEF RequestOK, Exists
<1>11. ASSUME NEW o \in Requests \ {t}
       PROVE  HolderOK(o)'
  <2> SUFFICES ASSUME Op(o) \in Holder
               PROVE  HolderOK(o)'
    BY <1>7 DEF HolderOK, Op
  <2>1. HolderOK(o) /\ RequestOK(o) /\ Op(o)' = Op(o) /\ tx'[o] = tx[o]
    BY <1>7 DEF IInv, RequestsOK, Op
  <2>2. tx[o].user \in Users /\ tx[o].user # u
    BY <1>1, <2>1 DEF RequestOK, Holder, OnAccount
  <2>3. \A other \in Requests \ {o} : Op(other)' \in Holder => tx'[other].user # tx'[o].user
    <3>1. \A other \in Requests : Op(other)' \in Holder =>
            Op(other) \in Holder /\ tx'[other] = tx[other]
      BY <1>7, <1>8 DEF Holder, Op
    <3> QED
      BY <2>1, <3>1 DEF HolderOK
  <2>4. user'[tx[o].user] = user[tx[o].user]
    BY <1>3, <2>2
  <2>5. \A l \in Links' : link'[l].user = tx[o].user => l \in Links /\ link[l].user = tx[o].user
    BY <1>2, <2>2
  <2>6. \A l \in Links : link[l].user = tx[o].user => l \notin tx[t].marks
    BY <1>1, <2>2 DEF RequestOK
  <2>7. \A l \in Links' : link'[l].user = tx'[o].user /\ link'[l].open => l \in tx'[o].marks
    BY <1>2, <2>1, <2>5 DEF HolderOK
  <2>8. Op(o) = "complete" =>
          \E l \in Links' :
            /\ link'[l].user = tx'[o].user /\ link'[l].open
            /\ link'[l].identity = Identity(user'[tx'[o].user])
    <3> SUFFICES ASSUME Op(o) = "complete"
                 PROVE  \E l \in Links' :
                          /\ link'[l].user = tx[o].user /\ link'[l].open
                          /\ link'[l].identity = Identity(user[tx[o].user])
      BY <2>1, <2>4 DEF Identity
    <3>1. PICK l \in Links : /\ link[l].user = tx[o].user /\ link[l].open
                             /\ link[l].identity = Identity(user[tx[o].user])
      BY <2>1 DEF HolderOK
    <3> QED
      BY <1>2, <2>6, <3>1
  <2> QED
    BY <2>1, <2>3, <2>7, <2>8 DEF HolderOK, Identity
<1> QED
  BY <1>3, <1>6, <1>7, <1>9, <1>10, <1>11 DEF IInv, RequestsOK

-----------------------------------------------------------------------------
(***************************************************************************)
(* What holds of the specification                                         *)
(***************************************************************************)
\* At first there is no account, no link and no request.
LEMMA InitIInv == Init => IInv
<1> SUFFICES ASSUME Init PROVE IInv
  OBVIOUS
<1> USE BoundsAssumption
<1>1. RowsOK
  BY DEF Init, RowsOK, Sessions
<1>2. LinksOK
  BY DEF Init, LinksOK, Links, Exists
<1>3. \A t \in Requests : Op(t) = "none"
  BY DEF Init, Op
<1>4. RequestsOK
  BY <1>3 DEF Init, RequestsOK, RequestOK, HolderOK, OnAccount, Holder
<1>5. AddressesDiffer
  BY DEF Init, AddressesDiffer, Exists
<1> QED
  BY <1>1, <1>2, <1>4, <1>5 DEF IInv

\* Every step keeps the invariant.
LEMMA NextIInv == IInv /\ [Next]_vars => IInv'
<1> SUFFICES ASSUME IInv, [Next]_vars PROVE IInv'
  OBVIOUS
<1>1. ASSUME NEW t \in Requests, SessionStep(t) \/ AdminStep(t) \/ RecoveryStep(t)
      PROVE  IInv'
  BY <1>1, SessionBegins, AdminBegins, RecoveryBegins
<1>2. ASSUME NEW t \in Requests, Commit(t)
      PROVE  IInv'
  BY <1>2, CommitKeeps
<1>3. ASSUME NEW t \in Requests, CommitBootstrap(t)
      PROVE  IInv'
  BY <1>3, Creations
<1>4. ASSUME \E t \in Requests : Abort(t) \/ CommitUpdateInstitution(t)
      PROVE  IInv'
  BY <1>4, SmallSteps
<1>5. ASSUME \E a, u \in Users, role \in Grantable, i \in Institutions, email \in Emails :
               CreateUser(a, u, role, i, email)
      PROVE  IInv'
  BY <1>5, Creations
<1>6. ASSUME \/ \E i \in Institutions : CreateInstitution(i)
             \/ \E u \in Users : RevokeSessions(u)
             \/ \E s \in Sessions : ExpireSession(s)
             \/ UNCHANGED vars
      PROVE  IInv'
  BY <1>6, SmallSteps
<1>7. ASSUME NEW l \in Links, ExpireLink(l)
      PROVE  IInv'
  BY <1>7, ExpiryKeeps
<1> QED
  BY <1>1, <1>2, <1>3, <1>4, <1>5, <1>6, <1>7 DEF Next

\* In every state reached, an account that a request holds is as it was read.
THEOREM InvariantHolds == Spec => []IInv
BY InitIInv, NextIInv, PTL DEF Spec

\* The types, whatever has happened: in particular no account is ever further
\* from its first password than links were issued.
THEOREM TypesHold == Spec => []TypeOK
<1>1. IInv => TypeOK
  <2> SUFFICES ASSUME IInv PROVE TypeOK
    OBVIOUS
  <2>1. ASSUME NEW t \in Requests, Op(t) \notin {"none", "institution"}
        PROVE  tx[t].user \in Users /\ tx[t].marks \subseteq Links
               /\ tx[t].session \in Sessions \cup {0}
    <3>1. RequestOK(t)
      BY DEF IInv, RequestsOK
    <3> QED
      BY <2>1, <3>1 DEF RequestOK, OnAccount
  <2> QED
    BY <2>1 DEF IInv, RowsOK, LinksOK, LinkRecord, TypeOK
<1> QED
  BY <1>1, InvariantHolds, PTL

\* However many requests issue and use links of an account at a time, at most
\* one link of it can be used.
THEOREM OneUsableLinkHolds == Spec => []OneUsableLink
<1>1. IInv => OneUsableLink
  <2> SUFFICES ASSUME IInv, NEW u \in Users
               PROVE  Cardinality(OpenLinks(u)) <= 1
    BY DEF OneUsableLink
  <2>1. \A l, m \in OpenLinks(u) : l = m
    BY DEF IInv, LinksOK, OpenLinks
  <2>2. CASE OpenLinks(u) = {}
    BY <2>2, FS_EmptySet
  <2>3. CASE OpenLinks(u) # {}
    <3>1. PICK l \in OpenLinks(u) : OpenLinks(u) = {l}
      BY <2>1, <2>3
    <3>2. Cardinality({l}) = 1
      BY FS_Singleton
    <3> QED
      BY <3>1, <3>2
  <2> QED
    BY <2>2, <2>3
<1> QED
  BY <1>1, InvariantHolds, PTL

\* No two accounts ever share an address.
THEOREM AddressesDifferHolds == Spec => []AddressesDiffer
<1>1. IInv => AddressesDiffer
  BY DEF IInv
<1> QED
  BY <1>1, InvariantHolds, PTL

\* A commit writes no session but the one it opens or revokes.
THEOREM RevokedStaysRevokedHolds == Spec => RevokedStaysRevoked
<1>1. IInv /\ [Next]_vars => [\A s \in Sessions \ live : s \notin live']_vars
  <2> SUFFICES ASSUME IInv, Next PROVE \A s \in Sessions \ live : s \notin live'
    BY DEF vars
  <2>1. Len(owner) \in Nat
    BY DEF IInv, RowsOK
  <2>2. ASSUME live' \subseteq live \cup {Len(owner) + 1}
        PROVE  \A s \in Sessions \ live : s \notin live'
    BY <2>1, <2>2 DEF Sessions
  <2>3. ASSUME NEW t \in Requests, SessionStep(t) \/ AdminStep(t) \/ RecoveryStep(t)
        PROVE  live' = live
    BY <2>3 DEF SessionStep, AdminStep, RecoveryStep, BeginLogin, BeginFailedLogin,
                BeginRefresh, BeginLogout, BeginBootstrap, BeginUpdateUser,
                BeginUpdateInstitution, BeginIssue, BeginComplete, Begin
  <2>4. ASSUME NEW t \in Requests, Commit(t)
        PROVE  live' \subseteq live \cup {Len(owner) + 1}
    <3>1. live' = LiveAfter(tx[t].op, tx[t].user, tx[t].session)
      BY <2>4 DEF Commit
    <3> QED
      BY <3>1 DEF LiveAfter
  <2>5. ASSUME NEW t \in Requests,
               CommitBootstrap(t) \/ CommitUpdateInstitution(t) \/ Abort(t)
        PROVE  live' \subseteq live
    BY <2>5 DEF CommitBootstrap, CommitUpdateInstitution, Abort
  <2>6. ASSUME NEW a \in Users, NEW u \in Users, NEW role \in Grantable,
               NEW i \in Institutions, NEW email \in Emails, CreateUser(a, u, role, i, email)
        PROVE  live' = live
    BY <2>6 DEF CreateUser
  <2>7. ASSUME \/ \E i \in Institutions : CreateInstitution(i)
               \/ \E u \in Users : RevokeSessions(u)
               \/ \E s \in Sessions : ExpireSession(s)
               \/ \E l \in Links : ExpireLink(l)
        PROVE  live' \subseteq live
    BY <2>7 DEF CreateInstitution, RevokeSessions, ExpireSession, ExpireLink
  <2> QED
    BY <2>2, <2>3, <2>4, <2>5, <2>6, <2>7 DEF Next
<1> QED
  BY <1>1, InvariantHolds, PTL DEF Spec, RevokedStaysRevoked

\* A password changes only by an open link of that account, issued for what the
\* account is at that moment, which is closed by it together with all sessions.
THEOREM ResetByItsLinkHolds == Spec => ResetByItsLink
<1> DEFINE Good(v) ==
      Exists(v) /\ user'[v].password # user[v].password =>
        /\ \E l \in OpenLinks(v) : link[l].identity = Identity(user[v]) /\ ~link'[l].open
        /\ \A s \in live' : owner'[s] # v
<1>1. IInv /\ [Next]_vars => [\A v \in Users : Good(v)]_vars
  <2> SUFFICES ASSUME IInv, Next, NEW v \in Users, Exists(v),
                      user'[v].password # user[v].password
               PROVE  /\ \E l \in OpenLinks(v) :
                           link[l].identity = Identity(user[v]) /\ ~link'[l].open
                      /\ \A s \in live' : owner'[s] # v
    BY DEF vars
  <2>0. user \in [Users -> Row \cup {None}]
    BY DEF IInv, RowsOK
  <2>1. ASSUME NEW t \in Requests, SessionStep(t) \/ AdminStep(t) \/ RecoveryStep(t)
        PROVE  user' = user
    BY <2>1 DEF SessionStep, AdminStep, RecoveryStep, BeginLogin, BeginFailedLogin,
                BeginRefresh, BeginLogout, BeginBootstrap, BeginUpdateUser,
                BeginUpdateInstitution, BeginIssue, BeginComplete, Begin
  <2>2. ASSUME NEW t \in Requests, CommitBootstrap(t)
        PROVE  user'[v] = user[v]
    BY <2>0, <2>2 DEF CommitBootstrap
  <2>3. ASSUME NEW a \in Users, NEW u \in Users, NEW role \in Grantable,
               NEW i \in Institutions, NEW email \in Emails, CreateUser(a, u, role, i, email)
        PROVE  user'[v] = user[v]
    BY <2>0, <2>3 DEF CreateUser
  <2>4. ASSUME \/ \E t \in Requests : CommitUpdateInstitution(t) \/ Abort(t)
               \/ \E i \in Institutions : CreateInstitution(i)
               \/ \E u \in Users : RevokeSessions(u)
               \/ \E s \in Sessions : ExpireSession(s)
               \/ \E l \in Links : ExpireLink(l)
        PROVE  user' = user
    BY <2>4 DEF CommitUpdateInstitution, Abort, CreateInstitution, RevokeSessions,
                ExpireSession, ExpireLink
  <2>5. PICK t \in Requests : Commit(t)
    BY <2>1, <2>2, <2>3, <2>4 DEF Next
  <2>6. /\ Op(t) = tx[t].op /\ Op(t) \in OnAccount /\ RequestOK(t) /\ HolderOK(t)
        /\ tx[t].user \in Users /\ user[tx[t].user] \in Row
    BY <2>5, CommitReads
  <2>7. /\ user' = [user EXCEPT ![tx[t].user] = Written(user[tx[t].user], tx[t].writes)]
        /\ \A w \in Users \ {tx[t].user} : user'[w] = user[w]
    BY <2>5, CommitRows
  <2>8. v = tx[t].user
    BY <2>7
  <2>9. user'[v].password = Written(user[v], tx[t].writes).password
    BY <2>0, <2>7, <2>8
  <2>10. Op(t) = "complete"
    BY <2>6, <2>8, <2>9, WrittenColumns DEF RequestOK
  <2>11. \E l \in OpenLinks(v) : link[l].identity = Identity(user[v]) /\ ~link'[l].open
    <3>1. PICK l \in Links : /\ link[l].user = v /\ link[l].open
                             /\ link[l].identity = Identity(user[v])
      BY <2>6, <2>8, <2>10 DEF HolderOK, Holder
    <3>2. l \in tx[t].marks
      BY <2>6, <2>8, <2>10, <3>1 DEF HolderOK, Holder
    <3>3. ~link'[l].open
      BY <2>5, <3>2, CommitLinks
    <3> QED
      BY <3>1, <3>3 DEF OpenLinks
  <2>12. live' = live \ SessionsOf(v) /\ owner' = owner
    <3>1. live' = LiveAfter("complete", v, tx[t].session) /\ owner' = owner
      BY <2>5, <2>6, <2>8, <2>10 DEF Commit
    <3> QED
      BY <3>1 DEF LiveAfter
  <2> QED
    BY <2>11, <2>12 DEF SessionsOf
<1>2. IInv /\ [Next]_vars =>
        [\A u \in Users :
           Exists(u) /\ user'[u].password # user[u].password =>
             /\ \E l \in OpenLinks(u) : link[l].identity = Identity(user[u]) /\ ~link'[l].open
             /\ \A s \in live' : owner'[s] # u]_vars
  BY <1>1
<1> QED
  BY <1>2, InvariantHolds, PTL DEF Spec, ResetByItsLink

=============================================================================
