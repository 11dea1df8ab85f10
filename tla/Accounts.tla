------------------------------ MODULE Accounts ------------------------------
(***************************************************************************)
(* Accounts, their sessions and the links that reset their passwords.  A   *)
(* request is a transaction that reads its rows when it begins and writes, *)
(* when it commits, the columns that it changed: two requests of one       *)
(* account can both have read the same row.  Issuing a link and using one  *)
(* take the row of the account FOR UPDATE before they look at it: until    *)
(* they commit, requests that write that row, or insert a session or an    *)
(* audit entry that refers to it, wait.                                    *)
(*                                                                         *)
(* Tokens, passwords and links are not values here but counts: a password  *)
(* is the number of resets behind it, which a link's identity hash pins    *)
(* together with the address.  Who acts is an account that may; the        *)
(* sessions that administrators act with are not counted.  The throttle of *)
(* requests by mail, names, audit and security events are left out.        *)
(***************************************************************************)
EXTENDS Naturals, Sequences, FiniteSets

CONSTANTS
  Users,
  Institutions,
  Emails,
  Grantable,    \* the roles with which accounts are created
  Changes,      \* what administrators may ask update_user to set
  Requests,     \* requests at a time
  Threshold,    \* login_lock_threshold
  MaxSessions,  \* sessions opened
  MaxLinks,     \* links issued
  MaxChanges,   \* accounts and institutions created or changed by hand
  None          \* no account, no request

ASSUME BoundsAssumption ==
  Threshold \in Nat \ {0} /\ MaxSessions \in Nat /\ MaxLinks \in Nat /\ MaxChanges \in Nat

VARIABLES
  user,         \* each account's row
  institution,  \* each institution's status
  owner,        \* the account of each session, in the order they were opened
  live,         \* the sessions that are not revoked and not expired
  link,         \* the reset links, in the order they were issued
  tx,           \* the transaction of each request
  barred,       \* accounts an administrator disabled and none reactivated
  changes

vars == <<user, institution, owner, live, link, tx, barred, changes>>

Row ==
  [status : {"ACTIVE", "LOCKED", "DISABLED"},
   role : {"SYSTEM_ADMIN", "INSTITUTION_ADMIN", "AGENT"},
   inst : Institutions, fails : 0 .. Threshold, password : 0 .. MaxLinks, email : Emails]

ASSUME RowAssumption ==
  None \notin Row /\ Grantable \subseteq {"SYSTEM_ADMIN", "INSTITUTION_ADMIN", "AGENT"}

Identity(row) == <<row.password, row.email>>

Links == 1 .. Len(link)

Sessions == 1 .. Len(owner)

SessionsOf(u) == {s \in live : owner[s] = u}

\* The links that are neither used nor replaced nor expired.
OpenLinks(u) == {l \in Links : link[l].user = u /\ link[l].open}

-----------------------------------------------------------------------------
(***************************************************************************)
(* Who may do what                                                         *)
(***************************************************************************)
Exists(u) == user[u] # None

InstitutionActive(u) == institution[user[u].inst] = "ACTIVE"

\* get_current_user
MayAct(u) == Exists(u) /\ user[u].status = "ACTIVE" /\ InstitutionActive(u)

SystemAdmin(a) == MayAct(a) /\ user[a].role = "SYSTEM_ADMIN"

\* require_admin, and the accounts an institution's administrator may manage.
Manages(a, u) ==
  \/ SystemAdmin(a)
  \/ /\ MayAct(a) /\ user[a].role = "INSTITUTION_ADMIN"
     /\ user[u].inst = user[a].inst /\ user[u].role # "SYSTEM_ADMIN"

\* eligible: a disabled account is not, a locked one is.
Recoverable(u) == Exists(u) /\ user[u].status \in {"ACTIVE", "LOCKED"} /\ InstitutionActive(u)

ActiveSystemAdmin(u) == Exists(u) /\ user[u].role = "SYSTEM_ADMIN" /\ user[u].status = "ACTIVE"

\* Mutant of EmailTaken: the address is looked up, not constrained.
NeverTaken(u, email) == FALSE

EmailTaken(u, email) == \E other \in Users \ {u} : Exists(other) /\ user[other].email = email

-----------------------------------------------------------------------------
(***************************************************************************)
(* Transactions                                                            *)
(***************************************************************************)
Request(op, u, writes) ==
  [op |-> op, user |-> u, writes |-> writes, session |-> 0, marks |-> {}]

\* What the session will write: the columns with another value than was read.
Differing(row, values) ==
  [f \in {g \in DOMAIN values : values[g] # row[g]} |-> values[f]]

Written(row, writes) ==
  [f \in DOMAIN row |-> IF f \in DOMAIN writes THEN writes[f] ELSE row[f]]

\* UserUpdate: the columns an administrator may set, to values they may have.
ASSUME ChangesAssumption ==
  \A change \in Changes :
    /\ DOMAIN change \subseteq {"status", "role", "inst", "email"}
    /\ \A row \in Row : Written(row, change) \in Row

Begin(t, request) ==
  /\ tx[t] = None
  /\ tx' = [tx EXCEPT ![t] = request]
  /\ UNCHANGED <<user, institution, owner, live, link, barred>>

End(t) == tx' = [tx EXCEPT ![t] = None]

Op(t) == IF tx[t] = None THEN "none" ELSE tx[t].op

\* Mutant of HeldBeyond: no row is ever locked.
NeverHeld(t, u) == FALSE

\* Another request has the row of this account FOR UPDATE.
HeldBeyond(t, u) ==
  \E other \in Requests \ {t} : Op(other) \in {"issue", "complete"} /\ tx[other].user = u

\* The process dies, a constraint refuses the commit or the client is gone.
Abort(t) ==
  /\ tx[t] # None
  /\ End(t)
  /\ UNCHANGED <<user, institution, owner, live, link, barred, changes>>

Init ==
  /\ user = [u \in Users |-> None]
  /\ institution = [i \in Institutions |-> "ABSENT"]
  /\ owner = <<>>
  /\ live = {}
  /\ link = <<>>
  /\ tx = [t \in Requests |-> None]
  /\ barred = {}
  /\ changes = 0

-----------------------------------------------------------------------------
(***************************************************************************)
(* Signing in and out                                                      *)
(***************************************************************************)
\* The right password.
BeginLogin(t, u) ==
  /\ MayAct(u)
  /\ Len(owner) < MaxSessions
  /\ Begin(t, Request("login", u, Differing(user[u], [fails |-> 0])))
  /\ UNCHANGED changes

AtMost(bound, n) == IF n > bound THEN bound ELSE n

\* A wrong password, whatever the status of the account.
BeginFailedLogin(t, u) ==
  /\ Exists(u)
  /\ LET fails == AtMost(Threshold, user[u].fails + 1)
         values == IF fails = Threshold THEN [fails |-> fails, status |-> "LOCKED"]
                                        ELSE [fails |-> fails]
     IN Begin(t, Request("fail", u, Differing(user[u], values)))
  /\ UNCHANGED changes

\* refresh_access_token: an account that may not act loses the session.
BeginRefresh(t, s) ==
  /\ s \in live
  /\ Begin(t, [Request(IF MayAct(owner[s]) THEN "refresh" ELSE "revoke", owner[s], <<>>)
               EXCEPT !.session = s])
  /\ UNCHANGED changes

BeginLogout(t, s) ==
  /\ s \in live
  /\ MayAct(owner[s])
  /\ Begin(t, [Request("revoke", owner[s], <<>>) EXCEPT !.session = s])
  /\ UNCHANGED changes

ExpireSession(s) ==
  /\ s \in live
  /\ live' = live \ {s}
  /\ UNCHANGED <<user, institution, owner, link, tx, barred, changes>>

\* revoke_all_user_sessions is one statement that waits for nothing.
RevokeSessions(u) ==
  /\ SessionsOf(u) # {}
  /\ \E a \in Users : Manages(a, u)
  /\ live' = live \ SessionsOf(u)
  /\ UNCHANGED <<user, institution, owner, link, tx, barred, changes>>

-----------------------------------------------------------------------------
(***************************************************************************)
(* Accounts and institutions                                               *)
(***************************************************************************)
NewRow(role, i, email) ==
  [status |-> "ACTIVE", role |-> role, inst |-> i, fails |-> 0, password |-> 0, email |-> email]

\* bootstrap_admin counts the accounts, and two that count none both go on.
BeginBootstrap(t, u, i, email) ==
  /\ \A other \in Users : ~Exists(other)
  /\ Begin(t, Request("bootstrap", u, NewRow("SYSTEM_ADMIN", i, email)))
  /\ UNCHANGED changes

CommitBootstrap(t) ==
  /\ Op(t) = "bootstrap"
  /\ LET u == tx[t].user
         row == tx[t].writes
     IN /\ ~Exists(u) /\ ~EmailTaken(u, row.email)
        /\ institution[row.inst] = "ABSENT"
        /\ user' = [user EXCEPT ![u] = row]
        /\ institution' = [institution EXCEPT ![row.inst] = "ACTIVE"]
  /\ End(t)
  /\ UNCHANGED <<owner, live, link, barred, changes>>

OneMoreChange == changes < MaxChanges /\ changes' = changes + 1

CreateInstitution(i) ==
  /\ OneMoreChange
  /\ institution[i] = "ABSENT"
  /\ \E a \in Users : SystemAdmin(a)
  /\ institution' = [institution EXCEPT ![i] = "ACTIVE"]
  /\ UNCHANGED <<user, owner, live, link, tx, barred>>

CreateUser(a, u, role, i, email) ==
  /\ OneMoreChange
  /\ MayAct(a)
  /\ \/ user[a].role = "SYSTEM_ADMIN"
     \/ user[a].role = "INSTITUTION_ADMIN" /\ i = user[a].inst /\ role # "SYSTEM_ADMIN"
  /\ institution[i] = "ACTIVE"
  /\ ~Exists(u) /\ ~EmailTaken(u, email)
  /\ user' = [user EXCEPT ![u] = NewRow(role, i, email)]
  /\ UNCHANGED <<institution, owner, live, link, tx, barred>>

Gives(change, column, values) == column \in DOMAIN change /\ change[column] \in values

\* update_user refuses to take the role or the status of the last one, by its count.
RemovesLastAdmin(u, change) ==
  /\ ActiveSystemAdmin(u)
  /\ \/ Gives(change, "role", {"INSTITUTION_ADMIN", "AGENT"})
     \/ Gives(change, "status", {"LOCKED", "DISABLED"})
  /\ \A other \in Users \ {u} : ~ActiveSystemAdmin(other)

MayChange(a, u, change) ==
  /\ Manages(a, u)
  /\ user[a].role = "INSTITUTION_ADMIN" =>
       /\ ~Gives(change, "role", {"SYSTEM_ADMIN"})
       /\ ~Gives(change, "inst", Institutions \ {user[a].inst})
  /\ a = u => ~Gives(change, "status", {"LOCKED", "DISABLED"})

BeginUpdateUser(t, a, u, change) ==
  /\ OneMoreChange
  /\ Exists(u)
  /\ MayChange(a, u, change)
  /\ \A i \in Institutions : Gives(change, "inst", {i}) => institution[i] = "ACTIVE"
  /\ ~RemovesLastAdmin(u, change)
  /\ \A email \in Emails : Gives(change, "email", {email}) => ~EmailTaken(u, email)
  /\ Begin(t, Request(IF Gives(change, "status", {"LOCKED", "DISABLED"}) THEN "close" ELSE "update",
                      u, Differing(user[u], change)))

\* update_institution: suspending the last active administrator's is refused.
BeginUpdateInstitution(t, i, status) ==
  /\ OneMoreChange
  /\ institution[i] # "ABSENT"
  /\ \E a \in Users : SystemAdmin(a)
  /\ \/ status = "ACTIVE"
     \/ \A u \in Users : ~(ActiveSystemAdmin(u) /\ user[u].inst = i)
     \/ \E u \in Users : ActiveSystemAdmin(u) /\ user[u].inst # i /\ InstitutionActive(u)
  /\ Begin(t, [op |-> "institution", institution |-> i, status |-> status])

CommitUpdateInstitution(t) ==
  /\ Op(t) = "institution"
  /\ institution' = [institution EXCEPT ![tx[t].institution] = tx[t].status]
  /\ live' = IF tx[t].status = "ACTIVE" THEN live
             ELSE {s \in live : user[owner[s]].inst # tx[t].institution}
  /\ End(t)
  /\ UNCHANGED <<user, owner, link, barred, changes>>

-----------------------------------------------------------------------------
(***************************************************************************)
(* Password recovery                                                       *)
(***************************************************************************)
\* issue_reset, asked for by mail or by an administrator: with the row locked,
\* the links that are not used yet are marked.
BeginIssue(t, u) ==
  /\ Recoverable(u)
  /\ Len(link) < MaxLinks
  /\ ~HeldBeyond(t, u)
  /\ Begin(t, [Request("issue", u, <<>>) EXCEPT !.marks = OpenLinks(u)])
  /\ UNCHANGED changes

\* complete_reset: the link, the account and its identity, with both rows locked.
BeginComplete(t, l) ==
  LET u == link[l].user IN
  /\ l \in OpenLinks(u)
  /\ Recoverable(u)
  /\ link[l].identity = Identity(user[u])
  /\ ~HeldBeyond(t, u)
  /\ Begin(t, [Request("complete", u,
                       Differing(user[u], [password |-> user[u].password + 1, fails |-> 0,
                                           status |-> "ACTIVE"]))
               EXCEPT !.marks = OpenLinks(u)])
  /\ UNCHANGED changes

\* A request that has checked the date does not see it pass.
ExpireLink(l) ==
  /\ link[l].open
  /\ \A t \in Requests : Op(t) = "complete" => l \notin tx[t].marks
  /\ link' = [link EXCEPT ![l].open = FALSE]
  /\ UNCHANGED <<user, institution, owner, live, tx, barred, changes>>

Marked(l, marks) == [link[l] EXCEPT !.open = @ /\ l \notin marks]

NewLink(u) == [user |-> u, identity |-> Identity(user[u]), open |-> TRUE]

-----------------------------------------------------------------------------
(***************************************************************************)
(* The commit of a request on one account                                  *)
(***************************************************************************)
\* Mutant of LiveAfter: refresh writes the whole session back as it read it.
LiveAfterFullWrite(op, u, s) ==
  CASE op = "login" -> live \cup {Len(owner) + 1}
    [] op = "refresh" -> live \cup {s}
    [] op = "revoke" -> live \ {s}
    [] op \in {"close", "complete"} -> live \ SessionsOf(u)
    [] OTHER -> live

\* Mutant of LiveAfter: refresh answers with a session that it does not store.
LiveAfterNewSession(op, u, s) ==
  CASE op \in {"login", "refresh"} -> live \cup {Len(owner) + 1}
    [] op = "revoke" -> live \ {s}
    [] op \in {"close", "complete"} -> live \ SessionsOf(u)
    [] OTHER -> live

\* Refresh changes the token, not whether the session is revoked.
LiveAfter(op, u, s) ==
  CASE op = "login" -> live \cup {Len(owner) + 1}
    [] op = "revoke" -> live \ {s}
    [] op \in {"close", "complete"} -> live \ SessionsOf(u)
    [] OTHER -> live

BarredAfter(op, u, writes) ==
  CASE op \in {"update", "close"} /\ Gives(writes, "status", {"DISABLED"}) -> barred \cup {u}
    [] op \in {"update", "close"} /\ Gives(writes, "status", {"ACTIVE", "LOCKED"}) -> barred \ {u}
    [] OTHER -> barred

Commit(t) ==
  /\ Op(t) \notin {"none", "bootstrap", "institution"}
  /\ LET op == tx[t].op
         u == tx[t].user
         writes == tx[t].writes
         marked == [l \in Links |-> Marked(l, tx[t].marks)]
     IN /\ ~HeldBeyond(t, u)
        /\ \A email \in Emails : Gives(writes, "email", {email}) => ~EmailTaken(u, email)
        /\ op = "login" => Len(owner) < MaxSessions
        /\ op = "issue" => Len(link) < MaxLinks
        /\ user' = [user EXCEPT ![u] = Written(@, writes)]
        /\ owner' = IF op = "login" THEN Append(owner, u) ELSE owner
        /\ live' = LiveAfter(op, u, tx[t].session)
        /\ link' = IF op = "issue" THEN Append(marked, NewLink(u)) ELSE marked
        /\ barred' = BarredAfter(op, u, writes)
  /\ End(t)
  /\ UNCHANGED <<institution, changes>>

-----------------------------------------------------------------------------
SessionStep(t) ==
  \/ \E u \in Users : BeginLogin(t, u) \/ BeginFailedLogin(t, u)
  \/ \E s \in Sessions : BeginRefresh(t, s) \/ BeginLogout(t, s)

AdminStep(t) ==
  \/ \E u \in Users, i \in Institutions, email \in Emails : BeginBootstrap(t, u, i, email)
  \/ \E a \in Users, u \in Users, change \in Changes : BeginUpdateUser(t, a, u, change)
  \/ \E i \in Institutions, status \in {"ACTIVE", "SUSPENDED"} : BeginUpdateInstitution(t, i, status)

RecoveryStep(t) ==
  \/ \E u \in Users : BeginIssue(t, u)
  \/ \E l \in Links : BeginComplete(t, l)

Next ==
  \/ \E t \in Requests :
       \/ SessionStep(t)
       \/ AdminStep(t)
       \/ RecoveryStep(t)
       \/ Commit(t)
       \/ CommitBootstrap(t)
       \/ CommitUpdateInstitution(t)
       \/ Abort(t)
  \/ \E a, u \in Users, role \in Grantable, i \in Institutions, email \in Emails :
       CreateUser(a, u, role, i, email)
  \/ \E i \in Institutions : CreateInstitution(i)
  \/ \E u \in Users : RevokeSessions(u)
  \/ \E s \in Sessions : ExpireSession(s)
  \/ \E l \in Links : ExpireLink(l)

Spec == Init /\ [][Next]_vars

-----------------------------------------------------------------------------
TypeOK ==
  /\ user \in [Users -> Row \cup {None}]
  /\ institution \in [Institutions -> {"ABSENT", "ACTIVE", "SUSPENDED"}]
  /\ owner \in Seq(Users) /\ Len(owner) <= MaxSessions
  /\ live \subseteq Sessions
  /\ link \in Seq([user : Users, identity : (0 .. MaxLinks) \X Emails, open : BOOLEAN])
  /\ Len(link) <= MaxLinks
  /\ barred \subseteq Users
  /\ changes \in 0 .. MaxChanges
  /\ \A t \in Requests : Op(t) \notin {"none", "institution"} =>
       tx[t].user \in Users /\ tx[t].marks \subseteq Links /\ tx[t].session \in Sessions \cup {0}

\* What was revoked stays revoked: a refresh, a log-in or another request that
\* read the session while it was live does not bring it back when it commits.
RevokedStaysRevoked == [][\A s \in Sessions \ live : s \notin live']_vars

\* "Issuing a new link invalidates previous links": however requests overlap,
\* an account has at most one link that can be used.
OneUsableLink == \A u \in Users : Cardinality(OpenLinks(u)) <= 1

\* A password changes only by a link of that account, once for each link, that
\* was issued for the password and the address the account has at that moment,
\* and no session of the account outlives the change.
ResetByItsLink ==
  [][\A u \in Users :
       Exists(u) /\ user'[u].password # user[u].password =>
         /\ \E l \in OpenLinks(u) : link[l].identity = Identity(user[u]) /\ ~link'[l].open
         /\ \A s \in live' : owner'[s] # u]_vars

\* No two accounts share an address, though the look-up and the write are two
\* steps.
AddressesDiffer ==
  \A u, v \in Users : Exists(u) /\ Exists(v) /\ u # v => user[u].email # user[v].email

\* README.md: "Disabled accounts and inactive institutions cannot recover
\* access this way."  Failed log-ins make a disabled account a locked one,
\* which a link unlocks.
DisabledCannotRecover == \A u \in barred : user[u].status # "ACTIVE"

=============================================================================
