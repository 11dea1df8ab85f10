----------------------------- MODULE Workspace ------------------------------
(***************************************************************************)
(* What surrounds the workflow of one case: the receipts of its readers,   *)
(* its comments, the access rules that gate both, and the reference items  *)
(* whose values a case may use.  All are rows that a request looks up and  *)
(* then inserts or changes in a transaction of its own; nothing locks what *)
(* was looked up, so another request's commit can come in between, and     *)
(* only the unique constraints of the tables answer for it.  The           *)
(* constraint on access rules does not bind the general ones, whose        *)
(* institution is null: they can be doubled, and which one a check reads   *)
(* is then the database's choice.                                          *)
(*                                                                         *)
(* The rules are those of the one role of all users who are not system     *)
(* administrators.  A case is a draft, sent, received or closed; texts,    *)
(* names and labels are left out.                                          *)
(***************************************************************************)
EXTENDS Naturals, FiniteSets

CONSTANTS
  Users,         \* active accounts
  Institution,   \* the institution of each
  Exempt,        \* the system administrators among them
  Writers,       \* the accounts whose role may comment
  Sender,
  Receiver,
  RuleKeys,      \* what rules may be about: <<institution or None, permission>>
  RuleValues,    \* what they may say: allowed, highest classification or None
  CaseRank,      \* the classification of the case
  Codes,         \* the reference values
  Defaults,      \* those of them that may not be disabled
  Requests,      \* requests that may overlap
  MaxRows,       \* bound on the rows inserted in all
  None           \* no row, no request, no institution, no clearance

ASSUME UsersAssumption == Exempt \subseteq Users /\ Writers \subseteq Users

ASSUME RuleAssumption ==
  /\ CaseRank \in Nat
  /\ \A v \in RuleValues : v.allowed \in BOOLEAN /\ v.clearance \in Nat \cup {None}

ASSUME InstitutionAssumption ==
  /\ Institution \in [Users -> {Institution[u] : u \in Users}]
  /\ \A u \in Users : Institution[u] # None
  /\ Sender # Receiver /\ None \notin {Sender, Receiver}

ASSUME BoundAssumption == MaxRows \in Nat

\* What is left out of a request is told from what is in it.
ASSUME NoneAssumption ==
  /\ None # "RECEIVED"
  /\ \A u \in Users : None \notin {<<"acknowledged", u>>, <<"read", u>>}

VARIABLES
  status,    \* of the case
  rows,      \* the committed rows of each table
  used,      \* how many identifiers were given
  request,   \* what each open request has read and is about to write
  acks,      \* how often CASE_ACKNOWLEDGED was recorded of each user
  reads      \* how often CASE_MARKED_READ was

vars == <<status, rows, used, request, acks, reads>>

Tables == {"rules", "items", "receipts", "comments"}

Permissions == {"cases.read", "cases.comment"}

Rule == [id : 1 .. MaxRows, key : RuleKeys, allowed : BOOLEAN, clearance : Nat \cup {None}]

Item == [id : 1 .. MaxRows, key : Codes, active : BOOLEAN]

Receipt == [id : 1 .. MaxRows, key : Users, read : BOOLEAN]

Comment ==
  [id : 1 .. MaxRows, key : {Institution[u] : u \in Users},
   visibility : {"INTERNAL", "SHARED"}, mentions : SUBSET Users]

Init ==
  /\ status = "DRAFT"
  /\ rows = [t \in Tables |-> {}]
  /\ used = 0
  /\ request = [q \in Requests |-> None]
  /\ acks = [u \in Users |-> 0]
  /\ reads = [u \in Users |-> 0]

-----------------------------------------------------------------------------
(***************************************************************************)
(* Access rules as they are read                                           *)
(***************************************************************************)
RulesOf(scope, permission) == {r \in rows["rules"] : r.key = <<scope, permission>>}

\* Mutant of Applicable: the general rules are read along with the others.
AllTogether(u, permission) ==
  RulesOf(Institution[u], permission) \cup RulesOf(None, permission)

\* enforce_case_permission: the institution's own rule, else a general one.
Applicable(u, permission) ==
  IF RulesOf(Institution[u], permission) # {} THEN RulesOf(Institution[u], permission)
  ELSE RulesOf(None, permission)

Permits(rule) == rule.allowed /\ (rule.clearance # None => CaseRank <= rule.clearance)

\* Of several applicable rules any may be the one that is read.
MayAct(u, permission) ==
  \/ u \in Exempt
  \/ Applicable(u, permission) = {}
  \/ \E rule \in Applicable(u, permission) : Permits(rule)

-----------------------------------------------------------------------------
(***************************************************************************)
(* Requests: a look-up, then a commit                                      *)
(***************************************************************************)
\* The effects beside the row: an audit entry of a user, a status of the case;
\* None where there is none.
Begin(q, table, old, new, audit, target) ==
  /\ request[q] = None
  /\ old = None => used < MaxRows
  /\ used' = IF old = None THEN used + 1 ELSE used
  /\ request' = [request EXCEPT ![q] =
       [table |-> table, old |-> old, new |-> new, audit |-> audit, target |-> target]]
  /\ UNCHANGED <<status, rows, acks, reads>>

\* The rows a look-up may return; a table without the key returns none.
Found(table, key) ==
  LET matching == {r \in rows[table] : r.key = key}
  IN  IF matching = {} THEN {None} ELSE matching

IdOf(old) == IF old = None THEN used + 1 ELSE old.id

\* An administrator of an institution writes its rules, whatever the scope in
\* the request: none means the institution's own.
Administers(actor, scope) == scope = actor \/ actor = None

\* upsert_access_rule; the actor is an institution, or None for the system.
BeginRule(q, actor, key, value) ==
  /\ Administers(actor, key[1])
  /\ \E old \in Found("rules", key) :
       Begin(q, "rules", old,
             [id |-> IdOf(old), key |-> key, allowed |-> value.allowed,
              clearance |-> value.clearance],
             None, None)

\* update_reference_item
BeginItem(q, code, active) ==
  /\ code \in Defaults => active
  /\ \E old \in Found("items", code) :
       Begin(q, "items", old, [id |-> IdOf(old), key |-> code, active |-> active], None, None)

\* _require_receipt_actor
MayReceipt(u) ==
  /\ Institution[u] = Receiver
  /\ status # "DRAFT"
  /\ MayAct(u, "cases.read")

\* _upsert_receipt: the row that was found, or a new one.
ReceiptOf(u, old) == IF old = None THEN [id |-> used + 1, key |-> u, read |-> FALSE] ELSE old

\* Mutant of BeginAcknowledge: the entry does not depend on `created`.
AcknowledgeAlways(q, u) ==
  /\ MayReceipt(u)
  /\ \E old \in Found("receipts", u) :
       Begin(q, "receipts", old, ReceiptOf(u, old), <<"acknowledged", u>>, None)

\* acknowledge_case
BeginAcknowledge(q, u) ==
  /\ MayReceipt(u)
  /\ \E old \in Found("receipts", u) :
       Begin(q, "receipts", old, ReceiptOf(u, old),
             IF old = None THEN <<"acknowledged", u>> ELSE None, None)

\* mark_case_read
BeginRead(q, u) ==
  /\ MayReceipt(u)
  /\ \E old \in Found("receipts", u) :
       Begin(q, "receipts", old, [ReceiptOf(u, old) EXCEPT !.read = TRUE],
             IF ReceiptOf(u, old).read THEN None ELSE <<"read", u>>, None)

\* receive_case by a member of the receiver, who gets a receipt with it.  What
\* else it changes is in CaseRules.
BeginReceive(q, u) ==
  /\ status = "SENT"
  /\ Institution[u] = Receiver
  /\ \E old \in Found("receipts", u) :
       Begin(q, "receipts", old, ReceiptOf(u, old), None, "RECEIVED")

\* Mutant of MayPost: a shared message may go into a draft.
MayPostAnytime(u, visibility) ==
  u \in Writers /\ status # "CLOSED" /\ MayAct(u, "cases.comment")

MayPost(u, visibility) ==
  /\ u \in Writers
  /\ MayAct(u, "cases.comment")
  /\ status # "CLOSED"
  /\ visibility = "SHARED" => status # "DRAFT"

\* post_comment: a member of the author's institution that may read the case
\* can be mentioned.
BeginComment(q, u, visibility, mentions) ==
  /\ MayPost(u, visibility)
  /\ \A w \in mentions : Institution[w] = Institution[u] /\ MayAct(w, "cases.read")
  /\ Begin(q, "comments", None,
           [id |-> used + 1, key |-> Institution[u], visibility |-> visibility,
            mentions |-> mentions], None, None)

\* Mutant of Conflicts: the tables have no unique constraints.
NeverConflicts(table, new) == FALSE

\* uq_access_rule_scope, uq_reference_item_catalog_code, uq_receipt_case_user
Conflicts(table, new) ==
  /\ table # "comments"
  /\ table = "rules" => new.key[1] # None
  /\ \E r \in rows[table] : r.id # new.id /\ r.key = new.key

\* Mutant of Written: all columns are written, as they were read.
WrittenWhole(r, old, new) == new

\* The columns that were changed, over whatever the row holds by now.
Written(r, old, new) == [c \in DOMAIN r |-> IF new[c] # old[c] THEN new[c] ELSE r[c]]

\* Mutant of Saved: a changed row is added beside the one it changes.
SavedBeside(table, old, new) == table \cup {new}

Saved(table, old, new) ==
  IF old = None THEN table \cup {new}
  ELSE {IF r.id = new.id THEN Written(r, old, new) ELSE r : r \in table}

\* Also records how often: an entry names the user that acted.
Counted(count, entry, what) ==
  [u \in Users |-> IF entry = <<what, u>> THEN count[u] + 1 ELSE count[u]]

Commit(q) ==
  /\ request[q] # None
  /\ LET w == request[q] IN
     /\ w.old # None \/ ~Conflicts(w.table, w.new)
     /\ rows' = [rows EXCEPT ![w.table] = Saved(@, w.old, w.new)]
     /\ acks' = Counted(acks, w.audit, "acknowledged")
     /\ reads' = Counted(reads, w.audit, "read")
     /\ status' = IF w.target = None THEN status ELSE w.target
  /\ request' = [request EXCEPT ![q] = None]
  /\ UNCHANGED used

\* A unique constraint refuses the row, or the process dies before its commit.
Fail(q) ==
  /\ request[q] # None
  /\ request' = [request EXCEPT ![q] = None]
  /\ UNCHANGED <<status, rows, used, acks, reads>>

-----------------------------------------------------------------------------
\* send_case and close_case, as far as it matters here.
MoveCase ==
  /\ \/ status = "DRAFT" /\ status' = "SENT"
     \/ status = "RECEIVED" /\ status' = "CLOSED"
  /\ UNCHANGED <<rows, used, request, acks, reads>>

BeginSome(q) ==
  \/ \E actor \in {Sender, Receiver, None}, key \in RuleKeys, value \in RuleValues :
       BeginRule(q, actor, key, value)
  \/ \E code \in Codes, active \in BOOLEAN : BeginItem(q, code, active)
  \/ \E u \in Users :
       \/ BeginAcknowledge(q, u)
       \/ BeginRead(q, u)
       \/ BeginReceive(q, u)
       \/ \E visibility \in {"INTERNAL", "SHARED"}, mentions \in SUBSET Users :
            BeginComment(q, u, visibility, mentions)

Next ==
  \/ \E q \in Requests : BeginSome(q) \/ Commit(q) \/ Fail(q)
  \/ MoveCase

Spec == Init /\ [][Next]_vars

-----------------------------------------------------------------------------
TypeOK ==
  /\ status \in {"DRAFT", "SENT", "RECEIVED", "CLOSED"}
  /\ rows["rules"] \subseteq Rule
  /\ rows["items"] \subseteq Item
  /\ rows["receipts"] \subseteq Receipt
  /\ rows["comments"] \subseteq Comment
  /\ \A t \in Tables : \A r, s \in rows[t] : r.id = s.id => r = s
  /\ used \in 0 .. MaxRows
  /\ acks \in [Users -> Nat] /\ reads \in [Users -> Nat]
  /\ \A q \in Requests : request[q] # None => request[q].table \in Tables

\* A question has one answer: an institution with a rule of its own gets that
\* rule's, whatever general rules there are, and a reference value is active or
\* not, however many requests set the rule or the value at once; the values
\* that new cases take by default stay active.
OneAnswer ==
  /\ \A u \in Users, permission \in Permissions :
       RulesOf(Institution[u], permission) # {} =>
         \A r, s \in Applicable(u, permission) : r = s
  /\ \A i, j \in rows["items"] : i.key = j.key => i = j
  /\ \A i \in rows["items"] : i.key \in Defaults => i.active

\* One receipt for each reader, however often and however close together the
\* case is acknowledged, marked as read or received; the trail records one
\* acknowledgement at most, and a receipt is read if the trail says so.
ReceiptsAreUnique ==
  \A u \in Users :
    LET mine == {r \in rows["receipts"] : r.key = u} IN
    /\ Cardinality(mine) <= 1
    /\ acks[u] <= Cardinality(mine)
    /\ reads[u] > 0 <=> \E r \in mine : r.read

\* A receipt is never withdrawn and never becomes unread again, whatever older
\* state of it another request still holds.
ReceiptsOnlyGrow ==
  [][\A r \in rows["receipts"] :
       \E s \in rows'["receipts"] : s.id = r.id /\ s.key = r.key /\ (r.read => s.read)]_vars

\* workspace shows a comment to its author's institution, shared ones to all.
Sees(u, comment) == comment.visibility = "SHARED" \/ comment.key = Institution[u]

\* Nothing of a draft crosses to the other institution: no message, no mention
\* and no receipt, although each of them is decided on an earlier status.
DraftStaysInside ==
  status = "DRAFT" =>
    /\ rows["receipts"] = {}
    /\ \A comment \in rows["comments"], u \in Users :
         Sees(u, comment) \/ u \in comment.mentions => comment.key = Institution[u]

=============================================================================
