-------------------------- MODULE WorkspaceProofs --------------------------
(***************************************************************************)
(* Which rows there can be when nothing locks what a request has looked    *)
(* up: for any users, rules, reference values and any number of requests   *)
(* at a time.  What carries it is the unique constraints, which are        *)
(* checked against the rows of the moment, and that a request which        *)
(* changes a row writes only the columns it has changed.                   *)
(***************************************************************************)
EXTENDS Workspace, FiniteSetTheorems, TLAPS

-----------------------------------------------------------------------------
(***************************************************************************)
(* The inductive invariant                                                 *)
(***************************************************************************)
\* A row that a table may hold while the case has the status it has.
RowOK(table, row) ==
  /\ table = "rules" => row \in Rule
  /\ table = "items" => row \in Item /\ (row.key \in Defaults => row.active)
  /\ table = "receipts" => row \in Receipt /\ status # "DRAFT"
  /\ table = "comments" =>
       /\ row \in Comment
       /\ status = "DRAFT" => row.visibility = "INTERNAL"
       /\ \A w \in row.mentions : Institution[w] = row.key

\* The tables and rows that a unique constraint binds.
Constrained(table, row) == table # "comments" /\ (table = "rules" => row.key[1] # None)

RowsOK ==
  /\ rows = [t \in Tables |-> rows[t]]
  /\ \A t \in Tables : \A r \in rows[t] : RowOK(t, r) /\ r.id <= used
  /\ \A t \in Tables : \A r, s \in rows[t] : r.id = s.id => r = s
  /\ \A t \in Tables : \A r, s \in rows[t] : r.key = s.key /\ Constrained(t, r) => r = s

\* What the trail counts: a receipt for every acknowledgement, and a read one
\* for every reading.
CountsOK ==
  \A u \in Users :
    /\ acks[u] <= 1
    /\ acks[u] > 0 => \E r \in rows["receipts"] : r.key = u
    /\ reads[u] > 0 <=> \E r \in rows["receipts"] : r.key = u /\ r.read

\* A new row has an identifier that no row of its table has; a changed one is
\* there, and of a receipt the request changes at most that it is read.  An
\* entry of the trail goes with what it records.
WriteOK(q) ==
  LET w == request[q] IN
  /\ w.table \in Tables
  /\ RowOK(w.table, w.new)
  /\ w.new.id <= used
  /\ w.target \in {None, "RECEIVED"}
  /\ w.target = "RECEIVED" => w.table = "receipts"
  /\ \A u \in Users : w.audit = <<"acknowledged", u>> =>
       w.table = "receipts" /\ w.new.key = u /\ w.old = None
  /\ \A u \in Users : w.audit = <<"read", u>> =>
       w.table = "receipts" /\ w.new.key = u /\ w.new.read /\ (w.old # None => ~w.old.read)
  /\ w.old = None =>
       /\ w.table = "receipts" /\ w.new.read => w.audit = <<"read", w.new.key>>
       /\ \A r \in rows[w.table] : r.id # w.new.id
  /\ w.old # None =>
       /\ w.table = "receipts" /\ w.new.read # w.old.read =>
            w.new.read /\ w.audit = <<"read", w.new.key>>
       /\ \E r \in rows[w.table] : r.id = w.new.id /\ r.key = w.new.key

Inserts(q) == request[q] # None /\ request[q].old = None

RequestsOK ==
  /\ request = [q \in Requests |-> request[q]]
  /\ \A q \in Requests : request[q] # None => WriteOK(q)
  /\ \A p, q \in Requests :
       Inserts(p) /\ Inserts(q) /\ request[p].new.id = request[q].new.id => p = q

StateOK ==
  /\ status \in {"DRAFT", "SENT", "RECEIVED", "CLOSED"}
  /\ used \in 0 .. MaxRows
  /\ acks \in [Users -> Nat] /\ reads \in [Users -> Nat]

IInv == StateOK /\ RowsOK /\ CountsOK /\ RequestsOK

-----------------------------------------------------------------------------
(***************************************************************************)
(* Rows                                                                    *)
(***************************************************************************)
\* What a row may be does not get narrower while no case becomes a draft again.
LEMMA RowStays ==
  ASSUME NEW table, NEW row, RowOK(table, row), status' = "DRAFT" => status = "DRAFT"
  PROVE  RowOK(table, row)'
BY DEF RowOK

\* Writing over a row what was changed in another state of it leaves a row of
\* the table, with the same identifier and the same key.
LEMMA WrittenIsRow ==
  ASSUME NEW table \in Tables, NEW r, NEW old, NEW new, RowOK(table, r), RowOK(table, new),
         r.id = new.id, r.key = new.key
  PROVE  /\ RowOK(table, Written(r, old, new))
         /\ Written(r, old, new).id = r.id /\ Written(r, old, new).key = r.key
<1> DEFINE w == Written(r, old, new)
<1>1. /\ w = [c \in DOMAIN r |-> w[c]]
      /\ \A c \in DOMAIN r : w[c] \in {r[c], new[c]}
  BY DEF Written
<1> HIDE DEF w
<1>2. CASE table = "rules"
  <2>1. r \in Rule /\ new \in Rule
    BY <1>2 DEF RowOK
  <2>2. w.id = r.id /\ w.key = r.key /\ w.allowed \in BOOLEAN /\ w.clearance \in Nat \cup {None}
    BY <1>1, <2>1 DEF Rule
  <2>3. w \in Rule
    BY <1>1, <2>1, <2>2 DEF Rule
  <2> QED
    BY <1>2, <2>2, <2>3 DEF RowOK, w
<1>3. CASE table = "items"
  <2>1. r \in Item /\ new \in Item
    BY <1>3 DEF RowOK
  <2>2. w.id = r.id /\ w.key = r.key /\ w.active \in {r.active, new.active}
    BY <1>1, <2>1 DEF Item
  <2>3. w \in Item
    BY <1>1, <2>1, <2>2 DEF Item
  <2> QED
    BY <1>3, <2>2, <2>3 DEF RowOK, w
<1>4. CASE table = "receipts"
  <2>1. r \in Receipt /\ new \in Receipt
    BY <1>4 DEF RowOK
  <2>2. w.id = r.id /\ w.key = r.key /\ w.read \in BOOLEAN
    BY <1>1, <2>1 DEF Receipt
  <2>3. w \in Receipt
    BY <1>1, <2>1, <2>2 DEF Receipt
  <2> QED
    BY <1>4, <2>2, <2>3 DEF RowOK, w
<1>5. CASE table = "comments"
  <2>1. r \in Comment /\ new \in Comment
    BY <1>5 DEF RowOK
  <2>2. /\ w.id = r.id /\ w.key = r.key /\ w.visibility \in {r.visibility, new.visibility}
        /\ w.mentions \in {r.mentions, new.mentions}
    BY <1>1, <2>1 DEF Comment
  <2>3. w \in Comment
    BY <1>1, <2>1, <2>2 DEF Comment
  <2> QED
    BY <1>5, <2>2, <2>3 DEF RowOK, w
<1> QED
  BY <1>2, <1>3, <1>4, <1>5 DEF Tables

\* A row that is added makes the rows one more.
LEMMA InsertSaves ==
  ASSUME NEW table, NEW new
  PROVE  Saved(table, None, new) = table \cup {new}
BY DEF Saved

\* A receipt that is written over is read if it was, or if the request read it.
LEMMA WrittenReceipt ==
  ASSUME NEW r \in Receipt, NEW old, NEW new, r.id = new.id, r.key = new.key
  PROVE  Written(r, old, new).read = IF new.read # old.read THEN new.read ELSE r.read
BY DEF Receipt, Written

-----------------------------------------------------------------------------
(***************************************************************************)
(* A request begins                                                        *)
(***************************************************************************)
\* What is inserted or changed, and what goes with it, is all there is to check.
LEMMA BeginKeeps ==
  ASSUME IInv, NEW q \in Requests, NEW table \in Tables, NEW old \in {None} \cup rows[table],
         NEW new, NEW audit, NEW target \in {None, "RECEIVED"},
         Begin(q, table, old, new, audit, target),
         new.id = IdOf(old), RowOK(table, new),
         old # None => new.key = old.key,
         target = "RECEIVED" => table = "receipts",
         audit # None => table = "receipts",
         table = "receipts" =>
           /\ \A u \in Users : audit = <<"acknowledged", u>> => new.key = u /\ old = None
           /\ \A u \in Users : audit = <<"read", u>> =>
                new.key = u /\ new.read /\ (old # None => ~old.read)
           /\ old = None /\ new.read => audit = <<"read", new.key>>
           /\ old # None /\ new.read # old.read => new.read /\ audit = <<"read", new.key>>
  PROVE  IInv'
<1> DEFINE w == [table |-> table, old |-> old, new |-> new, audit |-> audit, target |-> target]
<1>1. /\ request' = [request EXCEPT ![q] = w] /\ UNCHANGED <<status, rows, acks, reads>>
      /\ used' = IF old = None THEN used + 1 ELSE used
      /\ old = None => used < MaxRows
  BY DEF Begin
<1>2. request' = [p \in Requests |-> request'[p]] /\ request'[q] = w
      /\ \A p \in Requests \ {q} : request'[p] = request[p]
  BY <1>1 DEF IInv, RequestsOK
<1>3. used \in Nat /\ used' \in Nat /\ used <= used' /\ used' <= MaxRows 
      /\ used' \in 0 .. MaxRows
  BY <1>1, BoundAssumption DEF IInv, StateOK
<1>4. StateOK' /\ CountsOK'
  BY <1>1, <1>3 DEF IInv, StateOK, CountsOK
<1>5. \A t \in Tables : \A r \in rows[t] : r.id \in Nat /\ r.id <= used
  BY <1>3 DEF IInv, RowsOK, RowOK, Tables, Rule, Item, Receipt, Comment
<1>6. RowsOK'
  <2>1. ASSUME NEW t \in Tables, NEW r \in rows[t]
        PROVE  RowOK(t, r)' /\ r.id <= used'
    BY <1>1, <1>3, <1>5, RowStays DEF IInv, RowsOK
  <2> QED
    BY <1>1, <2>1 DEF IInv, RowsOK, Constrained
<1>7. new.id \in Nat /\ new.id <= used' /\ RowOK(table, new)'
      /\ (old = None => new.id = used + 1)
  <2>1. CASE old = None
    BY <1>1, <1>3, <2>1, RowStays DEF IdOf
  <2>2. CASE old # None
    BY <1>1, <1>3, <1>5, <2>2, RowStays DEF IdOf
  <2> QED
    BY <2>1, <2>2
<1>8. ASSUME NEW u \in Users
      PROVE  /\ audit = <<"acknowledged", u>> \/ audit = <<"read", u>> => table = "receipts"
             /\ audit = <<"acknowledged", u>> => new.key = u /\ old = None
             /\ audit = <<"read", u>> => new.key = u /\ new.read /\ (old # None => ~old.read)
  BY NoneAssumption
<1>9. old = None => \A r \in rows[table] : r.id # new.id
  BY <1>3, <1>5, <1>7
<1>10. old # None => \E r \in rows[table] : r.id = new.id /\ r.key = new.key
  BY DEF IdOf
<1>11. WriteOK(q)'
  BY <1>1, <1>2, <1>7, <1>8, <1>9, <1>10 DEF WriteOK
<1>12. ASSUME NEW p \in Requests \ {q}, request[p] # None
       PROVE  WriteOK(p)'
  <2>1. WriteOK(p)
    BY <1>12 DEF IInv, RequestsOK
  <2>2. RowOK(request[p].table, request[p].new)'
    BY <1>1, <2>1, RowStays DEF WriteOK
  <2>3. request[p].new.id \in Nat
    BY <2>1 DEF WriteOK, RowOK, Tables, Rule, Item, Receipt, Comment
  <2>4. request[p].new.id <= used'
    BY <1>3, <2>1, <2>3 DEF WriteOK
  <2> QED
    BY <1>1, <1>2, <2>1, <2>2, <2>4 DEF WriteOK
<1>13. ASSUME NEW p \in Requests \ {q}, request[p] # None
       PROVE  request[p].new.id \in Nat /\ request[p].new.id <= used
  BY <1>13 DEF IInv, RequestsOK, WriteOK, RowOK, Tables, Rule, Item, Receipt, Comment
<1>14. RequestsOK'
  <2>1. \A p \in Requests : request'[p] # None => WriteOK(p)'
    BY <1>2, <1>11, <1>12
  <2>2. ASSUME NEW p \in Requests, NEW o \in Requests, Inserts(p)', Inserts(o)',
               request'[p].new.id = request'[o].new.id
        PROVE  p = o
    <3>1. CASE p # q /\ o # q
      BY <1>2, <2>2, <3>1 DEF IInv, RequestsOK, Inserts
    <3>2. ASSUME NEW other \in Requests \ {q}, Inserts(other)', Inserts(q)'
          PROVE  request'[other].new.id # request'[q].new.id
      BY <1>2, <1>3, <1>7, <1>13, <3>2 DEF Inserts
    <3> QED
      BY <2>2, <3>1, <3>2
  <2> QED
    BY <1>2, <2>1, <2>2 DEF RequestsOK
<1> QED
  BY <1>4, <1>6, <1>14 DEF IInv

\* What a look-up returns.
LEMMA FoundIs ==
  ASSUME IInv, NEW table \in Tables, NEW key, NEW old \in Found(table, key),
         old = None => used < MaxRows
  PROVE  /\ old \in {None} \cup rows[table]
         /\ IdOf(old) \in 1 .. MaxRows
         /\ old # None => old.key = key /\ RowOK(table, old)
<1>1. old = None \/ (old \in rows[table] /\ old.key = key)
  BY DEF Found
<1>2. used \in Nat
  BY DEF IInv, StateOK
<1>3. CASE old = None
  BY <1>2, <1>3, BoundAssumption DEF IdOf
<1>4. CASE old # None
  <2>1. RowOK(table, old)
    BY <1>1, <1>4 DEF IInv, RowsOK
  <2>2. old.id \in 1 .. MaxRows
    BY <2>1 DEF RowOK, Tables, Rule, Item, Receipt, Comment
  <2> QED
    BY <1>1, <1>4, <2>1, <2>2 DEF IdOf
<1> QED
  BY <1>3, <1>4

\* An access rule is set.
LEMMA RuleBegins ==
  ASSUME IInv, NEW q \in Requests, NEW actor, NEW key \in RuleKeys, NEW value \in RuleValues,
         BeginRule(q, actor, key, value)
  PROVE  IInv'
<1>1. PICK old \in Found("rules", key) :
        Begin(q, "rules", old,
              [id |-> IdOf(old), key |-> key, allowed |-> value.allowed,
               clearance |-> value.clearance], None, None)
  BY DEF BeginRule
<1> DEFINE new == [id |-> IdOf(old), key |-> key, allowed |-> value.allowed,
                   clearance |-> value.clearance]
<1>2. old = None => used < MaxRows
  BY <1>1 DEF Begin
<1>3. /\ old \in {None} \cup rows["rules"] /\ IdOf(old) \in 1 .. MaxRows
      /\ old # None => old.key = key
  BY <1>2, FoundIs DEF Tables
<1>4. RowOK("rules", new)
  BY <1>3, RuleAssumption DEF RowOK, Rule
<1>5. new.id = IdOf(old) /\ new.key = key
  OBVIOUS
<1>6. Begin(q, "rules", old, new, None, None)
  BY <1>1
<1> HIDE DEF new
<1> QED
  BY <1>3, <1>4, <1>5, <1>6, BeginKeeps, NoneAssumption DEF Tables

\* A reference value is switched.
LEMMA ItemBegins ==
  ASSUME IInv, NEW q \in Requests, NEW code \in Codes, NEW active \in BOOLEAN,
         BeginItem(q, code, active)
  PROVE  IInv'
<1>1. PICK old \in Found("items", code) :
        Begin(q, "items", old, [id |-> IdOf(old), key |-> code, active |-> active], None, None)
  BY DEF BeginItem
<1> DEFINE new == [id |-> IdOf(old), key |-> code, active |-> active]
<1>2. old = None => used < MaxRows
  BY <1>1 DEF Begin
<1>3. /\ old \in {None} \cup rows["items"] /\ IdOf(old) \in 1 .. MaxRows
      /\ old # None => old.key = code
  BY <1>2, FoundIs DEF Tables
<1>4. RowOK("items", new)
  BY <1>3 DEF RowOK, Item, BeginItem
<1>5. new.id = IdOf(old) /\ new.key = code
  OBVIOUS
<1>6. Begin(q, "items", old, new, None, None)
  BY <1>1
<1> HIDE DEF new
<1> QED
  BY <1>3, <1>4, <1>5, <1>6, BeginKeeps, NoneAssumption DEF Tables

\* A comment is posted.
LEMMA CommentBegins ==
  ASSUME IInv, NEW q \in Requests, NEW u \in Users, NEW visibility \in {"INTERNAL", "SHARED"},
         NEW mentions \in SUBSET Users, BeginComment(q, u, visibility, mentions)
  PROVE  IInv'
<1> DEFINE new == [id |-> used + 1, key |-> Institution[u], visibility |-> visibility,
                   mentions |-> mentions]
<1>1. Begin(q, "comments", None, new, None, None)
  BY DEF BeginComment
<1>2. used < MaxRows /\ used \in Nat
  BY <1>1 DEF Begin, IInv, StateOK
<1>3. used + 1 \in 1 .. MaxRows
  BY <1>2, BoundAssumption
<1>4. RowOK("comments", new)
  BY <1>3 DEF RowOK, Comment, BeginComment, MayPost
<1>5. new.id = IdOf(None)
  BY DEF IdOf
<1> HIDE DEF new
<1> QED
  BY <1>1, <1>4, <1>5, BeginKeeps, NoneAssumption DEF Tables

\* A receipt is written: it says at least what the one that was found said.
LEMMA ReceiptBegins ==
  ASSUME IInv, NEW q \in Requests, NEW u \in Users, NEW old \in Found("receipts", u),
         status # "DRAFT", NEW read \in BOOLEAN, ReceiptOf(u, old).read => read,
         NEW audit, NEW target \in {None, "RECEIVED"},
         Begin(q, "receipts", old, [ReceiptOf(u, old) EXCEPT !.read = read], audit, target),
         \A v \in Users : audit = <<"acknowledged", v>> => v = u /\ old = None,
         \A v \in Users : audit = <<"read", v>> => v = u,
         audit = <<"read", u>> <=> read /\ ~ReceiptOf(u, old).read
  PROVE  IInv'
<1> DEFINE r == ReceiptOf(u, old)
           new == [r EXCEPT !.read = read]
<1>1. old = None => used < MaxRows
  BY DEF Begin
<1>2. /\ old \in {None} \cup rows["receipts"] /\ IdOf(old) \in 1 .. MaxRows
      /\ old # None => old.key = u /\ old \in Receipt
  BY <1>1, FoundIs DEF Tables, RowOK
<1>3. r \in Receipt /\ r.id = IdOf(old) /\ r.key = u
      /\ (IF old = None THEN ~r.read ELSE r.read = old.read)
  BY <1>2 DEF ReceiptOf, IdOf, Receipt
<1> HIDE DEF r
<1>4. new \in Receipt /\ new.id = IdOf(old) /\ new.key = u /\ new.read = read
  BY <1>3 DEF Receipt
<1>5. Begin(q, "receipts", old, new, audit, target) /\ RowOK("receipts", new)
  BY <1>4 DEF RowOK, r
<1>6. (audit = <<"read", u>> <=> read /\ ~r.read) /\ (r.read => read)
  BY DEF r
<1>7. r.read \in BOOLEAN /\ (old # None => old.read \in BOOLEAN)
  BY <1>2, <1>3 DEF Receipt
<1>8. /\ \A v \in Users : audit = <<"acknowledged", v>> => new.key = v /\ old = None
      /\ \A v \in Users : audit = <<"read", v>> =>
           new.key = v /\ new.read /\ (old # None => ~old.read)
      /\ old = None /\ new.read => audit = <<"read", new.key>>
      /\ old # None /\ new.read # old.read => new.read /\ audit = <<"read", new.key>>
  BY <1>3, <1>4, <1>6, <1>7
<1> HIDE DEF new
<1> QED
  BY <1>2, <1>4, <1>5, <1>8, BeginKeeps DEF Tables

\* The receipt that stays what it was is written like any other.
LEMMA SameReceipt ==
  ASSUME NEW u \in Users, NEW old, ReceiptOf(u, old) \in Receipt
  PROVE  ReceiptOf(u, old) = [ReceiptOf(u, old) EXCEPT !.read = ReceiptOf(u, old).read]
<1>1. ASSUME NEW r \in Receipt
      PROVE  r = [r EXCEPT !.read = r.read]
  BY DEF Receipt
<1> QED
  BY <1>1

\* A receipt that is written as it was found, or a new one that is unread.
LEMMA UnreadBegins ==
  ASSUME IInv, NEW q \in Requests, NEW u \in Users, NEW old \in Found("receipts", u),
         status # "DRAFT", NEW audit, NEW target \in {None, "RECEIVED"},
         Begin(q, "receipts", old, ReceiptOf(u, old), audit, target),
         audit = None \/ (audit = <<"acknowledged", u>> /\ old = None)
  PROVE  IInv'
<1> DEFINE r == ReceiptOf(u, old)
<1>1. old = None => used < MaxRows
  BY DEF Begin
<1>2. /\ IdOf(old) \in 1 .. MaxRows
      /\ old # None => old \in Receipt
  BY <1>1, FoundIs DEF Tables, RowOK
<1>3. r \in Receipt
  BY <1>2 DEF ReceiptOf, IdOf, Receipt
<1>4. r.read \in BOOLEAN /\ Begin(q, "receipts", old, [r EXCEPT !.read = r.read], audit, target)
  <2>1. r.read \in BOOLEAN
    BY <1>3 DEF Receipt
  <2> QED
    BY <1>3, <2>1, SameReceipt
<1>5. /\ \A v \in Users : audit = <<"acknowledged", v>> => v = u /\ old = None
      /\ \A v \in Users : audit # <<"read", v>>
  BY NoneAssumption
<1> QED
  BY <1>4, <1>5, ReceiptBegins

\* Any request that begins keeps the invariant.
LEMMA BeginsKeep ==
  ASSUME IInv, NEW q \in Requests, BeginSome(q)
  PROVE  IInv'
<1>1. ASSUME NEW u \in Users, BeginAcknowledge(q, u)
      PROVE  IInv'
  <2>1. PICK old \in Found("receipts", u) :
          Begin(q, "receipts", old, ReceiptOf(u, old),
                IF old = None THEN <<"acknowledged", u>> ELSE None, None)
    BY <1>1 DEF BeginAcknowledge
  <2>2. status # "DRAFT"
    BY <1>1 DEF BeginAcknowledge, MayReceipt
  <2>3. CASE old = None
    <3>1. Begin(q, "receipts", old, ReceiptOf(u, old), <<"acknowledged", u>>, None)
      BY <2>1, <2>3
    <3> QED
      BY <2>2, <2>3, <3>1, UnreadBegins
  <2>4. CASE old # None
    <3>1. Begin(q, "receipts", old, ReceiptOf(u, old), None, None)
      BY <2>1, <2>4
    <3> QED
      BY <2>2, <3>1, UnreadBegins
  <2> QED
    BY <2>3, <2>4
<1>2. ASSUME NEW u \in Users, BeginRead(q, u)
      PROVE  IInv'
  <2>1. PICK old \in Found("receipts", u) :
          Begin(q, "receipts", old, [ReceiptOf(u, old) EXCEPT !.read = TRUE],
                IF ReceiptOf(u, old).read THEN None ELSE <<"read", u>>, None)
    BY <1>2 DEF BeginRead
  <2> DEFINE audit == IF ReceiptOf(u, old).read THEN None ELSE <<"read", u>>
             read == TRUE
  <2>2. status # "DRAFT"
    BY <1>2 DEF BeginRead, MayReceipt
  <2>3. /\ \A v \in Users : audit # <<"acknowledged", v>>
        /\ \A v \in Users : audit = <<"read", v>> => v = u
        /\ audit = <<"read", u>> <=> read /\ ~ReceiptOf(u, old).read
    BY NoneAssumption
  <2>4. Begin(q, "receipts", old, [ReceiptOf(u, old) EXCEPT !.read = read], audit, None)
    BY <2>1
  <2>5. read \in BOOLEAN /\ (ReceiptOf(u, old).read => read)
    OBVIOUS
  <2> HIDE DEF audit, read
  <2> QED
    BY <2>2, <2>3, <2>4, <2>5, ReceiptBegins
<1>3. ASSUME NEW u \in Users, BeginReceive(q, u)
      PROVE  IInv'
  <2>1. PICK old \in Found("receipts", u) :
          Begin(q, "receipts", old, ReceiptOf(u, old), None, "RECEIVED")
    BY <1>3 DEF BeginReceive
  <2>2. status # "DRAFT"
    BY <1>3 DEF BeginReceive
  <2> QED
    BY <2>1, <2>2, UnreadBegins
<1> QED
  BY <1>1, <1>2, <1>3, RuleBegins, ItemBegins, CommentBegins DEF BeginSome

-----------------------------------------------------------------------------
(***************************************************************************)
(* A request ends, and the case moves                                      *)
(***************************************************************************)
\* A request that ends without a commit, or a case that moves on, changes no
\* row.
LEMMA NoRowChanges ==
  ASSUME IInv, UNCHANGED <<rows, used, acks, reads>>,
         status' \in {"DRAFT", "SENT", "RECEIVED", "CLOSED"},
         status' = "DRAFT" => status = "DRAFT",
         request' = [q \in Requests |-> request'[q]],
         \A q \in Requests : request'[q] \in {request[q], None}
  PROVE  IInv'
<1>1. StateOK' /\ CountsOK'
  BY DEF IInv, StateOK, CountsOK
<1>2. RowsOK'
  <2>1. ASSUME NEW t \in Tables, NEW r \in rows[t]
        PROVE  RowOK(t, r)'
    BY RowStays DEF IInv, RowsOK
  <2> QED
    BY <2>1 DEF IInv, RowsOK, Constrained
<1>3. ASSUME NEW q \in Requests, request'[q] # None
      PROVE  request'[q] = request[q] /\ WriteOK(q)'
  <2>1. request'[q] = request[q] /\ WriteOK(q)
    BY <1>3 DEF IInv, RequestsOK
  <2>2. RowOK(request[q].table, request[q].new)'
    BY <2>1, RowStays DEF WriteOK
  <2> QED
    BY <2>1, <2>2 DEF WriteOK
<1>4. RequestsOK'
  <2>1. ASSUME NEW p \in Requests, NEW q \in Requests, Inserts(p)', Inserts(q)',
               request'[p].new.id = request'[q].new.id
        PROVE  p = q
    BY <1>3, <2>1 DEF IInv, RequestsOK, Inserts
  <2> QED
    BY <1>3, <2>1 DEF RequestsOK
<1> QED
  BY <1>1, <1>2, <1>4 DEF IInv

\* What a commit does to the rows of the one table it writes.
LEMMA CommitTable ==
  ASSUME IInv, NEW q \in Requests, Commit(q)
  PROVE  LET w == request[q] IN
         /\ WriteOK(q)
         /\ w.table \in Tables
         /\ w.old = None => rows'[w.table] = rows[w.table] \cup {w.new}
         /\ w.old # None => rows'[w.table] = Saved(rows[w.table], w.old, w.new)
         /\ \A t \in Tables \ {w.table} : rows'[t] = rows[t]
         /\ rows' = [t \in Tables |-> rows'[t]]
         /\ status' \in {"DRAFT", "SENT", "RECEIVED", "CLOSED"}
         /\ status' = "DRAFT" => status = "DRAFT"
<1> DEFINE w == request[q]
<1>1. WriteOK(q)
  BY DEF Commit, IInv, RequestsOK
<1>2. w.table \in Tables /\ w.target \in {None, "RECEIVED"}
  BY <1>1 DEF WriteOK
<1>3. /\ rows' = [rows EXCEPT ![w.table] = Saved(rows[w.table], w.old, w.new)]
      /\ rows = [t \in Tables |-> rows[t]]
  BY DEF Commit, IInv, RowsOK
<1>4. /\ rows' = [t \in Tables |-> rows'[t]]
      /\ rows'[w.table] = Saved(rows[w.table], w.old, w.new)
      /\ \A t \in Tables \ {w.table} : rows'[t] = rows[t]
  BY <1>2, <1>3
<1>5. w.old = None => Saved(rows[w.table], w.old, w.new) = rows[w.table] \cup {w.new}
  BY InsertSaves
<1>6. /\ status' \in {"DRAFT", "SENT", "RECEIVED", "CLOSED"}
      /\ status' = "DRAFT" => status = "DRAFT"
  BY <1>2 DEF Commit, IInv, StateOK
<1> QED
  BY <1>1, <1>2, <1>4, <1>5, <1>6

\* What the commit of a request makes of a row.
After(w, table, r) ==
  IF table = w.table /\ w.old # None /\ r.id = w.new.id THEN Written(r, w.old, w.new) ELSE r

\* The row that a request changes has the key that the request has read.
LEMMA AfterIsRow ==
  ASSUME IInv, NEW q \in Requests, request[q] # None, NEW t \in Tables, NEW r \in rows[t]
  PROVE  /\ RowOK(t, After(request[q], t, r))
         /\ After(request[q], t, r).id = r.id
         /\ After(request[q], t, r).key = r.key
<1> DEFINE w == request[q]
<1>1. RowOK(t, r) /\ WriteOK(q)
  BY DEF IInv, RowsOK, RequestsOK
<1>2. CASE t = w.table /\ w.old # None /\ r.id = w.new.id
  <2>1. RowOK(t, w.new)
    BY <1>1, <1>2 DEF WriteOK
  <2>2. PICK s \in rows[t] : s.id = w.new.id /\ s.key = w.new.key
    BY <1>1, <1>2 DEF WriteOK
  <2>3. r.key = w.new.key
    BY <1>2, <2>2 DEF IInv, RowsOK
  <2>4. After(w, t, r) = Written(r, w.old, w.new)
    BY <1>2 DEF After
  <2> QED
    BY <1>1, <1>2, <2>1, <2>3, <2>4, WrittenIsRow
<1>3. CASE ~(t = w.table /\ w.old # None /\ r.id = w.new.id)
  BY <1>1, <1>3 DEF After
<1> QED
  BY <1>2, <1>3

\* After a commit there are the rows of before, as it leaves them, and the new
\* one.
LEMMA CommitRows ==
  ASSUME IInv, NEW q \in Requests, Commit(q), NEW t \in Tables
  PROVE  LET w == request[q] IN
         /\ \A r \in rows[t] : After(w, t, r) \in rows'[t]
         /\ t = w.table /\ w.old = None => w.new \in rows'[t]
         /\ \A s \in rows'[t] :
              \/ \E r \in rows[t] : s = After(w, t, r)
              \/ t = w.table /\ w.old = None /\ s = w.new
<1> DEFINE w == request[q]
<1>1. CASE t # w.table
  BY <1>1, CommitTable DEF After
<1>2. CASE t = w.table /\ w.old = None
  <2>1. rows'[t] = rows[t] \cup {w.new}
    BY <1>2, CommitTable
  <2>2. \A r \in rows[t] : After(w, t, r) = r
    BY <1>2 DEF After
  <2> QED
    BY <1>2, <2>1, <2>2
<1>3. CASE t = w.table /\ w.old # None
  <2>1. rows'[t] = Saved(rows[t], w.old, w.new)
    BY <1>3, CommitTable
  <2>2. \A r \in rows[t] :
          After(w, t, r) = IF r.id = w.new.id THEN Written(r, w.old, w.new) ELSE r
    BY <1>3 DEF After
  <2>3. /\ \A s \in rows'[t] :
             \E r \in rows[t] : s = IF r.id = w.new.id THEN Written(r, w.old, w.new) ELSE r
        /\ \A r \in rows[t] :
             (IF r.id = w.new.id THEN Written(r, w.old, w.new) ELSE r) \in rows'[t]
    <3>1. rows'[t] = {IF r.id = w.new.id THEN Written(r, w.old, w.new) ELSE r : r \in rows[t]}
      BY <1>3, <2>1 DEF Saved
    <3> HIDE DEF w
    <3> QED
      BY <3>1
  <2> QED
    BY <1>3, <2>2, <2>3
<1> QED
  BY <1>1, <1>2, <1>3

\* A new row has an identifier and, where a unique constraint binds it, a key
\* of its own.
LEMMA InsertIsNew ==
  ASSUME IInv, NEW q \in Requests, Commit(q), request[q].old = None
  PROVE  LET w == request[q] IN
         /\ \A r \in rows[w.table] : r.id # w.new.id
         /\ Constrained(w.table, w.new) => \A r \in rows[w.table] : r.key # w.new.key
<1>1. WriteOK(q)
  BY CommitTable
<1>2. ~Conflicts(request[q].table, request[q].new)
  BY DEF Commit
<1>3. \A r \in rows[request[q].table] : r.id # request[q].new.id
  BY <1>1 DEF WriteOK
<1> QED
  BY <1>2, <1>3 DEF Conflicts, Constrained

\* The rows after a commit.
LEMMA CommitKeepsRows ==
  ASSUME IInv, NEW q \in Requests, Commit(q)
  PROVE  RowsOK'
<1> DEFINE w == request[q]
<1>0. w # None /\ UNCHANGED used
  BY DEF Commit
<1>1. WriteOK(q) /\ w.table \in Tables /\ rows' = [t \in Tables |-> rows'[t]]
      /\ (status' = "DRAFT" => status = "DRAFT")
  BY CommitTable
<1>2. ASSUME NEW t \in Tables, NEW s \in rows'[t]
      PROVE  RowOK(t, s)' /\ s.id <= used'
  <2>1. CASE t = w.table /\ w.old = None /\ s = w.new
    BY <1>0, <1>1, <2>1, RowStays DEF WriteOK
  <2>2. CASE \E r \in rows[t] : s = After(w, t, r)
    <3>1. PICK r \in rows[t] : s = After(w, t, r)
      BY <2>2
    <3>2. RowOK(t, s) /\ s.id = r.id
      BY <1>0, <3>1, AfterIsRow
    <3>3. RowOK(t, s)'
      BY <1>1, <3>2, RowStays
    <3> QED
      BY <1>0, <3>2, <3>3 DEF IInv, RowsOK
  <2> QED
    BY <2>1, <2>2, CommitRows
<1>3. ASSUME NEW t \in Tables, NEW r \in rows'[t], NEW s \in rows'[t],
             r.id = s.id \/ (r.key = s.key /\ Constrained(t, r))
      PROVE  r = s
  <2>1. ASSUME t = w.table, w.old = None, NEW a \in rows[t]
        PROVE  /\ After(w, t, a) = a /\ a.id # w.new.id
               /\ ~(a.key = w.new.key /\ (Constrained(t, w.new) \/ Constrained(t, a)))
    BY <2>1, InsertIsNew DEF After, Constrained
  <2>2. CASE (\E a \in rows[t] : r = After(w, t, a)) /\ (\E b \in rows[t] : s = After(w, t, b))
    <3>1. PICK a \in rows[t], b \in rows[t] : r = After(w, t, a) /\ s = After(w, t, b)
      BY <2>2
    <3>2. r.id = a.id /\ r.key = a.key /\ s.id = b.id /\ s.key = b.key
      BY <1>0, <3>1, AfterIsRow
    <3>3. a = b
      BY <1>3, <3>2 DEF IInv, RowsOK, Constrained
    <3> QED
      BY <3>1, <3>3
  <2>3. CASE t = w.table /\ w.old = None /\ (r = w.new \/ s = w.new)
    <3>1. \A x \in {r, s} : x = w.new \/ x \in rows[t]
      BY <2>1, <2>3, CommitRows
    <3>2. \A x \in rows[t] :
            /\ x.id # w.new.id
            /\ ~(x.key = w.new.key /\ (Constrained(t, w.new) \/ Constrained(t, x)))
      BY <2>1, <2>3
    <3> QED
      BY <1>3, <2>3, <3>1, <3>2
  <2> QED
    BY <2>2, <2>3, CommitRows
<1> QED
  BY <1>1, <1>2, <1>3 DEF RowsOK, Constrained

\* A commit never makes a receipt unread, and one that makes it read says so.
LEMMA AfterReceipt ==
  ASSUME IInv, NEW q \in Requests, request[q] # None, NEW r \in rows["receipts"]
  PROVE  LET s == After(request[q], "receipts", r) IN
         /\ r.read => s.read
         /\ s.read /\ ~r.read => request[q].audit = <<"read", r.key>>
<1> DEFINE w == request[q]
           s == After(w, "receipts", r)
<1>1. WriteOK(q) /\ r \in Receipt
  BY DEF IInv, RowsOK, RequestsOK, RowOK, Tables
<1>2. CASE w.table = "receipts" /\ w.old # None /\ r.id = w.new.id
  <2>1. PICK x \in rows["receipts"] : x.id = w.new.id /\ x.key = w.new.key
    BY <1>1, <1>2 DEF WriteOK
  <2>2. r.key = w.new.key
    BY <1>2, <2>1 DEF IInv, RowsOK, Tables
  <2>3. s.read = IF w.new.read # w.old.read THEN w.new.read ELSE r.read
    <3>1. s = Written(r, w.old, w.new)
      BY <1>2 DEF After
    <3> QED
      BY <1>1, <1>2, <2>2, <3>1, WrittenReceipt
  <2>4. w.new.read # w.old.read => w.new.read /\ w.audit = <<"read", w.new.key>>
    BY <1>1, <1>2 DEF WriteOK
  <2> QED
    BY <2>2, <2>3, <2>4
<1>3. CASE ~(w.table = "receipts" /\ w.old # None /\ r.id = w.new.id)
  BY <1>3 DEF After
<1> QED
  BY <1>2, <1>3

\* When a commit records that a user has read the case, the receipt is there.
LEMMA ReadIsThere ==
  ASSUME IInv, NEW q \in Requests, Commit(q), NEW u \in Users, request[q].audit = <<"read", u>>
  PROVE  \E s \in rows'["receipts"] : s.key = u /\ s.read
<1> DEFINE w == request[q]
<1>1. w # None
  BY DEF Commit
<1>2. /\ WriteOK(q) /\ w.table = "receipts" /\ w.new.key = u /\ w.new.read
      /\ w.old # None => ~w.old.read
  <2>1. WriteOK(q)
    BY CommitTable
  <2> QED
    BY <2>1 DEF WriteOK
<1>3. CASE w.old = None
  BY <1>2, <1>3, CommitRows DEF Tables
<1>4. CASE w.old # None
  <2>1. PICK r \in rows["receipts"] : r.id = w.new.id /\ r.key = u
    BY <1>2, <1>4 DEF WriteOK
  <2>2. After(w, "receipts", r) \in rows'["receipts"] /\ After(w, "receipts", r).key = u
    BY <1>1, <2>1, CommitRows, AfterIsRow DEF Tables
  <2>3. After(w, "receipts", r) = Written(r, w.old, w.new)
    BY <1>2, <1>4, <2>1 DEF After
  <2>4. r \in Receipt
    BY DEF IInv, RowsOK, RowOK, Tables
  <2>5. Written(r, w.old, w.new).read
    BY <1>2, <1>4, <2>1, <2>4, WrittenReceipt
  <2> QED
    BY <2>2, <2>3, <2>5
<1> QED
  BY <1>3, <1>4

\* The trail after a commit.
LEMMA CommitKeepsCounts ==
  ASSUME IInv, NEW q \in Requests, Commit(q)
  PROVE  CountsOK'
<1> DEFINE w == request[q]
<1>0. w # None /\ WriteOK(q)
  BY CommitTable DEF Commit
<1>1. acks' = Counted(acks, w.audit, "acknowledged") /\ reads' = Counted(reads, w.audit, "read")
  BY DEF Commit
<1>2. ASSUME NEW r \in rows["receipts"]
      PROVE  /\ After(w, "receipts", r) \in rows'["receipts"]
             /\ After(w, "receipts", r).key = r.key
             /\ r.read => After(w, "receipts", r).read
             /\ After(w, "receipts", r).read /\ ~r.read => w.audit = <<"read", r.key>>
  BY <1>0, CommitRows, AfterIsRow, AfterReceipt DEF Tables
<1>3. ASSUME NEW u \in Users
      PROVE  acks'[u] <= 1 /\ (acks'[u] > 0 => \E s \in rows'["receipts"] : s.key = u)
  <2>0. acks[u] \in Nat /\ acks[u] <= 1
        /\ (acks[u] > 0 => \E r \in rows["receipts"] : r.key = u)
    BY DEF IInv, StateOK, CountsOK
  <2>1. CASE w.audit = <<"acknowledged", u>>
    <3>1. w.table = "receipts" /\ w.new.key = u /\ w.old = None
      BY <1>0, <2>1 DEF WriteOK
    <3>2. \A r \in rows["receipts"] : r.key # u
      BY <3>1, InsertIsNew DEF Constrained
    <3>3. acks[u] = 0
      BY <2>0, <3>2
    <3>4. acks'[u] = 1
      BY <1>1, <2>1, <3>3 DEF Counted
    <3>5. w.new \in rows'["receipts"]
      BY <3>1, CommitRows DEF Tables
    <3> QED
      BY <3>1, <3>4, <3>5
  <2>2. CASE w.audit # <<"acknowledged", u>>
    <3>1. acks'[u] = acks[u]
      BY <1>1, <2>2 DEF Counted
    <3> QED
      BY <1>2, <2>0, <3>1
  <2> QED
    BY <2>1, <2>2
<1>4. ASSUME NEW u \in Users
      PROVE  reads'[u] > 0 <=> \E s \in rows'["receipts"] : s.key = u /\ s.read
  <2>0. reads[u] \in Nat
        /\ (reads[u] > 0 <=> \E r \in rows["receipts"] : r.key = u /\ r.read)
    BY DEF IInv, StateOK, CountsOK
  <2>1. CASE w.audit = <<"read", u>>
    <3>1. reads'[u] = reads[u] + 1
      BY <1>1, <2>1 DEF Counted
    <3> QED
      BY <2>0, <2>1, <3>1, ReadIsThere
  <2>2. CASE w.audit # <<"read", u>>
    <3>1. reads'[u] = reads[u]
      BY <1>1, <2>2 DEF Counted
    <3>2. ASSUME NEW s \in rows'["receipts"], s.key = u, s.read
          PROVE  \E r \in rows["receipts"] : r.key = u /\ r.read
      <4>1. CASE w.table = "receipts" /\ w.old = None /\ s = w.new
        BY <1>0, <2>2, <3>2, <4>1 DEF WriteOK
      <4>2. CASE \E r \in rows["receipts"] : s = After(w, "receipts", r)
        BY <1>2, <2>2, <3>2, <4>2
      <4> QED
        BY <4>1, <4>2, CommitRows DEF Tables
    <3> QED
      BY <1>2, <2>0, <3>1, <3>2
  <2> QED
    BY <2>1, <2>2
<1> QED
  BY <1>3, <1>4 DEF CountsOK

\* The other requests after a commit: an insertion has still an identifier of
\* its own, and the row that another would change is still there.
LEMMA CommitKeepsRequests ==
  ASSUME IInv, NEW q \in Requests, Commit(q)
  PROVE  RequestsOK'
<1> DEFINE w == request[q]
<1>1. request' = [p \in Requests |-> request'[p]] /\ request'[q] = None
      /\ \A p \in Requests \ {q} : request'[p] = request[p]
  BY DEF Commit, IInv, RequestsOK
<1>2. w # None /\ UNCHANGED used /\ (status' = "DRAFT" => status = "DRAFT")
  BY CommitTable DEF Commit
<1>3. ASSUME NEW p \in Requests, request'[p] # None
      PROVE  WriteOK(p)'
  <2> DEFINE v == request[p]
  <2>1. p # q /\ request'[p] = v /\ v # None /\ WriteOK(p)
    BY <1>1, <1>3 DEF IInv, RequestsOK
  <2>2. v.table \in Tables /\ RowOK(v.table, v.new)'
    BY <1>2, <2>1, RowStays DEF WriteOK
  <2>3. ASSUME v.old = None, NEW s \in rows'[v.table]
        PROVE  s.id # v.new.id
    <3>1. CASE v.table = w.table /\ w.old = None /\ s = w.new
      BY <1>2, <2>1, <2>3, <3>1 DEF IInv, RequestsOK, Inserts
    <3>2. CASE \E r \in rows[v.table] : s = After(w, v.table, r)
      <4>1. PICK r \in rows[v.table] : s = After(w, v.table, r)
        BY <3>2
      <4>2. s.id = r.id
        BY <1>2, <2>2, <4>1, AfterIsRow
      <4> QED
        BY <2>1, <2>3, <4>2 DEF WriteOK
    <3> QED
      BY <2>2, <3>1, <3>2, CommitRows
  <2>4. v.old # None => \E s \in rows'[v.table] : s.id = v.new.id /\ s.key = v.new.key
    <3> SUFFICES ASSUME v.old # None
                 PROVE  \E s \in rows'[v.table] : s.id = v.new.id /\ s.key = v.new.key
      OBVIOUS
    <3>1. PICK r \in rows[v.table] : r.id = v.new.id /\ r.key = v.new.key
      BY <2>1 DEF WriteOK
    <3> QED
      BY <1>2, <2>2, <3>1, CommitRows, AfterIsRow
  <2> QED
    BY <1>2, <2>1, <2>2, <2>3, <2>4 DEF WriteOK
<1>4. ASSUME NEW p \in Requests, NEW o \in Requests, Inserts(p)', Inserts(o)',
             request'[p].new.id = request'[o].new.id
      PROVE  p = o
  BY <1>1, <1>4 DEF IInv, RequestsOK, Inserts
<1> QED
  BY <1>1, <1>3, <1>4 DEF RequestsOK

\* A commit keeps the invariant.
LEMMA CommitKeeps ==
  ASSUME IInv, NEW q \in Requests, Commit(q)
  PROVE  IInv'
<1>1. StateOK'
  <2>1. status' \in {"DRAFT", "SENT", "RECEIVED", "CLOSED"}
    BY CommitTable
  <2>2. /\ acks' = Counted(acks, request[q].audit, "acknowledged")
        /\ reads' = Counted(reads, request[q].audit, "read") /\ UNCHANGED used
    BY DEF Commit
  <2>3. acks' \in [Users -> Nat] /\ reads' \in [Users -> Nat]
    BY <2>2 DEF IInv, StateOK, Counted
  <2> QED
    BY <2>1, <2>2, <2>3 DEF IInv, StateOK
<1> QED
  BY <1>1, CommitKeepsRows, CommitKeepsCounts, CommitKeepsRequests DEF IInv

-----------------------------------------------------------------------------
(***************************************************************************)
(* The invariant, and what follows                                         *)
(***************************************************************************)
\* Every step keeps the invariant.
LEMMA NextKeeps ==
  ASSUME IInv, [Next]_vars
  PROVE  IInv'
<1>1. ASSUME NEW q \in Requests, BeginSome(q)
      PROVE  IInv'
  BY <1>1, BeginsKeep
<1>2. ASSUME NEW q \in Requests, Commit(q)
      PROVE  IInv'
  BY <1>2, CommitKeeps
<1>3. ASSUME NEW q \in Requests, Fail(q)
      PROVE  IInv'
  <2>1. /\ request' = [p \in Requests |-> request'[p]]
        /\ \A p \in Requests : request'[p] \in {request[p], None}
    BY <1>3 DEF Fail, IInv, RequestsOK
  <2> QED
    BY <1>3, <2>1, NoRowChanges DEF Fail, IInv, StateOK
<1>4. CASE MoveCase \/ UNCHANGED vars
  <2>1. UNCHANGED <<rows, used, request, acks, reads>>
    BY <1>4 DEF MoveCase, vars
  <2>2. /\ status' \in {"DRAFT", "SENT", "RECEIVED", "CLOSED"}
        /\ status' = "DRAFT" => status = "DRAFT"
    BY <1>4 DEF MoveCase, vars, IInv, StateOK
  <2>3. /\ request' = [q \in Requests |-> request'[q]]
        /\ \A q \in Requests : request'[q] \in {request[q], None}
    BY <2>1 DEF IInv, RequestsOK
  <2> QED
    BY <2>1, <2>2, <2>3, NoRowChanges
<1> QED
  BY <1>1, <1>2, <1>3, <1>4 DEF Next

\* In every reachable state the rows and the requests fit each other.
THEOREM InvariantHolds == Spec => []IInv
<1>1. Init => IInv
  <2> SUFFICES ASSUME Init
               PROVE  IInv
    OBVIOUS
  <2>1. StateOK
    BY BoundAssumption DEF Init, StateOK
  <2>2. \A t \in Tables : rows[t] = {}
    BY DEF Init
  <2>3. RowsOK /\ CountsOK
    BY <2>2 DEF Init, RowsOK, CountsOK, Tables
  <2>4. RequestsOK
    BY DEF Init, RequestsOK, Inserts
  <2> QED
    BY <2>1, <2>3, <2>4 DEF IInv
<1>2. IInv /\ [Next]_vars => IInv'
  BY NextKeeps
<1> QED
  BY <1>1, <1>2, PTL DEF Spec

\* Every table holds rows of its own, and none of them has two rows with the
\* same identifier.
THEOREM TypesHold == Spec => []TypeOK
<1>1. IInv => TypeOK
  <2> SUFFICES ASSUME IInv
               PROVE  TypeOK
    OBVIOUS
  <2>1. /\ rows["rules"] \subseteq Rule /\ rows["items"] \subseteq Item
        /\ rows["receipts"] \subseteq Receipt /\ rows["comments"] \subseteq Comment
    BY DEF IInv, RowsOK, RowOK, Tables
  <2>2. \A t \in Tables : \A r, s \in rows[t] : r.id = s.id => r = s
    BY DEF IInv, RowsOK
  <2>3. \A q \in Requests : request[q] # None => request[q].table \in Tables
    BY DEF IInv, RequestsOK, WriteOK
  <2> QED
    BY <2>1, <2>2, <2>3 DEF IInv, StateOK, TypeOK
<1> QED
  BY <1>1, InvariantHolds, PTL

\* An institution's own rule, or a reference value, is one row however many
\* requests have set it at once, and no value that new cases take is inactive.
THEOREM OneAnswerHolds == Spec => []OneAnswer
<1>1. IInv => OneAnswer
  <2> SUFFICES ASSUME IInv
               PROVE  OneAnswer
    OBVIOUS
  <2>1. ASSUME NEW u \in Users, NEW permission \in Permissions,
               RulesOf(Institution[u], permission) # {},
               NEW r \in Applicable(u, permission), NEW s \in Applicable(u, permission)
        PROVE  r = s
    <3>1. Institution[u] # None
      BY InstitutionAssumption
    <3>2. r \in rows["rules"] /\ s \in rows["rules"] /\ r.key = s.key /\ r.key[1] # None
      BY <2>1, <3>1 DEF Applicable, RulesOf
    <3> QED
      BY <3>2 DEF IInv, RowsOK, Constrained, Tables
  <2>2. \A i, j \in rows["items"] : i.key = j.key => i = j
    BY DEF IInv, RowsOK, Constrained, Tables
  <2>3. \A i \in rows["items"] : i.key \in Defaults => i.active
    BY DEF IInv, RowsOK, RowOK, Tables
  <2> QED
    BY <2>1, <2>2, <2>3 DEF OneAnswer
<1> QED
  BY <1>1, InvariantHolds, PTL

\* A reader has one receipt, acknowledged once in the trail, and read exactly
\* when the trail says so.
THEOREM ReceiptsAreUniqueHolds == Spec => []ReceiptsAreUnique
<1>1. IInv => ReceiptsAreUnique
  <2> SUFFICES ASSUME IInv, NEW u \in Users
               PROVE  LET mine == {r \in rows["receipts"] : r.key = u} IN
                      /\ Cardinality(mine) <= 1
                      /\ acks[u] <= Cardinality(mine)
                      /\ reads[u] > 0 <=> \E r \in mine : r.read
    BY DEF ReceiptsAreUnique
  <2> DEFINE mine == {r \in rows["receipts"] : r.key = u}
  <2>1. \A r, s \in mine : r = s
    BY DEF IInv, RowsOK, Constrained, Tables
  <2>2. /\ acks[u] \in Nat /\ acks[u] <= 1 /\ (acks[u] > 0 => mine # {})
        /\ (reads[u] > 0 <=> \E r \in mine : r.read)
    BY DEF IInv, StateOK, CountsOK
  <2> HIDE DEF mine
  <2>3. CASE mine = {}
    <3>1. Cardinality(mine) = 0
      BY <2>3, FS_EmptySet
    <3> QED
      BY <2>2, <2>3, <3>1 DEF mine
  <2>4. CASE mine # {}
    <3>1. \E r : mine = {r}
      BY <2>1, <2>4
    <3>2. Cardinality(mine) = 1
      BY <3>1, FS_Singleton
    <3> QED
      BY <2>2, <3>2 DEF mine
  <2> QED
    BY <2>3, <2>4
<1> QED
  BY <1>1, InvariantHolds, PTL

\* While the case is a draft nobody of the other institution has a receipt,
\* sees a comment or is mentioned.
THEOREM DraftStaysInsideHolds == Spec => []DraftStaysInside
<1>1. IInv => DraftStaysInside
  <2> SUFFICES ASSUME IInv, status = "DRAFT"
               PROVE  DraftStaysInside
    BY DEF DraftStaysInside
  <2>1. rows["receipts"] = {}
    BY DEF IInv, RowsOK, RowOK, Tables
  <2>2. \A comment \in rows["comments"] :
          comment.visibility = "INTERNAL" /\ \A w \in comment.mentions : Institution[w] = comment.key
    BY DEF IInv, RowsOK, RowOK, Tables
  <2> QED
    BY <2>1, <2>2 DEF DraftStaysInside, Sees
<1> QED
  BY <1>1, InvariantHolds, PTL

\* No commit takes a receipt away or makes it unread, whatever the request has
\* read of it before.
THEOREM ReceiptsOnlyGrowHolds == Spec => ReceiptsOnlyGrow
<1> DEFINE Grow == \A r \in rows["receipts"] :
                     \E s \in rows'["receipts"] : s.id = r.id /\ s.key = r.key /\ (r.read => s.read)
<1>1. ASSUME IInv, NEW q \in Requests, Commit(q)
      PROVE  Grow
  <2> SUFFICES ASSUME NEW r \in rows["receipts"]
               PROVE  \E s \in rows'["receipts"] :
                        s.id = r.id /\ s.key = r.key /\ (r.read => s.read)
    OBVIOUS
  <2>1. request[q] # None
    BY <1>1 DEF Commit
  <2>2. After(request[q], "receipts", r) \in rows'["receipts"]
    BY <1>1, CommitRows DEF Tables
  <2> QED
    BY <1>1, <2>1, <2>2, AfterIsRow, AfterReceipt DEF Tables
<1>2. ASSUME UNCHANGED rows
      PROVE  Grow
  BY <1>2
<1>3. ASSUME IInv, [Next]_vars
      PROVE  [Grow]_vars
  <2>1. CASE \E q \in Requests : Commit(q)
    BY <1>1, <1>3, <2>1
  <2>2. ASSUME NEW q \in Requests, BeginSome(q)
        PROVE  UNCHANGED rows
    BY <2>2 DEF BeginSome, BeginRule, BeginItem, BeginAcknowledge, BeginRead, BeginReceive,
                BeginComment, Begin
  <2>3. CASE (\E q \in Requests : Fail(q)) \/ MoveCase \/ UNCHANGED vars
    BY <1>2, <2>3 DEF Fail, MoveCase, vars
  <2> QED
    BY <1>2, <1>3, <2>1, <2>2, <2>3 DEF Next
<1>4. IInv /\ [Next]_vars => [Grow]_vars
  BY <1>3
<1> QED
  BY <1>4, InvariantHolds, PTL DEF Spec, ReceiptsOnlyGrow

=============================================================================
