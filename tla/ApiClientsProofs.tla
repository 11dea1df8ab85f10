-------------------------- MODULE ApiClientsProofs --------------------------
(***************************************************************************)
(* Tokens of before a change of security are refused, for any clients,     *)
(* institutions, scopes, administrators' and token requests and without a  *)
(* bound on what is counted, of the clients that never saw two edits at    *)
(* once.                                                                   *)
(***************************************************************************)
EXTENDS ApiClients, TLAPS

-----------------------------------------------------------------------------
(***************************************************************************)
(* Typing                                                                  *)
(***************************************************************************)
\* What an edit saves is a row.
LEMMA SavedIsRow ==
  ASSUME NEW row \in Row, NEW old \in Row, NEW new \in Row
  PROVE  Saved(row, old, new) \in Row
BY DEF Saved, Row

\* What a change or a rotation makes of a row is a row.
LEMMA ChangedIsRow ==
  ASSUME NEW row \in Row, NEW scopes \in SUBSET Scopes, NEW active \in BOOLEAN,
         NEW version \in Nat
  PROVE  /\ [row EXCEPT !.scopes = scopes, !.active = active, !.version = version] \in Row
         /\ \A secret \in Secrets : [row EXCEPT !.secret = secret, !.version = version] \in Row
BY DEF Row

\* The row of a client that exists.
LEMMA RowOf ==
  ASSUME TypeOK, NEW c \in Clients, Exists(c)
  PROVE  client[c] \in Row
BY DEF TypeOK, Exists

\* Any step leaves the variables in their types.
LEMMA TypeStep == TypeOK /\ [Next]_vars => TypeOK'
<1> SUFFICES ASSUME TypeOK, [Next]_vars PROVE TypeOK'
  OBVIOUS
<1> USE NoneAssumption
<1>1. ASSUME NEW c \in Clients, NEW actor \in Institutions \cup {System},
             NEW owner \in Owners, NEW scopes \in SUBSET Scopes, NEW secret \in Secrets,
             CreateClient(c, actor, owner, scopes, secret)
      PROVE  TypeOK'
  <2>1. [institution |-> owner, secret |-> secret, scopes |-> scopes, active |-> TRUE,
         version |-> 1] \in Row
    BY DEF Row
  <2>2. client' \in [Clients -> Row \cup {None}]
    BY <1>1, <2>1 DEF CreateClient, TypeOK
  <2>3. \A d \in Clients : Exists(d) => Exists(d)'
    BY <1>1, <2>1 DEF CreateClient, TypeOK, Exists
  <2> QED
    BY <1>1, <2>2, <2>3 DEF CreateClient, TypeOK, Edit
<1>2. ASSUME NEW a \in Admins, NEW c \in Clients, NEW new \in Row, Exists(c),
             BeginEdit(a, c, new)
      PROVE  TypeOK'
  <2>1. [client |-> c, old |-> client[c], new |-> new] \in Edit
    BY <1>2, RowOf DEF Edit
  <2>2. edit' \in [Admins -> Edit \cup {None}]
    BY <1>2, <2>1 DEF BeginEdit, TypeOK
  <2>3. \A b \in Admins : edit'[b] # None => Exists(edit'[b].client)
    BY <1>2 DEF BeginEdit, TypeOK
  <2> QED
    BY <1>2, <2>2, <2>3 DEF BeginEdit, TypeOK, Exists
<1>3. ASSUME NEW a \in Admins, NEW c \in Clients, NEW actor \in Institutions \cup {System},
             NEW scopes \in SUBSET Scopes, NEW active \in BOOLEAN,
             BeginUpdate(a, c, actor, scopes, active)
      PROVE  TypeOK'
  <2> DEFINE new == [client[c] EXCEPT !.scopes = scopes, !.active = active,
                       !.version = IF SecurityChange(client[c], scopes, active)
                                   THEN @ + 1 ELSE @]
  <2>1. Exists(c) /\ client[c] \in Row
    BY <1>3, RowOf DEF BeginUpdate, Administers
  <2>2. new \in Row
    <3> DEFINE v == IF SecurityChange(client[c], scopes, active)
                    THEN client[c].version + 1 ELSE client[c].version
    <3>1. v \in Nat
      BY <2>1 DEF Row
    <3>2. [client[c] EXCEPT !.scopes = scopes, !.active = active, !.version = v] \in Row
      <4> HIDE DEF v
      <4> QED BY <2>1, <3>1, ChangedIsRow
    <3> QED
      BY <3>2
  <2>3. BeginEdit(a, c, new)
    BY <1>3 DEF BeginUpdate
  <2> QED
    BY <1>2, <2>1, <2>2, <2>3
<1>4. ASSUME NEW a \in Admins, NEW c \in Clients, NEW actor \in Institutions \cup {System},
             NEW secret \in Secrets, BeginRotate(a, c, actor, secret)
      PROVE  TypeOK'
  <2> DEFINE new == [client[c] EXCEPT !.secret = secret, !.version = @ + 1]
  <2>1. Exists(c) /\ client[c] \in Row
    BY <1>4, RowOf DEF BeginRotate, Administers
  <2>2. client[c].version + 1 \in Nat
    BY <2>1 DEF Row
  <2>3. new \in Row
    BY <2>1, <2>2, ChangedIsRow
  <2>4. BeginEdit(a, c, new)
    BY <1>4 DEF BeginRotate
  <2> QED
    BY <1>2, <2>1, <2>3, <2>4
<1>5. ASSUME NEW a \in Admins, CommitEdit(a)
      PROVE  TypeOK'
  <2> DEFINE c == edit[a].client
             saved == Saved(client[c], edit[a].old, edit[a].new)
  <2>1. edit[a] \in Edit /\ Exists(c)
    BY <1>5 DEF CommitEdit, TypeOK
  <2>2. c \in Clients /\ edit[a].old \in Row /\ edit[a].new \in Row
    BY <2>1 DEF Edit
  <2>3. saved \in Row
    BY <2>1, <2>2, RowOf, SavedIsRow
  <2>4. client' = [client EXCEPT ![c] = saved] /\ client' \in [Clients -> Row \cup {None}]
    BY <1>5, <2>2, <2>3 DEF CommitEdit, TypeOK
  <2>5. epoch' \in [Clients -> Nat]
    <3>1. epoch[c] + 1 \in Nat /\ epoch[c] \in Nat
      BY <2>2 DEF TypeOK
    <3>2. \E n \in {epoch[c], epoch[c] + 1} : epoch' = [epoch EXCEPT ![c] = n]
      BY <1>5, Zenon DEF CommitEdit
    <3> QED
      BY <3>1, <3>2 DEF TypeOK
  <2>6. edit' \in [Admins -> Edit \cup {None}]
        /\ \A b \in Admins : edit'[b] # None => edit'[b] = edit[b]
    BY <1>5 DEF CommitEdit, TypeOK
  <2>7. \A d \in Clients : Exists(d) => Exists(d)'
    BY <2>2, <2>3, <2>4 DEF TypeOK, Exists
  <2>8. \A b \in Admins : edit'[b] # None => edit[b].client \in Clients
    BY <2>6 DEF TypeOK, Edit
  <2> QED
    BY <1>5, <2>4, <2>5, <2>6, <2>7, <2>8 DEF CommitEdit, TypeOK
<1>6. ASSUME NEW a \in Admins, AbortEdit(a)
      PROVE  TypeOK'
  BY <1>6 DEF AbortEdit, TypeOK, Exists
<1>7. ASSUME NEW i \in Institutions, NEW status \in {"ACTIVE", "SUSPENDED"},
             SetInstitution(i, status)
      PROVE  TypeOK'
  BY <1>7 DEF SetInstitution, TypeOK, Exists
<1>8. ASSUME NEW m \in Machines, NEW c \in Clients, NEW secret \in Secrets,
             BeginExchange(m, c, secret)
      PROVE  TypeOK'
  <2>1. client[c] \in Row /\ epoch[c] \in Nat
    BY <1>8, RowOf DEF BeginExchange, TypeOK
  <2>2. TokenOf(c) \in Token
    BY <2>1 DEF TokenOf, Token, Row
  <2> QED
    BY <1>8, <2>2 DEF BeginExchange, TypeOK, Exists
<1>9. ASSUME NEW m \in Machines, HandOut(m)
      PROVE  TypeOK'
  BY <1>9 DEF HandOut, TypeOK, Exists
<1>10. CASE UNCHANGED vars
  BY <1>10 DEF vars, TypeOK, Exists
<1> QED
  BY <1>1, <1>3, <1>4, <1>5, <1>6, <1>7, <1>8, <1>9, <1>10 DEF Next

\* Type correctness, with any number of overlapping requests.
THEOREM ClientTyping == Spec => []TypeOK
<1>1. Init => TypeOK
  BY DEF Init, TypeOK, Exists
<1> QED
  BY <1>1, TypeStep, PTL DEF Spec

-----------------------------------------------------------------------------
(***************************************************************************)
(* Old tokens.  A token that was made, handed out or not, carries a        *)
(* version that its client's row had: at most that of the row now, and the *)
(* same only if the row is as it was.  This survives a commit because the  *)
(* row that an edit without rivals read is still the row, and because what *)
(* it changes is either nothing or counts the version up.  Of a client     *)
(* that saw two edits at once, now or ever, nothing is said.               *)
(***************************************************************************)
Honest(tk) ==
  /\ Exists(tk.client)
  /\ tk.version <= client[tk.client].version
  /\ tk.version = client[tk.client].version => tk.epoch = epoch[tk.client]

TokenOK(tk) == tk.client \notin clash => Honest(tk)

TokensHonest ==
  /\ \A tk \in tokens : TokenOK(tk)
  /\ \A m \in Machines : exchange[m] # None => TokenOK(exchange[m])

\* Nothing is changed without counting.
Counts(old, new) ==
  /\ new.version \in {old.version, old.version + 1}
  /\ Differ(old, new) => new.version = old.version + 1

\* An edit that never met another is alone, and what it read is still the row.
EditOK(a) ==
  edit[a] # None /\ edit[a].client \notin clash =>
    /\ edit[a].old = client[edit[a].client]
    /\ Counts(edit[a].old, edit[a].new)
    /\ \A b \in Editing(edit[a].client) : b = a

EditsApart == \A a \in Admins : EditOK(a)

Inv == TypeOK /\ TokensHonest /\ EditsApart

\* A step that leaves rows and epochs alone keeps a token honest.
LEMMA HonestStays ==
  ASSUME NEW tk, TokenOK(tk), UNCHANGED <<client, epoch>>, clash \subseteq clash'
  PROVE  TokenOK(tk)'
BY DEF TokenOK, Honest, Exists

\* The same of all of them, when none is made.
LEMMA TokensStay ==
  ASSUME TokensHonest, UNCHANGED <<client, epoch, exchange, tokens>>, clash \subseteq clash'
  PROVE  TokensHonest'
BY HonestStays DEF TokensHonest

\* Edits, when none begins or ends and their rows stay.
LEMMA EditsStay ==
  ASSUME Inv, UNCHANGED <<edit, clash>>, \A c \in Clients : Exists(c) => client'[c] = client[c]
  PROVE  EditsApart'
<1>1. \A a \in Admins : edit[a] # None => edit[a].client \in Clients /\ Exists(edit[a].client)
  BY DEF Inv, TypeOK, Edit
<1>2. ASSUME NEW a \in Admins PROVE EditOK(a)'
  <2>1. EditOK(a)
    BY DEF Inv, EditsApart
  <2> QED
    BY <1>1, <2>1 DEF EditOK, Editing
<1> QED
  BY <1>2 DEF EditsApart

\* Beginning to edit: the row is the one that was read, and whoever has read it
\* before is noticed.
LEMMA EditBegins ==
  ASSUME Inv, NEW a \in Admins, NEW c \in Clients, NEW new, BeginEdit(a, c, new),
         Counts(client[c], new)
  PROVE  TokensHonest' /\ EditsApart'
<1>1. TokensHonest'
  BY TokensStay DEF Inv, BeginEdit
<1>2. /\ edit[a] = None /\ client' = client
      /\ edit'[a] = [client |-> c, old |-> client[c], new |-> new]
      /\ \A b \in Admins \ {a} : edit'[b] = edit[b]
      /\ clash' = IF Editing(c) = {} THEN clash ELSE clash \cup {c}
  BY DEF Inv, TypeOK, BeginEdit
<1>3. ASSUME NEW b \in Admins PROVE EditOK(b)'
  <2>1. EditOK(b)
    BY DEF Inv, EditsApart
  <2>2. CASE b = a
    BY <1>2, <2>2 DEF EditOK, Editing
  <2>3. CASE b # a
    BY <1>2, <2>1, <2>3 DEF EditOK, Editing
  <2> QED
    BY <2>2, <2>3
<1> QED
  BY <1>1, <1>3 DEF EditsApart

\* Committing: the token of an old version stays behind, the others keep theirs.
LEMMA EditCommits ==
  ASSUME Inv, NEW a \in Admins, CommitEdit(a)
  PROVE  TokensHonest' /\ EditsApart'
<1> DEFINE c == edit[a].client
           old == edit[a].old
           new == edit[a].new
           row == Saved(client[c], old, new)
<1>1. /\ c \in Clients /\ Exists(c) /\ old \in Row /\ new \in Row
      /\ client[c] \in Row
  BY RowOf DEF CommitEdit, Inv, TypeOK, Edit
<1>2. client' = [client EXCEPT ![c] = row] /\ UNCHANGED <<exchange, tokens, clash>>
  BY DEF CommitEdit
<1>3. row \in Row /\ row # None
  BY <1>1, SavedIsRow, NoneAssumption
<1>4. epoch'[c] = IF Differ(client[c], row) THEN epoch[c] + 1 ELSE epoch[c]
  BY <1>1 DEF CommitEdit, Inv, TypeOK
<1>5. \A d \in Clients \ {c} : epoch'[d] = epoch[d] /\ client'[d] = client[d]
  BY <1>1 DEF CommitEdit, Inv, TypeOK
<1>6. client'[c] = row
  BY <1>1, <1>2 DEF Inv, TypeOK
<1>7. ASSUME c \notin clash
      PROVE  /\ old = client[c] /\ Counts(old, new)
             /\ row.version = new.version
             /\ Differ(client[c], row) <=> Differ(old, new)
  <2>1. old = client[c] /\ Counts(old, new)
    BY <1>7 DEF CommitEdit, Inv, EditsApart, EditOK
  <2>2. /\ row.version = new.version /\ row.secret = new.secret
        /\ row.scopes = new.scopes /\ row.active = new.active
    BY <1>1, <2>1 DEF Saved, Row
  <2> QED
    BY <2>1, <2>2 DEF Differ
<1>8. ASSUME NEW tk \in Token, TokenOK(tk), tk.client \notin clash
      PROVE  Honest(tk)'
  <2>1. CASE tk.client = c
    <3>1. tk.version \in Nat /\ old.version \in Nat /\ new.version \in Nat
      BY <1>1 DEF Token, Row
    <3>2. tk.version <= old.version /\ (tk.version = old.version => tk.epoch = epoch[c])
      BY <1>7, <1>8, <2>1 DEF TokenOK, Honest
    <3>3. new.version \in {old.version, old.version + 1}
          /\ (new.version = old.version => epoch'[c] = epoch[c])
      BY <1>4, <1>7, <1>8, <2>1, <3>1 DEF Counts
    <3>4. tk.version <= new.version /\ (tk.version = new.version => tk.epoch = epoch'[c])
      BY <3>1, <3>2, <3>3
    <3> QED
      BY <1>3, <1>6, <1>7, <1>8, <2>1, <3>4 DEF Honest, Exists
  <2>2. CASE tk.client # c
    BY <1>5, <1>8, <2>2 DEF TokenOK, Honest, Exists, Token
  <2> QED
    BY <2>1, <2>2
<1>9. TokensHonest'
  BY <1>2, <1>8 DEF TokensHonest, TokenOK, Inv, TypeOK
<1>10. edit'[a] = None /\ \A b \in Admins \ {a} : edit'[b] = edit[b]
  BY DEF CommitEdit, Inv, TypeOK
<1>11. ASSUME NEW b \in Admins, edit'[b] # None, edit'[b].client \notin clash
       PROVE  EditOK(b)'
  <2>1. b # a /\ edit'[b] = edit[b] /\ EditOK(b) /\ edit[b].client \in Clients
    BY <1>10, <1>11 DEF Inv, EditsApart, TypeOK, Edit
  <2>2. edit[b].client # c
    BY <1>11, <2>1 DEF EditOK, Editing, CommitEdit
  <2>3. client'[edit[b].client] = client[edit[b].client]
    BY <1>5, <2>1, <2>2
  <2>4. \A d \in Clients : Editing(d)' \subseteq Editing(d)
    BY <1>10 DEF Editing
  <2> QED
    BY <1>11, <2>1, <2>3, <2>4 DEF EditOK
<1> QED
  BY <1>2, <1>9, <1>11 DEF EditsApart, EditOK

\* A new client has no tokens; a new token is of the row as it is.
LEMMA InvStep == Inv /\ [Next]_vars => Inv'
<1> SUFFICES ASSUME Inv, [Next]_vars PROVE TokensHonest' /\ EditsApart'
  BY TypeStep DEF Inv
<1>1. ASSUME NEW c \in Clients, NEW actor \in Institutions \cup {System},
             NEW owner \in Owners, NEW scopes \in SUBSET Scopes, NEW secret \in Secrets,
             CreateClient(c, actor, owner, scopes, secret)
      PROVE  TokensHonest' /\ EditsApart'
  <2>1. \A d \in Clients : Exists(d) => d # c /\ client'[d] = client[d] /\ Exists(d)'
    BY <1>1 DEF CreateClient, Inv, TypeOK, Exists
  <2>2. \A tk \in Token : TokenOK(tk) => TokenOK(tk)'
    BY <1>1, <2>1 DEF CreateClient, TokenOK, Honest, Token
  <2>3. TokensHonest'
    BY <1>1, <2>2 DEF CreateClient, TokensHonest, Inv, TypeOK
  <2>4. EditsApart'
    BY <1>1, <2>1, EditsStay DEF CreateClient
  <2> QED
    BY <2>3, <2>4
<1>2. ASSUME NEW a \in Admins, NEW c \in Clients, NEW actor \in Institutions \cup {System},
             NEW scopes \in SUBSET Scopes, NEW active \in BOOLEAN,
             BeginUpdate(a, c, actor, scopes, active)
      PROVE  TokensHonest' /\ EditsApart'
  <2> DEFINE v == IF SecurityChange(client[c], scopes, active)
                  THEN client[c].version + 1 ELSE client[c].version
             new == [client[c] EXCEPT !.scopes = scopes, !.active = active, !.version = v]
  <2>1. client[c] \in Row
    BY <1>2, RowOf DEF BeginUpdate, Administers, Inv
  <2>2. /\ new.secret = client[c].secret /\ new.scopes = scopes
        /\ new.active = active /\ new.version = v
    <3> HIDE DEF v
    <3> QED BY <2>1 DEF Row
  <2>3. Counts(client[c], new)
    <3> HIDE DEF new
    <3> QED BY <2>2 DEF Counts, Differ, SecurityChange
  <2>4. BeginEdit(a, c, new)
    BY <1>2 DEF BeginUpdate
  <2> QED
    BY <2>3, <2>4, EditBegins
<1>3. ASSUME NEW a \in Admins, NEW c \in Clients, NEW actor \in Institutions \cup {System},
             NEW secret \in Secrets, BeginRotate(a, c, actor, secret)
      PROVE  TokensHonest' /\ EditsApart'
  <2> DEFINE new == [client[c] EXCEPT !.secret = secret, !.version = @ + 1]
  <2>1. client[c] \in Row
    BY <1>3, RowOf DEF BeginRotate, Administers, Inv
  <2>2. new.version = client[c].version + 1
    BY <2>1 DEF Row
  <2>3. Counts(client[c], new)
    BY <2>2 DEF Counts
  <2>4. BeginEdit(a, c, new)
    BY <1>3 DEF BeginRotate
  <2> QED
    BY <2>3, <2>4, EditBegins
<1>4. ASSUME NEW a \in Admins, AbortEdit(a)
      PROVE  TokensHonest' /\ EditsApart'
  <2>1. TokensHonest'
    BY <1>4, TokensStay DEF AbortEdit, Inv
  <2>2. EditsApart'
    <3>1. client' = client /\ clash' = clash /\ edit'[a] = None
          /\ \A b \in Admins \ {a} : edit'[b] = edit[b]
      BY <1>4 DEF AbortEdit, Inv, TypeOK
    <3>2. ASSUME NEW b \in Admins PROVE EditOK(b)'
      BY <3>1 DEF Inv, EditsApart, EditOK, Editing
    <3> QED
      BY <3>2 DEF EditsApart
  <2> QED
    BY <2>1, <2>2
<1>5. ASSUME NEW i \in Institutions, NEW status \in {"ACTIVE", "SUSPENDED"},
             SetInstitution(i, status)
      PROVE  TokensHonest' /\ EditsApart'
  BY <1>5, TokensStay, EditsStay DEF SetInstitution, Inv
<1>6. ASSUME NEW m \in Machines, NEW c \in Clients, NEW secret \in Secrets,
             BeginExchange(m, c, secret)
      PROVE  TokensHonest' /\ EditsApart'
  <2>1. Exists(c) /\ client[c].version \in Nat
    BY <1>6, RowOf DEF BeginExchange, Inv, Row
  <2>2. Honest(TokenOf(c))
    BY <2>1 DEF Honest, TokenOf
  <2>3. \A n \in Machines : exchange'[n] # None => exchange'[n] \in {TokenOf(c), exchange[n]}
    BY <1>6 DEF BeginExchange, Inv, TypeOK
  <2>4. \A n \in Machines : exchange'[n] # None => TokenOK(exchange'[n])
    BY <1>6, <2>2, <2>3 DEF BeginExchange, Inv, TypeOK, TokensHonest, TokenOK
  <2>5. TokensHonest'
    BY <1>6, <2>4, HonestStays DEF BeginExchange, Inv, TokensHonest, TokenOK, Honest, Exists
  <2>6. EditsApart'
    BY <1>6, EditsStay DEF BeginExchange
  <2> QED
    BY <2>5, <2>6
<1>7. ASSUME NEW m \in Machines, HandOut(m)
      PROVE  TokensHonest' /\ EditsApart'
  <2>1. \A n \in Machines : exchange'[n] # None => exchange'[n] = exchange[n]
    BY <1>7 DEF HandOut, Inv, TypeOK
  <2>2. TokensHonest'
    BY <1>7, <2>1, HonestStays DEF HandOut, Inv, TokensHonest, TokenOK, Honest, Exists
  <2>3. EditsApart'
    BY <1>7, EditsStay DEF HandOut
  <2> QED
    BY <2>2, <2>3
<1>8. CASE UNCHANGED vars
  BY <1>8, TokensStay, EditsStay DEF vars, Inv
<1> QED
  BY <1>1, <1>2, <1>3, <1>4, <1>5, <1>6, <1>7, <1>8, EditCommits DEF Next

\* Of a client that never saw two edits at once, a token that serves anything was
\* made from the row as the last change of scopes, activity or secret left it, for
\* any number of administrators at once: exchanges and external requests may
\* overlap their edits at will.
THEOREM ApartTheorem == Spec => []ApartChangesEndTokens
<1>1. Init => Inv
  BY DEF Init, Inv, TypeOK, TokensHonest, EditsApart, EditOK, Exists
<1>2. Inv /\ [Next]_vars => Inv'
  BY InvStep
<1>3. Inv => ApartChangesEndTokens
  BY DEF Inv, TokensHonest, TokenOK, Honest, ApartChangesEndTokens, Served, Accepted, Current
<1> QED
  BY <1>1, <1>2, <1>3, PTL DEF Spec

=============================================================================
