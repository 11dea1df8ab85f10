----------------------------- MODULE ApiClients -----------------------------
(***************************************************************************)
(* Machine clients of the interface.  A client exchanges its secret for    *)
(* tokens that carry the scopes, the institution and the version its row   *)
(* had when it was read; every external request checks the token against   *)
(* the row again.  Administrators change scopes or activity and rotate the *)
(* secret, each in a transaction that reads the row, counts the version up *)
(* and writes the columns it changed: what makes the tokens of before      *)
(* worthless is the version alone, for nothing else tells two tokens with  *)
(* the same scopes apart.                                                  *)
(*                                                                         *)
(* Nothing locks the row, so two administrators can count up from the same *)
(* version, and a slow one can put an older version back: which clients    *)
(* that has happened to is remembered.                                     *)
(*                                                                         *)
(* Names and audit entries are left out, and so is the expiry of tokens.   *)
(* A failed exchange changes nothing here.                                 *)
(***************************************************************************)
EXTENDS Naturals, FiniteSets

CONSTANTS
  Clients,
  Institutions,
  Scopes,
  Parties,      \* the institutions that a case concerns, for each case
  Admins,       \* administrators' requests that may overlap
  Machines,     \* token requests that may overlap
  System,       \* what a system administrator administers
  MaxVersion,   \* bound of a client's token_version
  Secrets,      \* the secrets that are drawn
  None          \* no row, no request, no institution

ASSUME VersionAssumption == MaxVersion \in Nat

ASSUME SystemAssumption == System \notin Institutions /\ None \notin Institutions

VARIABLES
  client,       \* each client's row
  institution,  \* each institution's status
  edit,         \* of each administrator's request, the row as read and as changed
  exchange,     \* of each token request, the token it made
  tokens,       \* the tokens handed out
  epoch,        \* how often each client was changed in what its tokens depend on
  clash         \* history: the clients of which two edits were in flight at once

vars == <<client, institution, edit, exchange, tokens, epoch, clash>>

Cases == DOMAIN Parties

Owners == Institutions \cup {None}

Row ==
  [institution : Owners, secret : Secrets, scopes : SUBSET Scopes, active : BOOLEAN, version : Nat]

\* The epoch is not in the token: it says when the row was read.
Token == [client : Clients, scopes : SUBSET Scopes, institution : Owners, version : Nat, epoch : Nat]

Edit == [client : Clients, old : Row, new : Row]

ASSUME NoneAssumption == None \notin Row \cup Edit \cup Token

Exists(c) == client[c] # None

Init ==
  /\ client = [c \in Clients |-> None]
  /\ institution = [i \in Institutions |-> "ACTIVE"]
  /\ edit = [a \in Admins |-> None]
  /\ exchange = [m \in Machines |-> None]
  /\ tokens = {}
  /\ epoch = [c \in Clients |-> 0]
  /\ clash = {}

-----------------------------------------------------------------------------
(***************************************************************************)
(* Administration                                                          *)
(***************************************************************************)
\* A client of no institution is global: its activity is that of its row.
OwnerActive(owner) == owner # None => institution[owner] = "ACTIVE"

\* create_api_client: an institution's administrator creates for it alone.
CreateClient(c, actor, owner, scopes, secret) ==
  /\ ~Exists(c)
  /\ actor \in {System, owner}
  /\ OwnerActive(owner)
  /\ scopes # {}
  /\ client' = [client EXCEPT ![c] =
       [institution |-> owner, secret |-> secret, scopes |-> scopes, active |-> TRUE, version |-> 1]]
  /\ UNCHANGED <<institution, edit, exchange, tokens, epoch, clash>>

\* _api_client_for_admin
Administers(actor, c) == Exists(c) /\ actor \in {System, client[c].institution}

\* The requests that read the row of the client and have not committed.
Editing(c) == {a \in Admins : edit[a] # None /\ edit[a].client = c}

\* The row is read without a lock, whoever else has read it.
BeginEdit(a, c, new) ==
  /\ edit[a] = None
  /\ edit' = [edit EXCEPT ![a] = [client |-> c, old |-> client[c], new |-> new]]
  /\ clash' = IF Editing(c) = {} THEN clash ELSE clash \cup {c}
  /\ UNCHANGED <<client, institution, exchange, tokens, epoch>>

\* Mutant of SecurityChange: the second comparison replaces the first.
LastComparison(row, scopes, active) == active # row.active

SecurityChange(row, scopes, active) == scopes # row.scopes \/ active # row.active

\* update_api_client: what the request does not give keeps its value.
BeginUpdate(a, c, actor, scopes, active) ==
  /\ Administers(actor, c)
  /\ client[c].version < MaxVersion
  /\ scopes # {}
  /\ LET row == client[c] IN
     BeginEdit(a, c, [row EXCEPT !.scopes = scopes, !.active = active,
                        !.version = IF SecurityChange(row, scopes, active) THEN @ + 1 ELSE @])

\* rotate_api_client_secret: the secret is drawn at random, and is neither that
\* of the row nor one that another request has drawn.
BeginRotate(a, c, actor, secret) ==
  /\ Administers(actor, c)
  /\ client[c].version < MaxVersion
  /\ secret \notin {client[c].secret} \cup {edit[b].new.secret : b \in Editing(c)}
  /\ BeginEdit(a, c, [client[c] EXCEPT !.secret = secret, !.version = @ + 1])

\* The columns that were changed, over whatever the row holds by now.
Saved(row, old, new) ==
  [row EXCEPT !.secret = IF new.secret # old.secret THEN new.secret ELSE @,
              !.scopes = IF new.scopes # old.scopes THEN new.scopes ELSE @,
              !.active = IF new.active # old.active THEN new.active ELSE @,
              !.version = IF new.version # old.version THEN new.version ELSE @]

Differ(old, new) ==
  old.secret # new.secret \/ old.scopes # new.scopes \/ old.active # new.active

CommitEdit(a) ==
  /\ edit[a] # None
  /\ LET c == edit[a].client
         old == edit[a].old
         new == edit[a].new
         saved == Saved(client[c], old, new)
     IN /\ client' = [client EXCEPT ![c] = saved]
        /\ epoch' = [epoch EXCEPT ![c] = IF Differ(client[c], saved) THEN @ + 1 ELSE @]
  /\ edit' = [edit EXCEPT ![a] = None]
  /\ UNCHANGED <<institution, exchange, tokens, clash>>

AbortEdit(a) ==
  /\ edit[a] # None
  /\ edit' = [edit EXCEPT ![a] = None]
  /\ UNCHANGED <<client, institution, exchange, tokens, epoch, clash>>

\* update_institution suspends and reactivates; no client's row is touched.
SetInstitution(i, status) ==
  /\ institution' = [institution EXCEPT ![i] = status]
  /\ UNCHANGED <<client, edit, exchange, tokens, epoch, clash>>

-----------------------------------------------------------------------------
(***************************************************************************)
(* Tokens                                                                  *)
(***************************************************************************)
\* Mutant of TokenOf: the version is left out of the token.
TokenWithoutVersion(c) ==
  [client |-> c, scopes |-> client[c].scopes, institution |-> client[c].institution,
   epoch |-> epoch[c]]

TokenOf(c) ==
  [client |-> c, scopes |-> client[c].scopes, institution |-> client[c].institution,
   version |-> client[c].version, epoch |-> epoch[c]]

\* create_api_client_token checks the secret, which takes its time, and the
\* row it has read makes the token.
BeginExchange(m, c, secret) ==
  /\ exchange[m] = None
  /\ Exists(c)
  /\ client[c].active
  /\ secret = client[c].secret
  /\ OwnerActive(client[c].institution)
  /\ exchange' = [exchange EXCEPT ![m] = TokenOf(c)]
  /\ UNCHANGED <<client, institution, edit, tokens, epoch, clash>>

HandOut(m) ==
  /\ exchange[m] # None
  /\ tokens' = tokens \cup {exchange[m]}
  /\ exchange' = [exchange EXCEPT ![m] = None]
  /\ UNCHANGED <<client, institution, edit, epoch, clash>>

\* Mutant of Current: only whether the client is active.
CurrentIfActive(tk) == Exists(tk.client) /\ client[tk.client].active

\* The version of the row is the version in the token.
Current(tk) ==
  Exists(tk.client) /\ client[tk.client].active /\ tk.version = client[tk.client].version

\* require_client_scope
Accepted(tk, scope) ==
  /\ scope \in tk.scopes
  /\ Current(tk)
  /\ scope \in client[tk.client].scopes
  /\ tk.institution = client[tk.client].institution
  /\ OwnerActive(tk.institution)

\* _require_client_case_access, and the scope of external_cases.
Served(tk, scope, case) ==
  Accepted(tk, scope) /\ client[tk.client].institution \in Parties[case] \cup {None}

-----------------------------------------------------------------------------
Next ==
  \/ \E c \in Clients, actor \in Institutions \cup {System} :
       \/ \E owner \in Owners, scopes \in SUBSET Scopes, secret \in Secrets :
            CreateClient(c, actor, owner, scopes, secret)
       \/ \E a \in Admins :
            \/ \E scopes \in SUBSET Scopes, active \in BOOLEAN :
                 BeginUpdate(a, c, actor, scopes, active)
            \/ \E secret \in Secrets : BeginRotate(a, c, actor, secret)
  \/ \E a \in Admins : CommitEdit(a) \/ AbortEdit(a)
  \/ \E i \in Institutions, status \in {"ACTIVE", "SUSPENDED"} : SetInstitution(i, status)
  \/ \E m \in Machines :
       \/ \E c \in Clients, secret \in Secrets : BeginExchange(m, c, secret)
       \/ HandOut(m)

Spec == Init /\ [][Next]_vars

-----------------------------------------------------------------------------
TypeOK ==
  /\ client \in [Clients -> Row \cup {None}]
  /\ institution \in [Institutions -> {"ACTIVE", "SUSPENDED"}]
  /\ edit \in [Admins -> Edit \cup {None}]
  /\ exchange \in [Machines -> Token \cup {None}]
  /\ tokens \subseteq Token
  /\ epoch \in [Clients -> Nat]
  /\ \A a \in Admins : edit[a] # None => Exists(edit[a].client)
  /\ clash \subseteq Clients

\* The intended guarantee, which the code does not give: the tokens of before a
\* change of scopes or activity or a rotation of the secret are refused.  Two
\* administrators who overlap count up from the same version, or the slower of
\* them puts an older version back, and then an older token is current again.
OldTokensRefused ==
  \A tk \in tokens, scope \in Scopes, case \in Cases :
    Served(tk, scope, case) => tk.epoch = epoch[tk.client]

\* What the version does give: of a client that never saw two edits at once, a
\* token that serves anything was made from the row as the last change left it.
\* Neither a suspension that was lifted since, nor a token made from a row read
\* before the change and handed out after it, gets round that.
ApartChangesEndTokens ==
  \A tk \in tokens, scope \in Scopes, case \in Cases :
    Served(tk, scope, case) => tk.epoch = epoch[tk.client] \/ tk.client \in clash

=============================================================================
