-------------------------- MODULE UpstreamAccounts --------------------------
(***************************************************************************)
(* The upstream side of the database: accounts that an administrator       *)
(* enrolls with OAuth, their credentials and the leases under which they   *)
(* are refreshed, connections with an API key, and the models that either  *)
(* offers.  Handlers read, talk to an upstream through a runner, and       *)
(* commit a transaction; what the transaction compares decides what a      *)
(* racing or late handler may still do.                                    *)
(*                                                                         *)
(* A secret is stored encrypted for the row that holds it (CredentialVault *)
(* binds the ciphertext to id, owner and revision): it is modelled by that *)
(* binding and by the number of the token inside.                          *)
(***************************************************************************)
EXTENDS Naturals, FiniteSets

CONSTANTS
  Worker,      \* handlers of all slots
  Enrollment,   \* ids of OAuth sessions
  Subject,      \* accounts as the upstream knows them
  Ident,        \* ids that Control draws for accounts and credentials
  Channel,      \* connections with an API key
  Model,        \* public names of models
  Free, NoRecord,
  AccountLimit, \* upstream_accounts of the license
  MaxRequests   \* bound on the number of handler calls and upstream tokens

\* The rows of the tables; a secret is described below.
Status == {"active", "disabled"}
AccountRow == [subject : Subject, status : Status]
CredentialRow ==
  [account : Ident, subject : Subject, revision : Nat,
   secret : [id : Ident, owner : Ident, revision : Nat, token : Nat]]
LeaseRow == [holder : Worker, expected : Nat]
ConnectionRow ==
  [status : Status, revision : Nat, keyRevision : Nat,
   secret : [id : Channel, owner : Channel, revision : Nat, token : Nat]]
ModelRow == [enabled : BOOLEAN, image : BOOLEAN]

ASSUME UpstreamAssumption ==
  /\ AccountLimit \in Nat /\ MaxRequests \in Nat
  /\ NoRecord \notin AccountRow /\ NoRecord \notin CredentialRow /\ NoRecord \notin LeaseRow
  /\ NoRecord \notin ConnectionRow /\ NoRecord \notin ModelRow

VARIABLES
  session,      \* oauth_sessions, in memory
  account,      \* upstream_accounts
  credential,   \* upstream_credential_instances
  leases,        \* credential_refresh_leases
  connection,   \* upstream_connections with their credential
  models,       \* models
  offers,       \* account_models and upstream_connection_models
  work,         \* what each handler is doing
  drawn,        \* ids drawn so far: random, so none is drawn twice
  requests, issued

upstreamVars == <<session, account, credential, leases, connection, models,
                  offers, work, drawn, requests, issued>>
accountVars == <<account, credential, leases>>
catalogVars == <<connection, models, offers>>

UpstreamInit ==
  /\ session = [e \in Enrollment |-> "none"]
  /\ account = [i \in Ident |-> NoRecord] /\ credential = [i \in Ident |-> NoRecord]
  /\ leases = [i \in Ident |-> NoRecord] /\ connection = [k \in Channel |-> NoRecord]
  /\ models = [m \in Model |-> NoRecord] /\ offers = {}
  /\ work = [h \in Worker |-> Free] /\ drawn = {} /\ requests = 0 /\ issued = 0

----------------------------------------------------------------------------

\* A secret as the vault encrypts it.
Sealed(id, owner, revision, token) ==
  [id |-> id, owner |-> owner, revision |-> revision, token |-> token]

Draws(i) == i \notin drawn /\ drawn' = drawn \union {i}

Takes(h, task) ==
  /\ work[h] = Free /\ requests < MaxRequests /\ requests' = requests + 1
  /\ work' = [work EXCEPT ![h] = task]

Goes(h, task) == work' = [work EXCEPT ![h] = task] /\ UNCHANGED requests
Leaves(h) == Goes(h, Free)
Stands(h, step) == work[h] # Free /\ work[h].step = step

----------------------------------------------------------------------------
(* Enrollment of an account.                                                *)

StartEnrollment(e) ==
  /\ session[e] = "none" /\ requests < MaxRequests /\ requests' = requests + 1
  /\ session' = [session EXCEPT ![e] = "open"]
  /\ UNCHANGED <<drawn, accountVars, catalogVars, work, issued>>

CancelEnrollment(e) ==
  /\ session[e] = "open" /\ session' = [session EXCEPT ![e] = "none"]
  /\ UNCHANGED <<drawn, accountVars, catalogVars, work, requests, issued>>

\* Sessions whose time is over are removed by whoever looks at the table next.
SessionExpires(e) ==
  /\ session[e] # "none" /\ session' = [session EXCEPT ![e] = "none"]
  /\ UNCHANGED <<drawn, accountVars, catalogVars, work, requests, issued>>

BeginExchange(h, e) ==
  /\ session[e] = "open" /\ Takes(h, [step |-> "exchange", session |-> e])
  /\ session' = [session EXCEPT ![e] = "exchanging"]
  /\ UNCHANGED <<drawn, accountVars, catalogVars, issued>>

ExchangeFails(h) ==
  /\ Stands(h, "exchange") /\ Leaves(h)
  /\ session' = [session EXCEPT ![work[h].session] = IF @ = "exchanging" THEN "open" ELSE @]
  /\ UNCHANGED <<drawn, accountVars, catalogVars, issued>>

\* The upstream says whose account it is and issues the first tokens.
ExchangeSucceeds(h, s) ==
  /\ Stands(h, "exchange") /\ issued < MaxRequests
  /\ Goes(h, [step |-> "resolve", subject |-> s, token |-> issued + 1]) /\ issued' = issued + 1
  /\ session' = [session EXCEPT ![work[h].session] = "none"]
  /\ UNCHANGED <<drawn, accountVars, catalogVars>>

AccountsOf(s) == {i \in Ident : account[i] # NoRecord /\ account[i].subject = s}

ResolveAccount(h) ==
  /\ Stands(h, "resolve")
  /\ LET s == work[h].subject  token == work[h].token IN
       \/ \E i \in AccountsOf(s) :
            /\ Goes(h, [step |-> "credential", account |-> i, subject |-> s, token |-> token])
            /\ UNCHANGED drawn
       \/ /\ AccountsOf(s) = {}
          /\ \E i \in Ident :
               /\ Draws(i)
               /\ Goes(h, [step |-> "create", id |-> i, subject |-> s, token |-> token])
  /\ UNCHANGED <<session, accountVars, catalogVars, issued>>

InsertAccountVerdict(id, s) ==
  IF account[id] # NoRecord \/ AccountsOf(s) # {} THEN "conflict"
  ELSE IF Cardinality({i \in Ident : account[i] # NoRecord}) >= AccountLimit THEN "limit"
  ELSE "created"

InsertAccount(h) ==
  /\ Stands(h, "create")
  /\ LET w == work[h]  verdict == InsertAccountVerdict(w.id, w.subject)
         next(i) == [step |-> "credential", account |-> i, subject |-> w.subject, token |-> w.token]
     IN \/ /\ verdict = "created" /\ Goes(h, next(w.id))
           /\ account' = [account EXCEPT ![w.id] = [subject |-> w.subject, status |-> "active"]]
        \/ /\ verdict = "conflict" /\ UNCHANGED account
           /\ \E i \in AccountsOf(w.subject) : Goes(h, next(i))
        \/ verdict = "limit" /\ Leaves(h) /\ UNCHANGED account
  /\ UNCHANGED <<drawn, session, credential, leases, catalogVars, issued>>

NewCredential(c, w) ==
  [account |-> w.account, subject |-> w.subject, revision |-> 0,
   secret |-> Sealed(c, w.account, 0, w.token)]

\* The account is active again, whatever its status was.
Activated(a) == [account EXCEPT ![a].status = "active"]

InsertCredential(h) ==
  /\ Stands(h, "credential")
  /\ LET w == work[h] IN
       \/ /\ account[w.account] # NoRecord
          /\ account' = Activated(w.account)
          /\ \E c \in Ident :
               /\ Draws(c)
               /\ credential' = [credential EXCEPT ![c] = NewCredential(c, w)]
       \/ account[w.account] = NoRecord /\ UNCHANGED <<account, credential, drawn>>
  /\ Leaves(h) /\ UNCHANGED <<session, leases, catalogVars, issued>>

----------------------------------------------------------------------------
(* An administrator's changes of an account.                                *)

WithStatus(a, status) == [account EXCEPT ![a].status = status]

UpdateUpstreamAccount(a, status) ==
  /\ account[a] # NoRecord /\ account[a].status # status
  /\ account' = WithStatus(a, status)
  /\ UNCHANGED <<drawn, session, credential, leases, catalogVars, work, requests, issued>>

CredentialsOf(a) == {c \in Ident : credential[c] # NoRecord /\ credential[c].account = a}

Without(table, ids) == [i \in DOMAIN table |-> IF i \in ids THEN NoRecord ELSE table[i]]

\* The rows that refer to the account go with it.
DeleteUpstreamAccount(a) ==
  /\ account[a] # NoRecord
  /\ credential' = Without(credential, CredentialsOf(a))
  /\ leases' = Without(leases, CredentialsOf(a))
  /\ account' = [account EXCEPT ![a] = NoRecord]
  /\ offers' = {o \in offers : o[1] # a}
  /\ UNCHANGED <<drawn, session, connection, models, work, requests, issued>>

----------------------------------------------------------------------------
(* Refresh of a credential under a lease.                                   *)

BeginCredentialRefresh(h, c) ==
  /\ credential[c] # NoRecord
  /\ Takes(h, [step |-> "lease", credential |-> c, revision |-> credential[c].revision])
  /\ UNCHANGED <<drawn, session, accountVars, catalogVars, issued>>

Unleased(c) == [leases EXCEPT ![c] = NoRecord]

LeaseGranted(w) ==
  LET c == w.credential IN
    credential[c] # NoRecord /\ credential[c].revision = w.revision /\ leases[c] = NoRecord

AcquireRefreshLease(h) ==
  /\ Stands(h, "lease")
  /\ LET w == work[h]  c == w.credential IN
       IF LeaseGranted(w)
       THEN /\ leases' = [leases EXCEPT ![c] = [holder |-> h, expected |-> w.revision]]
            /\ Goes(h, [step |-> "decrypt", credential |-> c])
       ELSE Leaves(h) /\ UNCHANGED leases
  /\ UNCHANGED <<drawn, session, account, credential, catalogVars, issued>>

\* The tokens are read after the lease was taken; at most its own lease is
\* given back.
Released(h, c) == IF leases[c] # NoRecord /\ leases[c].holder = h THEN Unleased(c) ELSE leases

DecryptCredential(h) ==
  /\ Stands(h, "decrypt")
  /\ LET c == work[h].credential IN
       IF credential[c] = NoRecord THEN Leaves(h) /\ UNCHANGED leases
       ELSE /\ Goes(h, [step |-> "call", credential |-> c, account |-> credential[c].account,
                        revision |-> credential[c].revision, token |-> 0])
            /\ UNCHANGED leases
  /\ UNCHANGED <<drawn, session, account, credential, catalogVars, issued>>

\* The call of the runner reaches the upstream, which issues a token.
IssuesToken == issued < MaxRequests /\ issued' = issued + 1

\* The answer arrives.
UpstreamRefreshes(h) ==
  /\ Stands(h, "call") /\ IssuesToken
  /\ Goes(h, [work[h] EXCEPT !.step = "commit", !.token = issued + 1])
  /\ UNCHANGED <<drawn, session, accountVars, catalogVars>>

\* No runner, a lost session, a refusal or a timeout: the lease is cancelled.
RefreshFails(h) ==
  /\ Stands(h, "call") /\ leases' = Released(h, work[h].credential) /\ Leaves(h)
  /\ UNCHANGED <<drawn, session, account, credential, catalogVars, issued>>

\* The lease runs out after CREDENTIAL_REFRESH_LEASE_TTL, whoever holds it.
LeaseExpires(c) ==
  /\ leases[c] # NoRecord /\ leases' = Unleased(c)
  /\ UNCHANGED <<drawn, session, account, credential, catalogVars, work, requests, issued>>

RefreshAllowed(h, w) ==
  LET c == w.credential IN
    /\ credential[c] # NoRecord /\ credential[c].revision = w.revision
    /\ leases[c] = [holder |-> h, expected |-> w.revision]

Refreshed(w) ==
  LET c == w.credential IN
    [credential EXCEPT ![c].revision = @ + 1,
       ![c].secret = Sealed(c, w.account, w.revision + 1, w.token)]

CommitCredentialRefresh(h) ==
  /\ Stands(h, "commit")
  /\ LET w == work[h]  c == w.credential IN
       /\ credential' = IF RefreshAllowed(h, w) THEN Refreshed(w) ELSE credential
       /\ leases' = Released(h, c)
  /\ Leaves(h) /\ UNCHANGED <<drawn, session, account, catalogVars, issued>>

----------------------------------------------------------------------------
(* Models: found for an account, or offered by a connection.                *)

BeginSync(h, a) ==
  /\ account[a] # NoRecord /\ account[a].status = "active"
  /\ Takes(h, [step |-> "sync", account |-> a])
  /\ UNCHANGED <<drawn, session, accountVars, catalogVars, issued>>

\* Names that are new to the catalogue, counted in tokens.
Catalogued(names, on) ==
  [m \in Model |-> IF m \in names /\ models[m] = NoRecord
                   THEN [enabled |-> on, image |-> FALSE] ELSE models[m]]

OffersOf(owner, names) == {<<owner, m>> : m \in names}

Replaced(a, found) == {o \in offers : o[1] # a} \union OffersOf(a, found)

\* The answer replaces what the account offered, if it still is active.
ReplaceAccountModels(h, found) ==
  /\ Stands(h, "sync")
  /\ LET a == work[h].account IN
       IF account[a] # NoRecord /\ account[a].status = "active"
       THEN /\ offers' = Replaced(a, found)
            /\ models' = Catalogued(found, TRUE)
       ELSE UNCHANGED <<offers, models>>
  /\ Leaves(h) /\ UNCHANGED <<drawn, session, accountVars, connection, issued>>

UpdateModelEnabled(m, on) ==
  /\ models[m] # NoRecord /\ models[m].enabled # on
  /\ models' = [models EXCEPT ![m].enabled = on]
  /\ UNCHANGED <<drawn, session, accountVars, connection, offers, work, requests, issued>>

----------------------------------------------------------------------------
(* Connections with an API key.                                             *)

\* Every name that the administrator lists with unit image is an image model
\* from now on, also one that was known as a token model; a name that is
\* already an image model cannot be listed as a token model.
ListedUnits(names, image) ==
  [m \in Model |-> IF m \notin names THEN models[m]
                   ELSE IF models[m] = NoRecord THEN [enabled |-> FALSE, image |-> image]
                   ELSE [models[m] EXCEPT !.image = @ \/ image]]

UnitRefused(names, image) == ~image /\ \E m \in names : models[m] # NoRecord /\ models[m].image

NewConnection(k) ==
  [status |-> "active", revision |-> 1, keyRevision |-> 0, secret |-> Sealed(k, k, 0, 0)]

CreateConnection(k, names, image) ==
  /\ connection[k] = NoRecord /\ requests < MaxRequests /\ requests' = requests + 1
  /\ ~UnitRefused(names, image)
  /\ connection' = [connection EXCEPT ![k] = NewConnection(k)]
  /\ models' = ListedUnits(names, image) /\ offers' = offers \union OffersOf(k, names)
  /\ UNCHANGED <<drawn, session, accountVars, work, issued>>

\* An update starts from the rows as they are; a new key is encrypted for the
\* revision that it will have.
BeginUpdate(h, k, rotating) ==
  /\ connection[k] # NoRecord /\ (rotating => issued < MaxRequests)
  /\ LET c == connection[k] IN
       Takes(h, [step |-> "update", connection |-> k, revision |-> c.revision, rotating |-> rotating,
                 status |-> IF c.status = "active" THEN "disabled" ELSE "active",
                 keyRevision |-> c.keyRevision + 1,
                 secret |-> Sealed(k, k, c.keyRevision + 1, issued + 1)])
  /\ issued' = IF rotating THEN issued + 1 ELSE issued
  /\ UNCHANGED <<drawn, session, accountVars, catalogVars>>

\* A plausible bug: the rows are written whatever their revision is by now.
Fresh_Overwrite(w) == TRUE

Fresh(w) == connection[w.connection].revision = w.revision

\* A rotation leaves the status alone, an update the key.
UpdatedRow(row, w) ==
  IF w.rotating
  THEN [row EXCEPT !.revision = w.revision + 1, !.keyRevision = w.keyRevision, !.secret = w.secret]
  ELSE [row EXCEPT !.revision = w.revision + 1, !.status = w.status]

UpdateConnection(h) ==
  /\ Stands(h, "update")
  /\ LET w == work[h] IN
       connection' = IF Fresh(w) THEN [connection EXCEPT ![w.connection] = UpdatedRow(@, w)]
                     ELSE connection
  /\ Leaves(h) /\ UNCHANGED <<drawn, session, accountVars, models, offers, issued>>

\* Models are asked of the channel through a runner, or listed by hand.
BeginDiscovery(h, k) ==
  /\ connection[k] # NoRecord /\ connection[k].status = "active"
  /\ Takes(h, [step |-> "discovered", connection |-> k, revision |-> connection[k].revision])
  /\ UNCHANGED <<drawn, session, accountVars, catalogVars, issued>>

BeginListing(h, k) ==
  /\ connection[k] # NoRecord /\ connection[k].status = "active"
  /\ Takes(h, [step |-> "listed", connection |-> k, revision |-> connection[k].revision])
  /\ UNCHANGED <<drawn, session, accountVars, catalogVars, issued>>

Accepts(w) == Fresh(w) /\ connection[w.connection].status = "active"

Touched(k) == [connection EXCEPT ![k].revision = @ + 1]

\* What the connection already offers is passed over.
SyncConnectionModels(h, found) ==
  /\ Stands(h, "discovered")
  /\ LET w == work[h]  k == w.connection IN
       IF Accepts(w)
       THEN /\ connection' = Touched(k) /\ models' = Catalogued(found, FALSE)
            /\ offers' = offers \union OffersOf(k, found)
       ELSE UNCHANGED catalogVars
  /\ Leaves(h) /\ UNCHANGED <<drawn, session, accountVars, issued>>

\* By hand nothing may be offered already, and no model changes its unit.
AlreadyBound(k, names, image) ==
  \/ OffersOf(k, names) \intersect offers # {}
  \/ \E m \in names : models[m] # NoRecord /\ models[m].image # image

AddConnectionModels(h, names, image) ==
  /\ Stands(h, "listed")
  /\ LET w == work[h]  k == w.connection IN
       IF Accepts(w) /\ ~AlreadyBound(k, names, image)
       THEN /\ connection' = Touched(k) /\ models' = ListedUnits(names, image)
            /\ offers' = offers \union OffersOf(k, names)
       ELSE UNCHANGED catalogVars
  /\ Leaves(h) /\ UNCHANGED <<drawn, session, accountVars, issued>>

\* The client goes away and the handler with it; nothing is given back.
Dies(h) ==
  /\ work[h] # Free /\ Leaves(h)
  /\ UNCHANGED <<drawn, session, accountVars, catalogVars, issued>>

HandlerNext(h) ==
  \/ \E e \in Enrollment : BeginExchange(h, e)
  \/ ExchangeFails(h) \/ (\E s \in Subject : ExchangeSucceeds(h, s))
  \/ ResolveAccount(h) \/ InsertAccount(h) \/ InsertCredential(h)
  \/ \E c \in Ident : BeginCredentialRefresh(h, c)
  \/ AcquireRefreshLease(h) \/ DecryptCredential(h) \/ UpstreamRefreshes(h)
  \/ RefreshFails(h) \/ CommitCredentialRefresh(h)
  \/ \E a \in Ident : BeginSync(h, a)
  \/ \E k \in Channel : BeginDiscovery(h, k) \/ BeginListing(h, k)
                          \/ \E rotating \in BOOLEAN : BeginUpdate(h, k, rotating)
  \/ UpdateConnection(h)
  \/ \E names \in SUBSET Model :
       \/ ReplaceAccountModels(h, names) \/ SyncConnectionModels(h, names)
       \/ \E image \in BOOLEAN : names # {} /\ AddConnectionModels(h, names, image)
  \/ Dies(h)

UpstreamNext ==
  \/ \E h \in Worker : HandlerNext(h)
  \/ \E e \in Enrollment : StartEnrollment(e) \/ CancelEnrollment(e) \/ SessionExpires(e)
  \/ \E a \in Ident : DeleteUpstreamAccount(a)
       \/ \E status \in Status : UpdateUpstreamAccount(a, status)
  \/ \E c \in Ident : LeaseExpires(c)
  \/ \E m \in Model, on \in BOOLEAN : UpdateModelEnabled(m, on)
  \/ \E k \in Channel, names \in SUBSET Model, image \in BOOLEAN : CreateConnection(k, names, image)

UpstreamSpec == UpstreamInit /\ [][UpstreamNext]_upstreamVars

----------------------------------------------------------------------------

Rows(table) == {i \in DOMAIN table : table[i] # NoRecord}

\* The upstream's accounts are unique and within the license.
AccountsUnique ==
  /\ \A a, b \in Rows(account) : account[a].subject = account[b].subject => a = b
  /\ Cardinality(Rows(account)) <= AccountLimit

\* A credential belongs to the account it was issued for and can be decrypted
\* with the row that holds it.
CredentialsFit ==
  \A c \in Rows(credential) :
    /\ credential[c].account \in Rows(account)
    /\ account[credential[c].account].subject = credential[c].subject
    /\ credential[c].secret = Sealed(c, credential[c].account, credential[c].revision,
                                    credential[c].secret.token)

KeysFit ==
  \A k \in Rows(connection) :
    connection[k].secret = Sealed(k, k, connection[k].keyRevision, connection[k].secret.token)

\* What is offered has an owner and a model.
OffersOwned ==
  \A o \in offers : o[1] \in Rows(account) \union Rows(connection) /\ models[o[2]] # NoRecord

\* The tables fit together whatever handlers raced.
UpstreamRowsCoherent ==
  AccountsUnique /\ CredentialsFit /\ Rows(leases) \subseteq Rows(credential) /\ KeysFit /\ OffersOwned

\* No answer that comes late replaces newer tokens with older ones, and no two
\* different secrets of a row have the same revision.
SecretsStep ==
  /\ \A c \in Ident : credential[c] # NoRecord /\ credential'[c] \notin {NoRecord, credential[c]} =>
       /\ credential'[c].revision = credential[c].revision + 1
       /\ credential'[c].secret.token > credential[c].secret.token
  /\ \A k \in Channel : connection[k] # NoRecord /\ connection'[k].secret # connection[k].secret =>
       connection'[k].keyRevision = connection[k].keyRevision + 1

SecretsAdvance == [][SecretsStep]_upstreamVars

\* Upstream accounts keep their secrets: no late answer undoes what a later
\* handler wrote, and no race leaves rows that do not fit together.
UpstreamSound == []UpstreamRowsCoherent /\ SecretsAdvance
=============================================================================
