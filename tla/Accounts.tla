------------------------------ MODULE Accounts ------------------------------
(* Accounts and who is signed in to them: core/views.py (registration, email *)
(* code, password reset, sign-in, takeover), core/sessions.py, the two       *)
(* middlewares, core/supabase_auth.py, core/identity_cleanup.py and the      *)
(* provisioning commands.  An account is named by its email address.  The    *)
(* identity provider (Supabase Auth) is external: it creates, renames and    *)
(* deletes identities when it likes, and is asked over the network between   *)
(* two steps of a handler.                                                   *)

EXTENDS Naturals, FiniteSets

CONSTANTS
    Account,         \* email addresses
    Identity,        \* provider ids; each is issued once
    Browser,         \* cookie jars, standing for the session key they hold
    Syncer,          \* deletion synchronisations that may run at once
    None,
    MaxInFlight,     \* bound on handlers between two of their steps
    ProviderLogin    \* SUPABASE_AUTH_PASSWORD_LOGIN_ENABLED

ASSUME AccountsAssumption ==
    /\ None \notin Account \cup Identity \cup Browser
    /\ ProviderLogin \in BOOLEAN
    /\ MaxInFlight \in Nat

VARIABLES
    account,    \* users rows; role "none": no row
    provider,   \* email of each identity at the provider, None: not there
    issued,     \* identities the provider has ever created
    session,    \* account whose server-side session a browser holds
    pending,    \* account a browser may take over within five minutes
    grant,      \* account a browser may set a new password for
    request,    \* the sign-in a browser has in flight
    creating,   \* create_supabase_admin between the provider and the database
    sync        \* deletion synchronisations in flight

vars == <<account, provider, issued, session, pending, grant, request, creating, sync>>
browsers == <<session, pending, grant, request>>

Roles   == {"client", "editor", "admin"}
UserRow == [role : Roles \cup {"none"}, active : BOOLEAN, verified : BOOLEAN,
            deleted : BOOLEAN, link : Identity \cup {None}, key : Browser \cup {None}]
Absent  == [role |-> "none", active |-> FALSE, verified |-> FALSE,
            deleted |-> FALSE, link |-> None, key |-> None]

\* What a sign-in keeps of the row it read before the provider was asked.
Reading   == [active : BOOLEAN, link : Identity \cup {None}, key : Browser \cup {None}]
Read(row) == [active |-> row.active, link |-> row.link, key |-> row.key]
Request   == [stage : {"none", "asking", "provision", "code", "establish"},
              account : Account \cup {None}, seen : Reading, id : Identity \cup {None}]
NoRequest == [stage |-> "none", account |-> None, seen |-> Read(Absent), id |-> None]

Sync == [stage : {"idle", "fetched", "archiving"}, by : Browser \cup {None},
         known : SUBSET Identity, todo : SUBSET Account,
         target : Account \cup {None}, blocked : BOOLEAN]
Idle == [stage |-> "idle", by |-> None, known |-> {}, todo |-> {},
         target |-> None, blocked |-> FALSE]

\* Rows the handlers agree on: no row is blank, only a confirmed address is
\* linked (so an email code can never activate a linked account), and only a
\* linked account is archived.
Coherent(row) ==
    /\ row.role = "none" => row = Absent
    /\ row.link # None => row.verified
    /\ row.deleted => row.link # None

\* The tables, the browsers and the requests keep their types, and the rows
\* stay coherent, through every interleaving of sign-ins and deletions.
TypeOK ==
    /\ account \in [Account -> UserRow]
    /\ \A u \in Account : Coherent(account[u])
    /\ provider \in [Identity -> Account \cup {None}]
    /\ issued \in SUBSET Identity
    /\ session \in [Browser -> Account \cup {None}]
    /\ pending \in [Browser -> Account \cup {None}]
    /\ grant \in [Browser -> Account \cup {None}]
    /\ request \in [Browser -> Request]
    /\ creating \in SUBSET (Account \X Identity)
    /\ sync \in [Syncer -> Sync]

\* Room for one more handler between two of its steps.
Room ==
    LET signIns == {b \in Browser : request[b].stage # "none"}
        syncs   == {s \in Syncer : sync[s].stage # "idle"}
    IN Cardinality(signIns) + Cardinality(syncs) + Cardinality(creating) < MaxInFlight

-----------------------------------------------------------------------------
(* Who is signed in *)

\* request.user: Django drops the user of a session whose account is inactive.
Authenticated(b) == session[b] # None /\ account[session[b]].active

\* SingleActiveSessionMiddleware compares the keys only when the account has one.
Ended(b) == Authenticated(b) /\ account[session[b]].key \notin {b, None}
Live(b)  == Authenticated(b) /\ ~Ended(b)

\* archive_deleted_identity holds the user row from its checks to its commit.
Unlocked(u) == \A s \in Syncer : sync[s].target # u

Known == {i \in Identity : provider[i] # None}
HasIdentity(u) == \E i \in Identity : provider[i] = u

\* active_session_exists, for the key a handler read earlier.
UsedElsewhere(b, u, key) == key \notin {None, b} /\ session[key] = u

-----------------------------------------------------------------------------
(* The provider *)

CreateIdentity(i, u) ==
    /\ i \notin issued
    /\ ~HasIdentity(u)
    /\ provider' = [provider EXCEPT ![i] = u]
    /\ issued' = issued \cup {i}
    /\ UNCHANGED <<account, browsers, creating, sync>>

ChangeEmail(i, u) ==
    /\ i \in Known
    /\ ~HasIdentity(u)
    /\ provider' = [provider EXCEPT ![i] = u]
    /\ UNCHANGED <<account, issued, browsers, creating, sync>>

DeleteIdentity(i) ==
    /\ i \in Known
    /\ provider' = [provider EXCEPT ![i] = None]
    /\ UNCHANGED <<account, issued, browsers, creating, sync>>

-----------------------------------------------------------------------------
(* Registration and the email code *)

Register(b, u) ==
    /\ ~Authenticated(b)
    /\ account[u].role = "none"
    /\ account' = [account EXCEPT ![u] = [Absent EXCEPT !.role = "client"]]
    /\ UNCHANGED <<provider, issued, browsers, creating, sync>>

\* What verify_email_otp and resend_verification look for.
\* Mutant: any inactive client may be activated by a code.
UnverifiedInactive(row) == row.role = "client" /\ ~row.active

Unverified(row) == row.role = "client" /\ ~row.active /\ ~row.verified

\* The provider accepted the code, the row is not locked yet.
CheckCode(b, u) ==
    /\ Room
    /\ ~Authenticated(b)
    /\ request[b].stage = "none"
    /\ Unverified(account[u])
    /\ HasIdentity(u)
    /\ request' = [request EXCEPT ![b] = [NoRequest EXCEPT !.stage = "code", !.account = u]]
    /\ UNCHANGED <<account, provider, issued, session, pending, grant, creating, sync>>

ActivateByCode(b) ==
    LET u == request[b].account
    IN /\ request[b].stage = "code"
       /\ Unlocked(u)
       /\ IF Unverified(account[u])
          THEN /\ account' = [account EXCEPT ![u].active = TRUE, ![u].verified = TRUE]
               /\ request' = [request EXCEPT ![b].stage = "establish"]
          ELSE /\ request' = [request EXCEPT ![b] = NoRequest]
               /\ UNCHANGED account
       /\ UNCHANGED <<provider, issued, session, pending, grant, creating, sync>>

-----------------------------------------------------------------------------
(* Sign-in *)

\* LoginForm.clean: who is checked by the provider and who by Django's hash.
AsksProvider(row) == ProviderLogin /\ (row.role \in {"none", "client"} \/ row.link # None)

\* _login_view after the credentials: offer the choice, or go on.
Admit(b, u, key) ==
    IF UsedElsewhere(b, u, key)
    THEN /\ pending' = [pending EXCEPT ![b] = u]
         /\ request' = [request EXCEPT ![b] = NoRequest]
    ELSE /\ request' = [request EXCEPT ![b] = [NoRequest EXCEPT !.stage = "establish", !.account = u]]
         /\ UNCHANGED pending

LocalSignIn(b, u) ==
    /\ Room
    /\ ~Authenticated(b)
    /\ request[b].stage = "none"
    /\ ~AsksProvider(account[u])
    /\ account[u].active
    /\ Admit(b, u, account[u].key)
    /\ UNCHANGED <<account, provider, issued, session, grant, creating, sync>>

\* authenticate_supabase_user reads the row, then calls the provider.
AskProvider(b, u) ==
    /\ Room
    /\ ~Authenticated(b)
    /\ request[b].stage = "none"
    /\ AsksProvider(account[u])
    /\ request' = [request EXCEPT ![b] = [stage |-> "asking", account |-> u,
                                          seen |-> Read(account[u]), id |-> None]]
    /\ UNCHANGED <<account, provider, issued, session, pending, grant, creating, sync>>

\* The identity is judged against the row read before the call.
Accepted(b) ==
    LET u == request[b].account
        seen == request[b].seen
    IN /\ request[b].stage = "asking"
       /\ \E i \in Identity :
             /\ provider[i] = u
             /\ IF seen.link # None
                THEN /\ seen.link = i /\ seen.active
                     /\ Admit(b, u, seen.key)
                ELSE /\ request' = [request EXCEPT ![b] =
                                       [NoRequest EXCEPT !.stage = "provision", !.account = u, !.id = i]]
                     /\ UNCHANGED pending
       /\ UNCHANGED <<account, provider, issued, session, grant, creating, sync>>

\* Wrong password, no such identity, provider unavailable.
Refused(b) ==
    /\ request[b].stage = "asking"
    /\ request' = [request EXCEPT ![b] = NoRequest]
    /\ UNCHANGED <<account, provider, issued, session, pending, grant, creating, sync>>

\* Mutant: the identity of the latest sign-in takes the account over.
LinkableAgain(u, i) == account[u].role \in {"none", "client"}

\* The refusals of _provision_client.
Linkable(u, i) ==
    /\ account[u].role \in {"none", "client"}
    /\ account[u].link \in {None, i}
    /\ \A v \in Account \ {u} : account[v].link # i

\* Mutant: the link leaves an inactive row inactive.
LinkedAsleep(row, i) == [row EXCEPT !.role = "client", !.link = i, !.verified = TRUE]

Linked(row, i) ==
    [row EXCEPT !.role = "client", !.link = i, !.active = TRUE, !.verified = TRUE]

Provision(b) ==
    LET u == request[b].account
        i == request[b].id
    IN /\ request[b].stage = "provision"
       /\ Unlocked(u)
       /\ IF Linkable(u, i)
          THEN account' = [account EXCEPT ![u] = Linked(@, i)] /\ Admit(b, u, account[u].key)
          ELSE request' = [request EXCEPT ![b] = NoRequest] /\ UNCHANGED <<account, pending>>
       /\ UNCHANGED <<provider, issued, session, grant, creating, sync>>

\* establish_session: the account is not looked at again.
Establish(b) ==
    LET u == request[b].account
    IN /\ request[b].stage = "establish"
       /\ Unlocked(u)
       /\ session' = [session EXCEPT ![b] = u]
       /\ account' = [account EXCEPT ![u].key = b]
       /\ pending' = [pending EXCEPT ![b] = None]
       /\ request' = [request EXCEPT ![b] = NoRequest]
       /\ UNCHANGED <<provider, issued, grant, creating, sync>>

TakeOver(b) ==
    /\ Room
    /\ pending[b] # None
    /\ request[b].stage = "none"
    /\ account[pending[b]].active
    /\ request' = [request EXCEPT ![b] = [NoRequest EXCEPT !.stage = "establish", !.account = pending[b]]]
    /\ UNCHANGED <<account, provider, issued, session, pending, grant, creating, sync>>

KeepOther(b) ==
    /\ pending[b] # None
    /\ pending' = [pending EXCEPT ![b] = None]
    /\ UNCHANGED <<account, provider, issued, session, grant, request, creating, sync>>

\* Any page of a browser whose session was replaced.
SignedOut(b) ==
    /\ Ended(b)
    /\ session' = [session EXCEPT ![b] = None]
    /\ UNCHANGED <<account, provider, issued, pending, grant, request, creating, sync>>

Logout(b) ==
    /\ session[b] # None
    /\ session' = [session EXCEPT ![b] = None]
    /\ account' = IF Authenticated(b) /\ account[session[b]].key = b
                  THEN [account EXCEPT ![session[b]].key = None] ELSE account
    /\ UNCHANGED <<provider, issued, pending, grant, request, creating, sync>>

\* The session cookie runs out; the pending takeover and the reset grant live
\* in it and have shorter limits of their own.
Expire(b) ==
    /\ \/ session' = [session EXCEPT ![b] = None] /\ UNCHANGED <<pending, grant>>
       \/ pending' = [pending EXCEPT ![b] = None] /\ UNCHANGED <<session, grant>>
       \/ grant' = [grant EXCEPT ![b] = None] /\ UNCHANGED <<session, pending>>
    /\ UNCHANGED <<account, provider, issued, request, creating, sync>>

-----------------------------------------------------------------------------
(* Password reset *)

Resettable(u) == account[u].role \in {"client", "editor"} /\ account[u].active

\* password_reset_verify: the provider accepted the code.
GrantReset(b, u) ==
    /\ ~Authenticated(b)
    /\ Resettable(u)
    /\ HasIdentity(u)
    /\ grant' = [grant EXCEPT ![b] = u]
    /\ UNCHANGED <<account, provider, issued, session, pending, request, creating, sync>>

\* The designated session's row is deleted, the others carry an outdated hash
\* of the password and are flushed when they are next used.
SessionsAfter(u) == [b \in Browser |-> IF session[b] = u THEN None ELSE session[b]]

SetPassword(b) ==
    LET u == grant[b]
    IN /\ u # None
       /\ ~Authenticated(b)
       /\ Resettable(u)
       /\ Unlocked(u)
       /\ account' = [account EXCEPT ![u].key = None]
       /\ session' = SessionsAfter(u)
       /\ grant' = [grant EXCEPT ![b] = None]
       /\ UNCHANGED <<provider, issued, pending, request, creating, sync>>

-----------------------------------------------------------------------------
(* Provisioning commands *)

\* create_admin and create_editor: active at once, never linked or verified.
Staff(role) == [Absent EXCEPT !.role = role, !.active = TRUE]

CreateStaff(u, role) ==
    /\ account[u].role = "none"
    /\ account' = [account EXCEPT ![u] = Staff(role)]
    /\ UNCHANGED <<provider, issued, browsers, creating, sync>>

\* create_supabase_admin: first the identity ...
CreateAdminIdentity(u, i) ==
    /\ Room
    /\ account[u].role = "none"
    /\ i \notin issued
    /\ ~HasIdentity(u)
    /\ provider' = [provider EXCEPT ![i] = u]
    /\ issued' = issued \cup {i}
    /\ creating' = creating \cup {<<u, i>>}
    /\ UNCHANGED <<account, browsers, sync>>

\* ... then the account, or the removal of the identity, which may fail too.
CreateLinkedAdmin(u, i) ==
    /\ <<u, i>> \in creating
    /\ creating' = creating \ {<<u, i>>}
    /\ \/ /\ account[u].role = "none"
          /\ \A v \in Account : account[v].link # i
          /\ account' = [account EXCEPT ![u] =
                 [Absent EXCEPT !.role = "admin", !.active = TRUE, !.verified = TRUE, !.link = i]]
          /\ UNCHANGED provider
       \/ /\ provider' = [provider EXCEPT ![i] = None]
          /\ UNCHANGED account
       \/ UNCHANGED <<account, provider>>
    /\ UNCHANGED <<issued, browsers, sync>>

\* reconcile_supabase_client, with the lookup and the update as one step.
ReconcileClient(u, i) ==
    /\ account[u].role = "client"
    /\ provider[i] = u
    /\ Unlocked(u)
    /\ account[u].link = None
    /\ Linkable(u, i)
    /\ account' = [account EXCEPT ![u].link = i, ![u].verified = TRUE]
    /\ UNCHANGED <<provider, issued, browsers, creating, sync>>

-----------------------------------------------------------------------------
(* Deletion synchronisation: before every administrator page, or by command *)

ActiveAdmins == {u \in Account : account[u].role = "admin" /\ account[u].active /\ ~account[u].deleted}

FetchInventory(s, by) ==
    /\ Room
    /\ sync[s].stage = "idle"
    /\ by # None => Authenticated(by) /\ account[session[by]].role = "admin"
    /\ sync' = [sync EXCEPT ![s] = [Idle EXCEPT !.stage = "fetched", !.by = by, !.known = Known]]
    /\ UNCHANGED <<account, provider, issued, browsers, creating>>

\* The linked accounts are read after the inventory.
ListLinked(s) ==
    /\ sync[s].stage = "fetched"
    /\ sync' = [sync EXCEPT
           ![s].stage = "archiving",
           ![s].todo = {u \in Account : /\ account[u].link # None
                                        /\ ~account[u].deleted
                                        /\ account[u].link \notin sync[s].known}]
    /\ UNCHANGED <<account, provider, issued, browsers, creating>>

\* Mutant: administrators are archived like everybody else.
NobodyIsLast(u) == FALSE

LastAdmin(u) == account[u].role = "admin" /\ Cardinality(ActiveAdmins) <= 1

\* The checks of archive_deleted_identity, under the lock of the user row.
BeginArchive(s, u) ==
    /\ sync[s].stage = "archiving" /\ sync[s].target = None
    /\ u \in sync[s].todo
    /\ Unlocked(u)
    /\ LET rest == sync[s].todo \ {u}
       IN sync' = [sync EXCEPT ![s] =
              IF account[u].deleted THEN [@ EXCEPT !.todo = rest]
              ELSE IF LastAdmin(u) THEN [@ EXCEPT !.todo = rest, !.blocked = TRUE]
              ELSE [@ EXCEPT !.target = u]]
    /\ UNCHANGED <<account, provider, issued, browsers, creating>>

Archived(row) == [row EXCEPT !.active = FALSE, !.deleted = TRUE, !.key = None]

CommitArchive(s) ==
    LET u == sync[s].target
    IN /\ u # None
       /\ account' = [account EXCEPT ![u] = Archived(@)]
       /\ sync' = [sync EXCEPT ![s].target = None, ![s].todo = @ \ {u}]
       /\ UNCHANGED <<provider, issued, browsers, creating>>

\* The page is refused when somebody could not be archived; otherwise an
\* administrator who is gone is logged out.
FinishSync(s) ==
    LET b == sync[s].by
    IN /\ sync[s].stage = "archiving" /\ sync[s].todo = {} /\ sync[s].target = None
       /\ sync' = [sync EXCEPT ![s] = Idle]
       /\ session' = IF b # None /\ ~sync[s].blocked /\ ~Authenticated(b)
                     THEN [session EXCEPT ![b] = None] ELSE session
       /\ UNCHANGED <<account, provider, issued, pending, grant, request, creating>>

-----------------------------------------------------------------------------

Init ==
    /\ account = [u \in Account |-> Absent]
    /\ provider = [i \in Identity |-> None]
    /\ issued = {}
    /\ session = [b \in Browser |-> None]
    /\ pending = [b \in Browser |-> None]
    /\ grant = [b \in Browser |-> None]
    /\ request = [b \in Browser |-> NoRequest]
    /\ creating = {}
    /\ sync = [s \in Syncer |-> Idle]

Provider ==
    \/ \E i \in Identity, u \in Account : CreateIdentity(i, u) \/ ChangeEmail(i, u)
    \/ \E i \in Identity : DeleteIdentity(i)

Visitor ==
    \/ \E b \in Browser, u \in Account :
          \/ Register(b, u) \/ CheckCode(b, u) \/ LocalSignIn(b, u)
          \/ AskProvider(b, u) \/ GrantReset(b, u)
    \/ \E b \in Browser :
          \/ ActivateByCode(b) \/ Accepted(b) \/ Refused(b) \/ Provision(b) \/ Establish(b)
          \/ TakeOver(b) \/ KeepOther(b) \/ SignedOut(b) \/ Logout(b) \/ Expire(b) \/ SetPassword(b)

Operator ==
    \/ \E u \in Account, role \in {"admin", "editor"} : CreateStaff(u, role)
    \/ \E u \in Account, i \in Identity :
          CreateAdminIdentity(u, i) \/ CreateLinkedAdmin(u, i) \/ ReconcileClient(u, i)

Synchronise ==
    \E s \in Syncer :
       \/ \E by \in Browser \cup {None} : FetchInventory(s, by)
       \/ ListLinked(s)
       \/ \E u \in Account : BeginArchive(s, u)
       \/ CommitArchive(s)
       \/ FinishSync(s)

Next == Provider \/ Visitor \/ Operator \/ Synchronise

Spec == Init /\ [][Next]_vars

-----------------------------------------------------------------------------
(* What reconcile_accounts counts *)

\* _authenticated_session_users: accounts named by a session they may not use.
SessionsForInactive ==
    {u \in Account : ~account[u].active /\ \E b \in Browser : session[b] = u}

ActiveUnverified ==
    {u \in Account : account[u].role = "client" /\ account[u].active /\ ~account[u].verified}

\* account_reconciliation_report.  A profile is created in the transaction that
\* creates its user, so every count about profiles is zero.
Report == [sessions_for_inactive_users |-> SessionsForInactive,
           active_unverified_clients   |-> ActiveUnverified]

-----------------------------------------------------------------------------
(* Safety *)

\* The account report names nobody but archived accounts, whose sessions stay
\* in the session table: no way through registration, codes, first sign-ins,
\* link commands and takeovers signs in an account that was never activated,
\* or activates a client whose address was never confirmed.
OnlyArchivedAreReported ==
    /\ Report.active_unverified_clients = {}
    /\ \A u \in Report.sessions_for_inactive_users : account[u].deleted

\* An account keeps the identity it was first linked to, and no identity opens
\* two accounts, whoever signs in first, whatever the provider renames,
\* deletes and issues again, and however often the link commands run
\* (_provision_client, reconcile_supabase_client, create_supabase_admin).
IdentityIsImmutable ==
    [][\A u \in Account : 
          /\ account[u].link # None => account'[u].link = account[u].link
          /\ account'[u].link # None =>
                \A v \in Account \ {u} : account'[v].link # account'[u].link]_vars

\* Deletions at the provider never leave the application without an
\* administrator, as long as one synchronisation runs at a time
\* (archive_deleted_identity).
AdminRemains ==
    [][ActiveAdmins # {} => ActiveAdmins' # {}]_vars

\* An archived account is out for good, but for one race: a first sign-in
\* through the provider that had its password accepted before the account was
\* linked and archived activates it again (_provision_client).
OnlyFirstSignInRevives ==
    [][\A u \in Account : account[u].deleted /\ account'[u].active /\ ~account[u].active =>
          \E b \in Browser : /\ request[b].stage = "provision"
                             /\ request[b].account = u
                             /\ request[b].id = account[u].link]_vars

-----------------------------------------------------------------------------
(* What the documents say, and the code does not keep *)

\* DECISIONS.md: an account cannot remain logged in on two devices.
OneLiveSession ==
    \A b, c \in Browser : Live(b) /\ Live(c) /\ session[b] = session[c] => b = c

=============================================================================
