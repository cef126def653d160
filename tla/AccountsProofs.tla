--------------------------- MODULE AccountsProofs ---------------------------
(* Who an account belongs to, and who may be signed in to it, whatever the   *)
(* number of accounts, identities, browsers and synchronisations, and        *)
(* whatever the provider does between two steps of a handler.                *)
EXTENDS Accounts, FiniteSetTheorems, TLAPS

\* An account that was active once.
Usable(row) == row.active \/ row.deleted

LinksUnique == \A u, v \in Account :
    account[u].link # None /\ account[u].link = account[v].link => u = v

RowsSound ==
    /\ account \in [Account -> UserRow]
    /\ \A u \in Account : Coherent(account[u])
    /\ \A u \in Account : account[u].role = "client" /\ account[u].active => account[u].verified
    /\ LinksUnique

\* A request establishes sessions of accounts that were activated.
RequestSound(r, rows) ==
    /\ r.stage # "none" => r.account \in Account
    /\ r.stage = "provision" => r.id \in Identity
    /\ r.stage = "establish" => Usable(rows[r.account])
    /\ r.stage = "asking" /\ r.seen.link # None /\ r.seen.active => Usable(rows[r.account])

BrowsersSound ==
    /\ session \in [Browser -> Account \cup {None}]
    /\ pending \in [Browser -> Account \cup {None}]
    /\ grant \in [Browser -> Account \cup {None}]
    /\ request \in [Browser -> Request]
    /\ \A b \in Browser : session[b] # None => Usable(account[session[b]])
    /\ \A b \in Browser : RequestSound(request[b], account)

\* Only linked accounts are archived.
SyncsSound ==
    /\ sync \in [Syncer -> Sync]
    /\ \A s \in Syncer : \A u \in sync[s].todo : account[u].link # None
    /\ \A s \in Syncer : sync[s].target # None => account[sync[s].target].link # None

IdentitiesSound ==
    /\ provider \in [Identity -> Account \cup {None}]
    /\ issued \in SUBSET Identity
    /\ creating \in SUBSET (Account \X Identity)

\* The inductive invariant.
NInv == RowsSound /\ BrowsersSound /\ SyncsSound /\ IdentitiesSound

\* What no step takes from a row: its role, its identity, that it was active.
Grows == \A u \in Account :
    /\ account[u].role # "none" => account'[u].role = account[u].role
    /\ account[u].link # None => account'[u].link = account[u].link
    /\ Usable(account[u]) => Usable(account'[u])

USE AccountsAssumption DEF Roles

-----------------------------------------------------------------------------
(* Frames *)

LEMMA RowsSame ==
    ASSUME RowsSound, UNCHANGED account
    PROVE  RowsSound' /\ Grows
  BY DEF RowsSound, LinksUnique, Grows

\* One row written.
LEMMA RowWritten ==
    ASSUME RowsSound, NEW u \in Account, NEW row \in UserRow,
           account' = [account EXCEPT ![u] = row],
           Coherent(row),
           row.role = "client" /\ row.active => row.verified,
           account[u].role # "none" => row.role = account[u].role,
           account[u].link # None => row.link = account[u].link,
           Usable(account[u]) => Usable(row),
           row.link # None => \A v \in Account \ {u} : account[v].link # row.link
    PROVE  RowsSound' /\ Grows
<1>1. account'[u] = row /\ \A v \in Account : v # u => account'[v] = account[v]
  BY DEF RowsSound
<1>2. account' \in [Account -> UserRow]
  BY DEF RowsSound
<1>3. LinksUnique'
  BY <1>1 DEF RowsSound, LinksUnique
<1>4. QED
  BY <1>1, <1>2, <1>3 DEF RowsSound, Grows

LEMMA BrowsersSame ==
    ASSUME NInv, Grows, UNCHANGED browsers
    PROVE  BrowsersSound'
<1>1. \A b \in Browser : session[b] \in Account \cup {None} /\ RequestSound(request[b], account)
  BY DEF NInv, BrowsersSound
<1>2. \A b \in Browser : RequestSound(request[b], account')
  BY <1>1 DEF RequestSound, Grows
<1>3. \A b \in Browser : session[b] # None => Usable(account'[session[b]])
  BY <1>1 DEF NInv, BrowsersSound, Grows
<1>4. QED
  BY <1>2, <1>3 DEF NInv, BrowsersSound, browsers

\* One request written, nothing else of the browsers.
LEMMA RequestWritten ==
    ASSUME NInv, Grows, UNCHANGED <<session, pending, grant>>, NEW b \in Browser, NEW r \in Request,
           request' = [request EXCEPT ![b] = r], RequestSound(r, account')
    PROVE  BrowsersSound'
<1>1. \A c \in Browser : session[c] \in Account \cup {None} /\ RequestSound(request[c], account)
  BY DEF NInv, BrowsersSound
<1>2. \A c \in Browser : RequestSound(request[c], account')
  BY <1>1 DEF RequestSound, Grows
<1>3. \A c \in Browser : session[c] # None => Usable(account'[session[c]])
  BY <1>1 DEF NInv, BrowsersSound, Grows
<1>4. request' \in [Browser -> Request]
  BY DEF NInv, BrowsersSound
<1>5. \A c \in Browser : RequestSound(request'[c], account')
  BY <1>2 DEF NInv, BrowsersSound
<1>6. QED
  BY <1>3, <1>4, <1>5 DEF NInv, BrowsersSound

\* The cookies of one browser written, requests too or not.
LEMMA CookiesWritten ==
    ASSUME NInv, Grows, NEW b \in Browser,
           session' \in [Browser -> Account \cup {None}],
           pending' \in [Browser -> Account \cup {None}],
           grant' \in [Browser -> Account \cup {None}],
           \A c \in Browser : \/ session'[c] \in {session[c], None}
                              \/ Usable(account'[session'[c]]),
           request' = request \/ request' = [request EXCEPT ![b] = NoRequest]
    PROVE  BrowsersSound'
<1>1. \A c \in Browser : session[c] \in Account \cup {None} /\ RequestSound(request[c], account)
  BY DEF NInv, BrowsersSound
<1>2. \A c \in Browser : RequestSound(request[c], account')
  BY <1>1 DEF RequestSound, Grows
<1>3. \A c \in Browser : session'[c] # None => Usable(account'[session'[c]])
  BY <1>1 DEF NInv, BrowsersSound, Grows
<1>4. NoRequest \in Request /\ RequestSound(NoRequest, account')
  BY DEF NoRequest, Request, Reading, Read, Absent, RequestSound
<1>5. request' \in [Browser -> Request] /\ \A c \in Browser : RequestSound(request'[c], account')
  BY <1>2, <1>4 DEF NInv, BrowsersSound
<1>6. QED
  BY <1>3, <1>5 DEF BrowsersSound

LEMMA SyncsSame ==
    ASSUME NInv, Grows, UNCHANGED sync
    PROVE  SyncsSound'
<1>1. \A s \in Syncer : sync[s].todo \subseteq Account /\ sync[s].target \in Account \cup {None}
  BY DEF NInv, SyncsSound, Sync
<1>2. QED
  BY <1>1 DEF NInv, SyncsSound, Grows

\* One synchronisation written.
LEMMA SyncWritten ==
    ASSUME NInv, Grows, NEW s \in Syncer, NEW row \in Sync, sync' = [sync EXCEPT ![s] = row],
           \A u \in row.todo : account[u].link # None,
           row.target # None => account[row.target].link # None
    PROVE  SyncsSound'
<1>1. \A t \in Syncer : sync[t].todo \subseteq Account /\ sync[t].target \in Account \cup {None}
  BY DEF NInv, SyncsSound, Sync
<1>2. row.todo \subseteq Account /\ row.target \in Account \cup {None}
  BY DEF Sync
<1>3. sync'[s] = row /\ \A t \in Syncer : t # s => sync'[t] = sync[t]
  BY DEF NInv, SyncsSound
<1>4. sync' \in [Syncer -> Sync]
  BY DEF NInv, SyncsSound
<1>5. QED
  BY <1>1, <1>2, <1>3, <1>4 DEF NInv, SyncsSound, Grows

LEMMA Requests ==
    ASSUME NEW u \in Account, NEW i \in Identity, NEW rows
    PROVE  /\ NoRequest \in Request /\ RequestSound(NoRequest, rows)
           /\ [NoRequest EXCEPT !.stage = "code", !.account = u] \in Request
           /\ RequestSound([NoRequest EXCEPT !.stage = "code", !.account = u], rows)
           /\ [NoRequest EXCEPT !.stage = "establish", !.account = u] \in Request
           /\ Usable(rows[u]) =>
                 RequestSound([NoRequest EXCEPT !.stage = "establish", !.account = u], rows)
           /\ [NoRequest EXCEPT !.stage = "provision", !.account = u, !.id = i] \in Request
           /\ RequestSound([NoRequest EXCEPT !.stage = "provision", !.account = u, !.id = i], rows)
  BY DEF NoRequest, Request, Reading, Read, Absent, RequestSound

\* The end of a sign-in to an account that was active once.
LEMMA AdmitSound ==
    ASSUME NInv, Grows, NEW b \in Browser, NEW u \in Account, NEW key, Admit(b, u, key),
           UNCHANGED <<session, grant>>, Usable(account'[u])
    PROVE  BrowsersSound'
<1>1. CASE UNCHANGED pending /\ request' = [request EXCEPT ![b] =
               [NoRequest EXCEPT !.stage = "establish", !.account = u]]
  <2> DEFINE r == [NoRequest EXCEPT !.stage = "establish", !.account = u]
  <2>1. r \in Request
    BY DEF NoRequest, Request, Reading, Read, Absent
  <2>2. RequestSound(r, account')
    BY DEF NoRequest, RequestSound
  <2>3. request' = [request EXCEPT ![b] = r]
    BY <1>1
  <2> HIDE DEF r
  <2>4. QED
    BY <1>1, <2>1, <2>2, <2>3, RequestWritten
<1>2. CASE pending' = [pending EXCEPT ![b] = u] /\ request' = [request EXCEPT ![b] = NoRequest]
  <2>1. pending' \in [Browser -> Account \cup {None}]
    BY <1>2 DEF NInv, BrowsersSound
  <2>2. QED
    BY <1>2, <2>1, CookiesWritten DEF NInv, BrowsersSound
<1>3. QED
  BY <1>1, <1>2 DEF Admit

-----------------------------------------------------------------------------
(* The provider *)

LEMMA ProviderInvariant ==
    ASSUME NInv, Provider
    PROVE  NInv' /\ Grows
<1>1. UNCHANGED <<account, browsers, creating, sync>>
  BY DEF Provider, CreateIdentity, ChangeEmail, DeleteIdentity
<1>2. IdentitiesSound'
  BY <1>1 DEF Provider, CreateIdentity, ChangeEmail, DeleteIdentity, NInv, IdentitiesSound
<1>3. RowsSound' /\ Grows
  BY <1>1, RowsSame DEF NInv
<1>4. QED
  BY <1>1, <1>2, <1>3, BrowsersSame, SyncsSame DEF NInv

-----------------------------------------------------------------------------
(* Visitors *)

LEMMA RegisterInvariant ==
    ASSUME NInv, NEW b \in Browser, NEW u \in Account, Register(b, u)
    PROVE  NInv' /\ Grows
<1> DEFINE row == [Absent EXCEPT !.role = "client"]
<1>1. row \in UserRow /\ Coherent(row) /\ ~row.active /\ row.link = None /\ row.role = "client"
  BY DEF Absent, UserRow, Coherent
<1>2. account' = [account EXCEPT ![u] = row]
  BY DEF Register
<1>3. account[u] = Absent /\ ~Usable(account[u]) /\ account[u].role = "none" /\ account[u].link = None
  BY DEF Register, NInv, RowsSound, Coherent, Absent, Usable
<1> HIDE DEF row
<1>4. RowsSound' /\ Grows
  BY <1>1, <1>2, <1>3, RowWritten DEF NInv
<1>5. UNCHANGED <<provider, issued, browsers, creating, sync>>
  BY DEF Register
<1>6. QED
  BY <1>4, <1>5, BrowsersSame, SyncsSame DEF NInv, IdentitiesSound

LEMMA CheckCodeInvariant ==
    ASSUME NInv, NEW b \in Browser, NEW u \in Account, CheckCode(b, u)
    PROVE  NInv' /\ Grows
<1> DEFINE r == [NoRequest EXCEPT !.stage = "code", !.account = u]
<1>1. UNCHANGED <<account, provider, issued, session, pending, grant, creating, sync>>
      /\ request' = [request EXCEPT ![b] = r]
  BY DEF CheckCode
<1>2. RowsSound' /\ Grows
  BY <1>1, RowsSame DEF NInv
<1>3. r \in Request /\ RequestSound(r, account')
  BY DEF NoRequest, Request, Reading, Read, Absent, RequestSound
<1> HIDE DEF r
<1>4. QED
  BY <1>1, <1>2, <1>3, RequestWritten, SyncsSame DEF NInv, IdentitiesSound

LEMMA ActivateByCodeInvariant ==
    ASSUME NInv, NEW b \in Browser, ActivateByCode(b)
    PROVE  NInv' /\ Grows
<1> DEFINE u == request[b].account
<1>1. u \in Account /\ request[b].stage = "code" /\ request[b] \in Request
  BY DEF ActivateByCode, NInv, BrowsersSound, RequestSound
<1>2. UNCHANGED <<provider, issued, session, pending, grant, creating, sync>>
  BY DEF ActivateByCode
<1>3. CASE Unverified(account[u])
  <2> DEFINE row == [account[u] EXCEPT !.active = TRUE, !.verified = TRUE]
             r == [request[b] EXCEPT !.stage = "establish"]
  <2>1. account[u] \in UserRow /\ Coherent(account[u])
    BY <1>1 DEF NInv, RowsSound
  <2>2. /\ row \in UserRow /\ Coherent(row) /\ row.verified /\ row.active
        /\ row.role = account[u].role /\ row.link = account[u].link
    BY <1>3, <2>1 DEF UserRow, Coherent, Unverified
  <2>3. account' = [account EXCEPT ![u] = row]
    BY <1>1, <1>3, <2>1 DEF ActivateByCode, NInv, RowsSound
  <2>4. request' = [request EXCEPT ![b] = r]
    BY <1>3 DEF ActivateByCode
  <2>5. r \in Request /\ r.stage = "establish" /\ r.account = u
    BY <1>1 DEF Request
  <2> HIDE DEF row, r
  <2>6. RowsSound' /\ Grows
    BY <1>1, <2>2, <2>3, RowWritten DEF NInv, RowsSound, LinksUnique, Usable
  <2>7. Usable(account'[u])
    BY <1>1, <2>2, <2>3 DEF NInv, RowsSound, Usable
  <2>8. BrowsersSound'
    BY <1>1, <1>2, <2>4, <2>5, <2>6, <2>7, RequestWritten DEF RequestSound
  <2>9. QED
    BY <1>2, <2>6, <2>8, SyncsSame DEF NInv, IdentitiesSound
<1>4. CASE ~Unverified(account[u])
  <2>1. UNCHANGED account /\ request' = [request EXCEPT ![b] = NoRequest]
    BY <1>4 DEF ActivateByCode
  <2>2. RowsSound' /\ Grows
    BY <2>1, RowsSame DEF NInv
  <2>3. BrowsersSound'
    BY <1>2, <2>1, <2>2, CookiesWritten DEF NInv, BrowsersSound
  <2>4. QED
    BY <1>2, <2>2, <2>3, SyncsSame DEF NInv, IdentitiesSound
<1>5. QED
  BY <1>3, <1>4

LEMMA LocalSignInInvariant ==
    ASSUME NInv, NEW b \in Browser, NEW u \in Account, LocalSignIn(b, u)
    PROVE  NInv' /\ Grows
<1>1. UNCHANGED <<account, provider, issued, session, grant, creating, sync>>
      /\ Admit(b, u, account[u].key) /\ account[u].active
  BY DEF LocalSignIn
<1>2. RowsSound' /\ Grows
  BY <1>1, RowsSame DEF NInv
<1>3. BrowsersSound'
  BY <1>1, <1>2, AdmitSound DEF Usable
<1>4. QED
  BY <1>1, <1>2, <1>3, SyncsSame DEF NInv, IdentitiesSound

LEMMA AskProviderInvariant ==
    ASSUME NInv, NEW b \in Browser, NEW u \in Account, AskProvider(b, u)
    PROVE  NInv' /\ Grows
<1> DEFINE r == [stage |-> "asking", account |-> u, seen |-> Read(account[u]), id |-> None]
<1>1. UNCHANGED <<account, provider, issued, session, pending, grant, creating, sync>>
      /\ request' = [request EXCEPT ![b] = r]
  BY DEF AskProvider
<1>2. RowsSound' /\ Grows
  BY <1>1, RowsSame DEF NInv
<1>3. account[u] \in UserRow
  BY DEF NInv, RowsSound
<1>4. r \in Request /\ r.stage = "asking" /\ r.account = u /\ r.seen.active = account[u].active
  BY <1>3 DEF Request, Reading, Read, UserRow
<1> HIDE DEF r
<1>5. RequestSound(r, account')
  BY <1>1, <1>3, <1>4 DEF RequestSound, Usable
<1>6. BrowsersSound'
  BY <1>1, <1>2, <1>4, <1>5, RequestWritten
<1>7. QED
  BY <1>1, <1>2, <1>6, SyncsSame DEF NInv, IdentitiesSound

LEMMA AcceptedInvariant ==
    ASSUME NInv, NEW b \in Browser, Accepted(b)
    PROVE  NInv' /\ Grows
<1> DEFINE u == request[b].account
           seen == request[b].seen
<1>1. u \in Account /\ RequestSound(request[b], account) /\ request[b].stage = "asking"
  BY DEF Accepted, NInv, BrowsersSound, RequestSound
<1>2. UNCHANGED <<account, provider, issued, session, grant, creating, sync>>
  BY DEF Accepted
<1>3. RowsSound' /\ Grows
  BY <1>2, RowsSame DEF NInv
<1>4. PICK i \in Identity :
         IF seen.link # None
         THEN seen.active /\ Admit(b, u, seen.key)
         ELSE /\ request' = [request EXCEPT ![b] =
                                [NoRequest EXCEPT !.stage = "provision", !.account = u, !.id = i]]
              /\ UNCHANGED pending
  BY DEF Accepted
<1>5. CASE seen.link # None
  <2>1. Usable(account'[u])
    BY <1>1, <1>2, <1>4, <1>5 DEF RequestSound
  <2>2. BrowsersSound'
    BY <1>1, <1>2, <1>3, <1>4, <1>5, <2>1, AdmitSound
  <2>3. QED
    BY <1>2, <1>3, <2>2, SyncsSame DEF NInv, IdentitiesSound
<1>6. CASE seen.link = None
  <2> DEFINE r == [NoRequest EXCEPT !.stage = "provision", !.account = u, !.id = i]
  <2>1. r \in Request /\ RequestSound(r, account')
    BY <1>1 DEF NoRequest, Request, Reading, Read, Absent, RequestSound
  <2>2. request' = [request EXCEPT ![b] = r] /\ UNCHANGED pending
    BY <1>4, <1>6
  <2> HIDE DEF r
  <2>3. BrowsersSound'
    BY <1>2, <1>3, <2>1, <2>2, RequestWritten
  <2>4. QED
    BY <1>2, <1>3, <2>3, SyncsSame DEF NInv, IdentitiesSound
<1>7. QED
  BY <1>5, <1>6

\* Steps that only drop a cookie or a request.
LEMMA DroppedInvariant ==
    ASSUME NInv, NEW b \in Browser,
           Refused(b) \/ KeepOther(b) \/ SignedOut(b) \/ Expire(b)
    PROVE  NInv' /\ Grows
<1>1. UNCHANGED <<account, provider, issued, creating, sync>>
  BY DEF Refused, KeepOther, SignedOut, Expire
<1>2. RowsSound' /\ Grows
  BY <1>1, RowsSame DEF NInv
<1>3. /\ session' = session \/ session' = [session EXCEPT ![b] = None]
      /\ pending' = pending \/ pending' = [pending EXCEPT ![b] = None]
      /\ grant' = grant \/ grant' = [grant EXCEPT ![b] = None]
      /\ request' = request \/ request' = [request EXCEPT ![b] = NoRequest]
  BY DEF Refused, KeepOther, SignedOut, Expire
<1>4. /\ session' \in [Browser -> Account \cup {None}]
      /\ pending' \in [Browser -> Account \cup {None}]
      /\ grant' \in [Browser -> Account \cup {None}]
      /\ \A c \in Browser : session'[c] \in {session[c], None}
  BY <1>3 DEF NInv, BrowsersSound
<1>5. BrowsersSound'
  BY <1>2, <1>3, <1>4, CookiesWritten
<1>6. QED
  BY <1>1, <1>2, <1>5, SyncsSame DEF NInv, IdentitiesSound

\* The row _provision_client writes.
LEMMA ProvisionRow ==
    ASSUME NInv, NEW u \in Account, NEW i \in Identity, Linkable(u, i),
           account' = [account EXCEPT ![u] = Linked(@, i)]
    PROVE  RowsSound' /\ Grows /\ account'[u].active
<1> DEFINE row == Linked(account[u], i)
<1>1. account[u] \in UserRow /\ Coherent(account[u])
  BY DEF NInv, RowsSound
<1>2. /\ row \in UserRow /\ row.role = "client" /\ row.link = i /\ row.active /\ row.verified
      /\ Coherent(row)
  BY <1>1 DEF Linked, UserRow, Coherent
<1>3. account' = [account EXCEPT ![u] = row]
  OBVIOUS
<1> HIDE DEF row
<1>4. RowsSound' /\ Grows
  BY <1>2, <1>3, RowWritten DEF NInv, Linkable, Usable
<1>5. QED
  BY <1>2, <1>3, <1>4 DEF NInv, RowsSound

LEMMA ProvisionInvariant ==
    ASSUME NInv, NEW b \in Browser, Provision(b)
    PROVE  NInv' /\ Grows
<1> DEFINE u == request[b].account
           i == request[b].id
<1>1. u \in Account /\ i \in Identity
  BY DEF Provision, NInv, BrowsersSound, RequestSound
<1>2. UNCHANGED <<provider, issued, session, grant, creating, sync>>
  BY DEF Provision
<1>3. CASE Linkable(u, i)
  <2>1. account' = [account EXCEPT ![u] = Linked(@, i)] /\ Admit(b, u, account[u].key)
    BY <1>3 DEF Provision
  <2>2. RowsSound' /\ Grows /\ account'[u].active
    BY <1>1, <1>3, <2>1, ProvisionRow
  <2>3. BrowsersSound'
    BY <1>1, <1>2, <2>1, <2>2, AdmitSound DEF Usable
  <2>4. QED
    BY <1>2, <2>2, <2>3, SyncsSame DEF NInv, IdentitiesSound
<1>4. CASE ~Linkable(u, i)
  <2>1. request' = [request EXCEPT ![b] = NoRequest] /\ UNCHANGED <<account, pending>>
    BY <1>4 DEF Provision
  <2>2. RowsSound' /\ Grows
    BY <2>1, RowsSame DEF NInv
  <2>3. BrowsersSound'
    BY <1>2, <2>1, <2>2, CookiesWritten DEF NInv, BrowsersSound
  <2>4. QED
    BY <1>2, <2>2, <2>3, SyncsSame DEF NInv, IdentitiesSound
<1>5. QED
  BY <1>3, <1>4

\* Another session key, for an account that was active once or is active.
LEMMA KeyWritten ==
    ASSUME NInv, NEW u \in Account, NEW key \in Browser \cup {None}, Usable(account[u]),
           account' = [account EXCEPT ![u].key = key]
    PROVE  RowsSound' /\ Grows
<1> DEFINE row == [account[u] EXCEPT !.key = key]
<1>1. account[u] \in UserRow /\ Coherent(account[u]) /\ account[u].role # "none"
  BY DEF NInv, RowsSound, Coherent, Usable, Absent
<1>2. /\ row \in UserRow /\ row.role = account[u].role /\ row.link = account[u].link
      /\ row.active = account[u].active /\ row.deleted = account[u].deleted
      /\ row.verified = account[u].verified
  BY <1>1 DEF UserRow
<1>3. account' = [account EXCEPT ![u] = row]
  OBVIOUS
<1> HIDE DEF row
<1>4. Coherent(row)
  BY <1>1, <1>2 DEF Coherent
<1>5. RowsSound /\ (Usable(account[u]) => Usable(row))
      /\ (row.role = "client" /\ row.active => row.verified)
      /\ (row.link # None => \A v \in Account \ {u} : account[v].link # row.link)
  BY <1>2 DEF NInv, RowsSound, LinksUnique, Usable
<1>6. QED
  BY <1>2, <1>3, <1>4, <1>5, RowWritten

LEMMA EstablishInvariant ==
    ASSUME NInv, NEW b \in Browser, Establish(b)
    PROVE  NInv' /\ Grows
<1> DEFINE u == request[b].account
<1>1. u \in Account /\ Usable(account[u])
  BY DEF Establish, NInv, BrowsersSound, RequestSound
<1>2. /\ session' = [session EXCEPT ![b] = u]
      /\ account' = [account EXCEPT ![u].key = b]
      /\ pending' = [pending EXCEPT ![b] = None]
      /\ request' = [request EXCEPT ![b] = NoRequest]
      /\ UNCHANGED <<provider, issued, grant, creating, sync>>
  BY DEF Establish
<1>3. RowsSound' /\ Grows
  BY <1>1, <1>2, KeyWritten
<1> HIDE DEF u
<1>4. /\ session' \in [Browser -> Account \cup {None}]
      /\ pending' \in [Browser -> Account \cup {None}]
      /\ grant' \in [Browser -> Account \cup {None}]
      /\ \A c \in Browser : session'[c] = session[c] \/ Usable(account'[session'[c]])
  BY <1>1, <1>2, <1>3 DEF NInv, BrowsersSound, Grows
<1>5. BrowsersSound'
  BY <1>2, <1>3, <1>4, CookiesWritten
<1>6. QED
  BY <1>2, <1>3, <1>5, SyncsSame DEF NInv, IdentitiesSound

LEMMA TakeOverInvariant ==
    ASSUME NInv, NEW b \in Browser, TakeOver(b)
    PROVE  NInv' /\ Grows
<1> DEFINE u == pending[b]
           r == [NoRequest EXCEPT !.stage = "establish", !.account = u]
<1>1. u \in Account /\ account[u].active
  BY DEF TakeOver, NInv, BrowsersSound
<1>2. UNCHANGED <<account, provider, issued, session, pending, grant, creating, sync>>
      /\ request' = [request EXCEPT ![b] = r]
  BY DEF TakeOver
<1>3. RowsSound' /\ Grows
  BY <1>2, RowsSame DEF NInv
<1>4. r \in Request /\ RequestSound(r, account')
  BY <1>1, <1>2 DEF NoRequest, Request, Reading, Read, Absent, RequestSound, Usable
<1> HIDE DEF r
<1>5. BrowsersSound'
  BY <1>2, <1>3, <1>4, RequestWritten
<1>6. QED
  BY <1>2, <1>3, <1>5, SyncsSame DEF NInv, IdentitiesSound

LEMMA LogoutInvariant ==
    ASSUME NInv, NEW b \in Browser, Logout(b)
    PROVE  NInv' /\ Grows
<1>1. /\ session' = [session EXCEPT ![b] = None]
      /\ UNCHANGED <<provider, issued, pending, grant, request, creating, sync>>
      /\ session[b] \in Account /\ Usable(account[session[b]])
  BY DEF Logout, NInv, BrowsersSound
<1>2. UNCHANGED account \/ account' = [account EXCEPT ![session[b]].key = None]
  BY DEF Logout
<1>3. RowsSound' /\ Grows
  BY <1>1, <1>2, RowsSame, KeyWritten DEF NInv
<1>4. /\ session' \in [Browser -> Account \cup {None}]
      /\ \A c \in Browser : session'[c] \in {session[c], None}
  BY <1>1 DEF NInv, BrowsersSound
<1>5. BrowsersSound'
  BY <1>1, <1>3, <1>4, CookiesWritten DEF NInv, BrowsersSound
<1>6. QED
  BY <1>1, <1>3, <1>5, SyncsSame DEF NInv, IdentitiesSound

LEMMA GrantResetInvariant ==
    ASSUME NInv, NEW b \in Browser, NEW u \in Account, GrantReset(b, u)
    PROVE  NInv' /\ Grows
<1>1. /\ grant' = [grant EXCEPT ![b] = u]
      /\ UNCHANGED <<account, provider, issued, session, pending, request, creating, sync>>
  BY DEF GrantReset
<1>2. RowsSound' /\ Grows
  BY <1>1, RowsSame DEF NInv
<1>3. grant' \in [Browser -> Account \cup {None}]
  BY <1>1 DEF NInv, BrowsersSound
<1>4. BrowsersSound'
  BY <1>1, <1>2, <1>3, CookiesWritten DEF NInv, BrowsersSound
<1>5. QED
  BY <1>1, <1>2, <1>4, SyncsSame DEF NInv, IdentitiesSound

LEMMA SetPasswordInvariant ==
    ASSUME NInv, NEW b \in Browser, SetPassword(b)
    PROVE  NInv' /\ Grows
<1> DEFINE u == grant[b]
<1>1. u \in Account /\ account[u].active
  BY DEF SetPassword, Resettable, NInv, BrowsersSound
<1>2. /\ account' = [account EXCEPT ![u].key = None]
      /\ session' = SessionsAfter(u)
      /\ grant' = [grant EXCEPT ![b] = None]
      /\ UNCHANGED <<provider, issued, pending, request, creating, sync>>
  BY DEF SetPassword
<1>3. RowsSound' /\ Grows
  BY <1>1, <1>2, KeyWritten DEF Usable
<1>4. /\ session' \in [Browser -> Account \cup {None}]
      /\ grant' \in [Browser -> Account \cup {None}]
      /\ \A c \in Browser : session'[c] \in {session[c], None}
  BY <1>2 DEF SessionsAfter, NInv, BrowsersSound
<1>5. BrowsersSound'
  BY <1>2, <1>3, <1>4, CookiesWritten DEF NInv, BrowsersSound
<1>6. QED
  BY <1>2, <1>3, <1>5, SyncsSame DEF NInv, IdentitiesSound

LEMMA VisitorInvariant == ASSUME NInv, Visitor PROVE NInv' /\ Grows
  BY RegisterInvariant, CheckCodeInvariant, LocalSignInInvariant, AskProviderInvariant,
     GrantResetInvariant, ActivateByCodeInvariant, AcceptedInvariant, DroppedInvariant,
     ProvisionInvariant, EstablishInvariant, TakeOverInvariant, LogoutInvariant,
     SetPasswordInvariant DEF Visitor

-----------------------------------------------------------------------------
(* Operators *)

LEMMA CreateStaffInvariant ==
    ASSUME NInv, NEW u \in Account, NEW role \in {"admin", "editor"}, CreateStaff(u, role)
    PROVE  NInv' /\ Grows
<1> DEFINE row == Staff(role)
<1>1. row \in UserRow /\ Coherent(row) /\ row.link = None /\ row.role = role
  BY DEF Staff, Absent, UserRow, Coherent
<1>2. account' = [account EXCEPT ![u] = row]
      /\ UNCHANGED <<provider, issued, browsers, creating, sync>>
  BY DEF CreateStaff
<1>3. account[u] = Absent /\ ~Usable(account[u]) /\ account[u].role = "none" /\ account[u].link = None
  BY DEF CreateStaff, NInv, RowsSound, Coherent, Absent, Usable
<1> HIDE DEF row
<1>4. RowsSound' /\ Grows
  BY <1>1, <1>2, <1>3, RowWritten DEF NInv
<1>5. QED
  BY <1>2, <1>4, BrowsersSame, SyncsSame DEF NInv, IdentitiesSound

LEMMA CreateAdminIdentityInvariant ==
    ASSUME NInv, NEW u \in Account, NEW i \in Identity, CreateAdminIdentity(u, i)
    PROVE  NInv' /\ Grows
<1>1. UNCHANGED <<account, browsers, sync>> /\ IdentitiesSound'
  BY DEF CreateAdminIdentity, NInv, IdentitiesSound
<1>2. RowsSound' /\ Grows
  BY <1>1, RowsSame DEF NInv
<1>3. QED
  BY <1>1, <1>2, BrowsersSame, SyncsSame DEF NInv

\* The row create_supabase_admin writes.
LEMMA AdminRow ==
    ASSUME NInv, NEW u \in Account, NEW i \in Identity, account[u].role = "none",
           \A v \in Account : account[v].link # i,
           account' = [account EXCEPT ![u] =
               [Absent EXCEPT !.role = "admin", !.active = TRUE, !.verified = TRUE, !.link = i]]
    PROVE  RowsSound' /\ Grows
<1> DEFINE row == [Absent EXCEPT !.role = "admin", !.active = TRUE, !.verified = TRUE, !.link = i]
<1>1. row \in UserRow /\ Coherent(row) /\ row.link = i /\ row.role = "admin"
  BY DEF Absent, UserRow, Coherent
<1>2. account' = [account EXCEPT ![u] = row]
  OBVIOUS
<1>3. account[u] = Absent /\ ~Usable(account[u]) /\ account[u].link = None
  BY DEF NInv, RowsSound, Coherent, Absent, Usable
<1> HIDE DEF row
<1>4. QED
  BY <1>1, <1>2, <1>3, RowWritten DEF NInv

LEMMA CreateLinkedAdminInvariant ==
    ASSUME NInv, NEW u \in Account, NEW i \in Identity, CreateLinkedAdmin(u, i)
    PROVE  NInv' /\ Grows
<1>1. UNCHANGED <<issued, browsers, sync>> /\ IdentitiesSound'
  BY DEF CreateLinkedAdmin, NInv, IdentitiesSound
<1>2. RowsSound' /\ Grows
  <2>1. CASE UNCHANGED account
    BY <2>1, RowsSame DEF NInv
  <2>2. CASE ~UNCHANGED account
    BY <2>2, AdminRow DEF CreateLinkedAdmin
  <2>3. QED
    BY <2>1, <2>2
<1>3. QED
  BY <1>1, <1>2, BrowsersSame, SyncsSame DEF NInv

LEMMA ReconcileClientInvariant ==
    ASSUME NInv, NEW u \in Account, NEW i \in Identity, ReconcileClient(u, i)
    PROVE  NInv' /\ Grows
<1> DEFINE row == [account[u] EXCEPT !.link = i, !.verified = TRUE]
<1>1. account[u] \in UserRow /\ Coherent(account[u]) /\ account[u].role = "client"
      /\ account[u].link = None /\ Linkable(u, i)
  BY DEF ReconcileClient, NInv, RowsSound
<1>2. /\ row \in UserRow /\ row.role = "client" /\ row.link = i /\ row.verified
      /\ row.active = account[u].active /\ row.deleted = account[u].deleted
  BY <1>1 DEF UserRow
<1>3. account' = [account EXCEPT ![u] = row]
      /\ UNCHANGED <<provider, issued, browsers, creating, sync>>
  BY <1>1 DEF ReconcileClient, NInv, RowsSound
<1> HIDE DEF row
<1>4. Coherent(row) /\ (Usable(account[u]) => Usable(row))
  BY <1>1, <1>2 DEF Coherent, Usable
<1>5. \A v \in Account \ {u} : account[v].link # i
  BY <1>1 DEF Linkable
<1>6. RowsSound' /\ Grows
  BY <1>1, <1>2, <1>3, <1>4, <1>5, RowWritten DEF NInv
<1>7. QED
  BY <1>3, <1>6, BrowsersSame, SyncsSame DEF NInv, IdentitiesSound

LEMMA OperatorInvariant == ASSUME NInv, Operator PROVE NInv' /\ Grows
  BY CreateStaffInvariant, CreateAdminIdentityInvariant, CreateLinkedAdminInvariant,
     ReconcileClientInvariant DEF Operator

-----------------------------------------------------------------------------
(* Synchronisations *)

\* Steps that write one synchronisation and no table.
LEMMA SyncStepInvariant ==
    ASSUME NInv, NEW s \in Syncer, NEW row \in Sync, sync' = [sync EXCEPT ![s] = row],
           UNCHANGED <<account, provider, issued, browsers, creating>>,
           \A u \in row.todo : account[u].link # None,
           row.target # None => account[row.target].link # None
    PROVE  NInv' /\ Grows
<1>1. RowsSound' /\ Grows
  BY RowsSame DEF NInv
<1>2. SyncsSound'
  BY <1>1, SyncWritten
<1>3. QED
  BY <1>1, <1>2, BrowsersSame DEF NInv, IdentitiesSound

LEMMA FetchInventoryInvariant ==
    ASSUME NInv, NEW s \in Syncer, NEW by \in Browser \cup {None}, FetchInventory(s, by)
    PROVE  NInv' /\ Grows
<1> DEFINE row == [Idle EXCEPT !.stage = "fetched", !.by = by, !.known = Known]
<1>1. row \in Sync /\ row.todo = {} /\ row.target = None
  BY DEF Idle, Sync, Known
<1>2. sync' = [sync EXCEPT ![s] = row] /\ UNCHANGED <<account, provider, issued, browsers, creating>>
  BY DEF FetchInventory
<1> HIDE DEF row
<1>3. QED
  BY <1>1, <1>2, SyncStepInvariant

LEMMA ListLinkedInvariant ==
    ASSUME NInv, NEW s \in Syncer, ListLinked(s)
    PROVE  NInv' /\ Grows
<1> DEFINE linked == {u \in Account : /\ account[u].link # None
                                      /\ ~account[u].deleted
                                      /\ account[u].link \notin sync[s].known}
           row == [sync[s] EXCEPT !.stage = "archiving", !.todo = linked]
<1>1. sync[s] \in Sync /\ linked \subseteq Account
      /\ (sync[s].target # None => account[sync[s].target].link # None)
  BY DEF NInv, SyncsSound
<1>2. \A u \in linked : account[u].link # None
  OBVIOUS
<1>3. sync' = [sync EXCEPT ![s] = row] /\ UNCHANGED <<account, provider, issued, browsers, creating>>
  BY <1>1 DEF ListLinked, NInv, SyncsSound
<1> HIDE DEF linked
<1>4. row \in Sync /\ row.todo = linked /\ row.target = sync[s].target
  BY <1>1 DEF Sync
<1> HIDE DEF row
<1>5. QED
  BY <1>1, <1>2, <1>3, <1>4, SyncStepInvariant

LEMMA BeginArchiveInvariant ==
    ASSUME NInv, NEW s \in Syncer, NEW u \in Account, BeginArchive(s, u)
    PROVE  NInv' /\ Grows
<1> DEFINE rest == [sync[s] EXCEPT !.todo = @ \ {u}]
           kept == [sync[s] EXCEPT !.todo = @ \ {u}, !.blocked = TRUE]
           taken == [sync[s] EXCEPT !.target = u]
<1>1. /\ sync[s] \in Sync /\ u \in sync[s].todo /\ sync[s].target = None
      /\ \A v \in sync[s].todo : account[v].link # None
  BY DEF BeginArchive, NInv, SyncsSound
<1>2. /\ rest \in Sync /\ rest.todo \subseteq sync[s].todo /\ rest.target = None
      /\ kept \in Sync /\ kept.todo \subseteq sync[s].todo /\ kept.target = None
      /\ taken \in Sync /\ taken.todo = sync[s].todo /\ taken.target = u
  BY <1>1 DEF Sync
<1>3. \E row \in {rest, kept, taken} : sync' = [sync EXCEPT ![s] = row]
  BY DEF BeginArchive
<1>4. UNCHANGED <<account, provider, issued, browsers, creating>>
  BY DEF BeginArchive
<1> HIDE DEF rest, kept, taken
<1>5. QED
  BY <1>1, <1>2, <1>3, <1>4, SyncStepInvariant

\* The row archive_deleted_identity writes.
LEMMA ArchivedRow ==
    ASSUME NInv, NEW u \in Account, account[u].link # None,
           account' = [account EXCEPT ![u] = Archived(@)]
    PROVE  RowsSound' /\ Grows
<1> DEFINE row == Archived(account[u])
<1>1. account[u] \in UserRow /\ Coherent(account[u]) /\ account[u].role # "none"
  BY DEF NInv, RowsSound, Coherent, Absent
<1>2. /\ row \in UserRow /\ row.role = account[u].role /\ row.link = account[u].link
      /\ ~row.active /\ row.deleted /\ row.verified = account[u].verified
  BY <1>1 DEF Archived, UserRow
<1>3. account' = [account EXCEPT ![u] = row]
  OBVIOUS
<1> HIDE DEF row
<1>4. RowsSound /\ Coherent(row) /\ Usable(row)
      /\ \A v \in Account \ {u} : account[v].link # row.link
  BY <1>1, <1>2 DEF NInv, RowsSound, LinksUnique, Coherent, Usable
<1>5. QED
  BY <1>2, <1>3, <1>4, RowWritten

LEMMA CommitArchiveInvariant ==
    ASSUME NInv, NEW s \in Syncer, CommitArchive(s)
    PROVE  NInv' /\ Grows
<1> DEFINE u == sync[s].target
           row == [sync[s] EXCEPT !.target = None, !.todo = @ \ {u}]
<1>1. /\ sync[s] \in Sync /\ u \in Account /\ account[u].link # None
      /\ \A v \in sync[s].todo : account[v].link # None
  BY DEF CommitArchive, NInv, SyncsSound, Sync
<1>2. /\ account' = [account EXCEPT ![u] = Archived(@)]
      /\ sync' = [sync EXCEPT ![s] = row]
      /\ UNCHANGED <<provider, issued, browsers, creating>>
  BY <1>1 DEF CommitArchive, NInv, SyncsSound
<1>3. row \in Sync /\ row.todo \subseteq sync[s].todo /\ row.target = None
  BY <1>1 DEF Sync
<1>4. RowsSound' /\ Grows
  BY <1>1, <1>2, ArchivedRow
<1> HIDE DEF u, row
<1>5. SyncsSound'
  BY <1>1, <1>2, <1>3, <1>4, SyncWritten
<1>6. QED
  BY <1>2, <1>4, <1>5, BrowsersSame DEF NInv, IdentitiesSound

LEMMA FinishSyncInvariant ==
    ASSUME NInv, NEW s \in Syncer, FinishSync(s)
    PROVE  NInv' /\ Grows
<1> DEFINE b == sync[s].by
<1>1. /\ sync[s] \in Sync /\ b \in Browser \cup {None}
      /\ sync' = [sync EXCEPT ![s] = Idle]
      /\ UNCHANGED <<account, provider, issued, pending, grant, request, creating>>
      /\ session' = session \/ (b \in Browser /\ session' = [session EXCEPT ![b] = None])
  BY DEF FinishSync, NInv, SyncsSound, Sync
<1>2. RowsSound' /\ Grows
  BY <1>1, RowsSame DEF NInv
<1>3. Idle \in Sync /\ Idle.todo = {} /\ Idle.target = None
  BY DEF Idle, Sync
<1>4. SyncsSound'
  BY <1>1, <1>2, <1>3, SyncWritten
<1>5. BrowsersSound'
  <2>1. CASE session' = session
    BY <1>1, <1>2, <2>1, BrowsersSame DEF browsers
  <2>2. CASE b \in Browser /\ session' = [session EXCEPT ![b] = None]
    BY <1>1, <1>2, <2>2, CookiesWritten DEF NInv, BrowsersSound
  <2>3. QED
    BY <1>1, <2>1, <2>2
<1>6. QED
  BY <1>1, <1>2, <1>4, <1>5 DEF NInv, IdentitiesSound

LEMMA SynchroniseInvariant == ASSUME NInv, Synchronise PROVE NInv' /\ Grows
  BY FetchInventoryInvariant, ListLinkedInvariant, BeginArchiveInvariant, CommitArchiveInvariant,
     FinishSyncInvariant DEF Synchronise

-----------------------------------------------------------------------------
(* The invariant *)

LEMMA InitInvariant == Init => NInv
<1> SUFFICES ASSUME Init PROVE NInv
  OBVIOUS
<1>1. Absent \in UserRow /\ Coherent(Absent) /\ ~Absent.active /\ Absent.link = None
  BY DEF Absent, UserRow, Coherent
<1>2. RowsSound
  BY <1>1 DEF Init, RowsSound, LinksUnique
<1>3. NoRequest \in Request /\ RequestSound(NoRequest, account)
  BY DEF NoRequest, Request, Reading, Read, Absent, RequestSound
<1>4. BrowsersSound
  BY <1>3 DEF Init, BrowsersSound
<1>5. Idle \in Sync /\ Idle.todo = {} /\ Idle.target = None
  BY DEF Idle, Sync
<1>6. SyncsSound
  BY <1>5 DEF Init, SyncsSound
<1>7. IdentitiesSound
  BY DEF Init, IdentitiesSound
<1>8. QED
  BY <1>2, <1>4, <1>6, <1>7 DEF NInv

LEMMA NextInvariant == NInv /\ [Next]_vars => NInv' /\ Grows
<1>1. ASSUME NInv, UNCHANGED vars PROVE NInv' /\ Grows
  BY <1>1, RowsSame, BrowsersSame, SyncsSame DEF vars, browsers, NInv, IdentitiesSound
<1>2. QED
  BY <1>1, ProviderInvariant, VisitorInvariant, OperatorInvariant, SynchroniseInvariant DEF Next

\* The inductive invariant holds in every behaviour.
THEOREM AccountsInvariant == Spec => []NInv
<1>1. NInv /\ [Next]_vars => NInv'
  BY NextInvariant
<1>2. QED
  BY <1>1, InitInvariant, PTL DEF Spec

\* Rows, cookies and requests keep their types and rows stay coherent.
THEOREM AccountsTypeOK == Spec => []TypeOK
<1>1. NInv => TypeOK
  BY DEF NInv, RowsSound, BrowsersSound, SyncsSound, IdentitiesSound, TypeOK
<1>2. QED
  BY <1>1, AccountsInvariant, PTL

\* reconcile_accounts: no client is active without a confirmed address, and a
\* session of an inactive account is a session of an archived one.
THEOREM AccountsOnlyArchivedAreReported == Spec => []OnlyArchivedAreReported
<1>1. NInv => OnlyArchivedAreReported
  BY DEF NInv, RowsSound, BrowsersSound, OnlyArchivedAreReported, Report, ActiveUnverified,
     SessionsForInactive, Usable
<1>2. QED
  BY <1>1, AccountsInvariant, PTL

-----------------------------------------------------------------------------
(* What a step may do to an account *)

\* _provision_client, supabase_reconciliation and create_supabase_admin: an
\* account keeps its identity, and an identity opens one account.
THEOREM AccountsIdentityIsImmutable == Spec => IdentityIsImmutable
<1> DEFINE Same == \A u \in Account :
          /\ account[u].link # None => account'[u].link = account[u].link
          /\ account'[u].link # None =>
                \A v \in Account \ {u} : account'[v].link # account'[u].link
<1>1. NInv /\ [Next]_vars => [Same]_vars
  <2> SUFFICES ASSUME NInv, [Next]_vars PROVE Same
    OBVIOUS
  <2>1. NInv' /\ Grows
    BY NextInvariant
  <2>2. LinksUnique'
    BY <2>1 DEF NInv, RowsSound
  <2>3. QED
    BY <2>1, <2>2 DEF Grows, LinksUnique
<1>2. QED
  BY <1>1, AccountsInvariant, PTL DEF Spec, IdentityIsImmutable

\* A first sign-in in flight for the identity the account has.
FirstSignIn(u) == \E b \in Browser :
    request[b].stage = "provision" /\ request[b].account = u /\ request[b].id = account[u].link

\* What a step does to an account that exists: nothing anybody could tell, an
\* activation by code, a first sign-in, or the archive.
Moves(u) ==
    \/ account'[u].active = account[u].active /\ account'[u].deleted = account[u].deleted
    \/ account[u].role = "client" /\ ~account[u].deleted
    \/ account[u].role = "client" /\ (account[u].link # None => FirstSignIn(u))
    \/ \E s \in Syncer : CommitArchive(s) /\ sync[s].target = u /\ ~account'[u].active

\* A session key is nothing anybody could tell.
LEMMA KeyMoves ==
    ASSUME NInv, NEW u \in Account, NEW key, account' = [account EXCEPT ![u].key = key],
           NEW v \in Account
    PROVE  Moves(v)
<1>1. account[u] \in UserRow /\ account \in [Account -> UserRow]
  BY DEF NInv, RowsSound
<1>2. account'[v].active = account[v].active /\ account'[v].deleted = account[v].deleted
  BY <1>1 DEF UserRow
<1>3. QED
  BY <1>2 DEF Moves

\* Writing one row moves no other.
LEMMA OthersMove ==
    ASSUME NInv, NEW u \in Account, NEW row, account' = [account EXCEPT ![u] = row],
           NEW v \in Account, v # u
    PROVE  Moves(v)
  BY DEF NInv, RowsSound, Moves

LEMMA VisitorMoves ==
    ASSUME NInv, Visitor, NEW v \in Account, account[v].role # "none"
    PROVE  Moves(v)
<1> USE DEF NInv
<1>1. ASSUME UNCHANGED account PROVE Moves(v)
  BY <1>1 DEF Moves
<1>2. ASSUME NEW b \in Browser, NEW u \in Account, Register(b, u) PROVE Moves(v)
  BY <1>2, OthersMove DEF Register
<1>3. ASSUME NEW b \in Browser, ActivateByCode(b) PROVE Moves(v)
  <2> DEFINE u == request[b].account
             row == [account[u] EXCEPT !.active = TRUE, !.verified = TRUE]
  <2>1. u \in Account
    BY <1>3 DEF ActivateByCode, BrowsersSound, RequestSound
  <2>2. CASE Unverified(account[u])
    <3>1. account' = [account EXCEPT ![u] = row]
      BY <1>3, <2>1, <2>2 DEF ActivateByCode, RowsSound
    <3>2. account[u].role = "client" /\ ~account[u].deleted
      BY <2>1, <2>2 DEF Unverified, RowsSound, Coherent
    <3> HIDE DEF u, row
    <3>3. QED
      BY <2>1, <3>1, <3>2, OthersMove DEF Moves
  <2>3. CASE ~Unverified(account[u])
    BY <1>1, <1>3, <2>3 DEF ActivateByCode
  <2>4. QED
    BY <2>2, <2>3
<1>4. ASSUME NEW b \in Browser, Provision(b) PROVE Moves(v)
  <2> DEFINE u == request[b].account
             i == request[b].id
             row == Linked(account[u], i)
  <2>1. u \in Account /\ i \in Identity /\ request[b].stage = "provision"
    BY <1>4 DEF Provision, BrowsersSound, RequestSound
  <2>2. CASE Linkable(u, i)
    <3>1. account' = [account EXCEPT ![u] = row]
      BY <1>4, <2>2 DEF Provision
    <3>2. account[u].link # None => FirstSignIn(u)
      BY <2>1, <2>2 DEF Linkable, FirstSignIn
    <3>3. account[u].role \in {"none", "client"}
      BY <2>2 DEF Linkable
    <3> HIDE DEF u, i, row
    <3>4. QED
      BY <2>1, <3>1, <3>2, <3>3, OthersMove DEF Moves
  <2>3. CASE ~Linkable(u, i)
    BY <1>1, <1>4, <2>3 DEF Provision
  <2>4. QED
    BY <2>2, <2>3
<1>5. ASSUME NEW b \in Browser, Establish(b) PROVE Moves(v)
  <2>1. request[b].account \in Account
    BY <1>5 DEF Establish, BrowsersSound, RequestSound
  <2>2. QED
    BY <1>5, <2>1, KeyMoves DEF Establish
<1>6. ASSUME NEW b \in Browser, Logout(b) PROVE Moves(v)
  <2>1. session[b] \in Account
    BY <1>6 DEF Logout, BrowsersSound
  <2>2. QED
    BY <1>1, <1>6, <2>1, KeyMoves DEF Logout
<1>7. ASSUME NEW b \in Browser, SetPassword(b) PROVE Moves(v)
  <2>1. grant[b] \in Account
    BY <1>7 DEF SetPassword, BrowsersSound
  <2>2. QED
    BY <1>7, <2>1, KeyMoves DEF SetPassword
<1>8. QED
  BY <1>1, <1>2, <1>3, <1>4, <1>5, <1>6, <1>7 DEF Visitor, CheckCode, LocalSignIn, AskProvider,
     GrantReset, Accepted, Refused, TakeOver, KeepOther, SignedOut, Expire

LEMMA OperatorMoves ==
    ASSUME NInv, Operator, NEW v \in Account, account[v].role # "none"
    PROVE  Moves(v)
<1> USE DEF NInv
<1>1. ASSUME UNCHANGED account PROVE Moves(v)
  BY <1>1 DEF Moves
<1>2. ASSUME NEW u \in Account, NEW role, CreateStaff(u, role) PROVE Moves(v)
  BY <1>2, OthersMove DEF CreateStaff
<1>3. ASSUME NEW u \in Account, NEW i, CreateLinkedAdmin(u, i) PROVE Moves(v)
  BY <1>1, <1>3, OthersMove DEF CreateLinkedAdmin
<1>4. ASSUME NEW u \in Account, NEW i \in Identity, ReconcileClient(u, i) PROVE Moves(v)
  <2>1. account[u] \in UserRow /\ account \in [Account -> UserRow]
    BY DEF RowsSound
  <2>2. account'[v].active = account[v].active /\ account'[v].deleted = account[v].deleted
    BY <1>4, <2>1 DEF ReconcileClient, UserRow
  <2>3. QED
    BY <2>2 DEF Moves
<1>5. QED
  BY <1>1, <1>2, <1>3, <1>4 DEF Operator, CreateAdminIdentity

LEMMA NextMoves ==
    ASSUME NInv, [Next]_vars, NEW v \in Account, account[v].role # "none"
    PROVE  Moves(v)
<1>1. ASSUME UNCHANGED account PROVE Moves(v)
  BY <1>1 DEF Moves
<1>2. ASSUME NEW s \in Syncer, CommitArchive(s) PROVE Moves(v)
  <2> DEFINE u == sync[s].target
             row == Archived(account[u])
  <2>1. u \in Account /\ account[u] \in UserRow
    BY <1>2 DEF CommitArchive, NInv, SyncsSound, Sync, RowsSound
  <2>2. account' = [account EXCEPT ![u] = row]
    BY <1>2 DEF CommitArchive
  <2>3. ~row.active
    BY <2>1 DEF Archived, UserRow
  <2> HIDE DEF row
  <2>4. CASE v = u
    BY <1>2, <2>1, <2>2, <2>3, <2>4 DEF Moves, NInv, RowsSound
  <2>5. CASE v # u
    BY <2>1, <2>2, <2>5, OthersMove
  <2>6. QED
    BY <2>4, <2>5
<1>3. CASE Synchronise
  BY <1>1, <1>2, <1>3 DEF Synchronise, FetchInventory, ListLinked, BeginArchive, FinishSync
<1>4. CASE Provider
  BY <1>1, <1>4 DEF Provider, CreateIdentity, ChangeEmail, DeleteIdentity
<1>5. QED
  BY <1>1, <1>3, <1>4, VisitorMoves, OperatorMoves DEF Next, vars

\* _provision_client: nothing else activates an archived account.
THEOREM AccountsOnlyFirstSignInRevives == Spec => OnlyFirstSignInRevives
<1> DEFINE Act == \A u \in Account :
          account[u].deleted /\ account'[u].active /\ ~account[u].active =>
             \E b \in Browser : /\ request[b].stage = "provision"
                                /\ request[b].account = u
                                /\ request[b].id = account[u].link
<1>1. NInv /\ [Next]_vars => [Act]_vars
  <2> SUFFICES ASSUME NInv, [Next]_vars, NEW u \in Account,
                      account[u].deleted, account'[u].active, ~account[u].active
               PROVE  FirstSignIn(u)
    BY DEF FirstSignIn
  <2>1. account[u].role # "none" /\ account[u].link # None
    BY DEF NInv, RowsSound, Coherent, Absent
  <2>2. Moves(u)
    BY <2>1, NextMoves
  <2>3. account \in [Account -> UserRow] /\ account' \in [Account -> UserRow]
    BY NextInvariant DEF NInv, RowsSound
  <2>4. account[u].active \in BOOLEAN /\ account'[u].active \in BOOLEAN
    BY <2>3 DEF UserRow
  <2>5. QED
    BY <2>1, <2>2, <2>4 DEF Moves
<1>2. QED
  BY <1>1, AccountsInvariant, PTL DEF Spec, OnlyFirstSignInRevives

-----------------------------------------------------------------------------
(* The last administrator *)

\* One synchronisation at a time.
OneSyncer == \A s, t \in Syncer : s = t

\* An administrator about to be archived is not the only one.
FellowAdmin ==
    OneSyncer => \A s \in Syncer :
        sync[s].target # None /\ account[sync[s].target].role = "admin" =>
            \E v \in ActiveAdmins : v # sync[s].target

\* Administrators stay active unless they are archived.
LEMMA AdminsStay ==
    ASSUME NInv, [Next]_vars, NEW v \in ActiveAdmins,
           ~\E s \in Syncer : CommitArchive(s) /\ sync[s].target = v
    PROVE  v \in ActiveAdmins'
<1>1. v \in Account /\ account[v].role = "admin" /\ account[v].active /\ ~account[v].deleted
  BY DEF ActiveAdmins
<1>2. account'[v].role = "admin"
  BY <1>1, NextInvariant DEF Grows
<1>3. account'[v].active = account[v].active /\ account'[v].deleted = account[v].deleted
  BY <1>1, NextMoves DEF Moves
<1>4. QED
  BY <1>1, <1>2, <1>3 DEF ActiveAdmins

\* More administrators than one.
LEMMA MoreThanOne ==
    ASSUME NEW u, ~(Cardinality(ActiveAdmins) <= 1)
    PROVE  \E v \in ActiveAdmins : v # u
<1> SUFFICES ASSUME ActiveAdmins \subseteq {u} PROVE FALSE
  OBVIOUS
<1>1. ActiveAdmins = {} \/ ActiveAdmins = {u}
  OBVIOUS
<1>2. Cardinality({}) = 0 /\ Cardinality({u}) = 1
  BY FS_EmptySet, FS_Singleton
<1>3. Cardinality(ActiveAdmins) \in {0, 1}
  BY <1>1, <1>2
<1>4. QED
  BY <1>3

\* Who is being archived after a step was before it, or was just found not to
\* be the last.
LEMMA TargetStep ==
    ASSUME NInv, [Next]_vars, NEW s \in Syncer, sync'[s].target # None
    PROVE  \/ sync'[s].target = sync[s].target /\ ~CommitArchive(s)
           \/ UNCHANGED account /\ sync'[s].target \in Account /\ ~LastAdmin(sync'[s].target)
<1> USE DEF NInv
<1>1. sync \in [Syncer -> Sync]
  BY DEF SyncsSound
<1>2. ASSUME NEW t \in Syncer, CommitArchive(t) PROVE t # s /\ sync'[s].target = sync[s].target
  <2>1. sync' = [sync EXCEPT ![t] = [sync[t] EXCEPT !.target = None,
                                                   !.todo = sync[t].todo \ {sync[t].target}]]
    BY <1>1, <1>2 DEF CommitArchive
  <2>2. sync[t] \in Sync
    BY <1>1
  <2>3. sync'[t].target = None
    BY <1>1, <2>1, <2>2 DEF Sync
  <2>4. QED
    BY <1>1, <2>1, <2>3
<1>3. ASSUME NEW t \in Syncer, NEW by, FetchInventory(t, by) PROVE sync'[s].target = sync[s].target
  BY <1>1, <1>3 DEF FetchInventory, Sync, Idle
<1>4. ASSUME NEW t \in Syncer, ListLinked(t) PROVE sync'[s].target = sync[s].target
  BY <1>1, <1>4 DEF ListLinked, Sync
<1>5. ASSUME NEW t \in Syncer, NEW u \in Account, BeginArchive(t, u)
      PROVE  \/ sync'[s].target = sync[s].target
             \/ UNCHANGED account /\ sync'[s].target = u /\ ~LastAdmin(u)
  <2>1. sync[t] \in Sync
    BY <1>1
  <2>2. CASE t = s
    BY <1>1, <1>5, <2>1, <2>2 DEF BeginArchive, Sync
  <2>3. CASE t # s
    BY <1>1, <1>5, <2>3 DEF BeginArchive
  <2>4. QED
    BY <2>2, <2>3
<1>6. ASSUME NEW t \in Syncer, FinishSync(t) PROVE sync'[s].target = sync[s].target
  BY <1>1, <1>6 DEF FinishSync, Idle
<1>7. ASSUME UNCHANGED sync PROVE sync'[s].target = sync[s].target
  BY <1>7
<1>8. ASSUME UNCHANGED sync PROVE ~CommitArchive(s)
  BY <1>1, <1>2, <1>8
<1>9. CASE Synchronise
  <2>1. PICK t \in Syncer :
          \/ \E by \in Browser \cup {None} : FetchInventory(t, by)
          \/ ListLinked(t)
          \/ \E u \in Account : BeginArchive(t, u)
          \/ CommitArchive(t)
          \/ FinishSync(t)
    BY <1>9 DEF Synchronise
  <2>2. CASE \E u \in Account : BeginArchive(t, u)
    <3>1. PICK u \in Account : BeginArchive(t, u)
      BY <2>2
    <3>2. ~CommitArchive(s)
      BY <1>2
    <3>3. QED
      BY <1>5, <3>1, <3>2
  <2>3. QED
    BY <1>2, <1>3, <1>4, <1>6, <2>1, <2>2
<1>10. CASE ~Synchronise
  <2>1. UNCHANGED sync
    BY <1>10 DEF Next, vars, Provider, CreateIdentity, ChangeEmail, DeleteIdentity,
         Visitor, Register, CheckCode, LocalSignIn, AskProvider, GrantReset,
         ActivateByCode, Accepted, Refused, Provision, Establish, TakeOver, KeepOther,
         SignedOut, Logout, Expire, SetPassword,
         Operator, CreateStaff, CreateAdminIdentity, CreateLinkedAdmin, ReconcileClient
  <2>2. QED
    BY <1>7, <1>8, <2>1
<1>11. QED
  BY <1>9, <1>10

LEMMA FellowAdminInit == Init => FellowAdmin
  BY DEF Init, FellowAdmin, Idle

LEMMA FellowAdminNext ==
    ASSUME NInv, FellowAdmin, [Next]_vars
    PROVE  FellowAdmin'
<1> SUFFICES ASSUME OneSyncer, NEW s \in Syncer, sync'[s].target # None,
                    account'[sync'[s].target].role = "admin"
             PROVE  \E v \in ActiveAdmins' : v # sync'[s].target
  BY DEF FellowAdmin, OneSyncer
<1> DEFINE u == sync'[s].target
<1>1. CASE sync'[s].target = sync[s].target /\ ~CommitArchive(s)
  <2>1. sync[s].target \in Account /\ account[sync[s].target].link # None
    BY <1>1 DEF NInv, SyncsSound, Sync
  <2>2. account[sync[s].target].role = "admin"
    BY <1>1, <2>1, NextInvariant DEF NInv, RowsSound, Coherent, Absent, Grows
  <2>3. PICK v \in ActiveAdmins : v # sync[s].target
    BY <1>1, <2>2 DEF FellowAdmin
  <2>4. v \in ActiveAdmins'
    BY <1>1, AdminsStay DEF OneSyncer
  <2>5. QED
    BY <1>1, <2>3, <2>4
<1>2. CASE UNCHANGED account /\ u \in Account /\ ~LastAdmin(u)
  <2>1. ~(Cardinality(ActiveAdmins) <= 1)
    BY <1>2 DEF LastAdmin
  <2>2. \E v \in ActiveAdmins : v # u
    BY <2>1, MoreThanOne
  <2>3. QED
    BY <1>2, <2>2 DEF ActiveAdmins
<1>3. QED
  BY <1>1, <1>2, TargetStep

\* archive_deleted_identity: with one synchronisation at a time, somebody can
\* administer the system for as long as there is an identity that may be kept.
THEOREM AccountsAdminRemains == ASSUME OneSyncer PROVE Spec => AdminRemains
<1> DEFINE Act == ActiveAdmins # {} => ActiveAdmins' # {}
<1>1. Init => NInv /\ FellowAdmin
  BY InitInvariant, FellowAdminInit
<1>2. NInv /\ FellowAdmin /\ [Next]_vars => (NInv /\ FellowAdmin)'
  BY NextInvariant, FellowAdminNext
<1>3. NInv /\ FellowAdmin /\ [Next]_vars => [Act]_vars
  <2> SUFFICES ASSUME NInv, FellowAdmin, [Next]_vars, NEW v \in ActiveAdmins
               PROVE  ActiveAdmins' # {}
    OBVIOUS
  <2>1. CASE \E s \in Syncer : CommitArchive(s) /\ sync[s].target = v
    <3>1. PICK s \in Syncer : CommitArchive(s) /\ sync[s].target = v
      BY <2>1
    <3>2. sync[s].target # None /\ account[sync[s].target].role = "admin"
      BY <3>1 DEF CommitArchive, ActiveAdmins
    <3>3. PICK w \in ActiveAdmins : w # v
      BY <3>1, <3>2 DEF FellowAdmin
    <3>4. w \in ActiveAdmins'
      BY <3>1, <3>3, AdminsStay DEF OneSyncer
    <3>5. QED
      BY <3>4
  <2>2. CASE ~\E s \in Syncer : CommitArchive(s) /\ sync[s].target = v
    BY <2>2, AdminsStay
  <2>3. QED
    BY <2>1, <2>2
<1>4. QED
  BY <1>1, <1>2, <1>3, PTL DEF Spec, AdminRemains

=============================================================================
