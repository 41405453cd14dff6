------------------------------- MODULE Broker -------------------------------
(***************************************************************************)
(* The token broker: a registered client sends a user's browser through    *)
(* the console's sign-in, redeems the one-time code it gets back for a     *)
(* binding, and later has access tokens minted from the one offline token  *)
(* the vault keeps per user.  Several replicas serve the requests, each    *)
(* with its own cache of client registrations.                             *)
(*                                                                         *)
(* A login's number stands for its OAuth state, its code and the binding   *)
(* secret its redemption returns, which the code draws at random and       *)
(* stores as hashes.  A vaulted token is the number of the sign-in that    *)
(* stored it; updated_at tells two of them apart.                          *)
(***************************************************************************)
EXTENDS Naturals

CONSTANTS
  Users, Clients,
  Keys,       \* account_key: the client rows a sign-in can belong to
  Replicas,   \* console-backend processes
  Browsers,   \* callbacks Keycloak has sent back, at once
  Reqs,       \* calls of broker clients, at once
  MaxLogins, MaxTokens, MaxAdmin  \* bounds

ASSUME BrokerAssumption ==
  MaxLogins \in Nat /\ MaxTokens \in Nat /\ MaxAdmin \in Nat

LoginIds == 1..MaxLogins
None     == "none"

Registration == [there : BOOLEAN, enabled : BOOLEAN, strict : BOOLEAN]
Gone         == [there |-> FALSE, enabled |-> FALSE, strict |-> FALSE]

VARIABLES
  client,   \* broker_clients; strict is require_binding_secret
  cache,    \* _client_cache of each replica; Gone: no entry
  login,    \* broker_login_requests
  linked,   \* broker_client_users
  binding,  \* broker_bindings: per client and account key
  token,    \* user_offline_tokens
  dead,     \* tokens Keycloak no longer takes, per user
  browser,  \* callbacks under way
  req,      \* client calls under way
  owner,    \* history: who redeemed a login's code, through which client
  redeems,  \* history: redemptions of a login's code, counted to 2
  admin     \* registrations changed so far

vars == <<client, cache, login, linked, binding, token, dead, browser, req,
          owner, redeems, admin>>

\* A login belongs to a client, and from its code on to a user.
NoLogin  == [status |-> "absent", client |-> None, user |-> None]
LoginRow == {NoLogin}
  \cup [status : {"open"}, client : Clients, user : {None}]
  \cup [status : {"code", "redeemed"}, client : Clients, user : Users]
  \cup [status : {"expired"}, client : Clients, user : Users \cup {None}]
Binding  == [user : Users \cup {None}, secret : 0..MaxLogins]
Unbound  == [user |-> None, secret |-> 0]
TokenRow == [ver : 0..MaxTokens, expired : BOOLEAN]

Nowhere    == [step |-> "idle", login |-> 0, user |-> None]
BrowserRec == [step : {"idle", "keycloak", "onboarded"}, login : 0..MaxLogins,
               user : Users \cup {None}]

\* seen: the registration the call goes by; secret: the binding secret it
\* presents (0: none); ver: the vaulted token it works with.
ReqRec == [step : {"idle", "filling", "known", "allowed", "loaded", "refused"},
           replica : Replicas \cup {None}, client : Clients \cup {None},
           seen : Registration, user : Users \cup {None},
           secret : 0..MaxLogins, ver : 0..MaxTokens]
NoReq  == [step |-> "idle", replica |-> None, client |-> None, seen |-> Gone,
           user |-> None, secret |-> 0, ver |-> 0]

TypeOK ==
  /\ client \in [Clients -> Registration]
  /\ cache \in [Replicas -> [Clients -> Registration]]
  /\ login \in [LoginIds -> LoginRow]
  /\ linked \subseteq Clients \X Users
  /\ binding \in [Clients -> [Keys -> Binding]]
  /\ token \in [Users -> TokenRow] /\ dead \in [Users -> SUBSET (1..MaxTokens)]
  /\ browser \in [Browsers -> BrowserRec] /\ req \in [Reqs -> ReqRec]
  /\ owner \in [LoginIds -> (Clients \X Users) \cup {<<>>}]
  /\ redeems \in [LoginIds -> 0..2] /\ admin \in 0..MaxAdmin

Init ==
  /\ client \in [Clients -> {[there |-> TRUE, enabled |-> TRUE, strict |-> b] : b \in BOOLEAN}]
  /\ cache = [r \in Replicas |-> [c \in Clients |-> Gone]]
  /\ login = [l \in LoginIds |-> NoLogin]
  /\ linked = {} /\ binding = [c \in Clients |-> [k \in Keys |-> Unbound]]
  /\ token = [u \in Users |-> [ver |-> 0, expired |-> FALSE]]
  /\ dead = [u \in Users |-> {}]
  /\ browser = [b \in Browsers |-> Nowhere] /\ req = [q \in Reqs |-> NoReq]
  /\ owner = [l \in LoginIds |-> <<>>] /\ redeems = [l \in LoginIds |-> 0]
  /\ admin = 0

-----------------------------------------------------------------------------
(* Registrations and their caches *)

\* Mutant: the bindings outlive the client.
Bindings_Kept(c) == binding

\* The rows of broker_bindings that go with their client (ON DELETE CASCADE).
BindingsWithout(c) == [binding EXCEPT ![c] = [k \in Keys |-> Unbound]]

\* update_client, delete_client, create_client again, each followed by
\* invalidate_cache on the replica that served it.
UpdateClient(r, c) ==
  /\ client[c].there /\ admin < MaxAdmin
  /\ \E e \in BOOLEAN, b \in BOOLEAN :
       client' = [client EXCEPT ![c] = [there |-> TRUE, enabled |-> e, strict |-> b]]
  /\ client' # client
  /\ cache' = [cache EXCEPT ![r] = [d \in Clients |-> Gone]]
  /\ admin' = admin + 1
  /\ UNCHANGED <<login, linked, binding, token, dead, browser, req, owner, redeems>>

DeleteClient(r, c) ==
  /\ client[c].there /\ admin < MaxAdmin
  /\ client' = [client EXCEPT ![c] = Gone]
  /\ login' = [l \in LoginIds |-> IF login[l].client = c
                                  THEN [login[l] EXCEPT !.status = "expired"] ELSE login[l]]
  /\ linked' = {x \in linked : x[1] # c}
  /\ binding' = BindingsWithout(c)
  /\ cache' = [cache EXCEPT ![r] = [d \in Clients |-> Gone]]
  /\ admin' = admin + 1
  /\ UNCHANGED <<token, dead, browser, req, owner, redeems>>

CreateClient(r, c) ==
  /\ ~client[c].there /\ admin < MaxAdmin
  /\ client' = [client EXCEPT ![c] = [there |-> TRUE, enabled |-> TRUE, strict |-> FALSE]]
  /\ cache' = [cache EXCEPT ![r] = [d \in Clients |-> Gone]]
  /\ admin' = admin + 1
  /\ UNCHANGED <<login, linked, binding, token, dead, browser, req, owner, redeems>>

\* _CLIENT_CACHE_TTL_SECONDS have passed.
CacheExpires(r, c) ==
  /\ cache[r][c] # Gone
  /\ cache' = [cache EXCEPT ![r][c] = Gone]
  /\ UNCHANGED <<client, login, linked, binding, token, dead, browser, req, owner, redeems, admin>>

\* A call of client c reaches replica r: resolve_client from the cache, or the
\* row is read and will be put there.
Call(q, r, c) ==
  /\ req[q] = NoReq
  /\ LET from(x, step) == [NoReq EXCEPT !.step = step, !.replica = r, !.client = c, !.seen = x]
     IN  req' = [req EXCEPT ![q] = IF cache[r][c] # Gone THEN from(cache[r][c], "known")
                                   ELSE from(client[c], "filling")]
  /\ UNCHANGED <<client, cache, login, linked, binding, token, dead, browser, owner, redeems, admin>>

\* The cache takes what was read, however old; an unknown client has no entry.
FillCache(q) ==
  /\ req[q].step = "filling"
  /\ cache' = [cache EXCEPT ![req[q].replica][req[q].client] = req[q].seen]
  /\ req' = [req EXCEPT ![q].step = "known"]
  /\ UNCHANGED <<client, login, linked, binding, token, dead, browser, owner, redeems, admin>>

\* A call ends; the 403 of require_broker_client and begin_login.
Answer(q) == req' = [req EXCEPT ![q] = NoReq]

Refuse(q) ==
  /\ req[q].step = "known" /\ ~req[q].seen.enabled
  /\ Answer(q)
  /\ UNCHANGED <<client, cache, login, linked, binding, token, dead, browser, owner, redeems, admin>>

Admitted(q) == req[q].step = "known" /\ req[q].seen.enabled

-----------------------------------------------------------------------------
(* The sign-in *)

\* begin_login; the foreign key refuses a client deleted meanwhile.
BeginLogin(q) ==
  /\ Admitted(q) /\ client[req[q].client].there
  /\ \E l \in LoginIds :
       /\ login[l].status = "absent" /\ \A k \in LoginIds : k < l => login[k].status # "absent"
       /\ login' = [login EXCEPT ![l] = [status |-> "open", client |-> req[q].client,
                                         user |-> None]]
  /\ Answer(q)
  /\ UNCHANGED <<client, cache, linked, binding, token, dead, browser, owner, redeems, admin>>

\* callback: open_login finds the pending login.
OpenLogin(b, l) ==
  /\ browser[b] = Nowhere /\ login[l].status = "open"
  /\ browser' = [browser EXCEPT ![b] = [step |-> "keycloak", login |-> l, user |-> None]]
  /\ UNCHANGED <<client, cache, login, linked, binding, token, dead, req, owner, redeems, admin>>

\* store_offline_token: the token of this sign-in replaces the vaulted one.
StoreOfflineToken(u) ==
  /\ token[u].ver < MaxTokens
  /\ token' = [token EXCEPT ![u] = [ver |-> @.ver + 1, expired |-> FALSE]]

\* Keycloak names the user, or the sign-in ends there; onboarding vaults the
\* token (best effort) and commits it before the code is issued.
Onboard(b) ==
  /\ browser[b].step = "keycloak"
  /\ \/ /\ browser' = [browser EXCEPT ![b] = Nowhere] /\ UNCHANGED token
     \/ \E u \in Users :
          /\ browser' = [browser EXCEPT ![b].step = "onboarded", ![b].user = u]
          /\ StoreOfflineToken(u) \/ UNCHANGED token
  /\ UNCHANGED <<client, cache, login, linked, binding, dead, req, owner, redeems, admin>>

\* Mutant: the UPDATE does not ask for code_hash IS NULL.
Issuable_Again(l) == login[l].status \in {"open", "code", "redeemed"}

\* code_hash IS NULL AND expires_at > now
Issuable(l) == login[l].status = "open"

\* issue_code: by the first of two concurrent callbacks only.
IssueCode(b) ==
  /\ browser[b].step = "onboarded"
  /\ LET l == browser[b].login IN
     login' = IF Issuable(l)
              THEN [login EXCEPT ![l].status = "code", ![l].user = browser[b].user]
              ELSE login
  /\ browser' = [browser EXCEPT ![b] = Nowhere]
  /\ UNCHANGED <<client, cache, linked, binding, token, dead, req, owner, redeems, admin>>

\* A login, or its code, runs out of time (and is purged an hour later).
LoginExpires(l) ==
  /\ login[l].status \in {"open", "code"}
  /\ login' = [login EXCEPT ![l].status = "expired"]
  /\ UNCHANGED <<client, cache, linked, binding, token, dead, browser, req, owner, redeems, admin>>

\* The WHERE of redeem.
Redeemable(l, c) == login[l].status = "code" /\ login[l].client = c

\* redeem: the code is consumed, the user linked, and the binding of the
\* account replaced, in one transaction.
Redeem(q) ==
  /\ Admitted(q)
  /\ LET c == req[q].client IN
     \E l \in LoginIds, k \in Keys :
       IF Redeemable(l, c) /\ client[c].there
       THEN /\ login' = [login EXCEPT ![l].status = "redeemed"]
            /\ linked' = linked \cup {<<c, login[l].user>>}
            /\ binding' = [binding EXCEPT ![c][k] = [user |-> login[l].user, secret |-> l]]
            /\ owner' = [owner EXCEPT ![l] = <<login[l].client, login[l].user>>]
            /\ redeems' = [redeems EXCEPT ![l] = IF @ < 2 THEN @ + 1 ELSE @]
       ELSE UNCHANGED <<login, linked, binding, owner, redeems>>
  /\ Answer(q)
  /\ UNCHANGED <<client, cache, token, dead, browser, admin>>

-----------------------------------------------------------------------------
(* Minting *)

\* Mutant: any binding secret of the client will do.
MayActFor_AnySecret(reg, c, u, secret) ==
  IF secret # 0 THEN \E k \in Keys : binding[c][k].secret = secret
  ELSE ~reg.strict /\ <<c, u>> \in linked

\* _may_act_for, with the registration the call goes by.
MayActFor(reg, c, u, secret) ==
  IF secret # 0 THEN \E k \in Keys : binding[c][k].secret = secret /\ binding[c][k].user = u
  ELSE ~reg.strict /\ <<c, u>> \in linked

\* mint, up to the vault.  Clients present secrets they were given.
MintCheck(q) ==
  /\ Admitted(q)
  /\ \E u \in Users, secret \in {0} \cup {l \in LoginIds : redeems[l] > 0} :
       IF MayActFor(req[q].seen, req[q].client, u, secret)
       THEN req' = [req EXCEPT ![q].step = "allowed", ![q].user = u, ![q].secret = secret]
       ELSE Answer(q)
  /\ UNCHANGED <<client, cache, login, linked, binding, token, dead, browser, owner, redeems, admin>>

\* _load_encrypted_blob: nothing there, marked already, or a token to try.
LoadToken(q) ==
  /\ req[q].step = "allowed"
  /\ LET t == token[req[q].user] IN
     IF t.ver = 0 THEN Answer(q)
     ELSE req' = [req EXCEPT ![q].step = IF t.expired THEN "refused" ELSE "loaded",
                             ![q].ver = t.ver]
  /\ UNCHANGED <<client, cache, login, linked, binding, token, dead, browser, owner, redeems, admin>>

\* Keycloak's answer: a token, invalid_grant, or an error that says nothing of
\* the token.
Refresh(q) ==
  /\ req[q].step = "loaded"
  /\ IF req[q].ver \in dead[req[q].user]
     THEN req' = [req EXCEPT ![q].step = "refused"] \/ Answer(q)
     ELSE Answer(q)
  /\ UNCHANGED <<client, cache, login, linked, binding, token, dead, browser, owner, redeems, admin>>

\* Mutant: the user's token is marked, not the one that was refused.
Marks_Unversioned(t, ver) == t.ver # 0

\* updated_at = :stored_at
Marks(t, ver) == t.ver # 0 /\ t.ver = ver

\* mark_expired, then the 409.
MarkExpired(q) ==
  /\ req[q].step = "refused"
  /\ LET u == req[q].user IN
     token' = IF Marks(token[u], req[q].ver) THEN [token EXCEPT ![u].expired = TRUE] ELSE token
  /\ Answer(q)
  /\ UNCHANGED <<client, cache, login, linked, binding, dead, browser, owner, redeems, admin>>

\* The ordinary console login vaults a token too.
ConsoleSignIn(u) ==
  /\ StoreOfflineToken(u)
  /\ UNCHANGED <<client, cache, login, linked, binding, dead, browser, req, owner, redeems, admin>>

\* Idle for 30 days, revoked, or its offline session has ended.
TokenDies(u) ==
  /\ token[u].ver \notin dead[u] \cup {0}
  /\ dead' = [dead EXCEPT ![u] = @ \cup {token[u].ver}]
  /\ UNCHANGED <<client, cache, login, linked, binding, token, browser, req, owner, redeems, admin>>

Serve(q) == \/ FillCache(q) \/ Refuse(q) \/ BeginLogin(q) \/ Redeem(q) \/ MintCheck(q)
            \/ LoadToken(q) \/ Refresh(q) \/ MarkExpired(q)

Next ==
  \/ \E r \in Replicas, c \in Clients :
       \/ UpdateClient(r, c) \/ DeleteClient(r, c) \/ CreateClient(r, c) \/ CacheExpires(r, c)
       \/ \E q \in Reqs : Call(q, r, c)
  \/ \E q \in Reqs : Serve(q)
  \/ \E b \in Browsers : Onboard(b) \/ IssueCode(b) \/ \E l \in LoginIds : OpenLogin(b, l)
  \/ \E l \in LoginIds : LoginExpires(l)
  \/ \E u \in Users : ConsoleSignIn(u) \/ TokenDies(u)

Spec == Init /\ [][Next]_vars

-----------------------------------------------------------------------------
(* Properties *)

\* "one user's secret never mints for another" (_may_act_for), nor for another
\* client: whoever a call was admitted for redeemed the code its secret came
\* with.
SecretNamesItsUser ==
  \A q \in Reqs : (req[q].step \in {"allowed", "loaded"} /\ req[q].secret # 0)
                  => owner[req[q].secret] = <<req[q].client, req[q].user>>

\* "Single use" (redeem): a sign-in is redeemed once, whatever two callbacks
\* and two calls do.
CodeIsSingleUse == \A l \in LoginIds : redeems[l] <= 1

\* "one the user stored by signing in between the refusal and this call is
\* live, and must stay so" (mark_expired): what is marked, Keycloak refused.
OnlyRefusedIsMarked ==
  \A u \in Users : token[u].expired => token[u].ver \in dead[u]

\* Deleting a client ends its access at once, also on the replicas that still
\* have it cached: no call is admitted to the vault for a client that is gone.
GoneClientActsForNobody ==
  [][\A q \in Reqs : (req[q].step = "known" /\ req'[q].step = "allowed")
                     => client[req[q].client].there]_vars
=============================================================================
