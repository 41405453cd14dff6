---------------------------- MODULE BrokerProofs ----------------------------
(***************************************************************************)
(* Proofs about Broker, for any number of users, clients, replicas and     *)
(* concurrent calls: a binding secret acts for the user and the client it  *)
(* was drawn for, a code is redeemed once, only a token Keycloak refused   *)
(* is marked expired, and a client that was deleted acts for nobody.       *)
(***************************************************************************)
EXTENDS Broker, TLAPS

\* A call that found a token refused holds one that is dead, and a token is
\* marked only after such a call.
MarkInv ==
  /\ OnlyRefusedIsMarked
  /\ \A q \in Reqs :
       /\ req[q].step # "idle" => req[q].client \in Clients
       /\ req[q].step \in {"allowed", "loaded", "refused"} => req[q].user \in Users
       /\ req[q].step = "refused" => req[q].ver \in dead[req[q].user]

BrowserInv == \A b \in Browsers : browser[b].step = "onboarded" => browser[b].user \in Users

\* A login is redeemed while it has a code and never has one again; what its
\* redemption wrote names the client and the user of the login.
RedeemInv ==
  /\ CodeIsSingleUse
  /\ \A l \in LoginIds : login[l].status \in {"absent", "open", "code"} => redeems[l] = 0

BindingInv ==
  \A c \in Clients, k \in Keys :
    LET s == binding[c][k].secret IN
    s # 0 => redeems[s] > 0 /\ owner[s] = <<c, binding[c][k].user>>

CallInv ==
  \A q \in Reqs :
    LET s == req[q].secret IN
    req[q].step \in {"allowed", "loaded"} /\ s # 0
      => redeems[s] > 0 /\ owner[s] = <<req[q].client, req[q].user>>

SecretInv == RedeemInv /\ BindingInv /\ CallInv

Inv == TypeOK /\ BrowserInv /\ MarkInv /\ SecretInv

LEMMA Small ==
  /\ 0 \in 0..MaxLogins /\ 0 \in 0..MaxTokens /\ 0 \in 0..MaxAdmin
  /\ LoginIds \subseteq 0..MaxLogins /\ 0 \notin LoginIds
  /\ Gone \in Registration /\ Unbound \in Binding /\ Nowhere \in BrowserRec
  /\ NoReq \in ReqRec /\ NoLogin \in LoginRow
  BY BrokerAssumption
     DEF LoginIds, Gone, Registration, Unbound, Binding, Nowhere, BrowserRec, NoReq, ReqRec,
         NoLogin, LoginRow, None

LEMMA Idle == NoReq.step = "idle"
  BY DEF NoReq

\* How a login moves.
LEMMA Expires ==
  ASSUME NEW x \in LoginRow, x.client \in Clients \/ x.status \in {"open", "code"}
  PROVE  /\ [x EXCEPT !.status = "expired"] \in LoginRow
         /\ [x EXCEPT !.status = "expired"].status = "expired"
  <1>1. CASE x = NoLogin
    <2>1. [x EXCEPT !.status = "expired"] = [status |-> "expired", client |-> x.client, user |-> None]
      BY <1>1 DEF NoLogin
    <2>2. x.client \in Clients
      BY <1>1 DEF NoLogin
    <2> QED
      BY <2>1, <2>2 DEF LoginRow
  <1>2. CASE x # NoLogin
    <2>1. /\ x.client \in Clients /\ x.user \in Users \cup {None}
          /\ x = [status |-> x.status, client |-> x.client, user |-> x.user]
      BY <1>2 DEF LoginRow
    <2>2. [x EXCEPT !.status = "expired"]
            = [status |-> "expired", client |-> x.client, user |-> x.user]
      BY <2>1
    <2> QED
      BY <2>1, <2>2 DEF LoginRow
  <1> QED
    BY <1>1, <1>2

LEMMA Issues ==
  ASSUME NEW x \in LoginRow, x.status = "open", NEW u \in Users
  PROVE  [x EXCEPT !.status = "code", !.user = u] \in LoginRow
  <1>1. x \in [status : {"open"}, client : Clients, user : {None}]
    BY DEF LoginRow, NoLogin
  <1>2. [x EXCEPT !.status = "code", !.user = u]
          \in [status : {"code"}, client : Clients, user : Users]
    BY <1>1
  <1> QED
    BY <1>1, <1>2 DEF LoginRow

LEMMA Redeems ==
  ASSUME NEW x \in LoginRow, x.status = "code"
  PROVE  /\ x.client \in Clients /\ x.user \in Users
         /\ [x EXCEPT !.status = "redeemed"] \in LoginRow
         /\ [x EXCEPT !.status = "redeemed"].status = "redeemed"
  <1>1. /\ x.client \in Clients /\ x.user \in Users
        /\ x = [status |-> x.status, client |-> x.client, user |-> x.user]
    BY DEF LoginRow, NoLogin
  <1>2. [x EXCEPT !.status = "redeemed"]
          = [status |-> "redeemed", client |-> x.client, user |-> x.user]
    BY <1>1
  <1> QED
    BY <1>1, <1>2 DEF LoginRow

LEMMA InitInv == Init => Inv
  <1> SUFFICES ASSUME Init PROVE Inv
    OBVIOUS
  <1>1. TypeOK
    <2>1. client \in [Clients -> Registration]
      <3>1. ASSUME NEW b \in BOOLEAN
            PROVE  [there |-> TRUE, enabled |-> TRUE, strict |-> b] \in Registration
        BY Zenon DEF Registration
      <3>2. {[there |-> TRUE, enabled |-> TRUE, strict |-> b] : b \in BOOLEAN}
              \subseteq Registration
        BY <3>1, Zenon
      <3> QED
        BY <3>2 DEF Init
    <2>2. token \in [Users -> TokenRow]
      BY Small DEF Init, TokenRow
    <2>3. redeems \in [LoginIds -> 0..2] /\ owner \in [LoginIds -> (Clients \X Users) \cup {<<>>}]
      BY DEF Init
    <2>4. dead \in [Users -> SUBSET (1..MaxTokens)]
      BY DEF Init
    <2> QED
      BY <2>1, <2>2, <2>3, <2>4, Small DEF Init, TypeOK
  <1>4. BrowserInv
    BY DEF Init, BrowserInv, Nowhere
  <1>2. MarkInv
    BY DEF Init, MarkInv, OnlyRefusedIsMarked, NoReq
  <1>3. SecretInv
    BY DEF Init, SecretInv, RedeemInv, BindingInv, CallInv, CodeIsSingleUse, Unbound, NoReq
  <1> QED
    BY <1>1, <1>2, <1>3, <1>4 DEF Inv

-----------------------------------------------------------------------------
(* Registrations *)

LEMMA AdminKeeps ==
  ASSUME Inv, NEW r \in Replicas, NEW c \in Clients,
         UpdateClient(r, c) \/ CreateClient(r, c) \/ CacheExpires(r, c)
  PROVE  Inv'
  <1>0. /\ client \in [Clients -> Registration]
        /\ cache \in [Replicas -> [Clients -> Registration]]
    BY DEF Inv, TypeOK
  <1>1. client' \in [Clients -> Registration]
    <2>1. \A e, b \in BOOLEAN : [there |-> TRUE, enabled |-> e, strict |-> b] \in Registration
      BY DEF Registration
    <2>2. \/ UNCHANGED client
          \/ \E e, b \in BOOLEAN :
               client' = [client EXCEPT ![c] = [there |-> TRUE, enabled |-> e, strict |-> b]]
      <3>1. CASE UpdateClient(r, c)
        BY <3>1 DEF UpdateClient
      <3>2. CASE CreateClient(r, c)
        BY <3>2 DEF CreateClient
      <3>3. CASE CacheExpires(r, c)
        BY <3>3 DEF CacheExpires
      <3> QED
        BY <3>1, <3>2, <3>3
    <2> QED
      BY <1>0, <2>1, <2>2
  <1>2. cache' \in [Replicas -> [Clients -> Registration]]
    <2>1. [d \in Clients |-> Gone] \in [Clients -> Registration]
      BY Small
    <2>2. CASE UpdateClient(r, c) \/ CreateClient(r, c)
      BY <1>0, <2>1, <2>2 DEF UpdateClient, CreateClient
    <2>3. CASE CacheExpires(r, c)
      <3>1. [cache[r] EXCEPT ![c] = Gone] \in [Clients -> Registration]
        BY <1>0, Small
      <3> QED
        BY <1>0, <2>3, <3>1 DEF CacheExpires
    <2> QED
      BY <2>2, <2>3
  <1>3. admin' \in 0..MaxAdmin
    BY BrokerAssumption DEF Inv, TypeOK, UpdateClient, CreateClient, CacheExpires
  <1>4. UNCHANGED <<login, linked, binding, token, dead, browser, req, owner, redeems>>
    BY DEF UpdateClient, CreateClient, CacheExpires
  <1>5. TypeOK' /\ BrowserInv'
    BY <1>1, <1>2, <1>3, <1>4 DEF Inv, TypeOK, BrowserInv
  <1>6. MarkInv' /\ SecretInv'
    BY <1>4 DEF Inv, MarkInv, SecretInv, RedeemInv, BindingInv, CallInv, OnlyRefusedIsMarked,
               CodeIsSingleUse
  <1> QED
    BY <1>5, <1>6 DEF Inv

LEMMA DeleteClientKeeps ==
  ASSUME Inv, NEW r \in Replicas, NEW c \in Clients, DeleteClient(r, c) PROVE Inv'
  <1>1. /\ client' \in [Clients -> Registration]
        /\ cache' \in [Replicas -> [Clients -> Registration]]
        /\ admin' \in 0..MaxAdmin
        /\ linked' \subseteq Clients \X Users
    BY Small, BrokerAssumption DEF Inv, TypeOK, DeleteClient
  <1>2. login' \in [LoginIds -> LoginRow]
    <2>1. \A l \in LoginIds :
            login[l].client = c => [login[l] EXCEPT !.status = "expired"] \in LoginRow
      BY Expires DEF Inv, TypeOK
    <2> QED
      BY <2>1 DEF Inv, TypeOK, DeleteClient
  <1>3. /\ binding' \in [Clients -> [Keys -> Binding]]
        /\ \A d \in Clients, k \in Keys : binding'[d][k] \in {binding[d][k], Unbound}
    BY Small DEF Inv, TypeOK, DeleteClient, BindingsWithout
  <1>4. UNCHANGED <<token, dead, browser, req, owner, redeems>>
    BY DEF DeleteClient
  <1>5. TypeOK' /\ BrowserInv'
    BY <1>1, <1>2, <1>3, <1>4 DEF Inv, TypeOK, BrowserInv
  <1>6. MarkInv'
    BY <1>4 DEF Inv, MarkInv, OnlyRefusedIsMarked
  <1>7. \A l \in LoginIds : login'[l].status \in {"absent", "open", "code"}
                              => login'[l] = login[l]
    <2> SUFFICES ASSUME NEW l \in LoginIds, login'[l].status \in {"absent", "open", "code"}
                 PROVE  login'[l] = login[l]
      OBVIOUS
    <2>1. CASE login[l].client = c
      <3>1. login'[l] = [login[l] EXCEPT !.status = "expired"]
        BY <2>1 DEF DeleteClient
      <3>2. login'[l].status = "expired"
        BY <2>1, <3>1, Expires DEF Inv, TypeOK
      <3> QED
        BY <3>2
    <2> QED
      BY <2>1 DEF DeleteClient
  <1>8. SecretInv'
    <2>1. \A d \in Clients, k \in Keys :
            binding'[d][k].secret # 0 => binding'[d][k] = binding[d][k]
      BY <1>3 DEF Unbound
    <2>2. RedeemInv'
      BY <1>4, <1>7 DEF Inv, SecretInv, RedeemInv, CodeIsSingleUse
    <2>3. BindingInv'
      BY <1>4, <2>1, ZenonT(60) DEF Inv, SecretInv, BindingInv
    <2>4. CallInv'
      BY <1>4 DEF Inv, SecretInv, CallInv
    <2> QED
      BY <2>2, <2>3, <2>4 DEF SecretInv
  <1> QED
    BY <1>5, <1>6, <1>8 DEF Inv

-----------------------------------------------------------------------------
(* Calls *)

\* A call moves on and nothing else does that the proofs look at.
LEMMA Moves ==
  ASSUME Inv, NEW q \in Reqs, NEW rec \in ReqRec,
         req' = [req EXCEPT ![q] = rec],
         rec.step # "idle" => rec.client \in Clients,
         rec.step \in {"allowed", "loaded", "refused"} => rec.user \in Users,
         rec.step = "refused" => rec.ver \in dead[rec.user],
         rec.step \in {"allowed", "loaded"} /\ rec.secret # 0
           => redeems[rec.secret] > 0 /\ owner[rec.secret] = <<rec.client, rec.user>>,
         cache' \in [Replicas -> [Clients -> Registration]],
         UNCHANGED <<client, login, linked, binding, token, dead, browser, owner, redeems, admin>>
  PROVE  Inv'
  <1>1. /\ req' \in [Reqs -> ReqRec]
        /\ \A p \in Reqs : req'[p] = IF p = q THEN rec ELSE req[p]
    BY DEF Inv, TypeOK
  <1>2. TypeOK' /\ BrowserInv'
    BY <1>1 DEF Inv, TypeOK, BrowserInv
  <1>3. MarkInv'
    BY <1>1 DEF Inv, MarkInv, OnlyRefusedIsMarked
  <1>4. SecretInv'
    BY <1>1 DEF Inv, SecretInv, RedeemInv, BindingInv, CallInv, CodeIsSingleUse
  <1> QED
    BY <1>2, <1>3, <1>4 DEF Inv

LEMMA AnswerKeeps ==
  ASSUME Inv, NEW q \in Reqs, Answer(q),
         UNCHANGED <<client, cache, login, linked, binding, token, dead, browser, owner,
                     redeems, admin>>
  PROVE  Inv'
  <1>1. NoReq.step = "idle"
    BY DEF NoReq
  <1> QED
    BY <1>1, Small, Moves DEF Answer, Inv, TypeOK

LEMMA CallKeeps ==
  ASSUME Inv, NEW q \in Reqs, NEW r \in Replicas, NEW c \in Clients, Call(q, r, c) PROVE Inv'
  <1>1. PICK x \in Registration, step \in {"known", "filling"} :
          req' = [req EXCEPT ![q] = [NoReq EXCEPT !.step = step, !.replica = r, !.client = c,
                                                  !.seen = x]]
    BY ZenonT(60) DEF Call, Inv, TypeOK
  <1> DEFINE rec == [NoReq EXCEPT !.step = step, !.replica = r, !.client = c, !.seen = x]
  <1>2. rec \in ReqRec /\ rec.step \in {"known", "filling"} /\ rec.client = c
    BY Small DEF NoReq, ReqRec
  <1>3. /\ UNCHANGED <<client, login, linked, binding, token, dead, browser, owner, redeems, admin>>
        /\ cache' \in [Replicas -> [Clients -> Registration]]
    BY DEF Call, Inv, TypeOK
  <1> HIDE DEF rec
  <1> QED
    BY <1>1, <1>2, <1>3, Moves DEF rec

LEMMA FillCacheKeeps == ASSUME Inv, NEW q \in Reqs, FillCache(q) PROVE Inv'
  <1> DEFINE rec == [req[q] EXCEPT !.step = "known"]
  <1>1. req' = [req EXCEPT ![q] = rec]
    BY DEF FillCache
  <1>2. rec \in ReqRec /\ rec.step = "known" /\ rec.client = req[q].client
    BY DEF Inv, TypeOK, ReqRec
  <1>5. req[q].client \in Clients
    BY DEF Inv, MarkInv, FillCache
  <1>3. cache' \in [Replicas -> [Clients -> Registration]]
    BY DEF FillCache, Inv, TypeOK, ReqRec
  <1>4. UNCHANGED <<client, login, linked, binding, token, dead, browser, owner, redeems, admin>>
    BY DEF FillCache
  <1> HIDE DEF rec
  <1> QED
    BY <1>1, <1>2, <1>3, <1>4, <1>5, Moves

LEMMA MintCheckKeeps == ASSUME Inv, NEW q \in Reqs, MintCheck(q) PROVE Inv'
  <1>1. PICK u \in Users, secret \in {0} \cup {l \in LoginIds : redeems[l] > 0} :
          IF MayActFor(req[q].seen, req[q].client, u, secret)
          THEN req' = [req EXCEPT ![q].step = "allowed", ![q].user = u, ![q].secret = secret]
          ELSE Answer(q)
    BY DEF MintCheck
  <1>2. UNCHANGED <<client, cache, login, linked, binding, token, dead, browser, owner,
                    redeems, admin>>
    BY DEF MintCheck
  <1>3. CASE ~MayActFor(req[q].seen, req[q].client, u, secret)
    BY <1>1, <1>2, <1>3, AnswerKeeps
  <1>4. CASE MayActFor(req[q].seen, req[q].client, u, secret)
    <2> DEFINE rec == [req[q] EXCEPT !.step = "allowed", !.user = u, !.secret = secret]
    <2>1. req' = [req EXCEPT ![q] = rec]
      BY <1>1, <1>4
    <2>2. /\ rec \in ReqRec /\ rec.step = "allowed" /\ rec.user = u /\ rec.secret = secret
          /\ rec.client = req[q].client
      BY Small DEF Inv, TypeOK, ReqRec
    <2>3. cache' \in [Replicas -> [Clients -> Registration]]
      BY <1>2 DEF Inv, TypeOK
    <2>5. req[q].client \in Clients
      BY DEF MintCheck, Admitted, Inv, MarkInv
    <2>4. secret # 0 => /\ redeems[secret] > 0
                        /\ owner[secret] = <<req[q].client, u>>
      <3> SUFFICES ASSUME secret # 0
                   PROVE  redeems[secret] > 0 /\ owner[secret] = <<req[q].client, u>>
        OBVIOUS
      <3>1. PICK k \in Keys : /\ binding[req[q].client][k].secret = secret
                              /\ binding[req[q].client][k].user = u
        BY <1>4 DEF MayActFor
      <3> QED
        BY <2>5, <3>1 DEF Inv, SecretInv, BindingInv
    <2> HIDE DEF rec
    <2> QED
      BY <1>2, <2>1, <2>2, <2>3, <2>4, <2>5, Moves
  <1> QED
    BY <1>3, <1>4

LEMMA LoadTokenKeeps == ASSUME Inv, NEW q \in Reqs, LoadToken(q) PROVE Inv'
  <1> DEFINE t == token[req[q].user]
             step == IF t.expired THEN "refused" ELSE "loaded"
             rec == [req[q] EXCEPT !.step = step, !.ver = t.ver]
  <1>1. UNCHANGED <<client, cache, login, linked, binding, token, dead, browser, owner,
                    redeems, admin>>
    BY DEF LoadToken
  <1>2. CASE Answer(q)
    BY <1>1, <1>2, AnswerKeeps
  <1>3. CASE req' = [req EXCEPT ![q] = rec]
    <2>1. req[q].user \in Users /\ req[q].client \in Clients /\ req[q].step = "allowed"
      BY DEF LoadToken, Inv, MarkInv
    <2>2. t \in TokenRow
      BY <2>1 DEF Inv, TypeOK
    <2>3. /\ rec \in ReqRec /\ rec.step = step /\ rec.ver = t.ver
          /\ rec.user = req[q].user /\ rec.client = req[q].client /\ rec.secret = req[q].secret
      <3>1. step \in {"loaded", "refused"} /\ t.ver \in 0..MaxTokens /\ req[q] \in ReqRec
        BY <2>2 DEF Inv, TypeOK, TokenRow
      <3> HIDE DEF step, t
      <3> QED
        BY <3>1 DEF ReqRec
    <2>4. step = "refused" => t.ver \in dead[req[q].user]
      BY <2>1 DEF Inv, MarkInv, OnlyRefusedIsMarked
    <2>5. req[q].secret # 0 => /\ redeems[req[q].secret] > 0
                               /\ owner[req[q].secret] = <<req[q].client, req[q].user>>
      BY <2>1 DEF Inv, SecretInv, CallInv
    <2>6. cache' \in [Replicas -> [Clients -> Registration]]
      BY <1>1 DEF Inv, TypeOK
    <2>7. step \in {"refused", "loaded"}
      OBVIOUS
    <2> HIDE DEF rec, step, t
    <2> QED
      BY <1>1, <1>3, <2>1, <2>3, <2>4, <2>5, <2>6, <2>7, Moves
  <1> QED
    BY <1>2, <1>3 DEF LoadToken

LEMMA RefreshKeeps == ASSUME Inv, NEW q \in Reqs, Refresh(q) PROVE Inv'
  <1> DEFINE rec == [req[q] EXCEPT !.step = "refused"]
  <1>1. UNCHANGED <<client, cache, login, linked, binding, token, dead, browser, owner,
                    redeems, admin>>
    BY DEF Refresh
  <1>2. CASE Answer(q)
    BY <1>1, <1>2, AnswerKeeps
  <1>3. CASE req' = [req EXCEPT ![q] = rec] /\ req[q].ver \in dead[req[q].user]
    <2>1. req[q].user \in Users /\ req[q].client \in Clients
      BY DEF Refresh, Inv, MarkInv
    <2>2. /\ rec \in ReqRec /\ rec.step = "refused" /\ rec.ver = req[q].ver
          /\ rec.user = req[q].user /\ rec.client = req[q].client
      BY DEF Inv, TypeOK, ReqRec
    <2>3. cache' \in [Replicas -> [Clients -> Registration]]
      BY <1>1 DEF Inv, TypeOK
    <2> HIDE DEF rec
    <2> QED
      BY <1>1, <1>3, <2>1, <2>2, <2>3, Moves
  <1> QED
    BY <1>2, <1>3 DEF Refresh

\* The compare-and-set: what is marked is the token the refused call read.
LEMMA MarkExpiredKeeps == ASSUME Inv, NEW q \in Reqs, MarkExpired(q) PROVE Inv'
  <1> DEFINE u == req[q].user
  <1>1. u \in Users /\ req[q].ver \in dead[u]
    BY DEF MarkExpired, Inv, MarkInv
  <1>2. /\ token' \in [Users -> TokenRow]
        /\ \A w \in Users : token'[w].ver = token[w].ver
        /\ \A w \in Users : token'[w].expired =>
             token[w].expired \/ (w = u /\ token[u].ver = req[q].ver)
    <2>1. CASE Marks(token[u], req[q].ver)
      <3>1. token' = [token EXCEPT ![u].expired = TRUE]
        BY <2>1 DEF MarkExpired
      <3>2. token[u].ver = req[q].ver
        BY <2>1 DEF Marks
      <3> QED
        BY <1>1, <3>1, <3>2 DEF Inv, TypeOK, TokenRow
    <2>2. CASE ~Marks(token[u], req[q].ver)
      BY <2>2 DEF MarkExpired, Inv, TypeOK
    <2> QED
      BY <2>1, <2>2
  <1>3. /\ req' \in [Reqs -> ReqRec]
        /\ \A p \in Reqs : req'[p] = IF p = q THEN NoReq ELSE req[p]
    BY Small DEF MarkExpired, Answer, Inv, TypeOK
  <1>4. UNCHANGED <<client, cache, login, linked, binding, dead, browser, owner, redeems, admin>>
    BY DEF MarkExpired
  <1>5. TypeOK' /\ BrowserInv'
    BY <1>2, <1>3, <1>4 DEF Inv, TypeOK, BrowserInv
  <1>6. MarkInv'
    BY <1>1, <1>2, <1>3, <1>4 DEF Inv, MarkInv, OnlyRefusedIsMarked, NoReq
  <1>7. RedeemInv' /\ BindingInv'
    BY <1>4 DEF Inv, SecretInv, RedeemInv, BindingInv, CodeIsSingleUse
  <1>8. CallInv'
    BY <1>3, <1>4, Idle DEF Inv, SecretInv, CallInv
  <1> QED
    BY <1>5, <1>6, <1>7, <1>8 DEF Inv, SecretInv

-----------------------------------------------------------------------------
(* Sign-ins *)

\* A step that touches logins, and of the rest only what the proofs ignore:
\* no login gets a code, or is open, again.
LEMMA LoginStep ==
  ASSUME Inv, login' \in [LoginIds -> LoginRow], browser' \in [Browsers -> BrowserRec],
         BrowserInv',
         req' \in [Reqs -> ReqRec],
         \A q \in Reqs : req'[q] = req[q] \/ req'[q] = NoReq,
         \A l \in LoginIds : login'[l].status \in {"absent", "open", "code"}
                               => login[l].status \in {"absent", "open", "code"},
         UNCHANGED <<client, cache, linked, binding, token, dead, owner, redeems, admin>>
  PROVE  Inv'
  <1>1. TypeOK' /\ BrowserInv'
    BY DEF Inv, TypeOK
  <1>2. MarkInv'
    BY Idle DEF Inv, MarkInv, OnlyRefusedIsMarked
  <1>3. RedeemInv' /\ BindingInv'
    BY DEF Inv, SecretInv, RedeemInv, BindingInv, CodeIsSingleUse
  <1>4. CallInv'
    BY Idle DEF Inv, SecretInv, CallInv
  <1> QED
    BY <1>1, <1>2, <1>3, <1>4 DEF Inv, SecretInv

LEMMA BeginLoginKeeps == ASSUME Inv, NEW q \in Reqs, BeginLogin(q) PROVE Inv'
  <1>1. PICK l \in LoginIds :
          /\ login[l].status = "absent"
          /\ login' = [login EXCEPT ![l] = [status |-> "open", client |-> req[q].client,
                                            user |-> None]]
    BY DEF BeginLogin
  <1>2. req[q].client \in Clients
    BY DEF BeginLogin, Admitted, Inv, MarkInv
  <1>3. [status |-> "open", client |-> req[q].client, user |-> None] \in LoginRow
    BY <1>2 DEF LoginRow
  <1>4. login' \in [LoginIds -> LoginRow]
    BY <1>1, <1>3 DEF Inv, TypeOK
  <1>5. /\ req' \in [Reqs -> ReqRec]
        /\ \A p \in Reqs : req'[p] = req[p] \/ req'[p] = NoReq
    BY Small DEF BeginLogin, Answer, Inv, TypeOK
  <1>6. \A k \in LoginIds : k # l => login'[k] = login[k]
    BY <1>1 DEF Inv, TypeOK
  <1>7. browser' \in [Browsers -> BrowserRec] /\ BrowserInv'
    BY DEF BeginLogin, Inv, TypeOK, BrowserInv
  <1>8. UNCHANGED <<client, cache, linked, binding, token, dead, owner, redeems, admin>>
    BY DEF BeginLogin
  <1> QED
    BY <1>1, <1>4, <1>5, <1>6, <1>7, <1>8, LoginStep

LEMMA OpenLoginKeeps ==
  ASSUME Inv, NEW b \in Browsers, NEW l \in LoginIds, OpenLogin(b, l) PROVE Inv'
  <1> DEFINE rec == [step |-> "keycloak", login |-> l, user |-> None]
  <1>1. browser' \in [Browsers -> BrowserRec] /\ BrowserInv'
    <2>1. rec \in BrowserRec /\ rec.step # "onboarded" /\ browser' = [browser EXCEPT ![b] = rec]
      BY Small DEF OpenLogin, BrowserRec
    <2> HIDE DEF rec
    <2> QED
      BY <2>1 DEF Inv, TypeOK, BrowserInv
  <1>2. UNCHANGED <<client, cache, login, linked, binding, token, dead, req, owner, redeems, admin>>
    BY DEF OpenLogin
  <1> QED
    BY <1>1, <1>2, LoginStep DEF Inv, TypeOK, BrowserInv

LEMMA IssueCodeKeeps ==
  ASSUME Inv, NEW b \in Browsers, IssueCode(b) PROVE Inv'
  <1> DEFINE l == browser[b].login
             rec == [login[l] EXCEPT !.status = "code", !.user = browser[b].user]
  <1>1. browser' \in [Browsers -> BrowserRec] /\ BrowserInv'
    BY Small DEF IssueCode, Inv, TypeOK, BrowserInv, Nowhere
  <1>2. UNCHANGED <<client, cache, linked, binding, token, dead, req, owner, redeems, admin>>
    BY DEF IssueCode
  <1>3. CASE l \in LoginIds /\ login[l].status = "open"
    <2>1. login' = [login EXCEPT ![l] = rec]
      BY <1>3 DEF IssueCode, Issuable
    <2>2. rec \in LoginRow
      BY <1>3, Issues DEF IssueCode, Inv, TypeOK, BrowserInv
    <2>3. /\ login' \in [LoginIds -> LoginRow]
          /\ \A k \in LoginIds : k # l => login'[k] = login[k]
      BY <2>1, <2>2 DEF Inv, TypeOK
    <2> QED
      BY <1>1, <1>2, <1>3, <2>3, LoginStep DEF Inv, TypeOK, BrowserInv
  <1>4. CASE ~(l \in LoginIds /\ login[l].status = "open")
    <2>1. login' = login
      BY <1>4 DEF IssueCode, Issuable, Inv, TypeOK
    <2> QED
      BY <1>1, <1>2, <2>1, LoginStep DEF Inv, TypeOK, BrowserInv
  <1> QED
    BY <1>3, <1>4

LEMMA LoginExpiresKeeps == ASSUME Inv, NEW l \in LoginIds, LoginExpires(l) PROVE Inv'
  <1> DEFINE rec == [login[l] EXCEPT !.status = "expired"]
  <1>1. rec \in LoginRow /\ rec.status = "expired"
    BY Expires DEF LoginExpires, Inv, TypeOK
  <1>2. login' = [login EXCEPT ![l] = rec]
    BY DEF LoginExpires
  <1> HIDE DEF rec
  <1>3. /\ login' \in [LoginIds -> LoginRow]
        /\ \A k \in LoginIds : login'[k] = IF k = l THEN rec ELSE login[k]
    BY <1>1, <1>2 DEF Inv, TypeOK
  <1>4. UNCHANGED <<client, cache, linked, binding, token, dead, browser, req, owner, redeems, admin>>
    BY DEF LoginExpires
  <1> QED
    BY <1>1, <1>3, <1>4, LoginStep DEF Inv, TypeOK, BrowserInv

\* The one step that writes a binding: its secret is fresh.
LEMMA RedeemKeeps == ASSUME Inv, NEW q \in Reqs, Redeem(q) PROVE Inv'
  <1>1. req[q].client \in Clients
    BY DEF Redeem, Admitted, Inv, MarkInv
  <1>2. /\ req' \in [Reqs -> ReqRec]
        /\ \A p \in Reqs : req'[p] = IF p = q THEN NoReq ELSE req[p]
    BY Small DEF Redeem, Answer, Inv, TypeOK
  <1>3. UNCHANGED <<client, cache, token, dead, browser, admin>>
    BY DEF Redeem
  <1>4. MarkInv'
    BY <1>2, <1>3, Idle DEF Inv, MarkInv, OnlyRefusedIsMarked
  <1>5. CASE UNCHANGED <<login, linked, binding, owner, redeems>>
    <2>1. TypeOK' /\ BrowserInv'
      BY <1>2, <1>3, <1>5 DEF Inv, TypeOK, BrowserInv
    <2>2. RedeemInv' /\ BindingInv'
      BY <1>5 DEF Inv, SecretInv, RedeemInv, BindingInv, CodeIsSingleUse
    <2>3. CallInv'
      BY <1>2, <1>5, Idle DEF Inv, SecretInv, CallInv
    <2> QED
      BY <1>4, <2>1, <2>2, <2>3 DEF Inv, SecretInv
  <1>6. CASE ~UNCHANGED <<login, linked, binding, owner, redeems>>
    <2> DEFINE c == req[q].client
    <2>1. PICK l \in LoginIds, k \in Keys :
            /\ login[l].status = "code" /\ login[l].client = c
            /\ login' = [login EXCEPT ![l].status = "redeemed"]
            /\ linked' = linked \cup {<<c, login[l].user>>}
            /\ binding' = [binding EXCEPT ![c][k] = [user |-> login[l].user, secret |-> l]]
            /\ owner' = [owner EXCEPT ![l] = <<login[l].client, login[l].user>>]
            /\ redeems' = [redeems EXCEPT ![l] = IF @ < 2 THEN @ + 1 ELSE @]
      BY <1>6 DEF Redeem, Redeemable
    <2> DEFINE u == login[l].user
               rec == [login[l] EXCEPT !.status = "redeemed"]
               new == [user |-> u, secret |-> l]
    <2>2. u \in Users /\ rec \in LoginRow /\ rec.status = "redeemed"
      BY <2>1, Redeems DEF Inv, TypeOK
    <2>3. new \in Binding
      BY <2>2, Small DEF Binding
    <2>4. redeems[l] = 0
      BY <2>1 DEF Inv, SecretInv, RedeemInv
    <2> HIDE DEF c, u, rec
    <2>5. c \in Clients
      BY <1>1 DEF c
    <2>6. /\ login' \in [LoginIds -> LoginRow]
          /\ \A m \in LoginIds : login'[m] = IF m = l THEN rec ELSE login[m]
      BY <2>1, <2>2 DEF Inv, TypeOK, rec
    <2>7. /\ redeems' \in [LoginIds -> 0..2]
          /\ \A m \in LoginIds : redeems'[m] = IF m = l THEN 1 ELSE redeems[m]
      BY <2>1, <2>4 DEF Inv, TypeOK
    <2>8. /\ owner' \in [LoginIds -> (Clients \X Users) \cup {<<>>}]
          /\ \A m \in LoginIds : owner'[m] = IF m = l THEN <<c, u>> ELSE owner[m]
      BY <2>1, <2>2, <2>5 DEF Inv, TypeOK, u
    <2>9. /\ binding' \in [Clients -> [Keys -> Binding]]
          /\ \A d \in Clients, j \in Keys :
               binding'[d][j] = IF d = c /\ j = k THEN new ELSE binding[d][j]
      BY <2>1, <2>3, <2>5 DEF Inv, TypeOK, u
    <2>10. linked' \subseteq Clients \X Users
      BY <2>1, <2>2, <2>5 DEF Inv, TypeOK, u
    <2>11. TypeOK' /\ BrowserInv'
      BY <1>2, <1>3, <2>6, <2>7, <2>8, <2>9, <2>10 DEF Inv, TypeOK, BrowserInv
    <2>12. CodeIsSingleUse' /\ \A m \in LoginIds :
             login'[m].status \in {"absent", "open", "code"} => redeems'[m] = 0
      BY <2>2, <2>6, <2>7 DEF Inv, SecretInv, RedeemInv, BindingInv, CallInv, CodeIsSingleUse
    <2>13. \A d \in Clients, j \in Keys :
             LET s == binding'[d][j].secret IN
             s # 0 => redeems'[s] > 0 /\ owner'[s] = <<d, binding'[d][j].user>>
      <3> SUFFICES ASSUME NEW d \in Clients, NEW j \in Keys, binding'[d][j].secret # 0
                   PROVE  /\ redeems'[binding'[d][j].secret] > 0
                          /\ owner'[binding'[d][j].secret] = <<d, binding'[d][j].user>>
        OBVIOUS
      <3>1. CASE d = c /\ j = k
        BY <2>7, <2>8, <2>9, <3>1
      <3>2. CASE ~(d = c /\ j = k)
        <4>1. binding'[d][j] = binding[d][j]
          BY <2>9, <3>2
        <4>2. /\ redeems[binding[d][j].secret] > 0
              /\ owner[binding[d][j].secret] = <<d, binding[d][j].user>>
          BY <4>1 DEF Inv, SecretInv, BindingInv
        <4>3. binding[d][j].secret \in LoginIds
          BY <4>1, BrokerAssumption DEF Inv, TypeOK, Binding, LoginIds
        <4> QED
          BY <2>4, <2>7, <2>8, <4>1, <4>2, <4>3
      <3> QED
        BY <3>1, <3>2
    <2>14. \A p \in Reqs :
             LET s == req'[p].secret IN
             req'[p].step \in {"allowed", "loaded"} /\ s # 0
               => redeems'[s] > 0 /\ owner'[s] = <<req'[p].client, req'[p].user>>
      <3> SUFFICES ASSUME NEW p \in Reqs, req'[p].step \in {"allowed", "loaded"},
                          req'[p].secret # 0
                   PROVE  /\ redeems'[req'[p].secret] > 0
                          /\ owner'[req'[p].secret] = <<req'[p].client, req'[p].user>>
        OBVIOUS
      <3>1. req'[p] = req[p]
        BY <1>2 DEF NoReq
      <3>2. /\ redeems[req[p].secret] > 0
            /\ owner[req[p].secret] = <<req[p].client, req[p].user>>
        BY <3>1 DEF Inv, SecretInv, CallInv
      <3>3. req[p].secret \in LoginIds
        BY <3>1, BrokerAssumption DEF Inv, TypeOK, ReqRec, LoginIds
      <3> QED
        BY <2>4, <2>7, <2>8, <3>1, <3>2, <3>3
    <2>15. SecretInv'
      BY <2>12, <2>13, <2>14 DEF SecretInv, RedeemInv, BindingInv, CallInv
    <2> QED
      BY <1>4, <2>11, <2>15 DEF Inv
  <1> QED
    BY <1>5, <1>6

-----------------------------------------------------------------------------
(* Tokens *)

\* A stored token is a new one, and not marked.
LEMMA Vaulted ==
  ASSUME Inv, NEW u \in Users, StoreOfflineToken(u)
  PROVE  /\ token' \in [Users -> TokenRow]
         /\ \A w \in Users : token'[w].expired => token'[w] = token[w]
  BY BrokerAssumption DEF Inv, TypeOK, StoreOfflineToken, TokenRow

LEMMA TokenStep ==
  ASSUME Inv, token' \in [Users -> TokenRow], browser' \in [Browsers -> BrowserRec],
         BrowserInv',
         \A w \in Users : token'[w].expired => token'[w] = token[w],
         UNCHANGED <<client, cache, login, linked, binding, dead, req, owner, redeems, admin>>
  PROVE  Inv'
  <1>1. TypeOK' /\ BrowserInv'
    BY DEF Inv, TypeOK
  <1>2. MarkInv'
    BY DEF Inv, MarkInv, OnlyRefusedIsMarked
  <1>3. SecretInv'
    BY DEF Inv, SecretInv, RedeemInv, BindingInv, CallInv, CodeIsSingleUse
  <1> QED
    BY <1>1, <1>2, <1>3 DEF Inv

LEMMA OnboardKeeps == ASSUME Inv, NEW b \in Browsers, Onboard(b) PROVE Inv'
  <1>1. browser' \in [Browsers -> BrowserRec] /\ BrowserInv'
    <2>1. CASE browser' = [browser EXCEPT ![b] = Nowhere]
      BY <2>1, Small DEF Inv, TypeOK, BrowserInv, Nowhere
    <2>2. ASSUME NEW u \in Users,
                 browser' = [browser EXCEPT ![b].step = "onboarded", ![b].user = u]
          PROVE  browser' \in [Browsers -> BrowserRec] /\ BrowserInv'
      <3> DEFINE rec == [browser[b] EXCEPT !.step = "onboarded", !.user = u]
      <3>1. rec \in BrowserRec /\ rec.user = u /\ browser' = [browser EXCEPT ![b] = rec]
        BY <2>2 DEF Inv, TypeOK, BrowserRec
      <3> HIDE DEF rec
      <3> QED
        BY <3>1 DEF Inv, TypeOK, BrowserInv
    <2> QED
      BY <2>1, <2>2 DEF Onboard
  <1>2. /\ token' \in [Users -> TokenRow]
        /\ \A w \in Users : token'[w].expired => token'[w] = token[w]
    BY Vaulted DEF Onboard, Inv, TypeOK
  <1>3. UNCHANGED <<client, cache, login, linked, binding, dead, req, owner, redeems, admin>>
    BY DEF Onboard
  <1> QED
    BY <1>1, <1>2, <1>3, TokenStep

LEMMA ConsoleSignInKeeps == ASSUME Inv, NEW u \in Users, ConsoleSignIn(u) PROVE Inv'
  <1>1. /\ token' \in [Users -> TokenRow]
        /\ \A w \in Users : token'[w].expired => token'[w] = token[w]
    BY Vaulted DEF ConsoleSignIn
  <1>2. UNCHANGED <<client, cache, login, linked, binding, dead, browser, req, owner, redeems, admin>>
    BY DEF ConsoleSignIn
  <1> QED
    BY <1>1, <1>2, TokenStep DEF Inv, TypeOK, BrowserInv

LEMMA TokenDiesKeeps == ASSUME Inv, NEW u \in Users, TokenDies(u) PROVE Inv'
  <1>1. token[u].ver \in 1..MaxTokens
    BY BrokerAssumption DEF TokenDies, Inv, TypeOK, TokenRow
  <1>2. /\ dead' \in [Users -> SUBSET (1..MaxTokens)]
        /\ \A w \in Users : dead[w] \subseteq dead'[w]
    BY <1>1 DEF TokenDies, Inv, TypeOK
  <1>3. UNCHANGED <<client, cache, login, linked, binding, token, browser, req, owner, redeems, admin>>
    BY DEF TokenDies
  <1>4. TypeOK' /\ BrowserInv'
    BY <1>2, <1>3 DEF Inv, TypeOK, BrowserInv
  <1>5. MarkInv'
    BY <1>2, <1>3 DEF Inv, MarkInv, OnlyRefusedIsMarked
  <1>6. SecretInv'
    BY <1>3 DEF Inv, SecretInv, RedeemInv, BindingInv, CallInv, CodeIsSingleUse
  <1> QED
    BY <1>4, <1>5, <1>6 DEF Inv

-----------------------------------------------------------------------------
(* The theorems *)

LEMMA NextInv == Inv /\ [Next]_vars => Inv'
  <1> SUFFICES ASSUME Inv, [Next]_vars PROVE Inv'
    OBVIOUS
  <1>1. CASE UNCHANGED vars
    <2>1. TypeOK' /\ BrowserInv'
      BY <1>1 DEF Inv, TypeOK, BrowserInv, vars
    <2>2. MarkInv'
      BY <1>1 DEF Inv, MarkInv, OnlyRefusedIsMarked, vars
    <2>3. SecretInv'
      BY <1>1 DEF Inv, SecretInv, RedeemInv, BindingInv, CallInv, CodeIsSingleUse, vars
    <2> QED
      BY <2>1, <2>2, <2>3 DEF Inv
  <1>2. ASSUME NEW r \in Replicas, NEW c \in Clients,
               \/ UpdateClient(r, c) \/ DeleteClient(r, c) \/ CreateClient(r, c)
               \/ CacheExpires(r, c) \/ \E q \in Reqs : Call(q, r, c)
        PROVE  Inv'
    BY <1>2, AdminKeeps, DeleteClientKeeps, CallKeeps
  <1>3. ASSUME NEW q \in Reqs, Serve(q) PROVE Inv'
    <2>1. CASE Refuse(q)
      BY <2>1, AnswerKeeps DEF Refuse
    <2> QED
      BY <1>3, <2>1, FillCacheKeeps, BeginLoginKeeps, RedeemKeeps, MintCheckKeeps,
         LoadTokenKeeps, RefreshKeeps, MarkExpiredKeeps DEF Serve
  <1>4. ASSUME NEW b \in Browsers,
               Onboard(b) \/ IssueCode(b) \/ \E l \in LoginIds : OpenLogin(b, l)
        PROVE  Inv'
    BY <1>4, OnboardKeeps, IssueCodeKeeps, OpenLoginKeeps
  <1>5. ASSUME NEW l \in LoginIds, LoginExpires(l) PROVE Inv'
    BY <1>5, LoginExpiresKeeps
  <1>6. ASSUME NEW u \in Users, ConsoleSignIn(u) \/ TokenDies(u) PROVE Inv'
    BY <1>6, ConsoleSignInKeeps, TokenDiesKeeps
  <1> QED
    BY <1>1, <1>2, <1>3, <1>4, <1>5, <1>6 DEF Next

LEMMA Invariance == Spec => []Inv
  BY InitInv, NextInv, PTL DEF Spec

LEMMA AdmittedOwns == Inv => SecretNamesItsUser
  BY DEF Inv, SecretInv, CallInv, SecretNamesItsUser

\* Every row, cache entry and call is what its columns allow: a code has a user.
THEOREM TypeCorrect == Spec => []TypeOK
  <1>1. Inv => TypeOK
    BY DEF Inv
  <1> QED
    BY <1>1, Invariance, PTL

\* A call admitted with a binding secret acts for the user who redeemed the
\* code the secret came with, through the client it was redeemed by.
THEOREM SecretIsPersonal == Spec => []SecretNamesItsUser
  BY AdmittedOwns, Invariance, PTL

\* Whatever callbacks, redemptions, expiries and client deletions overlap, no
\* code is redeemed twice.
THEOREM CodesAreSingleUse == Spec => []CodeIsSingleUse
  <1>1. Inv => CodeIsSingleUse
    BY DEF Inv, SecretInv, RedeemInv
  <1> QED
    BY <1>1, Invariance, PTL

\* A token somebody stored while an older one was being refused stays live.
THEOREM MarksAreEarned == Spec => []OnlyRefusedIsMarked
  <1>1. Inv => OnlyRefusedIsMarked
    BY DEF Inv, MarkInv
  <1> QED
    BY <1>1, Invariance, PTL

-----------------------------------------------------------------------------
(* Deleted clients *)

\* What lets a client act for somebody goes with its registration.
AccessInv ==
  /\ \A c \in Clients, k \in Keys : binding[c][k].secret # 0 => client[c].there
  /\ \A c \in Clients, u \in Users : <<c, u>> \in linked => client[c].there

LEMMA InitAccess == Init => AccessInv
  BY DEF Init, AccessInv, Unbound

LEMMA RedeemAccess == ASSUME Inv, AccessInv, NEW q \in Reqs, Redeem(q) PROVE AccessInv'
  <1>1. CASE UNCHANGED <<login, linked, binding, owner, redeems>>
    BY <1>1 DEF Redeem, AccessInv
  <1>2. CASE ~UNCHANGED <<login, linked, binding, owner, redeems>>
    <2> DEFINE c == req[q].client
    <2>1. c \in Clients /\ UNCHANGED client
      BY DEF Redeem, Admitted, Inv, MarkInv
    <2>2. PICK l \in LoginIds, k \in Keys :
            /\ client[c].there
            /\ linked' = linked \cup {<<c, login[l].user>>}
            /\ binding' = [binding EXCEPT ![c][k] = [user |-> login[l].user, secret |-> l]]
      BY <1>2 DEF Redeem
    <2> HIDE DEF c
    <2>3. \A d \in Clients, j \in Keys : d # c => binding'[d][j] = binding[d][j]
      BY <2>1, <2>2 DEF Inv, TypeOK
    <2>4. \A d \in Clients, u \in Users : <<d, u>> \in linked' => d = c \/ <<d, u>> \in linked
      BY <2>2
    <2> QED
      BY <2>1, <2>2, <2>3, <2>4 DEF AccessInv
  <1> QED
    BY <1>1, <1>2

LEMMA AdminAccess ==
  ASSUME Inv, AccessInv, NEW r \in Replicas, NEW c \in Clients,
         UpdateClient(r, c) \/ CreateClient(r, c)
  PROVE  AccessInv'
  <1>1. PICK e \in BOOLEAN, b \in BOOLEAN :
          client' = [client EXCEPT ![c] = [there |-> TRUE, enabled |-> e, strict |-> b]]
    BY DEF UpdateClient, CreateClient
  <1>2. \A d \in Clients : client[d].there => client'[d].there
    BY <1>1 DEF Inv, TypeOK
  <1>3. UNCHANGED <<linked, binding>>
    BY DEF UpdateClient, CreateClient
  <1> QED
    BY <1>2, <1>3 DEF AccessInv

LEMMA DeleteClientAccess ==
  ASSUME Inv, AccessInv, NEW r \in Replicas, NEW c \in Clients, DeleteClient(r, c)
  PROVE  AccessInv'
  <1>1. \A d \in Clients : d # c => client'[d] = client[d]
    BY DEF DeleteClient, Inv, TypeOK
  <1>2. \A d \in Clients, k \in Keys :
          binding'[d][k] = IF d = c THEN Unbound ELSE binding[d][k]
    BY DEF DeleteClient, BindingsWithout, Inv, TypeOK
  <1>3. \A d \in Clients, u \in Users : <<d, u>> \in linked' => d # c /\ <<d, u>> \in linked
    BY DEF DeleteClient
  <1> QED
    BY <1>1, <1>2, <1>3 DEF AccessInv, Unbound

LEMMA NextAccess == Inv /\ AccessInv /\ [Next]_vars => AccessInv'
  <1> SUFFICES ASSUME Inv, AccessInv, [Next]_vars PROVE AccessInv'
    OBVIOUS
  <1>1. ASSUME NEW q \in Reqs, Redeem(q) PROVE AccessInv'
    BY <1>1, RedeemAccess
  <1>2. ASSUME NEW r \in Replicas, NEW c \in Clients,
               UpdateClient(r, c) \/ CreateClient(r, c) \/ DeleteClient(r, c)
        PROVE  AccessInv'
    BY <1>2, AdminAccess, DeleteClientAccess
  <1>3. CASE UNCHANGED <<client, linked, binding>>
    BY <1>3 DEF AccessInv
  <1> QED
    BY <1>1, <1>2, <1>3
       DEF Next, vars, Serve, CacheExpires, Call, FillCache, Refuse, BeginLogin, MintCheck,
           LoadToken, Refresh, MarkExpired, Onboard, IssueCode, OpenLogin, LoginExpires,
           ConsoleSignIn, TokenDies

\* A call is admitted to the vault by its check of the binding or the link.
LEMMA Admission ==
  ASSUME Inv, [Next]_vars, NEW q \in Reqs, req[q].step = "known", req'[q].step = "allowed"
  PROVE  MintCheck(q)
  <1>1. req \in [Reqs -> ReqRec]
    BY DEF Inv, TypeOK
  <1>2. PICK p \in Reqs : Serve(p) \/ \E r \in Replicas, c \in Clients : Call(p, r, c)
    BY DEF Next, vars, UpdateClient, DeleteClient, CreateClient, CacheExpires, Onboard,
           IssueCode, OpenLogin, LoginExpires, ConsoleSignIn, TokenDies
  <1>3. \A s : s # p => req'[s] = req[s] \/ s \notin Reqs
    BY <1>1, <1>2 DEF Serve, Call, FillCache, Refuse, BeginLogin, Redeem, MintCheck, LoadToken,
                      Refresh, MarkExpired, Answer
  <1>4. p = q
    BY <1>3
  <1>5. ASSUME NEW r \in Replicas, NEW c \in Clients, Call(p, r, c) PROVE FALSE
    BY <1>4, <1>5, Idle DEF Call
  <1>6. ~Answer(p)
    BY <1>1, <1>4, Idle DEF Answer
  <1>7. ~FillCache(p)
    BY <1>4 DEF FillCache
  <1> QED
    BY <1>2, <1>4, <1>5, <1>6, <1>7
       DEF Serve, Refuse, BeginLogin, Redeem, LoadToken, Refresh, MarkExpired

LEMMA OnlyClientsAct ==
  ASSUME Inv, AccessInv, NEW q \in Reqs, MintCheck(q), req'[q].step = "allowed"
  PROVE  client[req[q].client].there
  <1>1. req[q].client \in Clients
    BY DEF MintCheck, Admitted, Inv, MarkInv
  <1>2. ~Answer(q)
    BY Idle DEF Answer, Inv, TypeOK
  <1>3. PICK u \in Users, secret \in {0} \cup {l \in LoginIds : redeems[l] > 0} :
          MayActFor(req[q].seen, req[q].client, u, secret)
    BY <1>2 DEF MintCheck
  <1> QED
    BY <1>1, <1>3 DEF MayActFor, AccessInv

\* Deleting a client ends its access at once, for any number of replicas that
\* still have it cached and calls under way: its bindings and links go with it,
\* and a redemption that comes after it is refused.
THEOREM DeletedClientsAreOut == Spec => GoneClientActsForNobody
  <1>1. Inv /\ AccessInv /\ [Next]_vars =>
          [\A q \in Reqs : (req[q].step = "known" /\ req'[q].step = "allowed")
                           => client[req[q].client].there]_vars
    BY Admission, OnlyClientsAct
  <1> QED
    BY <1>1, InitAccess, NextAccess, Invariance, PTL DEF Spec, GoneClientActsForNobody
=============================================================================
