-------------------------- MODULE Platform_proofs ---------------------------
(***************************************************************************)
(* Proofs about the server's platform services, accounts and their tokens, *)
(* provisioning of machines and notifications, and about the bridge's      *)
(* GitHub poller.  Each part states the specification of its component     *)
(* alone, with any number of clients, rows, workers and items, its         *)
(* inductive invariant, one lemma per action, and the theorem.             *)
(***************************************************************************)
EXTENDS Accounts, Provisioning, Notifications, GitHubPoller, FiniteSetTheorems, WellFoundedInduction, TLAPS

(* Accounts.                                                               *)

AccountsSpec == AccountsInit /\ [][AccountsNext]_acVars

(* What the rows, tokens and requests can be. *)
UserRows  == [is : {"row"}, email : Emails, role : Roles, pw : Passwords]
TokenRecs == [is : {"token"}, u : UserIds, role : Roles, exp : Nat]
KeyRows   == [is : {"key"}, u : UserIds, exp : Nat]
Reqs == {NoReq} \cup [at : {"in"}, u : UserIds, role : Roles, via : Tokens \cup ApiKeys]
                \cup [at : {"update"}, target : UserIds, named : Roles \cup {""}, role : Roles]
                \cup [at : {"password"}, u : UserIds, via : Tokens \cup ApiKeys, pw : Passwords]
                \cup [at : {"revoke"}, via : Tokens]
                \cup [at : {"reset"}, target : UserIds, pw : Passwords]

AcTypes ==
    /\ acUser \in [UserIds -> {NoUser, GoneUser} \cup UserRows]
    /\ acToken \in [Tokens -> {NoToken} \cup TokenRecs] /\ acKey \in [ApiKeys -> {NoKey} \cup KeyRows]
    /\ acReq \in [Clients -> Reqs]
    /\ acBlocked \subseteq Tokens /\ acRevoked \subseteq Tokens /\ acOut \subseteq Tokens
    /\ acNow \in Nat /\ acAdmin \in [UserIds -> Nat]

OneEmail == \A u, v \in UserIds : IsUser(u) /\ IsUser(v) /\ acUser[u].email = acUser[v].email => u = v
KeyHasUser == \A k \in ApiKeys : acKey[k] # NoKey => IsUser(acKey[k].u)

(* Whatever names a token names one that was issued. *)
Carries(c, t) == acReq[c].at \in {"in", "password", "revoke"} /\ acReq[c].via = t
Issued == /\ \A t \in acBlocked \cup acRevoked \cup acOut : acToken[t] # NoToken
          /\ \A c \in Clients, t \in Tokens : Carries(c, t) => acToken[t] # NoToken

(* A token that was logged out is, until it expires, on both lists, and    *)
(* the list in memory has all of the database's that have not expired.     *)
TokenLists == \A t \in Tokens : acToken[t] # NoToken /\ acNow < acToken[t].exp =>
             /\ t \in acOut => t \in acRevoked
             /\ t \in acRevoked => t \in acBlocked

(* An admin is one now; his tokens end a lifetime after he was one last.   *)
AdminNow == /\ \A u \in UserIds : acAdmin[u] <= acNow
            /\ \A u \in UserIds : IsUser(u) /\ acUser[u].role = "admin" => acAdmin[u] = acNow
            /\ \A t \in Tokens : acToken[t] # NoToken /\ acToken[t].role = "admin" =>
                  acToken[t].exp <= acAdmin[acToken[t].u] + TokenTTL

(* An update that names a role writes it; one that names none writes back  *)
(* what is there, unless another update of the user overlapped.            *)
UpdateOK(c) ==
    /\ acUser[acReq[c].target] # NoUser
    /\ acReq[c].named # "" => acReq[c].role = acReq[c].named
    /\ acReq[c].target \notin acRaced =>
          /\ acReq[c].named = "" /\ IsUser(acReq[c].target) => acReq[c].role = acUser[acReq[c].target].role
          /\ \A d \in Clients : acReq[d].at = "update" /\ acReq[d].target = acReq[c].target => d = c

Updates == \A c \in Clients : acReq[c].at = "update" => UpdateOK(c)

AcInd == AcTypes /\ OneEmail /\ KeyHasUser /\ Issued /\ TokenLists /\ AdminNow /\ Updates

-----------------------------------------------------------------------------
(* Values. *)

LEMMA AcFacts ==
    /\ NoReq \in Reqs /\ NoReq.at = "none" /\ NoUser.is = "none" /\ GoneUser.is = "deleted"
    /\ \A r \in UserRows : r.is = "row" /\ r # NoUser /\ r # GoneUser /\ r.email \in Emails /\ r.role \in Roles
    /\ NoUser # GoneUser
    /\ \A r \in TokenRecs : r # NoToken /\ r.u \in UserIds /\ r.role \in Roles /\ r.exp \in Nat
    /\ \A r \in KeyRows : r # NoKey /\ r.u \in UserIds /\ r.exp \in Nat
    /\ TokenTTL \in Nat /\ TokenTTL > 0
  BY AccountsAssumption DEF Reqs, NoReq, NoUser, GoneUser, UserRows, TokenRecs, NoToken, KeyRows, NoKey

LEMMA UserValue ==
    ASSUME AcTypes, NEW u \in UserIds
    PROVE  /\ acUser[u] \in {NoUser, GoneUser} \cup UserRows /\ (IsUser(u) <=> acUser[u] \in UserRows)
           /\ IsUser(u) => acUser[u].email \in Emails /\ acUser[u].role \in Roles /\ acUser[u] # NoUser
  <1>1. acUser[u] \in {NoUser, GoneUser} \cup UserRows
    BY DEF AcTypes
  <1> QED
    BY <1>1, AcFacts DEF IsUser

LEMMA TokenValue ==
    ASSUME AcTypes, NEW t \in Tokens, acToken[t] # NoToken
    PROVE  acToken[t].u \in UserIds /\ acToken[t].role \in Roles /\ acToken[t].exp \in Nat
  <1>1. acToken[t] \in {NoToken} \cup TokenRecs
    BY DEF AcTypes
  <1> QED
    BY <1>1, AcFacts

LEMMA KeyValue ==
    ASSUME AcTypes, NEW k \in ApiKeys, acKey[k] # NoKey PROVE acKey[k].u \in UserIds /\ acKey[k].exp \in Nat
  <1>1. acKey[k] \in {NoKey} \cup KeyRows
    BY DEF AcTypes
  <1> QED
    BY <1>1, AcFacts

LEMMA ReqValue ==
    ASSUME AcTypes, NEW c \in Clients
    PROVE  /\ acReq[c].at = "in" => acReq[c].u \in UserIds /\ acReq[c].role \in Roles /\ acReq[c].via \in Tokens \cup ApiKeys
           /\ acReq[c].at = "update" => /\ acReq[c].target \in UserIds /\ acReq[c].role \in Roles
                                        /\ acReq[c].named \in Roles \cup {""}
           /\ acReq[c].at = "password" => /\ acReq[c].u \in UserIds /\ acReq[c].via \in Tokens \cup ApiKeys
                                          /\ acReq[c].pw \in Passwords
           /\ acReq[c].at = "revoke" => acReq[c].via \in Tokens
           /\ acReq[c].at = "reset" => acReq[c].target \in UserIds /\ acReq[c].pw \in Passwords
  <1>1. acReq[c] \in Reqs
    BY DEF AcTypes
  <1>2. CASE acReq[c] = NoReq
    BY <1>2, AcFacts
  <1>3. CASE acReq[c] \in [at : {"in"}, u : UserIds, role : Roles, via : Tokens \cup ApiKeys]
    BY <1>3
  <1>4. CASE acReq[c] \in [at : {"update"}, target : UserIds, named : Roles \cup {""}, role : Roles]
    BY <1>4
  <1>5. CASE acReq[c] \in [at : {"password"}, u : UserIds, via : Tokens \cup ApiKeys, pw : Passwords]
    BY <1>5
  <1>6. CASE acReq[c] \in [at : {"revoke"}, via : Tokens]
    BY <1>6
  <1>7. CASE acReq[c] \in [at : {"reset"}, target : UserIds, pw : Passwords]
    BY <1>7
  <1> QED
    BY <1>1, <1>2, <1>3, <1>4, <1>5, <1>6, <1>7 DEF Reqs

LEMMA AcIndInit == AccountsInit => AcInd
  <1> SUFFICES ASSUME AccountsInit PROVE AcInd
    OBVIOUS
  <1> DEFINE row == [is |-> "row", email |-> CHOOSE e \in Emails : TRUE, role |-> "admin", pw |-> CHOOSE p \in Passwords : TRUE]
  <1>1. row \in UserRows
    BY AccountsAssumption DEF UserRows, Roles
  <1>2. acUser = [u \in UserIds |-> IF u = FirstAdmin THEN row ELSE NoUser]
    BY DEF AccountsInit, SeedAdmin
  <1> HIDE DEF row
  <1>3. AcTypes
    BY <1>1, <1>2, AcFacts DEF AcTypes, AccountsInit
  <1>4. \A u \in UserIds : IsUser(u) => u = FirstAdmin
    BY <1>2, AcFacts DEF IsUser
  <1>5. OneEmail /\ KeyHasUser /\ Issued
    BY <1>4, AcFacts DEF OneEmail, KeyHasUser, Issued, Carries, AccountsInit
  <1>6. TokenLists /\ AdminNow
    BY DEF TokenLists, AdminNow, AccountsInit
  <1>7. Updates
    BY AcFacts DEF Updates, AccountsInit
  <1> QED
    BY <1>3, <1>5, <1>6, <1>7 DEF AcInd

-----------------------------------------------------------------------------
(* What the actions have in common. *)

(* What an update under way relies on about its user. *)
KeepsUser(u) ==
    /\ acUser'[u] # NoUser
    /\ u \notin acRaced /\ acUser'[u].is = "row" => IsUser(u) /\ acUser'[u].role = acUser[u].role

LEMMA UpdateFrame ==
    ASSUME NEW d \in Clients, acReq'[d] = acReq[d], acRaced' = acRaced, UpdateOK(d), KeepsUser(acReq[d].target),
           \A e \in Clients : acReq'[e].at = "update" => acReq'[e] = acReq[e]
    PROVE  UpdateOK(d)'
  <1>1. acUser'[acReq'[d].target] # NoUser /\ (acReq'[d].named # "" => acReq'[d].role = acReq'[d].named)
    BY DEF UpdateOK, KeepsUser
  <1>2. ASSUME acReq'[d].target \notin acRaced'
        PROVE  /\ acReq'[d].named = "" /\ acUser'[acReq'[d].target].is = "row" =>
                     acReq'[d].role = acUser'[acReq'[d].target].role
               /\ \A e \in Clients : acReq'[e].at = "update" /\ acReq'[e].target = acReq'[d].target => e = d
    BY <1>2 DEF UpdateOK, KeepsUser
  <1> QED
    BY <1>1, <1>2 DEF UpdateOK, IsUser

(* The request of c moves on; the updates under way find the users as they *)
(* were.                                                                   *)
LEMMA ReqMoves ==
    ASSUME AcInd, NEW c \in Clients, NEW to \in Reqs, acReq' = [acReq EXCEPT ![c] = to], to.at # "update",
           \A t \in Tokens : to.at \in {"in", "password", "revoke"} /\ to.via = t => acToken[t] # NoToken,
           acToken' = acToken, acRaced' = acRaced,
           \A d \in Clients : d # c /\ acReq[d].at = "update" => KeepsUser(acReq[d].target)
    PROVE  /\ acReq' \in [Clients -> Reqs] /\ Updates'
           /\ \A d \in Clients, t \in Tokens : Carries(d, t)' => acToken'[t] # NoToken
  <1> USE DEF AcInd
  <1>1. /\ acReq' \in [Clients -> Reqs] /\ acReq'[c] = to /\ \A d \in Clients : d # c => acReq'[d] = acReq[d]
    BY DEF AcTypes
  <1>2. \A d \in Clients, t \in Tokens : Carries(d, t)' => acToken'[t] # NoToken
    <2> TAKE d \in Clients, t \in Tokens
    <2>1. CASE d = c
      BY <1>1, <2>1 DEF Carries
    <2>2. CASE d # c
      <3>1. Carries(d, t)' <=> Carries(d, t)
        BY <1>1, <2>2 DEF Carries
      <3> QED
        BY <3>1 DEF Issued
    <2> QED
      BY <2>1, <2>2
  <1>4. ASSUME NEW d \in Clients, acReq'[d].at = "update" PROVE UpdateOK(d)'
    <2>1. d # c /\ acReq'[d] = acReq[d] /\ acReq[d].at = "update"
      BY <1>1, <1>4
    <2>2. UpdateOK(d) /\ KeepsUser(acReq[d].target)
      BY <2>1 DEF Updates
    <2>3. \A e \in Clients : acReq'[e].at = "update" => acReq'[e] = acReq[e]
      BY <1>1
    <2> QED
      BY <2>1, <2>2, <2>3, UpdateFrame
  <1>5. Updates'
    BY <1>4 DEF Updates
  <1> QED
    BY <1>1, <1>2, <1>5

(* Admins stay admins of the present moment. *)
LEMMA AdminRises ==
    ASSUME AcTypes, AdminNow, acNow' = acNow, acToken' = acToken, acAdmin' \in [UserIds -> Nat],
           \A u \in UserIds : acAdmin[u] <= acAdmin'[u] /\ acAdmin'[u] <= acNow,
           \A u \in UserIds : IsUser(u)' /\ acUser'[u].role = "admin" => acAdmin'[u] = acNow
    PROVE  AdminNow'
  <1>1. ASSUME NEW t \in Tokens, acToken[t] # NoToken, acToken[t].role = "admin"
        PROVE  acToken[t].exp <= acAdmin'[acToken[t].u] + TokenTTL
    <2>1. acToken[t].u \in UserIds /\ acToken[t].exp \in Nat
      BY <1>1, TokenValue
    <2>2. acToken[t].exp <= acAdmin[acToken[t].u] + TokenTTL
      BY <1>1 DEF AdminNow
    <2>3. acAdmin[acToken[t].u] \in Nat /\ acAdmin'[acToken[t].u] \in Nat
      BY <2>1 DEF AcTypes
    <2> QED
      BY <2>1, <2>2, <2>3, AcFacts
  <1> QED
    BY <1>1 DEF AdminNow, IsUser

(* Only the request changes. *)
LEMMA ReqOnly ==
    ASSUME AcInd, NEW c \in Clients, NEW to \in Reqs, acReq' = [acReq EXCEPT ![c] = to], to.at # "update",
           \A t \in Tokens : to.at \in {"in", "password", "revoke"} /\ to.via = t => acToken[t] # NoToken,
           UNCHANGED <<acUser, tokenVars, acNow, acOut, acAdmin, acRaced>>
    PROVE  AcInd'
  <1>0. UNCHANGED <<acUser, acToken, acBlocked, acRevoked, acKey, acNow, acOut, acAdmin, acRaced>>
    BY DEF tokenVars
  <1>1. \A d \in Clients : d # c /\ acReq[d].at = "update" => KeepsUser(acReq[d].target)
    BY <1>0 DEF AcInd, Updates, UpdateOK, KeepsUser, IsUser
  <1>2. /\ acReq' \in [Clients -> Reqs] /\ Updates'
        /\ \A d \in Clients, t \in Tokens : Carries(d, t)' => acToken'[t] # NoToken
    BY <1>0, <1>1, ReqMoves
  <1>3. AcTypes'
    BY <1>0, <1>2 DEF AcInd, AcTypes
  <1>4. OneEmail' /\ KeyHasUser' /\ TokenLists' /\ AdminNow'
    BY <1>0 DEF AcInd, OneEmail, KeyHasUser, TokenLists, AdminNow, IsUser
  <1>5. Issued'
    BY <1>0, <1>2 DEF AcInd, Issued
  <1> QED
    BY <1>2, <1>3, <1>4, <1>5 DEF AcInd

-----------------------------------------------------------------------------
(* Requests that change nothing else. *)

LEMMA AdmitKeeps ==
    ASSUME AcInd, NEW c \in Clients,
           (\E t \in Tokens : JWTAuthMiddleware(c, t)) \/ (\E k \in ApiKeys : validateAPIKeyToken(c, k))
    PROVE  AcInd'
  <1>1. ASSUME NEW t \in Tokens, JWTAuthMiddleware(c, t) PROVE AcInd'
    <2> DEFINE to == [at |-> "in", u |-> acToken[t].u, role |-> acToken[t].role, via |-> t]
    <2>1. /\ acToken[t] # NoToken /\ acReq' = [acReq EXCEPT ![c] = to]
          /\ UNCHANGED <<acUser, tokenVars, acNow, acOut, acAdmin, acRaced>>
      BY <1>1 DEF JWTAuthMiddleware, AcGoto, ValidateToken
    <2>2. acToken[t].u \in UserIds /\ acToken[t].role \in Roles
      BY <2>1, TokenValue DEF AcInd
    <2>3. to \in Reqs /\ to.at = "in" /\ to.via = t
      BY <2>2 DEF Reqs
    <2> HIDE DEF to
    <2> QED
      BY <2>1, <2>3, ReqOnly
  <1>2. ASSUME NEW k \in ApiKeys, validateAPIKeyToken(c, k) PROVE AcInd'
    <2> DEFINE to == [at |-> "in", u |-> acKey[k].u, role |-> acUser[acKey[k].u].role, via |-> k]
    <2>1. /\ acKey[k] # NoKey /\ IsUser(acKey[k].u) /\ acReq' = [acReq EXCEPT ![c] = to]
          /\ UNCHANGED <<acUser, tokenVars, acNow, acOut, acAdmin, acRaced>>
      BY <1>2 DEF validateAPIKeyToken, AcGoto, ValidateAPIKey, GetUserByID
    <2>2. acKey[k].u \in UserIds /\ acUser[acKey[k].u].role \in Roles
      BY <2>1, KeyValue, UserValue DEF AcInd
    <2>3. to \in Reqs /\ to.at = "in" /\ to.via \notin Tokens
      BY <2>2, AccountsAssumption DEF Reqs
    <2> HIDE DEF to
    <2> QED
      BY <2>1, <2>3, ReqOnly
  <1> QED
    BY <1>1, <1>2

LEMMA FirstStepKeeps ==
    ASSUME AcInd, NEW c \in Clients,
           \/ \E old, new \in Passwords : ChangePassword(c, old, new)
           \/ \E u \in UserIds, p \in Passwords : ResetPassword(c, u, p)
           \/ OtherRequest(c)
    PROVE  AcInd'
  <1>1. ASSUME NEW old \in Passwords, NEW new \in Passwords, ChangePassword(c, old, new) PROVE AcInd'
    <2> DEFINE to == [at |-> "password", u |-> acReq[c].u, via |-> acReq[c].via, pw |-> new]
    <2>1. /\ acReq[c].at = "in" /\ acReq' = [acReq EXCEPT ![c] = to]
          /\ UNCHANGED <<acUser, tokenVars, acNow, acOut, acAdmin, acRaced>>
      BY <1>1 DEF ChangePassword, AcGoto
    <2>2. to \in Reqs /\ to.at = "password" /\ to.via = acReq[c].via
      BY <2>1, ReqValue DEF Reqs, AcInd
    <2>3. \A t \in Tokens : acReq[c].via = t => acToken[t] # NoToken
      BY <2>1 DEF AcInd, Issued, Carries
    <2> HIDE DEF to
    <2> QED
      BY <2>1, <2>2, <2>3, ReqOnly
  <1>2. ASSUME NEW u \in UserIds, NEW p \in Passwords, ResetPassword(c, u, p) PROVE AcInd'
    <2> DEFINE to == [at |-> "reset", target |-> u, pw |-> p]
    <2>1. /\ acReq' = [acReq EXCEPT ![c] = to]
          /\ UNCHANGED <<acUser, tokenVars, acNow, acOut, acAdmin, acRaced>>
      BY <1>2 DEF ResetPassword, AcGoto
    <2>2. to \in Reqs /\ to.at = "reset"
      BY DEF Reqs
    <2> HIDE DEF to
    <2> QED
      BY <2>1, <2>2, ReqOnly
  <1>3. CASE OtherRequest(c)
    <2>1. acReq' = [acReq EXCEPT ![c] = NoReq] /\ UNCHANGED <<acUser, tokenVars, acNow, acOut, acAdmin, acRaced>>
      BY <1>3 DEF OtherRequest, AcAnswer, AcGoto
    <2> QED
      BY <2>1, AcFacts, ReqOnly
  <1> QED
    BY <1>1, <1>2, <1>3

(* An update begins; a second one of the same user counts as a race. *)
LEMMA UpdateUserKeeps == ASSUME AcInd, NEW c \in Clients, NEW u \in UserIds, UpdateUser(c, u) PROVE AcInd'
  <1> USE DEF AcInd
  <1>1. PICK named \in Roles \cup {""} :
           acReq' = [acReq EXCEPT ![c] = [at |-> "update", target |-> u, named |-> named,
                                          role |-> IF named = "" THEN acUser[u].role ELSE named]]
    BY DEF UpdateUser, AcGoto
  <1> DEFINE to == [at |-> "update", target |-> u, named |-> named, role |-> IF named = "" THEN acUser[u].role ELSE named]
  <1>2. /\ IsUser(u) /\ acReq[c].at = "in" /\ acUser' = acUser /\ acToken' = acToken /\ acBlocked' = acBlocked
        /\ acRevoked' = acRevoked /\ acKey' = acKey /\ acNow' = acNow /\ acOut' = acOut /\ acAdmin' = acAdmin
        /\ acRaced' = IF Updating(u) = {} THEN acRaced ELSE acRaced \cup {u}
    BY DEF UpdateUser, requireAdmin, GetUserByID, tokenVars
  <1>3. acUser[u].role \in Roles /\ acUser[u] # NoUser
    BY <1>2, UserValue
  <1>4. /\ to \in Reqs /\ to.at = "update" /\ to.target = u /\ to.named = named
        /\ to.role = IF named = "" THEN acUser[u].role ELSE named
    BY <1>3 DEF Reqs
  <1> HIDE DEF to
  <1>5. acReq' \in [Clients -> Reqs] /\ acReq'[c] = to /\ \A d \in Clients : d # c => acReq'[d] = acReq[d]
    BY <1>1, <1>4 DEF AcTypes, to
  <1>6. AcTypes'
    BY <1>2, <1>5 DEF AcTypes
  <1>7. OneEmail' /\ KeyHasUser' /\ TokenLists' /\ AdminNow'
    BY <1>2 DEF OneEmail, KeyHasUser, TokenLists, AdminNow, IsUser
  <1>8. Issued'
    <2>1. ASSUME NEW d \in Clients, NEW t \in Tokens, Carries(d, t)' PROVE acToken[t] # NoToken
      <3>1. d # c /\ acReq'[d] = acReq[d]
        BY <1>4, <1>5, <2>1 DEF Carries
      <3> QED
        BY <2>1, <3>1 DEF Carries, Issued
    <2> QED
      BY <1>2, <2>1 DEF Issued
  <1>9. ASSUME NEW d \in Clients, acReq'[d].at = "update" PROVE UpdateOK(d)'
    <2>1. CASE d = c
      <3>1. acReq'[d].target = u /\ acReq'[d].named = named /\ acReq'[d].role = IF named = "" THEN acUser[u].role ELSE named
        BY <1>4, <1>5, <2>1
      <3>2. ASSUME u \notin acRaced', NEW e \in Clients, acReq'[e].at = "update", acReq'[e].target = u PROVE e = d
        <4>1. Updating(u) = {}
          BY <1>2, <3>2
        <4> QED
          BY <1>5, <2>1, <3>2, <4>1 DEF Updating
      <3> QED
        BY <1>2, <1>3, <3>1, <3>2 DEF UpdateOK, IsUser
    <2>2. CASE d # c
      <3>1. acReq'[d] = acReq[d] /\ UpdateOK(d)
        BY <1>5, <1>9, <2>2 DEF Updates
      <3>2. acReq[d].target = u => d \in Updating(u)
        BY <1>9, <3>1 DEF Updating
      <3>3. acReq[d].target = u => u \in acRaced'
        BY <1>2, <3>2
      <3>4. \A v : v \notin acRaced' => v \notin acRaced
        BY <1>2
      <3>5. ASSUME acReq[d].target \notin acRaced', NEW e \in Clients, acReq'[e].at = "update",
                   acReq'[e].target = acReq[d].target
            PROVE  e = d
        BY <1>4, <1>5, <3>1, <3>3, <3>4, <3>5 DEF UpdateOK
      <3> QED
        BY <1>2, <3>1, <3>3, <3>4, <3>5 DEF UpdateOK, IsUser
    <2> QED
      BY <2>1, <2>2
  <1>12. Updates'
    BY <1>9 DEF Updates
  <1> QED
    BY <1>6, <1>7, <1>8, <1>12

-----------------------------------------------------------------------------
(* Users. *)

(* A user is added: no update can be about him. *)
LEMMA InsertKeeps ==
    ASSUME AcInd, NEW u \in UserIds, NEW e \in Emails, NEW role \in Roles, NEW p \in Passwords, InsertUser(u, e, role, p)
    PROVE  /\ acUser' \in [UserIds -> {NoUser, GoneUser} \cup UserRows] /\ OneEmail'
           /\ IsUser(u)' /\ acUser'[u].role = role /\ acUser[u] = NoUser
           /\ \A v \in UserIds : v # u => acUser'[v] = acUser[v]
  <1> DEFINE row == [is |-> "row", email |-> e, role |-> role, pw |-> p]
  <1>1. acUser[u] = NoUser /\ GetUserByEmail(e) = {} /\ acUser' = [acUser EXCEPT ![u] = row]
    BY DEF InsertUser, HashPassword
  <1>2. row \in UserRows /\ row.is = "row" /\ row.role = role /\ row.email = e
    BY DEF UserRows
  <1> HIDE DEF row
  <1>3. /\ acUser' \in [UserIds -> {NoUser, GoneUser} \cup UserRows] /\ acUser'[u] = row
        /\ \A v \in UserIds : v # u => acUser'[v] = acUser[v]
    BY <1>1, <1>2 DEF AcInd, AcTypes
  <1>4. \A v \in UserIds : IsUser(v) => acUser[v].email # e
    BY <1>1 DEF GetUserByEmail
  <1>5. OneEmail'
    <2> SUFFICES ASSUME NEW v \in UserIds, NEW w \in UserIds, IsUser(v)', IsUser(w)', acUser'[v].email = acUser'[w].email
                 PROVE  v = w
      BY DEF OneEmail
    <2> QED
      BY <1>2, <1>3, <1>4 DEF AcInd, OneEmail, IsUser
  <1> QED
    BY <1>1, <1>2, <1>3, <1>5 DEF IsUser

LEMMA RegisterKeeps ==
    ASSUME AcInd, NEW u \in UserIds, NEW e \in Emails, NEW p \in Passwords, Register(u, e, p) PROVE AcInd'
  <1> USE DEF AcInd
  <1>1. /\ InsertUser(u, e, "user", p) /\ acToken' = acToken /\ acBlocked' = acBlocked /\ acRevoked' = acRevoked
        /\ acKey' = acKey /\ acReq' = acReq /\ acNow' = acNow /\ acOut' = acOut /\ acAdmin' = acAdmin /\ acRaced' = acRaced
    BY DEF Register, tokenVars
  <1>2. /\ acUser' \in [UserIds -> {NoUser, GoneUser} \cup UserRows] /\ OneEmail'
        /\ IsUser(u)' /\ acUser'[u].role = "user" /\ acUser[u] = NoUser
        /\ \A v \in UserIds : v # u => acUser'[v] = acUser[v]
    BY <1>1, InsertKeeps DEF Roles
  <1>3. AcTypes'
    BY <1>1, <1>2 DEF AcTypes
  <1>4. ASSUME NEW v \in UserIds, IsUser(v) PROVE IsUser(v)'
    BY <1>2, <1>4 DEF IsUser
  <1>5. KeyHasUser'
    BY <1>1, <1>4, KeyValue DEF KeyHasUser, IsUser
  <1>6. Issued' /\ TokenLists'
    BY <1>1 DEF Issued, Carries, TokenLists
  <1>7. AdminNow'
    <2>1. \A v \in UserIds : acAdmin[v] <= acAdmin'[v] /\ acAdmin'[v] <= acNow
      BY <1>1 DEF AcTypes, AdminNow
    <2>2. \A v \in UserIds : IsUser(v)' /\ acUser'[v].role = "admin" => acAdmin'[v] = acNow
      BY <1>1, <1>2 DEF AdminNow, IsUser
    <2>3. acAdmin' \in [UserIds -> Nat]
      BY <1>1 DEF AcTypes
    <2> QED
      BY <1>1, <2>1, <2>2, <2>3, AdminRises
  <1>8. ASSUME NEW d \in Clients, acReq'[d].at = "update" PROVE UpdateOK(d)'
    <2>1. UpdateOK(d) /\ acReq[d].target \in UserIds
      BY <1>1, <1>8, ReqValue DEF Updates
    <2>2. acUser'[acReq[d].target] = acUser[acReq[d].target]
      BY <1>2, <2>1 DEF UpdateOK
    <2> QED
      BY <1>1, <2>1, <2>2 DEF UpdateOK, IsUser
  <1> QED
    BY <1>2, <1>3, <1>5, <1>6, <1>7, <1>8 DEF Updates

LEMMA CreateUserKeeps ==
    ASSUME AcInd, NEW c \in Clients, NEW u \in UserIds, NEW e \in Emails, NEW role \in Roles, NEW p \in Passwords,
           CreateUser(c, u, e, role, p)
    PROVE AcInd'
  <1> USE DEF AcInd
  <1>1. /\ InsertUser(u, e, role, p) /\ acReq' = [acReq EXCEPT ![c] = NoReq]
        /\ acAdmin' = IF role = "admin" THEN [acAdmin EXCEPT ![u] = acNow] ELSE acAdmin
        /\ acToken' = acToken /\ acBlocked' = acBlocked /\ acRevoked' = acRevoked
        /\ acKey' = acKey /\ acNow' = acNow /\ acOut' = acOut /\ acRaced' = acRaced
    BY DEF CreateUser, AcAnswer, AcGoto, tokenVars
  <1>2. /\ acUser' \in [UserIds -> {NoUser, GoneUser} \cup UserRows] /\ OneEmail'
        /\ IsUser(u)' /\ acUser'[u].role = role /\ acUser[u] = NoUser
        /\ \A v \in UserIds : v # u => acUser'[v] = acUser[v]
    BY <1>1, InsertKeeps
  <1>3. /\ acAdmin' \in [UserIds -> Nat]
        /\ \A v \in UserIds : acAdmin[v] <= acAdmin'[v] /\ acAdmin'[v] <= acNow
        /\ \A v \in UserIds : v # u => acAdmin'[v] = acAdmin[v]
        /\ role = "admin" => acAdmin'[u] = acNow
    BY <1>1 DEF AcTypes, AdminNow
  <1>4. ASSUME NEW v \in UserIds, IsUser(v) PROVE IsUser(v)'
    BY <1>2, <1>4 DEF IsUser
  <1>5. KeyHasUser'
    BY <1>1, <1>4, KeyValue DEF KeyHasUser, IsUser
  <1>6. TokenLists'
    BY <1>1 DEF TokenLists
  <1>7. AdminNow'
    <2>1. \A v \in UserIds : IsUser(v)' /\ acUser'[v].role = "admin" => acAdmin'[v] = acNow
      BY <1>2, <1>3 DEF AdminNow, IsUser
    <2> QED
      BY <1>1, <1>3, <2>1, AdminRises
  <1>8. ASSUME NEW d \in Clients, acReq[d].at = "update" PROVE KeepsUser(acReq[d].target)
    <2>1. UpdateOK(d) /\ acReq[d].target \in UserIds
      BY <1>8, ReqValue DEF Updates
    <2>2. acUser'[acReq[d].target] = acUser[acReq[d].target]
      BY <1>2, <2>1 DEF UpdateOK
    <2> QED
      BY <2>1, <2>2 DEF UpdateOK, KeepsUser, IsUser
  <1>9. /\ acReq' \in [Clients -> Reqs] /\ Updates'
        /\ \A d \in Clients, t \in Tokens : Carries(d, t)' => acToken'[t] # NoToken
    BY <1>1, <1>8, AcFacts, ReqMoves
  <1>10. AcTypes' /\ Issued'
    BY <1>1, <1>2, <1>3, <1>9 DEF AcTypes, Issued
  <1> QED
    BY <1>2, <1>5, <1>6, <1>7, <1>9, <1>10

(* A user's row is written with the same e-mail address, if it is there. *)
LEMMA RowWrites ==
    ASSUME AcTypes, OneEmail, NEW u \in UserIds, NEW r,
           IsUser(u) => r \in UserRows /\ r.email = acUser[u].email,
           acUser' = IF IsUser(u) THEN [acUser EXCEPT ![u] = r] ELSE acUser
    PROVE  /\ acUser' \in [UserIds -> {NoUser, GoneUser} \cup UserRows] /\ OneEmail'
           /\ \A v \in UserIds : (IsUser(v)' <=> IsUser(v)) /\ (v # u \/ ~IsUser(v) => acUser'[v] = acUser[v])
           /\ IsUser(u) => acUser'[u] = r
  <1>1. CASE IsUser(u)
    <2>1. r \in UserRows /\ r.email = acUser[u].email /\ r.is = "row"
      BY <1>1, AcFacts
    <2>2. /\ acUser' \in [UserIds -> {NoUser, GoneUser} \cup UserRows] /\ acUser'[u] = r
          /\ \A v \in UserIds : v # u => acUser'[v] = acUser[v]
      BY <1>1, <2>1 DEF AcTypes
    <2>3. \A v \in UserIds : (IsUser(v)' <=> IsUser(v)) /\ (v # u \/ ~IsUser(v) => acUser'[v] = acUser[v])
      BY <1>1, <2>1, <2>2 DEF IsUser
    <2>4. \A v \in UserIds : acUser'[v].email = acUser[v].email
      BY <2>1, <2>2
    <2>5. OneEmail'
      BY <2>3, <2>4 DEF OneEmail
    <2> QED
      BY <2>2, <2>3, <2>5
  <1>2. CASE ~IsUser(u)
    <2>1. acUser' = acUser
      BY <1>2
    <2>2. \A v \in UserIds : IsUser(v)' <=> IsUser(v)
      BY <2>1 DEF IsUser
    <2>3. OneEmail'
      BY <2>1, <2>2 DEF OneEmail
    <2> QED
      BY <1>2, <2>1, <2>2, <2>3 DEF AcTypes
  <1> QED
    BY <1>1, <1>2

(* The role of a user is written: no other update of him relies on it,     *)
(* unless it raced.                                                        *)
LEMMA UpdateUserWritesKeeps == ASSUME AcInd, NEW c \in Clients, UpdateUserWrites(c) PROVE AcInd'
  <1> USE DEF AcInd
  <1>0. acReq[c].at = "update" /\ acReq[c].target \in UserIds /\ acReq[c].role \in Roles
    BY ReqValue DEF UpdateUserWrites
  <1> PICK u \in UserIds : u = acReq[c].target
    BY <1>0
  <1> PICK role \in Roles : role = acReq[c].role
    BY <1>0
  <1> DEFINE row == [acUser[u] EXCEPT !.role = role]
  <1>1. /\ acUser' = IF IsUser(u) THEN [acUser EXCEPT ![u] = row] ELSE acUser
        /\ acReq' = [acReq EXCEPT ![c] = NoReq]
        /\ acAdmin' = IF IsUser(u) /\ "admin" \in {acUser[u].role, acUser'[u].role}
                      THEN [acAdmin EXCEPT ![u] = acNow] ELSE acAdmin
        /\ acToken' = acToken /\ acBlocked' = acBlocked /\ acRevoked' = acRevoked
        /\ acKey' = acKey /\ acNow' = acNow /\ acOut' = acOut /\ acRaced' = acRaced
    BY DEF UpdateUserWrites, AcAnswer, AcGoto, tokenVars, WriteRole
  <1>2. IsUser(u) => row \in UserRows /\ row.email = acUser[u].email /\ row.role = role
    <2> SUFFICES ASSUME IsUser(u) PROVE row \in UserRows /\ row.email = acUser[u].email /\ row.role = role
      OBVIOUS
    <2>1. acUser[u] \in UserRows
      BY UserValue
    <2> QED
      BY <2>1 DEF UserRows
  <1> HIDE DEF row
  <1>3. /\ acUser' \in [UserIds -> {NoUser, GoneUser} \cup UserRows] /\ OneEmail'
        /\ \A v \in UserIds : (IsUser(v)' <=> IsUser(v)) /\ (v # u \/ ~IsUser(v) => acUser'[v] = acUser[v])
        /\ IsUser(u) => acUser'[u] = row
    BY <1>1, <1>2, RowWrites
  <1>4. KeyHasUser'
    BY <1>1, <1>3, KeyValue DEF KeyHasUser, IsUser
  <1>5. TokenLists'
    BY <1>1 DEF TokenLists
  <1>6. /\ acAdmin' \in [UserIds -> Nat]
        /\ \A v \in UserIds : acAdmin[v] <= acAdmin'[v] /\ acAdmin'[v] <= acNow
        /\ \A v \in UserIds : v # u \/ ~IsUser(v) => acAdmin'[v] = acAdmin[v]
        /\ IsUser(u) /\ role = "admin" => acAdmin'[u] = acNow
    <2>1. IsUser(u) => acUser'[u].role = role
      BY <1>2, <1>3
    <2>2. acNow \in Nat /\ acAdmin \in [UserIds -> Nat] /\ \A v \in UserIds : acAdmin[v] <= acNow
      BY DEF AcTypes, AdminNow
    <2>3. acAdmin' = acAdmin \/ (acAdmin' = [acAdmin EXCEPT ![u] = acNow] /\ IsUser(u))
      BY <1>1
    <2>4. IsUser(u) /\ role = "admin" => acAdmin' = [acAdmin EXCEPT ![u] = acNow]
      BY <1>1, <2>1
    <2> QED
      BY <2>2, <2>3, <2>4
  <1>7. AdminNow'
    <2>1. ASSUME NEW v \in UserIds, IsUser(v)', acUser'[v].role = "admin" PROVE acAdmin'[v] = acNow
      BY <1>2, <1>3, <1>6, <2>1 DEF AdminNow
    <2> QED
      BY <1>1, <1>6, <2>1, AdminRises
  <1>8. ASSUME NEW d \in Clients, d # c, acReq[d].at = "update" PROVE KeepsUser(acReq[d].target)
    <2>1. UpdateOK(d) /\ acReq[d].target \in UserIds
      BY <1>8, ReqValue DEF Updates
    <2>2. acReq[d].target = u => u \in acRaced
      BY <1>0, <1>8, <2>1 DEF UpdateOK
    <2>3. acUser'[acReq[d].target] # NoUser
      BY <1>2, <1>3, <2>1, AcFacts DEF UpdateOK
    <2> QED
      BY <1>3, <2>1, <2>2, <2>3 DEF KeepsUser, IsUser
  <1>9. /\ acReq' \in [Clients -> Reqs] /\ Updates'
        /\ \A d \in Clients, t \in Tokens : Carries(d, t)' => acToken'[t] # NoToken
    BY <1>1, <1>8, AcFacts, ReqMoves
  <1>10. AcTypes' /\ Issued'
    BY <1>1, <1>3, <1>6, <1>9 DEF AcTypes, Issued
  <1> QED
    BY <1>3, <1>4, <1>5, <1>7, <1>9, <1>10

(* A password is written: nobody's role depends on it. *)
LEMMA PasswordWrites ==
    ASSUME AcInd, NEW c \in Clients, NEW u \in UserIds, NEW p \in Passwords, UpdatePassword(u, p),
           NEW to \in Reqs, acReq' = [acReq EXCEPT ![c] = to], to.at # "update",
           \A t \in Tokens : to.at \in {"in", "password", "revoke"} /\ to.via = t => acToken[t] # NoToken,
           UNCHANGED <<tokenVars, acNow, acOut, acAdmin, acRaced>>
    PROVE  AcInd'
  <1> USE DEF AcInd
  <1> DEFINE row == [acUser[u] EXCEPT !.pw = p]
  <1>1. /\ acUser' = IF IsUser(u) THEN [acUser EXCEPT ![u] = row] ELSE acUser
        /\ acToken' = acToken /\ acBlocked' = acBlocked /\ acRevoked' = acRevoked /\ acKey' = acKey
        /\ acNow' = acNow /\ acOut' = acOut /\ acAdmin' = acAdmin /\ acRaced' = acRaced
    BY DEF UpdatePassword, HashPassword, tokenVars
  <1>2. IsUser(u) => row \in UserRows /\ row.email = acUser[u].email /\ row.role = acUser[u].role
    <2> SUFFICES ASSUME IsUser(u)
                 PROVE  row \in UserRows /\ row.email = acUser[u].email /\ row.role = acUser[u].role
      OBVIOUS
    <2>1. acUser[u] \in UserRows
      BY UserValue
    <2> QED
      BY <2>1 DEF UserRows
  <1> HIDE DEF row
  <1>3. /\ acUser' \in [UserIds -> {NoUser, GoneUser} \cup UserRows] /\ OneEmail'
        /\ \A v \in UserIds : (IsUser(v)' <=> IsUser(v)) /\ (v # u \/ ~IsUser(v) => acUser'[v] = acUser[v])
        /\ IsUser(u) => acUser'[u] = row
    BY <1>1, <1>2, RowWrites
  <1>4. \A v \in UserIds : IsUser(v) => acUser'[v].role = acUser[v].role
    BY <1>2, <1>3
  <1>5. KeyHasUser'
    BY <1>1, <1>3, KeyValue DEF KeyHasUser, IsUser
  <1>6. TokenLists'
    BY <1>1 DEF TokenLists
  <1>7. AdminNow'
    <2>1. ASSUME NEW v \in UserIds, IsUser(v)', acUser'[v].role = "admin" PROVE acAdmin'[v] = acNow
      BY <1>1, <1>3, <1>4, <2>1 DEF AdminNow
    <2>2. acAdmin' \in [UserIds -> Nat] /\ \A v \in UserIds : acAdmin[v] <= acAdmin'[v] /\ acAdmin'[v] <= acNow
      BY <1>1 DEF AcTypes, AdminNow
    <2> QED
      BY <1>1, <2>1, <2>2, AdminRises
  <1>8. ASSUME NEW d \in Clients, acReq[d].at = "update" PROVE KeepsUser(acReq[d].target)
    <2>1. UpdateOK(d) /\ acReq[d].target \in UserIds
      BY <1>8, ReqValue DEF Updates
    <2>2. acUser'[acReq[d].target] # NoUser
      BY <1>2, <1>3, <2>1, AcFacts DEF UpdateOK
    <2> QED
      BY <1>3, <1>4, <2>1, <2>2 DEF KeepsUser, IsUser
  <1>9. /\ acReq' \in [Clients -> Reqs] /\ Updates'
        /\ \A d \in Clients, t \in Tokens : Carries(d, t)' => acToken'[t] # NoToken
    BY <1>1, <1>8, ReqMoves
  <1>10. AcTypes' /\ Issued'
    BY <1>1, <1>3, <1>9 DEF AcTypes, Issued
  <1> QED
    BY <1>3, <1>5, <1>6, <1>7, <1>9, <1>10

LEMMA PasswordKeeps ==
    ASSUME AcInd, NEW c \in Clients, ChangePasswordWrites(c) \/ ResetPasswordWrites(c) PROVE AcInd'
  <1>1. CASE ChangePasswordWrites(c)
    <2>1. acReq[c].at = "password" /\ acReq[c].u \in UserIds /\ acReq[c].pw \in Passwords
      BY <1>1, ReqValue DEF ChangePasswordWrites, AcInd
    <2> DEFINE to == IF IsUser(acReq[c].u) /\ acReq[c].via \in Tokens THEN [at |-> "revoke", via |-> acReq[c].via] ELSE NoReq
    <2>2. /\ UpdatePassword(acReq[c].u, acReq[c].pw) /\ acReq' = [acReq EXCEPT ![c] = to]
          /\ UNCHANGED <<tokenVars, acNow, acOut, acAdmin, acRaced>>
      BY <1>1 DEF ChangePasswordWrites, AcGoto
    <2>3. to \in Reqs /\ (to = NoReq \/ (to.at = "revoke" /\ to.via = acReq[c].via))
      BY AcFacts DEF Reqs
    <2>4. \A t \in Tokens : acReq[c].via = t => acToken[t] # NoToken
      BY <2>1 DEF AcInd, Issued, Carries
    <2> HIDE DEF to
    <2>5. to.at # "update" /\ \A t \in Tokens : to.at \in {"in", "password", "revoke"} /\ to.via = t => acToken[t] # NoToken
      BY <2>3, <2>4, AcFacts
    <2> QED
      BY <2>1, <2>2, <2>3, <2>5, PasswordWrites
  <1>2. CASE ResetPasswordWrites(c)
    <2>1. acReq[c].at = "reset" /\ acReq[c].target \in UserIds /\ acReq[c].pw \in Passwords
      BY <1>2, ReqValue DEF ResetPasswordWrites, AcInd
    <2>2. /\ UpdatePassword(acReq[c].target, acReq[c].pw) /\ acReq' = [acReq EXCEPT ![c] = NoReq]
          /\ UNCHANGED <<tokenVars, acNow, acOut, acAdmin, acRaced>>
      BY <1>2 DEF ResetPasswordWrites, AcAnswer, AcGoto
    <2> QED
      BY <2>1, <2>2, AcFacts, PasswordWrites
  <1> QED
    BY <1>1, <1>2

(* A user without API keys is deleted. *)
LEMMA DeleteUserKeeps == ASSUME AcInd, NEW c \in Clients, NEW u \in UserIds, DeleteUser(c, u) PROVE AcInd'
  <1> USE DEF AcInd
  <1>1. /\ RemoveUser(u) /\ acReq' = [acReq EXCEPT ![c] = NoReq]
        /\ acAdmin' = IF acUser[u].role = "admin" THEN [acAdmin EXCEPT ![u] = acNow] ELSE acAdmin
        /\ acToken' = acToken /\ acBlocked' = acBlocked /\ acRevoked' = acRevoked /\ acKey' = acKey
        /\ acNow' = acNow /\ acOut' = acOut /\ acRaced' = acRaced /\ acUser[u] # NoUser
    BY AcFacts DEF DeleteUser, GetUserByID, IsUser, AcAnswer, AcGoto, tokenVars
  <1>2. /\ acUser' \in [UserIds -> {NoUser, GoneUser} \cup UserRows]
        /\ \A v \in UserIds : v # u => acUser'[v] = acUser[v]
        /\ \/ acUser'[u] = acUser[u]
           \/ acUser'[u] = GoneUser /\ \A k \in ApiKeys : acKey[k] # NoKey => acKey[k].u # u
    BY <1>1 DEF RemoveUser, AcTypes
  <1>3. \A v \in UserIds : IsUser(v)' => IsUser(v) /\ acUser'[v] = acUser[v]
    BY <1>2, AcFacts DEF IsUser
  <1>4. OneEmail' /\ KeyHasUser'
    <2>1. OneEmail'
      BY <1>3 DEF OneEmail
    <2>2. ASSUME NEW k \in ApiKeys, acKey[k] # NoKey PROVE acUser'[acKey[k].u].is = "row"
      BY <1>2, <2>2, KeyValue DEF KeyHasUser, IsUser
    <2> QED
      BY <1>1, <2>1, <2>2 DEF KeyHasUser, IsUser
  <1>5. TokenLists'
    BY <1>1 DEF TokenLists
  <1>6. /\ acAdmin' \in [UserIds -> Nat]
        /\ \A v \in UserIds : acAdmin[v] <= acAdmin'[v] /\ acAdmin'[v] <= acNow
        /\ \A v \in UserIds : acAdmin'[v] = acAdmin[v] \/ acAdmin'[v] = acNow
    BY <1>1 DEF AcTypes, AdminNow
  <1>7. AdminNow'
    <2>1. ASSUME NEW v \in UserIds, IsUser(v)', acUser'[v].role = "admin" PROVE acAdmin'[v] = acNow
      BY <1>3, <1>6, <2>1 DEF AdminNow
    <2> QED
      BY <1>1, <1>6, <2>1, AdminRises
  <1>8. ASSUME NEW d \in Clients, acReq[d].at = "update" PROVE KeepsUser(acReq[d].target)
    <2>1. UpdateOK(d) /\ acReq[d].target \in UserIds
      BY <1>8, ReqValue DEF Updates
    <2>2. acUser'[acReq[d].target] # NoUser
      BY <1>2, <2>1, AcFacts DEF UpdateOK
    <2> QED
      BY <1>3, <2>1, <2>2 DEF KeepsUser, IsUser
  <1>9. /\ acReq' \in [Clients -> Reqs] /\ Updates'
        /\ \A d \in Clients, t \in Tokens : Carries(d, t)' => acToken'[t] # NoToken
    BY <1>1, <1>8, AcFacts, ReqMoves
  <1>10. AcTypes' /\ Issued'
    BY <1>1, <1>2, <1>6, <1>9 DEF AcTypes, Issued
  <1> QED
    BY <1>4, <1>5, <1>7, <1>9, <1>10

-----------------------------------------------------------------------------
(* Keys and tokens. *)

LEMMA KeyKeeps ==
    ASSUME AcInd, NEW c \in Clients, NEW k \in ApiKeys, CreateAPIKey(c, k) \/ DeleteAPIKey(c, k) PROVE AcInd'
  <1> USE DEF AcInd
  <1>1. /\ acReq[c].at = "in" /\ acReq' = [acReq EXCEPT ![c] = NoReq]
        /\ acUser' = acUser /\ acToken' = acToken /\ acBlocked' = acBlocked /\ acRevoked' = acRevoked
        /\ acNow' = acNow /\ acOut' = acOut /\ acAdmin' = acAdmin /\ acRaced' = acRaced
    BY DEF CreateAPIKey, DeleteAPIKey, AcAnswer, AcGoto
  <1>2. \/ acKey' = acKey \/ acKey' = [acKey EXCEPT ![k] = NoKey]
        \/ \E e \in Nat : acKey' = [acKey EXCEPT ![k] = [is |-> "key", u |-> acReq[c].u, exp |-> e]] /\ IsUser(acReq[c].u)
    <2>1. CASE CreateAPIKey(c, k)
      <3>1. PICK e \in 0 .. MaxAcTime : InsertAPIKey(k, acReq[c].u, e)
        BY <2>1 DEF CreateAPIKey
      <3>2. e \in Nat
        BY AccountsAssumption
      <3> QED
        BY <3>1, <3>2 DEF InsertAPIKey
    <2>2. CASE DeleteAPIKey(c, k)
      BY <2>2 DEF DeleteAPIKey, RemoveAPIKey
    <2> QED
      BY <2>1, <2>2
  <1>3. acReq[c].u \in UserIds
    BY <1>1, ReqValue
  <1>4. acKey' \in [ApiKeys -> {NoKey} \cup KeyRows] /\ KeyHasUser'
    <2>1. CASE acKey' = acKey
      BY <1>1, <2>1 DEF AcTypes, KeyHasUser, IsUser
    <2>2. CASE acKey' = [acKey EXCEPT ![k] = NoKey]
      BY <1>1, <2>2 DEF AcTypes, KeyHasUser, IsUser
    <2>3. ASSUME NEW e \in Nat, acKey' = [acKey EXCEPT ![k] = [is |-> "key", u |-> acReq[c].u, exp |-> e]], IsUser(acReq[c].u)
          PROVE  acKey' \in [ApiKeys -> {NoKey} \cup KeyRows] /\ KeyHasUser'
      <3> DEFINE r == [is |-> "key", u |-> acReq[c].u, exp |-> e]
      <3>1. r \in KeyRows /\ r.u = acReq[c].u
        BY <1>3 DEF KeyRows
      <3> HIDE DEF r
      <3>2. acKey' \in [ApiKeys -> {NoKey} \cup KeyRows] /\ acKey'[k] = r /\ \A j \in ApiKeys : j # k => acKey'[j] = acKey[j]
        BY <2>3, <3>1 DEF AcTypes, r
      <3> QED
        BY <1>1, <2>3, <3>1, <3>2 DEF KeyHasUser, IsUser
    <2> QED
      BY <1>2, <2>1, <2>2, <2>3
  <1>5. OneEmail' /\ TokenLists' /\ AdminNow'
    BY <1>1 DEF OneEmail, TokenLists, AdminNow, IsUser
  <1>6. \A d \in Clients : d # c /\ acReq[d].at = "update" => KeepsUser(acReq[d].target)
    BY <1>1 DEF AcInd, Updates, UpdateOK, KeepsUser, IsUser
  <1>7. /\ acReq' \in [Clients -> Reqs] /\ Updates'
        /\ \A d \in Clients, t \in Tokens : Carries(d, t)' => acToken'[t] # NoToken
    BY <1>1, <1>6, AcFacts, ReqMoves
  <1>8. AcTypes' /\ Issued'
    BY <1>1, <1>4, <1>7 DEF AcTypes, Issued
  <1> QED
    BY <1>4, <1>5, <1>7, <1>8

(* A login: the new token carries the role of this moment. *)
LEMMA LoginKeeps ==
    ASSUME AcInd, NEW t \in Tokens, NEW e \in Emails, NEW p \in Passwords, Login(t, e, p) PROVE AcInd'
  <1> USE DEF AcInd
  <1>1. PICK u \in GetUserByEmail(e) : IssueToken(t, u)
    BY DEF Login
  <1> DEFINE tok == [is |-> "token", u |-> u, role |-> acUser[u].role, exp |-> acNow + TokenTTL]
  <1>2. /\ acToken[t] = NoToken /\ acToken' = [acToken EXCEPT ![t] = tok]
        /\ UNCHANGED <<acUser, acBlocked, acRevoked, acKey, acReq, acNow, acOut, acAdmin, acRaced>>
    BY <1>1 DEF Login, IssueToken
  <1>3. u \in UserIds /\ IsUser(u) /\ acUser[u].role \in Roles /\ acNow \in Nat
    BY <1>1, UserValue DEF GetUserByEmail, AcTypes
  <1>4. tok \in TokenRecs /\ tok.u = u /\ tok.role = acUser[u].role /\ tok.exp = acNow + TokenTTL
    BY <1>3, AcFacts DEF TokenRecs
  <1> HIDE DEF tok
  <1>5. /\ acToken' \in [Tokens -> {NoToken} \cup TokenRecs] /\ acToken'[t] = tok
        /\ \A s \in Tokens : s # t => acToken'[s] = acToken[s]
    BY <1>2, <1>4 DEF AcTypes
  <1>6. AcTypes'
    BY <1>2, <1>5 DEF AcTypes
  <1>7. OneEmail' /\ KeyHasUser' /\ Updates'
    BY <1>2 DEF OneEmail, KeyHasUser, Updates, UpdateOK, IsUser
  <1>8. Issued' /\ TokenLists'
    <2>1. t \notin acBlocked \cup acRevoked \cup acOut /\ acToken'[t] # NoToken
      BY <1>2, <1>4, <1>5, AcFacts DEF Issued
    <2>2. Issued'
      BY <1>2, <1>5, <2>1 DEF Issued, Carries, AcTypes
    <2>3. TokenLists'
      BY <1>2, <1>5, <2>1 DEF TokenLists
    <2> QED
      BY <2>2, <2>3
  <1>9. AdminNow'
    <2>1. acUser[u].role = "admin" => tok.exp <= acAdmin[u] + TokenTTL
      BY <1>3, <1>4, AcFacts DEF AdminNow
    <2>2. ASSUME NEW s \in Tokens, acToken'[s] # NoToken, acToken'[s].role = "admin"
          PROVE  acToken'[s].exp <= acAdmin[acToken'[s].u] + TokenTTL
      BY <1>4, <1>5, <2>1, <2>2 DEF AdminNow
    <2> QED
      BY <1>2, <2>2 DEF AdminNow, IsUser
  <1> QED
    BY <1>6, <1>7, <1>8, <1>9

(* A logout, or the end of a password change. *)
LEMMA LogoutKeeps == ASSUME AcInd, NEW c \in Clients, Logout(c) \/ ChangePasswordRevokes(c) PROVE AcInd'
  <1> USE DEF AcInd
  <1>0. acReq[c].at \in {"in", "revoke"} /\ acReq[c].via \in Tokens
    BY ReqValue DEF Logout, ChangePasswordRevokes
  <1> PICK t \in Tokens : t = acReq[c].via
    BY <1>0
  <1>1. /\ acRevoked' = acRevoked \cup {t} /\ acBlocked' = (IF t \in acRevoked THEN acBlocked ELSE acBlocked \cup {t})
        /\ acOut' = acOut \cup {t} /\ acReq' = [acReq EXCEPT ![c] = NoReq]
        /\ acUser' = acUser /\ acToken' = acToken /\ acKey' = acKey /\ acNow' = acNow
        /\ acAdmin' = acAdmin /\ acRaced' = acRaced
    BY DEF Logout, ChangePasswordRevokes, RevokeToken, InsertRevocation, AcAnswer, AcGoto
  <1>2. acToken[t] # NoToken
    BY <1>0 DEF Issued, Carries
  <1>3. \A d \in Clients : d # c /\ acReq[d].at = "update" => KeepsUser(acReq[d].target)
    BY <1>1 DEF AcInd, Updates, UpdateOK, KeepsUser, IsUser
  <1>4. /\ acReq' \in [Clients -> Reqs] /\ Updates'
        /\ \A d \in Clients, s \in Tokens : Carries(d, s)' => acToken'[s] # NoToken
    BY <1>1, <1>3, AcFacts, ReqMoves
  <1>5. AcTypes'
    BY <1>1, <1>4 DEF AcTypes
  <1>6. OneEmail' /\ KeyHasUser' /\ AdminNow'
    BY <1>1 DEF OneEmail, KeyHasUser, AdminNow, IsUser
  <1>7. Issued'
    BY <1>1, <1>2, <1>4 DEF Issued
  <1>8. TokenLists'
    BY <1>1 DEF TokenLists
  <1> QED
    BY <1>4, <1>5, <1>6, <1>7, <1>8

(* What has not expired stays on both lists through clean-ups and restarts.*)
LEMMA ListsKeep == ASSUME AcInd, CleanMemory \/ CleanExpired \/ NewBlocklist PROVE AcInd'
  <1> USE DEF AcInd
  <1>1. /\ acUser' = acUser /\ acToken' = acToken /\ acKey' = acKey /\ acNow' = acNow /\ acOut' = acOut
        /\ acAdmin' = acAdmin /\ acRaced' = acRaced
    BY DEF CleanMemory, CleanExpired, NewBlocklist
  <1>2. \/ acReq' = acReq
        \/ acReq' = [c \in Clients |-> NoReq]
    BY DEF CleanMemory, CleanExpired, NewBlocklist
  <1>3. acReq' \in [Clients -> Reqs] /\ \A c \in Clients : acReq'[c] = acReq[c] \/ acReq'[c] = NoReq
    BY <1>2, AcFacts DEF AcTypes
  <1>4. acBlocked' \subseteq Tokens /\ acRevoked' \subseteq acRevoked /\ acBlocked' \subseteq acBlocked \cup acRevoked
    BY DEF CleanMemory, CleanExpired, NewBlocklist, LoadActiveRevocations, AcTypes
  <1>5. AcTypes'
    BY <1>1, <1>3, <1>4 DEF AcTypes
  <1>6. OneEmail' /\ KeyHasUser' /\ AdminNow'
    BY <1>1 DEF OneEmail, KeyHasUser, AdminNow, IsUser
  <1>7. Issued'
    BY <1>1, <1>3, <1>4, AcFacts DEF Issued, Carries
  <1>8. Updates'
    <2>1. ASSUME NEW d \in Clients, acReq'[d].at = "update" PROVE UpdateOK(d)'
      <3>1. acReq' = acReq
        BY <1>2, <2>1, AcFacts
      <3> QED
        BY <1>1, <2>1, <3>1 DEF Updates, UpdateOK, IsUser
    <2> QED
      BY <2>1 DEF Updates
  <1>9. TokenLists'
    <2> SUFFICES ASSUME NEW t \in Tokens, acToken[t] # NoToken, acNow < acToken[t].exp
                 PROVE  (t \in acOut => t \in acRevoked') /\ (t \in acRevoked' => t \in acBlocked')
      BY <1>1 DEF TokenLists
    <2>1. (t \in acOut => t \in acRevoked) /\ (t \in acRevoked => t \in acBlocked)
      BY DEF TokenLists
    <2>2. acToken[t].exp \in Nat /\ acNow \in Nat
      BY TokenValue DEF AcTypes
    <2>3. CASE CleanMemory
      BY <2>1, <2>2, <2>3 DEF CleanMemory
    <2>4. CASE CleanExpired
      BY <2>1, <2>2, <2>4 DEF CleanExpired
    <2>5. CASE NewBlocklist
      BY <2>1, <2>2, <2>5 DEF NewBlocklist, LoadActiveRevocations
    <2> QED
      BY <2>3, <2>4, <2>5
  <1> QED
    BY <1>5, <1>6, <1>7, <1>8, <1>9

LEMMA AcTickKeeps == ASSUME AcInd, AcTick PROVE AcInd'
  <1> USE DEF AcInd
  <1>1. /\ acNow' = acNow + 1 /\ acNow \in Nat
        /\ acAdmin' = [u \in UserIds |-> IF IsUser(u) /\ acUser[u].role = "admin" THEN acNow' ELSE acAdmin[u]]
        /\ acUser' = acUser /\ acToken' = acToken /\ acBlocked' = acBlocked /\ acRevoked' = acRevoked /\ acKey' = acKey
        /\ acReq' = acReq /\ acOut' = acOut /\ acRaced' = acRaced
    BY DEF AcTick, tokenVars, AcTypes
  <1>2. /\ acAdmin' \in [UserIds -> Nat] /\ \A u \in UserIds : acAdmin[u] <= acAdmin'[u] /\ acAdmin'[u] <= acNow'
        /\ \A u \in UserIds : IsUser(u) /\ acUser[u].role = "admin" => acAdmin'[u] = acNow'
    BY <1>1 DEF AcTypes, AdminNow
  <1>3. AcTypes'
    BY <1>1, <1>2 DEF AcTypes
  <1>4. OneEmail' /\ KeyHasUser' /\ Issued' /\ Updates'
    BY <1>1 DEF OneEmail, KeyHasUser, Issued, Carries, Updates, UpdateOK, IsUser
  <1>5. TokenLists'
    <2> SUFFICES ASSUME NEW t \in Tokens, acToken[t] # NoToken, acNow' < acToken[t].exp
                 PROVE  (t \in acOut => t \in acRevoked) /\ (t \in acRevoked => t \in acBlocked)
      BY <1>1 DEF TokenLists
    <2>1. acNow < acToken[t].exp
      BY <1>1, TokenValue
    <2> QED
      BY <2>1 DEF TokenLists
  <1>6. AdminNow'
    <2>1. ASSUME NEW t \in Tokens, acToken[t] # NoToken, acToken[t].role = "admin"
          PROVE  acToken[t].exp <= acAdmin'[acToken[t].u] + TokenTTL
      <3>1. acToken[t].u \in UserIds /\ acToken[t].exp \in Nat /\ acToken[t].exp <= acAdmin[acToken[t].u] + TokenTTL
        BY <2>1, TokenValue DEF AdminNow
      <3>2. acAdmin[acToken[t].u] \in Nat /\ acAdmin'[acToken[t].u] \in Nat /\ acAdmin[acToken[t].u] <= acAdmin'[acToken[t].u]
        BY <1>2, <3>1 DEF AcTypes
      <3> QED
        BY <3>1, <3>2, AcFacts
    <2> QED
      BY <1>1, <1>2, <2>1 DEF AdminNow, IsUser
  <1> QED
    BY <1>3, <1>4, <1>5, <1>6

LEMMA AcIndNext == AcInd /\ [AccountsNext]_acVars => AcInd'
  <1> SUFFICES ASSUME AcInd, [AccountsNext]_acVars PROVE AcInd'
    OBVIOUS
  <1>1. CASE UNCHANGED acVars
    BY <1>1 DEF acVars, AcInd, AcTypes, OneEmail, KeyHasUser, Issued, Carries, TokenLists, AdminNow, Updates, UpdateOK, IsUser
  <1>2. ASSUME NEW t \in Tokens, NEW e \in Emails, NEW p \in Passwords, Login(t, e, p) PROVE AcInd'
    BY <1>2, LoginKeeps
  <1>3. ASSUME NEW u \in UserIds, NEW e \in Emails, NEW p \in Passwords, Register(u, e, p) PROVE AcInd'
    BY <1>3, RegisterKeeps
  <1>4. ASSUME NEW c \in Clients, NEW u \in UserIds, NEW e \in Emails, NEW p \in Passwords, NEW r \in Roles,
               CreateUser(c, u, e, r, p)
        PROVE  AcInd'
    BY <1>4, CreateUserKeeps
  <1>5. ASSUME NEW c \in Clients, NEW u \in UserIds, UpdateUser(c, u) \/ DeleteUser(c, u) PROVE AcInd'
    BY <1>5, UpdateUserKeeps, DeleteUserKeeps
  <1>6. ASSUME NEW c \in Clients, \E t \in Tokens : JWTAuthMiddleware(c, t) PROVE AcInd'
    BY <1>6, AdmitKeeps
  <1>7. ASSUME NEW c \in Clients, NEW k \in ApiKeys, validateAPIKeyToken(c, k) \/ CreateAPIKey(c, k) \/ DeleteAPIKey(c, k)
        PROVE  AcInd'
    BY <1>7, AdmitKeeps, KeyKeeps
  <1>8. ASSUME NEW c \in Clients, \/ \E u \in UserIds, p \in Passwords : ResetPassword(c, u, p)
                                  \/ \E old, new \in Passwords : ChangePassword(c, old, new)
                                  \/ OtherRequest(c)
        PROVE  AcInd'
    BY <1>8, FirstStepKeeps
  <1>9. ASSUME NEW c \in Clients, \/ UpdateUserWrites(c) \/ ResetPasswordWrites(c) \/ ChangePasswordWrites(c)
                                  \/ ChangePasswordRevokes(c) \/ Logout(c)
        PROVE  AcInd'
    BY <1>9, UpdateUserWritesKeeps, PasswordKeeps, LogoutKeeps
  <1>10. CASE CleanMemory \/ CleanExpired \/ NewBlocklist \/ AcTick
    BY <1>10, ListsKeep, AcTickKeeps
  <1> QED
    BY <1>1, <1>2, <1>3, <1>4, <1>5, <1>6, <1>7, <1>8, <1>9, <1>10 DEF AccountsNext

-----------------------------------------------------------------------------
(* What a step may do. *)

(* Only the middleware admits a request. *)
LEMMA Admitted ==
    ASSUME AcInd, AccountsNext, NEW c \in Clients, acReq[c] = NoReq, acReq'[c].at = "in"
    PROVE  (\E t \in Tokens : JWTAuthMiddleware(c, t)) \/ (\E k \in ApiKeys : validateAPIKeyToken(c, k))
  <1>1. acReq[c].at = "none" /\ DOMAIN acReq = Clients /\ acReq' # acReq
    BY AcFacts DEF AcInd, AcTypes
  <1>2. ASSUME NEW d \in Clients, NEW to, acReq' = [acReq EXCEPT ![d] = to] PROVE d = c
    BY <1>1, <1>2
  <1>3. ~(\E t \in Tokens, e \in Emails, p \in Passwords : Login(t, e, p))
    BY <1>1 DEF Login
  <1>4. ~(\E u \in UserIds, e \in Emails, p \in Passwords : Register(u, e, p))
    BY <1>1 DEF Register
  <1>5. ~(CleanMemory \/ CleanExpired \/ NewBlocklist \/ AcTick)
    BY <1>1, AcFacts DEF CleanMemory, CleanExpired, NewBlocklist, AcTick
  <1>6. ASSUME NEW d \in Clients, NEW k \in ApiKeys, CreateAPIKey(d, k) \/ DeleteAPIKey(d, k) PROVE FALSE
    BY <1>1, <1>2, <1>6 DEF CreateAPIKey, DeleteAPIKey, AcAnswer, AcGoto
  <1>7. ASSUME NEW d \in Clients, NEW u \in UserIds, NEW e \in Emails, NEW p \in Passwords, NEW r \in Roles,
               CreateUser(d, u, e, r, p)
        PROVE  FALSE
    BY <1>1, <1>2, <1>7 DEF CreateUser, requireAdmin, AcAnswer, AcGoto
  <1>8. ASSUME NEW d \in Clients, NEW u \in UserIds, UpdateUser(d, u) \/ DeleteUser(d, u) PROVE FALSE
    BY <1>1, <1>2, <1>8 DEF UpdateUser, DeleteUser, requireAdmin, AcAnswer, AcGoto
  <1>9. ASSUME NEW d \in Clients, NEW u \in UserIds, NEW p \in Passwords, ResetPassword(d, u, p) PROVE FALSE
    BY <1>1, <1>2, <1>9 DEF ResetPassword, requireAdmin, AcGoto
  <1>10. ASSUME NEW d \in Clients, NEW old \in Passwords, NEW new \in Passwords, ChangePassword(d, old, new) PROVE FALSE
    BY <1>1, <1>2, <1>10 DEF ChangePassword, AcGoto
  <1>11. ASSUME NEW d \in Clients, \/ UpdateUserWrites(d) \/ ResetPasswordWrites(d) \/ ChangePasswordWrites(d)
                                   \/ ChangePasswordRevokes(d) \/ Logout(d) \/ OtherRequest(d)
         PROVE  FALSE
    BY <1>1, <1>2, <1>11 DEF UpdateUserWrites, ResetPasswordWrites, ChangePasswordWrites, ChangePasswordRevokes,
                             Logout, OtherRequest, AcAnswer, AcGoto
  <1>12. ASSUME NEW d \in Clients, NEW t \in Tokens, JWTAuthMiddleware(d, t) PROVE d = c
    BY <1>2, <1>12 DEF JWTAuthMiddleware, AcGoto
  <1>13. ASSUME NEW d \in Clients, NEW k \in ApiKeys, validateAPIKeyToken(d, k) PROVE d = c
    BY <1>2, <1>13 DEF validateAPIKeyToken, AcGoto
  <1> QED
    BY <1>3, <1>4, <1>5, <1>6, <1>7, <1>8, <1>9, <1>10, <1>11, <1>12, <1>13 DEF AccountsNext

LEMMA AdmissionsAreRight == AcInd /\ AccountsNext => LoggedOutStaysOut /\ RightsRunOut
  <1> SUFFICES ASSUME AcInd, AccountsNext, NEW c \in Clients, acReq[c] = NoReq, acReq'[c].at = "in"
               PROVE  /\ acReq'[c].via \notin acOut
                      /\ acReq'[c].role = "admin" => acNow < acAdmin[acReq'[c].u] + TokenTTL
    BY DEF LoggedOutStaysOut, RightsRunOut
  <1>0. c \in DOMAIN acReq /\ acNow \in Nat
    BY DEF AcInd, AcTypes
  <1>1. ASSUME NEW t \in Tokens, JWTAuthMiddleware(c, t)
        PROVE  /\ acReq'[c].via \notin acOut
               /\ acReq'[c].role = "admin" => acNow < acAdmin[acReq'[c].u] + TokenTTL
    <2>1. /\ acToken[t] # NoToken /\ acNow < acToken[t].exp /\ t \notin acBlocked
          /\ acReq'[c].via = t /\ acReq'[c].role = acToken[t].role /\ acReq'[c].u = acToken[t].u
      BY <1>0, <1>1 DEF JWTAuthMiddleware, AcGoto, ValidateToken, IsRevoked
    <2>2. t \notin acOut
      BY <2>1 DEF AcInd, TokenLists
    <2>3. acToken[t].exp \in Nat /\ acToken[t].u \in UserIds
      BY <2>1, TokenValue DEF AcInd
    <2>4. acAdmin[acToken[t].u] \in Nat
      BY <2>3 DEF AcInd, AcTypes
    <2>5. acToken[t].role = "admin" => acToken[t].exp <= acAdmin[acToken[t].u] + TokenTTL
      BY <2>1 DEF AcInd, AdminNow
    <2> QED
      BY <1>0, <2>1, <2>2, <2>3, <2>4, <2>5, AcFacts
  <1>2. ASSUME NEW k \in ApiKeys, validateAPIKeyToken(c, k)
        PROVE  /\ acReq'[c].via \notin acOut
               /\ acReq'[c].role = "admin" => acNow < acAdmin[acReq'[c].u] + TokenTTL
    <2>1. /\ acKey[k] # NoKey /\ IsUser(acKey[k].u)
          /\ acReq'[c].via = k /\ acReq'[c].role = acUser[acKey[k].u].role /\ acReq'[c].u = acKey[k].u
      BY <1>0, <1>2 DEF validateAPIKeyToken, AcGoto, ValidateAPIKey, GetUserByID
    <2>2. k \notin acOut
      BY AccountsAssumption DEF AcInd, AcTypes
    <2>3. acKey[k].u \in UserIds
      BY <2>1, KeyValue DEF AcInd
    <2>4. acUser[acKey[k].u].role = "admin" => acAdmin[acKey[k].u] = acNow
      BY <2>1, <2>3 DEF AcInd, AdminNow
    <2> QED
      BY <1>0, <2>1, <2>2, <2>4, AcFacts
  <1> QED
    BY <1>1, <1>2, Admitted

(* Only the second step of an update writes a role. *)
LEMMA RoleWritten ==
    ASSUME AcInd, AccountsNext, NEW u \in UserIds, IsUser(u), IsUser(u)', acUser[u].role # acUser'[u].role
    PROVE  \E c \in Clients : UpdateUserWrites(c) /\ acReq[c].target = u
  <1>0. DOMAIN acUser = UserIds /\ acUser' # acUser /\ acUser[u] # NoUser /\ acUser[u] \in UserRows
    BY UserValue DEF AcInd, AcTypes
  <1>1. ASSUME NEW v \in UserIds, NEW r, acUser' = [acUser EXCEPT ![v] = r] PROVE v = u
    BY <1>0, <1>1
  <1>2. ASSUME NEW v, NEW e, NEW role, NEW p, v \in UserIds, InsertUser(v, e, role, p) PROVE FALSE
    BY <1>0, <1>1, <1>2 DEF InsertUser
  <1>3. ASSUME NEW v \in UserIds, RemoveUser(v) PROVE FALSE
    <2>1. acUser' = [acUser EXCEPT ![v] = GoneUser]
      BY <1>0, <1>3 DEF RemoveUser
    <2>2. v = u
      BY <1>1, <2>1
    <2>3. acUser'[u] = GoneUser
      BY <1>0, <2>1, <2>2
    <2> QED
      BY <2>3, AcFacts DEF IsUser
  <1>4. ASSUME NEW v \in UserIds, NEW p, UpdatePassword(v, p) PROVE FALSE
    <2>1. acUser' = [acUser EXCEPT ![v] = [acUser[v] EXCEPT !.pw = HashPassword(p)]]
      BY <1>0, <1>4 DEF UpdatePassword
    <2>2. v = u
      BY <1>1, <2>1
    <2>3. acUser'[u] = [acUser[u] EXCEPT !.pw = HashPassword(p)]
      BY <1>0, <2>1, <2>2
    <2>4. acUser'[u].role = acUser[u].role
      BY <1>0, <2>3 DEF UserRows
    <2> QED
      BY <2>4
  <1>5. ~(\E t \in Tokens, e \in Emails, p \in Passwords : Login(t, e, p))
    BY <1>0 DEF Login
  <1>6. ~(\E v \in UserIds, e \in Emails, p \in Passwords : Register(v, e, p))
    BY <1>2 DEF Register
  <1>7. ~(CleanMemory \/ CleanExpired \/ NewBlocklist \/ AcTick)
    BY <1>0 DEF CleanMemory, CleanExpired, NewBlocklist, AcTick
  <1>8. ASSUME NEW d \in Clients, NEW k \in ApiKeys, validateAPIKeyToken(d, k) \/ CreateAPIKey(d, k) \/ DeleteAPIKey(d, k)
        PROVE  FALSE
    BY <1>0, <1>8 DEF validateAPIKeyToken, CreateAPIKey, DeleteAPIKey
  <1>9. ASSUME NEW d \in Clients, NEW v \in UserIds, NEW e \in Emails, NEW p \in Passwords, NEW r \in Roles,
               CreateUser(d, v, e, r, p)
        PROVE  FALSE
    BY <1>2, <1>9 DEF CreateUser
  <1>10. ASSUME NEW d \in Clients, NEW v \in UserIds, UpdateUser(d, v) \/ DeleteUser(d, v) PROVE FALSE
    BY <1>0, <1>3, <1>10 DEF UpdateUser, DeleteUser
  <1>11. ASSUME NEW d \in Clients, \/ \E v \in UserIds, p \in Passwords : ResetPassword(d, v, p)
                                   \/ \E old, new \in Passwords : ChangePassword(d, old, new)
                                   \/ \E t \in Tokens : JWTAuthMiddleware(d, t)
                                   \/ ChangePasswordRevokes(d) \/ Logout(d) \/ OtherRequest(d)
         PROVE  FALSE
    BY <1>0, <1>11 DEF ResetPassword, ChangePassword, JWTAuthMiddleware, ChangePasswordRevokes, Logout, OtherRequest
  <1>12. ASSUME NEW d \in Clients, ResetPasswordWrites(d) \/ ChangePasswordWrites(d) PROVE FALSE
    <2>1. \/ acReq[d].target \in UserIds /\ UpdatePassword(acReq[d].target, acReq[d].pw)
          \/ acReq[d].u \in UserIds /\ UpdatePassword(acReq[d].u, acReq[d].pw)
      BY <1>12, ReqValue DEF AcInd, ResetPasswordWrites, ChangePasswordWrites
    <2> QED
      BY <1>4, <2>1
  <1>13. ASSUME NEW d \in Clients, UpdateUserWrites(d) PROVE acReq[d].target = u
    <2>1. acReq[d].target \in UserIds /\ WriteRole(acReq[d].target, acReq[d].role)
      BY <1>13, ReqValue DEF AcInd, UpdateUserWrites
    <2>2. acUser' = [acUser EXCEPT ![acReq[d].target] = [acUser[acReq[d].target] EXCEPT !.role = acReq[d].role]]
      BY <1>0, <2>1 DEF WriteRole
    <2> QED
      BY <1>1, <2>1, <2>2
  <1> QED
    BY <1>5, <1>6, <1>7, <1>8, <1>9, <1>10, <1>11, <1>12, <1>13 DEF AccountsNext

LEMMA RolesByRequest == AcInd /\ AccountsNext => RoleOnlyByRequest
  <1> SUFFICES ASSUME AcInd, AccountsNext, NEW u \in UserIds, u \notin acRaced,
                      IsUser(u), IsUser(u)', acUser[u].role # acUser'[u].role
               PROVE  \E c \in Updating(u) : acReq'[c] = NoReq /\ acReq[c].named = acUser'[u].role
    BY DEF RoleOnlyByRequest
  <1>1. PICK c \in Clients : UpdateUserWrites(c) /\ acReq[c].target = u
    BY RoleWritten
  <1>2. acReq[c].at = "update" /\ UpdateOK(c) /\ c \in Updating(u)
    BY <1>1 DEF UpdateUserWrites, AcInd, Updates, Updating
  <1>3. DOMAIN acReq = Clients /\ DOMAIN acUser = UserIds /\ acUser[u] \in UserRows
    BY UserValue DEF AcInd, AcTypes
  <1>4. acReq'[c] = NoReq
    BY <1>1, <1>3 DEF UpdateUserWrites, AcAnswer, AcGoto
  <1>5. acUser' = [acUser EXCEPT ![u] = [acUser[u] EXCEPT !.role = acReq[c].role]]
    BY <1>1 DEF UpdateUserWrites, WriteRole
  <1>6. acUser'[u].role = acReq[c].role
    BY <1>3, <1>5 DEF UserRows
  <1>7. acReq[c].named # ""
    BY <1>1, <1>2, <1>6 DEF UpdateOK
  <1> QED
    BY <1>2, <1>4, <1>6, <1>7 DEF UpdateOK

(* Rights end when they should, for any number of users, tokens, keys and  *)
(* requests: what was logged out is not admitted again over restarts and   *)
(* clean-ups, the rights of an admin end with his last token, and roles    *)
(* change only by a request that names the new one.                        *)
THEOREM RightsAreSound == AccountsSpec => AccountsSafe
  <1>1. AccountsInit => AcInd
    BY AcIndInit
  <1>2. AcInd /\ [AccountsNext]_acVars => AcInd'
    BY AcIndNext
  <1>3. AcInd => AccountsTypeOK
    BY DEF AcInd, AcTypes, OneEmail, KeyHasUser, AccountsTypeOK, UserRows
  <1>4. AcInd /\ [AccountsNext]_acVars => [LoggedOutStaysOut /\ RightsRunOut /\ RoleOnlyByRequest]_acVars
    BY AdmissionsAreRight, RolesByRequest
  <1> QED
    BY <1>1, <1>2, <1>3, <1>4, PTL DEF AccountsSpec, AccountsSafe

-----------------------------------------------------------------------------
(* Provisioning.                                                           *)

ProvisioningSpec == ProvisioningInit /\ [][ProvisioningNext]_provVars

(* What tokens, files and requests can be. *)
TokRows == [is : {"token"}, m : MachineIds, code : ShortCodes, exp : 0 .. MaxPvTime + ProvTTL, redeemed : BOOLEAN]
Files   == [is : {"file"}, t : ProvTokens, m : MachineIds]
AllFiles == CertFiles \cup {"toml"}
Calls == {NoCall} \cup [at : {"machine", "delete"}, m : MachineIds]
                  \cup [at : {"insert"}, m : MachineIds, try : Nat]
                  \cup [at : {"redeem"}, t : ProvTokens, file : Files, script : BOOLEAN]
                  \cup [at : {"answer"}, t : ProvTokens, file : Files, todo : SUBSET CertFiles]
                  \cup [at : {"joined"}, file : Files]

PvTypes ==
    /\ pvTok \in [ProvTokens -> {NoTok} \cup TokRows]
    /\ pvRow \in [MachineIds -> {"none", "row", "deleted"}] /\ pvConn \subseteq MachineIds
    /\ pvReq \in [Callers -> Calls]
    /\ pvDir \in [Callers -> [AllFiles -> {NoFile} \cup Files]]
    /\ pvNow \in 0 .. MaxPvTime /\ DOMAIN pvGiven = ProvTokens

OneCode == \A t, u \in ProvTokens : pvTok[t] # NoTok /\ pvTok[u] # NoTok /\ pvTok[t].code = pvTok[u].code => t = u

(* A key that was given out is given to one caller, and its token is used  *)
(* up or gone for good.                                                    *)
Given == \A t \in ProvTokens : pvGiven[t] # {} => (\A x, y \in pvGiven[t] : x = y) /\ ~Open(t)

(* What a join has written so far, and what it has written at its end.     *)
Written == \A r \in Callers :
    /\ pvReq[r].at = "answer" => \A f \in CertFiles \ pvReq[r].todo : pvDir[r][f] = pvReq[r].file
    /\ pvReq[r].at = "joined" => \A f \in AllFiles : pvDir[r][f] = pvReq[r].file

(* Nobody deletes a machine that is connected, unless it raced. *)
Deletes(r, m) == pvReq[r].at = "delete" /\ pvReq[r].m = m
Connected == \A m \in pvConn \ pvRaced : pvRow[m] = "row" /\ \A r \in Callers : ~Deletes(r, m)

PvInd == PvTypes /\ OneCode /\ OneOpenToken /\ Given /\ Written /\ Connected

LEMMA PvFacts ==
    /\ NoCall \in Calls /\ NoCall.at = "none"
    /\ \A k \in TokRows : k # NoTok /\ k.m \in MachineIds /\ k.code \in ShortCodes /\ k.redeemed \in BOOLEAN
    /\ "toml" \notin CertFiles /\ CertFiles \subseteq AllFiles /\ "toml" \in AllFiles
    /\ {ProvTTL, MaxPvTime} \subseteq Nat /\ MaxInserts \in Nat
  BY ProvisioningAssumption DEF Calls, NoCall, TokRows, NoTok, CertFiles, AllFiles

LEMMA TokValue ==
    ASSUME PvTypes, NEW t \in ProvTokens, pvTok[t] # NoTok
    PROVE  pvTok[t] \in TokRows /\ pvTok[t].m \in MachineIds /\ pvTok[t].code \in ShortCodes
  <1>1. pvTok[t] \in {NoTok} \cup TokRows
    BY DEF PvTypes
  <1> QED
    BY <1>1, PvFacts

LEMMA CallValue ==
    ASSUME PvTypes, NEW r \in Callers
    PROVE  /\ pvReq[r].at \in {"machine", "delete"} => pvReq[r].m \in MachineIds
           /\ pvReq[r].at = "insert" => /\ pvReq[r].m \in MachineIds /\ pvReq[r].try \in Nat
                                        /\ pvReq[r] \in [at : {"insert"}, m : MachineIds, try : Nat]
           /\ pvReq[r].at = "redeem" => pvReq[r].t \in ProvTokens /\ pvReq[r].file \in Files
           /\ pvReq[r].at = "answer" =>
                 /\ pvReq[r].t \in ProvTokens /\ pvReq[r].file \in Files /\ pvReq[r].todo \subseteq CertFiles
                 /\ pvReq[r] \in [at : {"answer"}, t : ProvTokens, file : Files, todo : SUBSET CertFiles]
           /\ pvReq[r].at = "joined" => pvReq[r].file \in Files /\ pvReq[r].file.m \in MachineIds
  <1>1. pvReq[r] \in Calls
    BY DEF PvTypes
  <1>2. CASE pvReq[r] = NoCall
    BY <1>2, PvFacts
  <1>3. CASE pvReq[r] \in [at : {"machine", "delete"}, m : MachineIds]
    BY <1>3
  <1>4. CASE pvReq[r] \in [at : {"insert"}, m : MachineIds, try : Nat]
    BY <1>4
  <1>5. CASE pvReq[r] \in [at : {"redeem"}, t : ProvTokens, file : Files, script : BOOLEAN]
    BY <1>5
  <1>6. CASE pvReq[r] \in [at : {"answer"}, t : ProvTokens, file : Files, todo : SUBSET CertFiles]
    BY <1>6
  <1>7. CASE pvReq[r] \in [at : {"joined"}, file : Files]
    BY <1>7 DEF Files
  <1> QED
    BY <1>1, <1>2, <1>3, <1>4, <1>5, <1>6, <1>7 DEF Calls

LEMMA PvIndInit == ProvisioningInit => PvInd
  <1> SUFFICES ASSUME ProvisioningInit PROVE PvInd
    OBVIOUS
  <1>1. PvTypes
    BY PvFacts DEF ProvisioningInit, PvTypes, AllFiles
  <1>2. OneCode /\ OneOpenToken /\ Given
    BY DEF ProvisioningInit, OneCode, OneOpenToken, Given, Open
  <1>3. Written /\ Connected
    BY PvFacts DEF ProvisioningInit, Written, Connected
  <1> QED
    BY <1>1, <1>2, <1>3 DEF PvInd

-----------------------------------------------------------------------------
(* What the actions have in common. *)

(* A caller's request moves to a step that promises nothing about files,   *)
(* and does not begin to delete a connected machine.                       *)
LEMMA CallMoves ==
    ASSUME PvInd, NEW r \in Callers, NEW to \in Calls, pvReq' = [pvReq EXCEPT ![r] = to],
           to.at \notin {"answer", "joined"}, to.at = "delete" => to.m \notin pvConn,
           pvDir' = pvDir, pvRow' = pvRow, pvConn' = pvConn, pvRaced' = pvRaced
    PROVE  pvReq' \in [Callers -> Calls] /\ Written' /\ Connected'
  <1> USE DEF PvInd
  <1>1. pvReq' \in [Callers -> Calls] /\ pvReq'[r] = to /\ \A b \in Callers : b # r => pvReq'[b] = pvReq[b]
    BY DEF PvTypes
  <1>2. Written'
    BY <1>1 DEF Written
  <1>3. Connected'
    BY <1>1 DEF Connected, Deletes
  <1> QED
    BY <1>1, <1>2, <1>3

LEMMA CallOnly ==
    ASSUME PvInd, NEW r \in Callers, NEW to \in Calls, pvReq' = [pvReq EXCEPT ![r] = to],
           to.at \notin {"answer", "joined"}, to.at = "delete" => to.m \notin pvConn,
           UNCHANGED <<pvTok, pvRow, pvConn, pvDir, pvNow, pvGiven, pvRaced>>
    PROVE  PvInd'
  <1> USE DEF PvInd
  <1>1. pvReq' \in [Callers -> Calls] /\ Written' /\ Connected'
    BY CallMoves
  <1>2. PvTypes'
    BY <1>1 DEF PvTypes
  <1>3. OneCode' /\ OneOpenToken' /\ Given'
    BY DEF OneCode, OneOpenToken, Given, Open
  <1> QED
    BY <1>1, <1>2, <1>3

-----------------------------------------------------------------------------
(* Requests. *)

LEMMA RequestKeeps ==
    ASSUME PvInd, NEW r \in Callers,
           \/ \E m \in MachineIds : CreateProvision(r, m) \/ DeleteMachine(r, m)
           \/ CheckMachine(r) \/ JoinFails(r)
    PROVE  PvInd'
  <1>1. ASSUME NEW m \in MachineIds, CreateProvision(r, m) PROVE PvInd'
    <2> DEFINE to == [at |-> "machine", m |-> m]
    <2>1. /\ pvReq' = pvReq \/ pvReq' = [pvReq EXCEPT ![r] = to]
          /\ UNCHANGED <<pvTok, pvRow, pvConn, pvDir, pvNow, pvGiven, pvRaced>>
      BY <1>1 DEF CreateProvision, CallGoto
    <2>2. to \in Calls /\ to.at = "machine"
      BY DEF Calls
    <2>3. CASE pvReq' = pvReq
      BY <2>1, <2>3 DEF PvInd, PvTypes, OneCode, OneOpenToken, Given, Open, Written, Connected, Deletes
    <2> HIDE DEF to
    <2> QED
      BY <2>1, <2>2, <2>3, CallOnly
  <1>2. ASSUME NEW m \in MachineIds, DeleteMachine(r, m) PROVE PvInd'
    <2> DEFINE to == [at |-> "delete", m |-> m]
    <2>1. /\ m \notin pvConn /\ pvReq' = [pvReq EXCEPT ![r] = to]
          /\ UNCHANGED <<pvTok, pvRow, pvConn, pvDir, pvNow, pvGiven, pvRaced>>
      BY <1>2 DEF DeleteMachine, CallGoto
    <2>2. to \in Calls /\ to.at = "delete" /\ to.m = m
      BY DEF Calls
    <2> HIDE DEF to
    <2> QED
      BY <2>1, <2>2, CallOnly
  <1>3. CASE CheckMachine(r)
    <2> DEFINE to == [at |-> "insert", m |-> pvReq[r].m, try |-> 1]
    <2>1. /\ pvReq[r].at = "machine"
          /\ pvReq' = [pvReq EXCEPT ![r] = NoCall] \/ pvReq' = [pvReq EXCEPT ![r] = to]
          /\ UNCHANGED <<pvTok, pvRow, pvConn, pvDir, pvNow, pvGiven, pvRaced>>
      BY <1>3 DEF CheckMachine, CallGoto, CallEnds
    <2>2. pvReq[r].m \in MachineIds
      BY <1>3, CallValue DEF PvInd, CheckMachine
    <2>3. to \in Calls /\ to.at = "insert"
      BY <2>2 DEF Calls
    <2> HIDE DEF to
    <2> QED
      BY <2>1, <2>3, PvFacts, CallOnly
  <1>4. CASE JoinFails(r)
    <2>1. /\ pvReq' = [pvReq EXCEPT ![r] = NoCall]
          /\ UNCHANGED <<pvTok, pvRow, pvConn, pvDir, pvNow, pvGiven, pvRaced>>
      BY <1>4 DEF JoinFails, CallEnds, CallGoto
    <2> QED
      BY <2>1, PvFacts, CallOnly
  <1> QED
    BY <1>1, <1>2, <1>3, <1>4

LEMMA AskKeeps ==
    ASSUME PvInd, NEW r \in Callers,
           (\E code \in ShortCodes : JoinByCode(r, code)) \/ (\E t \in ProvTokens : ServeScript(r, t))
    PROVE  PvInd'
  <1>1. PICK t \in ProvTokens, script \in BOOLEAN :
           /\ Usable(t) /\ pvReq' = [pvReq EXCEPT ![r] = [at |-> "redeem", t |-> t, file |-> FileOf(t), script |-> script]]
           /\ UNCHANGED <<pvTok, pvRow, pvConn, pvDir, pvNow, pvGiven, pvRaced>>
    BY DEF JoinByCode, ServeScript, CallGoto, GetProvisioningTokenByCode, GetProvisioningToken
  <1> DEFINE to == [at |-> "redeem", t |-> t, file |-> FileOf(t), script |-> script]
  <1>2. pvTok[t].m \in MachineIds
    BY <1>1, TokValue DEF PvInd, Usable, Open
  <1>3. to \in Calls /\ to.at = "redeem"
    BY <1>2 DEF Calls, FileOf, Files
  <1>4. pvReq' = [pvReq EXCEPT ![r] = to]
    BY <1>1
  <1> HIDE DEF to
  <1> QED
    BY <1>1, <1>3, <1>4, CallOnly

(* The two UNIQUE constraints of the table. *)
LEMMA InsertTokenKeeps ==
    ASSUME PvInd, NEW r \in Callers, NEW t \in ProvTokens, NEW code \in ShortCodes, CreateAgentProvision(r, t, code)
    PROVE  PvInd'
  <1> USE DEF PvInd
  <1>1. /\ pvReq[r].at = "insert" /\ pvTok[t] = NoTok /\ pvGiven[t] = {}
        /\ UNCHANGED <<pvRow, pvConn, pvDir, pvNow, pvGiven, pvRaced>>
    BY DEF CreateAgentProvision
  <1>2. pvReq[r] \in [at : {"insert"}, m : MachineIds, try : Nat]
    BY <1>1, CallValue
  <1> PICK m \in MachineIds : m = pvReq[r].m
    BY <1>2
  <1> DEFINE again == [pvReq[r] EXCEPT !.try = @ + 1]
             row == [is |-> "token", m |-> m, code |-> code, exp |-> pvNow + ProvTTL, redeemed |-> FALSE]
  <1>3. \/ pvTok' = pvTok /\ pvReq' = [pvReq EXCEPT ![r] = NoCall]
        \/ pvTok' = pvTok /\ pvReq' = [pvReq EXCEPT ![r] = again]
        \/ /\ ~MachineIdConflict(m) /\ ~ShortCodeConflict(code)
           /\ pvTok' = [pvTok EXCEPT ![t] = row] /\ pvReq' = [pvReq EXCEPT ![r] = NoCall]
    BY DEF CreateAgentProvision, CallEnds, CallGoto, CreateProvisioningToken
  <1>4. again \in Calls /\ again.at = "insert"
    <2>1. again \in [at : {"insert"}, m : MachineIds, try : Nat]
      BY <1>2
    <2> QED
      BY <2>1 DEF Calls
  <1>5. CASE pvTok' = pvTok
    <2>1. pvReq' = [pvReq EXCEPT ![r] = NoCall] \/ pvReq' = [pvReq EXCEPT ![r] = again]
      BY <1>3
    <2> HIDE DEF again, row
    <2> QED
      BY <1>1, <1>4, <1>5, <2>1, PvFacts, CallOnly
  <1>6. CASE /\ ~MachineIdConflict(m) /\ ~ShortCodeConflict(code)
             /\ pvTok' = [pvTok EXCEPT ![t] = row] /\ pvReq' = [pvReq EXCEPT ![r] = NoCall]
    <2>1. row \in TokRows /\ row.m = m /\ row.code = code
      <3>1. pvNow + ProvTTL \in 0 .. MaxPvTime + ProvTTL
        BY PvFacts DEF PvTypes
      <3> QED
        BY <3>1 DEF TokRows
    <2>2. \A u \in ProvTokens : (Open(u) => pvTok[u].m # m) /\ (pvTok[u] # NoTok => pvTok[u].code # code)
      BY <1>6 DEF MachineIdConflict, ShortCodeConflict
    <2> HIDE DEF again, row
    <2>3. /\ pvTok' \in [ProvTokens -> {NoTok} \cup TokRows] /\ pvTok'[t] = row
          /\ \A u \in ProvTokens : u # t => pvTok'[u] = pvTok[u]
      BY <1>6, <2>1 DEF PvTypes
    <2>4. pvReq' \in [Callers -> Calls] /\ Written' /\ Connected'
      BY <1>1, <1>6, PvFacts, CallMoves
    <2>5. PvTypes'
      BY <1>1, <2>3, <2>4 DEF PvTypes
    <2>6. OneCode'
      BY <2>1, <2>2, <2>3 DEF OneCode
    <2>7. OneOpenToken'
      <3>1. \A u \in ProvTokens : u # t => (Open(u)' <=> Open(u))
        BY <2>3 DEF Open
      <3> SUFFICES ASSUME NEW u \in ProvTokens, NEW v \in ProvTokens, Open(u)', Open(v)', pvTok'[u].m = pvTok'[v].m
                   PROVE  u = v
        BY DEF OneOpenToken
      <3> QED
        BY <2>1, <2>2, <2>3, <3>1 DEF OneOpenToken
    <2>8. Given'
      BY <1>1, <2>3 DEF Given, Open
    <2> QED
      BY <2>4, <2>5, <2>6, <2>7, <2>8
  <1> QED
    BY <1>3, <1>5, <1>6

LEMMA RevokeKeeps == ASSUME PvInd, NEW t \in ProvTokens, RevokeProvToken(t) PROVE PvInd'
  <1> USE DEF PvInd
  <1>1. /\ pvTok' = [pvTok EXCEPT ![t] = NoTok] /\ UNCHANGED <<pvRow, pvConn, pvReq, pvDir, pvNow, pvGiven, pvRaced>>
    BY DEF RevokeProvToken, RevokeProvisioningToken
  <1>2. /\ pvTok' \in [ProvTokens -> {NoTok} \cup TokRows] /\ pvTok'[t] = NoTok
        /\ \A u \in ProvTokens : u # t => pvTok'[u] = pvTok[u]
    BY <1>1 DEF PvTypes
  <1>3. \A u \in ProvTokens : pvTok'[u] # NoTok => u # t /\ pvTok'[u] = pvTok[u]
    BY <1>2
  <1>4. PvTypes' /\ OneCode'
    BY <1>1, <1>2, <1>3 DEF PvTypes, OneCode
  <1>5. OneOpenToken' /\ Given'
    BY <1>1, <1>3 DEF OneOpenToken, Given, Open
  <1>6. Written' /\ Connected'
    BY <1>1 DEF Written, Connected, Deletes
  <1> QED
    BY <1>4, <1>5, <1>6

-----------------------------------------------------------------------------
(* Joins. *)

(* The UPDATE finds the token open, so nobody was given its key before.    *)
LEMMA RedeemKeeps == ASSUME PvInd, NEW r \in Callers, RedeemProvisioningToken(r) PROVE PvInd'
  <1> USE DEF PvInd
  <1>1. pvReq[r].at = "redeem" /\ UNCHANGED <<pvRow, pvConn, pvDir, pvNow, pvRaced>>
    BY DEF RedeemProvisioningToken
  <1>2. pvReq[r].t \in ProvTokens /\ pvReq[r].file \in Files
    BY <1>1, CallValue
  <1> PICK t \in ProvTokens : t = pvReq[r].t
    BY <1>2
  <1> DEFINE to == [at |-> "answer", t |-> t, file |-> pvReq[r].file, todo |-> CertFiles]
             row == [pvTok[t] EXCEPT !.redeemed = TRUE]
             who == pvGiven[t] \cup {<<r, pvCount>>}
  <1>3. \/ UNCHANGED <<pvTok, pvGiven>> /\ pvReq' = [pvReq EXCEPT ![r] = NoCall]
        \/ /\ Usable(t) /\ pvTok' = [pvTok EXCEPT ![t] = row] /\ pvGiven' = [pvGiven EXCEPT ![t] = who]
           /\ pvReq' = [pvReq EXCEPT ![r] = to]
    BY DEF RedeemProvisioningToken, CallEnds, CallGoto
  <1>4. CASE UNCHANGED <<pvTok, pvGiven>> /\ pvReq' = [pvReq EXCEPT ![r] = NoCall]
    <2> HIDE DEF to, row, who
    <2> QED
      BY <1>1, <1>4, PvFacts, CallOnly
  <1>5. CASE /\ Usable(t) /\ pvTok' = [pvTok EXCEPT ![t] = row] /\ pvGiven' = [pvGiven EXCEPT ![t] = who]
             /\ pvReq' = [pvReq EXCEPT ![r] = to]
    <2>1. Open(t) /\ pvTok[t] # NoTok
      BY <1>5 DEF Usable, Open
    <2>2. pvTok[t] \in TokRows
      BY <2>1, TokValue
    <2>3. row \in TokRows /\ row.m = pvTok[t].m /\ row.code = pvTok[t].code /\ row.redeemed
      BY <2>2 DEF TokRows
    <2>4. to \in Calls /\ to.at = "answer" /\ to.todo = CertFiles
      BY <1>2 DEF Calls
    <2>5. who = {<<r, pvCount>>}
      BY <2>1 DEF Given
    <2> HIDE DEF to, row, who
    <2>6. /\ pvTok' \in [ProvTokens -> {NoTok} \cup TokRows] /\ pvTok'[t] = row
          /\ \A u \in ProvTokens : u # t => pvTok'[u] = pvTok[u]
      BY <1>5, <2>3 DEF PvTypes
    <2>7. /\ DOMAIN pvGiven' = ProvTokens /\ pvGiven'[t] = who
          /\ \A u \in ProvTokens : u # t => pvGiven'[u] = pvGiven[u]
      BY <1>5 DEF PvTypes
    <2>8. /\ pvReq' \in [Callers -> Calls] /\ pvReq'[r] = to
          /\ \A b \in Callers : b # r => pvReq'[b] = pvReq[b]
      BY <1>5, <2>4 DEF PvTypes
    <2>9. PvTypes'
      BY <1>1, <2>6, <2>7, <2>8 DEF PvTypes
    <2>10. OneCode'
      BY <2>1, <2>3, <2>6 DEF OneCode
    <2>11. ~Open(t)' /\ \A u \in ProvTokens : u # t => (Open(u)' <=> Open(u))
      BY <2>3, <2>6 DEF Open
    <2>12. OneOpenToken'
      BY <2>6, <2>11 DEF OneOpenToken
    <2>13. Given'
      BY <2>5, <2>7, <2>11 DEF Given
    <2>14. Written'
      BY <1>1, <2>4, <2>8 DEF Written
    <2>15. Connected'
      BY <1>1, <2>4, <2>8 DEF Connected, Deletes
    <2> QED
      BY <2>9, <2>10, <2>12, <2>13, <2>14, <2>15
  <1> QED
    BY <1>3, <1>4, <1>5

(* A file is written and taken off the list; the last one ends the join.   *)
LEMMA WriteKeeps ==
    ASSUME PvInd, NEW r \in Callers, NEW f \in AllFiles, NEW to \in Calls, NEW file \in Files,
           pvReq[r].at = "answer", file = pvReq[r].file, to.at \in {"answer", "joined"}, to.file = file,
           to.at = "answer" => \A g \in CertFiles \ to.todo : g = f \/ g \notin pvReq[r].todo,
           to.at = "joined" => pvReq[r].todo = {} /\ f = "toml",
           pvDir' = [pvDir EXCEPT ![r][f] = file], pvReq' = [pvReq EXCEPT ![r] = to],
           UNCHANGED <<pvTok, pvRow, pvConn, pvNow, pvGiven, pvRaced>>
    PROVE  PvInd'
  <1> USE DEF PvInd
  <1>1. /\ pvReq' \in [Callers -> Calls] /\ pvReq'[r] = to
        /\ \A b \in Callers : b # r => pvReq'[b] = pvReq[b]
    BY DEF PvTypes
  <1>2. /\ pvDir[r] \in [AllFiles -> {NoFile} \cup Files]
        /\ [pvDir[r] EXCEPT ![f] = file] \in [AllFiles -> {NoFile} \cup Files]
    BY DEF PvTypes
  <1>3. /\ pvDir' \in [Callers -> [AllFiles -> {NoFile} \cup Files]]
        /\ pvDir'[r] = [pvDir[r] EXCEPT ![f] = file]
        /\ \A b \in Callers : b # r => pvDir'[b] = pvDir[b]
    BY <1>2 DEF PvTypes
  <1>4. pvDir'[r][f] = file /\ \A g \in AllFiles : g # f => pvDir'[r][g] = pvDir[r][g]
    BY <1>2, <1>3
  <1>5. PvTypes'
    BY <1>1, <1>3 DEF PvTypes
  <1>6. OneCode' /\ OneOpenToken' /\ Given'
    BY DEF OneCode, OneOpenToken, Given, Open
  <1>7. Connected'
    BY <1>1 DEF Connected, Deletes
  <1>8. Written'
    <2>1. \A g \in CertFiles \ pvReq[r].todo : pvDir[r][g] = file
      BY DEF Written
    <2>2. to.at = "answer" => \A g \in CertFiles \ to.todo : pvDir'[r][g] = file
      BY <1>4, <2>1, PvFacts
    <2>3. to.at = "joined" => \A g \in AllFiles : pvDir'[r][g] = file
      BY <1>4, <2>1 DEF AllFiles
    <2> QED
      BY <1>1, <1>3, <2>2, <2>3 DEF Written
  <1> QED
    BY <1>5, <1>6, <1>7, <1>8

LEMMA ExecuteJoinKeeps == ASSUME PvInd, NEW r \in Callers, ExecuteJoin(r) PROVE PvInd'
  <1>1. pvReq[r].at = "answer" /\ UNCHANGED <<pvTok, pvRow, pvConn, pvNow, pvGiven, pvRaced>>
    BY DEF ExecuteJoin
  <1>2. /\ pvReq[r].file \in Files /\ pvReq[r].todo \subseteq CertFiles
        /\ pvReq[r] \in [at : {"answer"}, t : ProvTokens, file : Files, todo : SUBSET CertFiles]
    BY <1>1, CallValue DEF PvInd
  <1> PICK file \in Files : file = pvReq[r].file
    BY <1>2
  <1>3. ASSUME NEW f \in pvReq[r].todo, pvDir' = [pvDir EXCEPT ![r][f] = pvReq[r].file],
               CallGoto(r, [pvReq[r] EXCEPT !.todo = @ \ {f}])
        PROVE  PvInd'
    <2> DEFINE to == [pvReq[r] EXCEPT !.todo = pvReq[r].todo \ {f}]
    <2>1. to \in [at : {"answer"}, t : ProvTokens, file : Files, todo : SUBSET CertFiles]
      BY <1>2
    <2>2. to \in Calls /\ to.at = "answer" /\ to.file = file /\ to.todo = pvReq[r].todo \ {f}
      BY <1>2, <2>1 DEF Calls
    <2>3. pvReq' = [pvReq EXCEPT ![r] = to] /\ pvDir' = [pvDir EXCEPT ![r][f] = file]
      BY <1>3 DEF CallGoto
    <2>4. f \in AllFiles /\ \A g \in CertFiles \ to.todo : g = f \/ g \notin pvReq[r].todo
      BY <1>2, <2>2, PvFacts
    <2> HIDE DEF to
    <2> QED
      BY <1>1, <2>2, <2>3, <2>4, WriteKeeps
  <1>4. ASSUME pvReq[r].todo = {}, pvDir' = [pvDir EXCEPT ![r]["toml"] = pvReq[r].file],
               CallGoto(r, [at |-> "joined", file |-> pvReq[r].file])
        PROVE  PvInd'
    <2> DEFINE to == [at |-> "joined", file |-> file]
    <2>1. to \in Calls /\ to.at = "joined" /\ to.file = file
      BY DEF Calls
    <2>2. pvReq' = [pvReq EXCEPT ![r] = to] /\ pvDir' = [pvDir EXCEPT ![r]["toml"] = file]
      BY <1>4 DEF CallGoto
    <2> HIDE DEF to
    <2> QED
      BY <1>1, <1>4, <2>1, <2>2, PvFacts, WriteKeeps
  <1> QED
    BY <1>3, <1>4 DEF ExecuteJoin

-----------------------------------------------------------------------------
(* Machines. *)

(* An agent that connects is listed, and no deletion of it is under way    *)
(* unless it raced.                                                        *)
LEMMA AgentConnectsKeeps == ASSUME PvInd, NEW r \in Callers, AgentConnects(r) PROVE PvInd'
  <1> USE DEF PvInd
  <1>1. pvReq[r].at = "joined" /\ UNCHANGED <<pvTok, pvDir, pvNow, pvGiven>>
    BY DEF AgentConnects
  <1>2. pvReq[r].file.m \in MachineIds
    BY <1>1, CallValue
  <1> PICK m \in MachineIds : m = pvReq[r].file.m
    BY <1>2
  <1>3. /\ pvRow' = [pvRow EXCEPT ![m] = "row"] /\ pvConn' = pvConn \cup {m} /\ pvReq' = [pvReq EXCEPT ![r] = NoCall]
        /\ pvRaced' = IF \E b \in Callers : Deletes(b, m) THEN pvRaced \cup {m} ELSE pvRaced
    BY DEF AgentConnects, UpsertMachine, CallEnds, CallGoto, Deletes
  <1>4. /\ pvReq' \in [Callers -> Calls] /\ pvReq'[r] = NoCall
        /\ \A b \in Callers : b # r => pvReq'[b] = pvReq[b]
    BY <1>3, PvFacts DEF PvTypes
  <1>5. /\ pvRow' \in [MachineIds -> {"none", "row", "deleted"}] /\ pvRow'[m] = "row"
        /\ \A n \in MachineIds : n # m => pvRow'[n] = pvRow[n]
    BY <1>3 DEF PvTypes
  <1>6. PvTypes'
    BY <1>1, <1>3, <1>4, <1>5 DEF PvTypes
  <1>7. OneCode' /\ OneOpenToken' /\ Given'
    BY <1>1 DEF OneCode, OneOpenToken, Given, Open
  <1>8. Written'
    BY <1>1, <1>4, PvFacts DEF Written
  <1>9. \A b \in Callers, n \in MachineIds : Deletes(b, n)' => Deletes(b, n)
    BY <1>4, PvFacts DEF Deletes
  <1>10. Connected'
    <2> SUFFICES ASSUME NEW n \in (pvConn \ pvRaced)'
                 PROVE  pvRow'[n] = "row" /\ \A b \in Callers : ~Deletes(b, n)'
      BY DEF Connected
    <2>0. n \in MachineIds
      BY <1>6 DEF PvTypes
    <2>1. CASE n = m
      BY <1>3, <1>5, <1>9, <2>1
    <2>2. CASE n # m
      <3>1. n \in pvConn \ pvRaced
        BY <1>3, <2>2
      <3> QED
        BY <1>5, <1>9, <2>0, <2>2, <3>1 DEF Connected
    <2> QED
      BY <2>1, <2>2
  <1> QED
    BY <1>6, <1>7, <1>8, <1>10

(* Only a machine whose deletion is under way loses its row.               *)
LEMMA SoftDeleteKeeps == ASSUME PvInd, NEW r \in Callers, SoftDeleteMachine(r) PROVE PvInd'
  <1> USE DEF PvInd
  <1>1. pvReq[r].at = "delete" /\ UNCHANGED <<pvTok, pvConn, pvDir, pvNow, pvGiven, pvRaced>>
    BY DEF SoftDeleteMachine
  <1>2. pvReq[r].m \in MachineIds
    BY <1>1, CallValue
  <1> PICK m \in MachineIds : m = pvReq[r].m
    BY <1>2
  <1>3. /\ pvRow' = [pvRow EXCEPT ![m] = IF pvRow[m] = "row" THEN "deleted" ELSE pvRow[m]]
        /\ pvReq' = [pvReq EXCEPT ![r] = NoCall]
    BY DEF SoftDeleteMachine, CallEnds, CallGoto
  <1>4. /\ pvReq' \in [Callers -> Calls] /\ pvReq'[r] = NoCall
        /\ \A b \in Callers : b # r => pvReq'[b] = pvReq[b]
    BY <1>3, PvFacts DEF PvTypes
  <1>5. /\ pvRow' \in [MachineIds -> {"none", "row", "deleted"}]
        /\ \A n \in MachineIds : n # m => pvRow'[n] = pvRow[n]
    BY <1>3 DEF PvTypes
  <1>6. PvTypes'
    BY <1>1, <1>4, <1>5 DEF PvTypes
  <1>7. OneCode' /\ OneOpenToken' /\ Given'
    BY <1>1 DEF OneCode, OneOpenToken, Given, Open
  <1>8. Written'
    BY <1>1, <1>4, PvFacts DEF Written
  <1>9. Deletes(r, m) /\ \A b \in Callers, n \in MachineIds : Deletes(b, n)' => Deletes(b, n)
    BY <1>1, <1>4, PvFacts DEF Deletes
  <1>10. m \notin pvConn \ pvRaced
    BY <1>9 DEF Connected
  <1>11. Connected'
    BY <1>1, <1>5, <1>9, <1>10 DEF Connected, PvTypes
  <1> QED
    BY <1>6, <1>7, <1>8, <1>11

-----------------------------------------------------------------------------
(* The theorem. *)

LEMMA PvIndNext == PvInd /\ [ProvisioningNext]_provVars => PvInd'
  <1> SUFFICES ASSUME PvInd, [ProvisioningNext]_provVars PROVE PvInd'
    OBVIOUS
  <1>1. ASSUME NEW r \in Callers,
               \/ \E m \in MachineIds : CreateProvision(r, m) \/ DeleteMachine(r, m)
               \/ CheckMachine(r) \/ JoinFails(r)
        PROVE  PvInd'
    BY <1>1, RequestKeeps
  <1>2. ASSUME NEW r \in Callers, NEW t \in ProvTokens, ServeScript(r, t) PROVE PvInd'
    BY <1>2, AskKeeps
  <1>3. ASSUME NEW r \in Callers, NEW code \in ShortCodes, JoinByCode(r, code) PROVE PvInd'
    BY <1>3, AskKeeps
  <1>4. ASSUME NEW r \in Callers, NEW t \in ProvTokens, NEW code \in ShortCodes, CreateAgentProvision(r, t, code)
        PROVE  PvInd'
    BY <1>4, InsertTokenKeeps
  <1>5. ASSUME NEW r \in Callers, RedeemProvisioningToken(r) PROVE PvInd'
    BY <1>5, RedeemKeeps
  <1>6. ASSUME NEW r \in Callers, ExecuteJoin(r) PROVE PvInd'
    BY <1>6, ExecuteJoinKeeps
  <1>7. ASSUME NEW r \in Callers, AgentConnects(r) PROVE PvInd'
    BY <1>7, AgentConnectsKeeps
  <1>8. ASSUME NEW r \in Callers, SoftDeleteMachine(r) PROVE PvInd'
    BY <1>8, SoftDeleteKeeps
  <1>9. ASSUME NEW t \in ProvTokens, RevokeProvToken(t) PROVE PvInd'
    BY <1>9, RevokeKeeps
  <1>10. ASSUME NEW m \in MachineIds, AgentLeaves(m) PROVE PvInd'
    BY <1>10 DEF AgentLeaves, PvInd, PvTypes, OneCode, OneOpenToken, Given, Open, Written, Connected, Deletes
  <1>11. CASE PvTick
    <2>1. /\ pvNow' \in 0 .. MaxPvTime /\ UNCHANGED <<pvTok, pvRow, pvConn, pvReq, pvDir, pvGiven, pvRaced>>
      BY <1>11, PvFacts DEF PvTick, PvInd, PvTypes
    <2> QED
      BY <2>1 DEF PvInd, PvTypes, OneCode, OneOpenToken, Given, Open, Written, Connected, Deletes
  <1>12. CASE UNCHANGED provVars
    BY <1>12 DEF provVars, PvInd, PvTypes, OneCode, OneOpenToken, Given, Open, Written, Connected, Deletes
  <1> QED
    BY <1>1, <1>2, <1>3, <1>4, <1>5, <1>6, <1>7, <1>8, <1>9, <1>10, <1>11, <1>12 DEF ProvisioningNext

LEMMA PvStrong == PvInd => ProvisioningInv
  <1> SUFFICES ASSUME PvInd PROVE ProvisioningInv
    OBVIOUS
  <1> USE DEF PvInd
  <1>1. ProvisioningTypeOK
    <2>1. ASSUME NEW t \in ProvTokens, pvTok[t] # NoTok
          PROVE  /\ pvTok[t].m \in MachineIds /\ pvTok[t].code \in ShortCodes
                 /\ pvTok[t].exp \in 0 .. MaxPvTime + ProvTTL /\ pvTok[t].redeemed \in BOOLEAN
      <3>1. pvTok[t] \in TokRows
        BY <2>1, TokValue
      <3> QED
        BY <3>1 DEF TokRows
    <2> QED
      BY <2>1 DEF ProvisioningTypeOK, PvTypes, OneCode
  <1>2. KeyGivenOnce
    <2> SUFFICES ASSUME NEW t \in ProvTokens PROVE Cardinality(pvGiven[t]) <= 1
      BY DEF KeyGivenOnce
    <2>1. CASE pvGiven[t] = {}
      BY <2>1, FS_EmptySet
    <2>2. CASE pvGiven[t] # {}
      <3> PICK x : x \in pvGiven[t]
        BY <2>2
      <3>1. pvGiven[t] = {x}
        BY <2>2 DEF Given
      <3>2. Cardinality({x}) = 1
        BY FS_Singleton, Zenon
      <3> QED
        BY <3>1, <3>2
    <2> QED
      BY <2>1, <2>2
  <1>3. JoinedIsWhole
    BY DEF Written, JoinedIsWhole, AllFiles
  <1>4. ConnectedIsListed
    BY DEF Connected, ConnectedIsListed
  <1> QED
    BY <1>1, <1>2, <1>3, <1>4 DEF ProvisioningInv

(* Joining is sound: however requests, redemptions, lost answers, agents   *)
(* that connect and deletions interleave, a token's key goes to one caller *)
(* at most, a machine has one open token, a join that succeeds leaves only *)
(* files of its own token, and a connected machine is listed unless it     *)
(* came in the middle of its deletion.                                     *)
THEOREM JoiningIsSound == ProvisioningSpec => []ProvisioningInv
  <1> QED
    BY PvIndInit, PvIndNext, PvStrong, PTL DEF ProvisioningSpec

-----------------------------------------------------------------------------
(* Notifications.                                                          *)

NotificationsSpec == NotificationsInit /\ [][NotificationsNext]_notifVars

(* What rows, forms and workers can be. *)
ChRows == [is : {"row"}, secret : Contents, enabled : BOOLEAN]
Forms  == {NoForm} \cup [at : {"form"}, c : Channels, secret : {Sentinel, Unset}]
                   \cup [at : {"write"}, c : Channels, row : ChRows]
Works  == {IdleWork} \cup [at : {"loop"}, t : NotifTypes, todo : SUBSET Channels]
                     \cup [at : {"allow"}, t : NotifTypes, todo : SUBSET Channels, c : Channels, now : 0 .. MaxNotifTime]
Sent    == Channels \X NotifTypes \X (0 .. MaxNotifTime)
Allowed == Channels \X NotifTypes \X (0 .. MaxNotifTime) \X NotifWorkers \X Nat

ChTypes ==
    /\ chRow \in [Channels -> {NoChannel} \cup ChRows]
    /\ chSubs \subseteq NotifUsers \X Channels \X NotifTypes
    /\ \A s \in chSubs : chRow[s[2]] # NoChannel
    /\ chForm \in [NotifAdmins -> Forms]

(* A form that shows a secret is of a channel that still has one, and a    *)
(* merged request does not hold the mask, unless the secret was removed.   *)
FormsKnow ==
    \A a \in NotifAdmins, c \in Channels \ chStripped : ShowsSecret(a, c) /\ chRow[c] # NoChannel => chRow[c].secret # Unset
WritesReal ==
    \A a \in NotifAdmins : chForm[a].at = "write" /\ chForm[a].c \notin chStripped => chForm[a].row.secret # Sentinel

ChInd == ChTypes /\ SecretSurvives /\ FormsKnow /\ WritesReal

SameKey(x, y) == x[1] = y[1] /\ x[2] = y[2]

NtTypes ==
    /\ ntNow \in 0 .. MaxNotifTime /\ ntEvents \in Nat
    /\ ntWork \in [NotifWorkers -> Works]
    /\ ntSent \subseteq Sent /\ ntAllowed \subseteq Allowed
OneTime == \A x, y \in ntSent : SameKey(x, y) => x = y
(* A worker waits for the lock for a bounded time. *)
Fresh == \A w \in NotifWorkers : ntWork[w].at = "allow" => ntWork[w].now <= ntNow /\ ntNow - ntWork[w].now <= MaxStale
(* What was let pass is remembered by the map, or long ago. *)
Remembered ==
    \A x \in ntAllowed : (\E y \in ntSent : SameKey(x, y) /\ x[3] <= y[3]) \/ x[3] + Interval <= ntNow

NtInd == NtTypes /\ OneTime /\ Fresh /\ Remembered /\ NoticesApart

LEMMA NotifFacts ==
    /\ NoForm \in Forms /\ NoForm.at = "none" /\ IdleWork \in Works /\ IdleWork.at = "idle"
    /\ \A k \in ChRows : k # NoChannel /\ k.secret \in Contents
    /\ Sentinel # Unset /\ Sentinel \notin Secrets
    /\ Interval \in Nat /\ MaxStale \in Nat /\ MaxNotifTime \in Nat /\ MaxStale < Interval
  BY NotificationsAssumption, SecretAssumption DEF Forms, NoForm, Works, IdleWork, ChRows, NoChannel, Sentinel, Unset

LEMMA FormValue ==
    ASSUME ChTypes, NEW a \in NotifAdmins
    PROVE  /\ chForm[a].at = "form" => chForm[a].c \in Channels /\ chForm[a].secret \in {Sentinel, Unset}
           /\ chForm[a].at = "write" => chForm[a].c \in Channels /\ chForm[a].row \in ChRows
  <1>1. chForm[a] \in Forms
    BY DEF ChTypes
  <1>2. CASE chForm[a] = NoForm
    BY <1>2, NotifFacts
  <1>3. CASE chForm[a] \in [at : {"form"}, c : Channels, secret : {Sentinel, Unset}]
    BY <1>3
  <1>4. CASE chForm[a] \in [at : {"write"}, c : Channels, row : ChRows]
    BY <1>4
  <1> QED
    BY <1>1, <1>2, <1>3, <1>4 DEF Forms

LEMMA WorkValue ==
    ASSUME NtTypes, NEW w \in NotifWorkers
    PROVE  /\ ntWork[w].at \in {"loop", "allow"} => ntWork[w].t \in NotifTypes /\ ntWork[w].todo \subseteq Channels
           /\ ntWork[w].at = "allow" => ntWork[w].c \in Channels /\ ntWork[w].now \in 0 .. MaxNotifTime
  <1>1. ntWork[w] \in Works
    BY DEF NtTypes
  <1>2. CASE ntWork[w] = IdleWork
    BY <1>2, NotifFacts
  <1>3. CASE ntWork[w] \in [at : {"loop"}, t : NotifTypes, todo : SUBSET Channels]
    BY <1>3
  <1>4. CASE ntWork[w] \in [at : {"allow"}, t : NotifTypes, todo : SUBSET Channels, c : Channels, now : 0 .. MaxNotifTime]
    BY <1>4
  <1> QED
    BY <1>1, <1>2, <1>3, <1>4 DEF Works

LEMMA NotifIndInit == NotificationsInit => ChInd /\ NtInd
  <1> SUFFICES ASSUME NotificationsInit PROVE ChInd /\ NtInd
    OBVIOUS
  <1>1. PICK old \in SUBSET Channels, s \in Secrets :
          /\ chRow = [c \in Channels |-> IF c \in old THEN [is |-> "row", secret |-> s, enabled |-> TRUE] ELSE NoChannel]
          /\ chSubs = NotifUsers \X old \X NotifTypes
    BY DEF NotificationsInit
  <1>2. [is |-> "row", secret |-> s, enabled |-> TRUE] \in ChRows
    BY DEF ChRows, Contents
  <1>3. ChTypes
    <2>1. chRow \in [Channels -> {NoChannel} \cup ChRows]
      BY <1>1, <1>2
    <2>2. \A x \in chSubs : x[2] \in old
      BY <1>1
    <2>3. chSubs \subseteq NotifUsers \X Channels \X NotifTypes
      BY <1>1
    <2>4. \A c \in old : chRow[c] # NoChannel
      BY <1>1, <1>2, NotifFacts
    <2> QED
      BY <2>1, <2>2, <2>3, <2>4, NotifFacts DEF ChTypes, NotificationsInit
  <1>4. SecretSurvives
    BY <1>1, <1>2, NotifFacts DEF SecretSurvives
  <1>5. FormsKnow /\ WritesReal
    BY NotifFacts DEF FormsKnow, WritesReal, ShowsSecret, NotificationsInit
  <1>6. NtInd
    BY NotifFacts DEF NotificationsInit, NtInd, NtTypes, OneTime, Fresh, Remembered, NoticesApart
  <1> QED
    BY <1>3, <1>4, <1>5, <1>6 DEF ChInd

-----------------------------------------------------------------------------
(* Channels: masks and secrets. *)

LEMMA CreateChannelKeeps == ASSUME ChInd, NEW c \in Channels, CreateChannel(c) PROVE ChInd'
  <1> USE DEF ChInd
  <1>1. PICK s \in Secrets \cup {Unset} : chRow' = [chRow EXCEPT ![c] = [is |-> "row", secret |-> s, enabled |-> TRUE]]
    BY DEF CreateChannel, InsertChannel
  <1> DEFINE row == [is |-> "row", secret |-> s, enabled |-> TRUE]
  <1>2. /\ \A a \in NotifAdmins : chForm[a] # NoForm => chForm[a].c # c
        /\ UNCHANGED <<chSubs, chForm, chStripped>>
    BY DEF CreateChannel
  <1>3. row \in ChRows /\ row.secret = s /\ s # Sentinel
    BY NotifFacts DEF ChRows, Contents
  <1>4. chRow' = [chRow EXCEPT ![c] = row]
    BY <1>1
  <1> HIDE DEF row
  <1>5. /\ chRow' \in [Channels -> {NoChannel} \cup ChRows] /\ chRow'[c] = row
        /\ \A d \in Channels : d # c => chRow'[d] = chRow[d]
    BY <1>3, <1>4 DEF ChTypes
  <1>6. ChTypes'
    BY <1>2, <1>3, <1>5, NotifFacts DEF ChTypes
  <1>7. SecretSurvives'
    BY <1>2, <1>3, <1>5 DEF SecretSurvives
  <1>8. FormsKnow'
    BY <1>2, <1>5, NotifFacts DEF FormsKnow, ShowsSecret
  <1>9. WritesReal'
    BY <1>2 DEF WritesReal
  <1> QED
    BY <1>6, <1>7, <1>8, <1>9

LEMMA GetChannelKeeps == ASSUME ChInd, NEW a \in NotifAdmins, NEW c \in Channels, GetChannel(a, c) PROVE ChInd'
  <1> USE DEF ChInd
  <1> DEFINE to == [at |-> "form", c |-> c, secret |-> redactConfig(chRow[c].secret)]
  <1>1. chForm' = [chForm EXCEPT ![a] = to] /\ UNCHANGED <<chRow, chSubs, chStripped>>
    BY DEF GetChannel, FormGoto
  <1>2. /\ to \in Forms /\ to.at = "form" /\ to.c = c
        /\ to.secret = Sentinel => chRow[c].secret # Unset
    BY NotifFacts DEF Forms, redactConfig
  <1> HIDE DEF to
  <1>3. /\ chForm' \in [NotifAdmins -> Forms] /\ chForm'[a] = to
        /\ \A b \in NotifAdmins : b # a => chForm'[b] = chForm[b]
    BY <1>1, <1>2 DEF ChTypes
  <1>4. ChTypes' /\ SecretSurvives'
    BY <1>1, <1>3 DEF ChTypes, SecretSurvives
  <1>5. FormsKnow'
    BY <1>1, <1>2, <1>3 DEF FormsKnow, ShowsSecret
  <1>6. WritesReal'
    BY <1>1, <1>2, <1>3 DEF WritesReal
  <1> QED
    BY <1>4, <1>5, <1>6

(* The heart of it: a mask in the request meets a stored secret.           *)
LEMMA UpdateChannelKeeps == ASSUME ChInd, NEW a \in NotifAdmins, UpdateChannel(a) PROVE ChInd'
  <1> USE DEF ChInd
  <1>1. chForm[a].at = "form" /\ UNCHANGED <<chRow, chSubs, chStripped>>
    BY DEF UpdateChannel
  <1>2. chForm[a].c \in Channels /\ chForm[a].secret \in {Sentinel, Unset}
    BY <1>1, FormValue
  <1> PICK c \in Channels : c = chForm[a].c
    BY <1>2
  <1>3. \/ chForm' = [chForm EXCEPT ![a] = NoForm]
        \/ /\ chRow[c] # NoChannel
           /\ \E s \in {chForm[a].secret, Unset} \cup Secrets, e \in BOOLEAN :
                chForm' = [chForm EXCEPT ![a] = [at |-> "write", c |-> c,
                              row |-> [is |-> "row", secret |-> mergeRedactedConfig(chRow[c], s), enabled |-> e]]]
    BY DEF UpdateChannel, FormGoto
  <1>4. ASSUME NEW to \in Forms, chForm' = [chForm EXCEPT ![a] = to], to.at # "form",
               to.at = "write" /\ to.c \notin chStripped => to.row.secret # Sentinel
        PROVE  ChInd'
    <2>1. /\ chForm' \in [NotifAdmins -> Forms] /\ chForm'[a] = to
          /\ \A b \in NotifAdmins : b # a => chForm'[b] = chForm[b]
      BY <1>4 DEF ChTypes
    <2>2. ChTypes' /\ SecretSurvives'
      BY <1>1, <2>1 DEF ChTypes, SecretSurvives
    <2>3. FormsKnow'
      BY <1>1, <1>4, <2>1 DEF FormsKnow, ShowsSecret
    <2>4. WritesReal'
      BY <1>1, <1>4, <2>1 DEF WritesReal
    <2> QED
      BY <2>2, <2>3, <2>4
  <1>5. ASSUME chRow[c] # NoChannel, NEW s \in {chForm[a].secret, Unset} \cup Secrets, NEW e \in BOOLEAN,
               chForm' = [chForm EXCEPT ![a] = [at |-> "write", c |-> c,
                              row |-> [is |-> "row", secret |-> mergeRedactedConfig(chRow[c], s), enabled |-> e]]]
        PROVE  ChInd'
    <2> DEFINE m   == mergeRedactedConfig(chRow[c], s)
               row == [is |-> "row", secret |-> m, enabled |-> e]
               to  == [at |-> "write", c |-> c, row |-> row]
    <2>1. chRow[c] \in ChRows
      BY <1>5 DEF ChTypes
    <2>2. m \in Contents
      BY <1>2, <2>1, NotifFacts DEF mergeRedactedConfig, Contents
    <2>3. c \notin chStripped => m # Sentinel
      <3>1. s = Sentinel => ShowsSecret(a, c)
        BY <1>1, <1>2, NotifFacts DEF ShowsSecret
      <3>2. c \notin chStripped => chRow[c].secret # Sentinel
        BY <1>5 DEF SecretSurvives
      <3>3. c \notin chStripped /\ s = Sentinel => chRow[c].secret # Unset
        BY <1>5, <3>1 DEF FormsKnow
      <3> QED
        BY <3>2, <3>3 DEF mergeRedactedConfig
    <2> HIDE DEF m
    <2>4. row \in ChRows /\ row.secret = m
      BY <2>2 DEF ChRows
    <2> HIDE DEF row
    <2>5. to \in Forms /\ to.at = "write" /\ to.c = c /\ to.row = row
      BY <2>4 DEF Forms
    <2>6. chForm' = [chForm EXCEPT ![a] = to]
      BY <1>5 DEF row, m
    <2> HIDE DEF to
    <2> QED
      BY <1>4, <2>3, <2>4, <2>5, <2>6
  <1> QED
    BY <1>3, <1>4, <1>5, NotifFacts

LEMMA StoreChannelKeeps == ASSUME ChInd, NEW a \in NotifAdmins, StoreChannel(a) PROVE ChInd'
  <1> USE DEF ChInd
  <1>1. chForm[a].at = "write" /\ chForm' = [chForm EXCEPT ![a] = NoForm] /\ chSubs' = chSubs
    BY DEF StoreChannel, FormGoto
  <1>2. chForm[a].c \in Channels /\ chForm[a].row \in ChRows
    BY <1>1, FormValue
  <1> PICK c \in Channels, row \in ChRows : c = chForm[a].c /\ row = chForm[a].row
    BY <1>2
  <1>3. \/ UNCHANGED <<chRow, chStripped>>
        \/ /\ chRow[c] # NoChannel /\ chRow' = [chRow EXCEPT ![c] = row]
           /\ chStripped' = IF row.secret = Unset /\ \E b \in NotifAdmins : ShowsSecret(b, c)
                            THEN chStripped \cup {c} ELSE chStripped
    BY DEF StoreChannel
  <1>4. /\ chForm' \in [NotifAdmins -> Forms] /\ chForm'[a] = NoForm
        /\ \A b \in NotifAdmins : b # a => chForm'[b] = chForm[b]
    BY <1>1, NotifFacts DEF ChTypes
  <1>5. \A b \in NotifAdmins, d \in Channels : ShowsSecret(b, d)' => ShowsSecret(b, d)
    BY <1>4, NotifFacts DEF ShowsSecret
  <1>6. chStripped \subseteq chStripped'
    BY <1>3
  <1>7. WritesReal'
    BY <1>4, <1>6, NotifFacts DEF WritesReal
  <1>8. CASE UNCHANGED <<chRow, chStripped>>
    <2>1. ChTypes' /\ SecretSurvives'
      BY <1>1, <1>4, <1>8 DEF ChTypes, SecretSurvives
    <2>2. FormsKnow'
      BY <1>5, <1>8 DEF FormsKnow
    <2> QED
      BY <1>7, <2>1, <2>2
  <1>9. CASE /\ chRow[c] # NoChannel /\ chRow' = [chRow EXCEPT ![c] = row]
             /\ chStripped' = IF row.secret = Unset /\ \E b \in NotifAdmins : ShowsSecret(b, c)
                              THEN chStripped \cup {c} ELSE chStripped
    <2>1. /\ chRow' \in [Channels -> {NoChannel} \cup ChRows] /\ chRow'[c] = row
          /\ \A d \in Channels : d # c => chRow'[d] = chRow[d]
      BY <1>9 DEF ChTypes
    <2>2. ChTypes'
      BY <1>1, <1>4, <2>1, NotifFacts DEF ChTypes
    <2>3. c \notin chStripped' => row.secret # Sentinel
      BY <1>1, <1>6 DEF WritesReal
    <2>4. SecretSurvives'
      BY <1>6, <2>1, <2>3 DEF SecretSurvives
    <2>5. \A b \in NotifAdmins : ShowsSecret(b, c)' /\ c \notin chStripped' => row.secret # Unset
      BY <1>5, <1>9
    <2>6. FormsKnow'
      <3> SUFFICES ASSUME NEW b \in NotifAdmins, NEW d \in Channels, d \notin chStripped', ShowsSecret(b, d)',
                          chRow'[d] # NoChannel
                   PROVE  chRow'[d].secret # Unset
        BY DEF FormsKnow
      <3> QED
        BY <1>5, <1>6, <2>1, <2>5 DEF FormsKnow
    <2> QED
      BY <1>7, <2>2, <2>4, <2>6
  <1> QED
    BY <1>3, <1>8, <1>9

LEMMA ListKeeps ==
    ASSUME ChInd, \/ \E c \in Channels : DeleteChannel(c)
                  \/ \E u \in NotifUsers, S \in SUBSET (Channels \X NotifTypes) : SetSubscriptions(u, S)
    PROVE  ChInd'
  <1> USE DEF ChInd
  <1>1. ASSUME NEW c \in Channels, DeleteChannel(c) PROVE ChInd'
    <2>1. /\ chRow' = [chRow EXCEPT ![c] = NoChannel] /\ chSubs' = {s \in chSubs : s[2] # c}
          /\ UNCHANGED <<chForm, chStripped>>
      BY <1>1 DEF DeleteChannel, RemoveChannel
    <2>2. /\ chRow' \in [Channels -> {NoChannel} \cup ChRows] /\ chRow'[c] = NoChannel
          /\ \A d \in Channels : d # c => chRow'[d] = chRow[d]
      BY <2>1 DEF ChTypes
    <2>3. ChTypes'
      <3>1. \A s \in chSubs : s[2] \in Channels
        BY DEF ChTypes
      <3> QED
        BY <2>1, <2>2, <3>1 DEF ChTypes
    <2>4. SecretSurvives' /\ FormsKnow' /\ WritesReal'
      BY <2>1, <2>2 DEF SecretSurvives, FormsKnow, WritesReal, ShowsSecret
    <2> QED
      BY <2>3, <2>4
  <1>2. ASSUME NEW u \in NotifUsers, NEW S \in SUBSET (Channels \X NotifTypes), SetSubscriptions(u, S) PROVE ChInd'
    <2>1. /\ UNCHANGED <<chRow, chForm, chStripped>>
          /\ \/ chSubs' = chSubs
             \/ /\ \A x \in S : chRow[x[1]] # NoChannel
                /\ chSubs' = {s \in chSubs : s[1] # u} \cup {<<u, x[1], x[2]>> : x \in S}
      BY <1>2 DEF SetSubscriptions, ReplaceSubscriptions
    <2>2. \A s \in chSubs' : s \in NotifUsers \X Channels \X NotifTypes /\ chRow[s[2]] # NoChannel
      BY <2>1 DEF ChTypes
    <2>3. ChTypes'
      BY <2>1, <2>2 DEF ChTypes
    <2>4. SecretSurvives' /\ FormsKnow' /\ WritesReal'
      BY <2>1 DEF SecretSurvives, FormsKnow, WritesReal, ShowsSecret
    <2> QED
      BY <2>3, <2>4
  <1> QED
    BY <1>1, <1>2

LEMMA ChFrame == ASSUME ChInd, UNCHANGED <<chRow, chSubs, chForm, chStripped>> PROVE ChInd'
  BY DEF ChInd, ChTypes, SecretSurvives, FormsKnow, WritesReal, ShowsSecret

-----------------------------------------------------------------------------
(* The limiter. *)

LEMMA NtFrame == ASSUME NtInd, UNCHANGED <<ntNow, ntSent, ntWork, ntAllowed, ntEvents>> PROVE NtInd'
  BY DEF NtInd, NtTypes, OneTime, Fresh, Remembered, NoticesApart

(* A worker that moves to a step with the time of now, or none. *)
LEMMA WorkKeeps ==
    ASSUME NtInd, NEW w \in NotifWorkers, NEW to \in Works, ntWork' = [ntWork EXCEPT ![w] = to],
           to.at = "allow" => to.now = ntNow, UNCHANGED <<ntNow, ntSent, ntAllowed>>, ntEvents' \in Nat
    PROVE  NtInd'
  <1> USE DEF NtInd
  <1>1. /\ ntWork' \in [NotifWorkers -> Works] /\ ntWork'[w] = to
        /\ \A v \in NotifWorkers : v # w => ntWork'[v] = ntWork[v]
    BY DEF NtTypes
  <1>2. NtTypes' /\ OneTime' /\ Remembered' /\ NoticesApart'
    BY <1>1 DEF NtTypes, OneTime, Remembered, NoticesApart
  <1>3. Fresh'
    BY <1>1, NotifFacts DEF Fresh, NtTypes
  <1> QED
    BY <1>2, <1>3

LEMMA DispatchKeeps ==
    ASSUME NtInd, NEW w \in NotifWorkers, AllowStarts(w) \/ \E t \in NotifTypes : Dispatch(w, t)
    PROVE  NtInd'
  <1> USE DEF NtInd
  <1>1. ASSUME NEW t \in NotifTypes, Dispatch(w, t) PROVE NtInd'
    <2> DEFINE to == [at |-> "loop", t |-> t, todo |-> ListSubscriptionsForEvent(t)]
    <2>1. ntWork' = [ntWork EXCEPT ![w] = to] /\ UNCHANGED <<ntNow, ntSent, ntAllowed>> /\ ntEvents' \in Nat
      BY <1>1 DEF Dispatch, WorkGoto, NtTypes
    <2>2. to \in Works /\ to.at = "loop"
      BY DEF Works, ListSubscriptionsForEvent
    <2> HIDE DEF to
    <2> QED
      BY <2>1, <2>2, WorkKeeps
  <1>2. CASE AllowStarts(w)
    <2>1. /\ ntWork[w].at = "loop" /\ UNCHANGED <<ntNow, ntSent, ntAllowed, ntEvents>>
          /\ ntEvents' \in Nat /\ ntNow \in 0 .. MaxNotifTime
      BY <1>2 DEF AllowStarts, NtTypes
    <2>2. ntWork[w].t \in NotifTypes /\ ntWork[w].todo \subseteq Channels
      BY <2>1, WorkValue
    <2>3. CASE ntWork' = [ntWork EXCEPT ![w] = IdleWork]
      BY <2>1, <2>3, NotifFacts, WorkKeeps
    <2>4. ASSUME NEW c \in ntWork[w].todo,
                 ntWork' = [ntWork EXCEPT ![w] = [at |-> "allow", t |-> ntWork[w].t, todo |-> ntWork[w].todo \ {c},
                                                  c |-> c, now |-> ntNow]]
          PROVE  NtInd'
      <3> DEFINE to == [at |-> "allow", t |-> ntWork[w].t, todo |-> ntWork[w].todo \ {c}, c |-> c, now |-> ntNow]
      <3>1. to \in Works /\ to.now = ntNow
        BY <2>1, <2>2 DEF Works
      <3>2. ntWork' = [ntWork EXCEPT ![w] = to]
        BY <2>4
      <3> HIDE DEF to
      <3> QED
        BY <2>1, <3>1, <3>2, WorkKeeps
    <2> QED
      BY <1>2, <2>3, <2>4 DEF AllowStarts, WorkGoto
  <1> QED
    BY <1>1, <1>2

(* What is evicted is an interval old. *)
LEMMA EvictedIsOld ==
    ASSUME NEW now PROVE Evicted(now) \subseteq ntSent /\ \A x \in ntSent \ Evicted(now) : ~(now - x[3] < Interval)
  <1>1. CASE Cardinality(ntSent) > LimiterCap
    BY <1>1 DEF Evicted
  <1>2. CASE ~(Cardinality(ntSent) > LimiterCap)
    BY <1>2 DEF Evicted
  <1> QED
    BY <1>1, <1>2

LEMMA AllowKeeps == ASSUME NtInd, NEW w \in NotifWorkers, Allow(w) PROVE NtInd'
  <1> USE DEF NtInd
  <1>1. ntWork[w].at = "allow" /\ UNCHANGED <<ntNow, ntEvents>>
    BY DEF Allow
  <1>2. /\ ntWork[w].t \in NotifTypes /\ ntWork[w].todo \subseteq Channels
        /\ ntWork[w].c \in Channels /\ ntWork[w].now \in 0 .. MaxNotifTime
    BY <1>1, WorkValue
  <1> PICK t \in NotifTypes, c \in Channels, now \in 0 .. MaxNotifTime :
        t = ntWork[w].t /\ c = ntWork[w].c /\ now = ntWork[w].now
    BY <1>2
  <1> DEFINE loop == [at |-> "loop", t |-> t, todo |-> ntWork[w].todo]
             kept == Evicted(now)
             same == {x \in kept : x[1] = c /\ x[2] = t}
             new  == <<c, t, now>>
             pass == <<c, t, now, w, ntEvents>>
  <1>3. /\ ntWork' = [ntWork EXCEPT ![w] = loop]
        /\ \/ ntSent' = kept /\ ntAllowed' = ntAllowed
           \/ /\ \A x \in same : ~(now - x[3] < Interval)
              /\ ntSent' = (kept \ same) \cup {new} /\ ntAllowed' = ntAllowed \cup {pass}
    BY DEF Allow, WorkGoto
  <1>4. loop \in Works /\ loop.at = "loop"
    BY <1>2 DEF Works
  <1> HIDE DEF loop
  <1>5. /\ ntWork' \in [NotifWorkers -> Works] /\ ntWork'[w] = loop
        /\ \A v \in NotifWorkers : v # w => ntWork'[v] = ntWork[v]
    BY <1>3, <1>4 DEF NtTypes
  <1>6. Fresh'
    BY <1>1, <1>4, <1>5 DEF Fresh
  <1>7. kept \subseteq ntSent /\ \A x \in ntSent \ kept : ~(now - x[3] < Interval)
    BY EvictedIsOld
  <1> HIDE DEF kept
  <1>8. /\ Interval \in Nat /\ MaxStale \in Nat /\ ntNow \in Nat /\ now \in Nat
        /\ now <= ntNow /\ ntNow - now <= MaxStale /\ MaxStale < Interval
    BY <1>1, NotifFacts DEF Fresh, NtTypes
  <1>9. (\A x \in ntSent : x[3] \in Nat) /\ (\A x \in ntAllowed : x[3] \in Nat)
    BY NotifFacts DEF NtTypes, Sent, Allowed
  <1>10. CASE ntSent' = kept /\ ntAllowed' = ntAllowed
    <2>1. NtTypes' /\ OneTime' /\ NoticesApart'
      BY <1>1, <1>5, <1>7, <1>10 DEF NtTypes, OneTime, NoticesApart
    <2>2. Remembered'
      <3> SUFFICES ASSUME NEW x \in ntAllowed
                   PROVE  (\E y \in kept : SameKey(x, y) /\ x[3] <= y[3]) \/ x[3] + Interval <= ntNow
        BY <1>1, <1>10 DEF Remembered
      <3>1. CASE x[3] + Interval <= ntNow
        BY <3>1
      <3>2. CASE \E y \in ntSent : SameKey(x, y) /\ x[3] <= y[3]
        <4> PICK y \in ntSent : SameKey(x, y) /\ x[3] <= y[3]
          BY <3>2
        <4>1. y \in kept \/ x[3] + Interval <= ntNow
          BY <1>7, <1>8, <1>9
        <4> QED
          BY <4>1
      <3> QED
        BY <3>1, <3>2 DEF Remembered
    <2> QED
      BY <1>6, <2>1, <2>2
  <1>11. CASE /\ \A x \in same : ~(now - x[3] < Interval)
              /\ ntSent' = (kept \ same) \cup {new} /\ ntAllowed' = ntAllowed \cup {pass}
    <2>1. new \in Sent /\ new[1] = c /\ new[2] = t /\ new[3] = now
      BY DEF Sent
    <2>2. pass \in Allowed /\ pass[1] = c /\ pass[2] = t /\ pass[3] = now
      BY DEF Allowed, NtTypes
    <2> HIDE DEF new, pass
    <2>3. NtTypes'
      BY <1>1, <1>5, <1>7, <1>11, <2>1, <2>2 DEF NtTypes
    <2>4. OneTime'
      BY <1>7, <1>11, <2>1 DEF OneTime, SameKey
    <2>5. \A y \in ntSent : y[1] = c /\ y[2] = t => now >= y[3] + Interval
      BY <1>7, <1>8, <1>9, <1>11
    <2>6. ASSUME NEW x \in ntAllowed, x[1] = c, x[2] = t
          PROVE  now - x[3] >= Interval - MaxStale /\ (x[3] <= now)
      <3>1. CASE x[3] + Interval <= ntNow
        BY <1>8, <1>9, <3>1
      <3>2. CASE \E y \in ntSent : SameKey(x, y) /\ x[3] <= y[3]
        <4> PICK y \in ntSent : SameKey(x, y) /\ x[3] <= y[3]
          BY <3>2
        <4>1. now >= y[3] + Interval
          BY <2>5, <2>6 DEF SameKey
        <4> QED
          BY <1>8, <1>9, <4>1
      <3> QED
        BY <3>1, <3>2 DEF Remembered
    <2>7. Remembered'
      <3> SUFFICES ASSUME NEW x \in ntAllowed'
                   PROVE  (\E y \in ntSent' : SameKey(x, y) /\ x[3] <= y[3]) \/ x[3] + Interval <= ntNow
        BY <1>1 DEF Remembered
      <3>1. CASE x[1] = c /\ x[2] = t
        <4>1. x[3] <= now
          BY <1>8, <1>11, <2>2, <2>6, <3>1
        <4> QED
          BY <1>11, <2>1, <3>1, <4>1 DEF SameKey
      <3>2. CASE ~(x[1] = c /\ x[2] = t)
        <4>1. x \in ntAllowed
          BY <1>11, <2>2, <3>2
        <4>2. CASE x[3] + Interval <= ntNow
          BY <4>2
        <4>3. CASE \E y \in ntSent : SameKey(x, y) /\ x[3] <= y[3]
          <5> PICK y \in ntSent : SameKey(x, y) /\ x[3] <= y[3]
            BY <4>3
          <5>1. y \in kept \/ x[3] + Interval <= ntNow
            BY <1>7, <1>8, <1>9, <4>1
          <5>2. y \notin same
            BY <3>2 DEF SameKey
          <5> QED
            BY <1>11, <5>1, <5>2
        <4> QED
          BY <4>1, <4>2, <4>3 DEF Remembered
      <3> QED
        BY <3>1, <3>2
    <2>8. NoticesApart'
      <3> SUFFICES ASSUME NEW x \in ntAllowed', NEW y \in ntAllowed', x[1] = y[1], x[2] = y[2], x # y
                   PROVE  x[3] - y[3] >= Interval - MaxStale \/ y[3] - x[3] >= Interval - MaxStale
        BY DEF NoticesApart
      <3>1. CASE x \in ntAllowed /\ y \in ntAllowed
        BY <3>1 DEF NoticesApart
      <3>2. CASE x = pass
        BY <1>11, <2>2, <2>6, <3>2
      <3>3. CASE y = pass
        BY <1>11, <2>2, <2>6, <3>3
      <3> QED
        BY <1>11, <3>1, <3>2, <3>3
    <2> QED
      BY <1>6, <2>3, <2>4, <2>7, <2>8
  <1> QED
    BY <1>3, <1>10, <1>11

LEMMA NotifTickKeeps == ASSUME NtInd, NotifTick PROVE NtInd'
  <1> USE DEF NtInd
  <1>1. /\ ntNow' = ntNow + 1 /\ ntNow' \in 0 .. MaxNotifTime /\ ntNow \in Nat
        /\ UNCHANGED <<ntSent, ntWork, ntAllowed, ntEvents>>
    BY NotifFacts DEF NotifTick, NtTypes
  <1>2. NtTypes' /\ OneTime' /\ NoticesApart'
    BY <1>1 DEF NtTypes, OneTime, NoticesApart
  <1>3. Fresh'
    <2> SUFFICES ASSUME NEW w \in NotifWorkers, ntWork[w].at = "allow"
                 PROVE  ntWork[w].now <= ntNow' /\ ntNow' - ntWork[w].now <= MaxStale
      BY <1>1 DEF Fresh
    <2>1. ntWork[w].now \in 0 .. MaxNotifTime /\ ntWork[w].now <= ntNow
      BY WorkValue DEF Fresh
    <2>2. ntNow + 1 - ntWork[w].now <= MaxStale
      BY DEF NotifTick
    <2> QED
      BY <1>1, <2>1, <2>2, NotifFacts
  <1>4. Remembered'
    <2>1. \A x \in ntAllowed : x[3] \in Nat
      BY NotifFacts DEF NtTypes, Allowed
    <2>2. \A x \in ntAllowed : x[3] + Interval <= ntNow => x[3] + Interval <= ntNow'
      BY <1>1, <2>1, NotifFacts
    <2> QED
      BY <1>1, <2>2 DEF Remembered
  <1> QED
    BY <1>2, <1>3, <1>4

-----------------------------------------------------------------------------
(* The theorem. *)

LEMMA NotifIndNext == ChInd /\ NtInd /\ [NotificationsNext]_notifVars => ChInd' /\ NtInd'
  <1> SUFFICES ASSUME ChInd, NtInd, [NotificationsNext]_notifVars PROVE ChInd' /\ NtInd'
    OBVIOUS
  <1>1. ASSUME NEW c \in Channels, CreateChannel(c) PROVE ChInd' /\ NtInd'
    <2>1. UNCHANGED <<ntNow, ntSent, ntWork, ntAllowed, ntEvents>>
      BY <1>1 DEF CreateChannel
    <2> QED
      BY <1>1, <2>1, CreateChannelKeeps, NtFrame
  <1>2. ASSUME NEW c \in Channels, DeleteChannel(c) PROVE ChInd' /\ NtInd'
    <2>1. UNCHANGED <<ntNow, ntSent, ntWork, ntAllowed, ntEvents>>
      BY <1>2 DEF DeleteChannel
    <2> QED
      BY <1>2, <2>1, ListKeeps, NtFrame
  <1>3. ASSUME NEW a \in NotifAdmins, NEW c \in Channels, GetChannel(a, c) PROVE ChInd' /\ NtInd'
    <2>1. UNCHANGED <<ntNow, ntSent, ntWork, ntAllowed, ntEvents>>
      BY <1>3 DEF GetChannel
    <2> QED
      BY <1>3, <2>1, GetChannelKeeps, NtFrame
  <1>4. ASSUME NEW a \in NotifAdmins, UpdateChannel(a) PROVE ChInd' /\ NtInd'
    <2>1. UNCHANGED <<ntNow, ntSent, ntWork, ntAllowed, ntEvents>>
      BY <1>4 DEF UpdateChannel
    <2> QED
      BY <1>4, <2>1, UpdateChannelKeeps, NtFrame
  <1>5. ASSUME NEW a \in NotifAdmins, StoreChannel(a) PROVE ChInd' /\ NtInd'
    <2>1. UNCHANGED <<ntNow, ntSent, ntWork, ntAllowed, ntEvents>>
      BY <1>5 DEF StoreChannel
    <2> QED
      BY <1>5, <2>1, StoreChannelKeeps, NtFrame
  <1>6. ASSUME NEW u \in NotifUsers, NEW S \in SUBSET (Channels \X NotifTypes), SetSubscriptions(u, S)
        PROVE  ChInd' /\ NtInd'
    <2>1. UNCHANGED <<ntNow, ntSent, ntWork, ntAllowed, ntEvents>>
      BY <1>6 DEF SetSubscriptions
    <2> QED
      BY <1>6, <2>1, ListKeeps, NtFrame
  <1>7. ASSUME NEW w \in NotifWorkers, AllowStarts(w) PROVE ChInd' /\ NtInd'
    <2>1. UNCHANGED <<chRow, chSubs, chForm, chStripped>>
      BY <1>7 DEF AllowStarts, channelVars
    <2> QED
      BY <1>7, <2>1, DispatchKeeps, ChFrame
  <1>8. ASSUME NEW w \in NotifWorkers, NEW t \in NotifTypes, Dispatch(w, t) PROVE ChInd' /\ NtInd'
    <2>1. UNCHANGED <<chRow, chSubs, chForm, chStripped>>
      BY <1>8 DEF Dispatch, channelVars
    <2> QED
      BY <1>8, <2>1, DispatchKeeps, ChFrame
  <1>9. ASSUME NEW w \in NotifWorkers, Allow(w) PROVE ChInd' /\ NtInd'
    <2>1. UNCHANGED <<chRow, chSubs, chForm, chStripped>>
      BY <1>9 DEF Allow, channelVars
    <2> QED
      BY <1>9, <2>1, AllowKeeps, ChFrame
  <1>10. CASE NotifTick
    <2>1. UNCHANGED <<chRow, chSubs, chForm, chStripped>>
      BY <1>10 DEF NotifTick, channelVars
    <2> QED
      BY <1>10, <2>1, NotifTickKeeps, ChFrame
  <1>11. CASE UNCHANGED notifVars
    BY <1>11, ChFrame, NtFrame DEF notifVars
  <1> QED
    BY <1>1, <1>2, <1>3, <1>4, <1>5, <1>6, <1>7, <1>8, <1>9, <1>10, <1>11 DEF NotificationsNext

LEMMA NotifStrong == ChInd /\ NtInd => NotificationsInv
  BY DEF ChInd, NtInd, ChTypes, NtTypes, OneTime, SameKey, ChRows, Sent, NotificationsInv, NotificationsTypeOK

(* Notifications are sound: the mask never takes the place of a secret     *)
(* however forms overlap, and two notices of a type on a channel are an    *)
(* interval apart, less the time a worker waits for the limiter's lock,    *)
(* however many workers there are and whatever the limiter evicts.         *)
THEOREM NoticesAreSound == NotificationsSpec => []NotificationsInv
  <1> QED
    BY NotifIndInit, NotifIndNext, NotifStrong, PTL DEF NotificationsSpec

-----------------------------------------------------------------------------
(* The GitHub poller.                                                      *)

GitHubSpec == GitHubInit /\ [][GitHubNext]_ghVars

(* What the state store and a poll can be. *)
Snaps  == [processed : SUBSET GhItems, cursors : [Watches -> [CursorKinds -> 0 .. MaxTime]]]
Stamps == GhItems \X (0 .. MaxTime)
Visits == [at : {"visit"}, k : 1 .. 7, found : SUBSET GhItems, todo : SUBSET Stamps, latest : 0 .. MaxTime, low : BOOLEAN]
PollSteps == {IdlePoll} \cup [at : {"fetch"}, k : 1 .. 7, found : SUBSET GhItems]
                        \cup Visits \cup [at : {"create"}, found : SUBSET GhItems]
SaveSteps == [at : {"save"}, data : Snaps, next : PollSteps]

(* Where a poll is, or will be once its save has written the file. *)
StepOf(p)  == IF p.at = "save" THEN p.next ELSE p
At(w)      == StepOf(ghPoll[w])
FoundIn(p) == IF p.at \in {"fetch", "visit", "create"} THEN p.found ELSE {}

GhTypes ==
    /\ ghWatch \in [GhItems -> Watches] /\ ghTime \in [GhItems -> 0 .. MaxTime] /\ ghListed \subseteq GhItems
    /\ ghNow \in 0 .. MaxTime /\ ghMem \in Snaps /\ ghFile \in Snaps
    /\ ghPoll \in [Watches -> PollSteps \cup SaveSteps]
    /\ ghSessions \in [GhItems -> Nat] /\ ghSeen \in [GhItems -> 0 .. MaxTime] /\ ghFaults \in Nat

(* An item whose mark was not lost is in the hands of one poll at most,    *)
(* and before its session exists; both only with the mark.                 *)
Once ==
    \A i \in GhItems \ ghReset :
       /\ ghSessions[i] <= 1 /\ (ghSessions[i] = 1 => i \in ghMem.processed)
       /\ \A w \in Watches : i \in FoundIn(At(w)) =>
             /\ i \in ghMem.processed /\ ghSessions[i] = 0
             /\ \A v \in Watches : i \in FoundIn(At(v)) => v = w

(* No snapshot is ahead of memory. *)
Forward(s, d) == \A w \in Watches, k \in CursorKinds : s.cursors[w][k] <= d.cursors[w][k]
Older == Forward(ghFile, ghMem) /\ \A w \in Watches : ghPoll[w].at = "save" => Forward(ghPoll[w].data, ghMem)

(* Nothing is later than GitHub's clock. *)
Clock == /\ \A i \in GhItems : ghTime[i] <= ghNow
         /\ \A w \in Watches, k \in CursorKinds : ghMem.cursors[w][k] <= ghNow

CursorOf(i)  == ghMem.cursors[ghWatch[i]][ghKind[i]]
Passed(i, c) == ghTime[i] < c \/ (ghKind[i] = "pr" /\ ghTime[i] = c)
Followed     == {i \in ghListed \ ghTied : ghKind[i] \in CursorKinds}

(* A poll visits items of its watch and its trigger; what changed since    *)
(* the answer is ahead of both cursors, and what the new cursor passes was *)
(* seen or is still to be visited.                                         *)
VisitRight(w, p) ==
    p.at = "visit" =>
       /\ p.latest <= ghNow
       /\ \A v \in p.todo : ghWatch[v[1]] = w /\ ghKind[v[1]] = TriggerOrder[p.k]
       /\ \A v \in p.todo : v[1] \in Followed /\ v[2] # ghTime[v[1]] => ~Passed(v[1], CursorOf(v[1])) /\ ~Passed(v[1], p.latest)
       /\ \A i \in Followed : ghWatch[i] = w /\ ghKind[i] = TriggerOrder[p.k] /\ Passed(i, p.latest) =>
             ghSeen[i] = ghTime[i] \/ <<i, ghTime[i]>> \in p.todo
VisitsRight == \A w \in Watches : VisitRight(w, At(w))

CursorsRight == \A i \in Followed : Passed(i, CursorOf(i)) => ghSeen[i] = ghTime[i]

GhInd == GhTypes /\ Once /\ FileIsCurrent /\ Older /\ Clock /\ VisitsRight /\ CursorsRight

-----------------------------------------------------------------------------
(* Values. *)

LEMMA GhFacts == MaxTime \in Nat /\ IdlePoll.at = "idle" /\ IdlePoll \in PollSteps
  BY GitHubAssumption DEF IdlePoll, PollSteps

LEMMA StepValue ==
    ASSUME NEW p \in PollSteps
    PROVE  /\ p.at \in {"idle", "fetch", "visit", "create"} /\ FoundIn(p) \subseteq GhItems /\ StepOf(p) = p
           /\ p.at \in {"fetch", "visit"} => p.k \in 1 .. 7
           /\ p.at \in {"fetch", "visit", "create"} => p.found \subseteq GhItems /\ FoundIn(p) = p.found
           /\ p.at = "visit" => p \in Visits /\ p.todo \subseteq Stamps /\ p.latest \in 0 .. MaxTime /\ p.low \in BOOLEAN
           /\ p.at = "create" => p \in [at : {"create"}, found : SUBSET GhItems]
  <1>1. CASE p = IdlePoll
    BY <1>1, GhFacts DEF FoundIn, StepOf
  <1>2. CASE p \in [at : {"fetch"}, k : 1 .. 7, found : SUBSET GhItems]
    BY <1>2 DEF FoundIn, StepOf
  <1>3. CASE p \in Visits
    BY <1>3 DEF FoundIn, StepOf, Visits
  <1>4. CASE p \in [at : {"create"}, found : SUBSET GhItems]
    BY <1>4 DEF FoundIn, StepOf
  <1> QED
    BY <1>1, <1>2, <1>3, <1>4 DEF PollSteps

LEMMA PollValue ==
    ASSUME GhTypes, NEW w \in Watches
    PROVE  /\ At(w) \in PollSteps
           /\ ghPoll[w].at # "save" => At(w) = ghPoll[w] /\ ghPoll[w] \in PollSteps
           /\ ghPoll[w].at = "save" => At(w) = ghPoll[w].next /\ ghPoll[w].data \in Snaps /\ ghPoll[w].next \in PollSteps
  <1>1. ghPoll[w] \in PollSteps \cup SaveSteps
    BY DEF GhTypes
  <1>2. CASE ghPoll[w] \in PollSteps
    BY <1>2, StepValue DEF At
  <1>3. CASE ghPoll[w] \in SaveSteps
    BY <1>3 DEF At, StepOf, SaveSteps
  <1> QED
    BY <1>1, <1>2, <1>3

(* A poll goes on to another step, with or without a save. *)
LEMMA PollMoves ==
    ASSUME GhTypes, NEW w \in Watches, NEW p \in PollSteps, NEW to \in PollSteps \cup SaveSteps, StepOf(to) = p,
           ghPoll' = [ghPoll EXCEPT ![w] = to]
    PROVE  /\ ghPoll' \in [Watches -> PollSteps \cup SaveSteps] /\ ghPoll'[w] = to /\ At(w)' = p
           /\ \A v \in Watches : v # w => ghPoll'[v] = ghPoll[v] /\ At(v)' = At(v)
  <1>1. /\ ghPoll' \in [Watches -> PollSteps \cup SaveSteps] /\ ghPoll'[w] = to
        /\ \A v \in Watches : v # w => ghPoll'[v] = ghPoll[v]
    BY DEF GhTypes
  <1> QED
    BY <1>1 DEF At, StepOf

LEMMA SnapValue == ASSUME NEW s \in Snaps, NEW w \in Watches, NEW k \in CursorKinds
                   PROVE  s.cursors[w][k] \in 0 .. MaxTime /\ s.cursors[w][k] \in Nat /\ s.processed \subseteq GhItems
  BY GhFacts DEF Snaps

LEMMA ForwardSelf == \A s \in Snaps : Forward(s, s)
  <1> SUFFICES ASSUME NEW s \in Snaps, NEW w \in Watches, NEW k \in CursorKinds PROVE s.cursors[w][k] <= s.cursors[w][k]
    BY DEF Forward
  <1> QED
    BY SnapValue

LEMMA ForwardOn == ASSUME NEW a \in Snaps, NEW b \in Snaps, NEW c \in Snaps, Forward(a, b), Forward(b, c) PROVE Forward(a, c)
  <1> SUFFICES ASSUME NEW w \in Watches, NEW k \in CursorKinds PROVE a.cursors[w][k] <= c.cursors[w][k]
    BY DEF Forward
  <1>1. a.cursors[w][k] \in Nat /\ b.cursors[w][k] \in Nat /\ c.cursors[w][k] \in Nat
    BY SnapValue
  <1> QED
    BY <1>1 DEF Forward

LEMMA GhIndInit == GitHubInit => GhInd
  <1> SUFFICES ASSUME GitHubInit PROVE GhInd
    OBVIOUS
  <1>1. EmptyState \in Snaps
    BY GhFacts DEF EmptyState, Snaps
  <1>2. GhTypes
    BY <1>1, GhFacts DEF GitHubInit, GhTypes
  <1>3. \A w \in Watches : ghPoll[w] = IdlePoll /\ At(w) = IdlePoll /\ FoundIn(At(w)) = {}
    BY GhFacts DEF GitHubInit, At, StepOf, FoundIn
  <1>4. Once
    BY <1>3 DEF GitHubInit, Once
  <1>5. FileIsCurrent /\ Older
    BY <1>1, <1>3, GhFacts, ForwardSelf DEF GitHubInit, FileIsCurrent, Older
  <1>6. Clock
    BY GhFacts DEF GitHubInit, Clock, EmptyState
  <1>7. VisitsRight
    BY <1>3, GhFacts DEF VisitsRight, VisitRight
  <1>8. CursorsRight
    BY DEF GitHubInit, CursorsRight, Followed
  <1> QED
    BY <1>2, <1>4, <1>5, <1>6, <1>7, <1>8 DEF GhInd

-----------------------------------------------------------------------------
(* GitHub: what changes now is later than every cursor, or tied. *)

LEMMA ItemChangesKeeps == ASSUME GhInd, NEW i \in GhItems, ItemChanges(i) PROVE GhInd'
  <1> USE DEF GhInd
  <1>1. PICK t \in {ghNow, ghNow + 1} :
          /\ t \in 1 .. MaxTime /\ t > ghTime[i] /\ ghTime' = [ghTime EXCEPT ![i] = t] /\ ghNow' = t
          /\ ghListed' = ghListed \cup {i}
          /\ ghTied' = IF t = ghNow /\ ghKind[i] = "pr" THEN ghTied \cup {i} ELSE ghTied \ {i}
          /\ UNCHANGED <<ghKind, ghWatch, ghMem, ghFile, ghPoll, ghSessions, ghSeen, ghReset, ghBehind, ghFaults>>
    BY DEF ItemChanges
  <1>2. /\ ghTime' \in [GhItems -> 0 .. MaxTime] /\ ghTime'[i] = t
        /\ \A j \in GhItems : j # i => ghTime'[j] = ghTime[j]
    BY <1>1, GhFacts DEF GhTypes
  <1>3. GhTypes'
    BY <1>1, <1>2, GhFacts DEF GhTypes
  <1>4. ghNow \in Nat /\ t \in Nat /\ ghNow <= t
    BY <1>1, GhFacts DEF GhTypes
  <1>5. Once' /\ FileIsCurrent' /\ Older'
    BY <1>1 DEF Once, At, FileIsCurrent, Older
  <1>6. Clock'
    <2>1. \A j \in GhItems : ghTime[j] \in Nat /\ ghTime[j] <= ghNow
      BY GhFacts DEF GhTypes, Clock
    <2>2. \A w \in Watches, k \in CursorKinds : ghMem.cursors[w][k] \in Nat /\ ghMem.cursors[w][k] <= ghNow
      BY SnapValue DEF GhTypes, Clock
    <2>3. \A j \in GhItems : ghTime'[j] <= t
      BY <1>2, <1>4, <2>1
    <2>4. \A w \in Watches, k \in CursorKinds : ghMem.cursors[w][k] <= t
      BY <1>4, <2>2
    <2> QED
      BY <1>1, <2>3, <2>4 DEF Clock
  <1>7. i \in Followed' => \A c \in Nat : c <= ghNow => ~Passed(i, c)'
    <2> SUFFICES ASSUME i \in Followed', NEW c \in Nat, c <= ghNow PROVE ~Passed(i, c)'
      OBVIOUS
    <2>1. ~(t = ghNow /\ ghKind[i] = "pr")
      BY <1>1 DEF Followed
    <2> QED
      BY <1>1, <1>2, <1>4, <2>1 DEF Passed
  <1>8. \A j \in GhItems : j # i => /\ j \in Followed' <=> j \in Followed
                                    /\ \A c : Passed(j, c)' <=> Passed(j, c)
    BY <1>1, <1>2 DEF Followed, Passed
  <1>9. \A j \in Followed : j \in GhItems /\ CursorOf(j) \in Nat /\ CursorOf(j) <= ghNow
    BY SnapValue DEF Followed, GhTypes, CursorOf, Clock
  <1>10. i \in Followed' => CursorOf(i) \in Nat /\ CursorOf(i) <= ghNow
    BY <1>1, SnapValue DEF Followed, GhTypes, CursorOf, Clock
  <1>11. \A j \in GhItems : CursorOf(j)' = CursorOf(j)
    BY <1>1 DEF CursorOf
  <1>12. CursorsRight'
    <2> SUFFICES ASSUME NEW j \in Followed', Passed(j, CursorOf(j))' PROVE ghSeen'[j] = ghTime'[j]
      BY DEF CursorsRight
    <2>0. j \in GhItems
      BY <1>3 DEF Followed, GhTypes
    <2>1. CASE j = i
      BY <1>7, <1>10, <1>11, <2>1
    <2>2. CASE j # i
      BY <1>1, <1>2, <1>8, <1>11, <2>0, <2>2 DEF CursorsRight
    <2> QED
      BY <2>1, <2>2
  <1>13. VisitsRight'
    <2> SUFFICES ASSUME NEW w \in Watches PROVE VisitRight(w, At(w))'
      BY DEF VisitsRight
    <2> PICK p \in PollSteps : p = At(w)
      BY PollValue
    <2>1. At(w)' = p
      BY <1>1 DEF At
    <2> SUFFICES ASSUME p.at = "visit"
                 PROVE /\ p.latest <= ghNow'
                       /\ \A v \in p.todo : ghWatch'[v[1]] = w /\ ghKind'[v[1]] = TriggerOrder[p.k]
                       /\ \A v \in p.todo : v[1] \in Followed' /\ v[2] # ghTime'[v[1]] =>
                             ~Passed(v[1], CursorOf(v[1]))' /\ ~Passed(v[1], p.latest)'
                       /\ \A j \in Followed' : ghWatch'[j] = w /\ ghKind'[j] = TriggerOrder[p.k] /\ Passed(j, p.latest)' =>
                             ghSeen'[j] = ghTime'[j] \/ <<j, ghTime'[j]>> \in p.todo
      BY <2>1 DEF VisitRight
    <2>2. p.latest \in Nat /\ p.todo \subseteq Stamps
      BY StepValue, GhFacts
    <2>3. VisitRight(w, p)
      BY DEF VisitsRight
    <2>4. p.latest <= ghNow
      BY <2>3 DEF VisitRight
    <2>5. p.latest <= ghNow'
      BY <1>1, <1>4, <2>2, <2>4
    <2>6. \A v \in p.todo : ghWatch'[v[1]] = w /\ ghKind'[v[1]] = TriggerOrder[p.k]
      BY <1>1, <2>3 DEF VisitRight
    <2>7. ASSUME NEW v \in p.todo, v[1] \in Followed', v[2] # ghTime'[v[1]]
          PROVE  ~Passed(v[1], CursorOf(v[1]))' /\ ~Passed(v[1], p.latest)'
      <3> PICK j \in GhItems : j = v[1]
        BY <2>2 DEF Stamps
      <3>1. CASE j = i
        BY <1>7, <1>10, <1>11, <2>2, <2>4, <2>7, <3>1
      <3>2. CASE j # i
        BY <1>2, <1>8, <1>11, <2>3, <2>7, <3>2 DEF VisitRight
      <3> QED
        BY <3>1, <3>2
    <2>8. ASSUME NEW j \in Followed', ghWatch'[j] = w, ghKind'[j] = TriggerOrder[p.k], Passed(j, p.latest)'
          PROVE  ghSeen'[j] = ghTime'[j] \/ <<j, ghTime'[j]>> \in p.todo
      <3>0. j \in GhItems
        BY <1>3 DEF Followed, GhTypes
      <3>1. CASE j = i
        BY <1>7, <2>2, <2>4, <2>8, <3>1
      <3>2. CASE j # i
        BY <1>1, <1>2, <1>8, <2>3, <2>8, <3>0, <3>2 DEF VisitRight
      <3> QED
        BY <3>1, <3>2
    <2> QED
      BY <2>5, <2>6, <2>7, <2>8
  <1> QED
    BY <1>3, <1>5, <1>6, <1>12, <1>13

LEMMA ItemClosesKeeps == ASSUME GhInd, NEW i \in GhItems, ItemCloses(i) PROVE GhInd'
  <1> USE DEF GhInd
  <1>1. /\ ghListed' = ghListed \ {i}
        /\ UNCHANGED <<ghKind, ghWatch, ghTime, ghNow, ghMem, ghFile, ghPoll, ghSessions, ghSeen, ghReset, ghTied, ghBehind, ghFaults>>
    BY DEF ItemCloses, historyVars
  <1>2. GhTypes' /\ Once' /\ FileIsCurrent' /\ Older' /\ Clock'
    BY <1>1 DEF GhTypes, Once, At, FileIsCurrent, Older, Clock
  <1>3. \A j \in Followed' : j \in Followed
    BY <1>1 DEF Followed
  <1>4. /\ \A w \in Watches : At(w)' = At(w)
        /\ \A j : CursorOf(j)' = CursorOf(j) /\ (\A c : Passed(j, c)' <=> Passed(j, c))
    BY <1>1 DEF At, CursorOf, Passed
  <1>5. CursorsRight'
    BY <1>1, <1>3, <1>4 DEF CursorsRight
  <1>6. VisitsRight'
    <2> SUFFICES ASSUME NEW w \in Watches PROVE VisitRight(w, At(w))'
      BY DEF VisitsRight
    <2>1. VisitRight(w, At(w))
      BY DEF VisitsRight
    <2> QED
      BY <1>1, <1>3, <1>4, <2>1 DEF VisitRight
  <1> QED
    BY <1>2, <1>5, <1>6

-----------------------------------------------------------------------------
(* The state store. *)

Still == UNCHANGED <<ghKind, ghWatch, ghTime, ghListed, ghNow, ghTied>>

(* While GitHub and the cursors stand still, so does what the polls know.  *)
LEMMA StillKeeps ==
    ASSUME GhInd, Still, ghSeen' = ghSeen, ghMem'.cursors = ghMem.cursors
    PROVE  /\ Clock' /\ CursorsRight'
           /\ \A w \in Watches, p \in PollSteps : VisitRight(w, p) => VisitRight(w, p)'
  <1> USE DEF GhInd
  <1>1. Clock'
    BY DEF Clock, Still
  <1>2. /\ \A j : j \in Followed' <=> j \in Followed
        /\ \A j : CursorOf(j)' = CursorOf(j) /\ (\A c : Passed(j, c)' <=> Passed(j, c))
    BY DEF CursorOf, Passed, Followed, Still
  <1>3. CursorsRight'
    BY <1>2 DEF CursorsRight, Still
  <1>4. ASSUME NEW w \in Watches, NEW p \in PollSteps, VisitRight(w, p) PROVE VisitRight(w, p)'
    BY <1>2, <1>4 DEF VisitRight, Still
  <1> QED
    BY <1>1, <1>3, <1>4

LEMMA SaveWritesKeeps == ASSUME GhInd, NEW w \in Watches, SaveWrites(w) PROVE GhInd'
  <1> USE DEF GhInd
  <1>1. /\ ghPoll[w].at = "save" /\ Still /\ UNCHANGED <<ghMem, ghSessions, ghSeen, ghReset>>
        /\ \/ ghFile' = ghPoll[w].data /\ ghBehind' = (ghPoll[w].data # ghMem) /\ ghFaults' = ghFaults
           \/ ghFaults' = ghFaults + 1 /\ ghBehind' = TRUE /\ ghFile' = ghFile
        /\ ghPoll' = [ghPoll EXCEPT ![w] = ghPoll[w].next]
    BY DEF SaveWrites, worldVars, PollGoto, Still
  <1>2. At(w) = ghPoll[w].next /\ ghPoll[w].data \in Snaps /\ ghPoll[w].next \in PollSteps
    BY <1>1, PollValue
  <1> PICK p \in PollSteps : p = ghPoll[w].next
    BY <1>2
  <1>3. StepOf(p) = p /\ p.at # "save"
    BY StepValue
  <1>4. /\ ghPoll' \in [Watches -> PollSteps \cup SaveSteps] /\ ghPoll'[w] = p
        /\ \A v \in Watches : v # w => ghPoll'[v] = ghPoll[v]
        /\ \A v \in Watches : At(v)' = At(v)
    <2>1. ghPoll' = [ghPoll EXCEPT ![w] = p]
      BY <1>1
    <2> QED
      BY <1>2, <1>3, <2>1, PollMoves
  <1>5. GhTypes'
    BY <1>1, <1>2, <1>4 DEF GhTypes, Still
  <1>6. Once'
    BY <1>1, <1>4 DEF Once
  <1>7. FileIsCurrent'
    BY <1>1 DEF FileIsCurrent
  <1>8. Older'
    BY <1>1, <1>3, <1>4 DEF Older
  <1>9. Clock' /\ CursorsRight' /\ \A v \in Watches, q \in PollSteps : VisitRight(v, q) => VisitRight(v, q)'
    BY <1>1, StillKeeps
  <1>10. VisitsRight'
    <2> SUFFICES ASSUME NEW v \in Watches PROVE VisitRight(v, At(v))'
      BY DEF VisitsRight
    <2> PICK q \in PollSteps : q = At(v)
      BY PollValue
    <2>1. VisitRight(v, q)'
      BY <1>9 DEF VisitsRight
    <2> QED
      BY <1>4, <2>1
  <1> QED
    BY <1>5, <1>6, <1>7, <1>8, <1>9, <1>10

(* A poll goes on without a save and without a visit of its own. *)
LEMMA PollKeeps ==
    ASSUME GhInd, NEW w \in Watches, NEW p \in PollSteps, ghPoll[w].at # "save", ghPoll' = [ghPoll EXCEPT ![w] = p],
           FoundIn(p) \subseteq FoundIn(At(w)), VisitRight(w, p), Still,
           UNCHANGED <<ghMem, ghFile, ghSessions, ghSeen, ghReset, ghBehind, ghFaults>>
    PROVE  GhInd'
  <1> USE DEF GhInd
  <1>1. StepOf(p) = p /\ p.at # "save"
    BY StepValue
  <1>2. /\ ghPoll' \in [Watches -> PollSteps \cup SaveSteps] /\ ghPoll'[w] = p /\ At(w)' = p
        /\ \A v \in Watches : v # w => ghPoll'[v] = ghPoll[v] /\ At(v)' = At(v)
    BY <1>1, PollMoves
  <1>3. GhTypes'
    BY <1>2 DEF GhTypes, Still
  <1>4. \A v \in Watches : FoundIn(At(v)') \subseteq FoundIn(At(v))
    BY <1>2
  <1>5. Once'
    <2> SUFFICES ASSUME NEW i \in GhItems \ ghReset
                 PROVE  /\ ghSessions[i] <= 1 /\ (ghSessions[i] = 1 => i \in ghMem.processed)
                        /\ \A v \in Watches : i \in FoundIn(At(v)') =>
                              /\ i \in ghMem.processed /\ ghSessions[i] = 0
                              /\ \A u \in Watches : i \in FoundIn(At(u)') => u = v
      BY DEF Once, FoundIn
    <2> QED
      BY <1>4 DEF Once
  <1>6. FileIsCurrent'
    BY <1>2 DEF FileIsCurrent
  <1>7. Older'
    BY <1>1, <1>2 DEF Older, Forward
  <1>8. Clock' /\ CursorsRight' /\ \A v \in Watches, q \in PollSteps : VisitRight(v, q) => VisitRight(v, q)'
    BY StillKeeps
  <1>9. VisitsRight'
    <2> SUFFICES ASSUME NEW v \in Watches PROVE VisitRight(v, At(v))'
      BY DEF VisitsRight
    <2>1. CASE v = w
      BY <1>2, <1>8, <2>1
    <2>2. CASE v # w
      <3> PICK q \in PollSteps : q = At(v)
        BY PollValue
      <3>1. VisitRight(v, q)'
        BY <1>8 DEF VisitsRight
      <3> QED
        BY <1>2, <2>2, <3>1
    <2> QED
      BY <2>1, <2>2
  <1> QED
    BY <1>3, <1>5, <1>6, <1>7, <1>8, <1>9

(* A save with other marks and the same cursors: a poll's memory moves on. *)
LEMMA MarkMoves ==
    ASSUME GhInd, NEW w \in Watches, NEW data \in Snaps, NEW p \in PollSteps, Save(w, data, p), ghPoll[w].at # "save",
           data.cursors = ghMem.cursors, ghFile' = ghFile
    PROVE  /\ ghMem' = data /\ ghPoll' \in [Watches -> PollSteps \cup SaveSteps] /\ ghPoll'[w].at = "save" /\ At(w)' = p
           /\ \A v \in Watches : v # w => ghPoll'[v] = ghPoll[v] /\ At(v)' = At(v)
           /\ FileIsCurrent' /\ Older'
  <1> USE DEF GhInd
  <1> DEFINE to == [at |-> "save", data |-> data, next |-> p]
  <1>1. ghMem' = data /\ ghPoll' = [ghPoll EXCEPT ![w] = to]
    BY DEF Save, PollGoto
  <1>2. to \in SaveSteps /\ StepOf(to) = p /\ to.at = "save" /\ to.data = data
    BY DEF SaveSteps, StepOf
  <1> HIDE DEF to
  <1>3. /\ ghPoll' \in [Watches -> PollSteps \cup SaveSteps] /\ ghPoll'[w] = to /\ At(w)' = p
        /\ \A v \in Watches : v # w => ghPoll'[v] = ghPoll[v] /\ At(v)' = At(v)
    BY <1>1, <1>2, PollMoves
  <1>4. FileIsCurrent'
    BY <1>2, <1>3 DEF FileIsCurrent
  <1>5. \A s : Forward(s, ghMem) => Forward(s, data)
    BY DEF Forward
  <1>6. Forward(data, data)
    BY ForwardSelf
  <1>7. Older'
    <2>1. Forward(ghFile, data) /\ \A v \in Watches : v # w /\ ghPoll[v].at = "save" => Forward(ghPoll[v].data, data)
      BY <1>5 DEF Older
    <2>2. \A v \in Watches : ghPoll'[v].at = "save" => Forward(ghPoll'[v].data, data)
      BY <1>2, <1>3, <1>6, <2>1
    <2> QED
      BY <1>1, <2>1, <2>2 DEF Older, Forward
  <1> QED
    BY <1>1, <1>2, <1>3, <1>4, <1>7

LEMMA PruneKeeps == ASSUME GhInd, NEW w \in Watches, NEW i \in GhItems, Prune(w, i) PROVE GhInd'
  <1> USE DEF GhInd
  <1> DEFINE data == [ghMem EXCEPT !.processed = ghMem.processed \ {i}]
  <1>1. /\ ghPoll[w] = IdlePoll /\ ghFaults' = ghFaults + 1 /\ ghReset' = ghReset \cup {i} /\ Save(w, data, IdlePoll)
        /\ Still /\ UNCHANGED <<ghFile, ghSessions, ghSeen, ghBehind>>
    BY DEF Prune, worldVars, Still
  <1>2. data \in Snaps /\ data.cursors = ghMem.cursors /\ data.processed = ghMem.processed \ {i}
    BY DEF GhTypes, Snaps
  <1> HIDE DEF data
  <1>3. ghPoll[w].at # "save" /\ FoundIn(IdlePoll) = {} /\ IdlePoll \in PollSteps
    BY <1>1, GhFacts DEF FoundIn
  <1>4. /\ ghMem' = data /\ ghPoll' \in [Watches -> PollSteps \cup SaveSteps] /\ At(w)' = IdlePoll
        /\ \A v \in Watches : v # w => ghPoll'[v] = ghPoll[v] /\ At(v)' = At(v)
        /\ FileIsCurrent' /\ Older'
    BY <1>1, <1>2, <1>3, MarkMoves
  <1>5. GhTypes'
    BY <1>1, <1>2, <1>4 DEF GhTypes, Still
  <1>6. \A v \in Watches : FoundIn(At(v)') \subseteq FoundIn(At(v))
    BY <1>3, <1>4
  <1>7. Once'
    <2> SUFFICES ASSUME NEW j \in GhItems, j \notin ghReset, j # i
                 PROVE  /\ ghSessions[j] <= 1 /\ (ghSessions[j] = 1 => j \in data.processed)
                        /\ \A v \in Watches : j \in FoundIn(At(v)') =>
                              /\ j \in data.processed /\ ghSessions[j] = 0
                              /\ \A u \in Watches : j \in FoundIn(At(u)') => u = v
      BY <1>1, <1>4 DEF Once, FoundIn
    <2> QED
      BY <1>2, <1>6 DEF Once
  <1>8. ghMem'.cursors = ghMem.cursors
    BY <1>2, <1>4
  <1>9. Clock' /\ CursorsRight' /\ \A v \in Watches, q \in PollSteps : VisitRight(v, q) => VisitRight(v, q)'
    BY <1>1, <1>8, StillKeeps
  <1>10. VisitsRight'
    <2> SUFFICES ASSUME NEW v \in Watches PROVE VisitRight(v, At(v))'
      BY DEF VisitsRight
    <2>1. CASE v = w
      BY <1>4, <2>1, GhFacts DEF VisitRight
    <2>2. CASE v # w
      <3> PICK q \in PollSteps : q = At(v)
        BY PollValue
      <3>1. VisitRight(v, q)'
        BY <1>9 DEF VisitsRight
      <3> QED
        BY <1>4, <2>2, <3>1
    <2> QED
      BY <2>1, <2>2
  <1> QED
    BY <1>4, <1>5, <1>7, <1>9, <1>10

(* The bridge starts from the file: its cursors are behind those of memory.*)
LEMMA LoadKeeps == ASSUME GhInd, Load PROVE GhInd'
  <1> USE DEF GhInd
  <1>1. /\ ghFaults' = ghFaults + 1 /\ ghMem' = ghFile /\ ghPoll' = [w \in Watches |-> IdlePoll]
        /\ ghReset' = ghReset \cup (ghMem.processed \ ghFile.processed) /\ ghBehind' = FALSE
        /\ Still /\ UNCHANGED <<ghFile, ghSessions, ghSeen>>
    BY DEF Load, worldVars, Still
  <1>2. \A w \in Watches : ghPoll'[w] = IdlePoll /\ At(w)' = IdlePoll /\ FoundIn(At(w)') = {} /\ ghPoll'[w].at = "idle"
    BY <1>1, GhFacts DEF At, StepOf, FoundIn
  <1>3. GhTypes'
    BY <1>1, GhFacts DEF GhTypes, Still
  <1>4. Once'
    <2> SUFFICES ASSUME NEW i \in GhItems, i \notin ghReset, i \notin ghMem.processed \ ghFile.processed
                 PROVE  /\ ghSessions[i] <= 1 /\ (ghSessions[i] = 1 => i \in ghFile.processed)
                        /\ \A v \in Watches : ~(i \in FoundIn(At(v)'))
      BY <1>1 DEF Once, FoundIn
    <2> QED
      BY <1>2 DEF Once
  <1>5. FileIsCurrent'
    BY <1>1 DEF FileIsCurrent
  <1>6. Forward(ghFile, ghMem) /\ ghFile \in Snaps /\ ghMem \in Snaps
    BY DEF Older, GhTypes
  <1>7. Older'
    <2>1. Forward(ghFile, ghFile)
      BY <1>6, ForwardSelf
    <2> QED
      BY <1>1, <1>2, <2>1 DEF Older, Forward
  <1>8. ASSUME NEW w \in Watches, NEW k \in CursorKinds
        PROVE  /\ ghFile.cursors[w][k] <= ghMem.cursors[w][k] /\ ghMem.cursors[w][k] <= ghNow
               /\ ghFile.cursors[w][k] \in Nat /\ ghMem.cursors[w][k] \in Nat /\ ghNow \in Nat
    BY <1>6, SnapValue, GhFacts DEF Forward, Clock, GhTypes
  <1>9. Clock'
    <2>1. \A w \in Watches, k \in CursorKinds : ghFile.cursors[w][k] <= ghNow
      BY <1>8
    <2> QED
      BY <1>1, <2>1 DEF Clock, Still
  <1>10. CursorsRight'
    <2> SUFFICES ASSUME NEW i \in Followed, Passed(i, ghFile.cursors[ghWatch[i]][ghKind[i]]) PROVE ghSeen[i] = ghTime[i]
      BY <1>1 DEF CursorsRight, Followed, Passed, CursorOf, Still
    <2>1. i \in GhItems /\ ghTime[i] \in Nat /\ ghWatch[i] \in Watches /\ ghKind[i] \in CursorKinds
      BY GhFacts DEF Followed, GhTypes
    <2>2. Passed(i, CursorOf(i))
      BY <1>8, <2>1 DEF Passed, CursorOf
    <2> QED
      BY <2>2 DEF CursorsRight
  <1>11. VisitsRight'
    BY <1>2, GhFacts DEF VisitsRight, VisitRight
  <1> QED
    BY <1>3, <1>4, <1>5, <1>7, <1>9, <1>10, <1>11

-----------------------------------------------------------------------------
(* The first and the last of a set of numbers. *)

Below == OpToRel(<, Nat)

LEMMA BelowIs == /\ IsWellFoundedOn(Below, Nat)
                 /\ \A m, n \in Nat : m < n => <<m, n>> \in Below
  <1>1. IsWellFoundedOn(Below, Nat)
    BY NatLessThanWellFounded, Zenon DEF Below
  <1>2. \A m, n \in Nat : m < n => <<m, n>> \in Below
    BY DEF Below, OpToRel
  <1> QED
    BY <1>1, <1>2

LEMMA MaxInside ==
    ASSUME NEW n \in Nat, NEW S \in SUBSET (0 .. n), S # {}
    PROVE  Max(S) \in S /\ \A x \in S : x <= Max(S)
  <1> DEFINE T == {n - x : x \in S}
  <1>1. T \subseteq Nat
    OBVIOUS
  <1>0. T # {}
    <2> PICK x : x \in S
      OBVIOUS
    <2>1. n - x \in T
      OBVIOUS
    <2> QED
      BY <2>1
  <1>2. PICK t \in T : \A y \in T : ~(<<y, t>> \in Below)
    <2> HIDE DEF T
    <2>1. IsWellFoundedOn(Below, Nat)
      BY BelowIs
    <2> QED
      BY <1>0, <1>1, <2>1, WFMin, Zenon
  <1>3. PICK m \in S : t = n - m
    OBVIOUS
  <1>4. \A x \in S : m >= x
    <2> SUFFICES ASSUME NEW x \in S PROVE m >= x
      OBVIOUS
    <2>1. n - x \in T /\ n - x \in Nat /\ n - m \in Nat
      OBVIOUS
    <2>2. ~(n - x < n - m)
      BY <1>2, <1>3, <2>1, BelowIs
    <2> QED
      BY <2>2
  <1>5. Max(S) \in S /\ \A y \in S : Max(S) >= y
    BY <1>4 DEF Max
  <1> QED
    BY <1>5

LEMMA MinInside == ASSUME NEW S \in SUBSET Nat, S # {} PROVE Min(S) \in S
  <1>1. IsWellFoundedOn(Below, Nat)
    BY BelowIs
  <1>2. PICK m \in S : \A y \in S : ~(<<y, m>> \in Below)
    BY <1>1, WFMin, Zenon
  <1>3. \A y \in S : m =< y
    <2> SUFFICES ASSUME NEW y \in S PROVE m =< y
      OBVIOUS
    <2>1. ~(y < m)
      BY <1>2, BelowIs
    <2> QED
      BY <2>1
  <1> QED
    BY <1>3 DEF Min

LEMMA LatestValue ==
    ASSUME GhInd, NEW S \in SUBSET GhItems PROVE Latest(S) \in 0 .. MaxTime /\ Latest(S) <= ghNow
  <1> DEFINE T == {0} \cup {ghTime[i] : i \in S}
  <1>1. ghNow \in Nat /\ ghNow <= MaxTime /\ \A i \in S : ghTime[i] \in 0 .. ghNow
    BY GhFacts DEF GhInd, GhTypes, Clock
  <1>2. T \in SUBSET (0 .. ghNow) /\ T # {}
    BY <1>1
  <1>3. Max(T) \in T
    <2> HIDE DEF T
    <2> QED
      BY <1>1, <1>2, MaxInside
  <1>4. Max(T) \in 0 .. ghNow
    BY <1>2, <1>3
  <1>5. Latest(S) \in 0 .. ghNow
    BY <1>4 DEF Latest
  <1> QED
    BY <1>1, <1>5, GhFacts

-----------------------------------------------------------------------------
(* A poll. *)

LEMMA VisitKeeps ==
    ASSUME GhInd, NEW w \in Watches, NEW S \in SUBSET ghListed, NEW latest \in 0 .. MaxTime, NEW low \in BOOLEAN,
           ghPoll[w].at = "fetch", Visit(w, S, latest, low), latest <= ghNow,
           \A i \in S : ghWatch[i] = w /\ ghKind[i] = TriggerOrder[ghPoll[w].k],
           \A i \in Followed : ghWatch[i] = w /\ ghKind[i] = TriggerOrder[ghPoll[w].k] /\ Passed(i, latest) =>
              i \in S \/ ghSeen[i] = ghTime[i]
    PROVE  GhInd'
  <1> DEFINE p == [at |-> "visit", k |-> ghPoll[w].k, found |-> ghPoll[w].found,
                   todo |-> Stamped(S), latest |-> latest, low |-> low]
  <1>1. At(w) = ghPoll[w] /\ ghPoll[w] \in PollSteps
    BY PollValue DEF GhInd
  <1>2. ghPoll[w].k \in 1 .. 7 /\ ghPoll[w].found \subseteq GhItems /\ FoundIn(At(w)) = ghPoll[w].found
    BY <1>1, StepValue
  <1>3. Stamped(S) \subseteq Stamps
    BY DEF GhInd, GhTypes, Stamped, Stamps
  <1>4. p \in Visits
    BY <1>2, <1>3 DEF Visits
  <1>5. /\ p.at = "visit" /\ p.k = ghPoll[w].k /\ p.todo = Stamped(S) /\ p.latest = latest
        /\ FoundIn(p) = ghPoll[w].found
    BY DEF FoundIn
  <1>6. /\ ghPoll' = [ghPoll EXCEPT ![w] = p] /\ Still
        /\ UNCHANGED <<ghMem, ghFile, ghSessions, ghSeen, ghReset, ghBehind, ghFaults>>
    BY DEF Visit, PollGoto, worldVars, Still
  <1> HIDE DEF p
  <1>7. p \in PollSteps
    BY <1>4 DEF PollSteps
  <1>8. \A v \in p.todo : v[1] \in S /\ v[2] = ghTime[v[1]]
    BY <1>5 DEF Stamped
  <1>9. \A i \in S : <<i, ghTime[i]>> \in p.todo
    BY <1>5 DEF Stamped
  <1>10. VisitRight(w, p)
    BY <1>5, <1>8, <1>9 DEF VisitRight
  <1>11. FoundIn(p) \subseteq FoundIn(At(w))
    BY <1>2, <1>5
  <1> QED
    BY <1>6, <1>7, <1>10, <1>11, PollKeeps

(* An answer for a trigger without a cursor. *)
LEMMA PlainFetchKeeps ==
    ASSUME GhInd, NEW w \in Watches, NEW kind, kind \notin CursorKinds, AtTrigger(w, kind), NEW low \in BOOLEAN,
           Visit(w, Listed(w, kind), 0, low) \/ Visit(w, {}, 0, low)
    PROVE  GhInd'
  <1>1. ghPoll[w].at = "fetch" /\ TriggerOrder[ghPoll[w].k] = kind
    BY DEF AtTrigger
  <1>2. 0 \in 0 .. MaxTime /\ 0 <= ghNow
    BY GhFacts DEF GhInd, GhTypes
  <1>3. ASSUME NEW S \in SUBSET Listed(w, kind), Visit(w, S, 0, low) PROVE GhInd'
    <2>1. S \in SUBSET ghListed /\ \A i \in S : ghWatch[i] = w /\ ghKind[i] = TriggerOrder[ghPoll[w].k]
      BY <1>1 DEF Listed
    <2>2. \A i \in Followed : ~(ghKind[i] = TriggerOrder[ghPoll[w].k])
      BY <1>1 DEF Followed
    <2> QED
      BY <1>1, <1>2, <1>3, <2>1, <2>2, VisitKeeps
  <1> QED
    BY <1>3

(* An answer for one with: items not in it are behind the cursor, and seen.*)
LEMMA CursorFetchKeeps ==
    ASSUME GhInd, NEW w \in Watches, NEW kind \in CursorKinds, AtTrigger(w, kind), NEW low \in BOOLEAN,
           NEW S \in SUBSET Listed(w, kind), NEW T \in SUBSET Listed(w, kind), Visit(w, S, Latest(T), low),
           \A i \in Listed(w, kind) : i \in S \/ Passed(i, GetCursor(w, kind))
    PROVE  GhInd'
  <1>1. ghPoll[w].at = "fetch" /\ TriggerOrder[ghPoll[w].k] = kind
    BY DEF AtTrigger
  <1>2. T \in SUBSET GhItems
    BY DEF Listed, GhInd, GhTypes
  <1>3. Latest(T) \in 0 .. MaxTime /\ Latest(T) <= ghNow
    BY <1>2, LatestValue
  <1>4. S \in SUBSET ghListed /\ \A i \in S : ghWatch[i] = w /\ ghKind[i] = TriggerOrder[ghPoll[w].k]
    BY <1>1 DEF Listed
  <1>5. \A i \in Followed : ghWatch[i] = w /\ ghKind[i] = kind => i \in S \/ ghSeen[i] = ghTime[i]
    BY DEF Followed, Listed, GetCursor, CursorOf, CursorsRight, GhInd
  <1> QED
    BY <1>1, <1>3, <1>4, <1>5, VisitKeeps

LEMMA FetchedKeeps ==
    ASSUME GhInd, NEW w \in Watches, FetchSkipped(w) \/ \E low \in BOOLEAN : Fetched(w, low)
    PROVE  GhInd'
  <1>0. ASSUME NEW S \in SUBSET GhItems, NEW c \in CursorKinds
        PROVE  /\ \A i \in S : ghTime[i] \in Nat /\ GetCursor(w, c) \in Nat
               /\ After(S, GetCursor(w, c)) \subseteq S /\ Since(S, GetCursor(w, c)) \subseteq S
    BY SnapValue, GhFacts DEF GhInd, GhTypes, GetCursor, After, Since
  <1>1. CASE FetchSkipped(w)
    <2>1. /\ FALSE \in BOOLEAN /\ "check" \notin CursorKinds /\ "review" \notin CursorKinds
          /\ AtTrigger(w, "check") \/ AtTrigger(w, "review")
          /\ Visit(w, {}, 0, FALSE)
      BY <1>1 DEF FetchSkipped, CursorKinds
    <2> QED
      BY <2>1, PlainFetchKeeps
  <1>2. ASSUME NEW low \in BOOLEAN, Fetched(w, low) PROVE GhInd'
    <2>1. CASE processPRs(w, low)
      <3> DEFINE L == Listed(w, "pr")
                 S == After(L, GetCursor(w, "pr"))
      <3>0. "pr" \in CursorKinds /\ L \in SUBSET GhItems
        BY DEF CursorKinds, Listed, GhInd, GhTypes
      <3>1. AtTrigger(w, "pr") /\ Visit(w, S, Latest(L), low)
        BY <2>1 DEF processPRs, fetchOpenPRs
      <3>2. \A i \in L : i \in S \/ Passed(i, GetCursor(w, "pr"))
        <4>1. \A i \in L : ghTime[i] \in Nat /\ GetCursor(w, "pr") \in Nat /\ ghKind[i] = "pr"
          BY <1>0, <3>0 DEF Listed
        <4> QED
          BY <4>1 DEF After, Passed
      <3>3. S \in SUBSET L
        BY <1>0, <3>0
      <3> HIDE DEF S
      <3> QED
        BY <3>0, <3>1, <3>2, <3>3, CursorFetchKeeps
    <2>2. ASSUME NEW kind \in {"issue_comment", "pr_comment"}, AtTrigger(w, kind),
                 Visit(w, Since(Listed(w, kind), GetCursor(w, kind)), Latest(Since(Listed(w, kind), GetCursor(w, kind))), low)
          PROVE  GhInd'
      <3> DEFINE L == Listed(w, kind)
                 S == Since(L, GetCursor(w, kind))
      <3>0. kind \in CursorKinds /\ L \in SUBSET GhItems
        BY DEF CursorKinds, Listed, GhInd, GhTypes
      <3>2. \A i \in L : i \in S \/ Passed(i, GetCursor(w, kind))
        <4>1. \A i \in L : ghTime[i] \in Nat /\ GetCursor(w, kind) \in Nat
          BY <1>0, <3>0
        <4> QED
          BY <4>1 DEF Since, Passed
      <3>3. S \in SUBSET L /\ Visit(w, S, Latest(S), low)
        BY <1>0, <2>2, <3>0
      <3> HIDE DEF S
      <3> QED
        BY <2>2, <3>0, <3>2, <3>3, CursorFetchKeeps
    <2>3. CASE processIssueComments(w, low) \/ processPRComments(w, low)
      BY <2>2, <2>3 DEF processIssueComments, processPRComments
    <2>4. CASE processCheckRuns(w, low) \/ processIssues(w, low) \/ processPRReviews(w, low) \/ processReleases(w, low)
      <3>1. \E kind \in {"check", "issue", "review", "release"} : AtTrigger(w, kind) /\ Visit(w, Listed(w, kind), 0, low)
        BY <2>4 DEF processCheckRuns, processIssues, processPRReviews, processReleases, fetchCheckRuns, fetchPRReviews
      <3>2. PICK kind \in {"check", "issue", "review", "release"} : AtTrigger(w, kind) /\ Visit(w, Listed(w, kind), 0, low)
        BY <3>1
      <3>3. kind \notin CursorKinds
        BY DEF CursorKinds
      <3> QED
        BY <3>2, <3>3, PlainFetchKeeps
    <2> QED
      BY <1>2, <2>1, <2>3, <2>4 DEF Fetched
  <1> QED
    BY <1>1, <1>2

LEMMA PollEdgesKeep == ASSUME GhInd, NEW w \in Watches, runWatch(w) \/ PollFails(w) \/ pollOnceEnds(w) PROVE GhInd'
  <1>1. /\ ghPoll[w].at # "save" /\ Still
        /\ UNCHANGED <<ghMem, ghFile, ghSessions, ghSeen, ghReset, ghBehind, ghFaults>>
    BY GhFacts DEF runWatch, PollFails, pollOnceEnds, worldVars, Still
  <1>2. CASE ghPoll' = [ghPoll EXCEPT ![w] = IdlePoll]
    <2>1. FoundIn(IdlePoll) = {} /\ VisitRight(w, IdlePoll) /\ IdlePoll \in PollSteps
      BY GhFacts DEF FoundIn, VisitRight
    <2> QED
      BY <1>1, <1>2, <2>1, PollKeeps
  <1>3. CASE runWatch(w)
    <2> DEFINE p == [at |-> "fetch", k |-> Min(Configured(w)), found |-> {}]
    <2>1. ghPoll' = [ghPoll EXCEPT ![w] = p] /\ Configured(w) # {}
      BY <1>3 DEF runWatch, PollGoto
    <2>2. Configured(w) \in SUBSET Nat /\ Configured(w) \subseteq 1 .. 7
      BY DEF Configured
    <2>3. Min(Configured(w)) \in 1 .. 7
      BY <2>1, <2>2, MinInside
    <2>4. p \in PollSteps /\ FoundIn(p) = {} /\ VisitRight(w, p)
      BY <2>3 DEF PollSteps, FoundIn, VisitRight
    <2> HIDE DEF p
    <2> QED
      BY <1>1, <2>1, <2>4, PollKeeps
  <1> QED
    BY <1>2, <1>3 DEF PollFails, pollOnceEnds, PollGoto

(* An item is held against the filters: what was passed is seen still. *)
LEMMA SeenKeeps ==
    ASSUME GhInd, NEW w \in Watches, NEW p \in Visits, NEW q \in PollSteps, NEW v \in p.todo, At(w) = p, At(w)' = q,
           q.at = "visit", q.k = p.k, q.latest = p.latest, q.todo = p.todo \ {v},
           ghSeen' = [ghSeen EXCEPT ![v[1]] = v[2]], Still, ghMem'.cursors = ghMem.cursors,
           \A u \in Watches : u # w => At(u)' = At(u)
    PROVE  ghSeen' \in [GhItems -> 0 .. MaxTime] /\ Clock' /\ CursorsRight' /\ VisitsRight'
  <1> USE DEF GhInd
  <1>1. p.at = "visit" /\ p.todo \subseteq Stamps
    BY DEF Visits
  <1> PICK i \in GhItems, t \in 0 .. MaxTime : v = <<i, t>>
    BY <1>1 DEF Stamps
  <1>2. ghSeen' \in [GhItems -> 0 .. MaxTime] /\ ghSeen'[i] = t /\ \A j \in GhItems : j # i => ghSeen'[j] = ghSeen[j]
    BY DEF GhTypes
  <1>3. /\ \A j : j \in Followed' <=> j \in Followed
        /\ \A j : CursorOf(j)' = CursorOf(j) /\ (\A c : Passed(j, c)' <=> Passed(j, c))
    BY DEF CursorOf, Passed, Followed, Still
  <1>4. Clock'
    BY DEF Clock, Still
  <1>5. VisitRight(w, p)
    BY DEF VisitsRight
  <1>6. /\ ghWatch[i] = w /\ ghKind[i] = TriggerOrder[p.k]
        /\ i \in Followed /\ t # ghTime[i] => ~Passed(i, CursorOf(i)) /\ ~Passed(i, p.latest)
    BY <1>1, <1>5 DEF VisitRight
  <1>7. \A j \in Followed : j \in GhItems
    BY DEF Followed, GhTypes
  <1>8. CursorsRight'
    <2> SUFFICES ASSUME NEW j \in Followed, Passed(j, CursorOf(j)) PROVE ghSeen'[j] = ghTime[j]
      BY <1>3 DEF CursorsRight, Still
    <2>1. CASE j = i
      BY <1>2, <1>6, <2>1
    <2>2. CASE j # i
      BY <1>2, <1>7, <2>2 DEF CursorsRight
    <2> QED
      BY <2>1, <2>2
  <1>9. VisitsRight'
    <2> SUFFICES ASSUME NEW u \in Watches PROVE VisitRight(u, At(u))'
      BY DEF VisitsRight
    <2>1. CASE u = w
      <3>1. \A j \in Followed : ghWatch[j] = w /\ ghKind[j] = TriggerOrder[q.k] /\ Passed(j, q.latest) =>
               ghSeen'[j] = ghTime[j] \/ <<j, ghTime[j]>> \in q.todo
        <4> SUFFICES ASSUME NEW j \in Followed, ghWatch[j] = w, ghKind[j] = TriggerOrder[p.k], Passed(j, p.latest)
                     PROVE  ghSeen'[j] = ghTime[j] \/ <<j, ghTime[j]>> \in q.todo
          OBVIOUS
        <4>1. CASE j = i
          BY <1>2, <1>6, <4>1
        <4>2. CASE j # i
          <5>1. ghSeen[j] = ghTime[j] \/ <<j, ghTime[j]>> \in p.todo
            BY <1>1, <1>5 DEF VisitRight
          <5>2. <<j, ghTime[j]>> # v
            BY <4>2
          <5> QED
            BY <1>2, <1>7, <4>2, <5>1, <5>2
        <4> QED
          BY <4>1, <4>2
      <3>2. /\ q.latest <= ghNow
            /\ \A x \in q.todo : ghWatch[x[1]] = w /\ ghKind[x[1]] = TriggerOrder[q.k]
            /\ \A x \in q.todo : x[1] \in Followed /\ x[2] # ghTime[x[1]] =>
                  ~Passed(x[1], CursorOf(x[1])) /\ ~Passed(x[1], q.latest)
        BY <1>1, <1>5 DEF VisitRight
      <3>3. VisitRight(w, q)'
        BY <1>3, <3>1, <3>2 DEF VisitRight, Still
      <3> QED
        BY <2>1, <3>3
    <2>2. CASE u # w
      <3> PICK r \in PollSteps : r = At(u)
        BY PollValue
      <3>1. VisitRight(u, r)
        BY DEF VisitsRight
      <3>2. \A j \in Followed : ghWatch[j] = u => ghSeen'[j] = ghSeen[j]
        BY <1>2, <1>6, <1>7, <2>2
      <3>3. VisitRight(u, r)'
        BY <1>3, <3>1, <3>2 DEF VisitRight, Still
      <3> QED
        BY <2>2, <3>3
    <2> QED
      BY <2>1, <2>2
  <1> QED
    BY <1>2, <1>4, <1>8, <1>9

(* What is left of an answer after an item, and after one that is marked.  *)
RestOf(p, v)   == [p EXCEPT !.todo = @ \ {v}]
MarkedOf(p, v) == [RestOf(p, v) EXCEPT !.found = @ \cup {v[1]}]

LEMMA RestValue ==
    ASSUME NEW p \in Visits, NEW v \in p.todo
    PROVE  /\ v[1] \in GhItems
           /\ RestOf(p, v) \in Visits /\ RestOf(p, v).at = "visit" /\ RestOf(p, v).k = p.k /\ RestOf(p, v).latest = p.latest
           /\ RestOf(p, v).todo = p.todo \ {v} /\ RestOf(p, v).found = p.found
           /\ MarkedOf(p, v) \in Visits /\ MarkedOf(p, v).at = "visit" /\ MarkedOf(p, v).k = p.k
           /\ MarkedOf(p, v).latest = p.latest /\ MarkedOf(p, v).todo = p.todo \ {v}
           /\ MarkedOf(p, v).found = p.found \cup {v[1]}
  <1>1. v[1] \in GhItems /\ p.found \subseteq GhItems
    BY DEF Visits, Stamps
  <1>2. /\ RestOf(p, v) \in Visits /\ RestOf(p, v).at = "visit" /\ RestOf(p, v).k = p.k /\ RestOf(p, v).latest = p.latest
        /\ RestOf(p, v).todo = p.todo \ {v} /\ RestOf(p, v).found = p.found
    BY DEF Visits, RestOf
  <1>3. /\ MarkedOf(p, v) \in Visits /\ MarkedOf(p, v).at = "visit" /\ MarkedOf(p, v).k = p.k
        /\ MarkedOf(p, v).latest = p.latest /\ MarkedOf(p, v).todo = p.todo \ {v}
        /\ MarkedOf(p, v).found = p.found \cup {v[1]}
    BY <1>1, <1>2 DEF Visits, MarkedOf
  <1> QED
    BY <1>1, <1>2, <1>3

LEMMA VisitItemKeeps == ASSUME GhInd, NEW w \in Watches, VisitItem(w) PROVE GhInd'
  <1> USE DEF GhInd
  <1>1. /\ ghPoll[w].at = "visit" /\ Still /\ UNCHANGED <<ghFile, ghSessions, ghReset, ghBehind, ghFaults>>
    BY DEF VisitItem, worldVars, Still
  <1>2. At(w) = ghPoll[w] /\ ghPoll[w] \in PollSteps
    BY <1>1, PollValue
  <1>3. ghPoll[w] \in Visits /\ FoundIn(At(w)) = ghPoll[w].found
    BY <1>1, <1>2, StepValue
  <1> PICK p \in Visits : p = ghPoll[w]
    BY <1>3
  <1>4. PICK v \in p.todo :
          /\ ghSeen' = [ghSeen EXCEPT ![v[1]] = v[2]]
          /\ \/ PollGoto(w, RestOf(p, v)) /\ ghMem' = ghMem
             \/ /\ v[1] \notin ghMem.processed
                /\ Save(w, [ghMem EXCEPT !.processed = ghMem.processed \cup {v[1]}],
                           MarkedOf(p, v))
    BY DEF VisitItem, MarkProcessed, IsProcessed, RestOf, MarkedOf
  <1>5. v[1] \in GhItems /\ p.todo \subseteq Stamps /\ p.found \subseteq GhItems
    BY DEF Visits, Stamps
  <1>6. CASE PollGoto(w, RestOf(p, v)) /\ ghMem' = ghMem
    <2> DEFINE q == RestOf(p, v)
    <2>1. q \in Visits /\ q.at = "visit" /\ q.k = p.k /\ q.latest = p.latest /\ q.todo = p.todo \ {v} /\ q.found = p.found
      BY RestValue
    <2>2. ghPoll' = [ghPoll EXCEPT ![w] = q]
      BY <1>6 DEF PollGoto
    <2> HIDE DEF q
    <2>3. q \in PollSteps /\ StepOf(q) = q
      BY <2>1, StepValue DEF PollSteps
    <2>4. /\ ghPoll' \in [Watches -> PollSteps \cup SaveSteps] /\ ghPoll'[w] = q /\ At(w)' = q
          /\ \A u \in Watches : u # w => ghPoll'[u] = ghPoll[u] /\ At(u)' = At(u)
      BY <2>2, <2>3, PollMoves
    <2>5. ghSeen' \in [GhItems -> 0 .. MaxTime] /\ Clock' /\ CursorsRight' /\ VisitsRight'
      <3>1. ghMem'.cursors = ghMem.cursors /\ \A u \in Watches : u # w => At(u)' = At(u)
        BY <1>6, <2>4
      <3>2. At(w) = p /\ ghSeen' = [ghSeen EXCEPT ![v[1]] = v[2]]
        BY <1>2, <1>4
      <3> QED
        BY <1>1, <2>1, <2>3, <2>4, <3>1, <3>2, SeenKeeps
    <2>6. GhTypes'
      BY <1>1, <1>6, <2>4, <2>5 DEF GhTypes, Still
    <2>7. \A u \in Watches : FoundIn(At(u)') = FoundIn(At(u))
      <3>1. FoundIn(q) = q.found
        BY <2>1, <2>3, StepValue
      <3> QED
        BY <1>3, <2>1, <2>4, <3>1
    <2>8. Once'
      <3> SUFFICES ASSUME NEW i \in GhItems \ ghReset
                   PROVE  /\ ghSessions[i] <= 1 /\ (ghSessions[i] = 1 => i \in ghMem.processed)
                          /\ \A u \in Watches : i \in FoundIn(At(u)') =>
                                /\ i \in ghMem.processed /\ ghSessions[i] = 0
                                /\ \A x \in Watches : i \in FoundIn(At(x)') => x = u
        BY <1>1, <1>6 DEF Once, FoundIn
      <3> QED
        BY <2>7 DEF Once
    <2>9. FileIsCurrent' /\ Older'
      BY <1>1, <1>6, <2>1, <2>4 DEF FileIsCurrent, Older, Forward
    <2> QED
      BY <2>5, <2>6, <2>8, <2>9
  <1>7. CASE /\ v[1] \notin ghMem.processed
             /\ Save(w, [ghMem EXCEPT !.processed = ghMem.processed \cup {v[1]}],
                        MarkedOf(p, v))
    <2> DEFINE q    == MarkedOf(p, v)
               data == [ghMem EXCEPT !.processed = ghMem.processed \cup {v[1]}]
    <2>1. /\ q \in Visits /\ q.at = "visit" /\ q.k = p.k /\ q.latest = p.latest /\ q.todo = p.todo \ {v}
          /\ q.found = p.found \cup {v[1]}
      BY RestValue
    <2>2. data \in Snaps /\ data.cursors = ghMem.cursors /\ data.processed = ghMem.processed \cup {v[1]}
      BY <1>5 DEF Snaps, GhTypes
    <2>3. Save(w, data, q)
      BY <1>7
    <2> HIDE DEF q, data
    <2>4. q \in PollSteps
      BY <2>1 DEF PollSteps
    <2>5. /\ ghMem' = data /\ ghPoll' \in [Watches -> PollSteps \cup SaveSteps] /\ At(w)' = q
          /\ \A u \in Watches : u # w => At(u)' = At(u)
          /\ FileIsCurrent' /\ Older'
      BY <1>1, <2>2, <2>3, <2>4, MarkMoves
    <2>6. ghSeen' \in [GhItems -> 0 .. MaxTime] /\ Clock' /\ CursorsRight' /\ VisitsRight'
      <3>1. ghMem'.cursors = ghMem.cursors /\ \A u \in Watches : u # w => At(u)' = At(u)
        BY <2>2, <2>5
      <3>2. At(w) = p /\ ghSeen' = [ghSeen EXCEPT ![v[1]] = v[2]]
        BY <1>2, <1>4
      <3> QED
        BY <1>1, <2>1, <2>4, <2>5, <3>1, <3>2, SeenKeeps
    <2>7. GhTypes'
      BY <1>1, <2>2, <2>5, <2>6 DEF GhTypes, Still
    <2>8. /\ FoundIn(At(w)') = FoundIn(At(w)) \cup {v[1]}
          /\ \A u \in Watches : u # w => FoundIn(At(u)') = FoundIn(At(u))
      <3>1. FoundIn(q) = q.found
        BY <2>1, <2>4, StepValue
      <3> QED
        BY <1>3, <2>1, <2>5, <3>1
    <2>9. \A u \in Watches : v[1] \notin ghReset => v[1] \notin FoundIn(At(u)) /\ ghSessions[v[1]] = 0
      BY <1>5, <1>7 DEF Once, GhTypes
    <2>10. Once'
      <3> SUFFICES ASSUME NEW i \in GhItems \ ghReset
                   PROVE  /\ ghSessions[i] <= 1 /\ (ghSessions[i] = 1 => i \in data.processed)
                          /\ \A u \in Watches : i \in FoundIn(At(u)') =>
                                /\ i \in data.processed /\ ghSessions[i] = 0
                                /\ \A x \in Watches : i \in FoundIn(At(x)') => x = u
        BY <1>1, <2>5 DEF Once, FoundIn
      <3>1. CASE i = v[1]
        BY <2>2, <2>8, <2>9, <3>1
      <3>2. CASE i # v[1]
        BY <2>2, <2>8, <3>2 DEF Once
      <3> QED
        BY <3>1, <3>2
    <2> QED
      BY <2>5, <2>6, <2>7, <2>10
  <1> QED
    BY <1>4, <1>6, <1>7

LEMMA AfterTriggerValue ==
    ASSUME NEW w, NEW k \in 1 .. 7, NEW low \in BOOLEAN, NEW found \in SUBSET GhItems
    PROVE  /\ AfterTrigger(w, k, low, found) \in PollSteps
           /\ FoundIn(AfterTrigger(w, k, low, found)) = found /\ AfterTrigger(w, k, low, found).at # "visit"
  <1> DEFINE rest == {l \in Configured(w) : l > k}
             c == [at |-> "create", found |-> found]
             f == [at |-> "fetch", k |-> Min(rest), found |-> found]
  <1>1. rest \in SUBSET Nat /\ rest \subseteq 1 .. 7
    BY DEF Configured
  <1>2. rest # {} => Min(rest) \in 1 .. 7
    <2> HIDE DEF rest
    <2> QED
      BY <1>1, MinInside
  <1>3. c \in PollSteps /\ FoundIn(c) = found /\ c.at # "visit"
    BY DEF PollSteps, FoundIn
  <1>4. rest # {} => f \in PollSteps /\ FoundIn(f) = found /\ f.at # "visit"
    BY <1>2 DEF PollSteps, FoundIn
  <1>5. AfterTrigger(w, k, low, found) = IF low \/ rest = {} THEN c ELSE f
    BY DEF AfterTrigger
  <1> HIDE DEF rest, c, f
  <1> QED
    BY <1>3, <1>4, <1>5

(* The cursor moves once everything it passes was visited.                 *)
LEMMA TriggerDoneKeeps == ASSUME GhInd, NEW w \in Watches, TriggerDone(w) PROVE GhInd' /\ Forward(ghMem, ghMem')
  <1> USE DEF GhInd
  <1>1. /\ ghPoll[w].at = "visit" /\ ghPoll[w].todo = {} /\ Still
        /\ UNCHANGED <<ghFile, ghSessions, ghSeen, ghReset, ghBehind, ghFaults>>
    BY DEF TriggerDone, worldVars, Still
  <1>2. At(w) = ghPoll[w] /\ ghPoll[w] \in PollSteps
    BY <1>1, PollValue
  <1>3. ghPoll[w] \in Visits
    BY <1>1, <1>2, StepValue
  <1> PICK p \in Visits : p = ghPoll[w]
    BY <1>3
  <1>4. p.at = "visit" /\ p.k \in 1 .. 7 /\ p.found \in SUBSET GhItems /\ p.low \in BOOLEAN /\ p.latest \in 0 .. MaxTime
    BY DEF Visits
  <1> PICK next \in PollSteps : next = AfterTrigger(w, p.k, p.low, p.found)
    BY <1>4, AfterTriggerValue
  <1>5. FoundIn(next) = FoundIn(At(w)) /\ next.at # "visit" /\ next.at # "save"
    <2>1. FoundIn(At(w)) = p.found
      BY <1>1, <1>2, StepValue
    <2>2. FoundIn(next) = p.found /\ next.at # "visit"
      BY <1>4, AfterTriggerValue
    <2>3. next.at # "save"
      BY StepValue
    <2> QED
      BY <2>1, <2>2, <2>3
  <1>6. VisitRight(w, next)
    BY <1>5 DEF VisitRight
  <1> PICK kind : kind = TriggerOrder[p.k]
    OBVIOUS
  <1>7. \/ PollGoto(w, next) /\ ghMem' = ghMem
        \/ kind \in CursorKinds /\ p.latest > ghMem.cursors[w][kind] /\ SetCursor(w, kind, p.latest, next)
    BY DEF TriggerDone, GetCursor
  <1>8. CASE PollGoto(w, next) /\ ghMem' = ghMem
    <2>1. ghPoll' = [ghPoll EXCEPT ![w] = next]
      BY <1>8 DEF PollGoto
    <2>2. GhInd'
      BY <1>1, <1>5, <1>6, <1>8, <2>1, PollKeeps
    <2>3. Forward(ghMem, ghMem')
      BY <1>8, ForwardSelf DEF GhTypes
    <2> QED
      BY <2>2, <2>3
  <1>9. CASE kind \in CursorKinds /\ p.latest > ghMem.cursors[w][kind] /\ SetCursor(w, kind, p.latest, next)
    <2> DEFINE data == [ghMem EXCEPT !.cursors[w][kind] = p.latest]
               to   == [at |-> "save", data |-> data, next |-> next]
    <2>1. /\ data \in Snaps /\ data.processed = ghMem.processed /\ data.cursors[w][kind] = p.latest
          /\ \A v \in Watches, k \in CursorKinds : v # w \/ k # kind => data.cursors[v][k] = ghMem.cursors[v][k]
      <3>1. ghMem \in Snaps /\ ghMem.cursors \in [Watches -> [CursorKinds -> 0 .. MaxTime]]
        BY DEF GhTypes, Snaps
      <3>2. [ghMem.cursors[w] EXCEPT ![kind] = p.latest] \in [CursorKinds -> 0 .. MaxTime]
        BY <1>4, <1>9, <3>1
      <3>3. [ghMem.cursors EXCEPT ![w][kind] = p.latest] \in [Watches -> [CursorKinds -> 0 .. MaxTime]]
        BY <3>1, <3>2
      <3>4. data = [ghMem EXCEPT !.cursors = [ghMem.cursors EXCEPT ![w][kind] = p.latest]]
        BY <3>1 DEF Snaps
      <3>5. data \in Snaps /\ data.processed = ghMem.processed /\ data.cursors = [ghMem.cursors EXCEPT ![w][kind] = p.latest]
        BY <3>1, <3>3, <3>4 DEF Snaps
      <3> HIDE DEF data
      <3> QED
        BY <1>9, <3>1, <3>5
    <2>2. ghMem' = data /\ ghPoll' = [ghPoll EXCEPT ![w] = to]
      BY <1>9 DEF SetCursor, Save, PollGoto
    <2> HIDE DEF data
    <2>3. to \in SaveSteps /\ StepOf(to) = next /\ to.at = "save" /\ to.data = data
      BY <2>1 DEF SaveSteps, StepOf
    <2> HIDE DEF to
    <2>4. /\ ghPoll' \in [Watches -> PollSteps \cup SaveSteps] /\ ghPoll'[w] = to /\ At(w)' = next
          /\ \A v \in Watches : v # w => ghPoll'[v] = ghPoll[v] /\ At(v)' = At(v)
      BY <2>2, <2>3, PollMoves
    <2>5. GhTypes'
      BY <1>1, <2>1, <2>2, <2>4 DEF GhTypes, Still
    <2>6. Forward(ghMem, data)
      <3> SUFFICES ASSUME NEW v \in Watches, NEW k \in CursorKinds PROVE ghMem.cursors[v][k] <= data.cursors[v][k]
        BY DEF Forward
      <3>1. ghMem.cursors[v][k] \in Nat /\ p.latest \in Nat
        BY <1>4, SnapValue DEF GhTypes
      <3> QED
        BY <1>9, <2>1, <3>1
    <2>7. Once'
      <3>1. \A v \in Watches : FoundIn(At(v)') = FoundIn(At(v))
        BY <1>5, <2>4
      <3> SUFFICES ASSUME NEW i \in GhItems \ ghReset
                   PROVE  /\ ghSessions[i] <= 1 /\ (ghSessions[i] = 1 => i \in data.processed)
                          /\ \A u \in Watches : i \in FoundIn(At(u)') =>
                                /\ i \in data.processed /\ ghSessions[i] = 0
                                /\ \A x \in Watches : i \in FoundIn(At(x)') => x = u
        BY <1>1, <2>2 DEF Once, FoundIn
      <3> QED
        BY <2>1, <3>1 DEF Once
    <2>8. FileIsCurrent'
      BY <2>3, <2>4 DEF FileIsCurrent
    <2>9. Older'
      <3>1. ghMem \in Snaps /\ ghFile \in Snaps /\ Forward(data, data)
        BY <2>1, ForwardSelf DEF GhTypes
      <3>2. Forward(ghFile, data)
        BY <2>1, <2>6, <3>1, ForwardOn DEF Older
      <3>3. \A v \in Watches : v # w /\ ghPoll[v].at = "save" => Forward(ghPoll[v].data, data)
        <4> SUFFICES ASSUME NEW v \in Watches, ghPoll[v].at = "save" PROVE Forward(ghPoll[v].data, data)
          OBVIOUS
        <4>1. ghPoll[v].data \in Snaps /\ Forward(ghPoll[v].data, ghMem)
          BY PollValue DEF Older
        <4> QED
          BY <2>1, <2>6, <3>1, <4>1, ForwardOn
      <3>4. \A v \in Watches : ghPoll'[v].at = "save" => Forward(ghPoll'[v].data, data)
        BY <2>3, <2>4, <3>1, <3>3
      <3> QED
        BY <1>1, <2>2, <3>2, <3>4 DEF Older, Forward
    <2>10. VisitRight(w, p)
      BY <1>2 DEF VisitsRight
    <2>11. Clock'
      <3>1. p.latest <= ghNow
        BY <1>4, <2>10 DEF VisitRight
      <3>2. \A v \in Watches, k \in CursorKinds : data.cursors[v][k] <= ghNow
        BY <1>9, <2>1, <3>1 DEF Clock
      <3> QED
        BY <1>1, <2>2, <3>2 DEF Clock, Still
    <2>12. /\ \A j : j \in Followed' <=> j \in Followed
           /\ \A j : (\A c : Passed(j, c)' <=> Passed(j, c))
      BY <1>1 DEF Passed, Followed, Still
    <2>13. \A j \in Followed : j \in GhItems /\ ghWatch[j] \in Watches /\ ghKind[j] \in CursorKinds
      BY DEF Followed, GhTypes
    <2>14. \A j \in Followed : CursorOf(j)' = IF ghWatch[j] = w /\ ghKind[j] = kind THEN p.latest ELSE CursorOf(j)
      BY <1>1, <2>1, <2>2, <2>13 DEF CursorOf, Still
    <2>15. CursorsRight'
      <3> SUFFICES ASSUME NEW j \in Followed, Passed(j, CursorOf(j)') PROVE ghSeen[j] = ghTime[j]
        BY <1>1, <2>12 DEF CursorsRight, Still, Passed
      <3>1. CASE ghWatch[j] = w /\ ghKind[j] = kind
        BY <1>1, <1>4, <2>10, <2>14, <3>1 DEF VisitRight
      <3>2. CASE ~(ghWatch[j] = w /\ ghKind[j] = kind)
        BY <2>14, <3>2 DEF CursorsRight
      <3> QED
        BY <3>1, <3>2
    <2>16. VisitsRight'
      <3> SUFFICES ASSUME NEW u \in Watches PROVE VisitRight(u, At(u))'
        BY DEF VisitsRight
      <3>1. CASE u = w
        BY <1>5, <2>4, <3>1 DEF VisitRight
      <3>2. CASE u # w
        <4> PICK r \in PollSteps : r = At(u)
          BY PollValue
        <4>1. VisitRight(u, r)
          BY DEF VisitsRight
        <4>2. \A j \in Followed : ghWatch[j] = u => CursorOf(j)' = CursorOf(j)
          BY <2>14, <3>2
        <4>3. r.at = "visit" => \A x \in r.todo : x[1] \in Followed => CursorOf(x[1])' = CursorOf(x[1])
          BY <4>1, <4>2 DEF VisitRight
        <4>4. VisitRight(u, r)'
          <5> SUFFICES ASSUME r.at = "visit"
                       PROVE /\ r.latest <= ghNow'
                             /\ \A v \in r.todo : ghWatch'[v[1]] = u /\ ghKind'[v[1]] = TriggerOrder[r.k]
                             /\ \A v \in r.todo : v[1] \in Followed' /\ v[2] # ghTime'[v[1]] =>
                                   ~Passed(v[1], CursorOf(v[1]))' /\ ~Passed(v[1], r.latest)'
                             /\ \A j \in Followed' : ghWatch'[j] = u /\ ghKind'[j] = TriggerOrder[r.k] /\ Passed(j, r.latest)' =>
                                   ghSeen'[j] = ghTime'[j] \/ <<j, ghTime'[j]>> \in r.todo
            BY DEF VisitRight
          <5>1. \A v \in r.todo : v[1] \in Followed' /\ v[2] # ghTime'[v[1]] =>
                                   ~Passed(v[1], CursorOf(v[1]))' /\ ~Passed(v[1], r.latest)'
            <6> SUFFICES ASSUME NEW v \in r.todo, v[1] \in Followed, v[2] # ghTime[v[1]]
                         PROVE  ~Passed(v[1], CursorOf(v[1]))' /\ ~Passed(v[1], r.latest)'
              BY <1>1, <2>12 DEF Still
            <6>1. ~Passed(v[1], CursorOf(v[1])) /\ ~Passed(v[1], r.latest)
              BY <4>1 DEF VisitRight
            <6>2. CursorOf(v[1])' = CursorOf(v[1])
              BY <4>3
            <6> QED
              BY <1>1, <6>1, <6>2 DEF Passed, Still
          <5> QED
            BY <1>1, <2>12, <4>1, <5>1 DEF VisitRight, Still
        <4> QED
          BY <2>4, <3>2, <4>4
      <3> QED
        BY <3>1, <3>2
    <2> QED
      BY <2>2, <2>5, <2>6, <2>7, <2>8, <2>9, <2>11, <2>15, <2>16
  <1> QED
    BY <1>7, <1>8, <1>9

LEMMA createSessionKeeps == ASSUME GhInd, NEW w \in Watches, createSession(w) PROVE GhInd'
  <1> USE DEF GhInd
  <1>1. /\ ghPoll[w].at = "create" /\ Still /\ UNCHANGED <<ghMem, ghFile, ghSeen, ghReset, ghBehind, ghFaults>>
    BY DEF createSession, worldVars, Still
  <1>2. At(w) = ghPoll[w] /\ ghPoll[w] \in PollSteps
    BY <1>1, PollValue
  <1>3. /\ ghPoll[w] \in [at : {"create"}, found : SUBSET GhItems] /\ FoundIn(At(w)) = ghPoll[w].found
        /\ ghPoll[w].found \subseteq GhItems
    BY <1>1, <1>2, StepValue
  <1>4. PICK i \in ghPoll[w].found :
          /\ PollGoto(w, [ghPoll[w] EXCEPT !.found = ghPoll[w].found \ {i}])
          /\ ghSessions' = [ghSessions EXCEPT ![i] = ghSessions[i] + 1] \/ ghSessions' = ghSessions
    BY DEF createSession
  <1> DEFINE q == [ghPoll[w] EXCEPT !.found = ghPoll[w].found \ {i}]
  <1>5. q \in [at : {"create"}, found : SUBSET GhItems] /\ q.at = "create" /\ q.found = ghPoll[w].found \ {i}
    BY <1>3
  <1>6. ghPoll' = [ghPoll EXCEPT ![w] = q]
    BY <1>4 DEF PollGoto
  <1> HIDE DEF q
  <1>7. q \in PollSteps /\ StepOf(q) = q /\ FoundIn(q) = FoundIn(At(w)) \ {i} /\ VisitRight(w, q)
    BY <1>3, <1>5, StepValue DEF PollSteps, FoundIn, VisitRight
  <1>8. /\ ghPoll' \in [Watches -> PollSteps \cup SaveSteps] /\ ghPoll'[w] = q /\ At(w)' = q
        /\ \A u \in Watches : u # w => ghPoll'[u] = ghPoll[u] /\ At(u)' = At(u)
    BY <1>6, <1>7, PollMoves
  <1>9. i \in GhItems /\ ghSessions[i] \in Nat
    BY <1>3 DEF GhTypes
  <1>10. /\ ghSessions' \in [GhItems -> Nat] /\ ghSessions'[i] \in {ghSessions[i], ghSessions[i] + 1}
         /\ \A j \in GhItems : j # i => ghSessions'[j] = ghSessions[j]
    BY <1>4, <1>9 DEF GhTypes
  <1>11. GhTypes'
    BY <1>1, <1>8, <1>10 DEF GhTypes, Still
  <1>12. /\ \A u \in Watches : FoundIn(At(u)') \subseteq FoundIn(At(u))
         /\ i \notin FoundIn(At(w)') /\ i \in FoundIn(At(w))
    BY <1>3, <1>7, <1>8
  <1>13. Once'
    <2> SUFFICES ASSUME NEW j \in GhItems \ ghReset
                 PROVE  /\ ghSessions'[j] <= 1 /\ (ghSessions'[j] = 1 => j \in ghMem.processed)
                        /\ \A u \in Watches : j \in FoundIn(At(u)') =>
                              /\ j \in ghMem.processed /\ ghSessions'[j] = 0
                              /\ \A x \in Watches : j \in FoundIn(At(x)') => x = u
      BY <1>1 DEF Once, FoundIn
    <2>1. CASE j = i
      <3>1. j \in ghMem.processed /\ ghSessions[j] = 0 /\ \A u \in Watches : j \in FoundIn(At(u)) => u = w
        BY <1>12, <2>1 DEF Once
      <3> QED
        BY <1>10, <1>12, <2>1, <3>1
    <2>2. CASE j # i
      BY <1>10, <1>12, <2>2 DEF Once
    <2> QED
      BY <2>1, <2>2
  <1>14. FileIsCurrent' /\ Older'
    BY <1>1, <1>5, <1>8 DEF FileIsCurrent, Older, Forward
  <1>15. Clock' /\ CursorsRight' /\ \A v \in Watches, r \in PollSteps : VisitRight(v, r) => VisitRight(v, r)'
    BY <1>1, StillKeeps
  <1>16. VisitsRight'
    <2> SUFFICES ASSUME NEW v \in Watches PROVE VisitRight(v, At(v))'
      BY DEF VisitsRight
    <2>1. CASE v = w
      BY <1>7, <1>8, <1>15, <2>1
    <2>2. CASE v # w
      <3> PICK r \in PollSteps : r = At(v)
        BY PollValue
      <3>1. VisitRight(v, r)'
        BY <1>15 DEF VisitsRight
      <3> QED
        BY <1>8, <2>2, <3>1
    <2> QED
      BY <2>1, <2>2
  <1> QED
    BY <1>11, <1>13, <1>14, <1>15, <1>16

-----------------------------------------------------------------------------
(* The theorem. *)

LEMMA GhIndNext == GhInd /\ [GitHubNext]_ghVars => GhInd'
  <1> SUFFICES ASSUME GhInd, [GitHubNext]_ghVars PROVE GhInd'
    OBVIOUS
  <1>1. ASSUME NEW i \in GhItems, ItemChanges(i) PROVE GhInd'
    BY <1>1, ItemChangesKeeps
  <1>2. ASSUME NEW i \in GhItems, ItemCloses(i) PROVE GhInd'
    BY <1>2, ItemClosesKeeps
  <1>3. ASSUME NEW w \in Watches, SaveWrites(w) PROVE GhInd'
    BY <1>3, SaveWritesKeeps
  <1>4. ASSUME NEW w \in Watches, VisitItem(w) PROVE GhInd'
    BY <1>4, VisitItemKeeps
  <1>5. ASSUME NEW w \in Watches, TriggerDone(w) PROVE GhInd'
    BY <1>5, TriggerDoneKeeps
  <1>6. ASSUME NEW w \in Watches, createSession(w) PROVE GhInd'
    BY <1>6, createSessionKeeps
  <1>7. ASSUME NEW w \in Watches, runWatch(w) \/ PollFails(w) \/ pollOnceEnds(w) PROVE GhInd'
    BY <1>7, PollEdgesKeep
  <1>8. ASSUME NEW w \in Watches, FetchSkipped(w) \/ \E low \in BOOLEAN : Fetched(w, low) PROVE GhInd'
    BY <1>8, FetchedKeeps
  <1>9. ASSUME NEW w \in Watches, NEW i \in GhItems, Prune(w, i) PROVE GhInd'
    BY <1>9, PruneKeeps
  <1>10. CASE Load
    BY <1>10, LoadKeeps
  <1>11. CASE UNCHANGED ghVars
    <2>1. /\ Still /\ ghMem'.cursors = ghMem.cursors
          /\ UNCHANGED <<ghMem, ghFile, ghPoll, ghSessions, ghSeen, ghReset, ghBehind, ghFaults>>
      BY <1>11 DEF ghVars, Still
    <2>2. GhTypes' /\ Once' /\ FileIsCurrent' /\ Older'
      BY <2>1 DEF GhInd, GhTypes, Once, FileIsCurrent, Older, At, Still
    <2>3. \A w \in Watches : At(w)' = At(w) /\ At(w) \in PollSteps
      BY <2>1, PollValue DEF At, GhInd
    <2>4. Clock' /\ CursorsRight' /\ \A v \in Watches, r \in PollSteps : VisitRight(v, r) => VisitRight(v, r)'
      BY <2>1, StillKeeps
    <2>5. VisitsRight'
      <3> SUFFICES ASSUME NEW v \in Watches PROVE VisitRight(v, At(v))'
        BY DEF VisitsRight
      <3> PICK r \in PollSteps : r = At(v)
        BY <2>3
      <3>1. VisitRight(v, r)'
        BY <2>4 DEF VisitsRight, GhInd
      <3> QED
        BY <2>3, <3>1
    <2> QED
      BY <2>2, <2>4, <2>5 DEF GhInd
  <1> QED
    BY <1>1, <1>2, <1>3, <1>4, <1>5, <1>6, <1>7, <1>8, <1>9, <1>10, <1>11 DEF GitHubNext, PollGoesOn

LEMMA GhForward == GhInd /\ [GitHubNext]_ghVars => [CursorNeverBack]_ghVars
  <1> SUFFICES ASSUME GhInd, GitHubNext, ghFaults' = ghFaults PROVE CursorNeverBack
    BY DEF CursorNeverBack
  <1>0. ghFaults \in Nat /\ ghMem \in Snaps
    BY DEF GhInd, GhTypes
  <1>1. SUFFICES Forward(ghMem, ghMem')
    <2>1. ghMem' \in Snaps
      BY GhIndNext DEF GhInd, GhTypes
    <2>2. \A w \in Watches, k \in CursorKinds : ghMem.cursors[w][k] \in Nat /\ ghMem'.cursors[w][k] \in Nat
      BY <1>0, <2>1, SnapValue
    <2>3. \A w \in Watches, k \in CursorKinds : ghMem.cursors[w][k] <= ghMem'.cursors[w][k]
      BY <1>1 DEF Forward
    <2> QED
      BY <2>2, <2>3 DEF CursorNeverBack
  <1>2. CASE ghMem'.cursors = ghMem.cursors
    BY <1>0, <1>2, ForwardSelf DEF Forward
  <1>3. ASSUME NEW i \in GhItems, ItemChanges(i) \/ ItemCloses(i) PROVE ghMem'.cursors = ghMem.cursors
    BY <1>3 DEF ItemChanges, ItemCloses
  <1>4. ASSUME NEW w \in Watches, SaveWrites(w) \/ runWatch(w) \/ PollFails(w) \/ pollOnceEnds(w) \/ createSession(w)
        PROVE  ghMem'.cursors = ghMem.cursors
    BY <1>4 DEF SaveWrites, runWatch, PollFails, pollOnceEnds, createSession
  <1>5. ASSUME NEW w \in Watches, FetchSkipped(w) \/ \E low \in BOOLEAN : Fetched(w, low) PROVE ghMem'.cursors = ghMem.cursors
    BY <1>5 DEF FetchSkipped, Fetched, processPRs, processCheckRuns, processIssues, processIssueComments, processPRComments,
                processPRReviews, processReleases, Visit
  <1>6. ASSUME NEW w \in Watches, VisitItem(w) PROVE ghMem'.cursors = ghMem.cursors
    <2>1. ghMem' = ghMem \/ \E i : ghMem' = [ghMem EXCEPT !.processed = ghMem.processed \cup {i}]
      BY <1>6 DEF VisitItem, MarkProcessed, Save
    <2> QED
      BY <1>0, <2>1 DEF Snaps
  <1>7. ASSUME NEW w \in Watches, TriggerDone(w) PROVE Forward(ghMem, ghMem')
    BY <1>7, TriggerDoneKeeps
  <1>8. ASSUME NEW w \in Watches, NEW i \in GhItems, Prune(w, i) PROVE FALSE
    BY <1>0, <1>8 DEF Prune
  <1>9. CASE Load
    BY <1>0, <1>9 DEF Load
  <1> QED
    BY <1>2, <1>3, <1>4, <1>5, <1>6, <1>7, <1>8, <1>9 DEF GitHubNext, PollGoesOn

LEMMA GhStrong == GhInd => GitHubTypeOK /\ NoDuplicateSession /\ FileIsCurrent /\ CursorPassesSeen
  <1> SUFFICES ASSUME GhInd PROVE GitHubTypeOK /\ NoDuplicateSession /\ FileIsCurrent /\ CursorPassesSeen
    OBVIOUS
  <1> USE DEF GhInd
  <1>1. GitHubTypeOK
    <2>1. \A w \in Watches : ghPoll[w].at \in {"idle", "fetch", "visit", "save", "create"}
      <3> SUFFICES ASSUME NEW w \in Watches, ghPoll[w].at # "save" PROVE ghPoll[w].at \in {"idle", "fetch", "visit", "create"}
        OBVIOUS
      <3>1. ghPoll[w] \in PollSteps
        BY PollValue
      <3> QED
        BY <3>1, StepValue
    <2>2. \A s \in {ghMem, ghFile} :
             s.processed \subseteq GhItems /\ s.cursors \in [Watches -> [CursorKinds -> 0 .. MaxTime]]
      BY DEF GhTypes, Snaps
    <2> QED
      BY <2>1, <2>2 DEF GhTypes, GitHubTypeOK
  <1>2. NoDuplicateSession
    BY DEF Once, NoDuplicateSession
  <1>3. CursorPassesSeen
    BY DEF CursorsRight, CursorPassesSeen, Followed, Passed, CursorOf
  <1> QED
    BY <1>1, <1>2, <1>3

(* Polling is sound: however polls of several watches, changes on GitHub,  *)
(* saves that overtake each other, failed writes and restarts interleave,  *)
(* an item whose mark was not lost gets one session at most, the cursor of *)
(* a watch passes only what was held against the filters and never moves   *)
(* back, and the file is current once the saves are done.                  *)
THEOREM PollingIsSound == GitHubSpec => GitHubSafe
  <1> QED
    BY GhIndInit, GhIndNext, GhForward, GhStrong, PTL DEF GitHubSpec, GitHubSafe
=============================================================================
