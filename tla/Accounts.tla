------------------------------ MODULE Accounts ------------------------------
(***************************************************************************)
(* User accounts, session tokens and API keys of the server: the handlers  *)
(* (internal/server/api/auth_handler.go, handler/users.go, apikeys.go),    *)
(* the middleware that admits a request (api/middleware.go), the token     *)
(* service and its list of revoked tokens (auth/jwt.go, blocklist.go), and *)
(* the tables behind them (store/users.go, tokens.go, apikeys.go).         *)
(*                                                                         *)
(* A request is admitted with claims and served in later steps.  A token   *)
(* carries its claims from the time of the login; an API key is looked up  *)
(* with the user as he is now.  The list of revoked tokens is kept in      *)
(* memory and in the database, and the server may restart.                 *)
(***************************************************************************)
EXTENDS Integers, FiniteSets

CONSTANTS UserIds, FirstAdmin, Emails, Passwords, Tokens, ApiKeys, Clients,
          TokenTTL,
          MaxAcTime,   \* bound: the clock
          MaxAcEdits   \* bound: requests that change an account, and restarts

(* The first admin has an e-mail address and a password, and an API key is *)
(* told from a session token by its prefix.                                *)
ASSUME AccountsAssumption ==
    /\ FirstAdmin \in UserIds /\ Emails # {} /\ Passwords # {} /\ Tokens \cap ApiKeys = {}
    /\ TokenTTL \in Nat \ {0} /\ {MaxAcTime, MaxAcEdits} \subseteq Nat

VARIABLES
    acUser,     \* users
    acToken,    \* the tokens issued
    acBlocked,  \* Blocklist.entries
    acRevoked,  \* revoked_tokens
    acKey,      \* api_keys
    acReq,      \* per client: the request being served
    acNow,
    acEdits,
    acOut,      \* history: tokens whose logout or password change was answered
    acAdmin,    \* history: per user, the last time he was an admin
    acRaced     \* history: users with two updates at a time

acVars == <<acUser, acToken, acBlocked, acRevoked, acKey, acReq, acNow, acEdits, acOut, acAdmin, acRaced>>
tokenVars == <<acToken, acBlocked, acRevoked, acKey>>

NoUser  == [is |-> "none"]
GoneUser == [is |-> "deleted"]
NoToken == [is |-> "none"]
NoKey   == [is |-> "none"]
NoReq   == [at |-> "none"]
Roles   == {"admin", "user"}
IsUser(u) == acUser[u].is = "row"

(* The types of the rows; e-mail addresses are unique, and an API key      *)
(* belongs to a user who exists (the UNIQUE and CASCADE of the tables).    *)
AccountsTypeOK ==
    /\ acUser \in [UserIds -> {NoUser, GoneUser} \cup [is : {"row"}, email : Emails, role : Roles, pw : Passwords]]
    /\ \A u, v \in UserIds : IsUser(u) /\ IsUser(v) /\ acUser[u].email = acUser[v].email => u = v
    /\ acBlocked \subseteq Tokens /\ acRevoked \subseteq Tokens
    /\ \A k \in ApiKeys : acKey[k] # NoKey => IsUser(acKey[k].u)

(* SeedAdmin has made the first account.                                   *)
SeedAdmin == acUser = [u \in UserIds |-> IF u = FirstAdmin
                 THEN [is |-> "row", email |-> CHOOSE e \in Emails : TRUE, role |-> "admin", pw |-> CHOOSE p \in Passwords : TRUE]
                 ELSE NoUser]

AccountsInit ==
    /\ SeedAdmin
    /\ acToken = [t \in Tokens |-> NoToken] /\ acBlocked = {} /\ acRevoked = {} /\ acKey = [k \in ApiKeys |-> NoKey]
    /\ acReq = [c \in Clients |-> NoReq] /\ acNow = 0 /\ acEdits = 0
    /\ acOut = {} /\ acAdmin = [u \in UserIds |-> 0] /\ acRaced = {}

AcEdit == acEdits < MaxAcEdits /\ acEdits' = acEdits + 1
AcGoto(c, to) == acReq' = [acReq EXCEPT ![c] = to]
AcAnswer(c) == AcGoto(c, NoReq)

-----------------------------------------------------------------------------
(* The store. *)

GetUserByEmail(e) == {u \in UserIds : IsUser(u) /\ acUser[u].email = e}
GetUserByID(u)    == IsUser(u)

(* A hash answers whether it is the hash of a password, and nothing else.  *)
HashPassword(p)       == p
VerifyPassword(p, pw) == p = pw

(* The email is UNIQUE, and an id is not used again.                       *)
InsertUser(u, e, role, p) ==
    /\ acUser[u] = NoUser /\ GetUserByEmail(e) = {}
    /\ acUser' = [acUser EXCEPT ![u] = [is |-> "row", email |-> e, role |-> role, pw |-> HashPassword(p)]]

WriteRole(u, role) ==
    acUser' = IF IsUser(u) THEN [acUser EXCEPT ![u].role = role] ELSE acUser

UpdatePassword(u, p) ==
    acUser' = IF IsUser(u) THEN [acUser EXCEPT ![u].pw = HashPassword(p)] ELSE acUser

(* api_keys.user_id refers to users: the row of a user with keys stays.    *)
RemoveUser(u) ==
    acUser' = IF \E k \in ApiKeys : acKey[k] # NoKey /\ acKey[k].u = u THEN acUser
              ELSE [acUser EXCEPT ![u] = GoneUser]

-----------------------------------------------------------------------------
(* Tokens. *)

IssueToken(t, u) ==
    acToken' = [acToken EXCEPT ![t] = [is |-> "token", u |-> u, role |-> acUser[u].role, exp |-> acNow + TokenTTL]]

IsRevoked(t)     == t \in acBlocked
ValidateToken(t) == acToken[t] # NoToken /\ acNow < acToken[t].exp /\ ~IsRevoked(t)

InsertRevocation(t) == acRevoked' = acRevoked \cup {t}

Mutant_RevokeToken(t) ==
    /\ acBlocked' = acBlocked \cup {t} /\ UNCHANGED acRevoked

(* Blocklist.Add: the row, which is there already after a first logout (an *)
(* error), then the entry in memory.                                       *)
RevokeToken(t) ==
    /\ InsertRevocation(t)
    /\ acBlocked' = IF t \in acRevoked THEN acBlocked ELSE acBlocked \cup {t}

(* cleanExpired in memory and, with the same clock or a later one, in the  *)
(* database.                                                               *)
CleanMemory ==
    /\ acBlocked' = {t \in acBlocked : acToken[t].exp >= acNow} /\ acBlocked' # acBlocked
    /\ UNCHANGED <<acUser, acToken, acRevoked, acKey, acReq, acNow, acEdits, acOut, acAdmin, acRaced>>

CleanExpired ==
    /\ acRevoked' = {t \in acRevoked : acToken[t].exp > acNow} /\ acRevoked' # acRevoked
    /\ UNCHANGED <<acUser, acToken, acBlocked, acKey, acReq, acNow, acEdits, acOut, acAdmin, acRaced>>

LoadActiveRevocations == {t \in acRevoked : acToken[t].exp > acNow}

(* The server restarts: NewBlocklist.                                      *)
NewBlocklist ==
    /\ AcEdit /\ acBlocked' = LoadActiveRevocations
    /\ acReq' = [c \in Clients |-> NoReq]
    /\ UNCHANGED <<acUser, acToken, acRevoked, acKey, acNow, acOut, acAdmin, acRaced>>

Login(t, e, p) ==
    /\ acToken[t] = NoToken
    /\ \E u \in GetUserByEmail(e) : VerifyPassword(p, acUser[u].pw) /\ IssueToken(t, u)
    /\ UNCHANGED <<acUser, acBlocked, acRevoked, acKey, acReq, acNow, acEdits, acOut, acAdmin, acRaced>>

-----------------------------------------------------------------------------
(* A request is admitted. *)

JWTAuthMiddleware(c, t) ==
    /\ acReq[c] = NoReq /\ ValidateToken(t)
    /\ AcGoto(c, [at |-> "in", u |-> acToken[t].u, role |-> acToken[t].role, via |-> t])
    /\ UNCHANGED <<acUser, tokenVars, acNow, acEdits, acOut, acAdmin, acRaced>>

ValidateAPIKey(k) == acKey[k] # NoKey /\ acNow <= acKey[k].exp

validateAPIKeyToken(c, k) ==
    /\ acReq[c] = NoReq /\ ValidateAPIKey(k) /\ GetUserByID(acKey[k].u)
    /\ AcGoto(c, [at |-> "in", u |-> acKey[k].u, role |-> acUser[acKey[k].u].role, via |-> k])
    /\ UNCHANGED <<acUser, tokenVars, acNow, acEdits, acOut, acAdmin, acRaced>>

requireAdmin(c) == acReq[c].at = "in" /\ acReq[c].role = "admin"

-----------------------------------------------------------------------------
(* Handlers. *)

(* Self-registration, where the mode allows it.                            *)
Register(u, e, p) ==
    /\ AcEdit /\ InsertUser(u, e, "user", p)
    /\ UNCHANGED <<tokenVars, acReq, acNow, acOut, acAdmin, acRaced>>

CreateUser(c, u, e, role, p) ==
    /\ requireAdmin(c) /\ AcEdit /\ InsertUser(u, e, role, p) /\ AcAnswer(c)
    /\ acAdmin' = IF role = "admin" THEN [acAdmin EXCEPT ![u] = acNow] ELSE acAdmin
    /\ UNCHANGED <<tokenVars, acNow, acOut, acRaced>>

Updating(u) == {c \in Clients : acReq[c].at = "update" /\ acReq[c].target = u}

(* PUT /users/{id}: the row is read; a role left out is the one read ...   *)
UpdateUser(c, u) ==
    /\ requireAdmin(c) /\ GetUserByID(u) /\ AcEdit
    /\ \E named \in Roles \cup {""} :
          AcGoto(c, [at |-> "update", target |-> u, named |-> named,
                     role |-> IF named = "" THEN acUser[u].role ELSE named])
    /\ acRaced' = IF Updating(u) = {} THEN acRaced ELSE acRaced \cup {u}
    /\ UNCHANGED <<acUser, tokenVars, acNow, acOut, acAdmin>>

(* ... and written.                                                        *)
UpdateUserWrites(c) ==
    /\ acReq[c].at = "update"
    /\ LET u == acReq[c].target IN
       /\ WriteRole(u, acReq[c].role)
       /\ acAdmin' = IF IsUser(u) /\ "admin" \in {acUser[u].role, acUser'[u].role}
                     THEN [acAdmin EXCEPT ![u] = acNow] ELSE acAdmin
    /\ AcAnswer(c)
    /\ UNCHANGED <<tokenVars, acNow, acEdits, acOut, acRaced>>

(* The current password is checked ...                                     *)
ChangePassword(c, old, new) ==
    /\ acReq[c].at = "in" /\ AcEdit
    /\ GetUserByID(acReq[c].u) /\ VerifyPassword(old, acUser[acReq[c].u].pw)
    /\ AcGoto(c, [at |-> "password", u |-> acReq[c].u, via |-> acReq[c].via, pw |-> new])
    /\ UNCHANGED <<acUser, tokenVars, acNow, acOut, acAdmin, acRaced>>

(* ... the new one stored, an error when the user is gone ...              *)
ChangePasswordWrites(c) ==
    /\ acReq[c].at = "password" /\ UpdatePassword(acReq[c].u, acReq[c].pw)
    /\ AcGoto(c, IF IsUser(acReq[c].u) /\ acReq[c].via \in Tokens
                 THEN [at |-> "revoke", via |-> acReq[c].via] ELSE NoReq)
    /\ UNCHANGED <<tokenVars, acNow, acEdits, acOut, acAdmin, acRaced>>

(* ... and the token revoked: the last step of a password change, the only *)
(* one of a logout.                                                        *)
ChangePasswordRevokes(c) ==
    /\ acReq[c].at = "revoke"
    /\ RevokeToken(acReq[c].via) /\ acOut' = acOut \cup {acReq[c].via} /\ AcAnswer(c)
    /\ UNCHANGED <<acUser, acToken, acKey, acNow, acEdits, acAdmin, acRaced>>

Logout(c) ==
    /\ acReq[c].at = "in" /\ acReq[c].via \in Tokens
    /\ RevokeToken(acReq[c].via) /\ acOut' = acOut \cup {acReq[c].via} /\ AcAnswer(c)
    /\ UNCHANGED <<acUser, acToken, acKey, acNow, acEdits, acAdmin, acRaced>>

(* Not of another admin, as far as the row read first tells.               *)
ResetPassword(c, u, p) ==
    /\ requireAdmin(c) /\ AcEdit /\ GetUserByID(u)
    /\ acUser[u].role # "admin" \/ u = acReq[c].u
    /\ AcGoto(c, [at |-> "reset", target |-> u, pw |-> p])
    /\ UNCHANGED <<acUser, tokenVars, acNow, acOut, acAdmin, acRaced>>

ResetPasswordWrites(c) ==
    /\ acReq[c].at = "reset" /\ UpdatePassword(acReq[c].target, acReq[c].pw) /\ AcAnswer(c)
    /\ UNCHANGED <<tokenVars, acNow, acEdits, acOut, acAdmin, acRaced>>

DeleteUser(c, u) ==
    /\ requireAdmin(c) /\ AcEdit /\ GetUserByID(u) /\ u # acReq[c].u
    /\ RemoveUser(u) /\ AcAnswer(c)
    /\ acAdmin' = IF acUser[u].role = "admin" THEN [acAdmin EXCEPT ![u] = acNow] ELSE acAdmin
    /\ UNCHANGED <<tokenVars, acNow, acOut, acRaced>>

(* The key's user must exist (foreign key).                                *)
InsertAPIKey(k, u, exp) ==
    acKey' = IF IsUser(u) THEN [acKey EXCEPT ![k] = [is |-> "key", u |-> u, exp |-> exp]] ELSE acKey

RemoveAPIKey(k) == acKey' = [acKey EXCEPT ![k] = NoKey]

CreateAPIKey(c, k) ==
    /\ acReq[c].at = "in" /\ AcEdit /\ acKey[k] = NoKey
    /\ \E e \in 0 .. MaxAcTime : InsertAPIKey(k, acReq[c].u, e)
    /\ AcAnswer(c)
    /\ UNCHANGED <<acUser, acToken, acBlocked, acRevoked, acNow, acOut, acAdmin, acRaced>>

(* The owner or an admin.                                                  *)
DeleteAPIKey(c, k) ==
    /\ acReq[c].at = "in" /\ AcEdit /\ acKey[k] # NoKey
    /\ acReq[c].u = acKey[k].u \/ requireAdmin(c)
    /\ RemoveAPIKey(k) /\ AcAnswer(c)
    /\ UNCHANGED <<acUser, acToken, acBlocked, acRevoked, acNow, acOut, acAdmin, acRaced>>

(* Any other request: it ends.                                             *)
OtherRequest(c) ==
    /\ acReq[c].at = "in" /\ AcAnswer(c)
    /\ UNCHANGED <<acUser, tokenVars, acNow, acEdits, acOut, acAdmin, acRaced>>

AcTick ==
    /\ acNow < MaxAcTime /\ acNow' = acNow + 1
    /\ acAdmin' = [u \in UserIds |-> IF IsUser(u) /\ acUser[u].role = "admin" THEN acNow' ELSE acAdmin[u]]
    /\ UNCHANGED <<acUser, tokenVars, acReq, acEdits, acOut, acRaced>>

AccountsNext ==
    \/ \E t \in Tokens, e \in Emails, p \in Passwords : Login(t, e, p)
    \/ \E u \in UserIds, e \in Emails, p \in Passwords : Register(u, e, p)
    \/ \E c \in Clients :
          \/ \E t \in Tokens : JWTAuthMiddleware(c, t)
          \/ \E k \in ApiKeys : validateAPIKeyToken(c, k) \/ CreateAPIKey(c, k) \/ DeleteAPIKey(c, k)
          \/ \E u \in UserIds, e \in Emails, p \in Passwords, r \in Roles : CreateUser(c, u, e, r, p)
          \/ \E u \in UserIds : UpdateUser(c, u) \/ DeleteUser(c, u) \/ (\E p \in Passwords : ResetPassword(c, u, p))
          \/ \E old, new \in Passwords : ChangePassword(c, old, new)
          \/ UpdateUserWrites(c) \/ ResetPasswordWrites(c) \/ ChangePasswordWrites(c) \/ ChangePasswordRevokes(c)
          \/ Logout(c) \/ OtherRequest(c)
    \/ CleanMemory \/ CleanExpired \/ NewBlocklist \/ AcTick

-----------------------------------------------------------------------------
(* Properties. *)

(* Once a logout, or the change of the password, was answered, no request  *)
(* is admitted with that token again: not after a restart, nor when the    *)
(* clean-up runs around the token's expiry.                                *)
LoggedOutStaysOut ==
    \A c \in Clients : acReq[c] = NoReq /\ acReq'[c].at = "in" => acReq'[c].via \notin acOut

(* The rights of an admin outlive his demotion or deletion by less than    *)
(* the lifetime of a token, whatever tokens and keys he holds.             *)
RightsRunOut ==
    \A c \in Clients : acReq[c] = NoReq /\ acReq'[c].at = "in" /\ acReq'[c].role = "admin" =>
       acNow < acAdmin[acReq'[c].u] + TokenTTL

(* A user's role changes only by an update that names the new role, unless *)
(* two updates of that user overlapped.                                    *)
RoleOnlyByRequest ==
    \A u \in UserIds \ acRaced :
       IsUser(u) /\ IsUser(u)' /\ acUser[u].role # acUser'[u].role =>
          \E c \in Updating(u) : acReq'[c] = NoReq /\ acReq[c].named = acUser'[u].role

(* Rights end when they should: a token that was logged out stays out over *)
(* restarts and clean-ups, an admin who was demoted or deleted loses his   *)
(* rights with his last token, and roles change only by request.           *)
AccountsSafe ==
    /\ []AccountsTypeOK
    /\ [][LoggedOutStaysOut /\ RightsRunOut /\ RoleOnlyByRequest]_acVars
=============================================================================
