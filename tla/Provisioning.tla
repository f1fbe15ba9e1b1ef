---------------------------- MODULE Provisioning ----------------------------
(***************************************************************************)
(* How a machine joins: provisioning tokens                                *)
(* (internal/server/handler/provision.go, provision/service.go,            *)
(* store/provisioning.go), the agent's join command (internal/agent/       *)
(* join.go), and the machines table an agent gets into when it connects    *)
(* and an admin may delete it from (api/machine_handler.go,                *)
(* store/machines.go).                                                     *)
(*                                                                         *)
(* Checks and writes of a request are separate database calls.  A caller   *)
(* that redeems a token gets the certificates once, in an answer that may  *)
(* be lost, and writes them to files one by one.                           *)
(***************************************************************************)
EXTENDS Integers, FiniteSets

CONSTANTS Callers, MachineIds, ProvTokens, ShortCodes,
          ProvTTL,
          MaxInserts,    \* attempts to insert a token with a new code (3)
          MaxPvTime,     \* bound: the clock
          MaxPvRequests, \* bound: requests
          MaxPvFaults    \* bound: lost answers and failed file writes

ASSUME ProvisioningAssumption ==
    /\ {ProvTTL, MaxPvTime, MaxPvRequests, MaxPvFaults} \subseteq Nat /\ MaxInserts \in Nat \ {0}

VARIABLES
    pvTok,     \* provisioning_tokens
    pvRow,     \* machines: "none", "row" or "deleted" (deleted_at set)
    pvConn,    \* machines whose agent is connected
    pvReq,     \* per caller: the request being served, then the join
    pvDir,     \* per caller: the agent's files
    pvNow,
    pvCount,   \* requests begun
    pvFaults,
    pvGiven,   \* history: per token, the callers given its key
    pvRaced    \* history: machines that connected while they were being deleted

provVars == <<pvTok, pvRow, pvConn, pvReq, pvDir, pvNow, pvCount, pvFaults, pvGiven, pvRaced>>

NoTok     == [is |-> "none"]
NoCall    == [at |-> "none"]
CertFiles == {"ca", "cert", "key"}
NoFile    == [is |-> "none"]
FileOf(t) == [is |-> "file", t |-> t, m |-> pvTok[t].m]

(* The types of tokens and machines; open and used tokens never share a    *)
(* short code.                                                             *)
ProvisioningTypeOK ==
    /\ \A t \in ProvTokens : pvTok[t] # NoTok =>
          /\ pvTok[t].m \in MachineIds /\ pvTok[t].code \in ShortCodes
          /\ pvTok[t].exp \in 0 .. MaxPvTime + ProvTTL /\ pvTok[t].redeemed \in BOOLEAN
    /\ pvRow \in [MachineIds -> {"none", "row", "deleted"}] /\ pvConn \subseteq MachineIds
    /\ \A t, u \in ProvTokens : pvTok[t] # NoTok /\ pvTok[u] # NoTok /\ pvTok[t].code = pvTok[u].code => t = u

ProvisioningInit ==
    /\ pvTok = [t \in ProvTokens |-> NoTok] /\ pvRow = [m \in MachineIds |-> "none"] /\ pvConn = {}
    /\ pvReq = [r \in Callers |-> NoCall]
    /\ pvDir = [r \in Callers |-> [f \in CertFiles \cup {"toml"} |-> NoFile]]
    /\ pvNow = 0 /\ pvCount = 0 /\ pvFaults = 0
    /\ pvGiven = [t \in ProvTokens |-> {}] /\ pvRaced = {}

CallGoto(r, to) == pvReq' = [pvReq EXCEPT ![r] = to]
CallEnds(r)     == CallGoto(r, NoCall)
CallBegins(r)   == pvReq[r] = NoCall /\ pvCount < MaxPvRequests /\ pvCount' = pvCount + 1

-----------------------------------------------------------------------------
(* The store. *)

Open(t)   == pvTok[t] # NoTok /\ ~pvTok[t].redeemed
Usable(t) == Open(t) /\ pvNow <= pvTok[t].exp

HasActiveProvisioningToken(m) == \E t \in ProvTokens : Usable(t) /\ pvTok[t].m = m
GetMachine(m)                 == pvRow[m] = "row"

(* UNIQUE (machine_id) WHERE redeemed_at IS NULL, UNIQUE (short_code).     *)
MachineIdConflict(m)    == \E t \in ProvTokens : Open(t) /\ pvTok[t].m = m

ShortCodeConflict(code) == \E t \in ProvTokens : pvTok[t] # NoTok /\ pvTok[t].code = code

CreateProvisioningToken(t, m, code) ==
    pvTok' = [pvTok EXCEPT ![t] = [is |-> "token", m |-> m, code |-> code, exp |-> pvNow + ProvTTL, redeemed |-> FALSE]]

-----------------------------------------------------------------------------
(* Creating and revoking. *)

(* The first check.                                                        *)
CreateProvision(r, m) ==
    /\ CallBegins(r)
    /\ IF HasActiveProvisioningToken(m) THEN UNCHANGED pvReq
       ELSE CallGoto(r, [at |-> "machine", m |-> m])
    /\ UNCHANGED <<pvTok, pvRow, pvConn, pvDir, pvNow, pvFaults, pvGiven, pvRaced>>

(* The second.                                                             *)
CheckMachine(r) ==
    /\ pvReq[r].at = "machine"
    /\ IF GetMachine(pvReq[r].m) THEN CallEnds(r) ELSE CallGoto(r, [at |-> "insert", m |-> pvReq[r].m, try |-> 1])
    /\ UNCHANGED <<pvTok, pvRow, pvConn, pvDir, pvNow, pvCount, pvFaults, pvGiven, pvRaced>>

(* The certificate is issued and the token inserted: refused when the      *)
(* machine has an open one, tried again when the code is taken.            *)
CreateAgentProvision(r, t, code) ==
    /\ pvReq[r].at = "insert" /\ pvTok[t] = NoTok /\ pvGiven[t] = {}
    /\ LET m == pvReq[r].m IN
       IF MachineIdConflict(m)
       THEN CallEnds(r) /\ UNCHANGED pvTok
       ELSE IF ShortCodeConflict(code)
            THEN /\ UNCHANGED pvTok
                 /\ IF pvReq[r].try < MaxInserts THEN CallGoto(r, [pvReq[r] EXCEPT !.try = @ + 1]) ELSE CallEnds(r)
            ELSE CreateProvisioningToken(t, m, code) /\ CallEnds(r)
    /\ UNCHANGED <<pvRow, pvConn, pvDir, pvNow, pvCount, pvFaults, pvGiven, pvRaced>>

RevokeProvisioningToken(t) == pvTok' = [pvTok EXCEPT ![t] = NoTok]

(* The id of a revoked token is not used again.                            *)
RevokeProvToken(t) ==
    /\ pvTok[t] # NoTok /\ pvCount < MaxPvRequests /\ pvCount' = pvCount + 1
    /\ RevokeProvisioningToken(t)
    /\ UNCHANGED <<pvRow, pvConn, pvReq, pvDir, pvNow, pvFaults, pvGiven, pvRaced>>

-----------------------------------------------------------------------------
(* Joining. *)

GetProvisioningTokenByCode(code) == {t \in ProvTokens : Usable(t) /\ pvTok[t].code = code}
GetProvisioningToken(t)          == Usable(t)

(* The join command asks with a code ...                                   *)
JoinByCode(r, code) ==
    /\ CallBegins(r)
    /\ \E t \in GetProvisioningTokenByCode(code) : CallGoto(r, [at |-> "redeem", t |-> t, file |-> FileOf(t), script |-> FALSE])
    /\ UNCHANGED <<pvTok, pvRow, pvConn, pvDir, pvNow, pvFaults, pvGiven, pvRaced>>

(* ... the install script with the token ...                               *)
ServeScript(r, t) ==
    /\ CallBegins(r) /\ GetProvisioningToken(t)
    /\ CallGoto(r, [at |-> "redeem", t |-> t, file |-> FileOf(t), script |-> TRUE])
    /\ UNCHANGED <<pvTok, pvRow, pvConn, pvDir, pvNow, pvFaults, pvGiven, pvRaced>>

(* ... and one UPDATE decides; the certificates were read before.          *)
Mutant_RedeemProvisioningToken(r) ==
    /\ pvReq[r].at = "redeem"
    /\ LET t == pvReq[r].t IN
       IF pvTok[t] # NoTok /\ pvNow <= pvTok[t].exp
       THEN /\ pvTok' = [pvTok EXCEPT ![t].redeemed = TRUE]
            /\ pvGiven' = [pvGiven EXCEPT ![t] = @ \cup {<<r, pvCount>>}]
            /\ CallGoto(r, [at |-> "answer", t |-> t, file |-> pvReq[r].file, todo |-> CertFiles])
       ELSE CallEnds(r) /\ UNCHANGED <<pvTok, pvGiven>>
    /\ UNCHANGED <<pvRow, pvConn, pvDir, pvNow, pvCount, pvFaults, pvRaced>>

RedeemProvisioningToken(r) ==
    /\ pvReq[r].at = "redeem"
    /\ LET t == pvReq[r].t IN
       IF Usable(t)
       THEN /\ pvTok' = [pvTok EXCEPT ![t].redeemed = TRUE]
            /\ pvGiven' = [pvGiven EXCEPT ![t] = @ \cup {<<r, pvCount>>}]
            /\ CallGoto(r, [at |-> "answer", t |-> t, file |-> pvReq[r].file, todo |-> CertFiles])
       ELSE CallEnds(r) /\ UNCHANGED <<pvTok, pvGiven>>
    /\ UNCHANGED <<pvRow, pvConn, pvDir, pvNow, pvCount, pvFaults, pvRaced>>

(* The answer is lost, or a file cannot be written: the join fails, the    *)
(* token is used up.                                                       *)
JoinFails(r) ==
    /\ pvReq[r].at = "answer" /\ pvFaults < MaxPvFaults /\ pvFaults' = pvFaults + 1
    /\ CallEnds(r)
    /\ UNCHANGED <<pvTok, pvRow, pvConn, pvDir, pvNow, pvCount, pvGiven, pvRaced>>

(* ExecuteJoin: the certificates in no fixed order, agent.toml last.       *)
ExecuteJoin(r) ==
    /\ pvReq[r].at = "answer"
    /\ \/ \E f \in pvReq[r].todo :
             /\ pvDir' = [pvDir EXCEPT ![r][f] = pvReq[r].file]
             /\ CallGoto(r, [pvReq[r] EXCEPT !.todo = @ \ {f}])
       \/ /\ pvReq[r].todo = {}
          /\ pvDir' = [pvDir EXCEPT ![r]["toml"] = pvReq[r].file]
          /\ CallGoto(r, [at |-> "joined", file |-> pvReq[r].file])
    /\ UNCHANGED <<pvTok, pvRow, pvConn, pvNow, pvCount, pvFaults, pvGiven, pvRaced>>

-----------------------------------------------------------------------------
(* Machines. *)

UpsertMachine(m) == pvRow' = [pvRow EXCEPT ![m] = "row"]

(* The agent connects (gRPC checks its certificate) and is registered.     *)
AgentConnects(r) ==
    /\ pvReq[r].at = "joined"
    /\ LET m == pvReq[r].file.m IN
       /\ UpsertMachine(m) /\ pvConn' = pvConn \cup {m}
       /\ pvRaced' = IF \E b \in Callers : pvReq[b].at = "delete" /\ pvReq[b].m = m THEN pvRaced \cup {m} ELSE pvRaced
    /\ CallEnds(r)
    /\ UNCHANGED <<pvTok, pvDir, pvNow, pvCount, pvFaults, pvGiven>>

AgentLeaves(m) ==
    /\ m \in pvConn /\ pvConn' = pvConn \ {m}
    /\ UNCHANGED <<pvTok, pvRow, pvReq, pvDir, pvNow, pvCount, pvFaults, pvGiven, pvRaced>>

(* DELETE /machines: not while it is connected ...                         *)
DeleteMachine(r, m) ==
    /\ CallBegins(r) /\ pvRow[m] = "row" /\ m \notin pvConn
    /\ CallGoto(r, [at |-> "delete", m |-> m])
    /\ UNCHANGED <<pvTok, pvRow, pvConn, pvDir, pvNow, pvFaults, pvGiven, pvRaced>>

(* ... then the row is marked.                                             *)
SoftDeleteMachine(r) ==
    /\ pvReq[r].at = "delete"
    /\ pvRow' = [pvRow EXCEPT ![pvReq[r].m] = IF @ = "row" THEN "deleted" ELSE @]
    /\ CallEnds(r)
    /\ UNCHANGED <<pvTok, pvConn, pvDir, pvNow, pvCount, pvFaults, pvGiven, pvRaced>>

PvTick ==
    /\ pvNow < MaxPvTime /\ pvNow' = pvNow + 1
    /\ UNCHANGED <<pvTok, pvRow, pvConn, pvReq, pvDir, pvCount, pvFaults, pvGiven, pvRaced>>

ProvisioningNext ==
    \/ \E r \in Callers :
          \/ \E m \in MachineIds : CreateProvision(r, m) \/ DeleteMachine(r, m)
          \/ \E t \in ProvTokens : ServeScript(r, t) \/ (\E code \in ShortCodes : CreateAgentProvision(r, t, code))
          \/ \E code \in ShortCodes : JoinByCode(r, code)
          \/ CheckMachine(r) \/ RedeemProvisioningToken(r) \/ JoinFails(r) \/ ExecuteJoin(r)
          \/ AgentConnects(r) \/ SoftDeleteMachine(r)
    \/ \E t \in ProvTokens : RevokeProvToken(t)
    \/ \E m \in MachineIds : AgentLeaves(m)
    \/ PvTick

-----------------------------------------------------------------------------
(* Properties. *)

(* The key of a token is given to one caller at most, however joins and    *)
(* scripts with the same token overlap.                                    *)
KeyGivenOnce == \A t \in ProvTokens : Cardinality(pvGiven[t]) <= 1

(* Two requests for one machine that pass the checks together still leave  *)
(* it with one token that can be used.                                     *)
OneOpenToken == \A t, u \in ProvTokens : Open(t) /\ Open(u) /\ pvTok[t].m = pvTok[u].m => t = u

(* A join that succeeds leaves a directory whose files are all of its      *)
(* token, also after an earlier join into it failed half way.              *)
JoinedIsWhole ==
    \A r \in Callers : pvReq[r].at = "joined" =>
       \A f \in CertFiles \cup {"toml"} : pvDir[r][f] = pvReq[r].file

(* A connected machine is listed, also one deleted before, unless it       *)
(* connected between the two steps of a deletion.                          *)
ConnectedIsListed == \A m \in pvConn \ pvRaced : pvRow[m] = "row"

(* Joining under overlapping requests and lost answers: a key is given     *)
(* once, a machine has one open token, a successful join is whole and a    *)
(* connected machine is listed.                                            *)
ProvisioningInv ==
    /\ ProvisioningTypeOK /\ KeyGivenOnce /\ OneOpenToken
    /\ JoinedIsWhole /\ ConnectedIsListed
=============================================================================
