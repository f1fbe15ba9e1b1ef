----------------------------- MODULE MCPlatform -----------------------------
(***************************************************************************)
(* Accounts, provisioning, notifications and the GitHub poller in one run: *)
(* components that do not interact.  The variable part says which of them  *)
(* a behaviour is about; the others stand still, so that the state spaces  *)
(* add up instead of multiplying.                                          *)
(***************************************************************************)
EXTENDS Accounts, Provisioning, Notifications, GitHubPoller, TLC

CONSTANTS i1, i2, w1, w2

VARIABLE part

vars == <<part, acVars, provVars, notifVars, ghVars>>

(* Two items: of one kind, of kinds that follow each other in a poll, and  *)
(* of two watches that poll at the same time.                              *)
Layout(k1, k2, v2) == ghKind = (i1 :> k1 @@ i2 :> k2) /\ ghWatch = (i1 :> w1 @@ i2 :> v2)

Layouts ==
    \/ /\ ghNow = 0
       /\ \/ Layout("pr", "pr", w1) \/ Layout("check", "issue", w1)
          \/ Layout("issue_comment", "pr_comment", w1) \/ Layout("review", "release", w1)
    \/ ghNow = MaxTime /\ Layout("issue", "issue_comment", w2)

Init == /\ part \in {"accounts", "provisioning", "notifications", "github"}
        /\ AccountsInit /\ ProvisioningInit /\ NotificationsInit /\ GitHubInit /\ Layouts
        /\ part # "github" => ghNow = MaxTime
        /\ part # "notifications" => \A c \in Channels : chRow[c] = NoChannel

Next == /\ UNCHANGED part
        /\ \/ part = "accounts" /\ AccountsNext /\ UNCHANGED <<provVars, notifVars, ghVars>>
           \/ part = "provisioning" /\ ProvisioningNext /\ UNCHANGED <<acVars, notifVars, ghVars>>
           \/ part = "notifications" /\ NotificationsNext /\ UNCHANGED <<acVars, provVars, ghVars>>
           \/ part = "github" /\ GitHubNext /\ UNCHANGED <<acVars, provVars, notifVars>>

Spec == Init /\ [][Next]_vars

(* The forms of the admins and the dispatcher share no more than a channel *)
(* row: behaviours in which both go far add nothing.                       *)
FewNotices == /\ chEdits + ntEvents <= 3
              /\ chForm = [a \in NotifAdmins |-> NoForm] \/ ntEvents <= 1
=============================================================================
