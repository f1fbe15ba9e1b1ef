---------------------------- MODULE GitHubPoller ----------------------------
(***************************************************************************)
(* The GitHub connector of the bridge program: its watches                 *)
(* (internal/bridge/connector/github/github.go), each a goroutine that     *)
(* polls one repository (poller.go) and asks the server for a session per  *)
(* new item, and the state file the watches share (bridge/state/state.go). *)
(*                                                                         *)
(* An item is a pull request, check run, issue, comment, review or release *)
(* with the time of its last change, as GitHub gives it: in seconds, so    *)
(* that two changes can have the same time.  A save takes its snapshot     *)
(* before it waits for its turn to write the file.  The process may die at *)
(* any moment and then starts from the file.                               *)
(***************************************************************************)
EXTENDS Integers, FiniteSets, FiniteSetsExt

CONSTANTS Watches, GhItems,
          MaxTime,     \* bound: seconds in which something changes
          MaxFaults    \* bound: restarts, pruned entries and failed writes

ASSUME GitHubAssumption == {MaxTime, MaxFaults} \subseteq Nat

VARIABLES
    ghKind,      \* per item: what it is
    ghWatch,     \* per item: the watch of its repository
    ghTime,      \* per item: its last change, 0 before it exists
    ghListed,    \* items GitHub still lists (open pull requests and issues)
    ghNow,       \* GitHub's clock
    ghMem,       \* state.Store.data: processed ids and cursors
    ghFile,      \* the state file
    ghPoll,      \* per watch: where its poll is
    ghSessions,  \* per item: sessions created for it
    ghSeen,      \* history: per item, its latest time held against the filters
    ghReset,     \* history: items whose processed mark was lost
    ghTied,      \* history: pull requests changed in a second already seen
    ghBehind,    \* history: the last write of the file was an older snapshot
    ghFaults

ghVars == <<ghKind, ghWatch, ghTime, ghListed, ghNow, ghMem, ghFile, ghPoll, ghSessions,
            ghSeen, ghReset, ghTied, ghBehind, ghFaults>>
worldVars   == <<ghKind, ghWatch, ghTime, ghListed, ghNow, ghTied>>
historyVars == <<ghSeen, ghReset, ghTied, ghBehind, ghFaults>>

(* The triggers in the order of Poll.                                      *)
TriggerOrder == <<"pr", "check", "issue", "issue_comment", "pr_comment", "review", "release">>
GhKinds      == {TriggerOrder[k] : k \in 1 .. 7}
CursorKinds  == {"pr", "issue_comment", "pr_comment"}
IdlePoll     == [at |-> "idle"]
EmptyState   == [processed |-> {}, cursors |-> [w \in Watches |-> [k \in CursorKinds |-> 0]]]

(* The triggers configured for a watch, those it has items for.            *)
Configured(w) == {k \in 1 .. 7 : \E i \in GhItems : ghWatch[i] = w /\ ghKind[i] = TriggerOrder[k]}

(* The types of items, cursors, marks and polls, in memory and in the      *)
(* file.                                                                   *)
GitHubTypeOK ==
    /\ ghTime \in [GhItems -> 0 .. MaxTime] /\ ghNow \in 0 .. MaxTime /\ ghListed \subseteq GhItems
    /\ \A s \in {ghMem, ghFile} :
          s.processed \subseteq GhItems /\ s.cursors \in [Watches -> [CursorKinds -> 0 .. MaxTime]]
    /\ \A w \in Watches : ghPoll[w].at \in {"idle", "fetch", "visit", "save", "create"}
    /\ ghSessions \in [GhItems -> Nat]

GitHubInit ==
    /\ ghKind \in [GhItems -> GhKinds] /\ ghWatch \in [GhItems -> Watches]
    /\ ghTime = [i \in GhItems |-> 0] /\ ghListed = {} /\ ghNow \in 0 .. MaxTime
    /\ ghMem = EmptyState /\ ghFile = EmptyState
    /\ ghPoll = [w \in Watches |-> IdlePoll]
    /\ ghSessions = [i \in GhItems |-> 0]
    /\ ghSeen = [i \in GhItems |-> 0] /\ ghReset = {} /\ ghTied = {} /\ ghBehind = FALSE
    /\ ghFaults = 0

-----------------------------------------------------------------------------
(* GitHub. *)

(* An item appears or changes, in the current second or the next.          *)
ItemChanges(i) ==
    \E t \in {ghNow, ghNow + 1} :
       /\ t \in 1 .. MaxTime /\ t > ghTime[i] /\ (i \in ghListed \/ ghTime[i] = 0)
       /\ ghTime' = [ghTime EXCEPT ![i] = t] /\ ghNow' = t
       /\ ghListed' = ghListed \cup {i}
       /\ ghTied' = IF t = ghNow /\ ghKind[i] = "pr" THEN ghTied \cup {i} ELSE ghTied \ {i}
       /\ UNCHANGED <<ghKind, ghWatch, ghMem, ghFile, ghPoll, ghSessions, ghSeen, ghReset, ghBehind, ghFaults>>

(* A pull request or an issue is closed, with what hangs on it.            *)
ItemCloses(i) ==
    /\ i \in ghListed /\ ghListed' = ghListed \ {i}
    /\ UNCHANGED <<ghKind, ghWatch, ghTime, ghNow, ghMem, ghFile, ghPoll, ghSessions, historyVars>>

Listed(w, kind) == {i \in ghListed : ghWatch[i] = w /\ ghKind[i] = kind}

-----------------------------------------------------------------------------
(* The state store. *)

GetCursor(w, kind) == ghMem.cursors[w][kind]
IsProcessed(i)     == i \in ghMem.processed

PollGoto(w, to) == ghPoll' = [ghPoll EXCEPT ![w] = to]

(* Save: the snapshot is taken; the file is written in a later step.       *)
Save(w, data, next) == ghMem' = data /\ PollGoto(w, [at |-> "save", data |-> data, next |-> next])

SetCursor(w, kind, t, next) == Save(w, [ghMem EXCEPT !.cursors[w][kind] = t], next)

MarkProcessed(w, i, next) == Save(w, [ghMem EXCEPT !.processed = @ \cup {i}], next)

(* The file is replaced, or that fails and is logged.                      *)
SaveWrites(w) ==
    /\ ghPoll[w].at = "save"
    /\ \/ /\ ghFile' = ghPoll[w].data /\ ghBehind' = (ghPoll[w].data # ghMem)
          /\ UNCHANGED ghFaults
       \/ /\ ghFaults < MaxFaults /\ ghFaults' = ghFaults + 1
          /\ ghBehind' = TRUE /\ UNCHANGED ghFile
    /\ PollGoto(w, ghPoll[w].next)
    /\ UNCHANGED <<worldVars, ghMem, ghSessions, ghSeen, ghReset>>

(* Prune drops an entry that is a week old, and saves.                     *)
Prune(w, i) ==
    /\ ghPoll[w] = IdlePoll /\ IsProcessed(i) /\ ghFaults < MaxFaults
    /\ ghFaults' = ghFaults + 1 /\ ghReset' = ghReset \cup {i}
    /\ Save(w, [ghMem EXCEPT !.processed = @ \ {i}], IdlePoll)
    /\ UNCHANGED <<worldVars, ghFile, ghSessions, ghSeen, ghBehind>>

(* The process dies and starts again: Load.                                *)
Load ==
    /\ ghFaults < MaxFaults /\ ghFaults' = ghFaults + 1
    /\ ghMem' = ghFile /\ ghPoll' = [w \in Watches |-> IdlePoll]
    /\ ghReset' = ghReset \cup (ghMem.processed \ ghFile.processed)
    /\ ghBehind' = FALSE
    /\ UNCHANGED <<worldVars, ghFile, ghSessions, ghSeen>>

-----------------------------------------------------------------------------
(* A poll. *)

AtTrigger(w, kind) == ghPoll[w].at = "fetch" /\ TriggerOrder[ghPoll[w].k] = kind

(* After trigger k: the next one, unless the rate limit is low, or the     *)
(* sessions.                                                               *)
AfterTrigger(w, k, low, found) ==
    LET rest == {l \in Configured(w) : l > k}
    IN  IF low \/ rest = {} THEN [at |-> "create", found |-> found]
        ELSE [at |-> "fetch", k |-> Min(rest), found |-> found]

(* runWatch: the ticker.                                                   *)
runWatch(w) ==
    /\ ghPoll[w] = IdlePoll /\ Configured(w) # {}
    /\ PollGoto(w, [at |-> "fetch", k |-> Min(Configured(w)), found |-> {}])
    /\ UNCHANGED <<worldVars, ghMem, ghFile, ghSessions, ghSeen, ghReset, ghBehind, ghFaults>>

Stamped(S) == {<<i, ghTime[i]>> : i \in S}

(* The answer to a request: the items to visit, the latest time in it, and *)
(* whether the rate limit is low (checkRateLimit).                         *)
Visit(w, visit, latest, low) ==
    /\ PollGoto(w, [at |-> "visit", k |-> ghPoll[w].k, found |-> ghPoll[w].found,
                    todo |-> Stamped(visit), latest |-> latest, low |-> low])
    /\ UNCHANGED <<worldVars, ghMem, ghFile, ghSessions, ghSeen, ghReset, ghBehind, ghFaults>>

Latest(S) == Max({0} \cup {ghTime[i] : i \in S})

After(S, t) == {i \in S : ghTime[i] > t}
Since(S, t) == {i \in S : ghTime[i] >= t}

fetchOpenPRs(w)   == Listed(w, "pr")
fetchCheckRuns(w) == Listed(w, "check")
fetchPRReviews(w) == Listed(w, "review")

(* Pull requests strictly after the cursor.                                *)
Mutant_processPRs(w, low) ==
    /\ AtTrigger(w, "pr")
    /\ SetCursor(w, "pr", Latest(fetchOpenPRs(w)),
                 [at |-> "visit", k |-> ghPoll[w].k, found |-> ghPoll[w].found,
                  todo |-> Stamped(After(fetchOpenPRs(w), GetCursor(w, "pr"))), latest |-> 0, low |-> low])
    /\ UNCHANGED <<worldVars, ghFile, ghSessions, ghSeen, ghReset, ghBehind, ghFaults>>

processPRs(w, low) ==
    /\ AtTrigger(w, "pr")
    /\ Visit(w, After(fetchOpenPRs(w), GetCursor(w, "pr")), Latest(fetchOpenPRs(w)), low)

(* Check runs have no cursor.                                              *)
processCheckRuns(w, low) ==
    /\ AtTrigger(w, "check")
    /\ Visit(w, fetchCheckRuns(w), 0, low)

processIssues(w, low) ==
    /\ AtTrigger(w, "issue")
    /\ Visit(w, Listed(w, "issue"), 0, low)

(* The since parameter includes its own second.                            *)
processIssueComments(w, low) ==
    /\ AtTrigger(w, "issue_comment")
    /\ LET page == Since(Listed(w, "issue_comment"), GetCursor(w, "issue_comment"))
       IN  Visit(w, page, Latest(page), low)

processPRComments(w, low) ==
    /\ AtTrigger(w, "pr_comment")
    /\ LET page == Since(Listed(w, "pr_comment"), GetCursor(w, "pr_comment"))
       IN  Visit(w, page, Latest(page), low)

(* Reviews: the list of pull requests is fetched again.                    *)
processPRReviews(w, low) ==
    /\ AtTrigger(w, "review")
    /\ Visit(w, fetchPRReviews(w), 0, low)

processReleases(w, low) ==
    /\ AtTrigger(w, "release")
    /\ Visit(w, Listed(w, "release"), 0, low)

Fetched(w, low) ==
    \/ processPRs(w, low) \/ processCheckRuns(w, low) \/ processIssues(w, low) \/ processIssueComments(w, low)
    \/ processPRComments(w, low) \/ processPRReviews(w, low) \/ processReleases(w, low)

(* A failed request for the check runs or the reviews of a pull request,   *)
(* or for the list of pull requests in the case of reviews, is passed over.*)
FetchSkipped(w) ==
    /\ AtTrigger(w, "check") \/ AtTrigger(w, "review")
    /\ Visit(w, {}, 0, FALSE)

(* Any other failed request ends the poll with an error: pollOnce drops    *)
(* what earlier triggers found.                                            *)
PollFails(w) ==
    /\ ghPoll[w].at = "fetch" /\ TriggerOrder[ghPoll[w].k] # "review"
    /\ PollGoto(w, IdlePoll)
    /\ UNCHANGED <<worldVars, ghMem, ghFile, ghSessions, ghSeen, ghReset, ghBehind, ghFaults>>

(* One item of the answer: processed already, not matched by the filters   *)
(* (or its files could not be fetched), or matched and marked.             *)
VisitItem(w) ==
    /\ ghPoll[w].at = "visit"
    /\ \E v \in ghPoll[w].todo :
          LET rest == [ghPoll[w] EXCEPT !.todo = @ \ {v}] IN
          /\ ghSeen' = [ghSeen EXCEPT ![v[1]] = v[2]]
          /\ \/ PollGoto(w, rest) /\ UNCHANGED ghMem
             \/ ~IsProcessed(v[1]) /\ MarkProcessed(w, v[1], [rest EXCEPT !.found = @ \cup {v[1]}])
    /\ UNCHANGED <<worldVars, ghFile, ghSessions, ghReset, ghBehind, ghFaults>>

(* The end of a trigger: its cursor moves to the latest time seen.         *)
TriggerDone(w) ==
    /\ ghPoll[w].at = "visit" /\ ghPoll[w].todo = {}
    /\ LET p    == ghPoll[w]
           kind == TriggerOrder[p.k]
           next == AfterTrigger(w, p.k, p.low, p.found)
       IN  IF kind \in CursorKinds /\ p.latest > GetCursor(w, kind)
           THEN SetCursor(w, kind, p.latest, next)
           ELSE PollGoto(w, next) /\ UNCHANGED ghMem
    /\ UNCHANGED <<worldVars, ghFile, ghSessions, ghSeen, ghReset, ghBehind, ghFaults>>

(* createSession for one event; a refusal is logged and not repeated.      *)
createSession(w) ==
    /\ ghPoll[w].at = "create"
    /\ \E i \in ghPoll[w].found :
          /\ PollGoto(w, [ghPoll[w] EXCEPT !.found = @ \ {i}])
          /\ \/ ghSessions' = [ghSessions EXCEPT ![i] = @ + 1]
             \/ UNCHANGED ghSessions
    /\ UNCHANGED <<worldVars, ghMem, ghFile, ghSeen, ghReset, ghBehind, ghFaults>>

pollOnceEnds(w) ==
    /\ ghPoll[w].at = "create" /\ ghPoll[w].found = {}
    /\ PollGoto(w, IdlePoll)
    /\ UNCHANGED <<worldVars, ghMem, ghFile, ghSessions, ghSeen, ghReset, ghBehind, ghFaults>>

PollGoesOn(w) == runWatch(w) \/ SaveWrites(w) \/ VisitItem(w) \/ TriggerDone(w) \/ createSession(w) \/ pollOnceEnds(w)

GitHubNext ==
    \/ \E i \in GhItems : ItemChanges(i) \/ ItemCloses(i)
    \/ \E w \in Watches :
          \/ PollGoesOn(w) \/ PollFails(w) \/ FetchSkipped(w) \/ (\E low \in BOOLEAN : Fetched(w, low))
          \/ \E i \in GhItems : Prune(w, i)
    \/ Load

-----------------------------------------------------------------------------
(* Properties. *)

(* An item gets at most one session, whatever order polls, updates and     *)
(* restarts come in, unless its mark was pruned or missing in the file the *)
(* bridge restarted from.                                                  *)
NoDuplicateSession == \A i \in GhItems \ ghReset : ghSessions[i] <= 1

(* While no save is under way and none was overtaken by an older snapshot, *)
(* the file holds what memory holds: a restart then loses nothing.         *)
FileIsCurrent ==
    (\A w \in Watches : ghPoll[w].at # "save") /\ ~ghBehind => ghFile = ghMem

(* A cursor never moves back while the bridge runs, also when the pull     *)
(* requests that moved it are closed.                                      *)
CursorNeverBack ==
    ghFaults' = ghFaults =>
       \A w \in Watches, k \in CursorKinds : ghMem'.cursors[w][k] >= ghMem.cursors[w][k]

(* A cursor passes no change that was not held against the filters while   *)
(* GitHub lists the item, whenever the bridge dies, except a pull request  *)
(* that changed in a second already seen.                                  *)
CursorPassesSeen ==
    \A i \in {j \in ghListed \ ghTied : ghKind[j] \in CursorKinds} :
       LET cursor == ghMem.cursors[ghWatch[i]][ghKind[i]] IN
       ghTime[i] < cursor \/ (ghKind[i] = "pr" /\ ghTime[i] = cursor) => ghSeen[i] = ghTime[i]

(* Polling over restarts: no second session for an item, no change passed  *)
(* over, no cursor that moves back, and a state file that is current once  *)
(* saves are done.                                                         *)
GitHubSafe ==
    /\ [](GitHubTypeOK /\ NoDuplicateSession /\ FileIsCurrent /\ CursorPassesSeen)
    /\ [][CursorNeverBack]_ghVars
=============================================================================
