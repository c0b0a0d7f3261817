------------------------------- MODULE Viewer -------------------------------
(***************************************************************************)
(* The terminal dashboard (src/packages/cli/internal/tui): one loop that   *)
(* handles messages and keys one at a time, and commands that read the     *)
(* backend meanwhile.  A command carries what was current when it was      *)
(* issued; its answer is a message.  `m` is the interactiveModel, without  *)
(* what only lays out the screen.  Time is abstract: a poll may wait for   *)
(* any number of other steps.                                              *)
(***************************************************************************)
EXTENDS ServedUsage

CONSTANTS
  Selections,      \* views: tab, period, bucket, sort, filters
  FirstView,       \* the one the command line asks for
  None,
  MaxDisturbances  \* bound on keys that issue a command, here or at another viewer, a
                   \* collection asked for on the command line, and reads that fail

ASSUME ViewerAssumption == MaxDisturbances \in Nat /\ FirstView \in Selections /\ None \notin Selections

VARIABLES
  m,               \* the model the loop owns
  reloads,         \* dashboard reads on their way: the current one, one it replaced
  polls,           \* the status read on its way; one it replaced could change nothing
  collect,         \* the attempt Session.Collect waits for, or its result
  disturbances

requestVars == <<reloads, polls>>
viewerVars == <<m, requestVars, collect, disturbances>>
vars == <<servedVars, m, requestVars, collect, disturbances>>

NoRows == [selection |-> None, revision |-> 0, covered |-> 0, input |-> 0]
NoStatus == [revision |-> 0, input |-> 0, covered |-> 0]
NoAttempt == [id |-> 0, stage |-> "none"]
NoResult == [id |-> 0, outcome |-> "none"]

\* newInteractiveModel, before the terminal reports its size.
NewInteractiveModel(view) ==
  [selection |-> view, known |-> FALSE, observed |-> 0, polling |-> FALSE,
   loading |-> TRUE, inFlight |-> FALSE, loaded |-> FALSE, rows |-> NoRows, err |-> FALSE,
   queryErr |-> FALSE, statusErr |-> FALSE, statusKnown |-> FALSE, status |-> NoStatus,
   running |-> FALSE, attempt |-> NoAttempt, token |-> 0, displayedToken |-> 0,
   requested |-> FALSE, collecting |-> FALSE, result |-> NoResult]

-----------------------------------------------------------------------------
(* What the loop derives from its model *)

RefreshNeedsRead(n) ==
  /\ n.statusKnown
  /\ \/ n.rows.revision < n.status.revision \/ n.displayedToken # n.token
     \/ n.rows.input < n.status.input

CollectionActive(n) == n.collecting \/ Active(n.attempt.stage)

CollectionFailed(n) ==
  \/ n.result.outcome = "error"
  \/ n.attempt.id # 0 /\ n.attempt.stage = "failed"
  \/ n.attempt.id # 0 /\ n.attempt.id = n.result.id /\ n.result.outcome = "incomplete"
  \/ n.attempt.id = 0 /\ n.result.outcome = "incomplete"

Processing(n) == Pending(n.status) \/ n.running

AwaitsStatus(n) == n.requested /\ n.result # NoResult /\ ~n.statusKnown

RefreshBusy(n) ==
  /\ ~n.statusErr /\ ~n.queryErr /\ ~(CollectionFailed(n) /\ ~CollectionActive(n))
  /\ CollectionActive(n) \/ Processing(n) \/ RefreshNeedsRead(n) \/ AwaitsStatus(n)

\* The first case that applies is the line on the screen.
RefreshLine(n) ==
  CASE n.queryErr                   -> "update failed"
    [] n.statusErr /\ ~n.queryErr   -> "status unavailable"
    [] OTHER ->
       IF CollectionActive(n) THEN "collecting"
       ELSE IF CollectionFailed(n) THEN "incomplete"
       ELSE IF Processing(n) THEN "processing"
       ELSE IF RefreshNeedsRead(n) \/ AwaitsStatus(n) \/ (n.inFlight /\ n.loaded) THEN "updating"
       ELSE IF n.statusKnown /\ n.loaded /\ n.token # 0 THEN "refreshed"
       ELSE "saved"

\* The table and its totals; otherwise the error or the loading table.
ShowsRows(n) == ~n.err /\ ~n.loading

-----------------------------------------------------------------------------
(* Commands *)

\* tableRequests: a new sequence number makes the earlier request obsolete and
\* cancels its context.  Only an answer it already has can still arrive; an error,
\* or what was replaced before, is not followed further.
Obsolete(requests) == {[r EXCEPT !.current = FALSE] : r \in {q \in requests : q.current /\ q.at = "read"}}

Supersede(requests, r) == Obsolete(requests) \cup {r}

\* Neither superseded nor of an earlier publication identity.
Current(r) == r.known = m.known /\ r.current

Reload(n, preserve) ==
  [current |-> TRUE, known |-> n.known, selection |-> n.selection, preserve |-> preserve,
   token |-> n.token, at |-> "asked", rows |-> NoRows]

Poll == [at |-> "asked", attempt |-> NoAttempt, status |-> NoStatus]

Disturb == disturbances < MaxDisturbances /\ disturbances' = disturbances + 1

\* loadServerDashboard: one snapshot, of the selection at the time of asking.
ReadDashboard(r) ==
  /\ r.at = "asked"
  /\ \/ /\ reloads' = (reloads \ {r}) \cup {[r EXCEPT !.at = "read",
             !.rows = [selection |-> r.selection, revision |-> served.revision, covered |-> served.covered, input |-> served.input]]}
        /\ UNCHANGED disturbances
     \/ reloads' = (reloads \ {r}) \cup {[r EXCEPT !.at = "failed"]} /\ Disturb
  /\ UNCHANGED <<servedVars, m, polls, collect>>

SeenAttempt ==
  LET i == CurrentCollection([j \in DOMAIN attempts |-> attempts[j].stage]) IN
  IF i = 0 THEN NoAttempt ELSE [id |-> i, stage |-> attempts[i].stage]

Advance(p, q) == polls' = (polls \ {p}) \cup {q} /\ UNCHANGED <<servedVars, m, reloads, collect>>

\* loadSharedSync reads the attempts first, so that an acceptance is never
\* combined with an older, empty queue.
ReadProgress(p) ==
  /\ p.at = "asked"
  /\ Advance(p, [p EXCEPT !.at = "progress", !.attempt = SeenAttempt]) /\ UNCHANGED disturbances

ReadStatus(p) ==
  /\ p.at = "progress"
  /\ Advance(p, [p EXCEPT !.at = "read", !.status = served]) /\ UNCHANGED disturbances

ReadFails(p) ==
  /\ p.at \in {"asked", "progress"}
  /\ Advance(p, [p EXCEPT !.at = "failed", !.attempt = NoAttempt]) /\ Disturb

-----------------------------------------------------------------------------
(* Messages *)

\* transitionPublication: the first answer tells the identity of the publication.
Identified(n, fromStatus) ==
  [n EXCEPT !.known = TRUE, !.rows = NoRows, !.loaded = FALSE, !.displayedToken = 0,
            !.queryErr = FALSE, !.inFlight = FALSE, !.err = FALSE,
            !.loading = IF fromStatus THEN TRUE ELSE @]

Transition(n, revision, fromStatus) ==
  LET now == IF n.known THEN n ELSE Identified(n, fromStatus) IN
  IF ~n.known \/ revision > n.observed THEN [now EXCEPT !.observed = revision] ELSE now

ObserveRefresh(n, p) ==
  LET seen == [n EXCEPT !.statusErr = FALSE, !.statusKnown = TRUE, !.status = p.status,
                        !.running = Pending(p.status),
                        !.attempt = IF p.attempt.id # 0 THEN p.attempt ELSE @]
  IN [seen EXCEPT !.token = IF seen.attempt.stage = "accepted" THEN seen.attempt.id ELSE @]

\* sharedSyncMsg
StatusArrives(p) ==
  /\ p.at \in {"read", "failed"}
  /\ UNCHANGED <<servedVars, collect, disturbances>>
  /\ IF p.at = "failed"
     THEN /\ m' = [m EXCEPT !.statusErr = TRUE]
          /\ polls' = {Poll} /\ UNCHANGED reloads
     ELSE IF m.known /\ p.status.revision < m.observed
     THEN polls' = {Poll} /\ UNCHANGED <<m, reloads>>
     ELSE LET n == ObserveRefresh(Transition(m, p.status.revision, TRUE), p)
              reads == ~n.inFlight /\
                (~m.known \/ p.status.revision > m.observed \/ n.err \/ RefreshNeedsRead(n))
          IN /\ m' = [n EXCEPT !.inFlight = @ \/ reads]
             /\ reloads' = IF reads THEN Supersede(reloads, Reload(n, TRUE))
                           ELSE IF m.known THEN reloads ELSE Obsolete(reloads)
             /\ polls' = {Poll}

\* Mutant: the polls asked before the identity was known are only forgotten.
PollsDropped(n) == IF m.known THEN polls ELSE {}

\* A dashboard read that tells the identity invalidates the polls, and asks again.
PollsAfter(n) == IF m.known THEN polls ELSE IF m.polling THEN {Poll} ELSE {}

\* reloadMsg
DashboardArrives(r) ==
  /\ r.at \in {"read", "failed"}
  /\ reloads' = reloads \ {r}
  /\ UNCHANGED <<servedVars, collect, disturbances>>
  /\ IF ~Current(r) \/ r.selection # m.selection
     THEN UNCHANGED <<m, polls>>
     ELSE LET n == [m EXCEPT !.loading = FALSE, !.inFlight = FALSE]
              keeps == r.preserve /\ m.loaded
          IN IF r.at = "failed" \/ (m.known /\ r.rows.revision < m.observed)
             THEN /\ m' = IF ~keeps THEN [n EXCEPT !.err = TRUE]
                          ELSE IF r.at = "failed" THEN [n EXCEPT !.queryErr = TRUE] ELSE n
                  /\ UNCHANGED polls
             ELSE LET t == Transition(n, r.rows.revision, FALSE) IN
                  /\ m' = [t EXCEPT !.err = FALSE, !.queryErr = FALSE, !.loaded = TRUE, !.rows = r.rows,
                                    !.displayedToken = r.token, !.running = r.rows.covered < r.rows.input]
                  /\ polls' = PollsAfter(t)

\* Mutant: what was last known of the backend still counts.
FinishedKeepsStatus ==
  /\ collect.outcome # "none"
  /\ collect' = NoResult
  /\ m' = [m EXCEPT !.collecting = FALSE, !.result = collect]
  /\ polls' = {Poll}
  /\ UNCHANGED <<servedVars, reloads, disturbances>>

\* collectionFinishedMsg
CollectionFinished ==
  /\ collect.outcome # "none"
  /\ collect' = NoResult
  /\ m' = [m EXCEPT !.collecting = FALSE, !.result = collect, !.statusKnown = FALSE]
  /\ polls' = {Poll}
  /\ UNCHANGED <<servedVars, reloads, disturbances>>

-----------------------------------------------------------------------------
(* Collection through the shared backend *)

\* Session.Collect joins the collection that runs, or starts one.
CollectJoins ==
  /\ m.collecting /\ collect = NoResult
  /\ IF Collecting THEN UNCHANGED attempts ELSE AttemptBegins
  /\ collect' = [id |-> Len(attempts'), outcome |-> "none"]
  /\ UNCHANGED <<served, m, requestVars, disturbances>>

\* Its answer: what the attempt came to, or an error.
CollectReturns ==
  /\ collect.id # 0 /\ collect.outcome = "none"
  /\ \/ /\ attempts[collect.id].stage = "accepted"
        /\ collect' = [collect EXCEPT !.outcome = "done"]
        /\ UNCHANGED disturbances
     \/ /\ attempts[collect.id].stage = "failed"
        /\ collect' = [collect EXCEPT !.outcome = "incomplete"]
        /\ UNCHANGED disturbances
     \/ Disturb /\ collect' = [id |-> 0, outcome |-> "error"]
  /\ UNCHANGED <<servedVars, m, requestVars>>

OthersCollect ==
  /\ Disturb /\ AttemptBegins
  /\ UNCHANGED <<served, m, requestVars, collect>>

-----------------------------------------------------------------------------
(* Keys and the terminal *)

\* WindowSizeMsg: the first one starts the polls and the first, delayed read.
WindowSize ==
  /\ ~m.polling \/ (m.loading /\ ~m.inFlight)
  /\ m' = [m EXCEPT !.polling = TRUE, !.inFlight = @ \/ m.loading]
  /\ polls' = IF m.polling THEN polls ELSE {Poll}
  /\ reloads' = IF m.loading /\ ~m.inFlight THEN Supersede(reloads, Reload(m, FALSE)) ELSE reloads
  /\ UNCHANGED <<servedVars, collect, disturbances>>

\* Tabs, and the drawers for range, bucket, sort, grouping and filters.
Choose(view) ==
  /\ Disturb
  /\ m' = [m EXCEPT !.selection = view, !.loading = TRUE, !.inFlight = TRUE]
  /\ reloads' = Supersede(reloads, Reload(m', FALSE))
  /\ UNCHANGED <<servedVars, polls, collect>>

\* r
ReloadKey ==
  /\ Disturb /\ ~m.inFlight
  /\ m' = [m EXCEPT !.err = FALSE, !.queryErr = FALSE, !.inFlight = TRUE, !.loading = ~m.loaded]
  /\ reloads' = Supersede(reloads, Reload(m', TRUE))
  /\ UNCHANGED <<servedVars, polls, collect>>

Collected(n) ==
  [n EXCEPT !.result = NoResult, !.attempt = NoAttempt, !.statusErr = FALSE, !.queryErr = FALSE,
            !.requested = TRUE, !.collecting = TRUE]

\* R
RefreshKey ==
  /\ Disturb /\ ~m.collecting
  /\ m' = Collected(m)
  /\ polls' = {Poll}
  /\ UNCHANGED <<servedVars, reloads, collect>>

-----------------------------------------------------------------------------
Init ==
  /\ ServedInit
  /\ \/ m = NewInteractiveModel(FirstView) /\ disturbances = 0
     \/ m = Collected(NewInteractiveModel(FirstView)) /\ disturbances = 1
  /\ reloads = {} /\ polls = {} /\ collect = NoResult

Reading ==
  \/ \E r \in reloads : ReadDashboard(r)
  \/ \E p \in polls : ReadProgress(p) \/ ReadStatus(p) \/ ReadFails(p)

Update ==
  \/ \E r \in reloads : DashboardArrives(r)
  \/ \E p \in polls : StatusArrives(p)
  \/ CollectionFinished \/ WindowSize \/ ReloadKey \/ RefreshKey
  \/ \E view \in Selections : Choose(view)

Next ==
  \/ Reading \/ Update \/ CollectJoins \/ CollectReturns \/ OthersCollect
  \/ ServedNext /\ UNCHANGED viewerVars

(***************************************************************************)
(* The runtime delivers every message and runs every command; the backend  *)
(* publishes what is pending and ends its collections.  Keys may never     *)
(* come.                                                                   *)
(***************************************************************************)
Fairness ==
  /\ WF_vars(WindowSize)
  /\ WF_vars(\E r \in reloads : r.current /\ (ReadDashboard(r) \/ DashboardArrives(r)))
  /\ WF_vars(\E p \in polls : ReadProgress(p) \/ ReadStatus(p) \/ StatusArrives(p))
  /\ WF_vars(CollectJoins) /\ WF_vars(CollectReturns) /\ WF_vars(CollectionFinished)
  /\ WF_vars(Publish /\ UNCHANGED viewerVars)
  /\ WF_vars((\E i \in DOMAIN attempts : AttemptEnds(i)) /\ UNCHANGED viewerVars)

Spec == Init /\ [][Next]_vars
FairSpec == Spec /\ Fairness

-----------------------------------------------------------------------------
\* "Usage refreshed" is only said over rows that hold everything the accepted
\* collection submitted, whatever was read in which order (refreshLine,
\* loadSharedSync, refreshNeedsRead).
RefreshedIsHonest ==
  RefreshLine(m) = "refreshed" =>
    \A i \in {m.token, m.result.id} \ {0} : m.rows.covered >= attempts[i].input

\* Left alone, the screen comes to rest: nothing spins, the rows are those of the
\* last publication, and of the view chosen unless an error says otherwise.
ComesToRest ==
  <>[](/\ ~RefreshBusy(m) /\ m.rows.revision = served.revision
       /\ m.rows.selection = m.selection \/ m.queryErr)

\* Rows shown are rows of the view chosen, as the tests demand of the readouts
\* while they load ("TestReadoutsNeverPresentStaleLoading...", desk_test.go:50).
RowsFitSelection == ShowsRows(m) => m.rows.selection = m.selection
=============================================================================
