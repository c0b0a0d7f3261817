---------------------------- MODULE Viewer_proofs ----------------------------
(***************************************************************************)
(* What the terminal dashboard says of its rows, for every set of views,   *)
(* any number of keys, failed reads, collections and publications, that    *)
(* the filters being chosen survive the reads under them, and that the row *)
(* in focus is on the screen.                                              *)
(***************************************************************************)
EXTENDS Viewer, Drawer, RowWindow, FiniteSetTheorems, SequenceTheorems,
        WellFoundedInduction, TLAPS

-----------------------------------------------------------------------------
(* The invariant. *)

\* A snapshot of the publication: each revision covers one more input.
Snapshot(s) == s.input \in Nat /\ s.covered \in Nat /\ s.revision = s.covered + 1

\* Attempts end in order; what one submitted has been accepted.
AttemptsHold ==
  /\ attempts \in Seq([stage : {"active", "accepted", "failed"}, input : Nat])
  /\ \A i \in 1..Len(attempts) :
       /\ attempts[i].input <= served.input
       /\ Active(attempts[i].stage) => i = Len(attempts)

Ended(i) == i \in 1..Len(attempts) /\ ~Active(attempts[i].stage)

\* An attempt that ended, and all it submitted is in a status with that input.
Within(i, input) == Ended(i) /\ attempts[i].input <= input

ServedHolds ==
  /\ served = [input |-> served.input, covered |-> served.covered, revision |-> served.revision]
  /\ Snapshot(served)

\* What a poll brings is no older than what is known, and no older than the attempt it
\* tells of and the result that made the viewer ask again.
PollFits(p) ==
  /\ DOMAIN p = {"at", "attempt", "status"}
  /\ p.attempt.stage = "accepted" => Ended(p.attempt.id)
  /\ p.at = "read" =>
       /\ Snapshot(p.status) /\ m.status.input <= p.status.input /\ p.status.input <= served.input
       /\ p.attempt.stage = "accepted" => Within(p.attempt.id, p.status.input)
       /\ m.result.id # 0 => Within(m.result.id, p.status.input)

ReloadFits(r) ==
  /\ DOMAIN r = {"current", "known", "selection", "preserve", "token", "at", "rows"}
  /\ r.at = "read" => Snapshot(r.rows)

\* The attempt that made the last status count, and the one on the screen, are within it.
StatusFits ==
  /\ m.status.input \in Nat /\ m.status.input <= served.input
  /\ m.statusKnown => Snapshot(m.status)
  /\ m.token # 0 => Within(m.token, m.status.input)
  /\ m.attempt.stage = "accepted" => Within(m.attempt.id, m.status.input)
  /\ m.result.id # 0 => Ended(m.result.id)
  /\ m.result.id # 0 /\ m.statusKnown => Within(m.result.id, m.status.input)

RowsFit == m.rows.covered \in Nat /\ m.rows.revision \in Nat /\ m.rows.revision <= m.rows.covered + 1

\* The viewer waits for a collection there is; the one whose result is on its way to the loop
\* has ended.
CollectFits ==
  /\ DOMAIN collect = {"id", "outcome"} /\ collect.id \in {0} \cup 1..Len(attempts)
  /\ collect.outcome # "none" /\ collect.id # 0 => Ended(collect.id)

Fields ==
  {"selection", "known", "observed", "polling", "loading", "inFlight", "loaded", "rows", "err",
   "queryErr", "statusErr", "statusKnown", "status", "running", "attempt", "token",
   "displayedToken", "requested", "collecting", "result"}

ViewerInv ==
  /\ ServedHolds /\ AttemptsHold
  /\ DOMAIN m = Fields /\ StatusFits /\ RowsFit
  /\ \A p \in polls : PollFits(p)
  /\ \A r \in reloads : ReloadFits(r)
  /\ CollectFits

-----------------------------------------------------------------------------
(* The backend. *)

\* What goes on at the backend adds input, and leaves what ended as it was.
Later ==
  /\ ServedHolds' /\ AttemptsHold' /\ served.input <= served'.input
  /\ 1..Len(attempts) \subseteq 1..Len(attempts')
  /\ \A i : Ended(i) => Ended(i)' /\ attempts'[i] = attempts[i]

\* An input is a number.
LEMMA InputTyped ==
  ASSUME AttemptsHold
  PROVE  \A i \in 1..Len(attempts) : attempts[i].input \in Nat
<1> DEFINE Attempt == [stage : {"active", "accepted", "failed"}, input : Nat]
<1>1. attempts \in Seq(Attempt) /\ \A x \in Attempt : x.input \in Nat
  BY DEF AttemptsHold
<1> HIDE DEF Attempt
<1>2. \A i \in 1..Len(attempts) : attempts[i] \in Attempt
  BY <1>1
<1> QED BY <1>1, <1>2

\* A collection begins when none is active, and is the last one then.
LEMMA AttemptBeginsLater ==
  ASSUME ServedHolds, AttemptsHold, AttemptBegins, UNCHANGED served
  PROVE  Later /\ Len(attempts') = Len(attempts) + 1 /\ Len(attempts) \in Nat
<1> DEFINE Attempt == [stage : {"active", "accepted", "failed"}, input : Nat]
           new == [stage |-> "active", input |-> 0]
<1>1. new \in Attempt /\ new.input = 0 /\ attempts \in Seq(Attempt)
  BY DEF AttemptsHold
<1>2. attempts' = Append(attempts, new)
  BY DEF AttemptBegins
<1> HIDE DEF Attempt, new
<1>3. /\ Len(attempts) \in Nat /\ attempts' \in Seq(Attempt) /\ Len(attempts') = Len(attempts) + 1
      /\ \A i \in 1..Len(attempts) : attempts'[i] = attempts[i]
      /\ attempts'[Len(attempts) + 1] = new
  BY <1>1, <1>2
<1>4. \A i \in 1..Len(attempts) : ~Active(attempts[i].stage)
  BY <1>1 DEF AttemptBegins, Collecting
<1>5. \A i \in 1..Len(attempts') : i \in 1..Len(attempts) \/ i = Len(attempts')
  BY <1>3
<1>6. served.input \in Nat
  BY DEF ServedHolds, Snapshot
<1>7. AttemptsHold'
  <2>1. \A i \in 1..Len(attempts') : attempts'[i].input <= served'.input
    BY <1>1, <1>3, <1>5, <1>6 DEF AttemptsHold
  <2>2. \A i \in 1..Len(attempts') : Active(attempts'[i].stage) => i = Len(attempts')
    BY <1>3, <1>4, <1>5
  <2> QED BY <1>3, <2>1, <2>2 DEF AttemptsHold, Attempt
<1>8. \A i : Ended(i) => Ended(i)' /\ attempts'[i] = attempts[i]
  BY <1>3 DEF Ended
<1> QED BY <1>3, <1>6, <1>7, <1>8 DEF Later, ServedHolds

\* The backend itself accepts batches, ends collections and publishes.
LEMMA ServedNextLater ==
  ASSUME ServedHolds, AttemptsHold, ServedNext
  PROVE  Later
<1> DEFINE Attempt == [stage : {"active", "accepted", "failed"}, input : Nat]
<1>1. /\ served.input \in Nat /\ served.covered \in Nat /\ served.revision = served.covered + 1
      /\ served = [input |-> served.input, covered |-> served.covered, revision |-> served.revision]
      /\ attempts \in Seq(Attempt) /\ Len(attempts) \in Nat /\ DOMAIN attempts = 1..Len(attempts)
  BY DEF ServedHolds, Snapshot, AttemptsHold
<1> HIDE DEF Attempt
<1>2. ASSUME NEW i \in DOMAIN attempts, BatchAccepted(i) PROVE Later
  <2>1. /\ attempts' = attempts /\ served'.input = served.input + 1
        /\ served'.covered = served.covered /\ served'.revision = served.revision
        /\ served' = [input |-> served'.input, covered |-> served'.covered, revision |-> served'.revision]
    BY <1>1, <1>2 DEF BatchAccepted
  <2>2. \A j \in 1..Len(attempts) : attempts[j].input \in Nat
    BY InputTyped
  <2> QED BY <1>1, <2>1, <2>2 DEF Later, ServedHolds, AttemptsHold, Snapshot, Ended
<1>3. ASSUME NEW i \in DOMAIN attempts, AttemptEnds(i) PROVE Later
  <2>1. PICK a \in Attempt : /\ attempts' = [attempts EXCEPT ![i] = a]
                             /\ ~Active(a.stage) /\ a.input <= served.input
    <3>1. attempts[i] \in Attempt /\ attempts[i].input <= served.input
      BY <1>1, <1>3 DEF AttemptsHold
    <3> DEFINE lost == [attempts[i] EXCEPT !.stage = "failed"]
               done == [stage |-> "accepted", input |-> served.input]
    <3>2. lost \in Attempt /\ lost.stage = "failed" /\ lost.input = attempts[i].input
      BY <3>1 DEF Attempt
    <3>3. done \in Attempt /\ done.stage = "accepted" /\ done.input = served.input
      BY <1>1 DEF Attempt
    <3>4. \/ attempts' = [attempts EXCEPT ![i] = lost]
          \/ attempts' = [attempts EXCEPT ![i] = done]
      BY <1>3 DEF AttemptEnds
    <3>5. served.input <= served.input
      BY <1>1
    <3> HIDE DEF lost, done
    <3> QED BY <3>1, <3>2, <3>3, <3>4, <3>5 DEF Active
  <2>2. /\ attempts' \in Seq(Attempt) /\ Len(attempts') = Len(attempts)
        /\ \A j \in 1..Len(attempts) : attempts'[j] = IF j = i THEN a ELSE attempts[j]
    BY <1>1, <2>1
  <2>3. served' = served /\ i \in 1..Len(attempts) /\ Active(attempts[i].stage)
    BY <1>1, <1>3 DEF AttemptEnds
  <2>4. AttemptsHold'
    BY <2>1, <2>2, <2>3 DEF AttemptsHold, Attempt
  <2>5. \A j : Ended(j) => Ended(j)' /\ attempts'[j] = attempts[j]
    BY <2>2, <2>3 DEF Ended
  <2> QED BY <1>1, <2>2, <2>3, <2>4, <2>5 DEF Later, ServedHolds
<1>4. ASSUME Publish PROVE Later
  <2>1. /\ attempts' = attempts /\ served'.input = served.input
        /\ served'.covered = served.covered + 1 /\ served'.revision = served.revision + 1
        /\ served' = [input |-> served'.input, covered |-> served'.covered, revision |-> served'.revision]
    BY <1>1, <1>4 DEF Publish
  <2> QED BY <1>1, <2>1 DEF Later, ServedHolds, AttemptsHold, Snapshot, Ended
<1> QED BY <1>2, <1>3, <1>4 DEF ServedNext

\* What the viewer knows stays true while the backend goes on.
LEMMA KnownStays ==
  ASSUME ViewerInv, Later, UNCHANGED <<m, polls, reloads>>
  PROVE  /\ ServedHolds' /\ AttemptsHold'
         /\ DOMAIN m' = Fields /\ StatusFits' /\ RowsFit'
         /\ \A p \in polls' : PollFits(p)'
         /\ \A r \in reloads' : ReloadFits(r)'
<1>1. /\ served.input \in Nat /\ served'.input \in Nat /\ served.input <= served'.input
      /\ ServedHolds' /\ AttemptsHold'
  BY DEF Later, ServedHolds, Snapshot, ViewerInv
<1>2. \A i, n : Within(i, n) => Within(i, n)'
  BY DEF Later, Within
<1>3. \A i : Ended(i) => Ended(i)'
  BY DEF Later
<1>4. StatusFits'
  BY <1>1, <1>2, <1>3 DEF ViewerInv, StatusFits
<1>5. ASSUME NEW p \in polls PROVE PollFits(p)'
  <2>1. PollFits(p) /\ m.status.input \in Nat
    BY DEF ViewerInv, StatusFits
  <2>2. p.at = "read" => p.status.input <= served'.input
    BY <1>1, <2>1 DEF PollFits, Snapshot
  <2> QED BY <1>2, <1>3, <2>1, <2>2 DEF PollFits
<1> QED BY <1>1, <1>4, <1>5 DEF ViewerInv, RowsFit, ReloadFits

-----------------------------------------------------------------------------
(* What messages change. *)

\* A model that knows what the present one knows, but for its rows.
Alike(n) ==
  /\ DOMAIN n = Fields
  /\ n.status = m.status /\ n.statusKnown = m.statusKnown /\ n.token = m.token
  /\ n.attempt = m.attempt /\ n.result = m.result

\* A request that was just sent fits whatever is known.
LEMMA FreshFits ==
  ASSUME TRUE
  PROVE  PollFits(Poll) /\ \A n, preserve : ReloadFits(Reload(n, preserve))
BY DEF PollFits, Poll, NoAttempt, ReloadFits, Reload

\* An obsolete request is the request it was.
LEMMA SupersedeFits ==
  ASSUME NEW R, \A r \in R : ReloadFits(r), NEW q, ReloadFits(q)
  PROVE  \A r \in Obsolete(R) \cup Supersede(R, q) : ReloadFits(r)
<1>1. ASSUME NEW r \in R PROVE ReloadFits([r EXCEPT !.current = FALSE])
  <2>1. ReloadFits(r)
    OBVIOUS
  <2> QED BY <2>1 DEF ReloadFits
<1> QED BY <1>1 DEF Obsolete, Supersede

\* The identity of the publication, once told, at most takes rows away.
LEMMA TransitionAlike ==
  ASSUME NEW n, Alike(n), NEW revision, NEW fromStatus
  PROVE  LET t == Transition(n, revision, fromStatus)
         IN Alike(t) /\ t.rows \in {n.rows, NoRows}
<1> DEFINE now == IF n.known THEN n ELSE Identified(n, fromStatus)
<1>1. Alike(Identified(n, fromStatus)) /\ Identified(n, fromStatus).rows = NoRows
  BY DEF Identified, Alike, Fields
<1>2. Alike(now) /\ now.rows \in {n.rows, NoRows}
  BY <1>1
<1> HIDE DEF now
<1>3. Alike([now EXCEPT !.observed = revision]) /\ [now EXCEPT !.observed = revision].rows = now.rows
  BY <1>2 DEF Alike, Fields
<1> QED BY <1>2, <1>3 DEF Transition, now

\* What is known stays known under a model that is alike.
LEMMA AlikeFits ==
  ASSUME ViewerInv, UNCHANGED servedVars, Alike(m')
  PROVE  /\ ServedHolds' /\ AttemptsHold' /\ DOMAIN m' = Fields /\ StatusFits'
         /\ \A p : PollFits(p) => PollFits(p)'
         /\ \A r : ReloadFits(r) => ReloadFits(r)'
BY DEF ViewerInv, servedVars, ServedHolds, AttemptsHold, Alike, StatusFits, PollFits, ReloadFits,
       Within, Ended

\* No rows fit.
LEMMA NoRowsFit ==
  ASSUME m'.rows \in {m.rows, NoRows}, RowsFit
  PROVE  RowsFit'
BY DEF RowsFit, NoRows

\* What a poll tells replaces what was known; the attempt that counts is the newest one
\* that was accepted, and the status is no older than its acceptance.
LEMMA ObserveFits ==
  ASSUME ViewerInv, NEW p \in polls, p.at = "read", UNCHANGED servedVars,
         NEW t, Alike(t), NEW n, n = ObserveRefresh(t, p), DOMAIN m' = Fields,
         m'.status = n.status, m'.statusKnown = n.statusKnown, m'.token = n.token,
         m'.attempt = n.attempt, m'.result = n.result
  PROVE  StatusFits'
<1> DEFINE seen == [t EXCEPT !.statusErr = FALSE, !.statusKnown = TRUE, !.status = p.status,
                             !.running = Pending(p.status),
                             !.attempt = IF p.attempt.id # 0 THEN p.attempt ELSE @]
           token == IF seen.attempt.stage = "accepted" THEN seen.attempt.id ELSE t.token
<1>1. /\ DOMAIN seen = Fields /\ seen.statusKnown = TRUE /\ seen.status = p.status
      /\ seen.attempt = (IF p.attempt.id # 0 THEN p.attempt ELSE m.attempt)
      /\ seen.token = m.token /\ seen.result = m.result
  BY DEF Alike, Fields
<1>2. n = [seen EXCEPT !.token = IF seen.attempt.stage = "accepted" THEN seen.attempt.id ELSE @]
  BY DEF ObserveRefresh
<1> HIDE DEF seen
<1>3. /\ n.statusKnown = TRUE /\ n.status = p.status /\ n.attempt = seen.attempt
      /\ n.result = m.result
      /\ n.token = IF seen.attempt.stage = "accepted" THEN seen.attempt.id ELSE m.token
  BY <1>1, <1>2 DEF Fields
<1>4. /\ Snapshot(p.status) /\ p.status.input <= served.input
      /\ m.status.input \in Nat /\ m.status.input <= p.status.input /\ p.status.input \in Nat
      /\ p.attempt.stage = "accepted" => Within(p.attempt.id, p.status.input)
      /\ m.result.id # 0 => Within(m.result.id, p.status.input)
  BY DEF ViewerInv, PollFits, StatusFits, Snapshot
<1>5. ASSUME NEW i, Within(i, m.status.input) PROVE Within(i, p.status.input)
  <2>1. attempts[i].input \in Nat
    BY <1>5, InputTyped DEF ViewerInv, Within, Ended
  <2> QED BY <1>4, <1>5, <2>1 DEF Within
<1>6. seen.attempt.stage = "accepted" => Within(seen.attempt.id, p.status.input)
  BY <1>1, <1>4, <1>5 DEF ViewerInv, StatusFits
<1>7. n.token # 0 => Within(n.token, p.status.input)
  BY <1>3, <1>5, <1>6 DEF ViewerInv, StatusFits
<1>8. \A i, k : Within(i, k) => Within(i, k)' /\ Ended(i)'
  BY DEF Within, Ended, servedVars
<1> QED BY <1>1, <1>3, <1>4, <1>6, <1>7, <1>8 DEF StatusFits, Snapshot, servedVars

-----------------------------------------------------------------------------
(* Reads, and their answers. *)

\* While a collection is active it is the last one, so that the one a viewer is told of is
\* the last in either case; if it was accepted, it ended.
LEMMA SeenEnded ==
  ASSUME AttemptsHold, SeenAttempt.stage = "accepted"
  PROVE  Ended(SeenAttempt.id)
<1> DEFINE Attempt == [stage : {"active", "accepted", "failed"}, input : Nat]
           seen == [j \in DOMAIN attempts |-> attempts[j].stage]
           here == CurrentCollection(seen)
<1>1. attempts \in Seq(Attempt) /\ Len(attempts) \in Nat /\ DOMAIN attempts = 1..Len(attempts)
  BY DEF AttemptsHold
<1>2. \A x \in Attempt : x.stage \in {"active", "accepted", "failed"}
  OBVIOUS
<1> HIDE DEF Attempt
<1>3. seen \in Seq({"active", "accepted", "failed"}) /\ Len(seen) = Len(attempts) /\ DOMAIN seen = 1..Len(attempts)
      /\ \A j \in 1..Len(attempts) : seen[j] = attempts[j].stage
  BY <1>1, <1>2
<1> HIDE DEF seen
<1>4. here = 0 \/ here \in 1..Len(attempts)
  <2>1. CASE \E i \in DOMAIN seen : Active(seen[i])
    <3>1. PICK i \in DOMAIN seen : Active(seen[i])
      BY <2>1
    <3>2. i = Len(attempts)
      BY <1>3, <3>1 DEF AttemptsHold
    <3>3. \A j \in i + 1..Len(seen) : ~Active(seen[j])
      BY <1>1, <1>3, <3>2
    <3>4. here \in DOMAIN seen
      BY <2>1, <3>1, <3>3 DEF CurrentCollection
    <3> QED BY <1>3, <3>4
  <2>2. CASE ~\E i \in DOMAIN seen : Active(seen[i])
    <3>1. here = Len(attempts)
      BY <1>3, <2>2 DEF CurrentCollection
    <3> QED BY <1>1, <3>1
  <2> QED BY <2>1, <2>2
<1>5. SeenAttempt = IF here = 0 THEN NoAttempt ELSE [id |-> here, stage |-> attempts[here].stage]
  BY DEF SeenAttempt, seen
<1> HIDE DEF here
<1>6. here \in 1..Len(attempts) /\ SeenAttempt.id = here /\ attempts[here].stage = "accepted"
  BY <1>4, <1>5 DEF NoAttempt
<1> QED BY <1>6 DEF Ended, Active

\* Reading changes one request under way, and what it found fits.
LEMMA ReadingNext ==
  ASSUME ViewerInv, Reading
  PROVE  ViewerInv'
<1>0. UNCHANGED <<servedVars, m, collect>>
  BY DEF Reading, ReadDashboard, ReadProgress, ReadStatus, ReadFails, Advance
<1>1. /\ ServedHolds' /\ AttemptsHold' /\ DOMAIN m' = Fields /\ StatusFits' /\ RowsFit'
      /\ CollectFits'
      /\ \A p : PollFits(p) => PollFits(p)'
      /\ \A r : ReloadFits(r) => ReloadFits(r)'
  BY <1>0 DEF ViewerInv, servedVars, ServedHolds, AttemptsHold, StatusFits, RowsFit, PollFits,
              ReloadFits, CollectFits, Within, Ended
<1>2. SUFFICES (\A p \in polls' : PollFits(p)) /\ \A r \in reloads' : ReloadFits(r)
  BY <1>1 DEF ViewerInv
<1>3. Snapshot(served) /\ m.status.input \in Nat /\ m.status.input <= served.input
  BY DEF ViewerInv, ServedHolds, StatusFits
<1>4. ASSUME NEW r \in reloads, ReadDashboard(r) PROVE \A q \in reloads' : ReloadFits(q)
  <2>1. ReloadFits(r)
    BY DEF ViewerInv
  <2> DEFINE found == [r EXCEPT !.at = "read",
                 !.rows = [selection |-> r.selection, revision |-> served.revision,
                           covered |-> served.covered, input |-> served.input]]
             lost == [r EXCEPT !.at = "failed"]
  <2>2. ReloadFits(found)
    BY <1>3, <2>1 DEF ReloadFits, Snapshot
  <2>3. ReloadFits(lost)
    BY <2>1 DEF ReloadFits
  <2>4. reloads' \in {(reloads \ {r}) \cup {found}, (reloads \ {r}) \cup {lost}}
    BY <1>4 DEF ReadDashboard
  <2> HIDE DEF found, lost
  <2> QED BY <2>2, <2>3, <2>4 DEF ViewerInv
<1>5. ASSUME NEW p \in polls, ReadProgress(p) PROVE \A q \in polls' : PollFits(q)
  <2>1. PollFits(p)
    BY DEF ViewerInv
  <2> DEFINE found == [p EXCEPT !.at = "progress", !.attempt = SeenAttempt]
  <2>2. found.at = "progress" /\ found.attempt = SeenAttempt
        /\ DOMAIN found = {"at", "attempt", "status"}
    BY <2>1 DEF PollFits
  <2>3. polls' = (polls \ {p}) \cup {found}
    BY <1>5 DEF ReadProgress, Advance
  <2> HIDE DEF found
  <2>4. PollFits(found)
    BY <2>2, SeenEnded DEF PollFits, ViewerInv
  <2> QED BY <2>3, <2>4 DEF ViewerInv
<1>6. ASSUME NEW p \in polls, ReadStatus(p) PROVE \A q \in polls' : PollFits(q)
  <2>1. PollFits(p)
    BY DEF ViewerInv
  <2> DEFINE found == [p EXCEPT !.at = "read", !.status = served]
  <2>2. found.at = "read" /\ found.status = served /\ found.attempt = p.attempt
        /\ DOMAIN found = {"at", "attempt", "status"}
    BY <2>1 DEF PollFits
  <2>3. polls' = (polls \ {p}) \cup {found}
    BY <1>6 DEF ReadStatus, Advance
  <2> HIDE DEF found
  <2>4. \A i : Ended(i) => Within(i, served.input)
    BY DEF ViewerInv, AttemptsHold, Ended, Within
  <2>5. served.input <= served.input
    BY <1>3 DEF Snapshot
  <2>6. PollFits(found)
    BY <1>3, <2>1, <2>2, <2>4, <2>5 DEF PollFits, ViewerInv, StatusFits
  <2> QED BY <2>3, <2>6 DEF ViewerInv
<1>7. ASSUME NEW p \in polls, ReadFails(p) PROVE \A q \in polls' : PollFits(q)
  <2>1. PollFits(p)
    BY DEF ViewerInv
  <2> DEFINE lost == [p EXCEPT !.at = "failed", !.attempt = NoAttempt]
  <2>2. PollFits(lost)
    BY <2>1 DEF PollFits, NoAttempt
  <2>3. polls' = (polls \ {p}) \cup {lost}
    BY <1>7 DEF ReadFails, Advance
  <2> HIDE DEF lost
  <2> QED BY <2>2, <2>3 DEF ViewerInv
<1>8. (\A p \in polls : PollFits(p)) /\ \A r \in reloads : ReloadFits(r)
  BY DEF ViewerInv
<1>9. ASSUME NEW r \in reloads, ReadDashboard(r) PROVE polls' = polls
  BY <1>9 DEF ReadDashboard
<1>10. ASSUME NEW p \in polls, ReadProgress(p) \/ ReadStatus(p) \/ ReadFails(p)
       PROVE  reloads' = reloads
  BY <1>10 DEF ReadProgress, ReadStatus, ReadFails, Advance
<1> QED BY <1>4, <1>5, <1>6, <1>7, <1>8, <1>9, <1>10 DEF Reading

\* The answer of a poll.
LEMMA StatusNext ==
  ASSUME ViewerInv, NEW p \in polls, StatusArrives(p)
  PROVE  ViewerInv'
<1>0. UNCHANGED <<servedVars, collect>> /\ DOMAIN m = Fields /\ RowsFit
  BY DEF StatusArrives, ViewerInv
<1>1. CollectFits'
  BY <1>0 DEF ViewerInv, CollectFits, Ended, servedVars
<1>2. polls' = {Poll}
  BY DEF StatusArrives
<1>3. \A r \in reloads : ReloadFits(r)
  BY DEF ViewerInv
<1>4. \A r : ReloadFits(r) => ReloadFits(r)'
  BY DEF ReloadFits
<1>5. \A p2 \in polls' : PollFits(p2)'
  BY <1>2, FreshFits DEF PollFits, Poll, NoAttempt
<1>6. ServedHolds' /\ AttemptsHold'
  BY <1>0 DEF ViewerInv, ServedHolds, AttemptsHold, servedVars
<1>7. CASE reloads' = reloads /\ m' \in {m, [m EXCEPT !.statusErr = TRUE]}
  <2>1. Alike(m') /\ m'.rows = m.rows
    BY <1>0, <1>7 DEF Alike, Fields
  <2>2. StatusFits' /\ DOMAIN m' = Fields
    BY <1>0, <2>1, AlikeFits
  <2>3. RowsFit'
    BY <1>0, <2>1 DEF RowsFit
  <2> QED BY <1>1, <1>3, <1>4, <1>5, <1>6, <1>7, <2>2, <2>3 DEF ViewerInv
<1>8. CASE p.at = "read" /\ ~(m.known /\ p.status.revision < m.observed)
  <2> DEFINE t == Transition(m, p.status.revision, TRUE)
             n == ObserveRefresh(t, p)
             reads == ~n.inFlight /\
               (~m.known \/ p.status.revision > m.observed \/ n.err \/ RefreshNeedsRead(n))
  <2>1. Alike(t) /\ t.rows \in {m.rows, NoRows}
    BY <1>0, TransitionAlike DEF Alike
  <2>2. /\ m' = [n EXCEPT !.inFlight = @ \/ reads]
        /\ reloads' = IF reads THEN Supersede(reloads, Reload(n, TRUE))
                      ELSE IF m.known THEN reloads ELSE Obsolete(reloads)
    BY <1>8 DEF StatusArrives
  <2> HIDE DEF t
  <2>3. DOMAIN n = Fields /\ n.rows = t.rows
    BY <2>1 DEF Alike, Fields, ObserveRefresh
  <2>4. \A r \in reloads' : ReloadFits(r)
    BY <1>3, <2>2, FreshFits, SupersedeFits
  <2> HIDE DEF n
  <2>5. /\ DOMAIN m' = Fields /\ m'.rows = n.rows
        /\ m'.status = n.status /\ m'.statusKnown = n.statusKnown /\ m'.token = n.token
        /\ m'.attempt = n.attempt /\ m'.result = n.result
    BY <2>2, <2>3 DEF Fields
  <2>6. StatusFits'
    BY <1>0, <1>8, <2>1, <2>5, ObserveFits DEF n
  <2>7. RowsFit'
    BY <1>0, <2>1, <2>3, <2>5, NoRowsFit
  <2> QED BY <1>1, <1>4, <1>5, <1>6, <2>4, <2>5, <2>6, <2>7 DEF ViewerInv
<1>9. CASE p.at = "failed" \/ (m.known /\ p.status.revision < m.observed)
  BY <1>7, <1>9 DEF StatusArrives
<1> QED BY <1>8, <1>9 DEF StatusArrives

\* The answer of a dashboard read: rows, an error, or nothing the loop waits for.
LEMMA DashboardNext ==
  ASSUME ViewerInv, NEW r \in reloads, DashboardArrives(r)
  PROVE  ViewerInv'
<1>0. /\ UNCHANGED <<servedVars, collect>> /\ reloads' = reloads \ {r}
      /\ DOMAIN m = Fields /\ RowsFit
  BY DEF DashboardArrives, ViewerInv
<1>1. CollectFits'
  BY <1>0 DEF ViewerInv, CollectFits, Ended, servedVars
<1>2. \A q \in reloads' : ReloadFits(q)'
  BY <1>0 DEF ViewerInv, ReloadFits
<1>3. ASSUME Alike(m'), \A p \in polls' : PollFits(p), RowsFit' PROVE ViewerInv'
  <2>1. /\ ServedHolds' /\ AttemptsHold' /\ DOMAIN m' = Fields /\ StatusFits'
        /\ \A p : PollFits(p) => PollFits(p)'
    BY <1>0, <1>3, AlikeFits
  <2> QED BY <1>1, <1>2, <1>3, <2>1 DEF ViewerInv
<1>4. \A p \in polls \cup {Poll} : PollFits(p)
  BY FreshFits DEF ViewerInv
<1>5. CASE ~Current(r) \/ r.selection # m.selection
  <2>1. m' = m /\ polls' = polls
    BY <1>5 DEF DashboardArrives
  <2> QED BY <1>0, <1>3, <1>4, <2>1 DEF Alike, RowsFit
<1>6. CASE ~(~Current(r) \/ r.selection # m.selection)
  <2> DEFINE n == [m EXCEPT !.loading = FALSE, !.inFlight = FALSE]
             keeps == r.preserve /\ m.loaded
             stale == r.at = "failed" \/ (m.known /\ r.rows.revision < m.observed)
             t == Transition(n, r.rows.revision, FALSE)
  <2>1. Alike(n) /\ n.rows = m.rows
    BY <1>0 DEF Alike, Fields
  <2>2. CASE stale
    <3>1. /\ polls' = polls
          /\ m' \in {[n EXCEPT !.err = TRUE], [n EXCEPT !.queryErr = TRUE], n}
      BY <1>6, <2>2 DEF DashboardArrives
    <3> HIDE DEF n
    <3>2. Alike(m') /\ m'.rows = m.rows
      BY <2>1, <3>1 DEF Alike, Fields
    <3> QED BY <1>0, <1>3, <1>4, <3>1, <3>2 DEF RowsFit
  <2>3. CASE ~stale
    <3>1. /\ m' = [t EXCEPT !.err = FALSE, !.queryErr = FALSE, !.loaded = TRUE, !.rows = r.rows,
                            !.displayedToken = r.token, !.running = r.rows.covered < r.rows.input]
          /\ polls' = PollsAfter(t)
      BY <1>6, <2>3 DEF DashboardArrives
    <3>2. polls' \subseteq polls \cup {Poll}
      BY <3>1 DEF PollsAfter
    <3>3. r.at = "read"
      BY <2>3 DEF DashboardArrives
    <3> HIDE DEF n, t
    <3>4. Alike(t)
      BY <2>1, TransitionAlike DEF t
    <3>5. Alike(m') /\ m'.rows = r.rows
      BY <3>1, <3>4 DEF Alike, Fields
    <3>6. RowsFit'
      BY <3>3, <3>5 DEF ViewerInv, ReloadFits, RowsFit, Snapshot
    <3> QED BY <1>3, <1>4, <3>2, <3>5, <3>6
  <2> QED BY <2>2, <2>3
<1> QED BY <1>5, <1>6

-----------------------------------------------------------------------------
(* Keys and collections. *)

\* A key, and the terminal's first size, change nothing that is known of the backend.
LEMMA KeysNext ==
  ASSUME ViewerInv, WindowSize \/ ReloadKey \/ \E view \in Selections : Choose(view)
  PROVE  ViewerInv'
<1>0. /\ UNCHANGED <<servedVars, collect>> /\ polls' \subseteq polls \cup {Poll}
      /\ DOMAIN m = Fields /\ RowsFit
  BY DEF WindowSize, ReloadKey, Choose, ViewerInv
<1>1. Alike(m') /\ m'.rows = m.rows
  BY <1>0 DEF WindowSize, ReloadKey, Choose, Alike, Fields
<1>2. \E n, preserve : reloads' \in {reloads, Supersede(reloads, Reload(n, preserve))}
  BY DEF WindowSize, ReloadKey, Choose
<1>3. \A r \in reloads' : ReloadFits(r)
  BY <1>2, FreshFits, SupersedeFits DEF ViewerInv
<1>4. \A p \in polls' : PollFits(p)
  BY <1>0, FreshFits DEF ViewerInv
<1>5. /\ ServedHolds' /\ AttemptsHold' /\ DOMAIN m' = Fields /\ StatusFits'
      /\ \A p : PollFits(p) => PollFits(p)'
      /\ \A r : ReloadFits(r) => ReloadFits(r)'
  BY <1>0, <1>1, AlikeFits
<1>6. RowsFit' /\ CollectFits'
  BY <1>0, <1>1 DEF RowsFit, CollectFits, Ended, servedVars, ViewerInv
<1> QED BY <1>3, <1>4, <1>5, <1>6 DEF ViewerInv

\* Asking for a collection, and its result, make the loop ask anew; a result is that of
\* an attempt that ended.
LEMMA CollectionNext ==
  ASSUME ViewerInv, RefreshKey \/ CollectionFinished
  PROVE  ViewerInv'
<1>0. /\ UNCHANGED servedVars /\ reloads' = reloads /\ polls' = {Poll}
      /\ DOMAIN m = Fields /\ RowsFit /\ StatusFits /\ CollectFits
  BY DEF RefreshKey, CollectionFinished, ViewerInv
<1>1. ServedHolds' /\ AttemptsHold' /\ \A i : Ended(i) => Ended(i)'
  BY <1>0 DEF ViewerInv, ServedHolds, AttemptsHold, Ended, servedVars
<1>2. \A r \in reloads' : ReloadFits(r)'
  BY <1>0 DEF ViewerInv, ReloadFits
<1>3. \A p \in polls' : PollFits(p)'
  BY <1>0 DEF PollFits, Poll, NoAttempt
<1>4. /\ DOMAIN m' = Fields /\ m'.rows = m.rows /\ m'.status = m.status /\ m'.token = m.token
      /\ m'.attempt \in {m.attempt, NoAttempt}
      /\ \/ m'.result = NoResult /\ m'.statusKnown = m.statusKnown
         \/ m'.result = collect /\ m'.statusKnown = FALSE /\ collect.outcome # "none"
  <2>1. CASE RefreshKey
    BY <1>0, <2>1 DEF RefreshKey, Collected, Fields
  <2>2. CASE CollectionFinished
    BY <1>0, <2>2 DEF CollectionFinished, Fields
  <2> QED BY <2>1, <2>2
<1>5. RowsFit'
  BY <1>0, <1>4 DEF RowsFit
<1>6. StatusFits'
  BY <1>0, <1>1, <1>4 DEF StatusFits, CollectFits, NoAttempt, NoResult, Within, servedVars
<1>7. CollectFits'
  BY <1>0, <1>1 DEF RefreshKey, CollectionFinished, CollectFits, NoResult, servedVars
<1> QED BY <1>1, <1>2, <1>3, <1>4, <1>5, <1>6, <1>7 DEF ViewerInv

\* The collection a viewer waits for, and those of others.
LEMMA WaitingNext ==
  ASSUME ViewerInv, CollectJoins \/ CollectReturns \/ OthersCollect \/ (ServedNext /\ UNCHANGED viewerVars)
  PROVE  ViewerInv'
<1>0. UNCHANGED <<m, polls, reloads>> /\ ServedHolds /\ AttemptsHold
  BY DEF CollectJoins, CollectReturns, OthersCollect, viewerVars, requestVars, ViewerInv
<1>1. Later
  <2>1. CASE UNCHANGED servedVars
    BY <1>0, <2>1 DEF Later, servedVars, ServedHolds, AttemptsHold, Snapshot, Ended
  <2>2. CASE AttemptBegins /\ UNCHANGED served
    BY <1>0, <2>2, AttemptBeginsLater
  <2>3. CASE ServedNext
    BY <1>0, <2>3, ServedNextLater
  <2> QED BY <2>1, <2>2, <2>3 DEF CollectJoins, CollectReturns, OthersCollect, servedVars
<1>2. CollectFits'
  <2>1. CASE collect' = collect
    BY <1>1, <2>1 DEF ViewerInv, CollectFits, Later
  <2>2. CASE CollectJoins
    <3>1. collect' = [id |-> Len(attempts'), outcome |-> "none"] /\ Len(attempts') \in Nat
      BY <1>1, <2>2 DEF CollectJoins, Later, AttemptsHold
    <3>2. Len(attempts') \in {0} \cup 1..Len(attempts')
      BY <3>1
    <3> QED BY <3>1, <3>2 DEF CollectFits
  <2>3. CASE CollectReturns
    <3>1. UNCHANGED servedVars /\ DOMAIN collect = {"id", "outcome"}
      BY <2>3 DEF CollectReturns, ViewerInv, CollectFits
    <3>2. CASE collect' = [id |-> 0, outcome |-> "error"]
      BY <3>2 DEF CollectFits
    <3>3. CASE /\ attempts[collect.id].stage \in {"accepted", "failed"} /\ collect.id # 0
               /\ \E outcome : collect' = [collect EXCEPT !.outcome = outcome]
      <4>1. Ended(collect.id) /\ collect'.id = collect.id /\ DOMAIN collect' = {"id", "outcome"}
        BY <3>1, <3>3 DEF Ended, Active, CollectFits, ViewerInv
      <4> QED BY <3>1, <4>1 DEF CollectFits, Ended, servedVars
    <3> QED BY <2>3, <3>2, <3>3 DEF CollectReturns
  <2> QED BY <2>1, <2>2, <2>3 DEF OthersCollect, viewerVars
<1> QED BY <1>0, <1>1, <1>2, KnownStays DEF ViewerInv

-----------------------------------------------------------------------------
(* What the line says. *)

\* At first the viewer knows nothing, and asks for nothing.
LEMMA ViewerInitInv == Init => ViewerInv
<1> SUFFICES ASSUME Init PROVE ViewerInv
  OBVIOUS
<1> DEFINE new == NewInteractiveModel(FirstView)
<1>1. ServedHolds /\ AttemptsHold /\ served.input = 0
  BY DEF Init, ServedInit, ServedHolds, AttemptsHold, Snapshot
<1>2. /\ DOMAIN new = Fields /\ new.rows = NoRows /\ new.status = NoStatus /\ new.token = 0
      /\ new.attempt = NoAttempt /\ new.result = NoResult /\ new.statusKnown = FALSE
  BY DEF NewInteractiveModel, Fields
<1>3. m \in {new, Collected(new)}
  BY DEF Init
<1> HIDE DEF new
<1>4. /\ DOMAIN m = Fields /\ m.rows = NoRows /\ m.status = NoStatus /\ m.token = 0
      /\ m.attempt = NoAttempt /\ m.result = NoResult /\ m.statusKnown = FALSE
  BY <1>2, <1>3 DEF Collected, Fields
<1>5. StatusFits /\ RowsFit
  BY <1>1, <1>4 DEF StatusFits, RowsFit, NoRows, NoStatus, NoAttempt, NoResult
<1>6. CollectFits /\ polls = {} /\ reloads = {}
  BY DEF Init, CollectFits, NoResult
<1> QED BY <1>1, <1>4, <1>5, <1>6 DEF ViewerInv

\* The invariant is inductive.
LEMMA ViewerNextInv == ViewerInv /\ [Next]_vars => ViewerInv'
<1> SUFFICES ASSUME ViewerInv, [Next]_vars PROVE ViewerInv'
  OBVIOUS
<1>1. CASE UNCHANGED vars
  BY <1>1 DEF vars, servedVars, requestVars, ViewerInv, ServedHolds, AttemptsHold, StatusFits,
              RowsFit, PollFits, ReloadFits, CollectFits, Within, Ended
<1> QED
  BY <1>1, ReadingNext, StatusNext, DashboardNext, KeysNext, CollectionNext, WaitingNext
     DEF Next, Update

\* The dashboard says that usage is refreshed only over rows that hold all that the
\* accepted collection submitted, and the one the user asked for, whatever arrived late,
\* failed, or was asked meanwhile (refreshLine, loadSharedSync, refreshNeedsRead).
THEOREM RefreshedHonestly == Spec => []RefreshedIsHonest
<1>1. ASSUME ViewerInv, RefreshLine(m) = "refreshed" PROVE RefreshedIsHonest
  <2>1. ~Processing(m) /\ ~RefreshNeedsRead(m) /\ m.statusKnown /\ m.token # 0
    BY <1>1 DEF RefreshLine
  <2>2. m.status.covered >= m.status.input /\ Snapshot(m.status)
    BY <1>1, <2>1 DEF Processing, Pending, ViewerInv, StatusFits, Snapshot
  <2>3. m.rows.revision >= m.status.revision
    BY <1>1, <2>1, <2>2 DEF RefreshNeedsRead, ViewerInv, RowsFit, Snapshot
  <2>4. m.rows.covered >= m.status.input
    BY <1>1, <2>2, <2>3 DEF ViewerInv, RowsFit, Snapshot
  <2>5. ASSUME NEW i \in {m.token, m.result.id} \ {0} PROVE m.rows.covered >= attempts[i].input
    <3>1. Within(i, m.status.input)
      BY <1>1, <2>1, <2>5 DEF ViewerInv, StatusFits
    <3>2. attempts[i].input \in Nat /\ attempts[i].input <= m.status.input
      BY <1>1, <3>1, InputTyped DEF ViewerInv, Within, Ended
    <3> QED BY <1>1, <2>2, <2>4, <3>2 DEF ViewerInv, RowsFit, Snapshot
  <2> QED BY <2>5 DEF RefreshedIsHonest
<1>2. ViewerInv => RefreshedIsHonest
  BY <1>1 DEF RefreshedIsHonest
<1> QED BY <1>2, ViewerInitInv, ViewerNextInv, PTL DEF Spec

-----------------------------------------------------------------------------
(* The draft under the reads of the filter values. *)

\* A finite list, whatever it lists.
IsList(s) == s \in Seq({s[j] : j \in DOMAIN s})

\* The drawer a key or a read leaves: everything in it is finite, and its
\* cursor is on a line while the values are shown.
DrawerSound(w) ==
  /\ DOMAIN w = {"popup", "tab", "cursor", "dimension", "values", "keyOf", "draft", "loading", "err"}
  /\ w.popup \in {"none", "filters", "values"} \cup Menus /\ w.tab \in Tabs
  /\ w.cursor \in Nat /\ w.dimension \in Dimensions
  /\ IsFiniteSet(DOMAIN w.draft) /\ IsList(w.values)
  /\ w.popup = "values" /\ w.values # <<>> => w.cursor < Len(w.values)

FiltersSound == DOMAIN chosen = Dimensions /\ \A x \in Dimensions : IsFiniteSet(chosen[x])

DrawerInv ==
  /\ DrawerSound(drawer) /\ FiltersSound
  /\ DOMAIN picked = Menus /\ \A p \in Menus : picked[p] \in Nat
  /\ facets.offered \subseteq Keys /\ offered \subseteq Keys

\* The lists of the drawers are lists, with the items they are made of counted
\* (locationFilterLabels, filterValuesMsg).
LEMMA SortedIsList ==
  ASSUME NEW S, IsFiniteSet(S)
  PROVE  IsList(Sorted(S)) /\ Len(Sorted(S)) = Cardinality(S) /\ Cardinality(S) \in Nat
         /\ DOMAIN Sorted(S) = 1..Cardinality(S)
<1> DEFINE n == Cardinality(S)
           at(place) == CHOOSE i \in S : Cardinality({k \in S : k < i}) = place - 1
           s == [place \in 1..n |-> at(place)]
<1>1. n \in Nat
  BY FS_CardinalityType
<1>2. Sorted(S) = s
  BY DEF Sorted
<1> HIDE DEF n, at
<1>3. DOMAIN s = 1..n /\ Len(s) = n /\ s \in Seq({s[j] : j \in DOMAIN s})
  BY <1>1
<1>4. QED BY <1>1, <1>2, <1>3 DEF IsList, n

\* A list has finitely many places, and one that is not empty has a first.
LEMMA ListIsFinite ==
  ASSUME NEW s, IsList(s)
  PROVE  /\ Len(s) \in Nat /\ DOMAIN s = 1..Len(s) /\ IsFiniteSet(DOMAIN s)
         /\ s # <<>> => Len(s) > 0
<1>1. Len(s) \in Nat /\ DOMAIN s = 1..Len(s) /\ (s # <<>> => Len(s) > 0)
  BY EmptySeq, LenProperties DEF IsList
<1>2. IsFiniteSet(1..Len(s))
  BY <1>1, FS_Interval
<1>3. QED BY <1>1, <1>2

\* A drawer starts with no values and no draft.
LEMMA EmptyIsSound == IsList(<<>>) /\ IsFiniteSet(DOMAIN Nothing)
<1>1. IsList(<<>>)
  BY DEF IsList
<1>2. DOMAIN Nothing = {}
  BY DEF Nothing
<1>3. QED BY <1>1, <1>2, FS_EmptySet

\* A drawer whose values are dropped stays sound (transitionPublication).
LEMMA ClearedIsSound ==
  ASSUME NEW w, DrawerSound(w)
  PROVE  DrawerSound(Cleared(w))
<1>1. Cleared(w) = [w EXCEPT !.values = <<>>, !.keyOf = Nothing]
  BY DEF Cleared
<1>2. QED BY <1>1, EmptyIsSound DEF DrawerSound

\* What is offered is finite.
LEMMA KeysAreFinite ==
  ASSUME NEW S \in SUBSET Keys
  PROVE  IsFiniteSet(S)
<1>1. IsFiniteSet(Keys)
  BY DrawerAssumption, FS_Interval DEF Keys
<1>2. QED BY <1>1, FS_Subset

\* A cursor that is clamped is on a line, if there is one (clampCursor).
LEMMA ClampedCursor ==
  ASSUME NEW cursor \in Nat, NEW length \in Nat
  PROVE  ClampCursor(cursor, length) \in Nat /\ (length > 0 => ClampCursor(cursor, length) < length)
  BY DEF ClampCursor

\* The values that arrive leave a sound drawer whose cursor is on a line
\* (filterValuesMsg).
LEMMA ArrivedIsSound ==
  ASSUME NEW w, DrawerSound(w), NEW keys \in SUBSET Keys, FiltersSound
  PROVE  LET v == WithValues(w, keys) IN
         /\ DrawerSound(v)
         /\ v.values # <<>> => v.cursor < Len(v.values)
         /\ \A i \in DOMAIN w.draft : i \in DOMAIN v.draft /\ v.draft[i] = w.draft[i]
         /\ \A i \in DOMAIN v.draft \ DOMAIN w.draft : w.values # <<>> => v.draft[i] = FALSE
         /\ \A i \in DOMAIN w.keyOf \cap DOMAIN w.draft : v.keyOf[i] = w.keyOf[i]
<1> DEFINE repository == w.dimension = "repository"
           labels == Labels(keys)
           base == IF repository THEN DOMAIN labels ELSE keys \cup chosen[w.dimension]
           current == IF repository THEN {i \in base : labels[i] \in chosen[w.dimension]} ELSE chosen[w.dimension]
           draft == MergedDraft(w, current)
           values == Sorted(base \cup DOMAIN draft)
           labelled == IF repository THEN base ELSE {}
           kept == DOMAIN w.keyOf \cap DOMAIN w.draft
           focused == IF w.cursor < Len(w.values) THEN w.values[w.cursor + 1] ELSE 0
           at == IF \E j \in DOMAIN values : values[j] = focused
                 THEN (CHOOSE j \in DOMAIN values : values[j] = focused) - 1 ELSE w.cursor
           cursor == ClampCursor(at, Len(values))
           keyOf == [i \in labelled \cup kept |-> IF i \in kept THEN w.keyOf[i] ELSE labels[i]]
<1>1. WithValues(w, keys) = [w EXCEPT !.values = values, !.draft = draft, !.cursor = cursor, !.keyOf = keyOf]
  BY DEF WithValues
<1>2. IsFiniteSet(base) /\ IsFiniteSet(current)
  <2>1. IsFiniteSet(keys) /\ IsFiniteSet(chosen[w.dimension])
    BY KeysAreFinite DEF FiltersSound, DrawerSound
  <2>2. IsFiniteSet(DOMAIN labels)
    <3>1. IsList(labels)
      BY <2>1, SortedIsList DEF Labels
    <3> HIDE DEF labels
    <3>2. QED BY <3>1, ListIsFinite
  <2>3. IsFiniteSet(base)
    BY <2>1, <2>2, FS_Union
  <2>4. current \subseteq base \/ current = chosen[w.dimension]
    OBVIOUS
  <2> HIDE DEF base, current
  <2>5. QED BY <2>1, <2>3, <2>4, FS_Subset
<1>3. /\ DOMAIN draft = current \cup DOMAIN w.draft
      /\ \A i \in DOMAIN w.draft : draft[i] = w.draft[i]
      /\ \A i \in DOMAIN draft \ DOMAIN w.draft : draft[i] = (w.values = <<>>)
  BY DEF MergedDraft
<1> HIDE DEF base, current, draft, labelled, labels
<1>4. IsFiniteSet(DOMAIN draft)
  <2>1. IsFiniteSet(DOMAIN w.draft)
    BY DEF DrawerSound
  <2>2. IsFiniteSet(current \cup DOMAIN w.draft)
    BY <1>2, <2>1, FS_Union
  <2>3. QED BY <1>3, <2>2
<1>5. IsFiniteSet(base \cup DOMAIN draft)
  BY <1>2, <1>4, FS_Union
<1>6. IsList(values)
  BY <1>5, SortedIsList
<1> HIDE DEF values
<1>7. Len(values) \in Nat /\ DOMAIN values = 1..Len(values) /\ (values # <<>> => Len(values) > 0)
  BY <1>6, ListIsFinite
<1>8. at \in Nat
  <2>1. CASE \E j \in DOMAIN values : values[j] = focused
    <3> DEFINE j0 == CHOOSE j \in DOMAIN values : values[j] = focused
    <3>1. j0 \in DOMAIN values
      BY <2>1
    <3>2. at = j0 - 1
      BY <2>1
    <3> HIDE DEF j0, at
    <3>3. QED BY <1>7, <3>1, <3>2
  <2>2. CASE ~(\E j \in DOMAIN values : values[j] = focused)
    BY <2>2 DEF DrawerSound
  <2>3. QED BY <2>1, <2>2
<1> HIDE DEF at
<1>9. cursor \in Nat /\ (values # <<>> => cursor < Len(values))
  BY <1>7, <1>8, ClampedCursor
<1>10. \A i \in kept : keyOf[i] = w.keyOf[i]
  OBVIOUS
<1> HIDE DEF cursor, keyOf
<1> DEFINE v == WithValues(w, keys)
<1>11. /\ DOMAIN v = DOMAIN w
       /\ v.values = values /\ v.draft = draft /\ v.cursor = cursor /\ v.keyOf = keyOf
       /\ v.popup = w.popup /\ v.tab = w.tab /\ v.dimension = w.dimension
  BY <1>1 DEF DrawerSound
<1> HIDE DEF v
<1>12. DrawerSound(v)
  BY <1>4, <1>6, <1>9, <1>11 DEF DrawerSound
<1>13. QED BY <1>3, <1>9, <1>10, <1>11, <1>12 DEF v

\* What lines a drawer has (drawerLength).
LEMMA LengthIsNat ==
  ASSUME DrawerSound(drawer)
  PROVE  Length(drawer) \in Nat
<1>1. drawer.popup \in Menus => Options[drawer.popup][drawer.tab] \in Nat
  BY DrawerAssumption DEF DrawerSound
<1>2. Len(drawer.values) \in Nat
  BY ListIsFinite DEF DrawerSound
<1>3. FilterItems(drawer.tab) \in Nat
  BY DEF FilterItems
<1>4. QED BY <1>1, <1>2, <1>3 DEF Length

\* What Enter applies is finite.
LEMMA SelectedIsFinite ==
  ASSUME DrawerSound(drawer)
  PROVE  IsFiniteSet(SelectedKeys(drawer))
<1> DEFINE items == {drawer.values[j] : j \in DOMAIN drawer.values}
           selected == {i \in items : Checked(drawer, i)}
           labelled == selected \cap DOMAIN drawer.keyOf
<1>1. IsFiniteSet(DOMAIN drawer.values)
  BY ListIsFinite DEF DrawerSound
<1>2. IsFiniteSet(items)
  <2> DEFINE D == DOMAIN drawer.values
             f == [j \in D |-> drawer.values[j]]
  <2>1. items = {f[j] : j \in D}
    OBVIOUS
  <2> HIDE DEF f, items
  <2>2. f \in Surjection(D, items)
    <3>1. f \in [D -> items]
      BY <2>1 DEF f
    <3>2. QED BY <2>1, <3>1 DEF Surjection
  <2>3. QED BY <1>1, <2>2, FS_Surjection
<1>3. selected \subseteq items /\ labelled \subseteq items
  OBVIOUS
<1> HIDE DEF items
<1>4. IsFiniteSet(selected) /\ IsFiniteSet(labelled)
  BY <1>2, <1>3, FS_Subset
<1>5. IsFiniteSet({drawer.keyOf[i] : i \in labelled})
  <2> DEFINE g == [i \in labelled |-> drawer.keyOf[i]]
             R == {g[i] : i \in labelled}
  <2>1. g \in Surjection(labelled, R)
    BY DEF Surjection
  <2>2. R = {drawer.keyOf[i] : i \in labelled}
    OBVIOUS
  <2> HIDE DEF R, g, labelled
  <2>3. IsFiniteSet(R)
    BY <1>4, <2>1, FS_Surjection
  <2>4. QED BY <2>2, <2>3
<1>6. SelectedKeys(drawer) = IF drawer.dimension = "repository" THEN {drawer.keyOf[i] : i \in labelled} ELSE selected
  BY DEF SelectedKeys, items
<1>7. QED BY <1>4, <1>5, <1>6

\* No key makes the drawer, or a filter, unsound: an action each.
LEMMA DrawerKeysKeep ==
  ASSUME DrawerInv, DrawerKeys
  PROVE  DrawerInv'
<1>1. CASE SwitchTab
  BY <1>1 DEF SwitchTab, Unapplied, DrawerInv, DrawerSound, FiltersSound
<1>2. CASE OpenFilters
  BY <1>2 DEF OpenFilters, Unapplied, DrawerInv, DrawerSound, FiltersSound
<1>3. ASSUME NEW p \in Menus, OpenMenu(p)
      PROVE  DrawerInv'
  <2> DEFINE c == IF picked[p] < Options[p][drawer.tab] THEN picked[p] ELSE 0
  <2>1. drawer' = [drawer EXCEPT !.popup = p, !.cursor = c] /\ UNCHANGED <<facets, chosen, picked, offered>>
    BY <1>3 DEF OpenMenu, Unapplied
  <2>2. c \in Nat
    BY DEF DrawerInv
  <2> HIDE DEF c
  <2>3. p # "values"
    BY DEF Menus
  <2>4. QED BY <2>1, <2>2, <2>3 DEF DrawerInv, DrawerSound, FiltersSound
<1>4. ASSUME NEW x \in Dimensions, OpenFilterValues(x)
      PROVE  DrawerInv'
  <2> DEFINE d == [i \in CurrentItems(x) |-> TRUE]
  <2>1. /\ drawer' = [drawer EXCEPT !.popup = "values", !.dimension = x, !.cursor = 0, !.values = <<>>,
                                    !.keyOf = Nothing, !.draft = d, !.loading = TRUE, !.err = FALSE]
        /\ facets' \in {Asked, facets} /\ UNCHANGED <<chosen, picked, offered>>
    BY <1>4 DEF OpenFilterValues, Unapplied
  <2>2. DOMAIN d = CurrentItems(x)
    OBVIOUS
  <2>3. IsFiniteSet(CurrentItems(x))
    <3> DEFINE C == chosen[x]
               f == [k \in C |-> RawItem(x, k)]
    <3>1. IsFiniteSet(C)
      BY DEF DrawerInv, FiltersSound
    <3>2. CurrentItems(x) = {f[k] : k \in C}
      BY DEF CurrentItems
    <3>3. f \in Surjection(C, {f[k] : k \in C})
      BY DEF Surjection
    <3> HIDE DEF C, f
    <3>4. QED BY <3>1, <3>2, <3>3, FS_Surjection
  <2> HIDE DEF d
  <2>4. IsFiniteSet(DOMAIN d)
    BY <2>2, <2>3
  <2>5. DrawerSound(drawer)'
    <3>1. /\ DOMAIN drawer' = DOMAIN drawer
          /\ drawer'.popup = "values" /\ drawer'.tab = drawer.tab /\ drawer'.cursor = 0
          /\ drawer'.dimension = x /\ drawer'.draft = d /\ drawer'.values = <<>>
      BY <2>1 DEF DrawerInv, DrawerSound
    <3>2. QED BY <2>4, <3>1, EmptyIsSound DEF DrawerInv, DrawerSound
  <2>6. QED BY <2>1, <2>5 DEF DrawerInv, FiltersSound, Asked
<1>5. ASSUME NEW up \in BOOLEAN, MoveHighlight(up)
      PROVE  DrawerInv'
  <2> DEFINE n == Length(drawer)
             c == MoveCursor(drawer.cursor, n, up)
  <2>1. drawer' = [drawer EXCEPT !.cursor = c] /\ UNCHANGED <<facets, chosen, picked, offered>>
    BY <1>5 DEF MoveHighlight, Unapplied
  <2>2. n \in Nat /\ drawer.cursor \in Nat
    BY LengthIsNat DEF DrawerInv, DrawerSound
  <2> HIDE DEF n
  <2>3. c \in Nat /\ (n > 0 => c < n)
    BY <2>2 DEF MoveCursor
  <2>4. drawer.popup = "values" => n = Len(drawer.values)
    BY DEF n, Length
  <2>5. drawer.values # <<>> => Len(drawer.values) > 0
    BY ListIsFinite DEF DrawerInv, DrawerSound
  <2> HIDE DEF c
  <2>6. QED BY <2>1, <2>3, <2>4, <2>5 DEF DrawerInv, DrawerSound, FiltersSound
<1>6. CASE CloseDrawer
  BY <1>6 DEF CloseDrawer, Unapplied, DrawerInv, DrawerSound, FiltersSound
<1>7. CASE Pick
  BY <1>7 DEF Pick, DrawerInv, DrawerSound, FiltersSound
<1>8. CASE Toggle
  <2> DEFINE i == drawer.values[drawer.cursor + 1]
             d == [j \in DOMAIN drawer.draft \cup {i} |-> IF j = i THEN ~Checked(drawer, i) ELSE drawer.draft[j]]
  <2>1. drawer' = [drawer EXCEPT !.draft = d] /\ UNCHANGED <<facets, chosen, picked, offered>>
    BY <1>8 DEF Toggle, Unapplied
  <2>2. DOMAIN d = DOMAIN drawer.draft \cup {i}
    OBVIOUS
  <2> HIDE DEF d, i
  <2>3. IsFiniteSet(DOMAIN d)
    BY <2>2, FS_AddElement DEF DrawerInv, DrawerSound
  <2>4. QED BY <2>1, <2>3 DEF DrawerInv, DrawerSound, FiltersSound
<1>9. CASE ClearDraft
  <2>1. drawer' = [drawer EXCEPT !.draft = Nothing] /\ UNCHANGED <<facets, chosen, picked, offered>>
    BY <1>9 DEF ClearDraft, Unapplied
  <2>2. QED BY <2>1, EmptyIsSound DEF DrawerInv, DrawerSound, FiltersSound
<1>10. CASE ApplyFilterValues
  <2>1. /\ drawer' = [drawer EXCEPT !.popup = "none"] /\ UNCHANGED <<facets, picked, offered>>
        /\ chosen' = [chosen EXCEPT ![drawer.dimension] = SelectedKeys(drawer)]
    BY <1>10 DEF ApplyFilterValues
  <2>2. IsFiniteSet(SelectedKeys(drawer))
    BY SelectedIsFinite DEF DrawerInv
  <2>3. FiltersSound'
    BY <2>1, <2>2 DEF DrawerInv, FiltersSound
  <2>4. QED BY <2>1, <2>3 DEF DrawerInv, DrawerSound
<1>11. QED BY <1>1, <1>2, <1>3, <1>4, <1>5, <1>6, <1>7, <1>8, <1>9, <1>10 DEF DrawerKeys

\* What a read that arrives does to the drawer it finds open (filterValuesMsg).
LEMMA ArrivalIs ==
  ASSUME DrawerInv, FacetsArrive
  PROVE  /\ drawer.popup # "values" => drawer' = drawer
         /\ drawer.popup = "values" =>
              \E w : /\ DrawerSound(w) /\ w.values = drawer.values /\ w.draft = drawer.draft
                     /\ w.keyOf = drawer.keyOf /\ w.cursor = drawer.cursor
                     /\ drawer' = w \/ drawer' = WithValues(w, facets.offered)
<1>1. CASE drawer.popup # "values"
  BY <1>1 DEF FacetsArrive
<1>2. CASE drawer.popup = "values"
  <2> DEFINE e == facets.at = "failed"
             w == [drawer EXCEPT !.loading = FALSE, !.err = e]
  <2>1. drawer' = IF w.err THEN w ELSE WithValues(w, facets.offered)
    BY <1>2 DEF FacetsArrive
  <2> HIDE DEF e
  <2>2. /\ DrawerSound(w) /\ w.values = drawer.values /\ w.draft = drawer.draft
        /\ w.keyOf = drawer.keyOf /\ w.cursor = drawer.cursor
    BY DEF DrawerInv, DrawerSound
  <2> HIDE DEF w
  <2>3. QED BY <1>2, <2>1, <2>2
<1>3. QED BY <1>1, <1>2

\* Every step of the drawers keeps their invariant.
LEMMA DrawerStepKeeps ==
  ASSUME DrawerInv, [DrawerNext]_drawerVars
  PROVE  DrawerInv'
<1>1. CASE DrawerKeys
  BY <1>1, DrawerKeysKeep
<1>2. CASE ReadFacets
  BY <1>2 DEF ReadFacets, Unapplied, DrawerInv, FiltersSound
<1>3. CASE FacetsArrive
  <2>1. facets' = NoFacets /\ UNCHANGED <<chosen, picked, offered>>
    BY <1>3 DEF FacetsArrive, Unapplied
  <2>2. DrawerSound(drawer)'
    <3>1. ASSUME NEW w, DrawerSound(w)
          PROVE  DrawerSound(WithValues(w, facets.offered))
      BY <3>1, ArrivedIsSound DEF DrawerInv
    <3>2. QED BY <1>3, <3>1, ArrivalIs DEF DrawerInv
  <2>3. QED BY <2>1, <2>2 DEF DrawerInv, FiltersSound, NoFacets
<1>4. CASE Observe
  <2>1. PICK changed \in BOOLEAN :
          LET w == IF changed THEN Cleared(drawer) ELSE drawer IN
          IF w.popup = "values"
          THEN /\ drawer' = [w EXCEPT !.err = FALSE, !.loading = w.values = <<>>]
               /\ facets' = Asked
          ELSE drawer' = [w EXCEPT !.err = FALSE] /\ facets' = NoFacets
    BY <1>4 DEF Observe
  <2> DEFINE w == IF changed THEN Cleared(drawer) ELSE drawer
  <2>2. DrawerSound(w)
    BY ClearedIsSound DEF DrawerInv
  <2>3. /\ UNCHANGED <<chosen, picked>> /\ offered' \subseteq Keys
        /\ \/ drawer' = [w EXCEPT !.err = FALSE, !.loading = w.values = <<>>]
           \/ drawer' = [w EXCEPT !.err = FALSE]
        /\ facets'.offered = {}
    BY <1>4, <2>1 DEF Observe, NoFacets, Asked
  <2> HIDE DEF w
  <2>4. DrawerSound(drawer)'
    <3> DEFINE l == w.values = <<>>
    <3>1. drawer' = [w EXCEPT !.err = FALSE, !.loading = l] \/ drawer' = [w EXCEPT !.err = FALSE]
      BY <2>3
    <3> HIDE DEF l
    <3>2. QED BY <2>2, <3>1 DEF DrawerSound
  <2>5. QED BY <2>3, <2>4 DEF DrawerInv, FiltersSound
<1>5. CASE LoseReadiness
  <2> DEFINE w == Cleared(drawer)
  <2>1. /\ drawer' = [w EXCEPT !.loading = FALSE, !.err = TRUE]
        /\ facets' = NoFacets /\ UNCHANGED <<chosen, picked, offered>>
    BY <1>5 DEF LoseReadiness
  <2>2. DrawerSound(w)
    BY ClearedIsSound DEF DrawerInv
  <2> HIDE DEF w
  <2>3. DrawerSound(drawer)'
    BY <2>1, <2>2 DEF DrawerSound
  <2>4. QED BY <2>1, <2>3 DEF DrawerInv, FiltersSound, NoFacets
<1>6. CASE RegainReadiness
  BY <1>6 DEF RegainReadiness, DrawerInv, FiltersSound
<1>7. CASE UNCHANGED drawerVars
  BY <1>7 DEF drawerVars, DrawerInv, DrawerSound, FiltersSound
<1>8. QED BY <1>1, <1>2, <1>3, <1>4, <1>5, <1>6, <1>7 DEF DrawerNext

\* The drawers start closed.
LEMMA DrawerStarts ==
  ASSUME DrawerInit
  PROVE  DrawerInv
<1>1. /\ drawer = [popup |-> "none", tab |-> "usage", cursor |-> 0, dimension |-> "model", values |-> <<>>,
                   keyOf |-> Nothing, draft |-> Nothing, loading |-> FALSE, err |-> FALSE]
      /\ chosen = [x \in Dimensions |-> {}] /\ picked = [p \in Menus |-> 0]
      /\ facets = NoFacets /\ offered = Keys
  BY DEF DrawerInit
<1>2. DrawerSound(drawer)
  BY <1>1, EmptyIsSound DEF DrawerSound, Tabs, Dimensions
<1>3. FiltersSound
  BY <1>1, FS_EmptySet DEF FiltersSound
<1>4. QED BY <1>1, <1>2, <1>3 DEF DrawerInv, NoFacets

\* However often the values are read again, with whatever they hold, under whatever was
\* checked: no box on the screen is checked or cleared, one that the filters chose or
\* Space touched goes on standing for the same repository, and the cursor stays on a
\* line (filterValuesMsg).
THEOREM ReadsHold == DrawerSpec => ReadsKeepDraft
<1>1. ASSUME DrawerInv, FacetsArrive, drawer.popup = "values"
      PROVE  /\ \A j \in DOMAIN drawer.values :
                  LET i == drawer.values[j] IN
                  /\ Checked(drawer, i) = Checked(drawer', i)
                  /\ i \in DOMAIN drawer.keyOf \cap DOMAIN drawer.draft => drawer'.keyOf[i] = drawer.keyOf[i]
             /\ drawer'.values # <<>> => drawer'.cursor < Len(drawer'.values)
  <2> DEFINE Kept(v) ==
        /\ \A j \in DOMAIN drawer.values :
             LET i == drawer.values[j] IN
             /\ Checked(drawer, i) = Checked(v, i)
             /\ i \in DOMAIN drawer.keyOf \cap DOMAIN drawer.draft => v.keyOf[i] = drawer.keyOf[i]
        /\ v.values # <<>> => v.cursor < Len(v.values)
  <2>1. PICK w : /\ DrawerSound(w) /\ w.values = drawer.values /\ w.draft = drawer.draft
                 /\ w.keyOf = drawer.keyOf /\ w.cursor = drawer.cursor
                 /\ drawer' = w \/ drawer' = WithValues(w, facets.offered)
    BY <1>1, ArrivalIs
  <2>2. CASE drawer' = w
    BY <1>1, <2>1, <2>2 DEF Checked, DrawerInv, DrawerSound
  <2>3. CASE drawer' = WithValues(w, facets.offered)
    <3> DEFINE v == WithValues(w, facets.offered)
    <3>0. FiltersSound /\ facets.offered \in SUBSET Keys
      BY <1>1 DEF DrawerInv
    <3>1. /\ v.values # <<>> => v.cursor < Len(v.values)
          /\ \A i \in DOMAIN w.draft : i \in DOMAIN v.draft /\ v.draft[i] = w.draft[i]
          /\ \A i \in DOMAIN v.draft \ DOMAIN w.draft : w.values # <<>> => v.draft[i] = FALSE
          /\ \A i \in DOMAIN w.keyOf \cap DOMAIN w.draft : v.keyOf[i] = w.keyOf[i]
      BY <2>1, <3>0, ArrivedIsSound
    <3> HIDE DEF v
    <3>2. ASSUME NEW j \in DOMAIN drawer.values, NEW i, i = drawer.values[j]
          PROVE  /\ Checked(drawer, i) = Checked(v, i)
                 /\ i \in DOMAIN drawer.keyOf \cap DOMAIN drawer.draft => v.keyOf[i] = drawer.keyOf[i]
      <4>1. w.values # <<>>
        BY <2>1, <3>2
      <4>2. CASE i \in DOMAIN w.draft
        BY <2>1, <3>1, <4>2 DEF Checked
      <4>3. CASE i \notin DOMAIN w.draft
        BY <2>1, <3>1, <4>1, <4>3 DEF Checked
      <4>4. QED BY <4>2, <4>3
    <3>3. Kept(v)
      BY <3>1, <3>2
    <3> HIDE DEF Kept
    <3>4. Kept(drawer')
      BY <2>3, <3>3 DEF v
    <3>5. QED BY <3>4 DEF Kept
  <2>4. QED BY <2>1, <2>2, <2>3
<1>2. DrawerInv /\ [DrawerNext]_drawerVars =>
        [FacetsArrive /\ drawer.popup = "values" =>
           /\ \A j \in DOMAIN drawer.values :
                LET i == drawer.values[j] IN
                /\ Checked(drawer, i) = Checked(drawer', i)
                /\ i \in DOMAIN drawer.keyOf \cap DOMAIN drawer.draft => drawer'.keyOf[i] = drawer.keyOf[i]
           /\ drawer'.values # <<>> => drawer'.cursor < Len(drawer'.values)]_drawerVars
  BY <1>1
<1>3. QED BY <1>2, DrawerStarts, DrawerStepKeeps, PTL DEF DrawerSpec, ReadsKeepDraft

-----------------------------------------------------------------------------
(* The table: which of its rows are on the screen *)

Rows == [name : RowNames, lines : RowLines]
Windows == [rows : Seq(Rows), tab : Views, height : Nat]

\* The rows from o to i have room, or o is the only one.
Shows(w, f, o) ==
  LET visible == VisibleRowsFrom(w, o)
      Fit(from, to) == LinesOf(w, from, to) <= MaxVisibleRows(w)
  IN /\ f \in visible
     /\ visible = {o} \/ Fit(o, o + Cardinality(visible) - 1)
     /\ \A i \in 1..o - 1 : ~Fit(i, Len(w.rows))

\* The invariant: types, and the property itself.
WindowInv ==
  /\ Window \in Windows /\ focus \in Nat \ {0} /\ offset \in Nat \ {0}
  /\ height > 0 /\ tableRows # << >> => Shows(Window, focus, offset)

\* A set of naturals has a least one.
LEMMA LeastIs ==
  ASSUME NEW S \in SUBSET Nat, S # {}
  PROVE  Least(S) \in S /\ \A j \in S : Least(S) <= j
<1>1. PICK low \in S : \A k \in S : ~(<<k, low>> \in OpToRel(<, Nat))
  BY NatLessThanWellFounded, WFMin
<1>2. \A k \in S : ~(k < low)
  BY <1>1 DEF OpToRel
<1>3. \A k \in S : low <= k
  BY <1>2
<1>4. QED BY <1>3 DEF Least

\* A place is within the table.
LEMMA ClampIs ==
  ASSUME NEW n \in Int, NEW last \in Nat
  PROVE  /\ ClampTo(n, last) \in Nat \ {0}
         /\ last > 0 => ClampTo(n, last) \in 1..last
         /\ last > 0 /\ n >= 1 => ClampTo(n, last) <= n
         /\ n \in 1..last => ClampTo(n, last) = n
         /\ last > 0 /\ n > last => ClampTo(n, last) = last
BY DEF ClampTo

\* Once the height is known, there is room for one row at least (maxVisibleRows).
LEMMA RoomIs ==
  ASSUME RowWindowAssumption, NEW w \in Windows
  PROVE  MaxVisibleRows(w) \in Nat /\ (MaxVisibleRows(w) > 0 <=> w.height > 0)
<1>1. w.height \in Nat
  BY DEF Windows
<1>2. /\ BareLines \in Nat /\ RoomyHeight \in Nat /\ RoomyLines \in Nat /\ MetricHeight \in Nat /\ MetricLines \in Nat
  BY DEF RowWindowAssumption
<1>3. DeskLines(w) \in Nat
  BY <1>1, <1>2 DEF DeskLines
<1>4. QED BY <1>1, <1>3 DEF MaxVisibleRows

\* Fewer rows take fewer lines.
LEMMA FewerLines ==
  ASSUME RowWindowAssumption, NEW w \in Windows, NEW o \in DOMAIN w.rows, NEW i \in DOMAIN w.rows,
         NEW from \in o..i, NEW to \in o..i
  PROVE  /\ LinesOf(w, o, i) \in Nat /\ LinesOf(w, from, to) \in Nat
         /\ LinesOf(w, from, to) <= LinesOf(w, o, i)
<1> DEFINE line == [k \in o..i |-> {k} \X (1..RenderRowLineCount(w, k))]
           all == {{k} \X (1..RenderRowLineCount(w, k)) : k \in o..i}
<1>1. w.rows \in Seq(Rows) /\ DOMAIN w.rows = 1..Len(w.rows) /\ Len(w.rows) \in Nat
  BY DEF Windows
<1>2. \A k \in o..i : RenderRowLineCount(w, k) \in Nat
  <2> TAKE k \in o..i
  <2>1. w.rows[k] \in Rows
    BY <1>1
  <2>2. w.rows[k].lines \in Nat
    BY <2>1 DEF Rows, RowWindowAssumption
  <2>3. QED BY <2>2 DEF RenderRowLineCount
<1>3. o \in Int /\ i \in Int /\ from \in Int /\ to \in Int
  BY <1>1
<1>4. IsFiniteSet(o..i)
  BY <1>3, FS_Interval
<1>5. line \in Surjection(o..i, all)
  BY DEF Surjection
<1>6. IsFiniteSet(all)
  BY <1>4, <1>5, FS_Surjection
<1>7. \A T \in all : IsFiniteSet(T)
  <2>1. ASSUME NEW k \in o..i PROVE IsFiniteSet({k} \X (1..RenderRowLineCount(w, k)))
    <3>1. IsFiniteSet(1..RenderRowLineCount(w, k))
      <4>1. 1 \in Int /\ RenderRowLineCount(w, k) \in Int
        BY <1>2
      <4>2. QED BY <4>1, FS_Interval
    <3>2. IsFiniteSet({k})
      BY FS_Singleton
    <3>3. QED BY <3>1, <3>2, FS_Product
  <2>2. \A k \in o..i : IsFiniteSet(line[k])
    BY <2>1
  <2>3. \A T \in all : \E k \in o..i : T = line[k]
    OBVIOUS
  <2> HIDE DEF line, all
  <2>4. QED BY <2>2, <2>3
<1>8. IsFiniteSet(UNION all)
  BY <1>6, <1>7, FS_UNION
<1>9. Lines(w, o, i) = UNION all
  BY DEF Lines
<1>10. Lines(w, from, to) \subseteq Lines(w, o, i)
  <2>1. from..to \subseteq o..i
    BY <1>3
  <2>2. QED BY <2>1 DEF Lines
<1>11. QED BY <1>8, <1>9, <1>10, FS_Subset, FS_CardinalityType DEF LinesOf

\* The rows on the screen follow each other, from the first one.
LEMMA VisibleAre ==
  ASSUME RowWindowAssumption, NEW w \in Windows, w.height > 0, NEW o \in DOMAIN w.rows
  PROVE  \E high \in o..Len(w.rows) :
           VisibleRowsFrom(w, o) = o..high /\ (high = o \/ LinesOf(w, o, high) <= MaxVisibleRows(w))
<1> DEFINE n == Len(w.rows)
           V == VisibleRowsFrom(w, o)
           H == {k \in o..n + 1 : k \notin V}
<1>1. DOMAIN w.rows = 1..n /\ n \in Nat /\ o \in Nat /\ o <= n /\ o >= 1
  BY DEF Windows
<1>2. MaxVisibleRows(w) \in Nat /\ MaxVisibleRows(w) > 0
  BY RoomIs
<1>3. V = {k \in o..n : k = o \/ LinesOf(w, o, k) <= MaxVisibleRows(w)}
  BY <1>2 DEF VisibleRowsFrom
<1>4. H \in SUBSET Nat /\ n + 1 \in H
  BY <1>1, <1>3
<1>5. Least(H) \in H /\ \A j \in H : Least(H) <= j
  <2> HIDE DEF H
  <2>1. QED BY <1>4, LeastIs
<1> DEFINE q == Least(H)
<1> HIDE DEF q
<1>6. q \in Nat /\ q > o /\ q <= n + 1 /\ q \notin V /\ \A k \in o..q - 1 : k \in V
  <2>1. q \in H /\ \A j \in H : q <= j
    BY <1>5 DEF q
  <2>2. o \in V
    BY <1>1, <1>3
  <2>3. q \in o..n + 1 /\ q \notin V
    BY <2>1
  <2>4. ASSUME NEW k \in o..q - 1, k \notin V PROVE FALSE
    <3>1. k \in H
      BY <1>1, <2>3, <2>4
    <3>2. q <= k
      BY <2>1, <3>1
    <3>3. QED BY <1>1, <2>3, <2>4, <3>2
  <2>5. q # o
    BY <2>2, <2>3
  <2>6. QED BY <1>1, <2>3, <2>4, <2>5
<1> HIDE DEF H
<1>7. ASSUME NEW k \in V, k >= q PROVE FALSE
  <2>1. k \in o..n /\ k # o /\ LinesOf(w, o, k) <= MaxVisibleRows(w)
    BY <1>1, <1>3, <1>6, <1>7
  <2>2. k \in DOMAIN w.rows /\ q \in o..k /\ o \in o..k
    BY <1>1, <1>6, <1>7, <2>1
  <2>3. /\ LinesOf(w, o, k) \in Nat /\ LinesOf(w, o, q) \in Nat /\ LinesOf(w, o, q) <= LinesOf(w, o, k)
    BY <2>2, FewerLines
  <2>4. q \in o..n /\ LinesOf(w, o, q) <= MaxVisibleRows(w)
    BY <1>1, <1>2, <1>6, <2>1, <2>2, <2>3
  <2>5. QED BY <1>3, <1>6, <2>4
<1>8. V = o..q - 1
  <2>1. V \subseteq o..n
    BY <1>3
  <2> HIDE DEF V
  <2>2. \A k \in V : k \in o..q - 1
    BY <1>1, <1>6, <1>7, <2>1
  <2>3. QED BY <1>6, <2>2
<1>9. q - 1 \in o..n /\ q - 1 \in V
  BY <1>1, <1>6
<1>10. q - 1 = o \/ LinesOf(w, o, q - 1) <= MaxVisibleRows(w)
  BY <1>3, <1>9
<1>11. QED BY <1>8, <1>9, <1>10

\* Then what is shown has room, and what is hidden above had none.
LEMMA ShowsFrom ==
  ASSUME RowWindowAssumption, NEW w \in Windows, w.height > 0, NEW o \in DOMAIN w.rows,
         NEW f \in VisibleRowsFrom(w, o),
         \A i \in 1..o - 1 : ~(LinesOf(w, i, Len(w.rows)) <= MaxVisibleRows(w))
  PROVE  Shows(w, f, o)
<1>1. PICK high \in o..Len(w.rows) :
        VisibleRowsFrom(w, o) = o..high /\ (high = o \/ LinesOf(w, o, high) <= MaxVisibleRows(w))
  BY VisibleAre
<1>2. o \in Int /\ high \in Int /\ o <= high
  BY DEF Windows
<1>3. Cardinality(o..high) = high - o + 1
  BY <1>2, FS_Interval
<1>4. o + Cardinality(o..high) - 1 = high
  BY <1>2, <1>3
<1>5. high = o => o..high = {o}
  BY <1>2
<1>6. QED BY <1>1, <1>4, <1>5 DEF Shows

\* The table scrolls so far that its last row is shown, and no further (maxScrollOffset).
LEMMA LastOffset ==
  ASSUME RowWindowAssumption, NEW w \in Windows
  PROVE  /\ MaxScrollOffset(w) \in Nat \ {0}
         /\ w.height > 0 /\ w.rows # << >> =>
              /\ MaxScrollOffset(w) \in DOMAIN w.rows /\ Len(w.rows) \in VisibleRowsFrom(w, MaxScrollOffset(w))
              /\ \A i \in 1..MaxScrollOffset(w) - 1 : ~(LinesOf(w, i, Len(w.rows)) <= MaxVisibleRows(w))
<1> DEFINE n == Len(w.rows)
           S == {o \in DOMAIN w.rows : n \in VisibleRowsFrom(w, o)}
<1>1. w.rows \in Seq(Rows) /\ DOMAIN w.rows = 1..n /\ n \in Nat
  BY DEF Windows
<1>2. MaxVisibleRows(w) \in Nat /\ (MaxVisibleRows(w) > 0 <=> w.height > 0)
  BY RoomIs
<1>3. CASE w.rows = << >> \/ w.height = 0
  <2>1. MaxVisibleRows(w) = 0 \/ w.rows = << >>
    BY <1>2, <1>3
  <2>2. MaxScrollOffset(w) = 1
    BY <2>1 DEF MaxScrollOffset
  <2>3. QED BY <1>2, <1>3, <2>2
<1>4. CASE w.rows # << >> /\ w.height # 0
  <2>1. w.height > 0 /\ MaxVisibleRows(w) > 0
    BY <1>2, <1>4 DEF Windows
  <2>2. n \in DOMAIN w.rows
    BY <1>1, <1>4
  <2>3. \A o \in DOMAIN w.rows : n \in VisibleRowsFrom(w, o) <=> (n = o \/ LinesOf(w, o, n) <= MaxVisibleRows(w))
    BY <1>1, <2>1 DEF VisibleRowsFrom
  <2>4. n \in S /\ S \in SUBSET Nat
    BY <1>1, <2>2, <2>3
  <2>5. MaxScrollOffset(w) = Least(S)
    BY <1>4, <2>1 DEF MaxScrollOffset
  <2> HIDE DEF S
  <2>6. Least(S) \in S /\ \A j \in S : Least(S) <= j
    BY <2>4, LeastIs
  <2> DEFINE low == Least(S)
  <2> HIDE DEF low
  <2>7. low \in DOMAIN w.rows /\ n \in VisibleRowsFrom(w, low) /\ \A j \in S : low <= j
    BY <2>6 DEF low, S
  <2>8. ASSUME NEW i \in 1..low - 1, LinesOf(w, i, n) <= MaxVisibleRows(w) PROVE FALSE
    <3>1. i \in DOMAIN w.rows /\ i < low
      BY <1>1, <2>7
    <3>2. i \in S
      BY <2>3, <2>8, <3>1 DEF S
    <3>3. QED BY <1>1, <2>7, <3>1, <3>2
  <2>9. low \in Nat \ {0}
    BY <1>1, <2>7
  <2>10. QED BY <2>5, <2>7, <2>8, <2>9 DEF low
<1>5. QED BY <1>3, <1>4

\* ensureCursorVisible: wherever the focus and the offset were.
LEMMA EnsureShows ==
  ASSUME RowWindowAssumption, NEW w \in Windows, NEW f \in Int, NEW o \in Nat \ {0}
  PROVE  LET p == EnsureCursorVisible(w, f, o) IN
         /\ p.focus \in Nat \ {0} /\ p.offset \in Nat \ {0}
         /\ w.height > 0 /\ w.rows # << >> => Shows(w, p.focus, p.offset)
<1> DEFINE n == Len(w.rows)
           c == ClampTo(f, n)
           low == IF c < o THEN c ELSE o
           enough == {i \in low..n : c \in VisibleRowsFrom(w, i)}
           e == IF enough = {} THEN low ELSE Least(enough)
           last == MaxScrollOffset(w)
           at == ClampTo(e, last)
<1>1. EnsureCursorVisible(w, f, o) = [focus |-> c, offset |-> at]
  BY DEF EnsureCursorVisible
<1>2. w.rows \in Seq(Rows) /\ DOMAIN w.rows = 1..n /\ n \in Nat
  BY DEF Windows
<1> HIDE DEF n
<1>3. c \in Nat \ {0} /\ (n > 0 => c \in 1..n)
  BY <1>2, ClampIs
<1> HIDE DEF c
<1>4. low \in Nat \ {0} /\ low <= c
  BY <1>3
<1> HIDE DEF low
<1>5. enough \in SUBSET Nat /\ \A i \in enough : i >= low
  BY <1>2, <1>4
<1> HIDE DEF enough
<1>6. e \in Nat \ {0}
  <2>1. CASE enough = {}
    BY <1>4, <2>1
  <2>2. CASE enough # {}
    <3>1. Least(enough) \in enough
      BY <1>5, <2>2, LeastIs
    <3>2. Least(enough) \in Nat /\ Least(enough) >= low
      BY <1>5, <3>1
    <3>3. e = Least(enough)
      BY <2>2
    <3>4. QED BY <1>4, <3>2, <3>3
  <2>3. QED BY <2>1, <2>2
<1> HIDE DEF e
<1>7. /\ last \in Nat \ {0}
      /\ w.height > 0 /\ w.rows # << >> =>
           /\ last \in DOMAIN w.rows /\ n \in VisibleRowsFrom(w, last)
           /\ \A i \in 1..last - 1 : ~(LinesOf(w, i, n) <= MaxVisibleRows(w))
  BY LastOffset DEF n
<1> HIDE DEF last
<1>8. at \in 1..last /\ (e \in 1..last => at = e) /\ (e > last => at = last)
  <2>1. last \in Nat /\ last > 0 /\ e \in Int /\ e >= 1
    BY <1>6, <1>7
  <2>2. QED BY <2>1, ClampIs
<1> HIDE DEF at
<1>9. ASSUME w.height > 0, w.rows # << >>
      PROVE  Shows(w, c, at)
  <2>1. n > 0 /\ c \in 1..n /\ last \in 1..n /\ at \in 1..n
    <3>1. n > 0
      BY <1>2, <1>9 DEF n
    <3>2. QED BY <1>2, <1>3, <1>7, <1>8, <1>9, <3>1
  <2>2. MaxVisibleRows(w) \in Nat /\ MaxVisibleRows(w) > 0
    BY <1>9, RoomIs
  <2>3. \A i \in 1..n : VisibleRowsFrom(w, i) = {k \in i..n : k = i \/ LinesOf(w, i, k) <= MaxVisibleRows(w)}
    BY <2>2 DEF VisibleRowsFrom, n
  <2>4. c \in enough
    BY <1>4, <2>1, <2>3 DEF enough
  <2>5. e \in enough /\ e <= c
    <3>1. enough # {}
      BY <2>4
    <3>2. Least(enough) \in enough /\ Least(enough) <= c
      BY <1>5, <2>4, <3>1, LeastIs
    <3>3. QED BY <3>1, <3>2 DEF e
  <2>6. c \in VisibleRowsFrom(w, e)
    BY <2>5 DEF enough
  <2>7. c \in VisibleRowsFrom(w, at)
    <3>1. CASE e <= last
      <4>1. at = e
        BY <1>6, <1>8, <3>1, <2>1
      <4>2. QED BY <2>6, <4>1
    <3>2. CASE e > last
      <4>1. at = last /\ c >= last /\ c # last
        BY <1>6, <1>8, <2>1, <2>5, <3>2
      <4>2. n # last
        BY <2>1, <4>1
      <4>3. LinesOf(w, last, n) <= MaxVisibleRows(w)
        BY <1>7, <1>9, <2>1, <2>3, <4>2
      <4>4. LinesOf(w, last, n) \in Nat /\ LinesOf(w, last, c) \in Nat /\ LinesOf(w, last, c) <= LinesOf(w, last, n)
        <5>1. last \in DOMAIN w.rows /\ n \in DOMAIN w.rows /\ last \in last..n /\ c \in last..n
          BY <1>2, <2>1, <4>1
        <5>2. QED BY <5>1, FewerLines
      <4>5. LinesOf(w, last, c) <= MaxVisibleRows(w)
        BY <2>2, <4>3, <4>4
      <4>6. QED BY <2>1, <2>3, <4>1, <4>5
    <3>3. QED BY <1>6, <2>1, <3>1, <3>2
  <2>8. \A i \in 1..at - 1 : ~(LinesOf(w, i, n) <= MaxVisibleRows(w))
    <3>1. \A i \in 1..at - 1 : i \in 1..last - 1
      BY <1>7, <1>8
    <3>2. QED BY <1>7, <1>9, <3>1
  <2>9. at \in DOMAIN w.rows
    BY <1>2, <2>1
  <2>10. QED BY <1>9, <2>7, <2>8, <2>9, ShowsFrom DEF n
<1>10. c \in Nat \ {0} /\ at \in Nat \ {0}
  BY <1>3, <1>7, <1>8
<1>11. QED BY <1>1, <1>9, <1>10

\* At the top, the first row is shown.
LEMMA TopShows ==
  ASSUME RowWindowAssumption, NEW w \in Windows, w.height > 0, w.rows # << >>
  PROVE  Shows(w, 1, 1)
<1>1. 1 \in DOMAIN w.rows /\ DOMAIN w.rows = 1..Len(w.rows) /\ Len(w.rows) \in Nat
  BY DEF Windows
<1>2. 1 \in VisibleRowsFrom(w, 1)
  BY <1>1, RoomIs DEF VisibleRowsFrom
<1>3. \A i \in 1..1 - 1 : ~(LinesOf(w, i, Len(w.rows)) <= MaxVisibleRows(w))
  OBVIOUS
<1>4. QED BY <1>1, <1>2, <1>3, ShowsFrom

\* Every message and key keeps the focus on the screen.
LEMMA WindowStep ==
  ASSUME RowWindowAssumption, WindowInv, [RowWindowNext]_windowVars
  PROVE  WindowInv'
<1>1. /\ tableRows \in Seq(Rows) /\ activeTab \in Views /\ height \in Nat
      /\ focus \in Nat \ {0} /\ offset \in Nat \ {0} /\ Window \in Windows
  BY DEF WindowInv, Windows, Window
<1>2. ASSUME Window' \in Windows, NEW w \in Windows, w = Window', NEW f \in Int, NEW o \in Nat \ {0},
             Place(EnsureCursorVisible(w, f, o))
      PROVE  WindowInv'
  <2> DEFINE p == EnsureCursorVisible(w, f, o)
  <2>1. /\ p.focus \in Nat \ {0} /\ p.offset \in Nat \ {0}
        /\ w.height > 0 /\ w.rows # << >> => Shows(w, p.focus, p.offset)
    BY <1>2, EnsureShows
  <2>2. focus' = p.focus /\ offset' = p.offset /\ w.height = height' /\ w.rows = tableRows'
    BY <1>2 DEF Place, Window
  <2> HIDE DEF p
  <2>3. QED BY <1>2, <2>1, <2>2 DEF WindowInv
<1>3. ASSUME Window' \in Windows, ResetRowPosition
      PROVE  WindowInv'
  <2>1. PICK w \in Windows : w = Window'
    BY <1>3
  <2>2. w.height = height' /\ w.rows = tableRows'
    BY <2>1 DEF Window
  <2>3. w.height > 0 /\ w.rows # << >> => Shows(w, 1, 1)
    BY TopShows
  <2>4. focus' = 1 /\ offset' = 1
    BY <1>3 DEF ResetRowPosition
  <2>5. QED BY <1>3, <2>1, <2>2, <2>3, <2>4 DEF WindowInv
<1>4. ASSUME UNCHANGED <<tableRows, activeTab, height, focus, offset>>
      PROVE  WindowInv'
  <2>1. Window' = Window
    BY <1>4 DEF Window
  <2>2. QED BY <1>4, <2>1 DEF WindowInv
<1>5. ASSUME NEW h \in Heights, Resize(h)
      PROVE  WindowInv'
  <2> DEFINE w == [Window EXCEPT !.height = h]
  <2>1. h \in Nat
    BY DEF RowWindowAssumption
  <2>2. w = Window' /\ w \in Windows
    BY <1>1, <1>5, <2>1 DEF Resize, Window, Windows
  <2>3. Place(EnsureCursorVisible(w, focus, ClampTo(offset, MaxScrollOffset(w))))
    BY <1>5 DEF Resize
  <2> HIDE DEF w
  <2>4. ClampTo(offset, MaxScrollOffset(w)) \in Nat \ {0}
    <3>1. MaxScrollOffset(w) \in Nat
      BY <2>2, LastOffset
    <3>2. offset \in Int
      BY <1>1
    <3>3. QED BY <3>1, <3>2, ClampIs
  <2>5. QED BY <1>1, <1>2, <2>2, <2>3, <2>4
<1>6. ASSUME NEW delta \in Int, MoveFocus(delta)
      PROVE  WindowInv'
  <2>1. Len(tableRows) \in Nat
    BY <1>1
  <2>2. ClampTo(focus, Len(tableRows)) \in Int
    BY <1>1, <2>1, ClampIs
  <2> DEFINE f == ClampTo(ClampTo(focus, Len(tableRows)) + delta, Len(tableRows))
  <2>3. f \in Int
    BY <2>1, <2>2, ClampIs
  <2>4. Place(EnsureCursorVisible(Window, f, offset)) /\ UNCHANGED <<tableRows, activeTab, height>>
    BY <1>6 DEF MoveFocus
  <2>5. Window' = Window
    BY <2>4 DEF Window
  <2> HIDE DEF f
  <2>6. PICK w \in Windows : w = Window
    BY <1>1
  <2>7. QED BY <1>1, <1>2, <2>3, <2>4, <2>5, <2>6
<1>7. ASSUME NEW t \in Views, SelectView(t)
      PROVE  WindowInv'
  <2>1. Window' \in Windows
    BY <1>1, <1>7 DEF SelectView, Window, Windows
  <2>2. QED BY <1>3, <1>7, <2>1 DEF SelectView
<1>8. CASE RowsArrive
  <2>1. PICK rows \in BoundedSeq(Rows, MaxRows) :
          /\ tableRows' = rows
          /\ IF awaited = "fresh" THEN ResetRowPosition
             ELSE Place(EnsureCursorVisible([Window EXCEPT !.rows = rows], Restored(rows), offset))
    BY <1>8 DEF RowsArrive, Rows
  <2>2. rows \in Seq(Rows)
    BY DEF BoundedSeq, SeqOf, RowWindowAssumption
  <2> DEFINE w == [Window EXCEPT !.rows = rows]
  <2>3. UNCHANGED <<activeTab, height>>
    BY <1>8 DEF RowsArrive
  <2>4. w = Window' /\ w \in Windows
    BY <1>1, <2>1, <2>2, <2>3 DEF Window, Windows
  <2>5. CASE awaited = "fresh"
    BY <1>3, <2>1, <2>4, <2>5
  <2>6. CASE awaited # "fresh"
    <3>1. Restored(rows) \in Int
      <4> DEFINE named == IF focus \in DOMAIN tableRows
                          THEN {i \in DOMAIN rows : rows[i].name = tableRows[focus].name} ELSE {}
      <4>1. named \in SUBSET Nat
        BY <2>2
      <4>2. Restored(rows) = IF named = {} THEN focus ELSE Least(named)
        BY DEF Restored
      <4> HIDE DEF named
      <4>3. named # {} => Least(named) \in Nat
        BY <4>1, LeastIs
      <4>4. QED BY <1>1, <4>2, <4>3
    <3> HIDE DEF w
    <3>2. Place(EnsureCursorVisible(w, Restored(rows), offset))
      BY <2>1, <2>6 DEF w
    <3>3. QED BY <1>1, <1>2, <2>4, <3>1, <3>2
  <2>7. QED BY <2>5, <2>6
<1>9. CASE RefreshRows \/ ReadOfRowsFails \/ UNCHANGED windowVars
  BY <1>4, <1>9 DEF RefreshRows, ReadOfRowsFails, windowVars
<1>10. MaxVisibleRows(Window) \in Nat
  BY <1>1, RoomIs
<1>11. \A delta \in {-1, 1, MaxVisibleRows(Window), -MaxVisibleRows(Window)} : delta \in Int
  BY <1>10
<1>12. QED BY <1>5, <1>6, <1>7, <1>8, <1>9, <1>11 DEF RowWindowNext

-----------------------------------------------------------------------------
\* FocusShown: for any number of rows of any height, any terminal and any sequence of
\* sizes, keys, selections and answers, the focused row is on the screen, the rows shown
\* have room, and none is hidden above that had room as well.
THEOREM FocusStays == RowWindowSpec => []FocusShown
<1>1. RowWindowInit => WindowInv
  BY DEF RowWindowInit, WindowInv, Window, Windows
<1>2. WindowInv /\ [RowWindowNext]_windowVars => WindowInv'
  BY WindowStep, RowWindowAssumption
<1>3. WindowInv => FocusShown
  <2> SUFFICES ASSUME WindowInv, height > 0, tableRows # << >> PROVE FocusShown
    BY DEF FocusShown
  <2>1. Shows(Window, focus, offset) /\ Window.rows = tableRows
    BY DEF WindowInv, Window
  <2>2. QED BY <2>1 DEF Shows, FocusShown
<1>4. QED BY <1>1, <1>2, <1>3, PTL DEF RowWindowSpec
=============================================================================
