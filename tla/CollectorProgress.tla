-------------------------- MODULE CollectorProgress --------------------------
(***************************************************************************)
(* Collections and what they tell the registry: one observer and one       *)
(* capture reporter each, workers that read sources, one writer that saves *)
(* them in order, a heartbeat of its own (src/packages/core:               *)
(* localruntime/observer.go, collection.go, runtime.go,                    *)
(* pipeline/capture_progress.go, extract_prepare.go).                      *)
(***************************************************************************)
EXTENDS Registry

CONSTANTS
  MaxSources,      \* bound on the sources each collection finds
  Workers,         \* sources prepared at once
  MaxBatches,      \* bound on the batches each collection delivers
  Together         \* collections at once: the backend's captures run one

ASSUME ProgressAssumption ==
  /\ MaxSources \in [Attempts -> Nat] /\ MaxBatches \in [Attempts -> Nat]
  /\ Workers \in Nat \ {0} /\ Together \in Nat
  /\ IsFiniteSet(Harnesses) /\ Harnesses # {} /\ Harnesses = 1..Cardinality(Harnesses)

VARIABLES
  step,            \* where each collection is
  at,              \* the harness it is at
  cancelled,       \* its context is cancelled
  beat,            \* its heartbeat goroutine runs
  state,           \* Observer.state
  event,           \* captureReporter.states, the events
  saving,          \* and their saving flags
  jobs,            \* the harness of each source, in order
  place,           \* how far each source is
  troubled,        \* the error its result carries, if any
  sent,            \* batches acknowledged
  closed           \* the runtime is closed

measureVars    == <<event, saving, jobs, place>>
collectionVars == <<step, at, cancelled, beat, state, troubled, sent>>
progressVars == <<registryVars, measureVars, collectionVars, closed>>

Running(a) == step[a] \notin {"idle", "done"}

Goto(a, s) == step' = [step EXCEPT ![a] = s]

-----------------------------------------------------------------------------
(* The observer's messages and the reporter's measurements *)

\* Observer.Collection and Delivery publish the state they keep.
Tell(a, m) == state' = [state EXCEPT ![a] = m] /\ Apply(a, m)

HarnessIs(a, h, status) ==
  [state[a] EXCEPT !.op = "update", !.stage = "capturing", !.harnesses[h] = status]

FirstState == [op |-> "begin", stage |-> "waiting", error |-> "",
               harnesses |-> [h \in Harnesses |-> "none"], batches |-> 0]

Blank == [phase |-> "none", known |-> FALSE, total |-> 0, checked |-> 0, active |-> 0, count |-> NoOutcome]
NoEvents == [h \in Harnesses |-> Blank]

\* captureReporter.update: the event changes and is published under one lock.
Measure(a, h, c) ==
  /\ event' = [event EXCEPT ![a][h] = c]
  /\ UpdateCapture(a, h, c)

CaptureWorkPhase(c, sav) ==
  [c EXCEPT !.phase =
     CASE sav                   -> "saving"
       [] ~sav /\ c.active > 0  -> "reading"
       [] ~sav /\ c.active = 0 /\ c.checked < c.total -> "waiting"
       [] OTHER -> IF c.count["failed"] + c.count["quarantined"] > 0 THEN "failed" ELSE "complete"]

-----------------------------------------------------------------------------
(* Runtime.StartCollection and newObserver *)

\* A begin that is refused leaves the collection without publisher.
StartCollection(a) ==
  /\ step[a] = "idle" /\ ~closed
  /\ Cardinality({b \in Attempts : Running(b)}) < Together
  /\ Begin(a)
  /\ LET ok == attempts'[a] # Absent IN
     /\ Goto(a, IF ok THEN "discovering" ELSE "done")
     /\ beat' = [beat EXCEPT ![a] = ok]
  /\ UNCHANGED <<measureVars, at, cancelled, state, troubled, sent, closed>>

Heartbeat(a) ==
  /\ beat[a]
  /\ Apply(a, [state[a] EXCEPT !.op = "heartbeat"])
  /\ UNCHANGED <<measureVars, collectionVars, closed>>

\* The goroutine sees the end of its context; until then a tick may still be taken.
StopBeat(a) ==
  /\ beat[a] /\ (cancelled[a] \/ step[a] = "ending")
  /\ beat' = [beat EXCEPT ![a] = FALSE]
  /\ UNCHANGED <<registryVars, measureVars, step, at, cancelled, state, troubled, sent, closed>>

\* The caller's context, or the runtime's once it closes.
CancelCollection(a) ==
  /\ Running(a) /\ ~cancelled[a]
  /\ cancelled' = [cancelled EXCEPT ![a] = TRUE]
  /\ UNCHANGED <<registryVars, measureVars, step, at, beat, state, troubled, sent, closed>>

-----------------------------------------------------------------------------
(* extractPrepared: discovery, one harness after the other *)

Discovering(a) ==
  /\ step[a] = "discovering"
  /\ Measure(a, at[a], [event[a][at[a]] EXCEPT !.phase = "discovering"])
  /\ Goto(a, "announcing")
  /\ UNCHANGED <<at, cancelled, beat, state, troubled, sent, saving, jobs, place, closed>>

Announcing(a) ==
  /\ step[a] = "announcing"
  /\ Tell(a, HarnessIs(a, at[a], "running"))
  /\ Goto(a, "looking")
  /\ UNCHANGED <<measureVars, at, cancelled, beat, troubled, sent, closed>>

Sources(h, n) == [i \in 1..n |-> h]

Discovered(a, n) ==
  LET h == at[a] IN
  /\ Measure(a, h, [event[a][h] EXCEPT !.known = TRUE, !.total = n,
                      !.phase = IF n = 0 THEN "complete" ELSE "waiting"])
  /\ jobs' = [jobs EXCEPT ![a] = @ \o Sources(h, n)]
  /\ place' = [place EXCEPT ![a] = @ \o [i \in 1..n |-> "held"]]
  /\ UNCHANGED troubled

DiscoveryFails(a) ==
  LET h == at[a] IN
  /\ Measure(a, h, [event[a][h] EXCEPT !.phase = IF cancelled[a] THEN "interrupted" ELSE "failed"])
  /\ troubled' = [troubled EXCEPT ![a] = "collection_failed"]
  /\ UNCHANGED <<jobs, place>>

Looking(a) ==
  /\ step[a] = "looking"
  /\ DiscoveryFails(a) \/ \E n \in 0..(MaxSources[a] - Len(jobs[a])) : Discovered(a, n)
  /\ Goto(a, "reporting")
  /\ UNCHANGED <<at, cancelled, beat, state, sent, saving, closed>>

\* The first slots are given out; each source that is finished frees one.
Issue(a, places) ==
  LET taken == Cardinality({j \in DOMAIN places : places[j] \notin {"held", "done"}})
      held  == {j \in DOMAIN places : places[j] = "held"}
  IN [j \in DOMAIN places |->
        IF j \in held /\ Cardinality({k \in held : k < j}) < Workers - taken THEN "queued" ELSE places[j]]

\* All sources are known: the first are issued, unless the spool cannot be made.
Spool(a) ==
  \/ /\ place' = [place EXCEPT ![a] = Issue(a, @)]
     /\ Goto(a, "working")
     /\ UNCHANGED troubled
  \/ /\ troubled' = [troubled EXCEPT ![a] = "collection_failed"]
     /\ Goto(a, IF cancelled[a] THEN "stopping" ELSE "failing")
     /\ UNCHANGED place

Reporting(a) ==
  LET h == at[a]
      e == event[a][h]
      status == IF e.phase \in {"failed", "interrupted"} THEN "failed"
                ELSE IF e.total = 0 THEN "skipped" ELSE "running"
      last == h + 1 \notin Harnesses
  IN /\ step[a] = "reporting"
     /\ Tell(a, HarnessIs(a, h, status))
     /\ at' = [at EXCEPT ![a] = IF last THEN 1 ELSE h + 1]
     /\ IF last /\ jobs[a] # << >> THEN Spool(a)
        ELSE Goto(a, IF last THEN "delivering" ELSE "discovering") /\ UNCHANGED <<place, troubled>>
     /\ UNCHANGED <<event, saving, jobs, cancelled, beat, sent, closed>>

\* The configuration or the collector's database refuses the collection before it looks.
Unavailable(a) ==
  /\ step[a] = "discovering" /\ at[a] = 1
  /\ troubled' = [troubled EXCEPT ![a] = "collection_failed"]
  /\ Goto(a, "delivering") \/ Goto(a, "ending")
  /\ UNCHANGED <<registryVars, measureVars, at, cancelled, beat, state, sent, closed>>

-----------------------------------------------------------------------------
(* extractPrepared: workers read, the writer saves in order *)

Move(a, j, p) == place' = [place EXCEPT ![a][j] = p]

Reading(a, j) ==
  LET h == jobs[a][j] IN
  /\ step[a] = "working"
  /\ \/ /\ place[a][j] = "queued" /\ Move(a, j, "reading")
        /\ Measure(a, h, CaptureWorkPhase([event[a][h] EXCEPT !.active = @ + 1], saving[a][h]))
     \/ /\ place[a][j] = "reading" /\ Move(a, j, "read")
        /\ Measure(a, h, CaptureWorkPhase([event[a][h] EXCEPT !.active = @ - 1], saving[a][h]))
  /\ UNCHANGED <<saving, jobs, collectionVars, closed>>

\* The writer takes the results in the order of the sources.
Turn(a, j) == step[a] = "working" /\ \A k \in 1..(j - 1) : place[a][k] = "done"

Saving(a, j) ==
  LET h == jobs[a][j] IN
  /\ Turn(a, j) /\ place[a][j] = "read" /\ Move(a, j, "saving")
  /\ saving' = [saving EXCEPT ![a][h] = TRUE]
  /\ Measure(a, h, CaptureWorkPhase(event[a][h], TRUE))
  /\ UNCHANGED <<jobs, collectionVars, closed>>

Counted(c, o) == [c EXCEPT !.checked = @ + 1, !.count[o] = @ + 1]

\* A source whose preparation failed is not saved.
Finalized(a, j, o) ==
  LET h == jobs[a][j]
      places == [place[a] EXCEPT ![j] = "done"]
      last == \A k \in DOMAIN places : jobs[a][k] = h => places[k] = "done"
  IN /\ Turn(a, j)
     /\ place[a][j] = "saving" \/ (place[a][j] = "read" /\ o = "failed")
     /\ saving' = [saving EXCEPT ![a][h] = FALSE]
     /\ Measure(a, h, CaptureWorkPhase(Counted(event[a][h], o), FALSE))
     /\ troubled' = IF o = "failed" THEN [troubled EXCEPT ![a] = "collection_failed"] ELSE troubled
     /\ Goto(a, IF last THEN "summing" ELSE "working")
     /\ at' = [at EXCEPT ![a] = h]
     /\ place' = [place EXCEPT ![a] = IF last \/ cancelled[a] THEN places ELSE Issue(a, places)]
     /\ UNCHANGED <<jobs, cancelled, beat, state, sent, closed>>

\* The harness's last source: what became of it. A full refresh never skips.
Summing(a) ==
  LET h == at[a]
      e == event[a][h]
  IN /\ step[a] = "summing"
     /\ \E status \in {"complete", "skipped", "failed"} :
          /\ status = "failed" <=> e.count["failed"] > 0
          /\ status = "skipped" => e.count["captured"] = 0
          /\ Tell(a, HarnessIs(a, h, status))
     /\ place' = [place EXCEPT ![a] = IF cancelled[a] THEN @ ELSE Issue(a, @)]
     /\ Goto(a, "working")
     /\ UNCHANGED <<event, saving, jobs, at, cancelled, beat, troubled, sent, closed>>

Drained(a) ==
  /\ step[a] = "working"
  /\ \A j \in DOMAIN place[a] : place[a][j] \in {"held", "done"}
  /\ Goto(a, IF cancelled[a] THEN "stopping" ELSE "delivering")
  /\ at' = [at EXCEPT ![a] = 1]
  /\ UNCHANGED <<registryVars, measureVars, cancelled, beat, state, troubled, sent, closed>>

-----------------------------------------------------------------------------
(* extractPrepared: what was not finished *)

Unfinished(e, interrupted) ==
  e.known /\ (e.checked < e.total \/ (interrupted /\ e.count["failed"] > 0))

\* stoppedUnfinished, one harness after the other.
Stopping(a) ==
  LET h == at[a]
      interrupted == step[a] = "stopping"
      last == h + 1 \notin Harnesses
      abandoned == interrupted /\ \E j \in DOMAIN place[a] : place[a][j] = "held"
  IN /\ step[a] \in {"stopping", "failing"}
     /\ IF Unfinished(event[a][h], interrupted)
        THEN Measure(a, h, [event[a][h] EXCEPT !.phase = IF interrupted THEN "interrupted" ELSE "failed"])
        ELSE UNCHANGED <<event, registryVars>>
     /\ at' = [at EXCEPT ![a] = IF last THEN 1 ELSE h + 1]
     /\ Goto(a, IF ~last THEN step[a] ELSE IF abandoned THEN "abandoning" ELSE "delivering")
     /\ UNCHANGED <<saving, jobs, place, cancelled, beat, state, troubled, sent, closed>>

\* The harnesses with sources that were never issued.
Abandoning(a) ==
  LET h == at[a]
      last == h + 1 \notin Harnesses
  IN /\ step[a] = "abandoning"
     /\ troubled' = [troubled EXCEPT ![a] = "collection_failed"]
     /\ IF \E j \in DOMAIN place[a] : jobs[a][j] = h /\ place[a][j] = "held"
        THEN Tell(a, HarnessIs(a, h, "failed")) ELSE UNCHANGED <<state, registryVars>>
     /\ at' = [at EXCEPT ![a] = IF last THEN 1 ELSE h + 1]
     /\ Goto(a, IF last THEN "delivering" ELSE "abandoning")
     /\ UNCHANGED <<measureVars, cancelled, beat, sent, closed>>

-----------------------------------------------------------------------------
(* publishRaw and Observer.Finish *)

\* Progress is reported, then the next batch acknowledged, or the delivery ends.
Delivering(a) ==
  /\ step[a] = "delivering"
  /\ Tell(a, [state[a] EXCEPT !.op = "update", !.stage = "submitting", !.batches = sent[a]])
  /\ \/ /\ sent[a] < MaxBatches[a]
        /\ sent' = [sent EXCEPT ![a] = @ + 1]
        /\ UNCHANGED <<step, troubled>>
     \/ /\ troubled' \in {troubled, [troubled EXCEPT ![a] = "submission_failed"]}
        /\ Goto(a, "ending")
        /\ UNCHANGED sent
  /\ UNCHANGED <<measureVars, at, cancelled, beat, closed>>

Quarantined(a) == \E h \in Harnesses : event[a][h].count["quarantined"] > 0

\* How a collection ended: an error of its cancelled context takes precedence.
Results(a) ==
  IF troubled[a] = "" /\ ~Quarantined(a) THEN {[stage |-> "accepted", error |-> ""]}
  ELSE {[stage |-> "failed", error |-> IF troubled[a] = "" THEN "collection_failed" ELSE troubled[a]]}
       \cup (IF cancelled[a] /\ troubled[a] # "" THEN {[stage |-> "interrupted", error |-> "cancelled"]} ELSE {})

Joined(a) == ~beat[a]

\* What the collection knew goes with it.
Finish(a) ==
  /\ step[a] = "ending" /\ Joined(a)
  /\ \E r \in Results(a) :
       Apply(a, [state[a] EXCEPT !.op = "finish", !.stage = r.stage, !.error = r.error, !.batches = sent[a]])
  /\ state' = [state EXCEPT ![a] = FirstState]
  /\ Goto(a, "done")
  /\ event' = [event EXCEPT ![a] = NoEvents]
  /\ jobs' = [jobs EXCEPT ![a] = << >>]
  /\ place' = [place EXCEPT ![a] = << >>]
  /\ cancelled' = [cancelled EXCEPT ![a] = FALSE]
  /\ troubled' = [troubled EXCEPT ![a] = ""]
  /\ sent' = [sent EXCEPT ![a] = 0]
  /\ UNCHANGED <<saving, at, beat, closed>>

-----------------------------------------------------------------------------
(* The runtime *)

\* Close joins every collection first; its cancellation of them is CancelCollection.
CloseRuntime ==
  /\ ~closed /\ \A a \in Attempts : ~Running(a)
  /\ closed' = TRUE
  /\ InterruptAll
  /\ UNCHANGED <<measureVars, collectionVars>>

\* Viewers read; time passes.
Watch == (Snapshot \/ Tick) /\ UNCHANGED <<measureVars, collectionVars, closed>>

CaptureStep(a) ==
  \/ Discovering(a) \/ Announcing(a) \/ Looking(a) \/ Reporting(a) \/ Unavailable(a)
  \/ \E j \in DOMAIN place[a] :
       Reading(a, j) \/ Saving(a, j) \/ \E o \in Outcomes : Finalized(a, j, o)
  \/ Summing(a) \/ Drained(a) \/ Stopping(a) \/ Abandoning(a)

Collect(a) ==
  \/ StartCollection(a) \/ Heartbeat(a) \/ StopBeat(a) \/ CancelCollection(a)
  \/ CaptureStep(a) \/ Delivering(a) \/ Finish(a)

ProgressNext == (\E a \in Attempts : Collect(a)) \/ CloseRuntime \/ Watch

ProgressInit ==
  /\ RegistryInit
  /\ step = [a \in Attempts |-> "idle"]
  /\ at = [a \in Attempts |-> 1]
  /\ cancelled = [a \in Attempts |-> FALSE]
  /\ beat = [a \in Attempts |-> FALSE]
  /\ state = [a \in Attempts |-> FirstState]
  /\ event = [a \in Attempts |-> NoEvents]
  /\ saving = [a \in Attempts |-> [h \in Harnesses |-> FALSE]]
  /\ jobs = [a \in Attempts |-> << >>]
  /\ place = [a \in Attempts |-> << >>]
  /\ troubled = [a \in Attempts |-> ""]
  /\ sent = [a \in Attempts |-> 0]
  /\ closed = FALSE

ProgressSpec == ProgressInit /\ [][ProgressNext]_progressVars

-----------------------------------------------------------------------------
(* Properties *)

Held == {a \in Attempts : attempts[a] # Absent}

\* A publisher is refused only after its lease ran out: no interleaving of its
\* workers, its writer, its heartbeat and its last message makes an update
\* that Registry.Apply or UpdateCapture calls invalid or a regression.
RefusedOnlyWhenLost ==
  \A a \in refused \cap Held : attempts[a].error = "publisher_lost"

\* A collection that is over is shown as what it was: neither as a live attempt nor
\* with a harness that still reads, as accepted only if every harness is complete or
\* had nothing to say, and as lost if an update of it was refused.
EndedShowsOutcome ==
  /\ RefusedOnlyWhenLost
  /\ \A a \in Held :
       /\ step[a] = "done" =>
            /\ attempts[a].stage \in Terminal
            /\ \A h \in Harnesses : attempts[a].captures[h] # Absent =>
                 attempts[a].captures[h].phase \in CaptureTerminal /\ attempts[a].captures[h].active = 0
       /\ attempts[a].stage = "accepted" /\ a \notin refused =>
            \A h \in Harnesses : attempts[a].harnesses[h] \in {"complete", "skipped"}
                                 /\ attempts[a].captures[h].phase = "complete"

\* An attempt that ended keeps its outcome until it is forgotten, and room is
\* made only by attempts that ended: a late call never revives or rewrites one.
OutcomesStay ==
  [][\A a \in Held :
       /\ attempts[a].stage \in Terminal => attempts'[a] \in {attempts[a], Absent}
       /\ attempts'[a] = Absent => attempts[a].stage \in Terminal \/ now >= attempts[a].expires]_progressVars
=============================================================================
