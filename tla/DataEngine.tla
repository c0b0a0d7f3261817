----------------------------- MODULE DataEngine -----------------------------
(***************************************************************************)
(* The processor of the Token database (src/packages/core/dataengine) at   *)
(* work on the store: one dispatcher claims dependency components, workers *)
(* interpret them and publish behind the revision fence, collectors keep   *)
(* accepting batches, the user reprocesses, and the process dies and comes *)
(* back, possibly as another binary.                                       *)
(*                                                                         *)
(* A worker is the life of its claim: running, then published, stale or    *)
(* failing; a failing worker records the failure before it reports.        *)
(***************************************************************************)
EXTENDS TokenStore

CONSTANTS
  Poison,            \* records no worker can publish (a persistent failure)
  WorkerCount,       \* workerCount
  MaxInFlight,       \* maxInFlightBytes, one unit per record
  MaxDelayed,        \* maxDelayedComponents
  MaxDelayedScopes,  \* maxDelayedScopes
  MaxFaults,         \* bound: transient I/O failures in a behaviour
  MaxCrashes,        \* bound: process deaths in a behaviour
  MaxReprocess       \* bound: reprocessing requests in a behaviour

ASSUME EngineAssumption ==
  /\ Poison \subseteq Records
  /\ WorkerCount \in Nat \ {0}
  /\ MaxInFlight \in Nat /\ MaxDelayed \in Nat /\ MaxDelayedScopes \in Nat
  /\ MaxFaults \in Nat /\ MaxCrashes \in Nat /\ MaxReprocess \in Nat

VARIABLES
  dispatcher,   \* where runConcurrent is, or "closed" and "opening" before it runs
  claims,       \* active claims: [work, phase]
  failedLoad,   \* the work of a failed load whose failure is not recorded yet
  delayed,      \* staleComponents: the scopes of each component held back
  faults, crashes, reprocessed   \* how much of each bound is used

engineVars == <<dispatcher, claims, failedLoad, delayed, faults, crashes, reprocessed>>
vars == <<storeVars, engineVars>>

Phases == {"running", "failing", "published", "stale", "failed"}
DispatcherStates == {"closed", "opening", "selecting", "waiting", "recording"}

Running == dispatcher \notin {"closed", "opening"}

-----------------------------------------------------------------------------
(* Selection. *)

\* Mutant: only what was held back.
ExcludedStale == UNION delayed

\* The scopes of active claims and of the components held back.
Excluded ==
  (UNION {Members(c.work) : c \in claims}) \cup (UNION delayed)

InFlight == Cardinality(UNION {c.work.records : c \in claims})

\* With nothing in flight a component of any size may run alone.
Admitted(s) ==
  \/ claims = {}
  \/ InFlight + Cardinality(EvidenceOf(Linked(s, deps))) <= MaxInFlight

\* Mutant: a scope that failed once is given up.
FreshCandidate(s) == Pending(s) /\ attempts[s] = 0

Candidate(s) == Pending(s) /\ retry[s] = 0

Eligible(s) ==
  /\ Candidate(s)
  /\ \A t \in Linked(s, deps) : Exists(t) => t \notin Excluded
  /\ Admitted(s)

\* Mutant: only the oldest pending scope may go, even when it is backed off.
HeadOfLine(s) == Eligible(s) /\ \A t \in Scopes : Pending(t) => rev[s] <= rev[t]

\* candidatePage orders by revision; among equals the scope name decides.
First(s) == Eligible(s) /\ \A t \in Scopes : Eligible(t) => rev[s] <= rev[t]

HasRoom == Cardinality(claims) < WorkerCount /\ (claims = {} \/ InFlight < MaxInFlight)

Select(s) ==
  /\ dispatcher = "selecting"
  /\ Readable
  /\ HasRoom
  /\ First(s)
  /\ claims' = claims \cup {[work |-> Load(s), phase |-> "running"]}
  /\ UNCHANGED <<storeVars, dispatcher, failedLoad, delayed, faults, crashes, reprocessed>>

Park ==
  /\ dispatcher = "selecting"
  /\ HasRoom => \A s \in Scopes : ~Eligible(s)
  /\ dispatcher' = "waiting"
  /\ UNCHANGED <<storeVars, claims, failedLoad, delayed, faults, crashes, reprocessed>>

\* A load that fails keeps what it knew: the root alone, or the component too.
LoadFails(s) ==
  /\ dispatcher = "selecting"
  /\ HasRoom
  /\ First(s)
  /\ faults < MaxFaults
  /\ failedLoad' \in {{Load(s)}, {[Load(s) EXCEPT !.seen = [t \in Scopes |-> 0]]}}
  /\ faults' = faults + 1
  /\ dispatcher' = "recording"
  /\ UNCHANGED <<storeVars, claims, delayed, crashes, reprocessed>>

\* A load that fails before it has chosen a candidate.
SelectionFails ==
  /\ dispatcher = "selecting"
  /\ HasRoom
  /\ faults < MaxFaults
  /\ faults' = faults + 1
  /\ dispatcher' = "waiting"
  /\ UNCHANGED <<storeVars, claims, failedLoad, delayed, crashes, reprocessed>>

\* The dispatcher records the failed load, then waits instead of spinning.
RecordLoadFailure ==
  /\ dispatcher = "recording"
  /\ \E w \in failedLoad : RecordFailure(w)
  /\ failedLoad' = {}
  /\ dispatcher' = "waiting"
  /\ UNCHANGED <<claims, delayed, faults, crashes, reprocessed>>

\* The wake channel, or the ticker that fires whether a wakeup was lost or not.
Rouse ==
  /\ dispatcher = "waiting"
  /\ dispatcher' = "selecting"
  /\ UNCHANGED <<storeVars, claims, failedLoad, delayed, faults, crashes, reprocessed>>

-----------------------------------------------------------------------------
(* Workers. *)

Advance(c, phase) == claims' = (claims \ {c}) \cup {[c EXCEPT !.phase = phase]}

Poisoned(c) == c.work.records \cap Poison # {}

WorkerPublishes(c) ==
  /\ c.phase = "running"
  /\ ~Poisoned(c)
  /\ Publish(c.work)
  /\ Advance(c, "published")
  /\ UNCHANGED <<dispatcher, failedLoad, delayed, faults, crashes, reprocessed>>

WorkerFenced(c) ==
  /\ c.phase = "running"
  /\ ~Fence(c.work)
  /\ Advance(c, "stale")
  /\ UNCHANGED <<storeVars, dispatcher, failedLoad, delayed, faults, crashes, reprocessed>>

\* Interpretation or publication fails: for good, at the revision limit, or once.
WorkerFails(c) ==
  /\ c.phase = "running"
  /\ \/ Poisoned(c) /\ faults' = faults
     \/ Fence(c.work) /\ revision >= MaxRevision /\ faults' = faults
     \/ faults < MaxFaults /\ faults' = faults + 1
  /\ Advance(c, "failing")
  /\ UNCHANGED <<storeVars, dispatcher, failedLoad, delayed, crashes, reprocessed>>

WorkerRecordsFailure(c) ==
  /\ c.phase = "failing"
  /\ RecordFailure(c.work)
  /\ Advance(c, "failed")
  /\ UNCHANGED <<dispatcher, failedLoad, delayed, faults, crashes, reprocessed>>

\* RecordFailure's own transaction fails; its error is dropped.
WorkerLosesFailure(c) ==
  /\ c.phase = "failing"
  /\ faults < MaxFaults
  /\ faults' = faults + 1
  /\ Advance(c, "failed")
  /\ UNCHANGED <<storeVars, dispatcher, failedLoad, delayed, crashes, reprocessed>>

-----------------------------------------------------------------------------
(* Completions. *)

\* staleComponents.add: at capacity the component stays immediately eligible.
HeldBack(S) ==
  IF Cardinality(delayed) < MaxDelayed /\ Cardinality((UNION delayed) \cup S) <= MaxDelayedScopes
  THEN delayed \cup {S} ELSE delayed

Complete(c) ==
  /\ dispatcher = "waiting"
  /\ c.phase \in {"published", "stale", "failed"}
  /\ claims' = claims \ {c}
  /\ delayed' = IF c.phase = "stale" THEN HeldBack(Members(c.work)) ELSE delayed
  /\ dispatcher' = "selecting"
  /\ UNCHANGED <<storeVars, failedLoad, faults, crashes, reprocessed>>

\* staleRetryDelay passes for one component: prune and, when waiting, the timer.
Expire(S) ==
  /\ S \in delayed
  /\ delayed' = delayed \ {S}
  /\ dispatcher' = IF dispatcher = "waiting" THEN "selecting" ELSE dispatcher
  /\ UNCHANGED <<storeVars, claims, failedLoad, faults, crashes, reprocessed>>

-----------------------------------------------------------------------------
(* The store's other users, and the process itself. *)

CollectorSends(b) ==
  /\ Running
  /\ Accept(b)
  /\ UNCHANGED <<dispatcher, claims, failedLoad, delayed, faults, crashes, reprocessed>>

UserReprocesses ==
  /\ Running
  /\ reprocessed < MaxReprocess
  /\ Reprocess
  /\ reprocessed' = reprocessed + 1
  /\ UNCHANGED <<dispatcher, claims, failedLoad, delayed, faults, crashes>>

SecondPasses ==
  /\ Elapse
  /\ UNCHANGED engineVars

\* Only the tables survive: claims and delays are memory.
Crash ==
  /\ dispatcher # "closed"
  /\ crashes < MaxCrashes
  /\ crashes' = crashes + 1
  /\ dispatcher' = "closed" /\ binary' = 0
  /\ claims' = {} /\ failedLoad' = {} /\ delayed' = {}
  /\ UNCHANGED <<inputVars, scopeVars, outputVars, genVars, faults, reprocessed>>

\* A binary opens the store; one older than a stored generation is refused.
Open(v) ==
  /\ dispatcher = "closed"
  /\ ReadableBy(v)
  /\ binary' = v
  /\ dispatcher' = "opening"
  /\ UNCHANGED <<inputVars, scopeVars, outputVars, genVars,
                 claims, failedLoad, delayed, faults, crashes, reprocessed>>

\* prepareGeneration, before the worker runs: rules that changed are staged.
Prepare ==
  /\ dispatcher = "opening"
  /\ IF genProc[target] = binary THEN UNCHANGED storeVars ELSE Reprocess
  /\ dispatcher' = "selecting"
  /\ UNCHANGED <<claims, failedLoad, delayed, faults, crashes, reprocessed>>

-----------------------------------------------------------------------------
Init ==
  /\ StoreInit
  /\ dispatcher = "selecting"
  /\ claims = {} /\ failedLoad = {} /\ delayed = {}
  /\ faults = 0 /\ crashes = 0 /\ reprocessed = 0

Dispatch == (\E s \in Scopes : Select(s)) \/ Park \/ RecordLoadFailure \/ Rouse

Work(c) ==
  \/ WorkerPublishes(c) \/ WorkerFenced(c) \/ WorkerFails(c)
  \/ WorkerRecordsFailure(c) \/ WorkerLosesFailure(c)

Next ==
  \/ \E s \in Scopes : Select(s) \/ LoadFails(s)
  \/ Park \/ SelectionFails \/ RecordLoadFailure \/ Rouse
  \/ \E c \in claims : Work(c) \/ Complete(c)
  \/ \E S \in delayed : Expire(S)
  \/ \E b \in Batches : CollectorSends(b)
  \/ UserReprocesses \/ SecondPasses \/ Crash \/ Prepare
  \/ \E v \in 1..MaxProcessor : Open(v)

(***************************************************************************)
(* Fairness.  The dispatcher loop and its workers are goroutines that only *)
(* block on each other; the ticker and the clock advance; an operator who  *)
(* stopped the program starts it again.  Go's select takes a ready         *)
(* completion with positive probability each time it waits, and the        *)
(* channel is FIFO, so a completion that is always possible is taken.      *)
(***************************************************************************)
Fairness ==
  /\ WF_vars(Dispatch)
  /\ WF_vars(Prepare)
  /\ WF_vars(SecondPasses)
  /\ WF_vars(\E v \in 1..MaxProcessor : Open(v))
  /\ \A s \in Scopes :
       /\ WF_vars(\E c \in claims : c.work.root = s /\ Work(c))
       /\ SF_vars(\E c \in claims : c.work.root = s /\ Complete(c))
       /\ WF_vars(\E S \in delayed : s \in S /\ Expire(S))

Spec == Init /\ [][Next]_vars
FairSpec == Spec /\ Fairness

-----------------------------------------------------------------------------
TypeOK ==
  /\ StoreType
  /\ dispatcher \in DispatcherStates
  /\ claims \subseteq [work : Works, phase : Phases]
  /\ failedLoad \subseteq Works
  /\ delayed \subseteq SUBSET Scopes

\* The scopes a scope is connected to by dependencies, in either direction.
Component(s) == Reach({s}, deps \cup Reversed(deps))

\* Metadata a running process reads is always acceptable to it: no sequence of
\* activations, reprocessing, upgrades and crashes makes the store refuse itself
\* (ReadMetadataForDataset, validGenerationStates).
StoreStaysReadable == binary > 0 => Readable

\* A scope that is settled in the target generation was interpreted with all the
\* evidence now held for it and for its ancestors: late ancestor evidence, late
\* edges and interrupted generations never leave a terminal scope behind
\* (Accept's descendant invalidation and the publication fence).
SettledSeesAncestors ==
  \A s \in Scopes : Exists(s) /\ ~Pending(s) =>
    EvidenceOf(Ancestors(s, deps)) \subseteq facts[target][s]

\* What is published was interpreted from exactly the evidence its component holds
\* at that moment, however its parts were merged, raced and retried since it was
\* loaded: equal revisions are enough for the fence (PublishProjection).
PublishesCurrent ==
  [][\A g \in Generations, s \in Scopes : facts'[g][s] # facts[g][s] =>
       facts'[g][s] = EvidenceOf(Component(s))]_vars

\* When nothing of a component is pending, all its scopes were interpreted from
\* exactly the component's evidence: none was settled by a claim that saw only a
\* part of it (connectedScopesSQL, Accept's invalidation).
SettledComponentExact ==
  \A s \in Scopes :
    (Exists(s) /\ \A t \in Component(s) : ~Pending(t)) =>
      facts[target][s] = EvidenceOf(Component(s))

\* Two claims never cover the same scope, also when later edges join their
\* components (LoadWorkExcluding).
ClaimsDisjoint ==
  \A c, d \in claims : c # d => Members(c.work) \cap Members(d.work) = {}

\* A receipt without pending items is the truth: every record of the batch has
\* an outcome in the target generation and its scope's rows were computed from it
\* (responseFor).
ReceiptTellsTruth ==
  \A k \in batches : \A i \in DOMAIN k.batch.entries :
    LET r == k.batch.entries[i] IN
      /\ r \in evidence
      /\ ~ItemPending(r) => r \in facts[target][ScopeOf[r]]
      /\ ~Pending(ScopeOf[r]) => ~ItemPending(r)

\* Rows of a generation are only written by the rules the generation is labelled
\* with: an interrupted generation of older rules is never finished under newer
\* ones (Reprocess, prepareGeneration).
RulesMatchLabel ==
  [][\A g \in Generations : facts'[g] # facts[g] => genProc[g] = binary]_vars

\* A failure delays a scope only if the failed attempt was made on all the evidence
\* held for the scope and its ancestors: what arrived meanwhile is tried at once
\* (RecordFailure).
BackoffOnlyForReadInput ==
  [][\A s \in Scopes : retry'[s] > retry[s] =>
       \E w \in {c.work : c \in claims} \cup failedLoad :
         EvidenceOf(Ancestors(s, deps)) \subseteq w.records]_vars

\* Every scope whose component holds no unpublishable record is settled in the
\* end, whatever fails, races or crashes around it, and however often another
\* component fails.
HealthyScopesSettle ==
  \A s \in Scopes :
    Pending(s) ~> (~Pending(s) \/ EvidenceOf(Component(s)) \cap Poison # {})

-----------------------------------------------------------------------------
\* What viewers see of this system.
History == INSTANCE TokenHistory WITH visible <- Visible

\* The engine and its store keep the promise made to viewers, step by step and
\* in the end: reprocessing, upgrades, crashes and races never take visible
\* history away, and everything accepted is shown.
DeliversHistory == History!Spec
=============================================================================
