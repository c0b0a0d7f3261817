----------------------------- MODULE TokenStore -----------------------------
(***************************************************************************)
(* The Token database of one dataset (src/packages/core/datastore): the    *)
(* durable tables and one operator per transaction that changes them.      *)
(*                                                                         *)
(* Every record belongs to one processing scope and may name parent        *)
(* scopes; both are functions of its content, so they are constants here.  *)
(* A scope row exists when its revision is positive.  What the processor   *)
(* computes from evidence is abstracted to the evidence it computed from:  *)
(* facts[g][s] is the set of records behind the rows of scope s in         *)
(* generation g.                                                           *)
(***************************************************************************)
EXTENDS Integers, FiniteSets

CONSTANTS
  Scopes,          \* processing scopes: one per native session or source lineage
  Records,         \* whitelisted evidence records, by evidence id
  ScopeOf,         \* the scope a record belongs to
  ParentsOf,       \* the scopes a record names as its parents
  Batches,         \* requests a collector may send: [stream, id, from, entries]
  MaxInput,        \* publication.SafeInteger, as the limit of input_revision
  MaxRevision,     \* publication.SafeInteger, as the limit of revision
  MaxGeneration,   \* publication.SafeInteger, as the limit of target_generation
  MaxProcessor,    \* newest processor_version any binary carries
  MaxBackoff       \* maxBackoffExponent

ASSUME StoreAssumption ==
  /\ IsFiniteSet(Scopes)
  /\ ScopeOf \in [Records -> Scopes]
  /\ ParentsOf \in [Records -> SUBSET Scopes]
  /\ MaxInput \in Nat
  /\ MaxRevision \in Nat
  /\ MaxGeneration \in Nat \ {0}
  /\ MaxGeneration <= MaxRevision
  /\ MaxProcessor \in Nat \ {0}
  /\ MaxBackoff \in Nat
  /\ \A n \in 0..MaxBackoff : 2 ^ n \in Nat \ {0}
  /\ \A b \in Batches : \A i \in DOMAIN b.entries : b.entries[i] \in Records

VARIABLES
  evidence,     \* raw_evidence: the accepted records
  deps,         \* processing_dependencies: <<child, parent>>
  batches,      \* ingestion_batches: [batch, revision], the immutable receipts
  rev,          \* processing_scopes.revision, 0 when the scope has no row
  processed,    \* processing_scopes.processed_revision
  scopeGen,     \* processing_scopes.generation
  attempts,     \* processing_scopes.attempts, saturating at MaxBackoff
  retry,        \* seconds until processing_scopes.retry_at_ms
  facts,        \* analytics_facts and analytics_estimates, by generation and scope
  outcomes,     \* processing_outcomes: the records with an outcome, by generation
  genState,     \* analytics_generations.state, "none" when there is no row
  genProc,      \* analytics_generations.processor_version
  generation,   \* ingestion_metadata.generation, the one readers see
  target,       \* ingestion_metadata.target_generation
  input,        \* ingestion_metadata.input_revision
  revision,     \* ingestion_metadata.revision, what viewers poll
  binary        \* evidence.ProcessorVersion of the process that has the store
                \* open, 0 while none has

inputVars  == <<evidence, deps, batches, input>>
scopeVars  == <<rev, processed, scopeGen, attempts, retry>>
outputVars == <<facts, outcomes, revision>>
genVars    == <<genState, genProc, generation, target>>
storeVars  == <<inputVars, scopeVars, outputVars, genVars, binary>>

Generations == 1..MaxGeneration
GenStates   == {"none", "building", "active", "retained"}

\* A loaded component, with the generation and the revisions it was loaded at.
Works == [root : Scopes, gen : Generations, input : 0..MaxInput,
          seen : [Scopes -> 0..MaxInput], records : SUBSET Records]

StoreType ==
  /\ evidence \subseteq Records
  /\ deps \subseteq Scopes \X Scopes
  /\ batches \subseteq [batch : Batches, revision : 0..MaxInput]
  /\ input \in 0..MaxInput
  /\ rev \in [Scopes -> 0..MaxInput]
  /\ processed \in [Scopes -> 0..MaxInput]
  /\ scopeGen \in [Scopes -> 0..MaxGeneration]
  /\ attempts \in [Scopes -> 0..MaxBackoff]
  /\ retry \in [Scopes -> Nat]
  /\ facts \in [Generations -> [Scopes -> SUBSET Records]]
  /\ outcomes \in [Generations -> SUBSET Records]
  /\ genState \in [Generations -> GenStates]
  /\ genProc \in [Generations -> 0..MaxProcessor]
  /\ generation \in Generations /\ target \in Generations
  /\ revision \in Nat
  /\ binary \in 0..MaxProcessor

-----------------------------------------------------------------------------
(* Closures of the dependency graph. *)

Closed(S, E) == \A e \in E : e[1] \in S => e[2] \in S

\* The nodes reachable from a set of scopes along the edges E.
Reach(A, E) ==
  {t \in Scopes : \A S \in SUBSET Scopes : A \subseteq S /\ Closed(S, E) => t \in S}

Reversed(E) == {<<e[2], e[1]>> : e \in E}

\* Mutant: from child to parent only.
UpwardLinked(s, D) == Reach({s}, D)

\* connectedScopesSQL walks edges both ways, through parents that have no row.
Linked(s, D) == Reach({s}, D \cup Reversed(D))

\* A scope and everything its interpretation may read.
Ancestors(s, D) == Reach({s}, D)

\* Mutant: only the scopes of the new evidence itself.
NoDescendants(A, D) == A

\* Scopes whose interpretation may read one of the scopes in A.
Descendants(A, D) == Reach(A, Reversed(D))

EvidenceOf(S) == {r \in evidence : ScopeOf[r] \in S}

-----------------------------------------------------------------------------
(* Reading the store. *)

Exists(s)  == rev[s] > 0

\* A scope that still needs the processor: the predicate of candidatePage.
Pending(s) == Exists(s) /\ (processed[s] # rev[s] \/ scopeGen[s] # target)

\* The rows of a root's component with their revisions: Work.Scopes, 0 outside.
SeenNow(root) == [s \in Scopes |-> IF s \in Linked(root, deps) THEN rev[s] ELSE 0]

Items(b) == {<<b.stream, b.from + i - 1, b.entries[i]>> : i \in DOMAIN b.entries}

\* Mutant: a receipt that looks at the scope's revision only.
ItemBehind(r) == processed[ScopeOf[r]] # rev[ScopeOf[r]]

\* responseFor reports an item pending until its scope is settled in the
\* target generation and an outcome of that generation exists.
ItemPending(r) ==
  \/ processed[ScopeOf[r]] # rev[ScopeOf[r]]
  \/ scopeGen[ScopeOf[r]] # target
  \/ r \notin outcomes[target]

\* ReadMetadataForDataset accepts the stored metadata.  Every transaction reads
\* it first, so a store that once fails this check refuses all work from then on.
\* A binary older than any stored generation is refused too.
ReadableBy(v) ==
  /\ target >= generation
  /\ revision <= MaxRevision
  /\ \A g \in Generations : (genState[g] = "active") <=> (g = generation)
  /\ genState[target] = IF target > generation THEN "building" ELSE "active"
  /\ \A g \in Generations : genProc[g] <= v

Readable == ReadableBy(binary)

\* What viewers read: the rows of the active generation.
Visible == facts[generation]

-----------------------------------------------------------------------------
StoreInit ==
  /\ evidence = {} /\ deps = {} /\ batches = {} /\ input = 0
  /\ rev = [s \in Scopes |-> 0]
  /\ processed = [s \in Scopes |-> 0]
  /\ scopeGen = [s \in Scopes |-> 0]
  /\ attempts = [s \in Scopes |-> 0]
  /\ retry = [s \in Scopes |-> 0]
  /\ facts = [g \in Generations |-> [s \in Scopes |-> {}]]
  /\ outcomes = [g \in Generations |-> {}]
  /\ genState = [g \in Generations |-> IF g = 1 THEN "active" ELSE "none"]
  /\ genProc = [g \in Generations |-> IF g = 1 THEN 1 ELSE 0]
  /\ generation = 1 /\ target = 1 /\ revision = 0
  /\ binary = 1

\* A stored batch with the same key: a replay or a batch_conflict, which both
\* answer without writing.
Known(b) == \E k \in batches : k.batch.stream = b.stream /\ k.batch.id = b.id

\* sequence_conflict: a stored item binds one of the batch's sequences to
\* another record.
SequenceConflict(b) ==
  \E k \in batches : \E x \in Items(k.batch), y \in Items(b) :
    x[1] = y[1] /\ x[2] = y[2] /\ x[3] # y[3]

\* Mutant: no limit.
NeverLimited == FALSE

\* revision_limit: the input revision cannot move further.
InputLimit == input >= MaxInput

\* What a batch adds: its records that are new, the edges they declare, the next
\* revision, and every scope the new evidence invalidates.
Fresh(b)     == {b.entries[i] : i \in DOMAIN b.entries} \ evidence
Touched(b)   == {ScopeOf[r] : r \in Fresh(b)}
NextInput(b) == IF Fresh(b) = {} THEN input ELSE input + 1
NextDeps(b)  == deps \cup UNION {{ScopeOf[r]} \X ParentsOf[r] : r \in Fresh(b)}
Affected(b)  == Descendants(Touched(b), NextDeps(b))

\* The whole acceptance transaction.
Accept(b) ==
  /\ Readable
  /\ ~Known(b)
  /\ ~InputLimit
  /\ ~SequenceConflict(b)
  /\ evidence' = evidence \cup Fresh(b)
  /\ deps' = NextDeps(b)
  /\ batches' = batches \cup {[batch |-> b, revision |-> NextInput(b)]}
  /\ input' = NextInput(b)
  /\ rev' = [s \in Scopes |-> IF s \in Affected(b) THEN NextInput(b) ELSE rev[s]]
  /\ attempts' = [s \in Scopes |-> IF s \in Affected(b) THEN 0 ELSE attempts[s]]
  /\ retry' = [s \in Scopes |-> IF s \in Affected(b) THEN 0 ELSE retry[s]]
  /\ UNCHANGED <<processed, scopeGen, outputVars, genVars, binary>>

\* Mutant: the old generation is not retired.
OnlyActivated(states, g) == [states EXCEPT ![g] = "active"]

\* activateGeneration on top of the states `states`.
Activated(states, g) ==
  [h \in Generations |-> IF h = g THEN "active"
                         ELSE IF states[h] = "active" THEN "retained" ELSE states[h]]

\* Mutant: whatever rules are building.
AnyStaged == target > generation

\* Reprocess answers with the target that is building when its rules are the
\* running binary's; it never finishes a target of other rules.
AlreadyStaged == target > generation /\ genProc[target] = binary

\* The states once a generation is staged: an interrupted target is kept aside.
Staged(next) ==
  [g \in Generations |-> IF g = next THEN "building"
                         ELSE IF g = target /\ target > generation THEN "retained"
                         ELSE genState[g]]

\* Reprocess from the point where it stages a new generation, which becomes active
\* at once when there is nothing to rebuild.
Stage ==
  LET next  == target + 1
      empty == \A s \in Scopes : ~Exists(s)
  IN /\ target < MaxGeneration
     /\ target' = next
     /\ genProc' = [genProc EXCEPT ![next] = binary]
     /\ attempts' = [s \in Scopes |-> 0]
     /\ retry' = [s \in Scopes |-> 0]
     /\ genState' = IF empty THEN Activated(Staged(next), next) ELSE Staged(next)
     /\ generation' = IF empty THEN next ELSE generation
     /\ revision' = IF empty THEN revision + 1 ELSE revision
     /\ UNCHANGED <<inputVars, rev, processed, scopeGen, facts, outcomes, binary>>

Reprocess == Readable /\ IF AlreadyStaged THEN UNCHANGED storeVars ELSE Stage

\* A component as LoadWorkExcluding returns it.
Load(root) ==
  [root |-> root, gen |-> target, input |-> input, seen |-> SeenNow(root),
   records |-> EvidenceOf(Linked(root, deps))]

Members(w) == {s \in Scopes : w.seen[s] > 0}

\* Mutant: the revision of the root alone.
RootFence(w) == target = w.gen /\ rev[w.root] = w.seen[w.root]

\* The publication fence: the generation is still the target, and the component
\* has the same members at the same revisions.
Fence(w) == target = w.gen /\ SeenNow(w.root) = w.seen

\* With the scopes of w settled nothing of its generation is pending.
Completes(w) ==
  \A s \in Scopes : Exists(s) =>
    s \in Members(w) \/ (processed[s] = rev[s] /\ scopeGen[s] = w.gen)

Activates(w) == generation # w.gen /\ Completes(w)

\* What a column of processing_scopes becomes when the members of w are settled.
Settled(w, column, value) ==
  [s \in Scopes |-> IF s \in Members(w) THEN value[s] ELSE column[s]]

Always(value) == [s \in Scopes |-> value]

\* publishRows and the rest of PublishProjection's transaction.
Publish(w) ==
  /\ Readable
  /\ Fence(w)
  /\ revision < MaxRevision
  /\ facts' = [facts EXCEPT ![w.gen] = Settled(w, facts[w.gen], Always(w.records))]
  /\ outcomes' = [outcomes EXCEPT ![w.gen] = outcomes[w.gen] \cup w.records]
  /\ processed' = Settled(w, processed, w.seen)
  /\ scopeGen' = Settled(w, scopeGen, Always(w.gen))
  /\ attempts' = Settled(w, attempts, Always(0))
  /\ retry' = Settled(w, retry, Always(0))
  /\ genState' = IF Activates(w) THEN Activated(genState, w.gen) ELSE genState
  /\ generation' = IF Activates(w) THEN w.gen ELSE generation
  /\ revision' = IF generation = w.gen \/ Activates(w) THEN revision + 1 ELSE revision
  /\ UNCHANGED <<inputVars, rev, genProc, target, binary>>

\* Mutant: without comparing revisions.
FailedAtAnyRevision(w, s) ==
  target = w.gen /\ IF Members(w) = {} THEN s = w.root ELSE s \in Members(w)

\* RecordFailure backs off the scopes the failed work read at the revision they
\* still have; when the load failed before it knew the component, its root.
Failed(w, s) ==
  /\ target = w.gen
  /\ IF Members(w) = {} THEN s = w.root /\ rev[s] <= w.input
                        ELSE s \in Members(w) /\ rev[s] = w.seen[s]

\* The backoff exponent.
Raised(n) == IF n < MaxBackoff THEN n + 1 ELSE n

RecordFailure(w) ==
  /\ retry' = [s \in Scopes |-> IF Failed(w, s) THEN 2 ^ attempts[w.root] ELSE retry[s]]
  /\ attempts' = [s \in Scopes |-> IF Failed(w, s) THEN Raised(attempts[s]) ELSE attempts[s]]
  /\ UNCHANGED <<inputVars, rev, processed, scopeGen, outputVars, genVars, binary>>

\* A second of wall clock: retry_at_ms comes closer for every scope.
Elapse ==
  /\ \E s \in Scopes : retry[s] > 0
  /\ retry' = [s \in Scopes |-> IF retry[s] > 0 THEN retry[s] - 1 ELSE 0]
  /\ UNCHANGED <<inputVars, rev, processed, scopeGen, attempts, outputVars, genVars, binary>>

=============================================================================
