------------------------ MODULE EnginePromises_proofs ------------------------
(***************************************************************************)
(* What the data engine promises the claims, collectors, rules and viewers *)
(* it serves, for every set of scopes, records and batches; on top of its  *)
(* groundwork.                                                             *)
(***************************************************************************)
EXTENDS DataEngine_proofs

-----------------------------------------------------------------------------
(* Claims. *)

\* A step selects a component, moves one claim to its next phase, or only lets
\* claims go.
LEMMA ClaimEffects ==
  ASSUME TypeOK, [Next]_vars
  PROVE  \/ \E s \in Scopes : Select(s)
         \/ \E c \in claims, phase \in Phases : Advance(c, phase)
         \/ claims' \subseteq claims
<1> DEFINE Moves == \E c \in claims, phase \in Phases : Advance(c, phase)
           Drops == claims' \subseteq claims
<1>1. ASSUME NEW c \in claims, Work(c) PROVE Moves
  BY <1>1 DEF Work, WorkerPublishes, WorkerFenced, WorkerFails, WorkerRecordsFailure,
              WorkerLosesFailure, Phases
<1>2. ASSUME NEW c \in claims, Complete(c) PROVE Drops
  BY <1>2 DEF Complete
<1>3. ASSUME NEW s \in Scopes, LoadFails(s) PROVE Drops
  BY <1>3 DEF LoadFails
<1>4. CASE Park \/ SelectionFails \/ RecordLoadFailure \/ Rouse
  BY <1>4 DEF Park, SelectionFails, RecordLoadFailure, Rouse
<1>5. ASSUME NEW S \in delayed, Expire(S) PROVE Drops
  BY <1>5 DEF Expire
<1>6. ASSUME NEW b \in Batches, CollectorSends(b) PROVE Drops
  BY <1>6 DEF CollectorSends
<1>7. CASE UserReprocesses \/ SecondPasses \/ Crash \/ Prepare
  BY <1>7 DEF UserReprocesses, SecondPasses, Crash, Prepare, engineVars
<1>8. ASSUME NEW v \in 1..MaxProcessor, Open(v) PROVE Drops
  BY <1>8 DEF Open
<1>9. CASE UNCHANGED vars
  BY <1>9 DEF vars, engineVars
<1> QED
  BY <1>1, <1>2, <1>3, <1>4, <1>5, <1>6, <1>7, <1>8, <1>9 DEF Next

\* A component is only claimed while no scope of it that exists is in another claim;
\* a claim keeps its members for life.
LEMMA DisjointNext ==
  ASSUME TypeOK, ClaimsDisjoint, [Next]_vars
  PROVE  ClaimsDisjoint'
<1>1. ASSUME NEW s \in Scopes, Select(s) PROVE ClaimsDisjoint'
  <2> DEFINE new == [work |-> Load(s), phase |-> "running"]
  <2>1. claims' = claims \cup {new}
    BY <1>1 DEF Select
  <2>2. \A t \in Members(new.work) : t \in Linked(s, deps) /\ Exists(t)
    BY DEF Members, Load, SeenNow, Exists
  <2>3. \A t \in Linked(s, deps) : Exists(t) => t \notin Excluded
    BY <1>1 DEF Select, First, Eligible
  <2>4. \A c \in claims : Members(c.work) \cap Members(new.work) = {}
    BY <2>2, <2>3 DEF Excluded
  <2> HIDE DEF new
  <2> QED BY <2>1, <2>4 DEF ClaimsDisjoint, Members
<1>2. ASSUME NEW c \in claims, NEW phase \in Phases, Advance(c, phase)
      PROVE  ClaimsDisjoint'
  <2> DEFINE moved == [c EXCEPT !.phase = phase]
  <2>1. claims' = (claims \ {c}) \cup {moved} /\ moved.work = c.work
    BY <1>2 DEF Advance, TypeOK
  <2>2. \A d \in claims \ {c} : Members(d.work) \cap Members(moved.work) = {}
    BY <2>1 DEF ClaimsDisjoint
  <2> HIDE DEF moved
  <2> QED BY <2>1, <2>2 DEF ClaimsDisjoint, Members
<1>3. CASE claims' \subseteq claims
  BY <1>3 DEF ClaimsDisjoint, Members
<1> QED BY <1>1, <1>2, <1>3, ClaimEffects

\* Two workers never hold the same scope, also when edges that arrive meanwhile join
\* what they hold.
THEOREM ClaimsApart == Spec => []ClaimsDisjoint
<1>1. Init => ClaimsDisjoint
  BY DEF Init, ClaimsDisjoint
<1>2. Groundwork /\ ClaimsDisjoint /\ [Next]_vars => ClaimsDisjoint'
  BY DisjointNext DEF Groundwork
<1> QED BY <1>1, <1>2, GroundworkHolds, PTL DEF Spec

-----------------------------------------------------------------------------
(* Receipts. *)

\* What a receipt relies on: the records of a batch are kept, and every record of a
\* settled scope has its outcome.
Accounted ==
  /\ \A k \in batches : \A i \in DOMAIN k.batch.entries : k.batch.entries[i] \in evidence
  /\ \A s \in Scopes : Exists(s) /\ ~Pending(s) => EvidenceOf({s}) \subseteq outcomes[target]

\* Accepting a batch stores its records and leaves settled scopes with their outcomes.
LEMMA AcceptAccounted ==
  ASSUME StoreType, Bookkeeping, Accounted, NEW b \in Batches, Accept(b)
  PROVE  Accounted'
<1>1. /\ Affected(b) \subseteq Scopes
      /\ \A s \in Affected(b) : rev'[s] = input + 1
      /\ \A s \in Scopes \ Affected(b) : rev'[s] = rev[s]
      /\ \A S \in SUBSET (Scopes \ Affected(b)) : EvidenceOf(S)' = EvidenceOf(S)
  BY AcceptMoves
<1>2. /\ processed' = processed /\ scopeGen' = scopeGen /\ target' = target
      /\ outcomes' = outcomes
  BY DEF Accept, outputVars, genVars
<1>3. ASSUME NEW k \in batches', NEW i \in DOMAIN k.batch.entries
      PROVE  k.batch.entries[i] \in evidence'
  <2>1. CASE k \in batches
    BY <2>1 DEF Accept, Accounted
  <2>2. CASE k = [batch |-> b, revision |-> NextInput(b)]
    BY <2>2 DEF Accept, Fresh
  <2> QED BY <2>1, <2>2 DEF Accept
<1>4. ASSUME NEW s \in Scopes, Exists(s)', ~Pending(s)'
      PROVE  EvidenceOf({s})' \subseteq outcomes'[target']
  <2>1. s \notin Affected(b)
    BY <1>1, <1>2, <1>4 DEF Bookkeeping, StoreType, Pending, Exists
  <2>2. Exists(s) /\ ~Pending(s)
    BY <1>1, <1>2, <1>4, <2>1 DEF Pending, Exists
  <2>3. EvidenceOf({s})' = EvidenceOf({s})
    BY <1>1, <2>1
  <2> QED BY <1>2, <2>2, <2>3 DEF Accounted
<1> QED BY <1>3, <1>4 DEF Accounted

\* A publication settles a scope with an outcome for each of its records.
LEMMA PublishAccounted ==
  ASSUME StoreType, Bookkeeping, Accounted, NEW w \in Works, Honest(w), Publish(w)
  PROVE  Accounted'
<1>1. w.records = EvidenceOf(Linked(w.root, deps)) /\ Members(w) \subseteq Linked(w.root, deps)
  BY FencedRecords DEF Publish
<1>2. /\ evidence' = evidence /\ batches' = batches /\ rev' = rev /\ target' = target
      /\ target = w.gen /\ target \in Generations
  BY DEF Publish, Fence, inputVars, StoreType
<1>3. outcomes'[target] = outcomes[target] \cup w.records
  BY <1>2 DEF Publish, StoreType
<1>4. \A s \in Scopes \ Members(w) : processed'[s] = processed[s] /\ scopeGen'[s] = scopeGen[s]
  BY DEF Publish, Settled
<1>5. ASSUME NEW s \in Scopes, Exists(s)', ~Pending(s)'
      PROVE  EvidenceOf({s}) \subseteq outcomes'[target]
  <2>1. CASE s \in Members(w)
    BY <1>1, <1>3, <2>1 DEF EvidenceOf
  <2>2. CASE s \notin Members(w)
    BY <1>2, <1>3, <1>4, <1>5, <2>2 DEF Pending, Exists, Accounted
  <2> QED BY <2>1, <2>2
<1> QED BY <1>2, <1>5 DEF Accounted, EvidenceOf

\* Receipts stay accounted for, whatever step is taken.
LEMMA AccountedNext ==
  ASSUME Groundwork, Accounted, [Next]_vars
  PROVE  Accounted'
<1> USE DEF Groundwork, TypeOK
<1>1. ASSUME NEW b \in Batches, Accept(b) PROVE Accounted'
  BY <1>1, AcceptAccounted
<1>2. ASSUME NEW w \in InProgress, Publish(w) PROVE Accounted'
  <2>1. w \in Works /\ Honest(w)
    BY DEF InProgress, ClaimsHonest
  <2> QED BY <1>2, <2>1, PublishAccounted
<1>3. CASE Stage
  <2>1. /\ target' = target + 1 /\ rev' = rev /\ scopeGen' = scopeGen
        /\ evidence' = evidence /\ batches' = batches
    BY <1>3 DEF Stage, inputVars
  <2>2. \A s \in Scopes : Exists(s)' => Pending(s)'
    BY <2>1 DEF Bookkeeping, StoreType, Pending, Exists, Generations
  <2> QED BY <2>1, <2>2 DEF Accounted
<1>4. CASE Quiet
  BY <1>4 DEF Quiet, inputVars, outputVars, genVars, Accounted, EvidenceOf, Exists, Pending
<1> QED BY <1>1, <1>2, <1>3, <1>4, StepEffects DEF StepEffect

\* A receipt reports an item pending exactly until its scope is settled, and what it
\* reports done is in the rows of the generation that is being built.
THEOREM ReceiptsTrue == Spec => []ReceiptTellsTruth
<1>1. Init => Accounted
  BY DEF Init, StoreInit, Accounted, Exists
<1>2. Groundwork /\ Accounted /\ [Next]_vars => Accounted'
  BY AccountedNext
<1>3. ASSUME Groundwork, Settledness, Accounted PROVE ReceiptTellsTruth
  <2> USE DEF Groundwork, TypeOK
  <2>1. SUFFICES ASSUME NEW k \in batches, NEW i \in DOMAIN k.batch.entries,
                        NEW r, r = k.batch.entries[i]
                 PROVE  /\ r \in evidence
                        /\ ~ItemPending(r) => r \in facts[target][ScopeOf[r]]
                        /\ ~Pending(ScopeOf[r]) => ~ItemPending(r)
    BY DEF ReceiptTellsTruth
  <2> DEFINE s == ScopeOf[r]
  <2>2. r \in evidence
    BY <1>3, <2>1 DEF Accounted
  <2>3. s \in Scopes /\ Exists(s) /\ r \in EvidenceOf({s})
    BY <1>3, <2>2, StoreAssumption DEF StoreType, Bookkeeping, EvidenceOf
  <2>4. s \in Ancestors(s, deps)
    BY <1>3, <2>3, ReachCloses DEF Ancestors, StoreType
  <2>5. r \in EvidenceOf(Ancestors(s, deps))
    BY <2>2, <2>4 DEF EvidenceOf
  <2>6. ~Pending(s) => r \in outcomes[target] /\ r \in facts[target][s]
    BY <1>3, <2>3, <2>5 DEF Accounted, Settledness, SettledSeesAncestors
  <2>7. ~ItemPending(r) <=> ~Pending(s) /\ r \in outcomes[target]
    BY <2>3 DEF ItemPending, Pending
  <2> QED BY <2>2, <2>6, <2>7
<1> QED BY <1>1, <1>2, <1>3, GroundworkHolds, SettledHolds, PTL DEF Spec

-----------------------------------------------------------------------------
(* Rules. *)

\* Before the dispatcher runs there is nothing to publish; while it runs, the target
\* is labelled with the rules of the binary that publishes.
OwnRules ==
  /\ ~Running => claims = {}
  /\ Running => genProc[target] = binary

\* A generation that is staged is labelled with the running rules.
LEMMA StagedLabel ==
  ASSUME StoreType, Reprocess
  PROVE  /\ genProc'[target'] = binary' \/ ~AlreadyStaged
         /\ ~AlreadyStaged => genProc'[target'] = binary'
<1>1. CASE AlreadyStaged
  BY <1>1 DEF Reprocess, AlreadyStaged, storeVars, genVars
<1>2. CASE ~AlreadyStaged
  <2>1. Stage
    BY <1>2 DEF Reprocess
  <2>2. target + 1 \in Generations
    BY <2>1, StoreAssumption DEF Stage, Generations, StoreType
  <2> QED BY <2>1, <2>2 DEF Stage, StoreType
<1> QED BY <1>1, <1>2

\* A step that starts a binary, or activates rules, labels the target with the rules that run.
LEMMA OwnRulesNext ==
  ASSUME TypeOK, OwnRules, [Next]_vars
  PROVE  OwnRules'
<1> USE DEF TypeOK, Running
<1>1. ASSUME NEW s \in Scopes, Select(s) \/ LoadFails(s) PROVE OwnRules'
  BY <1>1 DEF Select, LoadFails, storeVars, genVars, OwnRules
<1>2. CASE Park \/ SelectionFails \/ RecordLoadFailure \/ Rouse
  BY <1>2 DEF Park, SelectionFails, RecordLoadFailure, RecordFailure, Rouse,
              storeVars, genVars, OwnRules
<1>3. ASSUME NEW c \in claims, Work(c) PROVE OwnRules'
  <2>1. Running /\ dispatcher' = dispatcher
    BY <1>3 DEF OwnRules, Work, WorkerPublishes, WorkerFenced, WorkerFails,
                WorkerRecordsFailure, WorkerLosesFailure
  <2>2. genProc' = genProc /\ target' = target /\ binary' = binary
    BY <1>3 DEF Work, WorkerPublishes, Publish, WorkerFenced, WorkerFails,
                WorkerRecordsFailure, RecordFailure, WorkerLosesFailure, storeVars, genVars
  <2> QED BY <2>1, <2>2 DEF OwnRules
<1>4. ASSUME NEW c \in claims, Complete(c) PROVE OwnRules'
  BY <1>4 DEF Complete, storeVars, genVars, OwnRules
<1>5. ASSUME NEW S \in delayed, Expire(S) PROVE OwnRules'
  BY <1>5 DEF Expire, storeVars, genVars, OwnRules
<1>6. ASSUME NEW b \in Batches, CollectorSends(b) PROVE OwnRules'
  BY <1>6 DEF CollectorSends, Accept, genVars, OwnRules
<1>7. CASE UserReprocesses
  <2>1. genProc'[target'] = binary'
    <3>1. CASE AlreadyStaged
      BY <1>7, <3>1 DEF UserReprocesses, Reprocess, storeVars, genVars, OwnRules
    <3> QED BY <1>7, <3>1, StagedLabel DEF UserReprocesses
  <2> QED BY <1>7, <2>1 DEF UserReprocesses, OwnRules
<1>8. CASE SecondPasses
  BY <1>8 DEF SecondPasses, Elapse, engineVars, genVars, OwnRules
<1>9. CASE Crash
  BY <1>9 DEF Crash, OwnRules
<1>10. CASE Prepare
  <2>1. genProc'[target'] = binary'
    <3>1. CASE genProc[target] = binary
      BY <1>10, <3>1 DEF Prepare, storeVars, genVars
    <3>2. CASE genProc[target] # binary
      BY <1>10, <3>2, StagedLabel DEF Prepare, AlreadyStaged
    <3> QED BY <3>1, <3>2
  <2> QED BY <1>10, <2>1 DEF Prepare, OwnRules
<1>11. ASSUME NEW v \in 1..MaxProcessor, Open(v) PROVE OwnRules'
  BY <1>11 DEF Open, OwnRules
<1>12. CASE UNCHANGED vars
  BY <1>12 DEF vars, engineVars, storeVars, genVars, OwnRules
<1> QED
  BY <1>1, <1>2, <1>3, <1>4, <1>5, <1>6, <1>7, <1>8, <1>9, <1>10, <1>11, <1>12 DEF Next

\* What is published is published under the label of the running binary's rules.
LEMMA OwnRulesHold == Spec => []OwnRules
<1>1. Init => OwnRules
  BY StoreAssumption DEF Init, StoreInit, OwnRules, Running, Generations
<1>2. Groundwork /\ OwnRules /\ [Next]_vars => OwnRules'
  BY OwnRulesNext DEF Groundwork
<1> QED BY <1>1, <1>2, GroundworkHolds, PTL DEF Spec

\* Rows are written only into the generation of the rules that computed them, also
\* after an upgrade or a downgrade in the middle of a rebuild.
THEOREM LabelsKept == Spec => RulesMatchLabel
<1> DEFINE Labelled == \A g \in Generations : facts'[g] # facts[g] => genProc[g] = binary
<1>1. ASSUME Groundwork, OwnRules, [Next]_vars PROVE Labelled
  <2> USE DEF Groundwork, TypeOK
  <2>1. ASSUME NEW w \in InProgress, Publish(w) PROVE Labelled
    <3>1. w.gen = target
      BY <2>1 DEF Publish, Fence
    <3>2. \A g \in Generations : g # target => facts'[g] = facts[g]
      BY <1>1, <2>1, <3>1 DEF Publish, StoreType
    <3>3. genProc[target] = binary
      BY <1>1, <2>1 DEF OwnRules, InProgress
    <3> QED BY <3>2, <3>3
  <2>2. CASE facts' = facts
    BY <2>2
  <2>3. \/ \E w \in InProgress : Publish(w)
        \/ facts' = facts
    BY <1>1, StepEffects DEF StepEffect, Accept, Stage, Quiet, outputVars
  <2> QED BY <2>1, <2>2, <2>3
<1>2. Spec => [][Labelled]_vars
  BY <1>1, GroundworkHolds, OwnRulesHold, PTL DEF Spec
<1> QED BY <1>2 DEF RulesMatchLabel

-----------------------------------------------------------------------------
(* Backoff. *)

\* The works whose failure may still be recorded.
Held == InProgress \cup failedLoad

\* A work read everything held for a scope and its ancestors, as long as the scope has
\* the revision it was read at; what is accepted later moves that revision.
ReadAncestors(w) ==
  /\ Exists(w.root)
  /\ w.input <= input
  /\ \A s \in Scopes : w.seen[s] <= input
  /\ \A s \in Scopes : Exists(s) /\ (w.seen[s] = rev[s] \/ (s = w.root /\ rev[s] <= w.input)) =>
       EvidenceOf(Ancestors(s, deps)) \subseteq w.records

HeldRead == \A w \in Held : ReadAncestors(w)

\* A step accepts a batch, or adds no evidence and holds nothing new but what it loads
\* now.
LEMMA HeldEffects ==
  ASSUME TypeOK, [Next]_vars
  PROVE  \/ \E b \in Batches : Accept(b) /\ Held' = Held
         \/ /\ UNCHANGED <<evidence, deps, rev, input>>
            /\ \A w \in Held' :
                 \/ w \in Held
                 \/ \E s \in Scopes :
                      /\ Exists(s)
                      /\ w = Load(s) \/ w = [Load(s) EXCEPT !.seen = [t \in Scopes |-> 0]]
<1> DEFINE Loaded(w) ==
             \E s \in Scopes :
               /\ Exists(s)
               /\ w = Load(s) \/ w = [Load(s) EXCEPT !.seen = [t \in Scopes |-> 0]]
           Same == UNCHANGED <<evidence, deps, rev, input>>
           Fewer == Held' \subseteq Held
<1>1. ASSUME NEW s \in Scopes, Select(s) PROVE Same /\ \A w \in Held' : w \in Held \/ Loaded(w)
  BY <1>1 DEF Select, First, Eligible, Candidate, Pending, Held, InProgress, storeVars,
              inputVars, scopeVars
<1>2. ASSUME NEW s \in Scopes, LoadFails(s)
      PROVE  Same /\ \A w \in Held' : w \in Held \/ Loaded(w)
  BY <1>2 DEF LoadFails, First, Eligible, Candidate, Pending, Held, InProgress, storeVars,
              inputVars, scopeVars
<1>3. CASE Park \/ SelectionFails \/ RecordLoadFailure \/ Rouse
  BY <1>3 DEF Park, SelectionFails, RecordLoadFailure, RecordFailure, Rouse, Held,
              InProgress, storeVars, inputVars, scopeVars
<1>4. ASSUME NEW c \in claims, Work(c) PROVE Same /\ Fewer
  <2>1. failedLoad' = failedLoad /\ \E phase : Advance(c, phase)
    BY <1>4 DEF Work, WorkerPublishes, WorkerFenced, WorkerFails, WorkerRecordsFailure,
                WorkerLosesFailure
  <2>2. Same
    BY <1>4 DEF Work, WorkerPublishes, Publish, WorkerFenced, WorkerFails,
                WorkerRecordsFailure, RecordFailure, WorkerLosesFailure, storeVars,
                inputVars, scopeVars
  <2> QED BY <2>1, <2>2 DEF Advance, Held, InProgress, TypeOK
<1>5. ASSUME NEW c \in claims, Complete(c) PROVE Same /\ Fewer
  BY <1>5 DEF Complete, Held, InProgress, storeVars, inputVars, scopeVars
<1>6. ASSUME NEW S \in delayed, Expire(S) PROVE Same /\ Fewer
  BY <1>6 DEF Expire, Held, InProgress, storeVars, inputVars, scopeVars
<1>7. ASSUME NEW b \in Batches, CollectorSends(b) PROVE Accept(b) /\ Held' = Held
  BY <1>7 DEF CollectorSends, Held, InProgress
<1>8. CASE UserReprocesses \/ Prepare
  BY <1>8 DEF UserReprocesses, Prepare, Reprocess, Stage, Held, InProgress, storeVars,
              inputVars, scopeVars
<1>9. CASE SecondPasses \/ Crash
  BY <1>9 DEF SecondPasses, Elapse, Crash, Held, InProgress, engineVars, inputVars, scopeVars
<1>10. ASSUME NEW v \in 1..MaxProcessor, Open(v) PROVE Same /\ Fewer
  BY <1>10 DEF Open, Held, InProgress, inputVars, scopeVars
<1>11. CASE UNCHANGED vars
  BY <1>11 DEF vars, Held, InProgress, engineVars, storeVars, inputVars, scopeVars
<1> QED
  BY <1>1, <1>2, <1>3, <1>4, <1>5, <1>6, <1>7, <1>8, <1>9, <1>10, <1>11 DEF Next

\* Work that was just loaded read all evidence of the scope's ancestors.
LEMMA LoadReads ==
  ASSUME StoreType, Bookkeeping, NEW s \in Scopes, Exists(s)
  PROVE  /\ ReadAncestors(Load(s))
         /\ ReadAncestors([Load(s) EXCEPT !.seen = [t \in Scopes |-> 0]])
<1> DEFINE L == Linked(s, deps)
           unread == [t \in Scopes |-> 0]
<1>1. s \in L /\ L \subseteq Scopes
  BY LinkedHolds DEF StoreType
<1>2. ASSUME NEW t \in L PROVE EvidenceOf(Ancestors(t, deps)) \subseteq EvidenceOf(L)
  <2>1. t \in Scopes /\ Linked(t, deps) = L
    BY LinkedSymmetric DEF StoreType
  <2>2. Ancestors(t, deps) \subseteq L
    BY <2>1, AncestorsLinked DEF StoreType
  <2> QED BY <2>2 DEF EvidenceOf
<1>3. \A t \in Scopes : SeenNow(s)[t] = IF t \in L THEN rev[t] ELSE 0
  BY DEF SeenNow
<1>4. \A t \in Scopes : rev[t] <= input /\ rev[t] \in Nat /\ input \in Nat
  BY DEF StoreType, Bookkeeping
<1> HIDE DEF L
<1>5. /\ Load(s).root = s /\ Load(s).input = input /\ Load(s).seen = SeenNow(s)
      /\ Load(s).records = EvidenceOf(L)
  BY DEF Load, L
<1>6. LET w == [Load(s) EXCEPT !.seen = unread]
      IN  w.root = s /\ w.input = input /\ w.seen = unread /\ w.records = EvidenceOf(L)
  BY DEF Load, L
<1>7. ReadAncestors(Load(s))
  BY <1>1, <1>2, <1>3, <1>4, <1>5 DEF ReadAncestors, Exists
<1>8. ReadAncestors([Load(s) EXCEPT !.seen = unread])
  <2> DEFINE w == [Load(s) EXCEPT !.seen = unread]
  <2>1. w.root = s /\ w.input = input /\ w.seen = unread /\ w.records = EvidenceOf(L)
    BY <1>6
  <2> HIDE DEF w
  <2>2. ReadAncestors(w)
    BY <1>1, <1>2, <1>4, <2>1 DEF ReadAncestors, Exists
  <2> QED BY <2>2 DEF w
<1> QED BY <1>7, <1>8

\* What a worker holds read all evidence of its ancestors, unless a revision moved since.
LEMMA HeldReadNext ==
  ASSUME Groundwork, HeldRead, [Next]_vars
  PROVE  HeldRead'
<1> USE DEF Groundwork, TypeOK
<1>1. ASSUME NEW b \in Batches, Accept(b), NEW w \in Held PROVE ReadAncestors(w)'
  <2>1. /\ Affected(b) \subseteq Scopes
        /\ input <= input' /\ input' \in Nat
        /\ \A s \in Affected(b) : rev'[s] = input + 1
        /\ \A s \in Scopes \ Affected(b) : rev'[s] = rev[s]
        /\ \A S \in SUBSET (Scopes \ Affected(b)) : EvidenceOf(S)' = EvidenceOf(S)
    BY <1>1, AcceptMoves
  <2>2. w \in Works /\ w.root \in Scopes /\ ReadAncestors(w)
    BY DEF HeldRead, Held, InProgress, Works
  <2>3. /\ w.input <= input /\ w.input \in Nat /\ input \in Nat
        /\ \A s \in Scopes : w.seen[s] <= input /\ w.seen[s] \in Nat
    BY <2>2 DEF ReadAncestors, Works, StoreType
  <2>4. ASSUME NEW s \in Scopes, rev'[s] > 0,
               w.seen[s] = rev'[s] \/ (s = w.root /\ rev'[s] <= w.input)
        PROVE  EvidenceOf(Ancestors(s, deps))' \subseteq w.records
    <3>1. s \notin Affected(b)
      BY <2>1, <2>3, <2>4
    <3>2. EvidenceOf(Ancestors(s, deps)) \subseteq w.records
      BY <2>1, <2>2, <2>4, <3>1 DEF ReadAncestors, Exists
    <3>3. Ancestors(s, deps') \subseteq Ancestors(s, deps) \ Affected(b)
      BY <1>1, <3>1, UnaffectedAncestors DEF Accept
    <3>4. Ancestors(s, deps) \subseteq Scopes
      BY ReachCloses DEF Ancestors, StoreType
    <3>5. EvidenceOf(Ancestors(s, deps))' = EvidenceOf(Ancestors(s, deps'))
      <4>1. Ancestors(s, deps') \in SUBSET (Scopes \ Affected(b))
        BY <3>3, <3>4
      <4> QED BY <2>1, <4>1 DEF EvidenceOf
    <3> QED BY <3>2, <3>3, <3>5 DEF EvidenceOf
  <2>5. w.input <= input' /\ \A s \in Scopes : w.seen[s] <= input'
    BY <2>1, <2>3
  <2>6. rev'[w.root] > 0
    BY <2>1, <2>2, <2>3 DEF ReadAncestors, Exists
  <2> QED BY <2>4, <2>5, <2>6 DEF ReadAncestors, Exists
<1>2. ASSUME UNCHANGED <<evidence, deps, rev, input>>, NEW w, ReadAncestors(w)
      PROVE  ReadAncestors(w)'
  BY <1>2 DEF ReadAncestors, Exists, EvidenceOf, Ancestors, Reach, Closed
<1> QED BY <1>1, <1>2, HeldEffects, LoadReads DEF HeldRead

\* Only the record of a failure delays a scope.
LEMMA DelaysRecorded ==
  ASSUME TypeOK, [Next]_vars, NEW s \in Scopes, retry'[s] > retry[s]
  PROVE  \E w \in Held : RecordFailure(w) /\ Failed(w, s)
<1>1. \A t \in Scopes : retry[t] \in Nat
  BY DEF TypeOK, StoreType
<1>2. \/ retry' = retry
      \/ \E b \in Batches : Accept(b)
      \/ \E w \in InProgress : Publish(w)
      \/ \E w \in Held : RecordFailure(w)
      \/ Stage \/ Elapse
  <2>1. ASSUME NEW c \in claims, Work(c)
        PROVE  \/ retry' = retry
               \/ \E w \in InProgress : Publish(w)
               \/ \E w \in Held : RecordFailure(w)
    BY <2>1 DEF Work, WorkerPublishes, WorkerFenced, WorkerFails, WorkerRecordsFailure,
                WorkerLosesFailure, storeVars, scopeVars, Held, InProgress
  <2>2. ASSUME NEW t \in Scopes, Select(t) \/ LoadFails(t) PROVE retry' = retry
    BY <2>2 DEF Select, LoadFails, storeVars, scopeVars
  <2>3. CASE Park \/ SelectionFails \/ Rouse
    BY <2>3 DEF Park, SelectionFails, Rouse, storeVars, scopeVars
  <2>4. CASE RecordLoadFailure
    BY <2>4 DEF RecordLoadFailure, Held
  <2>5. ASSUME NEW c \in claims, Complete(c) PROVE retry' = retry
    BY <2>5 DEF Complete, storeVars, scopeVars
  <2>6. ASSUME NEW S \in delayed, Expire(S) PROVE retry' = retry
    BY <2>6 DEF Expire, storeVars, scopeVars
  <2>7. ASSUME NEW b \in Batches, CollectorSends(b) PROVE Accept(b)
    BY <2>7 DEF CollectorSends
  <2>8. CASE UserReprocesses \/ Prepare
    BY <2>8 DEF UserReprocesses, Prepare, Reprocess, storeVars, scopeVars
  <2>9. CASE SecondPasses \/ Crash
    BY <2>9 DEF SecondPasses, Crash, scopeVars
  <2>10. ASSUME NEW v \in 1..MaxProcessor, Open(v) PROVE retry' = retry
    BY <2>10 DEF Open, scopeVars
  <2>11. CASE UNCHANGED vars
    BY <2>11 DEF vars, storeVars, scopeVars
  <2> QED
    BY <2>1, <2>2, <2>3, <2>4, <2>5, <2>6, <2>7, <2>8, <2>9, <2>10, <2>11 DEF Next
<1>3. ~(retry' = retry \/ Stage \/ Elapse)
  BY <1>1 DEF Stage, Elapse
<1>4. ~\E b \in Batches : Accept(b)
  BY <1>1 DEF Accept
<1>5. ASSUME NEW w \in InProgress, Publish(w) PROVE FALSE
  <2>1. retry' = Settled(w, retry, Always(0))
    BY <1>5 DEF Publish
  <2>2. retry'[s] = IF s \in Members(w) THEN 0 ELSE retry[s]
    BY <2>1 DEF Settled, Always
  <2> QED BY <1>1, <2>2
<1>6. PICK w \in Held : RecordFailure(w)
  BY <1>2, <1>3, <1>4, <1>5
<1>7. Failed(w, s)
  <2> DEFINE delay == 2 ^ attempts[w.root]
  <2>1. retry' = [t \in Scopes |-> IF Failed(w, t) THEN delay ELSE retry[t]]
    BY <1>6 DEF RecordFailure
  <2> HIDE DEF delay
  <2> QED BY <1>1, <2>1
<1> QED BY <1>6, <1>7

\* What arrives while an attempt fails is tried at once: a failure only delays a scope
\* whose evidence, with its ancestors', that attempt had read.
THEOREM BackoffDeserved == Spec => BackoffOnlyForReadInput
<1> DEFINE Deserved ==
      \A s \in Scopes : retry'[s] > retry[s] =>
        \E w \in {c.work : c \in claims} \cup failedLoad :
          EvidenceOf(Ancestors(s, deps)) \subseteq w.records
<1>1. Init => HeldRead
  BY DEF Init, HeldRead, Held, InProgress
<1>2. Groundwork /\ HeldRead /\ [Next]_vars => HeldRead'
  BY HeldReadNext
<1>3. ASSUME Groundwork, HeldRead, [Next]_vars PROVE Deserved
  <2> USE DEF Groundwork, TypeOK
  <2>1. SUFFICES ASSUME NEW s \in Scopes, retry'[s] > retry[s]
                 PROVE  \E w \in Held : EvidenceOf(Ancestors(s, deps)) \subseteq w.records
    BY DEF Held, InProgress
  <2>2. PICK w \in Held : Failed(w, s)
    BY <1>3, <2>1, DelaysRecorded
  <2>3. w \in Works /\ ReadAncestors(w)
    BY <1>3 DEF HeldRead, Held, InProgress
  <2>4. CASE Exists(s)
    BY <2>2, <2>3, <2>4 DEF Failed, ReadAncestors
  <2>5. CASE ~Exists(s)
    <3>1. rev[s] = 0 /\ w.seen[s] \in Nat
      BY <1>3, <2>3, <2>5 DEF Exists, StoreType, Works
    <3>2. s = w.root
      <4>1. ~(s \in Members(w) /\ rev[s] = w.seen[s])
        BY <3>1 DEF Members
      <4> QED BY <2>2, <4>1 DEF Failed
    <3> QED BY <2>3, <2>5, <3>2 DEF ReadAncestors
  <2> QED BY <2>4, <2>5
<1>4. Spec => [][Deserved]_vars
  BY <1>1, <1>2, <1>3, GroundworkHolds, PTL DEF Spec
<1> QED BY <1>4 DEF BackoffOnlyForReadInput

-----------------------------------------------------------------------------
(* What viewers are shown. *)

\* The rows of a scope, in whatever generation, were computed from evidence its
\* component holds, and a scope that has no row in the store has none there either.
RowsHeld ==
  \A g \in Generations, s \in Scopes :
    /\ facts[g][s] \subseteq EvidenceOf(Component(s))
    /\ ~Exists(s) => facts[g][s] = {}

\* More edges reach more.
LEMMA LinkedGrows ==
  ASSUME NEW s \in Scopes, NEW D \in SUBSET (Scopes \X Scopes),
         NEW E \in SUBSET (Scopes \X Scopes), D \subseteq E
  PROVE  Linked(s, D) \subseteq Linked(s, E)
<1> DEFINE both == D \cup Reversed(D)
           more == E \cup Reversed(E)
<1>1. /\ more \in SUBSET (Scopes \X Scopes)
      /\ both \subseteq more
  BY ReversedType DEF Reversed
<1>2. Linked(s, D) = Reach({s}, both) /\ Linked(s, E) = Reach({s}, more)
  BY DEF Linked
<1> HIDE DEF both, more
<1>3. {s} \subseteq Reach({s}, more) /\ Reach({s}, more) \in SUBSET Scopes
  BY <1>1, ReachCloses
<1>4. Closed(Reach({s}, more), both)
  <2>1. Closed(Reach({s}, more), more)
    BY <1>1, ReachCloses
  <2> QED BY <1>1, <2>1 DEF Closed
<1> QED BY <1>2, <1>3, <1>4, ReachLeast

\* What a publication writes, and where.
LEMMA PublishWrites ==
  ASSUME StoreType, Bookkeeping, NEW w \in Works, Honest(w), Publish(w)
  PROVE  /\ w.gen = target
         /\ \A g \in Generations, s \in Scopes :
              facts'[g][s] = IF g = target /\ s \in Members(w)
                             THEN EvidenceOf(Component(s)) ELSE facts[g][s]
         /\ \A s \in Members(w) : s \in Scopes /\ Exists(s)
         /\ \A s \in Scopes : Exists(s) /\ s \notin Members(w) =>
              Component(s) \cap Members(w) = {}
<1>1. /\ w.records = EvidenceOf(Linked(w.root, deps))
      /\ Members(w) = {s \in Linked(w.root, deps) : Exists(s)}
      /\ \A s \in Members(w) : Component(s) = Linked(w.root, deps)
  BY FencedRecords DEF Publish
<1>2. w.gen = target /\ target \in Generations
  BY DEF Publish, Fence, StoreType
<1>3. \A g \in Generations, s \in Scopes :
        facts'[g][s] = IF g = target /\ s \in Members(w) THEN w.records ELSE facts[g][s]
  BY <1>2 DEF Publish, Settled, Always, StoreType
<1>4. \A s \in Members(w) : s \in Scopes /\ Exists(s)
  BY <1>1 DEF Members
<1>5. ASSUME NEW s \in Scopes, Exists(s), s \notin Members(w),
             NEW t \in Component(s), t \in Members(w)
      PROVE  FALSE
  <2>1. Component(t) = Component(s) /\ s \in Component(s)
    BY LinkedSymmetric, LinkedHolds DEF Component, Linked, StoreType
  <2> QED BY <1>1, <1>5, <2>1
<1> QED BY <1>1, <1>2, <1>3, <1>4, <1>5

\* After every step, the rows of a scope come from evidence its component holds.
LEMMA RowsHeldNext ==
  ASSUME Groundwork, RowsHeld, [Next]_vars
  PROVE  RowsHeld'
<1> USE DEF Groundwork, TypeOK
<1>1. ASSUME NEW b \in Batches, Accept(b) PROVE RowsHeld'
  <2>1. facts' = facts /\ deps' = NextDeps(b) /\ evidence \subseteq evidence'
    BY <1>1 DEF Accept, outputVars
  <2>2. /\ deps \in SUBSET (Scopes \X Scopes) /\ deps' \in SUBSET (Scopes \X Scopes)
        /\ deps \subseteq deps'
    BY <2>1, FreshType DEF StoreType, NextDeps
  <2>3. \A s \in Scopes : Exists(s) => Exists(s)'
    <3>1. \A s \in Scopes : rev'[s] = rev[s] \/ rev'[s] = input + 1
      BY <1>1, AcceptMoves
    <3> QED BY <3>1 DEF Exists, StoreType
  <2>4. ASSUME NEW s \in Scopes
        PROVE  EvidenceOf(Component(s)) \subseteq EvidenceOf(Component(s))'
    <3>1. Linked(s, deps) \subseteq Linked(s, deps')
      BY <2>2, LinkedGrows
    <3>2. Component(s) = Linked(s, deps) /\ Component(s)' = Linked(s, deps')
      BY DEF Component, Linked
    <3> QED BY <2>1, <3>1, <3>2 DEF EvidenceOf
  <2> QED BY <2>1, <2>3, <2>4 DEF RowsHeld
<1>2. ASSUME NEW w \in InProgress, Publish(w) PROVE RowsHeld'
  <2>1. w \in Works /\ Honest(w)
    BY DEF InProgress, ClaimsHonest
  <2>2. evidence' = evidence /\ deps' = deps /\ rev' = rev
    BY <1>2 DEF Publish, inputVars
  <2>3. \A g \in Generations, s \in Scopes :
          /\ facts'[g][s] \subseteq EvidenceOf(Component(s))
          /\ ~Exists(s) => facts'[g][s] = {}
    BY <1>2, <2>1, PublishWrites DEF RowsHeld
  <2> QED BY <2>2, <2>3 DEF RowsHeld, Exists, EvidenceOf, Component, Reach, Closed, Reversed
<1>3. CASE Stage \/ Quiet
  BY <1>3 DEF Stage, Quiet, inputVars, outputVars, RowsHeld, Exists, EvidenceOf, Component,
              Reach, Closed, Reversed
<1> QED BY <1>1, <1>2, <1>3, StepEffects DEF StepEffect

\* A generation that is activated holds everything of every scope.
LEMMA ActivatesWhole ==
  ASSUME StoreType, Bookkeeping, SettledComponentExact,
         NEW w \in Works, Honest(w), Publish(w), Completes(w), NEW s \in Scopes, Exists(s)
  PROVE  facts'[target][s] = EvidenceOf(Component(s))
<1>1. /\ w.gen = target /\ target \in Generations
      /\ \A t \in Scopes :
           facts'[target][t] = IF t \in Members(w) THEN EvidenceOf(Component(t))
                               ELSE facts[target][t]
      /\ \A t \in Scopes : Exists(t) /\ t \notin Members(w) =>
           Component(t) \cap Members(w) = {}
  BY PublishWrites DEF StoreType
<1>2. CASE s \in Members(w)
  BY <1>1, <1>2
<1>3. CASE s \notin Members(w)
  <2>1. Component(s) \subseteq Scopes
    BY LinkedHolds DEF Component, Linked, StoreType
  <2>2. \A t \in Component(s) : ~Pending(t)
    BY <1>1, <1>3, <2>1 DEF Completes, Pending
  <2> QED BY <1>1, <1>3, <2>2 DEF SettledComponentExact
<1> QED BY <1>2, <1>3

\* Viewers' rows after a publication hold at least what they held.
LEMMA PublishShows ==
  ASSUME Groundwork, Settledness, RowsHeld, RowsHeld', TypeOK',
         NEW w \in InProgress, Publish(w)
  PROVE  [History!Next]_History!historyVars
<1> USE DEF Groundwork, TypeOK
<1>1. w \in Works /\ Honest(w)
  BY DEF InProgress, ClaimsHonest
<1>2. /\ w.gen = target
      /\ \A g \in Generations, s \in Scopes :
           facts'[g][s] = IF g = target /\ s \in Members(w)
                          THEN EvidenceOf(Component(s)) ELSE facts[g][s]
  BY <1>1, PublishWrites
<1>3. evidence' = evidence /\ generation \in Generations /\ target \in Generations
  BY DEF Publish, inputVars, StoreType
<1>4. Visible \in [Scopes -> SUBSET Records] /\ Visible' \in [Scopes -> SUBSET Records]
  BY <1>3 DEF Visible, StoreType
<1>5. ASSUME generation = target \/ Activates(w),
             \A s \in Scopes : facts[generation][s] \subseteq facts'[generation'][s]
      PROVE  History!Show
  <2>1. revision' = revision + 1
    BY <1>2, <1>5 DEF Publish
  <2>2. \A s \in Scopes : Visible'[s] \subseteq evidence
    BY <1>3 DEF RowsHeld, EvidenceOf, Visible, StoreType
  <2>3. Visible' \in [Scopes -> SUBSET evidence]
    BY <1>4, <2>2
  <2>4. \A s \in Scopes : Visible[s] \subseteq Visible'[s]
    BY <1>5 DEF Visible
  <2> QED BY <1>3, <2>1, <2>3, <2>4 DEF History!Show
<1>6. CASE Activates(w)
  <2>1. generation' = target /\ Completes(w)
    BY <1>2, <1>6 DEF Publish, Activates
  <2>2. ASSUME NEW s \in Scopes PROVE facts[generation][s] \subseteq facts'[target][s]
    <3>1. CASE Exists(s)
      BY <1>1, <1>3, <2>1, <3>1, ActivatesWhole DEF Settledness, RowsHeld
    <3>2. CASE ~Exists(s)
      BY <1>3, <3>2 DEF RowsHeld
    <3> QED BY <3>1, <3>2
  <2> QED BY <1>5, <1>6, <2>1, <2>2 DEF History!Next
<1>7. CASE ~Activates(w) /\ generation = target
  <2>1. generation' = generation
    BY <1>7 DEF Publish
  <2>2. \A s \in Scopes : facts[generation][s] \subseteq facts'[generation'][s]
    BY <1>2, <1>3, <2>1 DEF RowsHeld
  <2> QED BY <1>5, <1>7, <2>2 DEF History!Next
<1>8. CASE ~Activates(w) /\ generation # target
  <2>1. generation' = generation /\ revision' = revision
    BY <1>2, <1>8 DEF Publish
  <2>2. facts'[generation] = facts[generation]
    BY <1>3, <1>8, <1>2 DEF Publish, StoreType
  <2> QED BY <1>3, <2>1, <2>2 DEF History!historyVars, Visible
<1> QED BY <1>6, <1>7, <1>8

\* Every step of the engine is one of the history that readers see, or none.
LEMMA StepShows ==
  ASSUME Groundwork, Settledness, RowsHeld, [Next]_vars
  PROVE  [History!Next]_History!historyVars
<1> USE DEF Groundwork, TypeOK
<1>1. TypeOK' /\ RowsHeld'
  BY NextType, RowsHeldNext
<1>2. ASSUME NEW b \in Batches, Accept(b) PROVE [History!Next]_History!historyVars
  <2>1. /\ facts' = facts /\ generation' = generation /\ revision' = revision
        /\ evidence \subseteq evidence'
    BY <1>2 DEF Accept, outputVars, genVars
  <2>2. evidence' \in SUBSET Records
    BY <1>1 DEF StoreType
  <2> QED BY <2>1, <2>2 DEF History!Next, History!Receive, History!historyVars, Visible
<1>3. ASSUME NEW w \in InProgress, Publish(w) PROVE [History!Next]_History!historyVars
  BY <1>1, <1>3, PublishShows
<1>4. CASE Stage
  <2>1. facts' = facts /\ evidence' = evidence
    BY <1>4 DEF Stage, inputVars
  <2>2. CASE \A s \in Scopes : ~Exists(s)
    <3>1. revision' = revision + 1 /\ generation' \in Generations /\ generation \in Generations
      BY <1>1, <1>4, <2>2 DEF Stage, StoreType
    <3>2. Visible' \in [Scopes -> SUBSET Records]
      BY <1>1, <3>1 DEF Visible, StoreType
    <3>3. \A s \in Scopes : Visible[s] = {} /\ Visible'[s] = {}
      BY <2>1, <2>2, <3>1 DEF Visible, RowsHeld
    <3>4. Visible' \in [Scopes -> SUBSET evidence]
      BY <3>2, <3>3
    <3> QED BY <2>1, <3>1, <3>3, <3>4 DEF History!Next, History!Show
  <2>3. CASE ~\A s \in Scopes : ~Exists(s)
    <3>1. generation' = generation /\ revision' = revision
      BY <1>4, <2>3 DEF Stage
    <3> QED BY <2>1, <3>1 DEF History!historyVars, Visible
  <2> QED BY <2>2, <2>3
<1>5. CASE Quiet
  BY <1>5 DEF Quiet, inputVars, outputVars, genVars, History!historyVars, Visible
<1> QED BY <1>2, <1>3, <1>4, <1>5, StepEffects DEF StepEffect

\* The engine and its store implement the safety part of what viewers are promised
\* (TokenHistory): step by step, evidence is only added, what viewers read never covers
\* less than before and never more than was accepted, and the revision they poll moves
\* with every change, by one.
THEOREM ImplementsHistory ==
  Spec => History!Init /\ [][History!Next]_History!historyVars
<1>1. Init => History!Init
  BY StoreAssumption DEF Init, StoreInit, History!Init, Visible, Generations
<1>2. Init => RowsHeld
  BY DEF Init, StoreInit, RowsHeld
<1>3. Groundwork /\ RowsHeld /\ [Next]_vars => RowsHeld'
  BY RowsHeldNext
<1>4. Groundwork /\ Settledness /\ RowsHeld /\ [Next]_vars => [History!Next]_History!historyVars
  BY StepShows
<1> QED BY <1>1, <1>2, <1>3, <1>4, GroundworkHolds, SettledHolds, PTL DEF Spec
=============================================================================
