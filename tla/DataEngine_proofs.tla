-------------------------- MODULE DataEngine_proofs --------------------------
(***************************************************************************)
(* Safety of the data engine for every set of scopes, records and batches. *)
(***************************************************************************)
EXTENDS DataEngine, TLAPS

-----------------------------------------------------------------------------
(* Closures. *)

\* A closure stays within the scopes, holds what it starts from, and is closed.
LEMMA ReachCloses ==
  ASSUME NEW A \in SUBSET Scopes, NEW E \in SUBSET (Scopes \X Scopes)
  PROVE  /\ Reach(A, E) \subseteq Scopes
         /\ A \subseteq Reach(A, E)
         /\ Closed(Reach(A, E), E)
BY DEF Reach, Closed

\* A closure is the least closed set that holds what it starts from.
LEMMA ReachLeast ==
  ASSUME NEW A, NEW E, NEW S \in SUBSET Scopes, A \subseteq S, Closed(S, E)
  PROVE  Reach(A, E) \subseteq S
BY DEF Reach

-----------------------------------------------------------------------------
(* Types. *)

\* A delay is a whole number of ticks, never none.
LEMMA BackoffType == \A n \in 0..MaxBackoff : 2 ^ n \in Nat \ {0}
BY StoreAssumption

\* What a batch brings new are records, the scopes it touches are scopes, and the
\* relation it leaves is one between scopes.
LEMMA FreshType ==
  ASSUME NEW b \in Batches, evidence \subseteq Records, deps \subseteq Scopes \X Scopes
  PROVE  /\ Fresh(b) \subseteq Records
         /\ Touched(b) \subseteq Scopes
         /\ NextDeps(b) \subseteq Scopes \X Scopes
<1>1. Fresh(b) \subseteq Records
  BY StoreAssumption DEF Fresh
<1>2. Touched(b) \subseteq Scopes
  BY <1>1, StoreAssumption DEF Touched
<1>3. \A r \in Fresh(b) : {ScopeOf[r]} \X ParentsOf[r] \subseteq Scopes \X Scopes
  BY <1>1, StoreAssumption
<1>4. NextDeps(b) \subseteq Scopes \X Scopes
  BY <1>3 DEF NextDeps
<1> QED BY <1>1, <1>2, <1>4

\* Accepting a batch keeps the store's type.
LEMMA AcceptType ==
  ASSUME StoreType, NEW b \in Batches, Accept(b)
  PROVE  StoreType'
<1>1. NextInput(b) \in 0..MaxInput
  BY StoreAssumption DEF Accept, InputLimit, NextInput, StoreType
<1>2. /\ evidence' \subseteq Records
      /\ deps' \subseteq Scopes \X Scopes
  BY FreshType DEF Accept, StoreType
<1>3. batches' \subseteq [batch : Batches, revision : 0..MaxInput]
  BY <1>1 DEF Accept, StoreType
<1>4. /\ input' \in 0..MaxInput
      /\ rev' \in [Scopes -> 0..MaxInput]
      /\ attempts' \in [Scopes -> 0..MaxBackoff]
      /\ retry' \in [Scopes -> Nat]
  BY <1>1, StoreAssumption DEF Accept, StoreType
<1> QED
  BY <1>2, <1>3, <1>4 DEF Accept, StoreType, outputVars, genVars

\* Activating a generation only moves generations between their states.
LEMMA ActivatedType ==
  ASSUME NEW states \in [Generations -> GenStates], NEW g \in Generations
  PROVE  Activated(states, g) \in [Generations -> GenStates]
BY DEF Activated, GenStates

\* Activating another interpretation keeps the store's type.
LEMMA ReprocessType ==
  ASSUME StoreType, Reprocess
  PROVE  StoreType'
<1>1. CASE AlreadyStaged
  BY <1>1 DEF Reprocess, StoreType, storeVars, inputVars, scopeVars, outputVars, genVars
<1>2. CASE ~AlreadyStaged
  <2>1. Stage
    BY <1>2 DEF Reprocess
  <2>2. target + 1 \in Generations
    BY <2>1, StoreAssumption DEF Stage, Generations, StoreType
  <2>3. Staged(target + 1) \in [Generations -> GenStates]
    BY DEF Staged, GenStates, StoreType
  <2>4. genState' \in [Generations -> GenStates]
    BY <2>1, <2>2, <2>3, ActivatedType DEF Stage
  <2>5. /\ genProc' \in [Generations -> 0..MaxProcessor]
        /\ target' \in Generations
        /\ generation' \in Generations
        /\ revision' \in Nat
    BY <2>1, <2>2 DEF Stage, StoreType
  <2>6. /\ attempts' \in [Scopes -> 0..MaxBackoff]
        /\ retry' \in [Scopes -> Nat]
    BY <2>1, StoreAssumption DEF Stage
  <2> QED
    BY <2>1, <2>4, <2>5, <2>6 DEF Stage, StoreType, inputVars
<1> QED BY <1>1, <1>2

\* What a worker loads, with or without the revisions it has seen, is work.
LEMMA LoadType ==
  ASSUME StoreType, NEW s \in Scopes
  PROVE  /\ Load(s) \in Works
         /\ [Load(s) EXCEPT !.seen = [t \in Scopes |-> 0]] \in Works
<1>1. SeenNow(s) \in [Scopes -> 0..MaxInput]
  BY StoreAssumption DEF SeenNow, StoreType
<1>2. EvidenceOf(Linked(s, deps)) \subseteq Records
  BY DEF EvidenceOf, StoreType
<1>3. [t \in Scopes |-> 0] \in [Scopes -> 0..MaxInput]
  BY StoreAssumption
<1> QED BY <1>1, <1>2, <1>3 DEF Load, Works, StoreType

\* A publication, kept or rejected as stale, keeps the store's type.
LEMMA PublishType ==
  ASSUME StoreType, NEW w \in Works, Publish(w)
  PROVE  StoreType'
<1> USE DEF Works
<1>1. facts' \in [Generations -> [Scopes -> SUBSET Records]]
  BY DEF Publish, Settled, Always, StoreType
<1>2. outcomes' \in [Generations -> SUBSET Records]
  BY DEF Publish, StoreType
<1>3. /\ processed' \in [Scopes -> 0..MaxInput]
      /\ scopeGen' \in [Scopes -> 0..MaxGeneration]
      /\ attempts' \in [Scopes -> 0..MaxBackoff]
      /\ retry' \in [Scopes -> Nat]
  BY StoreAssumption DEF Publish, Settled, Always, StoreType, Generations
<1>4. genState' \in [Generations -> GenStates]
  <2>1. Activated(genState, w.gen) \in [Generations -> GenStates]
    BY ActivatedType DEF StoreType
  <2> QED BY <2>1 DEF Publish, StoreType
<1>5. /\ generation' \in Generations
      /\ revision' \in Nat
  BY DEF Publish, StoreType
<1> QED
  BY <1>1, <1>2, <1>3, <1>4, <1>5 DEF Publish, StoreType, inputVars

\* Recording a failure keeps the store's type.
LEMMA RecordFailureType ==
  ASSUME StoreType, NEW w \in Works, RecordFailure(w)
  PROVE  StoreType'
<1>1. 2 ^ attempts[w.root] \in Nat
  BY BackoffType DEF StoreType, Works
<1>2. \A n \in 0..MaxBackoff : Raised(n) \in 0..MaxBackoff
  BY StoreAssumption DEF Raised
<1>3. retry' \in [Scopes -> Nat]
  <2> DEFINE delay == 2 ^ attempts[w.root]
  <2>1. retry' = [s \in Scopes |-> IF Failed(w, s) THEN delay ELSE retry[s]]
    BY DEF RecordFailure
  <2>2. delay \in Nat
    BY <1>1
  <2> HIDE DEF delay
  <2> QED BY <2>1, <2>2 DEF StoreType
<1>4. attempts' \in [Scopes -> 0..MaxBackoff]
  BY <1>2 DEF RecordFailure, StoreType
<1> QED
  BY <1>3, <1>4 DEF RecordFailure, StoreType, inputVars, outputVars, genVars

\* Time passing keeps the store's type.
LEMMA ElapseType ==
  ASSUME StoreType, Elapse
  PROVE  StoreType'
<1>1. retry' \in [Scopes -> Nat]
  BY DEF Elapse, StoreType
<1> QED BY <1>1 DEF Elapse, StoreType, inputVars, outputVars, genVars

\* A new database and an idle engine have their types.
LEMMA InitType == Init => TypeOK
<1> SUFFICES ASSUME Init PROVE TypeOK
  OBVIOUS
<1>1. StoreType
  BY StoreAssumption DEF Init, StoreInit, StoreType, Generations, GenStates
<1> QED BY <1>1 DEF Init, TypeOK, DispatcherStates

\* A claim that moves to its next phase stays a claim.
LEMMA AdvanceType ==
  ASSUME TypeOK, NEW c \in claims, NEW phase \in Phases, Advance(c, phase)
  PROVE  claims' \subseteq [work : Works, phase : Phases]
BY DEF TypeOK, Advance

\* Every step of the engine, of the receiver and of a crash keeps the types.
LEMMA NextType == TypeOK /\ [Next]_vars => TypeOK'
<1> SUFFICES ASSUME TypeOK, [Next]_vars PROVE TypeOK'
  OBVIOUS
<1> USE DEF TypeOK, DispatcherStates
<1> DEFINE StoreSame == UNCHANGED storeVars
<1>0. StoreSame => StoreType'
  BY DEF storeVars, inputVars, scopeVars, outputVars, genVars, StoreType
<1>1. ASSUME NEW s \in Scopes, Select(s) PROVE TypeOK'
  <2>1. Load(s) \in Works
    BY LoadType
  <2>2. claims' \subseteq [work : Works, phase : Phases]
    BY <1>1, <2>1 DEF Select, Phases
  <2> QED BY <1>0, <1>1, <2>2 DEF Select
<1>2. ASSUME NEW s \in Scopes, LoadFails(s) PROVE TypeOK'
  <2>1. failedLoad' \subseteq Works
    <3> DEFINE read == Load(s)
               unread == [Load(s) EXCEPT !.seen = [t \in Scopes |-> 0]]
    <3>1. read \in Works /\ unread \in Works
      BY LoadType
    <3>2. failedLoad' \in {{read}, {unread}}
      BY <1>2 DEF LoadFails
    <3> HIDE DEF read, unread
    <3> QED BY <3>1, <3>2
  <2> QED BY <1>0, <1>2, <2>1 DEF LoadFails
<1>3. CASE Park
  BY <1>0, <1>3 DEF Park
<1>4. CASE SelectionFails
  BY <1>0, <1>4 DEF SelectionFails
<1>5. CASE RecordLoadFailure
  <2>1. StoreType'
    BY <1>5, RecordFailureType DEF RecordLoadFailure
  <2> QED BY <1>5, <2>1 DEF RecordLoadFailure
<1>6. CASE Rouse
  BY <1>0, <1>6 DEF Rouse
<1>7. ASSUME NEW c \in claims, Work(c) PROVE TypeOK'
  <2>1. CASE WorkerPublishes(c)
    <3>1. StoreType'
      BY <2>1, PublishType DEF WorkerPublishes
    <3>2. claims' \subseteq [work : Works, phase : Phases]
      BY <2>1, AdvanceType DEF WorkerPublishes, Phases
    <3> QED BY <2>1, <3>1, <3>2 DEF WorkerPublishes
  <2>2. CASE WorkerFenced(c)
    <3>1. claims' \subseteq [work : Works, phase : Phases]
      BY <2>2, AdvanceType DEF WorkerFenced, Phases
    <3> QED BY <1>0, <2>2, <3>1 DEF WorkerFenced
  <2>3. CASE WorkerFails(c)
    <3>1. claims' \subseteq [work : Works, phase : Phases]
      BY <2>3, AdvanceType DEF WorkerFails, Phases
    <3> QED BY <1>0, <2>3, <3>1 DEF WorkerFails
  <2>4. CASE WorkerRecordsFailure(c)
    <3>1. StoreType'
      BY <2>4, RecordFailureType DEF WorkerRecordsFailure
    <3>2. claims' \subseteq [work : Works, phase : Phases]
      BY <2>4, AdvanceType DEF WorkerRecordsFailure, Phases
    <3> QED BY <2>4, <3>1, <3>2 DEF WorkerRecordsFailure
  <2>5. CASE WorkerLosesFailure(c)
    <3>1. claims' \subseteq [work : Works, phase : Phases]
      BY <2>5, AdvanceType DEF WorkerLosesFailure, Phases
    <3> QED BY <1>0, <2>5, <3>1 DEF WorkerLosesFailure
  <2> QED BY <1>7, <2>1, <2>2, <2>3, <2>4, <2>5 DEF Work
<1>8. ASSUME NEW c \in claims, Complete(c) PROVE TypeOK'
  <2>1. HeldBack(Members(c.work)) \subseteq SUBSET Scopes
    BY DEF HeldBack, Members
  <2> QED BY <1>0, <1>8, <2>1 DEF Complete
<1>9. ASSUME NEW S \in delayed, Expire(S) PROVE TypeOK'
  BY <1>0, <1>9 DEF Expire
<1>10. ASSUME NEW b \in Batches, CollectorSends(b) PROVE TypeOK'
  <2>1. StoreType'
    BY <1>10, AcceptType DEF CollectorSends
  <2> QED BY <1>10, <2>1 DEF CollectorSends
<1>11. CASE UserReprocesses
  <2>1. StoreType'
    BY <1>11, ReprocessType DEF UserReprocesses
  <2> QED BY <1>11, <2>1 DEF UserReprocesses
<1>12. CASE SecondPasses
  <2>1. StoreType'
    BY <1>12, ElapseType DEF SecondPasses
  <2> QED BY <1>12, <2>1 DEF SecondPasses, engineVars
<1>13. CASE Crash
  <2>1. StoreType'
    BY <1>13, StoreAssumption
       DEF Crash, StoreType, inputVars, scopeVars, outputVars, genVars
  <2> QED BY <1>13, <2>1 DEF Crash
<1>14. CASE Prepare
  <2>1. StoreType'
    BY <1>0, <1>14, ReprocessType DEF Prepare
  <2> QED BY <1>14, <2>1 DEF Prepare
<1>15. ASSUME NEW v \in 1..MaxProcessor, Open(v) PROVE TypeOK'
  <2>1. StoreType'
    BY <1>15, StoreAssumption
       DEF Open, StoreType, inputVars, scopeVars, outputVars, genVars
  <2> QED BY <1>15, <2>1 DEF Open
<1>16. CASE UNCHANGED vars
  BY <1>0, <1>16 DEF vars, engineVars
<1> HIDE DEF StoreSame
<1> QED
  BY <1>1, <1>2, <1>3, <1>4, <1>5, <1>6, <1>7, <1>8, <1>9, <1>10, <1>11, <1>12,
     <1>13, <1>14, <1>15, <1>16 DEF Next

\* Every column of the store and every claim keeps its type; in particular the
\* revisions and the backoff stay within their limits (Accept's revision_limit,
\* RecordFailure's exponent).
THEOREM TypeCorrect == Spec => []TypeOK
<1> QED BY InitType, NextType, PTL DEF Spec
-----------------------------------------------------------------------------
(* What a step can do to the store: accept a batch, publish a claim, stage a
   generation, or nothing that the invariants below speak of. *)

InProgress == {c.work : c \in claims}

Quiet == UNCHANGED <<inputVars, rev, processed, scopeGen, outputVars, genVars>>

StepEffect ==
  \/ \E b \in Batches : Accept(b) /\ claims' = claims
  \/ \E w \in InProgress : Publish(w) /\ InProgress' \subseteq InProgress
  \/ Readable /\ Stage /\ claims' = claims
  \/ /\ Quiet
     /\ binary' \in {binary, 0} \/ ReadableBy(binary')
     /\ \A w \in InProgress' :
          w \in InProgress \/ \E s \in Scopes : Pending(s) /\ w = Load(s)

\* Every step has one of the effects listed in StepEffect: later lemmas split on
\* these, not on the actions.
LEMMA StepEffects ==
  ASSUME TypeOK, [Next]_vars
  PROVE  StepEffect
<1> USE DEF InProgress
<1>0. ASSUME UNCHANGED storeVars, InProgress' \subseteq InProgress PROVE StepEffect
  BY <1>0 DEF StepEffect, Quiet, storeVars, scopeVars
<1>1. ASSUME NEW s \in Scopes, Select(s) PROVE StepEffect
  BY <1>1 DEF StepEffect, Select, First, Eligible, Candidate, Quiet, storeVars, scopeVars
<1>2. ASSUME NEW s \in Scopes, LoadFails(s) PROVE StepEffect
  BY <1>0, <1>2 DEF LoadFails
<1>3. ASSUME NEW w \in Works, RecordFailure(w), InProgress' \subseteq InProgress PROVE StepEffect
  BY <1>3 DEF StepEffect, RecordFailure, Quiet
<1>4. CASE Park \/ SelectionFails \/ Rouse
  BY <1>0, <1>4 DEF Park, SelectionFails, Rouse
<1>5. CASE RecordLoadFailure
  BY <1>3, <1>5 DEF RecordLoadFailure, TypeOK
<1>6. ASSUME NEW c \in claims, NEW phase, Advance(c, phase)
      PROVE  InProgress' \subseteq InProgress
  BY <1>6 DEF Advance, TypeOK
<1>7. ASSUME NEW c \in claims, Work(c) PROVE StepEffect
  <2>1. InProgress' \subseteq InProgress
    BY <1>6, <1>7 DEF Work, WorkerPublishes, WorkerFenced, WorkerFails,
                      WorkerRecordsFailure, WorkerLosesFailure
  <2>2. CASE WorkerPublishes(c)
    BY <2>1, <2>2 DEF StepEffect, WorkerPublishes
  <2>3. CASE WorkerRecordsFailure(c)
    BY <1>3, <2>1, <2>3 DEF WorkerRecordsFailure, TypeOK
  <2>4. CASE WorkerFenced(c) \/ WorkerFails(c) \/ WorkerLosesFailure(c)
    BY <1>0, <2>1, <2>4 DEF WorkerFenced, WorkerFails, WorkerLosesFailure
  <2> QED BY <1>7, <2>2, <2>3, <2>4 DEF Work
<1>8. ASSUME NEW c \in claims, Complete(c) PROVE StepEffect
  <2>1. InProgress' \subseteq InProgress /\ UNCHANGED storeVars
    BY <1>8 DEF Complete
  <2> QED BY <1>0, <2>1
<1>9. ASSUME NEW S \in delayed, Expire(S) PROVE StepEffect
  BY <1>0, <1>9 DEF Expire
<1>10. ASSUME NEW b \in Batches, CollectorSends(b) PROVE StepEffect
  BY <1>10 DEF StepEffect, CollectorSends
<1>11. CASE UserReprocesses
  BY <1>0, <1>11 DEF StepEffect, UserReprocesses, Reprocess
<1>12. CASE SecondPasses
  BY <1>12 DEF StepEffect, SecondPasses, Elapse, Quiet, engineVars
<1>13. CASE Crash
  BY <1>13 DEF StepEffect, Crash, Quiet, scopeVars
<1>14. CASE Prepare
  BY <1>0, <1>14 DEF StepEffect, Prepare, Reprocess
<1>15. ASSUME NEW v \in 1..MaxProcessor, Open(v) PROVE StepEffect
  BY <1>15 DEF StepEffect, Open, Quiet, scopeVars
<1>16. CASE UNCHANGED vars
  BY <1>0, <1>16 DEF vars, engineVars
<1> QED
  BY <1>1, <1>2, <1>4, <1>5, <1>7, <1>8, <1>9, <1>10, <1>11, <1>12, <1>13, <1>14,
     <1>15, <1>16 DEF Next

-----------------------------------------------------------------------------
(* The store's bookkeeping, and what a claim knows. *)

\* Every accepted record has its scope, and nothing is ahead of the counters.
Bookkeeping ==
  /\ \A r \in evidence : Exists(ScopeOf[r])
  /\ \A s \in Scopes : rev[s] <= input /\ processed[s] <= input /\ scopeGen[s] <= target

\* A component read its root, and for every scope whose revision has not moved
\* since, exactly the evidence the scope still has.
Honest(w) ==
  /\ w.seen[w.root] > 0
  /\ \A s \in Scopes : w.seen[s] <= input
  /\ \A r \in w.records : w.seen[ScopeOf[r]] > 0
  /\ \A s \in Scopes : Exists(s) /\ w.seen[s] = rev[s] =>
       {r \in w.records : ScopeOf[r] = s} = EvidenceOf({s})

ClaimsHonest == \A w \in InProgress : Honest(w)

\* A scope is linked to itself, and only to scopes.
LEMMA LinkedHolds ==
  ASSUME NEW s \in Scopes, NEW D \in SUBSET (Scopes \X Scopes)
  PROVE  s \in Linked(s, D) /\ Linked(s, D) \subseteq Scopes
<1>1. D \cup Reversed(D) \subseteq Scopes \X Scopes
  BY DEF Reversed
<1> QED BY <1>1, ReachCloses DEF Linked

\* Work that was just loaded says what the store says.
LEMMA LoadHonest ==
  ASSUME StoreType, Bookkeeping, NEW s \in Scopes, Pending(s)
  PROVE  Honest(Load(s))
<1>1. s \in Linked(s, deps)
  BY LinkedHolds DEF StoreType
<1>2. \A t \in Scopes : SeenNow(s)[t] = IF t \in Linked(s, deps) THEN rev[t] ELSE 0
  BY DEF SeenNow
<1>3. SeenNow(s)[s] > 0
  BY <1>1, <1>2 DEF Pending, Exists
<1>4. \A t \in Scopes : SeenNow(s)[t] <= input
  BY <1>2 DEF Bookkeeping, StoreType
<1>5. \A r \in EvidenceOf(Linked(s, deps)) : SeenNow(s)[ScopeOf[r]] > 0
  BY <1>2, StoreAssumption DEF EvidenceOf, Bookkeeping, StoreType, Exists
<1>6. ASSUME NEW t \in Scopes, Exists(t), SeenNow(s)[t] = rev[t]
      PROVE  {r \in EvidenceOf(Linked(s, deps)) : ScopeOf[r] = t} = EvidenceOf({t})
  <2>1. t \in Linked(s, deps)
    BY <1>2, <1>6 DEF Exists
  <2> QED BY <2>1 DEF EvidenceOf
<1> QED BY <1>3, <1>4, <1>5, <1>6 DEF Load, Honest

\* New evidence moves the revision of its scope past every claim.
LEMMA AcceptMoves ==
  ASSUME StoreType, Bookkeeping, NEW b \in Batches, Accept(b)
  PROVE  /\ Touched(b) \subseteq Affected(b) /\ Affected(b) \subseteq Scopes
         /\ input <= input' /\ input' \in Nat
         /\ \A s \in Affected(b) : rev'[s] = input + 1 /\ input' = input + 1
         /\ \A s \in Scopes \ Affected(b) : rev'[s] = rev[s]
         /\ \A S \in SUBSET (Scopes \ Affected(b)) : EvidenceOf(S)' = EvidenceOf(S)
<1>1. Touched(b) \subseteq Scopes /\ NextDeps(b) \subseteq Scopes \X Scopes
  BY FreshType DEF StoreType
<1>2. Reversed(NextDeps(b)) \subseteq Scopes \X Scopes
  BY <1>1 DEF Reversed
<1>3. Touched(b) \subseteq Affected(b) /\ Affected(b) \subseteq Scopes
  BY <1>1, <1>2, ReachCloses DEF Affected, Descendants
<1>4. Fresh(b) = {} => Affected(b) = {}
  <2>1. SUFFICES ASSUME Fresh(b) = {} PROVE Affected(b) \subseteq {}
    OBVIOUS
  <2>2. Touched(b) \subseteq {}
    BY <2>1 DEF Touched
  <2>3. Closed({}, Reversed(NextDeps(b)))
    BY DEF Closed
  <2> QED BY <2>2, <2>3, ReachLeast DEF Affected, Descendants
<1>5. input <= input' /\ input' \in Nat
  BY DEF Accept, NextInput, StoreType
<1>6. \A s \in Affected(b) : rev'[s] = input + 1 /\ input' = input + 1
  BY <1>3, <1>4 DEF Accept, NextInput
<1>7. \A s \in Scopes \ Affected(b) : rev'[s] = rev[s]
  BY DEF Accept
<1>8. \A S \in SUBSET (Scopes \ Affected(b)) : EvidenceOf(S)' = EvidenceOf(S)
  BY <1>3 DEF Accept, EvidenceOf, Touched
<1> QED BY <1>3, <1>5, <1>6, <1>7, <1>8

\* Revisions, pending scopes and what workers hold stay in the order the code assumes.
LEMMA BookkeepingNext ==
  ASSUME TypeOK, TypeOK', Bookkeeping, ClaimsHonest, [Next]_vars
  PROVE  Bookkeeping' /\ ClaimsHonest'
<1> USE DEF TypeOK
<1>1. ASSUME NEW b \in Batches, Accept(b), claims' = claims
      PROVE  Bookkeeping' /\ ClaimsHonest'
  <2>1. /\ Touched(b) \subseteq Affected(b) /\ Affected(b) \subseteq Scopes
        /\ input <= input' /\ input' \in Nat
        /\ \A s \in Affected(b) : rev'[s] = input + 1 /\ input' = input + 1
        /\ \A s \in Scopes \ Affected(b) : rev'[s] = rev[s]
        /\ \A S \in SUBSET (Scopes \ Affected(b)) : EvidenceOf(S)' = EvidenceOf(S)
    BY <1>1, AcceptMoves
  <2>2. ASSUME NEW r \in evidence' PROVE rev'[ScopeOf[r]] > 0
    <3>1. CASE r \in evidence
      BY <2>1, <3>1, StoreAssumption DEF Bookkeeping, StoreType, Exists
    <3>2. CASE r \in Fresh(b)
      BY <2>1, <3>2 DEF Touched, StoreType
    <3> QED BY <1>1, <2>2, <3>1, <3>2 DEF Accept
  <2>3. \A s \in Scopes : rev'[s] <= input' /\ processed'[s] <= input' /\ scopeGen'[s] <= target'
    BY <1>1, <2>1 DEF Bookkeeping, StoreType, Accept, genVars
  <2>4. ASSUME NEW w \in InProgress PROVE Honest(w)'
    <3>1. Honest(w) /\ w \in Works
      BY DEF ClaimsHonest, InProgress
    <3>2. \A s \in Scopes : w.seen[s] <= input /\ w.seen[s] \in Nat
      BY <3>1 DEF Honest, Works
    <3>3. ASSUME NEW s \in Scopes, rev'[s] > 0, w.seen[s] = rev'[s]
          PROVE  {r \in w.records : ScopeOf[r] = s} = EvidenceOf({s})'
      <4>1. s \notin Affected(b)
        BY <2>1, <3>2, <3>3 DEF StoreType
      <4> QED BY <2>1, <3>1, <3>3, <4>1 DEF Honest, Exists
    <3>4. \A s \in Scopes : w.seen[s] <= input'
      BY <2>1, <3>2 DEF StoreType
    <3> QED BY <3>1, <3>3, <3>4 DEF Honest, Exists
  <2> QED BY <1>1, <2>2, <2>3, <2>4 DEF Bookkeeping, ClaimsHonest, InProgress, Exists
<1>2. ASSUME evidence' = evidence, rev' = rev, input' = input, NEW w \in Works, Honest(w)
      PROVE  Honest(w)'
  BY <1>2 DEF Honest, Exists, EvidenceOf
<1>3. ASSUME NEW w \in InProgress, Publish(w), InProgress' \subseteq InProgress
      PROVE  Bookkeeping' /\ ClaimsHonest'
  <2>1. w \in Works /\ Honest(w)
    BY DEF ClaimsHonest, InProgress
  <2>2. \A s \in Scopes : processed'[s] <= input' /\ scopeGen'[s] <= target'
    BY <1>3, <2>1
       DEF Publish, Settled, Always, Fence, Bookkeeping, Honest, Works, StoreType,
           inputVars, Generations
  <2>3. Bookkeeping'
    BY <1>3, <2>2 DEF Publish, Bookkeeping, inputVars, Exists
  <2>4. ClaimsHonest'
    BY <1>2, <1>3 DEF Publish, inputVars, ClaimsHonest, InProgress
  <2> QED BY <2>3, <2>4
<1>4. ASSUME Stage, claims' = claims
      PROVE  Bookkeeping' /\ ClaimsHonest'
  <2>1. Bookkeeping'
    BY <1>4 DEF Stage, Bookkeeping, inputVars, Exists, StoreType, Generations
  <2>2. ClaimsHonest'
    BY <1>2, <1>4 DEF Stage, inputVars, ClaimsHonest, InProgress
  <2> QED BY <2>1, <2>2
<1>5. ASSUME Quiet,
             \A w \in InProgress' :
               w \in InProgress \/ \E s \in Scopes : Pending(s) /\ w = Load(s)
      PROVE  Bookkeeping' /\ ClaimsHonest'
  <2>1. Bookkeeping'
    BY <1>5 DEF Quiet, Bookkeeping, inputVars, genVars, Exists
  <2>2. \A w \in InProgress' : w \in Works /\ Honest(w)
    BY <1>5, LoadHonest, LoadType DEF ClaimsHonest, InProgress
  <2>3. ClaimsHonest'
    BY <1>2, <1>5, <2>2 DEF Quiet, inputVars, ClaimsHonest
  <2> QED BY <2>1, <2>3
<1> QED BY <1>1, <1>3, <1>4, <1>5, StepEffects DEF StepEffect
-----------------------------------------------------------------------------
(* Generations. *)

\* The metadata is in order whoever has the store open.  A store without scopes
\* has spent a revision on no generation but the first one's successors: that is
\* what keeps Reprocess, which activates at once then and does not look at the
\* revision, within the limit.
GenerationsInOrder ==
  /\ target >= generation
  /\ revision <= MaxRevision
  /\ \A g \in Generations : genState[g] = "active" <=> g = generation
  /\ genState[target] = IF target > generation THEN "building" ELSE "active"
  /\ binary > 0 => \A g \in Generations : genProc[g] <= binary
  /\ (\A s \in Scopes : ~Exists(s)) => revision < target

\* One generation is active, and at most one is being prepared, whatever step is taken.
LEMMA GenerationsNext ==
  ASSUME TypeOK, TypeOK', Bookkeeping, ClaimsHonest, GenerationsInOrder, [Next]_vars
  PROVE  GenerationsInOrder'
<1> USE DEF TypeOK, StoreType
<1>1. ASSUME NEW b \in Batches, Accept(b) PROVE GenerationsInOrder'
  <2>1. ASSUME NEW s \in Scopes, Exists(s) PROVE Exists(s)'
    <3>1. rev'[s] = rev[s] \/ rev'[s] = input + 1
      BY <1>1, AcceptMoves
    <3> QED BY <2>1, <3>1 DEF Exists
  <2> QED BY <1>1, <2>1 DEF Accept, genVars, outputVars, GenerationsInOrder
<1>2. ASSUME NEW w \in InProgress, Publish(w) PROVE GenerationsInOrder'
  <2>1. w \in Works /\ Honest(w)
    BY DEF InProgress, ClaimsHonest
  <2>2. \E s \in Scopes : Exists(s) /\ Exists(s)'
    <3>1. w.root \in Scopes /\ w.seen[w.root] > 0
      BY <2>1 DEF Honest, Works
    <3>2. SeenNow(w.root)[w.root] > 0
      BY <1>2, <3>1 DEF Publish, Fence
    <3>3. rev[w.root] > 0 /\ rev' = rev
      BY <1>2, <3>1, <3>2 DEF SeenNow, Publish
    <3> QED BY <3>1, <3>3 DEF Exists
  <2>3. w.gen = target /\ target' = target /\ genProc' = genProc /\ binary' = binary
    BY <1>2 DEF Publish, Fence
  <2>4. revision' <= MaxRevision
    BY <1>2, StoreAssumption DEF Publish, GenerationsInOrder
  <2>5. CASE Activates(w)
    <3>1. genState' = Activated(genState, target) /\ generation' = target
      BY <1>2, <2>3, <2>5 DEF Publish
    <3> QED BY <2>2, <2>3, <2>4, <3>1 DEF Activated, GenerationsInOrder, Generations
  <2>6. CASE ~Activates(w)
    <3>1. genState' = genState /\ generation' = generation
      BY <1>2, <2>6 DEF Publish
    <3> QED BY <2>2, <2>3, <2>4, <3>1 DEF GenerationsInOrder
  <2> QED BY <2>5, <2>6
<1>3. ASSUME Readable, Stage PROVE GenerationsInOrder'
  <2> DEFINE next == target + 1
             empty == \A s \in Scopes : ~Exists(s)
  <2>1. /\ next \in Generations /\ generation < next /\ target' = next
        /\ genProc' = [genProc EXCEPT ![next] = binary] /\ binary' = binary /\ rev' = rev
    BY <1>3, StoreAssumption DEF Stage, Generations, GenerationsInOrder, inputVars
  <2>2. \A g \in Generations : genProc'[g] <= binary'
    BY <1>3, <2>1 DEF Readable, ReadableBy
  <2>3. \A g \in Generations : Staged(next)[g] =
          IF g = next THEN "building"
          ELSE IF g = target /\ target > generation THEN "retained" ELSE genState[g]
    BY DEF Staged
  <2>4. CASE empty
    <3>1. /\ genState' = Activated(Staged(next), next)
          /\ generation' = next /\ revision' = revision + 1
      BY <1>3, <2>4 DEF Stage
    <3>2. \A g \in Generations : genState'[g] = "active" <=> g = next
      BY <2>1, <3>1 DEF Activated
    <3>3. revision < target
      BY <2>4 DEF GenerationsInOrder
    <3>4. revision' <= MaxRevision /\ revision' < target'
      BY <2>1, <3>1, <3>3, StoreAssumption DEF Generations
    <3> QED BY <2>1, <2>2, <3>1, <3>2, <3>4 DEF GenerationsInOrder, Generations
  <2>5. CASE ~empty
    <3>1. genState' = Staged(next) /\ generation' = generation /\ revision' = revision
      BY <1>3, <2>5 DEF Stage
    <3>2. \A g \in Generations : genState'[g] = "active" <=> g = generation
      BY <2>1, <2>3, <3>1 DEF GenerationsInOrder
    <3>3. ~(\A s \in Scopes : ~Exists(s))'
      BY <2>1, <2>5 DEF Exists
    <3> QED BY <2>1, <2>2, <2>3, <3>1, <3>2, <3>3 DEF GenerationsInOrder, Generations
  <2> QED BY <2>4, <2>5
<1>4. ASSUME Quiet, binary' \in {binary, 0} \/ ReadableBy(binary')
      PROVE  GenerationsInOrder'
  <2>1. binary' > 0 => \A g \in Generations : genProc'[g] <= binary'
    BY <1>4 DEF Quiet, genVars, ReadableBy, GenerationsInOrder
  <2> QED BY <1>4, <2>1 DEF Quiet, genVars, outputVars, GenerationsInOrder, Exists
<1> QED BY <1>1, <1>2, <1>3, <1>4, StepEffects DEF StepEffect

\* The bookkeeping and the claims, as an inductive invariant.
Groundwork == TypeOK /\ Bookkeeping /\ ClaimsHonest /\ GenerationsInOrder

\* The bookkeeping holds in a new database.
LEMMA GroundworkInit == Init => Groundwork
<1> SUFFICES ASSUME Init PROVE Groundwork
  OBVIOUS
<1>1. Bookkeeping /\ ClaimsHonest
  BY DEF Init, StoreInit, Bookkeeping, ClaimsHonest, InProgress, Exists
<1>2. GenerationsInOrder
  BY StoreAssumption DEF Init, StoreInit, GenerationsInOrder, Generations, Exists
<1> QED BY <1>1, <1>2, InitType DEF Groundwork

\* The bookkeeping is inductive.
LEMMA GroundworkNext == Groundwork /\ [Next]_vars => Groundwork'
BY NextType, BookkeepingNext, GenerationsNext DEF Groundwork

\* Claims, revisions, pending scopes and generations stay in the order the engine's code
\* relies on (worker.go's claims, store.go's revision checks), in every reachable state.
THEOREM GroundworkHolds == Spec => []Groundwork
BY GroundworkInit, GroundworkNext, PTL DEF Spec

\* Whatever sequence of publications, reprocessing, upgrades and crashes led here,
\* a process that has the store open is never refused by ReadMetadataForDataset.
THEOREM AlwaysReadable == Spec => []StoreStaysReadable
<1>1. Groundwork => StoreStaysReadable
  BY DEF Groundwork, GenerationsInOrder, StoreStaysReadable, Readable, ReadableBy
<1> QED BY <1>1, GroundworkHolds, PTL
-----------------------------------------------------------------------------
(* Components and ancestors. *)

\* The reversed relation holds the pairs of the relation, the other way round.
LEMMA ReversedType ==
  ASSUME NEW D \in SUBSET (Scopes \X Scopes)
  PROVE  /\ Reversed(D) \in SUBSET (Scopes \X Scopes)
         /\ D \cup Reversed(D) \in SUBSET (Scopes \X Scopes)
         /\ \A x, y \in Scopes : <<x, y>> \in Reversed(D) <=> <<y, x>> \in D
BY DEF Reversed

\* Following edges both ways, whoever is reached reaches back.
LEMMA LinkedSymmetric ==
  ASSUME NEW s \in Scopes, NEW D \in SUBSET (Scopes \X Scopes), NEW t \in Linked(s, D)
  PROVE  t \in Scopes /\ Linked(t, D) = Linked(s, D)
<1> DEFINE E == D \cup Reversed(D)
<1>1. /\ E \in SUBSET (Scopes \X Scopes)
      /\ \A x, y \in Scopes : <<x, y>> \in E => <<y, x>> \in E
  BY ReversedType
<1>2. \A u \in Scopes : Linked(u, D) = Reach({u}, E)
  BY DEF Linked
<1> HIDE DEF E
<1>3. \A u \in Scopes : /\ u \in Reach({u}, E)
                        /\ Reach({u}, E) \subseteq Scopes
                        /\ Closed(Reach({u}, E), E)
  BY <1>1, ReachCloses
<1>4. \A u, v \in Scopes : v \in Reach({u}, E) => Reach({v}, E) \subseteq Reach({u}, E)
  <2>1. SUFFICES ASSUME NEW u \in Scopes, NEW v \in Scopes, v \in Reach({u}, E)
                 PROVE  Reach({v}, E) \subseteq Reach({u}, E)
    OBVIOUS
  <2>2. {v} \subseteq Reach({u}, E)
    BY <2>1
  <2> QED BY <1>3, <2>2, ReachLeast
<1> DEFINE Back == {u \in Scopes : s \in Reach({u}, E)}
<1>5. Closed(Back, E)
  <2>1. SUFFICES ASSUME NEW e \in E, e[1] \in Back PROVE e[2] \in Back
    BY DEF Closed
  <2>2. e[1] \in Scopes /\ e[2] \in Scopes /\ <<e[2], e[1]>> \in E
    BY <1>1
  <2>3. e[1] \in Reach({e[2]}, E)
    BY <1>3, <2>2 DEF Closed
  <2> QED BY <1>4, <2>1, <2>2, <2>3
<1>6. Reach({s}, E) \subseteq Back
  BY <1>3, <1>5, ReachLeast
<1>7. t \in Scopes /\ s \in Reach({t}, E)
  BY <1>2, <1>3, <1>6
<1> QED BY <1>2, <1>4, <1>7

\* An ancestor of a scope is linked to it.
LEMMA AncestorsLinked ==
  ASSUME NEW s \in Scopes, NEW D \in SUBSET (Scopes \X Scopes)
  PROVE  Ancestors(s, D) \subseteq Linked(s, D)
<1>1. /\ s \in Linked(s, D) /\ Linked(s, D) \subseteq Scopes
      /\ Closed(Linked(s, D), D \cup Reversed(D))
  BY ReversedType, ReachCloses DEF Linked
<1>2. Closed(Linked(s, D), D)
  BY <1>1 DEF Closed
<1> QED BY <1>1, <1>2, ReachLeast DEF Ancestors

\* A batch leaves the graph above and around the scopes it does not affect alone:
\* what they reach is free of new evidence and was reached before.
LEMMA UnaffectedEdges ==
  ASSUME StoreType, NEW b \in Batches
  PROVE  \A e \in NextDeps(b) :
           /\ e[1] \in Scopes /\ e[2] \in Scopes
           /\ e[2] \in Affected(b) => e[1] \in Affected(b)
           /\ e[1] \notin Affected(b) => e \in deps
<1>1. Touched(b) \subseteq Scopes /\ NextDeps(b) \in SUBSET (Scopes \X Scopes)
  BY FreshType DEF StoreType
<1>2. /\ Touched(b) \subseteq Affected(b)
      /\ Closed(Affected(b), Reversed(NextDeps(b)))
  BY <1>1, ReversedType, ReachCloses DEF Affected, Descendants
<1>3. ASSUME NEW e \in NextDeps(b), e[2] \in Affected(b) PROVE e[1] \in Affected(b)
  <2>1. <<e[2], e[1]>> \in Reversed(NextDeps(b))
    BY DEF Reversed
  <2> QED BY <1>2, <1>3, <2>1 DEF Closed
<1>4. ASSUME NEW e \in NextDeps(b), e[1] \notin Affected(b) PROVE e \in deps
  <2>1. SUFFICES ASSUME NEW r \in Fresh(b), e \in {ScopeOf[r]} \X ParentsOf[r] PROVE FALSE
    BY DEF NextDeps
  <2>2. e[1] \in Touched(b)
    BY <2>1 DEF Touched
  <2> QED BY <1>2, <1>4, <2>2
<1> QED BY <1>1, <1>3, <1>4

\* A batch that does not affect a scope gives it no new ancestor, and affects none.
LEMMA UnaffectedAncestors ==
  ASSUME StoreType, NEW b \in Batches, NEW s \in Scopes \ Affected(b)
  PROVE  Ancestors(s, NextDeps(b)) \subseteq Ancestors(s, deps) \ Affected(b)
<1> DEFINE T == Ancestors(s, deps) \ Affected(b)
<1>1. /\ s \in Ancestors(s, deps) /\ Ancestors(s, deps) \subseteq Scopes
      /\ Closed(Ancestors(s, deps), deps)
  BY ReachCloses DEF Ancestors, StoreType
<1>2. Closed(T, NextDeps(b))
  <2>1. SUFFICES ASSUME NEW e \in NextDeps(b), e[1] \in T PROVE e[2] \in T
    BY DEF Closed
  <2>2. e \in deps /\ e[2] \notin Affected(b)
    BY <2>1, UnaffectedEdges
  <2> QED BY <1>1, <2>1, <2>2 DEF Closed
<1> HIDE DEF T
<1>3. T \in SUBSET Scopes /\ {s} \subseteq T
  BY <1>1 DEF T
<1>4. Ancestors(s, NextDeps(b)) \subseteq T
  BY <1>2, <1>3, ReachLeast DEF Ancestors
<1> QED BY <1>4 DEF T

\* A component that no affected scope is part of stays as it was.
LEMMA UnaffectedComponent ==
  ASSUME StoreType, NEW b \in Batches, NEW s \in Scopes,
         Linked(s, NextDeps(b)) \cap Affected(b) = {}
  PROVE  Linked(s, NextDeps(b)) = Linked(s, deps)
<1> DEFINE D == NextDeps(b)
           new == Linked(s, D)
           old == Linked(s, deps)
<1>1. D \in SUBSET (Scopes \X Scopes) /\ deps \in SUBSET (Scopes \X Scopes) /\ deps \subseteq D
  BY FreshType DEF StoreType, NextDeps
<1>2. /\ s \in new /\ new \subseteq Scopes /\ Closed(new, D \cup Reversed(D))
      /\ s \in old /\ old \subseteq Scopes /\ Closed(old, deps \cup Reversed(deps))
  BY <1>1, ReversedType, ReachCloses DEF Linked
<1>3. Closed(new, deps \cup Reversed(deps))
  <2>1. deps \cup Reversed(deps) \subseteq D \cup Reversed(D)
    BY <1>1 DEF Reversed
  <2> HIDE DEF D, new
  <2> QED BY <1>2, <2>1 DEF Closed
<1>4. old \subseteq new
  <2>1. {s} \subseteq new /\ old = Reach({s}, deps \cup Reversed(deps))
    BY <1>2 DEF Linked
  <2> HIDE DEF new, old
  <2> QED BY <1>2, <1>3, <2>1, ReachLeast
<1>5. Closed(old, D \cup Reversed(D))
  <2>1. ASSUME NEW e \in D, e[1] \in old PROVE e[2] \in old
    <3>1. e \in deps
      BY <1>4, <2>1, UnaffectedEdges
    <3> QED BY <1>2, <2>1, <3>1 DEF Closed
  <2>2. ASSUME NEW e \in D, e[2] \in old PROVE e[1] \in old
    <3>1. /\ e[1] \in Scopes /\ e[2] \in Scopes
          /\ <<e[2], e[1]>> \in D \cup Reversed(D)
      BY <1>1 DEF Reversed
    <3>2. e[1] \in new
      BY <1>2, <1>4, <2>2, <3>1 DEF Closed
    <3>3. e \in deps
      BY <3>2, UnaffectedEdges
    <3>4. <<e[2], e[1]>> \in Reversed(deps)
      BY <3>3 DEF Reversed
    <3> QED BY <1>2, <2>2, <3>4 DEF Closed
  <2> QED BY <2>1, <2>2 DEF Closed, Reversed
<1>6. new \subseteq old
  <2>1. {s} \subseteq old /\ new = Reach({s}, D \cup Reversed(D))
    BY <1>2 DEF Linked
  <2> HIDE DEF new, old, D
  <2> QED BY <1>2, <1>5, <2>1, ReachLeast
<1> QED BY <1>4, <1>6
-----------------------------------------------------------------------------
(* Settled scopes. *)

\* Past the fence a claim holds exactly the evidence of the component that its
\* root has now.
LEMMA FencedRecords ==
  ASSUME StoreType, Bookkeeping, NEW w \in Works, Honest(w), Fence(w)
  PROVE  /\ w.records = EvidenceOf(Linked(w.root, deps))
         /\ Members(w) = {s \in Linked(w.root, deps) : Exists(s)}
         /\ \A s \in Members(w) : w.seen[s] = rev[s] /\ Component(s) = Linked(w.root, deps)
<1> DEFINE L == Linked(w.root, deps)
<1>1. w.root \in Scopes /\ deps \in SUBSET (Scopes \X Scopes) /\ w.records \subseteq Records
  BY DEF Works, StoreType
<1>2. L \subseteq Scopes
  BY <1>1, LinkedHolds
<1>3. \A s \in Scopes : w.seen[s] = IF s \in L THEN rev[s] ELSE 0
  BY DEF Fence, SeenNow
<1>4. Members(w) = {s \in L : Exists(s)}
  BY <1>2, <1>3 DEF Members, Exists
<1>5. \A s \in L : Component(s) = L
  BY <1>1, LinkedSymmetric DEF Component, Linked
<1> HIDE DEF L
<1>6. ASSUME NEW r \in Records PROVE r \in w.records <=> r \in EvidenceOf(L)
  <2>1. ScopeOf[r] \in Scopes
    BY StoreAssumption
  <2>2. CASE Exists(ScopeOf[r]) /\ ScopeOf[r] \in L
    BY <1>3, <2>1, <2>2 DEF Honest, EvidenceOf
  <2>3. CASE ~(Exists(ScopeOf[r]) /\ ScopeOf[r] \in L)
    <3>1. ~(w.seen[ScopeOf[r]] > 0)
      BY <1>3, <2>1, <2>3 DEF Exists
    <3> QED BY <2>3, <3>1 DEF Honest, EvidenceOf, Bookkeeping
  <2> QED BY <2>2, <2>3
<1>7. w.records = EvidenceOf(L)
  BY <1>1, <1>6 DEF EvidenceOf, StoreType
<1> QED BY <1>3, <1>4, <1>5, <1>2, <1>7 DEF L

Settledness == SettledSeesAncestors /\ SettledComponentExact

\* Whoever the batch affects is pending; around the others nothing has changed.
LEMMA AcceptSettled ==
  ASSUME StoreType, Bookkeeping, Settledness, NEW b \in Batches, Accept(b)
  PROVE  Settledness'
<1>1. /\ Affected(b) \subseteq Scopes
      /\ \A s \in Affected(b) : rev'[s] = input + 1
      /\ \A s \in Scopes \ Affected(b) : rev'[s] = rev[s]
      /\ \A S \in SUBSET (Scopes \ Affected(b)) : EvidenceOf(S)' = EvidenceOf(S)
  BY AcceptMoves
<1>2. /\ processed' = processed /\ scopeGen' = scopeGen /\ target' = target
      /\ facts' = facts /\ deps' = NextDeps(b)
  BY DEF Accept, outputVars, genVars
<1>3. \A s \in Affected(b) : Pending(s)'
  BY <1>1, <1>2 DEF Bookkeeping, StoreType, Pending, Exists
<1>4. \A s \in Scopes \ Affected(b) :
        (Exists(s)' <=> Exists(s)) /\ (Pending(s)' <=> Pending(s))
  BY <1>1, <1>2 DEF Pending, Exists
<1>5. deps \in SUBSET (Scopes \X Scopes) /\ deps' \in SUBSET (Scopes \X Scopes)
  BY <1>2, FreshType DEF StoreType
<1>6. ASSUME NEW s \in Scopes, Exists(s)', ~Pending(s)'
      PROVE  EvidenceOf(Ancestors(s, deps))' \subseteq facts'[target'][s]
  <2>1. s \in Scopes \ Affected(b)
    BY <1>3, <1>6
  <2>2. EvidenceOf(Ancestors(s, deps)) \subseteq facts[target][s]
    BY <1>4, <1>6, <2>1 DEF Settledness, SettledSeesAncestors
  <2>3. Ancestors(s, deps') \subseteq Ancestors(s, deps) \ Affected(b)
    BY <1>2, <2>1, UnaffectedAncestors
  <2>4. Ancestors(s, deps) \subseteq Scopes
    BY <1>5, ReachCloses DEF Ancestors
  <2>5. Ancestors(s, deps') \in SUBSET (Scopes \ Affected(b))
    BY <2>3, <2>4
  <2>6. EvidenceOf(Ancestors(s, deps))' = EvidenceOf(Ancestors(s, deps'))
    BY <1>1, <2>5 DEF EvidenceOf
  <2>7. EvidenceOf(Ancestors(s, deps')) \subseteq EvidenceOf(Ancestors(s, deps))
    BY <2>3 DEF EvidenceOf
  <2> QED BY <1>2, <2>2, <2>6, <2>7
<1>7. ASSUME NEW s \in Scopes, Exists(s)', \A t \in Component(s)' : ~Pending(t)'
      PROVE  facts'[target'][s] = EvidenceOf(Component(s))'
  <2>1. Component(s)' = Linked(s, deps') /\ Component(s) = Linked(s, deps)
    BY DEF Component, Linked
  <2>2. Linked(s, deps') \cap Affected(b) = {}
    BY <1>3, <1>7, <2>1
  <2>3. Linked(s, deps') = Linked(s, deps)
    BY <1>2, <2>2, UnaffectedComponent
  <2>4. s \in Linked(s, deps) /\ Linked(s, deps) \subseteq Scopes
    BY <1>5, LinkedHolds
  <2>5. Exists(s) /\ \A t \in Component(s) : ~Pending(t)
    BY <1>4, <1>7, <2>1, <2>2, <2>3, <2>4
  <2>6. facts[target][s] = EvidenceOf(Component(s))
    BY <2>5 DEF Settledness, SettledComponentExact
  <2>7. EvidenceOf(Linked(s, deps))' = EvidenceOf(Linked(s, deps'))
    <3>1. Linked(s, deps') \in SUBSET (Scopes \ Affected(b))
      BY <2>2, <2>3, <2>4
    <3> QED BY <1>1, <3>1 DEF EvidenceOf, Linked, Reach, Closed, Reversed
  <2> QED BY <1>2, <2>1, <2>3, <2>6, <2>7 DEF EvidenceOf
<1> QED BY <1>6, <1>7 DEF Settledness, SettledSeesAncestors, SettledComponentExact

\* A publication settles the whole component its claim holds the evidence of.
LEMMA PublishSettled ==
  ASSUME StoreType, Bookkeeping, Settledness, NEW w \in Works, Honest(w), Publish(w)
  PROVE  Settledness'
<1> DEFINE L == Linked(w.root, deps)
<1>1. /\ w.records = EvidenceOf(L)
      /\ Members(w) = {s \in L : Exists(s)}
      /\ \A s \in Members(w) : Component(s) = L
  BY FencedRecords DEF Publish
<1>2. /\ evidence' = evidence /\ deps' = deps /\ rev' = rev /\ target' = target
      /\ target = w.gen /\ target \in Generations
  BY DEF Publish, Fence, inputVars, StoreType
<1>3. \A s \in Members(w) : s \in Scopes /\ facts'[target][s] = w.records
  BY <1>2 DEF Publish, Settled, Always, Members, StoreType
<1>4. \A s \in Scopes \ Members(w) :
        /\ facts'[target][s] = facts[target][s]
        /\ processed'[s] = processed[s] /\ scopeGen'[s] = scopeGen[s]
  BY <1>2 DEF Publish, Settled, Always, StoreType
<1>5. \A s \in Scopes : Exists(s)' <=> Exists(s)
  BY <1>2 DEF Exists
<1>6. \A s \in Scopes \ Members(w) : Pending(s)' <=> Pending(s)
  BY <1>2, <1>4 DEF Pending, Exists
<1>7. \A s \in Scopes : /\ Ancestors(s, deps) \subseteq Component(s)
                        /\ Component(s) \subseteq Scopes /\ s \in Component(s)
  BY AncestorsLinked, LinkedHolds DEF Component, Linked, StoreType
<1> HIDE DEF L
<1>8. ASSUME NEW s \in Scopes, Exists(s)', ~Pending(s)'
      PROVE  EvidenceOf(Ancestors(s, deps)) \subseteq facts'[target][s]
  <2>1. CASE s \in Members(w)
    BY <1>1, <1>3, <1>7, <2>1 DEF EvidenceOf
  <2>2. CASE s \notin Members(w)
    BY <1>4, <1>5, <1>6, <1>8, <2>2 DEF Settledness, SettledSeesAncestors
  <2> QED BY <2>1, <2>2
<1>9. ASSUME NEW s \in Scopes, Exists(s)', \A t \in Component(s) : ~Pending(t)'
      PROVE  facts'[target][s] = EvidenceOf(Component(s))
  <2>1. CASE s \in Members(w)
    BY <1>1, <1>3, <2>1
  <2>2. CASE s \notin Members(w)
    <3>1. \A t \in Component(s) : t \notin Members(w)
      <4>1. SUFFICES ASSUME NEW t \in Component(s), t \in Members(w) PROVE FALSE
        OBVIOUS
      <4>2. Component(t) = Component(s)
        BY LinkedSymmetric DEF Component, Linked, StoreType
      <4>3. s \in L
        BY <1>1, <1>7, <4>1, <4>2
      <4> QED BY <1>1, <1>5, <1>9, <2>2, <4>3
    <3>2. \A t \in Component(s) : ~Pending(t)
      BY <1>6, <1>7, <1>9, <3>1
    <3> QED BY <1>4, <1>5, <1>9, <2>2, <3>2 DEF Settledness, SettledComponentExact
  <2> QED BY <2>1, <2>2
<1> QED BY <1>2, <1>8, <1>9
        DEF Settledness, SettledSeesAncestors, SettledComponentExact, EvidenceOf,
            Ancestors, Component, Reach, Closed, Reversed

\* What settled scopes promise is inductive on top of the bookkeeping.
LEMMA SettledNext ==
  ASSUME Groundwork, Settledness, [Next]_vars
  PROVE  Settledness'
<1> USE DEF Groundwork, TypeOK
<1>1. ASSUME NEW b \in Batches, Accept(b) PROVE Settledness'
  BY <1>1, AcceptSettled
<1>2. ASSUME NEW w \in InProgress, Publish(w) PROVE Settledness'
  <2>1. w \in Works /\ Honest(w)
    BY DEF InProgress, ClaimsHonest
  <2> QED BY <1>2, <2>1, PublishSettled
<1>3. CASE Stage
  <2>1. target' = target + 1 /\ rev' = rev /\ scopeGen' = scopeGen /\ processed' = processed
    BY <1>3 DEF Stage
  <2>2. \A s \in Scopes : Exists(s)' => Pending(s)'
    BY <2>1 DEF Bookkeeping, StoreType, Pending, Exists, Generations
  <2>3. \A s \in Scopes : s \in Component(s)'
    <3>1. deps' \in SUBSET (Scopes \X Scopes)
      BY <1>3 DEF Stage, inputVars, StoreType
    <3> QED BY <3>1, LinkedHolds DEF Component, Linked
  <2> QED BY <2>2, <2>3 DEF Settledness, SettledSeesAncestors, SettledComponentExact
<1>4. CASE Quiet
  BY <1>4 DEF Quiet, inputVars, outputVars, genVars, Settledness, SettledSeesAncestors,
              SettledComponentExact, EvidenceOf, Exists, Pending, Ancestors, Component,
              Reach, Closed, Reversed
<1> QED BY <1>1, <1>2, <1>3, <1>4, StepEffects DEF StepEffect

\* A new database has no scope that promises anything.
LEMMA SettledInit == Init => Settledness
BY DEF Init, StoreInit, Settledness, SettledSeesAncestors, SettledComponentExact, Exists

\* What settled scopes promise holds in every reachable state.
LEMMA SettledHolds == Spec => []Settledness
<1>1. Groundwork /\ Settledness /\ [Next]_vars => Settledness'
  BY SettledNext
<1> QED BY <1>1, SettledInit, GroundworkHolds, PTL DEF Spec

\* Late ancestor evidence, late edges and interrupted generations never leave a
\* scope settled on less than what is held for it and its ancestors.
THEOREM NothingLeftBehind == Spec => []SettledSeesAncestors
<1>1. Settledness => SettledSeesAncestors
  BY DEF Settledness
<1> QED BY <1>1, SettledHolds, PTL

\* Once nothing of a component is pending, all of it was interpreted together.
THEOREM ComponentsExact == Spec => []SettledComponentExact
<1>1. Settledness => SettledComponentExact
  BY DEF Settledness
<1> QED BY <1>1, SettledHolds, PTL
\* What a publication writes is what its component holds at that moment, though it
\* was loaded long before: the fence's comparison of revisions is enough.
THEOREM PublicationsCurrent == Spec => PublishesCurrent
<1> DEFINE Current ==
      \A g \in Generations, s \in Scopes : facts'[g][s] # facts[g][s] =>
        facts'[g][s] = EvidenceOf(Component(s))
<1>1. ASSUME Groundwork, [Next]_vars PROVE Current
  <2> USE DEF Groundwork, TypeOK
  <2>1. ASSUME NEW w \in InProgress, Publish(w) PROVE Current
    <3>1. w \in Works /\ Honest(w)
      BY <1>1 DEF InProgress, ClaimsHonest
    <3>2. \A s \in Members(w) : w.records = EvidenceOf(Component(s))
      BY <1>1, <2>1, <3>1, FencedRecords DEF Publish
    <3>3. \A g \in Generations, s \in Scopes :
            facts'[g][s] = IF g = w.gen /\ s \in Members(w) THEN w.records ELSE facts[g][s]
      BY <1>1, <2>1, <3>1 DEF Publish, Settled, Always, StoreType, Works
    <3> QED BY <3>2, <3>3
  <2>2. CASE facts' = facts
    BY <2>2
  <2>3. \/ \E w \in InProgress : Publish(w)
        \/ facts' = facts
    BY <1>1, StepEffects DEF StepEffect, Accept, Stage, Quiet, outputVars
  <2> QED BY <2>1, <2>2, <2>3
<1>2. Spec => [][Current]_vars
  BY <1>1, GroundworkHolds, PTL DEF Spec
<1> QED BY <1>2 DEF PublishesCurrent
=============================================================================
