------------------------------ MODULE Delivery ------------------------------
(***************************************************************************)
(* Collection runs (src/packages/core/collector): capture into the         *)
(* outbox, then send what the token database has not acknowledged.  Runs   *)
(* live in the process that owns the token database; they may be           *)
(* cancelled anywhere, lose an answer, or die with the process, and either *)
(* database may be replaced while no process has it open.                  *)
(*                                                                         *)
(* The processor is not part of this composition: it only reads what       *)
(* Accept writes.                                                          *)
(***************************************************************************)
EXTENDS TokenStore, Outbox

CONSTANTS
  Runs,          \* collection runs that may overlap in one process
  MaxStreams,    \* bound: collector databases in a behaviour
  MaxStops,      \* bound: process deaths in a behaviour
  MaxFailures    \* bound: cancelled runs and lost answers in a behaviour

ASSUME DeliveryAssumption ==
  /\ Databases = 1..Cardinality(Databases) /\ IsFiniteSet(Databases) /\ Databases # {}
  /\ IsFiniteSet(Records)      \* evidence ids are digests of one length
  /\ MaxStreams \in Nat /\ MaxStops \in Nat /\ MaxFailures \in Nat

VARIABLES
  database,      \* ingestion_metadata.database_id
  phase,         \* where each run is
  request,       \* the saved request a run is sending
  answer,        \* the receipt a run got for it
  stops, failures

runVars   == <<phase, request, answer>>
boundVars == <<stops, failures>>
deliveryVars == <<storeVars, outboxVars, database, runVars, boundVars>>

Phases == {"idle", "capturing", "queued", "preparing", "sending", "answered"}
Running == binary > 0

-----------------------------------------------------------------------------
\* Mutant: every run sends for itself.
Unserialized == TRUE

\* The delivery lock of this token database is held from the queue to the end.
DeliveryFree == \A q \in Runs : phase[q] \in {"idle", "capturing", "queued"}

\* The collector's writer lock: a capture holds it throughout, the journal
\* operations of a sending run for a moment, and no one during a transport.
WriterFree == \A q \in Runs : phase[q] # "capturing"

Goto(p, where) == phase' = [phase EXCEPT ![p] = where]

\* A run ends: its locks are released and its memory is gone.
Ends(p) ==
  /\ Goto(p, "idle")
  /\ request' = [request EXCEPT ![p] = {}]
  /\ answer' = [answer EXCEPT ![p] = {}]

Start(p) ==
  /\ Running
  /\ phase[p] = "idle"
  /\ WriterFree
  /\ Goto(p, "capturing")
  /\ UNCHANGED <<storeVars, outboxVars, database, request, answer, boundVars>>

\* The records of one source, committed with its checkpoint.
CaptureSource(p, R) ==
  /\ phase[p] = "capturing"
  /\ Observe(R)
  /\ UNCHANGED <<storeVars, database, runVars, boundVars>>

\* A run sends what there is whether its capture succeeded or not.
EndCapture(p) ==
  /\ phase[p] = "capturing"
  /\ Goto(p, "queued")
  /\ UNCHANGED <<storeVars, outboxVars, database, request, answer, boundVars>>

AcquireDelivery(p) ==
  /\ phase[p] = "queued"
  /\ DeliveryFree
  /\ Goto(p, "preparing")
  /\ UNCHANGED <<storeVars, outboxVars, database, request, answer, boundVars>>

\* A saved request comes first.
Resume(p) ==
  /\ phase[p] = "preparing" /\ WriterFree
  /\ Saved(Destination(database))
  /\ request' = [request EXCEPT ![p] = pending[Destination(database)]]
  /\ Goto(p, "sending")
  /\ UNCHANGED <<storeVars, outboxVars, database, answer, boundVars>>

PrepareNext(p) ==
  /\ phase[p] = "preparing" /\ WriterFree
  /\ Unsent(Destination(database)) # {}
  /\ Prepare(Destination(database))
  /\ request' = [request EXCEPT ![p] = pending'[Destination(database)]]
  /\ Goto(p, "sending")
  /\ UNCHANGED <<storeVars, database, answer, boundVars>>

\* Everything is acknowledged, or the journal has a gap.
Finish(p) ==
  /\ phase[p] = "preparing" /\ WriterFree
  /\ ~Saved(Destination(database))
  /\ Unsent(Destination(database)) = {} \/ Gap(Destination(database))
  /\ Ends(p)
  /\ UNCHANGED <<storeVars, outboxVars, database, boundVars>>

\* The receipt the store keeps for a batch.
Receipt(b) == CHOOSE k \in batches : k.batch = b

Replayed(b) == \E k \in batches : k.batch = b

\* Submit: the batch is accepted now, or it was and the receipt is read back.
Submit(p) ==
  /\ phase[p] = "sending"
  /\ \E b \in request[p] :
       \/ /\ Accept(b)
          /\ answer' = [answer EXCEPT ![p] = {[batch |-> b, revision |-> NextInput(b)]}]
       \/ /\ Readable /\ Replayed(b)
          /\ answer' = [answer EXCEPT ![p] = {Receipt(b)}]
          /\ UNCHANGED storeVars
  /\ Goto(p, "answered")
  /\ UNCHANGED <<outboxVars, database, request, boundVars>>

\* batch_conflict, revision_limit, sequence_conflict.
Rejected(b) ==
  \/ Known(b) /\ ~Replayed(b)
  \/ ~Known(b) /\ (InputLimit \/ SequenceConflict(b))

\* The transaction commits and its answer is lost.
LoseAnswer(p) ==
  /\ phase[p] = "sending"
  /\ failures < MaxFailures
  /\ failures' = failures + 1
  /\ \E b \in request[p] : Accept(b)
  /\ Ends(p)
  /\ UNCHANGED <<outboxVars, database, stops>>

\* A receipt the journal takes.
Acknowledgeable(k) ==
  IF pending[Destination(database)] = {} THEN k \in receipts[Destination(database)]
  ELSE k.batch \in pending[Destination(database)]
       /\ cursor[Destination(database)] + 1 = k.batch.from

AckAnswer(p) ==
  /\ phase[p] = "answered" /\ WriterFree
  /\ \E k \in answer[p] : Ack(Destination(database), k)
  /\ Goto(p, "preparing")
  /\ request' = [request EXCEPT ![p] = {}]
  /\ answer' = [answer EXCEPT ![p] = {}]
  /\ UNCHANGED <<storeVars, database, boundVars>>

\* The store refuses the request, or the journal the receipt.
Fails(p) ==
  \/ phase[p] = "sending" /\ \E b \in request[p] : Rejected(b)
  \/ phase[p] = "answered" /\ \E k \in answer[p] : ~Acknowledgeable(k)

\* A run ends early: it fails, a lock times out, admission is busy, a transaction
\* does not commit, or the run is cancelled.
GiveUp(p) ==
  /\ phase[p] # "idle"
  /\ Fails(p) \/ failures < MaxFailures
  /\ failures' = IF Fails(p) THEN failures ELSE failures + 1
  /\ Ends(p)
  /\ UNCHANGED <<storeVars, outboxVars, database, stops>>

-----------------------------------------------------------------------------
\* The process and its runs die; the kernel releases the locks.
Stop ==
  /\ Running
  /\ stops < MaxStops
  /\ stops' = stops + 1
  /\ binary' = 0
  /\ phase' = [p \in Runs |-> "idle"]
  /\ request' = [p \in Runs |-> {}] /\ answer' = [p \in Runs |-> {}]
  /\ UNCHANGED <<inputVars, scopeVars, outputVars, genVars, outboxVars, database, failures>>

Open ==
  /\ ~Running
  /\ binary' = 1
  /\ UNCHANGED <<inputVars, scopeVars, outputVars, genVars, outboxVars, database, runVars, boundVars>>

\* resetServer moves the token database aside; the next owner creates another.
ReplaceDatabase ==
  /\ ~Running
  /\ database + 1 \in Databases
  /\ database' = database + 1
  /\ evidence' = {} /\ deps' = {} /\ batches' = {} /\ input' = 0
  /\ rev' = [s \in Scopes |-> 0]
  /\ UNCHANGED <<processed, scopeGen, attempts, retry, outputVars, genVars, binary,
                 outboxVars, runVars, boundVars>>

ReplaceCollector ==
  /\ ~Running
  /\ stream < MaxStreams
  /\ Restart
  /\ UNCHANGED <<storeVars, database, runVars, boundVars>>

-----------------------------------------------------------------------------
Init ==
  /\ StoreInit
  /\ OutboxInit
  /\ database = 1
  /\ phase = [p \in Runs |-> "idle"]
  /\ request = [p \in Runs |-> {}] /\ answer = [p \in Runs |-> {}]
  /\ stops = 0 /\ failures = 0

\* What a run does once it is asked for and nothing goes wrong.
Proceed(p) ==
  \/ EndCapture(p) \/ AcquireDelivery(p) \/ Resume(p) \/ PrepareNext(p) \/ Finish(p)
  \/ Submit(p) \/ AckAnswer(p)

Next ==
  \/ \E p \in Runs :
       \/ Start(p) \/ Proceed(p) \/ LoseAnswer(p) \/ GiveUp(p)
       \/ \E R \in (SUBSET Records) \ {{}} : CaptureSource(p, R)
  \/ Stop \/ Open \/ ReplaceDatabase \/ ReplaceCollector

(***************************************************************************)
(* Fairness.  Runs are asked for again and again (every viewer starts one  *)
(* and the user refreshes), a run that is going goes on, and a stopped     *)
(* program is started again.  Nothing is assumed of captures.              *)
(***************************************************************************)
Fairness ==
  /\ WF_deliveryVars(Open)
  /\ \A p \in Runs :
       /\ WF_deliveryVars(Start(p))
       /\ WF_deliveryVars(Proceed(p) \/ (Fails(p) /\ GiveUp(p)))

Spec == Init /\ [][Next]_deliveryVars
FairSpec == Spec /\ Fairness

-----------------------------------------------------------------------------
\* What the token database accepted from the current collector database.
Accepted == {x \in UNION {Items(k.batch) : k \in batches} : x[1] = stream}

TypeOK ==
  /\ DOMAIN outbox \subseteq 1..last /\ Held \subseteq Records
  /\ \A d \in Databases : cursor[d] \in 0..last /\ Cardinality(pending[d]) <= 1
  /\ phase \in [Runs -> Phases]
  /\ \A p \in Runs : phase[p] = "sending" => request[p] # {}
  /\ database \in Databases

\* What a token database acknowledged it holds, under the same sequences: no lost
\* answer, crash, replay or replaced database moves a cursor past accepted evidence
\* (Ack, ResolveDestination).
AcknowledgedIsHeld ==
  \A n \in 1..cursor[Destination(database)] :
    n \in DOMAIN outbox /\ <<stream, n, outbox[n]>> \in Accepted /\ outbox[n] \in evidence

\* A run only ever sends the request its token database has not acknowledged yet,
\* and never one the store must refuse: whatever was repeated, cut differently or
\* replaced, its sequences mean what they meant before (the delivery lock in
\* publishRaw; batch_conflict and sequence_conflict in Accept).
SendsWhatIsDue ==
  \A p \in Runs :
    /\ phase[p] = "sending" => request[p] = pending[database]
    /\ \A b \in request[p] : ~Rejected(b)

\* The sequence of the n-th observation.
Place(n) == CHOOSE m \in DOMAIN outbox : Cardinality({k \in DOMAIN outbox : k <= m}) = n

Copies == INSTANCE Replication WITH
  journal <- [n \in 1..Cardinality(DOMAIN outbox) |-> outbox[Place(n)]],
  copy <- [n \in {x[2] : x \in Accepted} |-> (CHOOSE x \in Accepted : x[2] = n)[3]]

\* Seen from outside, delivery copies the journal: in order, without gaps, and in
\* the end completely (publishRaw, Prepare, Accept and Ack together).
DeliversJournal == Copies!Spec
=============================================================================
