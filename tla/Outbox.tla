------------------------------- MODULE Outbox -------------------------------
(***************************************************************************)
(* The journal in the collector database (src/packages/core/               *)
(* rawcollectorstore): observations in the order they were captured, and   *)
(* for every token database it was ever bound to, how much of it has been  *)
(* acknowledged and the requests made from it.                             *)
(***************************************************************************)
EXTENDS Integers, FiniteSets, Functions

CONSTANTS
  Databases,     \* identities of token databases: a replacement gets another one
  MaxEntries     \* publication.MaxEntries

ASSUME OutboxAssumption == MaxEntries \in Nat \ {0}

VARIABLES
  stream,        \* evidence_state.stream_id
  outbox,        \* evidence_outbox: the observation of each sequence
  last,          \* sqlite_sequence: the newest sequence given out
  cursor,        \* evidence_destinations.acknowledged_sequence, by database
  pending,       \* evidence_batches without a receipt, by database
  receipts,      \* evidence_batches with their receipt, by database
  issued         \* batch ids are random: this many have been drawn

journalVars == <<outbox, last>>
requestVars == <<cursor, pending, receipts, issued>>
outboxVars  == <<stream, journalVars, requestVars>>

OutboxInit ==
  /\ stream = 1
  /\ outbox = << >> /\ last = 0
  /\ cursor = [d \in Databases |-> 0]
  /\ pending = [d \in Databases |-> {}]
  /\ receipts = [d \in Databases |-> {}]
  /\ issued = 0

-----------------------------------------------------------------------------
Held == Range(outbox)

\* Mutant: every observation takes a sequence, those ignored as duplicates too.
AlsoIgnored(R) == (last + 1)..(last + Cardinality(R))

\* The sequences a capture uses up: the existence check comes before the insert.
Slots(R) == (last + 1)..(last + Cardinality(R \ Held))

\* One capture transaction: the observations not held yet are appended.
Observe(R) ==
  /\ last' = last + Cardinality(Slots(R))
  /\ \E place \in Injection(R \ Held, Slots(R)) :
       outbox' = [n \in DOMAIN outbox \cup Range(place) |->
                    IF n \in DOMAIN outbox THEN outbox[n]
                    ELSE CHOOSE r \in R \ Held : place[r] = n]
  /\ UNCHANGED <<stream, requestVars>>

\* Mutant: whatever token database is behind the endpoint.
AnyDatabase(d) == CHOOSE e \in Databases : \A f \in Databases : e <= f

\* ResolveDestination: each token database has a cursor and requests of its own.
Destination(d) == d

\* The sequences a destination has not acknowledged, and the rows Prepare fetches.
Unsent(d)  == {n \in DOMAIN outbox : n > cursor[d]}
Fetched(d) == {n \in Unsent(d) : Cardinality({m \in Unsent(d) : m <= n}) <= MaxEntries}

\* encodeBatchPrefix stops at the first row that is not the next one: outbox_gap.
Gap(d) == Fetched(d) # (cursor[d] + 1)..(cursor[d] + Cardinality(Fetched(d)))

\* A request for the next n observations, under a fresh batch id.
Request(d, n) ==
  [stream |-> stream, id |-> issued + 1, from |-> cursor[d] + 1,
   entries |-> [i \in 1..n |-> outbox[cursor[d] + i]]]

\* An unacknowledged request is kept: it is sent again, byte for byte.
Saved(d) == pending[d] # {}

\* Prepare makes a request when there is none.  The body limit may cut it short
\* anywhere after its first entry.
Prepare(d) ==
  /\ ~Saved(d)
  /\ ~Gap(d)
  /\ \E n \in 1..Cardinality(Fetched(d)) :
       pending' = [pending EXCEPT ![d] = {Request(d, n)}]
  /\ issued' = issued + 1
  /\ UNCHANGED <<stream, journalVars, cursor, receipts>>

\* The last sequence of a request.
To(b) == b.from + Cardinality(DOMAIN b.entries) - 1

\* Ack of the pending request moves its receipt and the cursor together; with none
\* pending a receipt that is stored already is taken again.
Ack(d, receipt) ==
  IF pending[d] = {} THEN receipt \in receipts[d] /\ UNCHANGED outboxVars ELSE
  /\ receipt.batch \in pending[d]
  /\ cursor[d] + 1 = receipt.batch.from
  /\ pending' = [pending EXCEPT ![d] = {}]
  /\ receipts' = [receipts EXCEPT ![d] = receipts[d] \cup {receipt}]
  /\ cursor' = [cursor EXCEPT ![d] = To(receipt.batch)]
  /\ UNCHANGED <<stream, journalVars, issued>>

\* A new collector database draws a stream of its own.
NextStream == stream + 1

\* The collector database is moved aside and a new one is created.
Restart ==
  /\ stream' = NextStream
  /\ outbox' = << >> /\ last' = 0
  /\ cursor' = [d \in Databases |-> 0]
  /\ pending' = [d \in Databases |-> {}]
  /\ receipts' = [d \in Databases |-> {}]
  /\ UNCHANGED issued
=============================================================================
