-------------------------- MODULE Delivery_proofs --------------------------
(***************************************************************************)
(* Delivery for every number of overlapping runs, every set of records and *)
(* databases, every request limit and any number of crashes, lost answers  *)
(* and replaced databases: what a token database acknowledged it holds, a  *)
(* run sends what is due and nothing the store must refuse, and delivery   *)
(* implements Replication.                                                 *)
(***************************************************************************)
EXTENDS Delivery, FiniteSetTheorems, SequenceTheorems, TLAPS

-----------------------------------------------------------------------------
(* The journal. *)

\* The journal numbers the observations from one on, without gaps and each once.
JournalHolds ==
  /\ last \in Nat /\ stream \in Nat \ {0} /\ issued \in Nat
  /\ outbox \in [1..last -> Records]
  /\ \A m, n \in 1..last : outbox[m] = outbox[n] => m = n
  /\ cursor \in [Databases -> Nat]
  /\ pending = [d \in Databases |-> pending[d]]
  /\ database \in Databases

\* The n numbers after a are n in number.
LEMMA IntervalCount ==
  ASSUME NEW a \in Nat, NEW n \in Nat
  PROVE  IsFiniteSet((a + 1)..(a + n)) /\ Cardinality((a + 1)..(a + n)) = n
<1> DEFINE from == a + 1
           to   == a + n
<1>1. from \in Int /\ to \in Int
  OBVIOUS
<1>2. IsFiniteSet(from..to) /\ Cardinality(from..to) = IF from > to THEN 0 ELSE to - from + 1
  <2> HIDE DEF from, to
  <2> QED BY <1>1, FS_Interval
<1>3. (IF from > to THEN 0 ELSE to - from + 1) = n
  OBVIOUS
<1> QED BY <1>2, <1>3

\* A capture transaction extends the journal: what was in it stays where it was
\* (the insert into evidence_outbox, whose sequence is AUTOINCREMENT).
LEMMA ObserveExtends ==
  ASSUME JournalHolds, NEW R \in SUBSET Records, Observe(R)
  PROVE  /\ last' \in Nat /\ last' >= last
         /\ outbox' \in [1..last' -> Records]
         /\ \A n \in 1..last : outbox'[n] = outbox[n]
         /\ \A m, n \in 1..last' : outbox'[m] = outbox'[n] => m = n
<1> DEFINE New == R \ Held
<1>1. IsFiniteSet(New) /\ Cardinality(New) \in Nat
  BY DeliveryAssumption, FS_Subset, FS_CardinalityType
<1>2. IsFiniteSet(Slots(R)) /\ Cardinality(Slots(R)) = Cardinality(New)
  <2>1. Slots(R) = (last + 1)..(last + Cardinality(New))
    BY DEF Slots
  <2> HIDE DEF New
  <2> QED BY <1>1, <2>1, IntervalCount DEF JournalHolds
<1>3. last' = last + Cardinality(New)
  BY <1>2 DEF Observe
<1>4. PICK place \in Injection(New, Slots(R)) :
        outbox' = [n \in DOMAIN outbox \cup Range(place) |->
                    IF n \in DOMAIN outbox THEN outbox[n]
                    ELSE CHOOSE r \in R \ Held : place[r] = n]
  BY DEF Observe
<1>5. place \in [New -> Slots(R)] /\ IsInjective(place)
  BY <1>4 DEF Injection
<1>6. \A n \in Slots(R) : \E r \in New : place[r] = n
  <2>1. place \in Surjection(New, Slots(R))
    BY <1>2, <1>4, FS_Injection
  <2> QED BY <2>1 DEF Surjection
<1>7. Range(place) = Slots(R)
  BY <1>5, <1>6 DEF Range
<1>8. DOMAIN outbox = 1..last /\ DOMAIN outbox \cup Range(place) = 1..last'
  BY <1>1, <1>3, <1>7 DEF JournalHolds, Slots
<1>9. \A n \in 1..last : outbox'[n] = outbox[n]
  BY <1>4, <1>8
<1>10. ASSUME NEW n \in 1..last', n \notin 1..last
       PROVE  outbox'[n] \in New /\ place[outbox'[n]] = n
  <2>1. n \in Slots(R)
    BY <1>7, <1>8, <1>10
  <2>2. outbox'[n] = CHOOSE r \in R \ Held : place[r] = n
    BY <1>4, <1>8, <1>10
  <2> QED BY <1>6, <2>1, <2>2
<1>11. outbox' \in [1..last' -> Records]
  <2>1. \A n \in 1..last' : outbox'[n] \in Records
    BY <1>9, <1>10 DEF JournalHolds
  <2>2. outbox' = [n \in 1..last' |-> outbox'[n]]
    BY <1>4, <1>8
  <2> QED BY <2>1, <2>2
<1>12. ASSUME NEW m \in 1..last', NEW n \in 1..last', outbox'[m] = outbox'[n] PROVE m = n
  <2>1. \A i \in 1..last : outbox'[i] \in Held
    BY <1>8, <1>9 DEF Held, Range
  <2>2. CASE m \in 1..last /\ n \in 1..last
    BY <1>9, <1>12, <2>2 DEF JournalHolds
  <2>3. CASE m \notin 1..last /\ n \notin 1..last
    BY <1>10, <1>12, <2>3
  <2>4. \A i \in 1..last' : i \notin 1..last => outbox'[i] \notin Held
    BY <1>10
  <2> QED BY <1>12, <2>1, <2>2, <2>3, <2>4
<1>13. last' \in Nat /\ last' >= last
  <2> HIDE DEF New
  <2> QED BY <1>1, <1>3 DEF JournalHolds
<1> QED BY <1>9, <1>11, <1>12, <1>13

\* With no gaps the next rows of the journal are the ones a request takes.
LEMMA FetchedNext ==
  ASSUME JournalHolds, NEW d \in Databases, ~Gap(d), NEW n \in 1..Cardinality(Fetched(d))
  PROVE  n \in Nat \ {0} /\ cursor[d] + n <= last
<1>1. Fetched(d) \subseteq 1..last
  <2>1. DOMAIN outbox = 1..last
    BY DEF JournalHolds
  <2> QED BY <2>1 DEF Fetched, Unsent
<1>2. Cardinality(Fetched(d)) \in Nat
  <2>1. 1 \in Int /\ last \in Int
    BY DEF JournalHolds
  <2>2. IsFiniteSet(1..last)
    BY <2>1, FS_Interval
  <2>3. Fetched(d) \in SUBSET (1..last)
    BY <1>1
  <2>4. IsFiniteSet(Fetched(d))
    BY <2>2, <2>3, FS_Subset
  <2> QED BY <2>4, FS_CardinalityType
<1>3. Fetched(d) = (cursor[d] + 1)..(cursor[d] + Cardinality(Fetched(d)))
  BY DEF Gap
<1>4. cursor[d] + n \in Fetched(d)
  BY <1>2, <1>3 DEF JournalHolds
<1> QED BY <1>1, <1>2, <1>4 DEF JournalHolds

-----------------------------------------------------------------------------
(* What the runs hold. *)

Owning == {"preparing", "sending", "answered"}

\* One run at a time is past the delivery lock; what it sends is what its token
\* database has pending, its receipt is stored, and no run outlives the process.
\* A token database that is not there yet has nothing acknowledged or pending.
RunsHold ==
  /\ phase \in [Runs -> Phases]
  /\ request = [p \in Runs |-> request[p]] /\ answer = [p \in Runs |-> answer[p]]
  /\ \A p, q \in Runs : phase[p] \in Owning /\ phase[q] \in Owning => p = q
  /\ \A p \in Runs :
       /\ request[p] = IF phase[p] \in {"sending", "answered"} THEN pending[database] ELSE {}
       /\ phase[p] # "answered" => answer[p] = {}
       /\ answer[p] \subseteq batches
       /\ ~Running => phase[p] = "idle"
  /\ \A e \in Databases : e > database => cursor[e] = 0 /\ pending[e] = {}

-----------------------------------------------------------------------------
(* The requests. *)

\* The entries of a request are the journal's, at its sequences.
Copied(b) ==
  \A i \in DOMAIN b.entries :
    b.from + i - 1 \in 1..last /\ b.entries[i] = outbox[b.from + i - 1]

WellMade(b) ==
  /\ b.stream \in 1..stream /\ b.id \in 1..issued /\ b.from \in Nat \ {0}
  /\ \E n \in Nat \ {0} : b.entries \in [1..n -> Records]
  /\ b.stream = stream => Copied(b)

InUse == (UNION {pending[d] : d \in Databases}) \cup {k.batch : k \in batches}

\* A batch id names one request for good, and a pending request continues what
\* its token database acknowledged.
RequestsSound ==
  /\ \A b \in InUse : WellMade(b)
  /\ \A b, c \in InUse : b.id = c.id => b = c
  /\ \A d \in Databases : \A b \in pending[d] : b.stream = stream /\ b.from = cursor[d] + 1

\* The store keeps the evidence of every batch it accepted.
StoreKeeps ==
  /\ evidence \subseteq Records
  /\ input \in Nat /\ input <= Cardinality(evidence)
  /\ \A k \in batches : \A i \in DOMAIN k.batch.entries : k.batch.entries[i] \in evidence

\* What the store accepted is the journal up to some sequence, and no less than
\* what its token database acknowledged.
Through(a) == Accepted = {<<stream, n, outbox[n]>> : n \in 1..a}
AcceptedPrefix == \E a \in 0..last : cursor[database] <= a /\ Through(a)

DeliveryInv == JournalHolds /\ RunsHold /\ RequestsSound /\ StoreKeeps /\ AcceptedPrefix

-----------------------------------------------------------------------------
(* What a step does to the journal and the store. *)

journalled == <<outboxVars, database>>
accepted == <<evidence, batches, input>>

\* Seen from the journal and the store, a step is one of six: a capture, a new
\* request, the acceptance of the pending one, its acknowledgement, or the
\* replacement of a database while nothing runs.  Any other leaves both alone.
LEMMA StepEffects ==
  ASSUME JournalHolds, RunsHold, [Next]_deliveryVars
  PROVE  \/ UNCHANGED <<journalled, accepted>>
         \/ \E R \in SUBSET Records : Observe(R) /\ UNCHANGED <<database, accepted>>
         \/ Prepare(database) /\ UNCHANGED <<database, accepted>>
         \/ \E b \in pending[database] : Accept(b) /\ UNCHANGED journalled
         \/ /\ \E k \in batches : k.batch \in pending[database] /\ Ack(database, k)
            /\ UNCHANGED <<database, accepted>>
         \/ ~Running /\ ReplaceDatabase
         \/ ~Running /\ ReplaceCollector
<1> USE DEF journalled, accepted, storeVars, inputVars
<1>1. CASE UNCHANGED deliveryVars
  BY <1>1 DEF deliveryVars
<1>2. ASSUME NEW p \in Runs,
             Start(p) \/ EndCapture(p) \/ AcquireDelivery(p) \/ Resume(p) \/ Finish(p) \/ GiveUp(p)
      PROVE  UNCHANGED <<journalled, accepted>>
  BY <1>2 DEF Start, EndCapture, AcquireDelivery, Resume, Finish, GiveUp
<1>3. ASSUME NEW p \in Runs, NEW R \in SUBSET Records, CaptureSource(p, R)
      PROVE  Observe(R) /\ UNCHANGED <<database, accepted>>
  BY <1>3 DEF CaptureSource
<1>4. ASSUME NEW p \in Runs, PrepareNext(p)
      PROVE  Prepare(database) /\ UNCHANGED <<database, accepted>>
  BY <1>4 DEF PrepareNext, Destination
<1>5. ASSUME NEW p \in Runs, Submit(p)
      PROVE  \/ UNCHANGED <<journalled, accepted>>
             \/ \E b \in pending[database] : Accept(b) /\ UNCHANGED journalled
  BY <1>5 DEF Submit, RunsHold
<1>6. ASSUME NEW p \in Runs, LoseAnswer(p)
      PROVE  \E b \in pending[database] : Accept(b) /\ UNCHANGED journalled
  BY <1>6 DEF LoseAnswer, RunsHold
<1>7. ASSUME NEW p \in Runs, AckAnswer(p)
      PROVE  \/ UNCHANGED <<journalled, accepted>>
             \/ /\ \E k \in batches : k.batch \in pending[database] /\ Ack(database, k)
                /\ UNCHANGED <<database, accepted>>
  <2>1. PICK k \in answer[p] : Ack(database, k)
    BY <1>7 DEF AckAnswer, Destination
  <2>2. k \in batches
    BY <2>1 DEF RunsHold
  <2>3. UNCHANGED <<database, accepted>>
    BY <1>7 DEF AckAnswer
  <2> QED BY <2>1, <2>2, <2>3 DEF Ack
<1>8. CASE Stop \/ Open
  BY <1>8 DEF Stop, Open
<1>9. CASE ReplaceDatabase \/ ReplaceCollector
  BY <1>9 DEF ReplaceDatabase, ReplaceCollector
<1> QED BY <1>1, <1>2, <1>3, <1>4, <1>5, <1>6, <1>7, <1>8, <1>9 DEF Next, Proceed

\* Token databases are numbered in the order they replace one another.
LEMMA DatabasesNumbered == Databases \subseteq Nat \ {0}
<1>1. Cardinality(Databases) \in Nat
  BY DeliveryAssumption, FS_CardinalityType
<1>2. Databases = 1..Cardinality(Databases)
  BY DeliveryAssumption
<1> QED BY <1>1, <1>2

\* The delivery lock keeps its promise, and what a run sends stays the pending
\* request (publishRaw under the delivery lock, Prepare, Ack).
LEMMA RunsNext ==
  JournalHolds /\ RunsHold /\ [Next]_deliveryVars => RunsHold'
<1> SUFFICES ASSUME JournalHolds, RunsHold, [Next]_deliveryVars PROVE RunsHold'
  OBVIOUS
<1> USE DEF RunsHold, Owning, Phases, Running
<1>1. CASE UNCHANGED deliveryVars
  BY <1>1 DEF deliveryVars, storeVars, inputVars, outboxVars, requestVars, runVars
<1>2. ASSUME NEW p \in Runs, Start(p) \/ EndCapture(p) PROVE RunsHold'
  BY <1>2 DEF Start, EndCapture, Goto, storeVars, inputVars, outboxVars, requestVars
<1>3. ASSUME NEW p \in Runs, AcquireDelivery(p) PROVE RunsHold'
  BY <1>3 DEF AcquireDelivery, DeliveryFree, Goto, storeVars, inputVars, outboxVars, requestVars
<1>4. ASSUME NEW p \in Runs, Resume(p) PROVE RunsHold'
  BY <1>4 DEF Resume, Destination, Goto, storeVars, inputVars, outboxVars, requestVars
<1>5. ASSUME NEW p \in Runs, Finish(p) \/ GiveUp(p) PROVE RunsHold'
  BY <1>5 DEF Finish, GiveUp, Ends, Goto, storeVars, inputVars, outboxVars, requestVars
<1>6. ASSUME NEW p \in Runs, NEW R \in SUBSET Records, CaptureSource(p, R) PROVE RunsHold'
  BY <1>6 DEF CaptureSource, Observe, storeVars, inputVars, requestVars, runVars
<1>7. ASSUME NEW p \in Runs, PrepareNext(p) PROVE RunsHold'
  <2>1. phase[p] = "preparing" /\ phase' = [phase EXCEPT ![p] = "sending"]
    BY <1>7 DEF PrepareNext, Goto
  <2>2. PICK b : pending' = [pending EXCEPT ![database] = {b}]
    BY <1>7 DEF PrepareNext, Prepare, Destination
  <2>3. request' = [request EXCEPT ![p] = pending'[database]]
    BY <1>7 DEF PrepareNext, Destination
  <2>4. UNCHANGED <<batches, binary, database, answer, cursor>>
    BY <1>7 DEF PrepareNext, Prepare, Destination, storeVars, inputVars
  <2>5. \A e \in Databases : e > database => pending'[e] = pending[e]
    BY <2>2, DatabasesNumbered DEF JournalHolds
  <2>6. \A q \in Runs : q # p => phase[q] \notin Owning
    BY <2>1
  <2>7. \A q \in Runs : request'[q] = IF phase'[q] \in {"sending", "answered"}
                                     THEN pending'[database'] ELSE {}
    BY <2>1, <2>3, <2>4, <2>6
  <2> QED BY <2>1, <2>3, <2>4, <2>5, <2>6, <2>7
<1>8. ASSUME NEW p \in Runs, Submit(p) PROVE RunsHold'
  <2>1. phase[p] = "sending" /\ phase' = [phase EXCEPT ![p] = "answered"]
    BY <1>8 DEF Submit, Goto
  <2>2. UNCHANGED <<request, pending, cursor, database>>
    BY <1>8 DEF Submit, outboxVars, requestVars
  <2>3. PICK b \in request[p] :
          \/ Accept(b) /\ answer' = [answer EXCEPT ![p] = {[batch |-> b, revision |-> NextInput(b)]}]
          \/ Replayed(b) /\ answer' = [answer EXCEPT ![p] = {Receipt(b)}] /\ UNCHANGED storeVars
    BY <1>8 DEF Submit
  <2>4. batches \subseteq batches' /\ binary' = binary
    BY <2>3 DEF Accept, storeVars, inputVars
  <2>5. \A q \in Runs : answer'[q] = IF q = p THEN answer'[p] ELSE answer[q]
    BY <2>3
  <2>6. answer'[p] \subseteq batches'
    <3>1. CASE Accept(b) /\ answer' = [answer EXCEPT ![p] = {[batch |-> b, revision |-> NextInput(b)]}]
      BY <3>1 DEF Accept
    <3>2. CASE Replayed(b) /\ answer' = [answer EXCEPT ![p] = {Receipt(b)}] /\ UNCHANGED storeVars
      BY <3>2 DEF Replayed, Receipt, storeVars, inputVars
    <3> QED BY <2>3, <3>1, <3>2
  <2>7. answer' = [q \in Runs |-> answer'[q]]
    BY <2>3
  <2> QED BY <2>1, <2>2, <2>4, <2>5, <2>6, <2>7
<1>9. ASSUME NEW p \in Runs, LoseAnswer(p) PROVE RunsHold'
  <2>1. batches \subseteq batches' /\ binary' = binary
    BY <1>9 DEF LoseAnswer, Accept
  <2> QED BY <1>9, <2>1 DEF LoseAnswer, Ends, Goto, outboxVars, requestVars
<1>10. ASSUME NEW p \in Runs, AckAnswer(p) PROVE RunsHold'
  <2>1. /\ phase[p] = "answered" /\ phase' = [phase EXCEPT ![p] = "preparing"]
        /\ request' = [request EXCEPT ![p] = {}] /\ answer' = [answer EXCEPT ![p] = {}]
        /\ UNCHANGED <<batches, binary, database>>
    BY <1>10 DEF AckAnswer, Goto, storeVars, inputVars
  <2>2. PICK k \in answer[p] : Ack(database, k)
    BY <1>10 DEF AckAnswer, Destination
  <2>3. \A e \in Databases : e # database => pending'[e] = pending[e] /\ cursor'[e] = cursor[e]
    BY <2>2 DEF Ack, outboxVars, requestVars, JournalHolds
  <2>4. \A e \in Databases : e > database => e # database
    BY DatabasesNumbered DEF JournalHolds
  <2> QED BY <2>1, <2>3, <2>4
<1>11. CASE Stop
  BY <1>11 DEF Stop, inputVars, outboxVars, requestVars
<1>12. CASE Open
  BY <1>12 DEF Open, inputVars, outboxVars, requestVars, runVars
<1>13. CASE ReplaceDatabase
  <2>1. database' = database + 1 /\ UNCHANGED <<binary, pending, cursor, phase, request, answer>>
    BY <1>13 DEF ReplaceDatabase, outboxVars, requestVars, runVars
  <2>2. \A p \in Runs : phase[p] = "idle" /\ answer[p] = {}
    BY <1>13 DEF ReplaceDatabase
  <2>3. \A e \in Databases : e > database' => e > database
    BY <2>1, DatabasesNumbered DEF JournalHolds
  <2> QED BY <2>1, <2>2, <2>3
<1>14. CASE ReplaceCollector
  <2>1. /\ cursor' = [d \in Databases |-> 0] /\ pending' = [d \in Databases |-> {}]
        /\ UNCHANGED <<binary, database, batches, phase, request, answer>>
    BY <1>14 DEF ReplaceCollector, Restart, storeVars, inputVars, runVars
  <2>2. \A p \in Runs : phase[p] = "idle"
    BY <1>14 DEF ReplaceCollector
  <2> QED BY <2>1, <2>2
<1> QED BY <1>1, <1>2, <1>3, <1>4, <1>5, <1>6, <1>7, <1>8, <1>9, <1>10, <1>11, <1>12,
           <1>13, <1>14 DEF Next, Proceed

-----------------------------------------------------------------------------
(* The journal, the requests and the store keep up with each other. *)

\* A new request takes the next observations, under an id no request had.
LEMMA PrepareMakes ==
  ASSUME JournalHolds, NEW d \in Databases, Prepare(d)
  PROVE  \E n \in Nat \ {0} :
           /\ cursor[d] + n <= last
           /\ pending' = [pending EXCEPT ![d] = {Request(d, n)}]
           /\ issued' = issued + 1
           /\ UNCHANGED <<stream, outbox, last, cursor, receipts>>
<1>1. PICK n \in 1..Cardinality(Fetched(d)) : pending' = [pending EXCEPT ![d] = {Request(d, n)}]
  BY DEF Prepare
<1>2. n \in Nat \ {0} /\ cursor[d] + n <= last
  BY FetchedNext DEF Prepare
<1>3. issued' = issued + 1 /\ UNCHANGED <<stream, outbox, last, cursor, receipts>>
  BY DEF Prepare, journalVars
<1> QED BY <1>1, <1>2, <1>3

\* A request of the current stream stands for a stretch of the journal.
LEMMA ItemsCopied ==
  ASSUME JournalHolds, NEW b, WellMade(b), b.stream = stream
  PROVE  /\ b.from \in 1..To(b) /\ To(b) \in 1..last
         /\ Items(b) = {<<stream, n, outbox[n]>> : n \in b.from..To(b)}
<1>1. PICK n \in Nat \ {0} : b.entries \in [1..n -> Records]
  BY DEF WellMade
<1>2. DOMAIN b.entries = 1..n /\ b.from \in Nat \ {0}
  BY <1>1 DEF WellMade
<1>3. Cardinality(1..n) = n
  <2>1. (0 + 1)..(0 + n) = 1..n
    OBVIOUS
  <2> QED BY <2>1, IntervalCount
<1>4. To(b) = b.from + n - 1
  BY <1>2, <1>3 DEF To
<1>5. \A i \in 1..n : b.from + i - 1 \in 1..last /\ b.entries[i] = outbox[b.from + i - 1]
  BY <1>2 DEF WellMade, Copied
<1>6. b.from + n - 1 \in 1..last
  BY <1>5
<1>7. Items(b) = {<<stream, m, outbox[m]>> : m \in b.from..To(b)}
  <2>1. Items(b) = {<<stream, b.from + i - 1, outbox[b.from + i - 1]>> : i \in 1..n}
    BY <1>2, <1>5 DEF Items
  <2>2. ASSUME NEW i \in 1..n PROVE b.from + i - 1 \in b.from..To(b)
    BY <1>2, <1>4
  <2>3. ASSUME NEW m \in b.from..To(b) PROVE m - b.from + 1 \in 1..n /\ b.from + (m - b.from + 1) - 1 = m
    BY <1>2, <1>4
  <2>4. Items(b) \subseteq {<<stream, m, outbox[m]>> : m \in b.from..To(b)}
    BY <2>1, <2>2
  <2>5. ASSUME NEW m \in b.from..To(b) PROVE <<stream, m, outbox[m]>> \in Items(b)
    <3> DEFINE i == m - b.from + 1
    <3>1. i \in 1..n /\ b.from + i - 1 = m
      BY <2>3
    <3> HIDE DEF i
    <3> QED BY <2>1, <3>1
  <2> QED BY <2>4, <2>5
<1> QED BY <1>2, <1>4, <1>6, <1>7

\* An acknowledgement moves the cursor to the end of the request.
LEMMA AckMoves ==
  ASSUME JournalHolds, RequestsSound, NEW d \in Databases,
         NEW k \in batches, k.batch \in pending[d], Ack(d, k)
  PROVE  /\ To(k.batch) \in Nat /\ To(k.batch) <= last
         /\ pending' = [pending EXCEPT ![d] = {}]
         /\ cursor' = [cursor EXCEPT ![d] = To(k.batch)]
         /\ UNCHANGED <<stream, outbox, last, issued>>
<1>1. WellMade(k.batch) /\ k.batch.stream = stream
  BY DEF RequestsSound, InUse
<1>2. To(k.batch) \in Nat /\ To(k.batch) <= last
  BY <1>1, ItemsCopied DEF JournalHolds
<1>3. /\ pending' = [pending EXCEPT ![d] = {}]
      /\ cursor' = [cursor EXCEPT ![d] = To(k.batch)]
      /\ UNCHANGED <<stream, outbox, last, issued>>
  BY DEF Ack, journalVars
<1> QED BY <1>2, <1>3

\* The journal stays numbered without holes, whatever step is taken.
LEMMA JournalNext ==
  JournalHolds /\ RunsHold /\ RequestsSound /\ [Next]_deliveryVars => JournalHolds'
<1> SUFFICES ASSUME JournalHolds, RunsHold, RequestsSound, [Next]_deliveryVars PROVE JournalHolds'
  OBVIOUS
<1> USE DEF journalled, outboxVars, journalVars, requestVars
<1>d. database \in Databases
  BY DEF JournalHolds
<1>1. CASE UNCHANGED <<journalled, accepted>>
  BY <1>1 DEF JournalHolds
<1>2. ASSUME NEW R \in SUBSET Records, Observe(R), UNCHANGED <<database, accepted>>
      PROVE  JournalHolds'
  <2>1. UNCHANGED <<stream, cursor, pending, issued, database>>
    BY <1>2 DEF Observe
  <2> QED BY <1>2, <2>1, ObserveExtends DEF JournalHolds
<1>3. CASE Prepare(database) /\ UNCHANGED <<database, accepted>>
  BY <1>d, <1>3, PrepareMakes DEF JournalHolds
<1>4. ASSUME NEW b \in pending[database], Accept(b) /\ UNCHANGED journalled
      PROVE  JournalHolds'
  BY <1>4 DEF JournalHolds
<1>5. ASSUME NEW k \in batches, k.batch \in pending[database] /\ Ack(database, k),
             UNCHANGED <<database, accepted>>
      PROVE  JournalHolds'
  BY <1>d, <1>5, AckMoves DEF JournalHolds
<1>6. CASE ReplaceDatabase
  <2>1. database' \in Databases /\ UNCHANGED outboxVars
    BY <1>6 DEF ReplaceDatabase
  <2> QED BY <2>1 DEF JournalHolds
<1>7. CASE ReplaceCollector
  <2>1. /\ stream' = stream + 1 /\ outbox' = << >> /\ last' = 0 /\ issued' = issued
        /\ cursor' = [d \in Databases |-> 0] /\ pending' = [d \in Databases |-> {}]
        /\ database' = database
    BY <1>7 DEF ReplaceCollector, Restart, NextStream
  <2>2. 1..0 = {} /\ outbox' \in [1..0 -> Records]
    BY <2>1
  <2> QED BY <2>1, <2>2 DEF JournalHolds
<1> QED BY <1>1, <1>2, <1>3, <1>4, <1>5, <1>6, <1>7, StepEffects

\* A request stays well made while the journal only grows.
LEMMA WellMadeKept ==
  ASSUME JournalHolds, NEW b, WellMade(b),
         stream' = stream, issued' \in Nat, issued' >= issued, last' \in Nat, last' >= last,
         \A n \in 1..last : outbox'[n] = outbox[n]
  PROVE  WellMade(b)'
<1>1. b.id \in 1..issued'
  BY DEF WellMade, JournalHolds
<1>2. b.stream = stream => Copied(b)'
  <2>1. \A m \in 1..last : m \in 1..last'
    BY DEF JournalHolds
  <2> QED BY <2>1 DEF WellMade, Copied
<1> QED BY <1>1, <1>2 DEF WellMade

\* The new request of PrepareMakes is well made.
LEMMA RequestMade ==
  ASSUME JournalHolds, NEW d \in Databases, NEW n \in Nat \ {0}, cursor[d] + n <= last
  PROVE  LET b == Request(d, n)
         IN /\ b.stream = stream /\ b.id = issued + 1 /\ b.from = cursor[d] + 1
            /\ b.entries \in [1..n -> Records]
            /\ Copied(b)
<1> DEFINE b == Request(d, n)
<1>1. b.stream = stream /\ b.id = issued + 1 /\ b.from = cursor[d] + 1
  BY DEF Request
<1>2. b.entries = [i \in 1..n |-> outbox[cursor[d] + i]]
  BY DEF Request
<1>3. \A i \in 1..n : cursor[d] + i \in 1..last /\ b.from + i - 1 = cursor[d] + i
  <2>1. cursor[d] \in Nat /\ last \in Nat
    BY DEF JournalHolds
  <2>2. \A a, l \in Nat : \A i \in 1..n :
          a + n <= l => a + i \in 1..l /\ (a + 1) + i - 1 = a + i
    OBVIOUS
  <2>3. b.from = cursor[d] + 1
    BY <1>1
  <2> HIDE DEF b
  <2> QED BY <2>1, <2>2, <2>3
<1> HIDE DEF b
<1>4. b.entries \in [1..n -> Records]
  BY <1>2, <1>3 DEF JournalHolds
<1>5. Copied(b)
  BY <1>2, <1>3 DEF Copied
<1> QED BY <1>1, <1>4, <1>5 DEF b

\* A batch id keeps naming one request, and what is pending continues what was acknowledged.
LEMMA RequestsNext ==
  JournalHolds /\ RunsHold /\ RequestsSound /\ [Next]_deliveryVars => RequestsSound'
<1> SUFFICES ASSUME JournalHolds, RunsHold, RequestsSound, [Next]_deliveryVars PROVE RequestsSound'
  OBVIOUS
<1> USE DEF journalled, accepted, outboxVars, journalVars, requestVars
<1>d. database \in Databases /\ pending = [d \in Databases |-> pending[d]]
  BY DEF JournalHolds
<1>k. ASSUME InUse' \subseteq InUse,
             stream' = stream, issued' = issued, last' \in Nat, last' >= last,
             \A n \in 1..last : outbox'[n] = outbox[n],
             \A d \in Databases : \A b \in pending'[d] : b \in pending[d] /\ cursor'[d] = cursor[d]
      PROVE  RequestsSound'
  <2>1. issued' \in Nat /\ issued' >= issued
    BY <1>k DEF JournalHolds
  <2>2. ASSUME NEW b \in InUse' PROVE WellMade(b)'
    BY <1>k, <2>1, <2>2, WellMadeKept DEF RequestsSound
  <2>3. \A b, c \in InUse' : b.id = c.id => b = c
    BY <1>k DEF RequestsSound
  <2>4. \A d \in Databases : \A b \in pending'[d] : b.stream = stream' /\ b.from = cursor'[d] + 1
    BY <1>k DEF RequestsSound
  <2> QED BY <2>2, <2>3, <2>4 DEF RequestsSound
<1>n. last \in Nat /\ last >= last
  BY DEF JournalHolds
<1>1. CASE UNCHANGED <<journalled, accepted>>
  <2>1. InUse' = InUse
    BY <1>1 DEF InUse
  <2> QED BY <1>1, <1>k, <1>n, <2>1
<1>2. ASSUME NEW R \in SUBSET Records, Observe(R), UNCHANGED <<database, accepted>>
      PROVE  RequestsSound'
  <2>1. UNCHANGED <<stream, cursor, pending, issued, batches>>
    BY <1>2 DEF Observe
  <2>2. InUse' = InUse
    BY <2>1 DEF InUse
  <2> QED BY <1>2, <1>k, <2>1, <2>2, ObserveExtends
<1>3. CASE Prepare(database) /\ UNCHANGED <<database, accepted>>
  <2>1. PICK n \in Nat \ {0} :
          /\ cursor[database] + n <= last
          /\ pending' = [pending EXCEPT ![database] = {Request(database, n)}]
          /\ issued' = issued + 1
          /\ UNCHANGED <<stream, outbox, last, cursor, receipts>>
    BY <1>d, <1>3, PrepareMakes
  <2>2. PICK b : /\ b = Request(database, n)
                 /\ b.stream = stream /\ b.id = issued + 1 /\ b.from = cursor[database] + 1
                 /\ b.entries \in [1..n -> Records] /\ Copied(b)
    BY <1>d, <2>1, RequestMade
  <2>3. \A e \in Databases : pending'[e] = IF e = database THEN {b} ELSE pending[e]
    BY <1>d, <2>1, <2>2
  <2>4. \A c \in InUse' : c \in InUse \/ c = b
    BY <1>3, <2>3 DEF InUse
  <2>5. issued \in Nat /\ \A c \in InUse : c.id \in 1..issued
    BY DEF RequestsSound, WellMade, JournalHolds
  <2>6. WellMade(b)'
    <3>1. b.stream \in 1..stream' /\ b.id \in 1..issued' /\ b.from \in Nat \ {0}
      BY <1>d, <2>1, <2>2 DEF JournalHolds
    <3>2. Copied(b)'
      BY <2>1, <2>2 DEF Copied
    <3> QED BY <2>2, <3>1, <3>2 DEF WellMade
  <2>7. ASSUME NEW c \in InUse PROVE WellMade(c)'
    <3>1. issued' \in Nat /\ issued' >= issued
      BY <2>1, <2>5
    <3> QED BY <1>n, <2>1, <2>7, <3>1, WellMadeKept DEF RequestsSound
  <2>8. \A c, e \in InUse' : c.id = e.id => c = e
    <3>1. \A c \in InUse : c.id # b.id
      BY <2>2, <2>5
    <3> QED BY <2>4, <3>1 DEF RequestsSound
  <2>9. \A e \in Databases : \A c \in pending'[e] : c.stream = stream' /\ c.from = cursor'[e] + 1
    BY <2>1, <2>2, <2>3 DEF RequestsSound
  <2> QED BY <2>4, <2>6, <2>7, <2>8, <2>9 DEF RequestsSound
<1>4. ASSUME NEW b \in pending[database], Accept(b) /\ UNCHANGED journalled
      PROVE  RequestsSound'
  <2>1. batches' = batches \cup {[batch |-> b, revision |-> NextInput(b)]}
    BY <1>4 DEF Accept
  <2>2. pending' = pending
    BY <1>4
  <2>3. \A k \in batches' : k \in batches \/ k.batch = b
    BY <2>1
  <2>4. b \in InUse /\ \A c \in InUse' : c \in InUse \/ c = b
    <3>1. b \in InUse
      BY <1>d, <1>4 DEF InUse
    <3>2. ASSUME NEW c \in InUse' PROVE c \in InUse \/ c = b
      <4>1. CASE c \in UNION {pending'[d] : d \in Databases}
        BY <2>2, <4>1 DEF InUse
      <4>2. ASSUME NEW k \in batches', c = k.batch PROVE c \in InUse \/ c = b
        BY <2>3, <4>2 DEF InUse
      <4> QED BY <3>2, <4>1, <4>2 DEF InUse
    <3> QED BY <3>1, <3>2
  <2> QED BY <1>4, <1>k, <1>n, <2>4
<1>5. ASSUME NEW k \in batches, k.batch \in pending[database] /\ Ack(database, k),
             UNCHANGED <<database, accepted>>
      PROVE  RequestsSound'
  <2>1. /\ pending' = [pending EXCEPT ![database] = {}]
        /\ cursor' = [cursor EXCEPT ![database] = To(k.batch)]
        /\ UNCHANGED <<stream, outbox, last, issued>>
    BY <1>d, <1>5, AckMoves
  <2>2. \A d \in Databases : pending'[d] \subseteq pending[d]
    BY <1>d, <2>1
  <2>3. InUse' \subseteq InUse
    BY <1>5, <2>2 DEF InUse
  <2>4. \A d \in Databases : d # database => cursor'[d] = cursor[d]
    BY <2>1 DEF JournalHolds
  <2>5. pending'[database] = {}
    BY <1>d, <2>1
  <2> QED BY <1>k, <1>n, <2>1, <2>2, <2>3, <2>4, <2>5
<1>6. CASE ReplaceDatabase
  <2>1. batches' = {} /\ UNCHANGED outboxVars
    BY <1>6 DEF ReplaceDatabase
  <2>2. InUse' \subseteq InUse
    BY <2>1 DEF InUse
  <2> QED BY <1>k, <1>n, <2>1, <2>2
<1>7. CASE ReplaceCollector
  <2>1. /\ stream' = stream + 1 /\ issued' = issued
        /\ pending' = [d \in Databases |-> {}] /\ batches' = batches
    BY <1>7 DEF ReplaceCollector, Restart, NextStream, storeVars, inputVars
  <2>2. InUse' \subseteq InUse
    BY <2>1 DEF InUse
  <2>3. \A d \in Databases : pending'[d] = {}
    BY <2>1
  <2>4. ASSUME NEW b \in InUse' PROVE WellMade(b)'
    <3>1. WellMade(b)
      BY <2>2, <2>4 DEF RequestsSound
    <3>2. b.stream \in 1..stream' /\ b.stream # stream'
      BY <2>1, <3>1 DEF WellMade, JournalHolds
    <3> QED BY <2>1, <3>1, <3>2 DEF WellMade
  <2>5. \A b, c \in InUse' : b.id = c.id => b = c
    BY <2>2 DEF RequestsSound
  <2> QED BY <2>3, <2>4, <2>5 DEF RequestsSound
<1> QED BY <1>1, <1>2, <1>3, <1>4, <1>5, <1>6, <1>7, StepEffects

\* An accepted batch leaves its entries in the store and counts at most once per
\* record that was new (Accept).
LEMMA StoreNext ==
  JournalHolds /\ RunsHold /\ RequestsSound /\ StoreKeeps /\ [Next]_deliveryVars => StoreKeeps'
<1> SUFFICES ASSUME JournalHolds, RunsHold, RequestsSound, StoreKeeps, [Next]_deliveryVars
             PROVE  StoreKeeps'
  OBVIOUS
<1>k. ASSUME UNCHANGED accepted PROVE StoreKeeps'
  BY <1>k DEF StoreKeeps, accepted
<1>4. ASSUME NEW b \in pending[database], Accept(b) PROVE StoreKeeps'
  <2>1. WellMade(b)
    BY DEF RequestsSound, InUse, JournalHolds
  <2>2. \A i \in DOMAIN b.entries : b.entries[i] \in Records
    BY <2>1 DEF WellMade
  <2>3. evidence' = evidence \cup Fresh(b) /\ input' = IF Fresh(b) = {} THEN input ELSE input + 1
    BY <1>4 DEF Accept, NextInput
  <2>4. evidence \subseteq evidence' /\ evidence' \subseteq Records
    BY <2>2, <2>3 DEF Fresh, StoreKeeps
  <2>5. \A i \in DOMAIN b.entries : b.entries[i] \in evidence'
    BY <2>3 DEF Fresh
  <2>6. IsFiniteSet(evidence') /\ IsFiniteSet(evidence)
    BY <2>4, DeliveryAssumption, FS_Subset DEF StoreKeeps
  <2>7. Cardinality(evidence) \in Nat /\ Cardinality(evidence') \in Nat
    BY <2>6, FS_CardinalityType
  <2>8. /\ Cardinality(evidence) <= Cardinality(evidence')
        /\ Cardinality(evidence') = Cardinality(evidence) => evidence' = evidence
    BY <2>4, <2>6, FS_Subset
  <2>9. Fresh(b) # {} => evidence' # evidence
    BY <2>3 DEF Fresh
  <2>10. input' \in Nat /\ input' <= Cardinality(evidence')
    BY <2>3, <2>7, <2>8, <2>9 DEF StoreKeeps
  <2>11. \A k \in batches' : k \in batches \/ k.batch = b
    BY <1>4 DEF Accept
  <2>12. \A k \in batches' : \A i \in DOMAIN k.batch.entries : k.batch.entries[i] \in evidence'
    BY <2>4, <2>5, <2>11 DEF StoreKeeps
  <2> QED BY <2>4, <2>10, <2>12 DEF StoreKeeps
<1>6. CASE ReplaceDatabase
  <2>1. evidence' = {} /\ batches' = {} /\ input' = 0
    BY <1>6 DEF ReplaceDatabase
  <2>2. Cardinality({}) = 0
    BY FS_EmptySet
  <2> QED BY <2>1, <2>2 DEF StoreKeeps
<1>7. CASE ReplaceCollector
  BY <1>7, <1>k DEF ReplaceCollector, accepted, storeVars, inputVars
<1> QED BY <1>k, <1>4, <1>6, <1>7, StepEffects DEF accepted

-----------------------------------------------------------------------------
(* The store holds an initial part of the journal. *)

Sequenced(n) == <<stream, n, outbox[n]>>

\* What the store accepts of the current stream is the request's stretch.
LEMMA AcceptedGrows ==
  ASSUME JournalHolds, RequestsSound, NEW d \in Databases, NEW b \in pending[d],
         Accept(b), UNCHANGED <<stream, outbox>>
  PROVE  Accepted' = Accepted \cup {Sequenced(n) : n \in (cursor[d] + 1)..To(b)}
<1>1. WellMade(b) /\ b.stream = stream /\ b.from = cursor[d] + 1
  BY DEF RequestsSound, InUse
<1>2. Items(b) = {Sequenced(n) : n \in (cursor[d] + 1)..To(b)}
  BY <1>1, ItemsCopied DEF Sequenced
<1>3. batches' = batches \cup {[batch |-> b, revision |-> NextInput(b)]}
  BY DEF Accept
<1>4. \A x : (\E k \in batches' : x \in Items(k.batch))
               <=> (\E k \in batches : x \in Items(k.batch)) \/ x \in Items(b)
  <2> DEFINE receipt == [batch |-> b, revision |-> NextInput(b)]
  <2>1. batches' = batches \cup {receipt} /\ receipt.batch = b
    BY <1>3
  <2> HIDE DEF receipt
  <2> QED BY <2>1
<1>5. \A x \in Items(b) : x[1] = stream
  BY <1>2 DEF Sequenced
<1>6. \A x : x \in Accepted' <=> x \in Accepted \/ x \in Items(b)
  BY <1>4, <1>5 DEF Accepted
<1> QED BY <1>2, <1>6

\* Accepting the pending request carries the accepted part to its end.
LEMMA AcceptedTo ==
  ASSUME JournalHolds, RequestsSound, NEW d \in Databases, NEW b \in pending[d],
         Accept(b), UNCHANGED <<stream, outbox>>,
         NEW a \in 0..last, cursor[d] <= a, Through(a)
  PROVE  /\ To(b) \in 1..last
         /\ To(b) <= a => Through(a)'
         /\ To(b) > a => Through(To(b))'
<1> DEFINE new == {Sequenced(n) : n \in (cursor[d] + 1)..To(b)}
<1>1. To(b) \in 1..last
  BY ItemsCopied DEF RequestsSound, InUse
<1>2. Accepted' = {Sequenced(n) : n \in 1..a} \cup new
  BY AcceptedGrows DEF Through, Sequenced
<1>3. cursor[d] \in Nat /\ a \in Nat /\ last \in Nat
  BY DEF JournalHolds
<1>4. ASSUME To(b) <= a PROVE Accepted' = {Sequenced(n) : n \in 1..a}
  <2>1. \A n \in (cursor[d] + 1)..To(b) : n \in 1..a
    BY <1>1, <1>3, <1>4
  <2> QED BY <1>2, <2>1
<1>5. ASSUME To(b) > a PROVE Accepted' = {Sequenced(n) : n \in 1..To(b)}
  <2>1. \A n : n \in 1..To(b) <=> n \in 1..a \/ n \in (cursor[d] + 1)..To(b)
    BY <1>1, <1>3, <1>5
  <2> QED BY <1>2, <2>1
<1>6. \A c : Through(c)' <=> Accepted' = {Sequenced(n) : n \in 1..c}
  BY DEF Through, Sequenced
<1> QED BY <1>1, <1>4, <1>5, <1>6

\* What was acknowledged was accepted before: an acknowledged request is one of
\* the store's batches, so the accepted part reaches its end.
LEMMA AckedWithin ==
  ASSUME JournalHolds, RequestsSound, NEW d \in Databases, NEW k \in batches, k.batch \in pending[d],
         NEW a \in 0..last, Through(a)
  PROVE  To(k.batch) <= a
<1>1. WellMade(k.batch) /\ k.batch.stream = stream
  BY DEF RequestsSound, InUse
<1>2. /\ k.batch.from \in 1..To(k.batch) /\ To(k.batch) \in 1..last
      /\ Items(k.batch) = {<<stream, n, outbox[n]>> : n \in k.batch.from..To(k.batch)}
  BY <1>1, ItemsCopied
<1>3. To(k.batch) \in k.batch.from..To(k.batch)
  BY <1>2 DEF JournalHolds
<1>4. Sequenced(To(k.batch)) \in Items(k.batch)
  BY <1>2, <1>3 DEF Sequenced
<1>5. Sequenced(To(k.batch))[1] = stream /\ Sequenced(To(k.batch))[2] = To(k.batch)
  BY DEF Sequenced
<1>6. Sequenced(To(k.batch)) \in Accepted
  BY <1>4, <1>5 DEF Accepted
<1>7. PICK n \in 1..a : Sequenced(To(k.batch)) = <<stream, n, outbox[n]>>
  BY <1>6 DEF Through
<1>8. To(k.batch) = n
  BY <1>5, <1>7
<1> QED BY <1>7, <1>8 DEF JournalHolds

\* What a database accepted stays a prefix of the journal it accepts from.
LEMMA PrefixNext ==
  /\ JournalHolds /\ RunsHold /\ RequestsSound /\ AcceptedPrefix
  /\ [Next]_deliveryVars /\ JournalHolds'
  => AcceptedPrefix'
<1> SUFFICES ASSUME JournalHolds, RunsHold, RequestsSound, AcceptedPrefix,
                    [Next]_deliveryVars, JournalHolds'
             PROVE  AcceptedPrefix'
  OBVIOUS
<1> USE DEF journalled, accepted, outboxVars, journalVars, requestVars
<1>a. PICK a \in 0..last : cursor[database] <= a /\ Through(a)
  BY DEF AcceptedPrefix
<1>d. /\ database \in Databases /\ pending = [d \in Databases |-> pending[d]]
      /\ cursor \in [Databases -> Nat] /\ last \in Nat /\ last' \in Nat
  BY DEF JournalHolds
<1>k. ASSUME stream' = stream, batches' = batches, last' >= last, database' = database,
             \A n \in 1..last : outbox'[n] = outbox[n], cursor'[database] <= a
      PROVE  AcceptedPrefix'
  <2>1. Accepted' = Accepted
    BY <1>k DEF Accepted
  <2>2. \A n \in 1..a : outbox'[n] = outbox[n]
    BY <1>d, <1>k
  <2>3. Through(a)'
    BY <1>a, <1>k, <2>1, <2>2 DEF Through
  <2>4. a \in 0..last'
    BY <1>d, <1>k
  <2> QED BY <1>k, <2>3, <2>4 DEF AcceptedPrefix
<1>1. CASE UNCHANGED <<journalled, accepted>>
  BY <1>1, <1>a, <1>d, <1>k
<1>2. ASSUME NEW R \in SUBSET Records, Observe(R), UNCHANGED <<database, accepted>>
      PROVE  AcceptedPrefix'
  <2>1. UNCHANGED <<stream, cursor>>
    BY <1>2 DEF Observe
  <2> QED BY <1>2, <1>a, <1>k, <2>1, ObserveExtends
<1>3. CASE Prepare(database) /\ UNCHANGED <<database, accepted>>
  <2>1. UNCHANGED <<stream, outbox, last, cursor>>
    BY <1>d, <1>3, PrepareMakes
  <2> QED BY <1>3, <1>a, <1>d, <1>k, <2>1
<1>4. ASSUME NEW b \in pending[database], Accept(b) /\ UNCHANGED journalled
      PROVE  AcceptedPrefix'
  <2>1. /\ To(b) \in 1..last
        /\ To(b) <= a => Through(a)'
        /\ To(b) > a => Through(To(b))'
    BY <1>4, <1>a, <1>d, AcceptedTo
  <2>2. cursor'[database'] = cursor[database] /\ last' = last
    BY <1>4
  <2>3. CASE To(b) <= a
    BY <1>a, <2>1, <2>2, <2>3 DEF AcceptedPrefix
  <2>4. CASE To(b) > a
    <3>1. To(b) \in 0..last' /\ cursor'[database'] <= To(b)
      BY <1>a, <1>d, <2>1, <2>2, <2>4
    <3> QED BY <2>1, <2>4, <3>1 DEF AcceptedPrefix
  <2> QED BY <1>d, <2>1, <2>3, <2>4
<1>5. ASSUME NEW k \in batches, k.batch \in pending[database] /\ Ack(database, k),
             UNCHANGED <<database, accepted>>
      PROVE  AcceptedPrefix'
  <2>1. /\ cursor' = [cursor EXCEPT ![database] = To(k.batch)]
        /\ UNCHANGED <<stream, outbox, last>>
    BY <1>d, <1>5, AckMoves
  <2>2. To(k.batch) <= a
    BY <1>a, <1>d, <1>5, AckedWithin
  <2> QED BY <1>5, <1>d, <1>k, <2>1, <2>2
<1>6. CASE ReplaceDatabase
  <2>1. batches' = {} /\ database' = database + 1 /\ database' \in Databases /\ UNCHANGED outboxVars
    BY <1>6 DEF ReplaceDatabase
  <2>2. cursor'[database'] = 0
    BY <2>1, DatabasesNumbered DEF RunsHold, JournalHolds
  <2>3. Accepted' = {} /\ 1..0 = {}
    BY <2>1 DEF Accepted
  <2>4. Through(0)'
    BY <2>3 DEF Through
  <2> QED BY <1>d, <2>2, <2>4 DEF AcceptedPrefix
<1>7. CASE ReplaceCollector
  <2>1. /\ stream' = stream + 1 /\ batches' = batches /\ database' = database
        /\ cursor' = [d \in Databases |-> 0]
    BY <1>7 DEF ReplaceCollector, Restart, NextStream, storeVars, inputVars
  <2>2. \A k \in batches : k.batch.stream # stream'
    <3>1. \A k \in batches : WellMade(k.batch)
      BY DEF RequestsSound, InUse
    <3> QED BY <2>1, <3>1 DEF WellMade, JournalHolds
  <2>3. \A k \in batches : \A x \in Items(k.batch) : x[1] = k.batch.stream
    BY DEF Items
  <2>4. Accepted' = {} /\ 1..0 = {}
    BY <2>1, <2>2, <2>3 DEF Accepted
  <2>5. Through(0)'
    BY <2>4 DEF Through
  <2> QED BY <1>d, <2>1, <2>5 DEF AcceptedPrefix
<1> QED BY <1>1, <1>2, <1>3, <1>4, <1>5, <1>6, <1>7, StepEffects

-----------------------------------------------------------------------------
\* An empty outbox and empty databases satisfy the invariant.
LEMMA DeliveryInitInv == Init => DeliveryInv
<1> SUFFICES ASSUME Init PROVE DeliveryInv
  OBVIOUS
<1> USE DEF Init, StoreInit, OutboxInit
<1>0. 1..0 = {} /\ Cardinality({}) = 0 /\ 1 \in Databases
  <2>1. Cardinality(Databases) \in Nat
    BY DeliveryAssumption, FS_CardinalityType
  <2>2. Cardinality(Databases) # 0
    BY <2>1, DeliveryAssumption
  <2> QED BY <2>1, <2>2, DeliveryAssumption, FS_EmptySet
<1>1. JournalHolds
  <2>1. outbox \in [1..0 -> Records]
    BY <1>0
  <2> QED BY <1>0, <2>1 DEF JournalHolds
<1>2. RunsHold
  BY DEF RunsHold, Owning, Phases
<1>3. InUse = {} /\ \A d \in Databases : pending[d] = {}
  BY DEF InUse
<1>4. RequestsSound
  BY <1>3 DEF RequestsSound
<1>5. StoreKeeps
  BY <1>0 DEF StoreKeeps
<1>6. Accepted = {}
  BY DEF Accepted
<1>7. AcceptedPrefix
  BY <1>0, <1>6 DEF AcceptedPrefix, Through
<1> QED BY <1>1, <1>2, <1>4, <1>5, <1>7 DEF DeliveryInv

\* The invariant is inductive.
LEMMA DeliveryNextInv == DeliveryInv /\ [Next]_deliveryVars => DeliveryInv'
BY JournalNext, RunsNext, RequestsNext, StoreNext, PrefixNext DEF DeliveryInv

\* The delivery lock, the pending request and the receipts hold together through
\* every crash, lost answer and replaced database: the invariant the results
\* below rest on.
THEOREM DeliveryHolds == Spec => []DeliveryInv
BY DeliveryInitInv, DeliveryNextInv, PTL DEF Spec

\* Whatever a token database acknowledged, it accepted and keeps, under the
\* sequences it had (Ack, ResolveDestination, Accept).
THEOREM NothingAckedIsLost == Spec => []AcknowledgedIsHeld
<1>1. ASSUME DeliveryInv PROVE AcknowledgedIsHeld
  <2>1. PICK a \in 0..last : cursor[database] <= a /\ Through(a)
    BY <1>1 DEF DeliveryInv, AcceptedPrefix
  <2>2. /\ last \in Nat /\ outbox \in [1..last -> Records] /\ database \in Databases
        /\ cursor \in [Databases -> Nat]
    BY <1>1 DEF DeliveryInv, JournalHolds
  <2>3. ASSUME NEW n \in 1..cursor[database]
        PROVE  /\ n \in DOMAIN outbox /\ <<stream, n, outbox[n]>> \in Accepted
               /\ outbox[n] \in evidence
    <3>1. n \in 1..a /\ n \in DOMAIN outbox
      BY <2>1, <2>2
    <3>2. <<stream, n, outbox[n]>> \in Accepted
      BY <2>1, <3>1 DEF Through
    <3>3. PICK k \in batches : <<stream, n, outbox[n]>> \in Items(k.batch)
      BY <3>2 DEF Accepted
    <3>4. PICK i \in DOMAIN k.batch.entries : outbox[n] = k.batch.entries[i]
      BY <3>3 DEF Items
    <3> QED BY <1>1, <3>1, <3>2, <3>4 DEF DeliveryInv, StoreKeeps
  <2> QED BY <2>3 DEF AcknowledgedIsHeld, Destination
<1> QED BY <1>1, DeliveryHolds, PTL

\* A run sends the request its token database has pending and no other, and the
\* store has no reason to refuse it, as long as the dataset does not hold more
\* records than revisions can count (publishRaw, batch_conflict,
\* sequence_conflict, revision_limit).
THEOREM SendsWhatIsPending ==
  ASSUME Cardinality(Records) < MaxInput
  PROVE  Spec => []SendsWhatIsDue
<1>1. ASSUME DeliveryInv PROVE SendsWhatIsDue
  <2> USE <1>1 DEF DeliveryInv
  <2>1. \A p \in Runs : phase[p] = "sending" => request[p] = pending[database]
    BY DEF RunsHold
  <2>2. ASSUME NEW p \in Runs, NEW b \in request[p] PROVE ~Rejected(b)
    <3>1. b \in pending[database] /\ database \in Databases
      BY <2>2 DEF RunsHold, JournalHolds
    <3>2. b \in InUse /\ WellMade(b) /\ b.stream = stream
      BY <3>1 DEF RequestsSound, InUse
    <3>3. Known(b) => Replayed(b)
      <4>1. \A k \in batches : k.batch \in InUse
        BY DEF InUse
      <4> QED BY <3>2, <4>1 DEF Known, Replayed, RequestsSound
    <3>4. ~InputLimit
      <4>1. IsFiniteSet(Records) /\ evidence \in SUBSET Records
        BY DeliveryAssumption DEF StoreKeeps
      <4>2. Cardinality(evidence) <= Cardinality(Records) /\ IsFiniteSet(evidence)
        BY <4>1, FS_Subset
      <4>3. Cardinality(evidence) \in Nat /\ Cardinality(Records) \in Nat
        BY <4>1, <4>2, FS_CardinalityType
      <4> QED BY <4>2, <4>3, StoreAssumption DEF InputLimit, StoreKeeps
    <3>5. ~SequenceConflict(b)
      <4>1. ASSUME NEW k \in batches, NEW x \in Items(k.batch), NEW y \in Items(b),
                   x[1] = y[1], x[2] = y[2]
            PROVE  x[3] = y[3]
        <5>1. WellMade(k.batch) /\ x[1] = k.batch.stream /\ y[1] = stream
          BY <3>2 DEF RequestsSound, InUse, Items
        <5>2. /\ Items(k.batch) = {<<stream, n, outbox[n]>> : n \in k.batch.from..To(k.batch)}
              /\ Items(b) = {<<stream, n, outbox[n]>> : n \in b.from..To(b)}
          BY <3>2, <4>1, <5>1, ItemsCopied
        <5>3. x[3] = outbox[x[2]] /\ y[3] = outbox[y[2]]
          BY <5>2
        <5> QED BY <4>1, <5>3
      <4> QED BY <4>1 DEF SequenceConflict
    <3> QED BY <3>3, <3>4, <3>5 DEF Rejected
  <2> QED BY <2>1, <2>2 DEF SendsWhatIsDue
<1> QED BY <1>1, DeliveryHolds, PTL

-----------------------------------------------------------------------------
(* Delivery implements Replication. *)

\* The journal and the copy, as DeliversJournal maps them.
Journal == [n \in 1..Cardinality(DOMAIN outbox) |-> outbox[Place(n)]]
Copy == [n \in {x[2] : x \in Accepted} |-> (CHOOSE x \in Accepted : x[2] = n)[3]]

\* Without gaps the n-th observation is the one with sequence n.
LEMMA JournalMapped == JournalHolds => Journal = outbox
<1> SUFFICES ASSUME JournalHolds PROVE Journal = outbox
  OBVIOUS
<1>1. last \in Nat /\ DOMAIN outbox = 1..last /\ outbox = [n \in 1..last |-> outbox[n]]
  BY DEF JournalHolds
<1>2. \A m \in Nat : Cardinality(1..m) = m
  <2>1. \A m \in Nat : (0 + 1)..(0 + m) = 1..m
    OBVIOUS
  <2>2. \A m \in Nat : Cardinality((0 + 1)..(0 + m)) = m
    BY IntervalCount
  <2> QED BY <2>1, <2>2
<1>3. ASSUME NEW m \in 1..last PROVE Cardinality({k \in DOMAIN outbox : k <= m}) = m
  <2> DEFINE S == {k \in DOMAIN outbox : k <= m}
  <2>1. m \in Nat /\ S = 1..m
    BY <1>1
  <2> HIDE DEF S
  <2>2. Cardinality(S) = m
    BY <1>2, <2>1
  <2> QED BY <2>2 DEF S
<1>4. \A m \in 1..last : Cardinality({k \in DOMAIN outbox : k <= m}) = m
  BY <1>3
<1>5. \A n \in 1..last : Place(n) = n
  BY <1>1, <1>4 DEF Place
<1>6. Cardinality(DOMAIN outbox) = last
  BY <1>1, <1>2
<1>7. Journal = [n \in 1..last |-> outbox[Place(n)]]
  BY <1>6 DEF Journal
<1> QED BY <1>1, <1>5, <1>7

\* The accepted part of the journal, as a copy of it.
LEMMA CopyMapped == \A a : Through(a) => Copy = [n \in 1..a |-> outbox[n]]
<1> SUFFICES ASSUME NEW a, Through(a) PROVE Copy = [n \in 1..a |-> outbox[n]]
  OBVIOUS
<1>1. {x[2] : x \in Accepted} = 1..a
  <2>1. \A n \in 1..a : Sequenced(n) \in Accepted /\ Sequenced(n)[2] = n
    BY DEF Through, Sequenced
  <2>2. \A x \in Accepted : x[2] \in 1..a
    BY DEF Through
  <2> QED BY <2>1, <2>2
<1>2. ASSUME NEW n \in 1..a PROVE (CHOOSE x \in Accepted : x[2] = n)[3] = outbox[n]
  <2>1. Sequenced(n) \in Accepted /\ Sequenced(n)[2] = n
    BY DEF Through, Sequenced
  <2>2. \A x \in Accepted : x[2] = n => x[3] = outbox[n]
    BY DEF Through
  <2> DEFINE y == CHOOSE x \in Accepted : x[2] = n
  <2>3. y \in Accepted /\ y[2] = n
    BY <2>1
  <2> QED BY <2>2, <2>3
<1> QED BY <1>1, <1>2 DEF Copy

\* After a step, too, a database that has the journal up to a shows it as the copy.
LEMMA CopyMappedNext == (\A a : Through(a) => Copy = [n \in 1..a |-> outbox[n]])'
BY CopyMapped, PTL

\* Nothing accepted, nothing copied.
LEMMA NothingCopied == Accepted = {} => Copy = << >>
<1> SUFFICES ASSUME Accepted = {} PROVE Copy = << >>
  OBVIOUS
<1> DEFINE D == {x[2] : x \in Accepted}
<1>1. D = {}
  OBVIOUS
<1>2. Copy = [n \in D |-> (CHOOSE x \in Accepted : x[2] = n)[3]]
  BY DEF Copy
<1> HIDE DEF D
<1> QED BY <1>1, <1>2

\* After a step, too, the copy is empty if nothing was accepted.
LEMMA NothingCopiedNext == (Accepted = {} => Copy = << >>)'
BY NothingCopied, PTL

\* An initial part of a sequence.
LEMMA InitialPart ==
  ASSUME NEW S, NEW m \in Nat, NEW s \in [1..m -> S], NEW n \in 0..m
  PROVE  Len(s) = m /\ SubSeq(s, 1, n) = [i \in 1..n |-> s[i]]
<1>1. s \in Seq(S) /\ Len(s) = m
  <2>1. s \in Seq(S)
    BY SeqDef
  <2>2. Len(s) \in Nat /\ DOMAIN s = 1..Len(s)
    BY <2>1, LenProperties
  <2> QED BY <2>1, <2>2
<1>2. SubSeq(s, 1, n) = Restrict(s, 1..n)
  BY <1>1, SubSeqRestrict
<1> QED BY <1>1, <1>2 DEF Restrict

\* After a step, too, the outbox is the journal of the abstract specification.
LEMMA JournalMappedNext == JournalHolds' => (Journal = outbox)'
BY JournalMapped, PTL

\* Replication's variables and steps, in terms of the journal and the copy.
LEMMA ReplicationVars ==
  Copies!replicationVars = <<Journal, Copy>> /\ (Copies!replicationVars)' = <<Journal, Copy>>'
BY DEF Copies!replicationVars, Journal, Copy

\* The abstract step that captures, with the mapped state written out.
LEMMA ReplicationCapture ==
  Copies!Capture <=>
    /\ \E n \in 1..Len(Journal') : Journal = SubSeq(Journal', 1, Len(Journal') - n)
    /\ \A i, j \in DOMAIN Journal' : Journal'[i] = Journal'[j] => i = j
    /\ UNCHANGED Copy
BY DEF Copies!Capture, Journal, Copy

\* The abstract step that copies, with the mapped state written out.
LEMMA ReplicationCopy ==
  Copies!Copy <=>
    /\ \E n \in Len(Copy) + 1 .. Len(Journal) : Copy' = SubSeq(Journal, 1, n)
    /\ UNCHANGED Journal
BY DEF Copies!Copy, Journal, Copy

\* A capture shows as an extension of the journal.
LEMMA ObserveShows ==
  ASSUME JournalHolds, JournalHolds', NEW R \in SUBSET Records, Observe(R), UNCHANGED accepted
  PROVE  [Copies!Capture]_Copies!replicationVars
<1>1. Journal = outbox /\ Journal' = outbox'
  BY JournalMapped, JournalMappedNext
<1>2. /\ last \in Nat /\ outbox \in [1..last -> Records]
      /\ last' \in Nat /\ last' >= last /\ outbox' \in [1..last' -> Records]
      /\ \A n \in 1..last : outbox'[n] = outbox[n]
      /\ \A m, n \in 1..last' : outbox'[m] = outbox'[n] => m = n
  BY ObserveExtends DEF JournalHolds
<1>3. Copy' = Copy
  BY DEF Copy, Accepted, accepted, Observe
<1>4. CASE last' = last
  <2>1. outbox' = outbox
    BY <1>2, <1>4
  <2> QED BY <1>1, <1>3, <2>1, ReplicationVars
<1>5. CASE last' > last
  <2>1. Len(outbox') = last' /\ SubSeq(outbox', 1, last) = [i \in 1..last |-> outbox'[i]]
    <3>1. last \in 0..last'
      BY <1>2
    <3> QED BY <1>2, <3>1, InitialPart
  <2>2. outbox = [i \in 1..last |-> outbox'[i]]
    BY <1>2
  <2>3. PICK k \in 1..last' : last' - k = last
    <3>1. last \in Nat /\ last' \in Nat
      BY <1>2
    <3>2. \A l, m \in Nat : m > l => m - l \in 1..m /\ m - (m - l) = l
      OBVIOUS
    <3> QED BY <1>5, <3>1, <3>2
  <2>4. \E m \in 1..Len(outbox') : outbox = SubSeq(outbox', 1, Len(outbox') - m)
    BY <2>1, <2>2, <2>3
  <2>5. \A i, j \in DOMAIN outbox' : outbox'[i] = outbox'[j] => i = j
    BY <1>2
  <2>6. /\ \E n \in 1..Len(Journal') : Journal = SubSeq(Journal', 1, Len(Journal') - n)
        /\ \A i, j \in DOMAIN Journal' : Journal'[i] = Journal'[j] => i = j
    BY <1>1, <2>4, <2>5
  <2> QED BY <1>3, <2>6, ReplicationCapture
<1> QED BY <1>2, <1>4, <1>5

\* An acceptance shows as growth of the copy, or not at all when the store holds
\* the whole request already.
LEMMA AcceptShows ==
  ASSUME JournalHolds, JournalHolds', RequestsSound, AcceptedPrefix,
         NEW b \in pending[database], Accept(b), UNCHANGED journalled
  PROVE  [Copies!Copy]_Copies!replicationVars
<1>d. database \in Databases /\ last \in Nat /\ outbox \in [1..last -> Records]
  BY DEF JournalHolds
<1>u. UNCHANGED <<stream, outbox>>
  BY DEF journalled, outboxVars, journalVars
<1>1. Journal = outbox /\ Journal' = outbox'
  BY JournalMapped, JournalMappedNext
<1>2. PICK a \in 0..last : cursor[database] <= a /\ Through(a)
  BY DEF AcceptedPrefix
<1>3. /\ To(b) \in 1..last
      /\ To(b) <= a => Through(a)'
      /\ To(b) > a => Through(To(b))'
  BY <1>2, <1>d, <1>u, AcceptedTo
<1>4. Copy = [n \in 1..a |-> outbox[n]]
  BY <1>2, CopyMapped
<1>5. CASE To(b) <= a
  <2>1. Accepted' = Accepted
    BY <1>2, <1>3, <1>5, <1>u DEF Through
  <2>2. Copy' = Copy
    BY <2>1 DEF Copy
  <2> QED BY <1>1, <1>u, <2>2, ReplicationVars
<1>6. CASE To(b) > a
  <2>2. Copy' = [n \in 1..To(b) |-> outbox'[n]]
    BY <1>3, <1>6, CopyMappedNext
  <2>3. /\ Len(outbox) = last
        /\ SubSeq(outbox, 1, To(b)) = [n \in 1..To(b) |-> outbox[n]]
    <3>1. To(b) \in 0..last
      BY <1>3
    <3> QED BY <1>d, <3>1, InitialPart
  <2>4. Len(Copy) = a
    <3>1. [n \in 1..a |-> outbox[n]] \in [1..a -> Records] /\ a \in 0..a /\ a \in Nat
      BY <1>d, <1>2
    <3> QED BY <1>4, <3>1, InitialPart
  <2>5. To(b) \in a + 1 .. last
    BY <1>d, <1>2, <1>3, <1>6
  <2>6. Copy' = SubSeq(outbox, 1, To(b))
    BY <1>u, <2>2, <2>3
  <2> QED BY <1>1, <1>u, <2>3, <2>4, <2>5, <2>6, ReplicationCopy
<1> QED BY <1>3, <1>5, <1>6, <1>2

\* What a step of delivery shows of the journal and its copy is a step of
\* Replication, or nothing.
LEMMA StepCopies ==
  DeliveryInv /\ DeliveryInv' /\ [Next]_deliveryVars => [Copies!Next]_Copies!replicationVars
<1> SUFFICES ASSUME DeliveryInv, DeliveryInv', [Next]_deliveryVars
             PROVE  [Copies!Next]_Copies!replicationVars
  OBVIOUS
<1>i. /\ JournalHolds /\ RunsHold /\ RequestsSound /\ AcceptedPrefix /\ JournalHolds'
      /\ database \in Databases
  BY DEF DeliveryInv, JournalHolds
<1>j. Journal = outbox /\ Journal' = outbox'
  BY <1>i, JournalMapped, JournalMappedNext
<1>k. ASSUME UNCHANGED <<stream, batches, outbox>> PROVE [Copies!Next]_Copies!replicationVars
  <2>1. Copy' = Copy
    BY <1>k DEF Copy, Accepted
  <2> QED BY <1>j, <1>k, <2>1, ReplicationVars
<1>1. CASE UNCHANGED <<journalled, accepted>>
  BY <1>1, <1>k DEF journalled, accepted, outboxVars, journalVars
<1>2. ASSUME NEW R \in SUBSET Records, Observe(R), UNCHANGED <<database, accepted>>
      PROVE  [Copies!Next]_Copies!replicationVars
  BY <1>2, <1>i, ObserveShows DEF Copies!Next
<1>3. CASE Prepare(database) /\ UNCHANGED <<database, accepted>>
  BY <1>3, <1>i, <1>k, PrepareMakes DEF accepted
<1>4. ASSUME NEW b \in pending[database], Accept(b) /\ UNCHANGED journalled
      PROVE  [Copies!Next]_Copies!replicationVars
  BY <1>4, <1>i, AcceptShows DEF Copies!Next
<1>5. ASSUME NEW k \in batches, k.batch \in pending[database] /\ Ack(database, k),
             UNCHANGED <<database, accepted>>
      PROVE  [Copies!Next]_Copies!replicationVars
  BY <1>5, <1>i, <1>k, AckMoves DEF accepted
<1>e. ASSUME Accepted' = {} PROVE Copy' = << >>
  BY <1>e, NothingCopiedNext
<1>6. CASE ReplaceDatabase
  <2>1. batches' = {} /\ outbox' = outbox
    BY <1>6 DEF ReplaceDatabase, outboxVars, journalVars
  <2>2. Copy' = << >>
    BY <1>e, <2>1 DEF Accepted
  <2>3. Journal' = Journal
    BY <1>j, <2>1
  <2>4. Copies!NewDatabase
    BY <2>2, <2>3 DEF Copies!NewDatabase, Journal, Copy
  <2> QED BY <2>4 DEF Copies!Next
<1>7. CASE ReplaceCollector
  <2>1. stream' = stream + 1 /\ batches' = batches /\ outbox' = << >>
    BY <1>7 DEF ReplaceCollector, Restart, NextStream, storeVars, inputVars
  <2>2. \A k \in batches : k.batch.stream # stream'
    <3>1. \A k \in batches : WellMade(k.batch)
      BY <1>i DEF RequestsSound, InUse
    <3> QED BY <1>i, <2>1, <3>1 DEF WellMade, JournalHolds
  <2>3. \A k \in batches : \A x \in Items(k.batch) : x[1] = k.batch.stream
    BY DEF Items
  <2>4. Copy' = << >>
    BY <1>e, <2>1, <2>2, <2>3 DEF Accepted
  <2> QED BY <1>j, <2>1, <2>4 DEF Copies!Next, Copies!NewCollector, Journal, Copy
<1> QED BY <1>i, <1>1, <1>2, <1>3, <1>4, <1>5, <1>6, <1>7, StepEffects

\* An empty outbox maps to the empty journal and the empty copy.
LEMMA InitCopies == Init => Copies!Init
<1> SUFFICES ASSUME Init PROVE Copies!Init
  OBVIOUS
<1>1. outbox = << >> /\ Accepted = {}
  BY DEF Init, StoreInit, OutboxInit, Accepted
<1>2. Journal = << >>
  BY <1>1, DeliveryInitInv, JournalMapped DEF DeliveryInv
<1>3. Copy = << >>
  BY <1>1, NothingCopied
<1> QED BY <1>2, <1>3 DEF Copies!Init, Journal, Copy

\* Delivery implements the safety part of Replication: a token database always holds
\* an initial part of the journal, in order and without gaps, and only a replaced
\* database starts over (publishRaw, Prepare, Accept and Ack together).
THEOREM ImplementsReplication ==
  Spec => Copies!Init /\ [][Copies!Next]_Copies!replicationVars
BY InitCopies, StepCopies, DeliveryHolds, PTL DEF Spec
=============================================================================
