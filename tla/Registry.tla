------------------------------ MODULE Registry ------------------------------
(***************************************************************************)
(* The registry of collection attempts that viewers watch: leases kept by  *)
(* heartbeats, terminal attempts kept for a while, a fixed number of       *)
(* attempts (src/packages/core/collectorprogress).                         *)
(***************************************************************************)
EXTENDS Integers, Sequences, FiniteSets

CONSTANTS
  Attempts,        \* attempt ids, each begun once
  Harnesses,       \* 1..n, in the order they are captured
  MaxAttempts,
  LeaseDuration, TerminalRetention,   \* in heartbeat intervals
  MaxTime,         \* bound of the clock
  Absent             \* no attempt, no measurement

VARIABLES
  now,             \* the clock
  attempts,        \* Registry.attempts with Registry.captures inside
  refused          \* attempts it holds one of whose messages or measurements it refused

registryVars == <<now, attempts, refused>>

Terminal == {"accepted", "failed", "interrupted"}
CaptureTerminal == {"complete", "failed", "interrupted"}
Outcomes == {"captured", "unchanged", "failed", "quarantined"}

Phases == {"none", "discovering", "waiting", "reading", "saving"} \cup CaptureTerminal
Stages == {"waiting", "capturing", "submitting"} \cup Terminal
Errors == {"", "collection_failed", "submission_failed", "cancelled", "publisher_lost"}
Statuses == {"none", "running", "complete", "skipped", "failed"}

\* A measurement, and an entry of Registry.attempts with its captures.
Measurements ==
  [phase : Phases, known : BOOLEAN, total : Nat, checked : Nat, active : Int, count : [Outcomes -> Nat]]
Entries ==
  [stage : Stages, error : Errors, harnesses : [Harnesses -> Statuses], batches : Nat,
   expires : Nat, finished : Nat, captures : [Harnesses -> Measurements \cup {Absent}]]

ASSUME RegistryAssumption ==
  /\ MaxAttempts \in Nat \ {0} /\ MaxTime \in Nat
  /\ LeaseDuration \in Nat \ {0} /\ TerminalRetention \in Nat \ {0}
  /\ Absent \notin Measurements \cup Entries

\* No outcome counted yet.
NoOutcome == [o \in Outcomes |-> 0]
Sum(count) == count["captured"] + count["unchanged"] + count["failed"] + count["quarantined"]

Known(reg) == {a \in Attempts : reg[a] # Absent}
Live(reg) == {a \in Known(reg) : reg[a].stage \notin Terminal}

-----------------------------------------------------------------------------
(* Registry.expire and finishCapture *)

\* Mutant: the measurements of an attempt that ends keep saying "reading".
LeaveCaptures(r, stage) == r.captures

FinishCapture(r, stage) ==
  [h \in Harnesses |->
     IF r.captures[h] = Absent \/ r.captures[h].phase \in CaptureTerminal THEN r.captures[h]
     ELSE [r.captures[h] EXCEPT !.active = 0,
             !.phase = IF stage = "failed" THEN "failed" ELSE "interrupted"]]

Interrupted(r, at) ==
  [r EXCEPT !.stage = "interrupted", !.error = "publisher_lost", !.finished = at,
            !.captures = FinishCapture(r, "interrupted")]

\* Every operation starts with it.
Expire(reg) ==
  LET lost(a) == a \in Live(reg) /\ now >= reg[a].expires
      ended(a) == IF lost(a) THEN Interrupted(reg[a], reg[a].expires) ELSE reg[a]
  IN [a \in Attempts |->
        IF a \in Known(reg) /\ ~(ended(a).stage \in Terminal /\ now - ended(a).finished >= TerminalRetention)
        THEN ended(a) ELSE Absent]

-----------------------------------------------------------------------------
(* Registry.Apply *)

\* Mutant: the oldest attempt goes, live or not.
EvictAny(reg) ==
  {a \in Known(reg) : \A b \in Known(reg) : reg[a].expires <= reg[b].expires}

\* The attempts that may make room: the terminal one that finished first.
Evictable(reg) ==
  LET ended == Known(reg) \ Live(reg)
  IN {a \in ended : \A b \in ended : reg[a].finished <= reg[b].finished}

NoRoom(reg) == Cardinality(Known(reg)) >= MaxAttempts

Busy(reg) == NoRoom(reg) /\ Evictable(reg) = {}

Begun == [stage |-> "waiting", error |-> "", harnesses |-> [h \in Harnesses |-> "none"], batches |-> 0,
          expires |-> now + LeaseDuration, finished |-> 0, captures |-> [h \in Harnesses |-> Absent]]

\* What is left once there is room for one more.
Rooms(reg) ==
  IF NoRoom(reg) THEN {[reg EXCEPT ![e] = Absent] : e \in Evictable(reg)} ELSE {reg}

Begin(a) ==
  LET reg == Expire(attempts) IN
  /\ reg[a] = Absent
  /\ IF Busy(reg) THEN attempts' = reg
     ELSE \E room \in Rooms(reg) : attempts' = [room EXCEPT ![a] = Begun]
  /\ UNCHANGED <<now, refused>>

Renewed(r) == [r EXCEPT !.expires = now + LeaseDuration]

\* A heartbeat renews the lease; any other message replaces what is shown, too.
Applied(r, m) ==
  IF m.op = "heartbeat" THEN Renewed(r)
  ELSE LET shown == [Renewed(r) EXCEPT !.stage = m.stage, !.error = m.error,
                                       !.harnesses = m.harnesses, !.batches = m.batches]
       IN IF m.op = "finish"
          THEN [shown EXCEPT !.finished = now, !.captures = FinishCapture(shown, m.stage)]
          ELSE shown

ValidMessage(m) ==
  CASE m.op = "update" -> m.stage \in {"waiting", "capturing", "submitting"} /\ m.error = ""
    [] m.op = "finish" -> m.stage \in Terminal /\ (m.stage = "accepted" <=> m.error = "")
    [] OTHER           -> TRUE

Regresses(r, m) == m.op # "heartbeat" /\ m.batches < r.batches

\* The record of a once some call of its publisher was answered; else the refusal is noted.
PublisherCall(a, ok(_), after(_)) ==
  LET reg == Expire(attempts)
      taken == a \in Live(reg) /\ ok(reg[a])
  IN /\ attempts' = IF taken THEN [reg EXCEPT ![a] = after(reg[a])] ELSE reg
     /\ refused' = (IF taken THEN refused ELSE refused \cup {a}) \cap Known(attempts')
     /\ UNCHANGED now

Apply(a, m) == PublisherCall(a, LAMBDA r : ValidMessage(m) /\ ~Regresses(r, m), LAMBDA r : Applied(r, m))

-----------------------------------------------------------------------------
(* Registry.UpdateCapture *)

PhaseFits(c) ==
  CASE c.phase = "discovering" -> ~c.known
    [] c.phase = "waiting"     -> c.known /\ c.active = 0
    [] c.phase = "reading"     -> c.known /\ c.active > 0
    [] c.phase = "saving"      -> c.known
    [] c.phase = "complete"    -> /\ c.known /\ c.checked = c.total /\ c.active = 0
                                  /\ c.count["failed"] = 0 /\ c.count["quarantined"] = 0
    [] OTHER                   -> c.active = 0

ValidCapture(c) ==
  /\ c.checked = Sum(c.count)
  /\ IF c.known THEN c.checked + c.active <= c.total
     ELSE c.total = 0 /\ c.checked = 0 /\ c.active = 0
  /\ c.active >= 0
  /\ PhaseFits(c)

\* Only a cancellation may follow a failure, with the same counts.
Cancels(old, new) == old.phase = "failed" /\ new.phase = "interrupted" /\ new.count = old.count

Follows(old, new) ==
  /\ old.phase \in CaptureTerminal => Cancels(old, new)
  /\ old.known => new.known /\ new.total = old.total
  /\ \A o \in Outcomes : old.count[o] <= new.count[o]

UpdateCapture(a, h, c) ==
  PublisherCall(a, LAMBDA r : ValidCapture(c) /\ (r.captures[h] = Absent \/ Follows(r.captures[h], c)),
                   LAMBDA r : [r EXCEPT !.captures[h] = c])

-----------------------------------------------------------------------------
(* Readers, the owner's shutdown, and time *)

Snapshot == attempts' = Expire(attempts) /\ UNCHANGED <<now, refused>>

InterruptAll ==
  /\ attempts' = [a \in Attempts |->
                    IF a \in Live(attempts) THEN Interrupted(attempts[a], now) ELSE attempts[a]]
  /\ UNCHANGED <<now, refused>>

Tick == now < MaxTime /\ now' = now + 1 /\ UNCHANGED <<attempts, refused>>

RegistryInit ==
  /\ now = 0
  /\ attempts = [a \in Attempts |-> Absent]
  /\ refused = {}
=============================================================================
