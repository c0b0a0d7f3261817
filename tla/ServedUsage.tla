---------------------------- MODULE ServedUsage ----------------------------
(***************************************************************************)
(* What a viewer of the shared backend can read: the publication, with its *)
(* revision and the input it covers, and the collection attempts of all    *)
(* viewers.  A new generation shows here as one more revision, over input  *)
(* that was pending.  DataEngine, CollectorProgress and SharedCapture      *)
(* model how these come about; here they just advance (as                  *)
(* packages/cli/internal/tui reads them).                                  *)
(***************************************************************************)
EXTENDS Naturals, Sequences

CONSTANT MaxInput   \* bound on accepted inputs

ASSUME ServedAssumption == MaxInput \in Nat

VARIABLES
  served,          \* input accepted and covered by rows, revision
  attempts         \* stage and acknowledged input of each collection, in order

servedVars == <<served, attempts>>

Pending(s) == s.covered < s.input

\* Capturing and submitting are one stage here.
Active(stage) == stage = "active"

Collecting == \E i \in DOMAIN attempts : Active(attempts[i].stage)

\* An active attempt takes precedence, then the most recent one.
CurrentCollection(seen) ==
  IF \E i \in DOMAIN seen : Active(seen[i])
  THEN CHOOSE i \in DOMAIN seen : Active(seen[i]) /\ \A j \in i + 1..Len(seen) : ~Active(seen[j])
  ELSE Len(seen)

ServedInit ==
  /\ served = [input |-> 0, covered |-> 0, revision |-> 1]
  /\ attempts = <<>>

\* The backend runs one collection at a time.
AttemptBegins ==
  /\ ~Collecting
  /\ attempts' = Append(attempts, [stage |-> "active", input |-> 0])

BatchAccepted(i) ==
  /\ Active(attempts[i].stage) /\ served.input < MaxInput
  /\ served' = [served EXCEPT !.input = @ + 1]
  /\ UNCHANGED attempts

AttemptEnds(i) ==
  /\ Active(attempts[i].stage)
  /\ \/ attempts' = [attempts EXCEPT ![i].stage = "failed"]
     \/ attempts' = [attempts EXCEPT ![i] = [stage |-> "accepted", input |-> served.input]]
  /\ UNCHANGED served

Publish ==
  /\ served.covered < served.input
  /\ served' = [served EXCEPT !.covered = @ + 1, !.revision = @ + 1]
  /\ UNCHANGED attempts

ServedNext ==
  \/ \E i \in DOMAIN attempts : BatchAccepted(i) \/ AttemptEnds(i)
  \/ Publish
=============================================================================
