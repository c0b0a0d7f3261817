----------------------------- MODULE CodexReplay -----------------------------
(***************************************************************************)
(* Codex sessions that fork, and what the processor makes of their         *)
(* rollouts as evidence of them arrives (src/packages/core/processor:      *)
(* codex.go, process.go).  A fork's rollout begins with a copy of its      *)
(* parent's; the counters it shows continue the parent's or start again.   *)
(* The host is external: StartSession, ForkSession, Consume and Repeat are *)
(* what its files may say.  A session starts after its parent, so ancestry *)
(* has no cycle, and a rollout speaks of one session.                      *)
(***************************************************************************)
EXTENDS Integers, Sequences, FiniteSets, SequencesExt

CONSTANTS
  Sessions,        \* 1..n, in the order they start
  MaxEvents,       \* bound on the usage events of a rollout
  MaxUses,         \* bound on what is consumed
  RepeatsAcross,   \* BOOLEAN: counters may be repeated in a new turn
  NoParent

ASSUME ReplayAssumption ==
  /\ Cardinality(Sessions) \in Nat /\ Sessions = 1..Cardinality(Sessions)
  /\ MaxEvents \in Nat /\ MaxUses \in Nat /\ RepeatsAcross \in BOOLEAN
  /\ NoParent \notin Sessions /\ NoParent # "unstarted"

VARIABLES
  rollout,         \* the usage events of each session: `use` is what was really consumed
  claim,           \* what its session_meta says of its ancestry
  records          \* how many of its records the server holds, session_meta first

replayVars == <<rollout, claim, records>>

Ancestries == [fork : BOOLEAN, parent : Sessions \cup {NoParent}]
Independent == [fork |-> FALSE, parent |-> NoParent]
NotStarted == [fork |-> FALSE, parent |-> "unstarted"]

Started(s) == claim[s] # NotStarted
MayStart(s) == ~Started(s) /\ \A t \in Sessions : t < s => Started(t)
Newest(s) == Last(rollout[s])

\* What was really consumed: an event of the session that is no copy and no repeat.
UseOf(f) == rollout[f[1]][f[2]].use
Consumed == {f \in Sessions \X (1..MaxEvents) : f[2] <= Len(rollout[f[1]]) /\ UseOf(f) = f}

-----------------------------------------------------------------------------
(* The host *)

\* A session of its own, or a sub-agent: with a parent it names or not, and without history.
StartSession(s) ==
  /\ MayStart(s)
  /\ \E c \in Ancestries :
       /\ c.parent # NoParent => c.fork /\ Started(c.parent)
       /\ claim' = [claim EXCEPT ![s] = c]
  /\ UNCHANGED <<rollout, records>>

\* A session that starts with a part of another's history.
ForkSession(s, p) ==
  /\ MayStart(s) /\ Started(p) /\ rollout[p] # << >>
  /\ \E parent \in {p, NoParent} : claim' = [claim EXCEPT ![s] = [fork |-> TRUE, parent |-> parent]]
  /\ \E n \in 1..Len(rollout[p]) : rollout' = [rollout EXCEPT ![s] = SubSeq(rollout[p], 1, n)]
  /\ UNCHANGED records

NewTurn(s) == <<s, Len(rollout[s]) + 1>>

\* The counters of a fork may start again with a turn.
Consume(s, detail) ==
  /\ Started(s) /\ Len(rollout[s]) < MaxEvents /\ Cardinality(Consumed) < MaxUses
  /\ \E turn \in {NewTurn(s)} \cup (IF rollout[s] = << >> THEN {} ELSE {Newest(s).turn}),
        before \in {0} \cup (IF rollout[s] = << >> THEN {} ELSE {Newest(s).total}) :
       /\ before = 0 /\ rollout[s] # << >> => claim[s].fork /\ turn = NewTurn(s)
       /\ rollout' = [rollout EXCEPT ![s] = Append(@,
            [turn |-> turn, total |-> before + 1, detail |-> detail, use |-> NewTurn(s)])]
  /\ UNCHANGED <<claim, records>>

\* The host writes the same counters again, in the same turn or the next.
Repeat(s) ==
  /\ rollout[s] # << >> /\ Len(rollout[s]) < MaxEvents /\ Newest(s).detail = "whole"
  /\ \E turn \in {Newest(s).turn} \cup (IF RepeatsAcross THEN {NewTurn(s)} ELSE {}) :
       rollout' = [rollout EXCEPT ![s] = Append(@, [Newest(s) EXCEPT !.turn = turn])]
  /\ UNCHANGED <<claim, records>>

\* Collectors send a rollout in its order.
Arrive(s) ==
  /\ Started(s) /\ records[s] <= Len(rollout[s])
  /\ records' = [records EXCEPT ![s] = @ + 1]
  /\ UNCHANGED <<rollout, claim>>

ReplayInit ==
  /\ rollout = [s \in Sessions |-> << >>]
  /\ claim = [s \in Sessions |-> NotStarted]
  /\ records = [s \in Sessions |-> 0]

ReplayNext ==
  \E s \in Sessions :
    \/ StartSession(s) \/ Consume(s, "whole") \/ Consume(s, "bare") \/ Repeat(s) \/ Arrive(s)
    \/ \E p \in Sessions \ {s} : ForkSession(s, p)

ReplaySpec == ReplayInit /\ [][ReplayNext]_replayVars

-----------------------------------------------------------------------------
(* resolveCodexEvidence *)

HasMetadata(s) == s # NoParent /\ records[s] > 0
HowMany(s) == IF HasMetadata(s) THEN records[s] - 1 ELSE 0
Arrived(s) == 1..HowMany(s)

\* CodexReplayFingerprint: the counters a copy shares with its original, if complete.
Fingerprint(e) == IF e.detail = "whole" THEN <<e.turn, e.total>> ELSE << >>

\* The facts of other sessions that e repeats.
InheritedFacts(proofs, s, e) ==
  {p.fact : p \in {q \in proofs : q.print = Fingerprint(e) /\ q.fact[1] # s}}

NothingShown == -1

\* Mutants: counters are compared across turns; a copied turn is no reason for doubt.
AcrossTurns(s, seen, e) == seen.total
NeverDoubt(s, parental, e) == FALSE

\* What e's cumulative counters are compared with: a fork's start again with each turn.
Before(s, seen, e) == IF claim[s].fork /\ e.turn # seen.turn THEN NothingShown ELSE seen.total

\* An unmatched snapshot in an ancestor's turn may be copied history.
MayBeCopied(s, parental, e) ==
  claim[s].fork /\ \E p \in parental : rollout[p.fact[1]][p.fact[2]].turn = e.turn

\* The code of s's own event e, against the proofs and counters seen before it.
OwnCode(s, problem, parental, seen, e) ==
  LET before == Before(s, seen, e)
      compared == e.detail = "whole" /\ before # NothingShown IN
  CASE compared /\ e.total = before -> "known_duplicate"
    [] compared /\ e.total < before -> "stale_snapshot"
    [] ~compared \/ e.total > before ->
         IF problem # "clear" THEN problem
         ELSE IF Fingerprint(e) = << >> THEN "unverifiable_snapshot"
         ELSE IF InheritedFacts(seen.proofs, s, e) # {} THEN "ambiguous_parent_fact"
         ELSE IF MayBeCopied(s, parental, e) THEN "uncertain_replay_boundary" ELSE "clear"

\* One event after the other: a copy proved by an ancestor is left out of everything.
Judge(s, problem, parental, seen, i) ==
  LET e == rollout[s][i]
      code == IF Cardinality(InheritedFacts(seen.proofs, s, e)) = 1 THEN "known_duplicate"
              ELSE OwnCode(s, problem, parental, seen, e)
      copy == Cardinality(InheritedFacts(seen.proofs, s, e)) = 1
      counted == ~copy /\ e.detail = "whole" /\ code \notin {"known_duplicate", "stale_snapshot"}
  IN [codes  |-> Append(seen.codes, code),
      turn   |-> IF copy THEN seen.turn ELSE e.turn,
      total  |-> IF counted THEN e.total ELSE IF copy THEN seen.total ELSE Before(s, seen, e),
      proofs |-> seen.proofs \cup (IF code = "clear" THEN {[print |-> Fingerprint(e), fact |-> <<s, i>>]} ELSE {})]

\* The outcome of s's events, judged one after the other.
Judged(s, problem, parental) ==
  LET seen[i \in 0..HowMany(s)] ==
        IF i = 0 THEN [codes |-> << >>, turn |-> << >>, total |-> NothingShown,
                       proofs |-> IF problem = "clear" THEN parental ELSE {}]
        ELSE Judge(s, problem, parental, seen[i - 1], i)
      all == seen[HowMany(s)]
  IN [problem |-> problem, codes |-> all.codes, proofs |-> all.proofs]

\* What becomes of a session once its parent is resolved, if the evidence shows one.
Resolved[s \in Sessions] ==
  LET p == claim[s].parent
      known == claim[s].fork /\ HasMetadata(p)
      problem == IF ~claim[s].fork THEN "clear"
                 ELSE IF ~known THEN "missing_parent"
                 ELSE IF Resolved[p].problem # "clear" THEN "unresolved_parent" ELSE "clear"
  IN Judged(s, problem, IF known THEN Resolved[p].proofs ELSE {})

-----------------------------------------------------------------------------
(* Process: a copy joins the facts of its original, whose group has one contribution *)

Events == {f \in Sessions \X (1..MaxEvents) : f[2] \in Arrived(f[1])}
CodeOf == LET resolved == [s \in Sessions |-> Resolved[s]]
          IN [f \in Events |-> resolved[f[1]].codes[f[2]]]

Contributions(code) == {f \in DOMAIN code : code[f] = "clear"}
Estimates(code) == {f \in DOMAIN code : code[f] \notin {"clear", "known_duplicate", "stale_snapshot"}}

-----------------------------------------------------------------------------
(* Properties *)

\* Of each turn a fork has copied, the parent it names shows the event itself or
\* a complete one of the same turn.
Covered ==
  \A s \in Sessions : HasMetadata(s) /\ HasMetadata(claim[s].parent) =>
    \A i \in Arrived(s) : UseOf(<<s, i>>)[1] # s =>
      \E j \in Arrived(claim[s].parent) :
        LET e == rollout[claim[s].parent][j] IN
        \/ e.use = UseOf(<<s, i>>)
        \/ e.turn = rollout[s][i].turn /\ e.detail = "whole"

\* What was consumed once counts once, whatever forks copied it, however often its
\* counters are repeated, and in whatever order the evidence of parents and forks arrives.
CopiesCountOnce ==
  Covered => LET confirmed == Contributions(CodeOf) IN
             \A f, g \in confirmed : UseOf(f) = UseOf(g) => f = g

\* "Known copies, unchanged cumulative and stale snapshots never inflate
\* confirmed/estimated" (docs/design.md:189): a session's own rollout counts what it
\* consumed once, however often it shows the same counters.
RepeatsNeverInflate ==
  LET confirmed == Contributions(CodeOf) IN
  \A f, g \in confirmed : f[1] = g[1] /\ UseOf(f) = UseOf(g) => f = g

AllArrived == \A s \in Sessions : Started(s) => records[s] = Len(rollout[s]) + 1
ToldApart == \A f, g \in Consumed : rollout[f[1]][f[2]].turn = rollout[g[1]][g[2]].turn
                                   /\ rollout[f[1]][f[2]].total = rollout[g[1]][g[2]].total => f = g
Traceable(s) ==
  /\ claim[s].fork => claim[s].parent # NoParent
  /\ \A i \in DOMAIN rollout[s] : rollout[s][i].detail = "whole"

\* With all evidence there, what was consumed is confirmed or estimated, unless its
\* counters cannot be told from another's; and where every session can be traced and
\* no fork goes on within a copied turn, it is confirmed.
NothingForgotten ==
  AllArrived /\ ToldApart =>
    LET code == CodeOf
        confirmed == {UseOf(f) : f \in Contributions(code)}
        estimated == {UseOf(f) : f \in Estimates(code)}
        splitTurn == \E f \in Consumed : rollout[f[1]][f[2]].turn[1] # f[1]
    IN /\ Consumed \subseteq confirmed \cup estimated
       /\ (\A s \in Sessions : Traceable(s)) /\ ~splitTurn => Consumed \subseteq confirmed
=============================================================================
