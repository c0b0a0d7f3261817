----------------------------- MODULE NativeUsage -----------------------------
(***************************************************************************)
(* The token counters of one record, as each agent writes them, and the    *)
(* disjoint components the processor makes of them                         *)
(* (src/packages/core/processor: codex.go, claude.go, pi.go, opencode.go,  *)
(* helpers.go, process.go).  Counters that are no integers make a record   *)
(* unusable and are left out.                                              *)
(***************************************************************************)
EXTENDS Integers, Sequences

CONSTANTS
  Counts,          \* the integers a counter may hold
  MaxCount,        \* the largest integer
  Missing          \* a counter that is not there

ASSUME UsageAssumption == Counts \subseteq Int /\ MaxCount \in Nat /\ Missing \notin Int

VARIABLE usage     \* the record

Optional == Counts \cup {Missing}
NoUsage == [harness |-> "codex", input |-> Missing, output |-> Missing, reasoning |-> Missing,
            read |-> Missing, write |-> Missing, total |-> Missing]

\* Codex tells no cache writes, OpenCode no total.
NativeInit ==
  /\ usage \in [harness : {"codex", "claude-code", "pi", "opencode"}, input : Optional, output : Optional,
                reasoning : Optional, read : Optional, write : Optional, total : Optional]
  /\ usage.harness = "codex" => usage.write = Missing
  /\ usage.harness = "opencode" => usage.total = Missing

NativeSpec == NativeInit /\ [][FALSE]_usage

-----------------------------------------------------------------------------
(* Counters *)

OrZero(v) == IF v = Missing THEN 0 ELSE v

\* TokenComponentSum of up to five counters that are not negative: it may exceed the range.
ComponentSum(values) ==
  LET at(i) == IF i \in DOMAIN values THEN OrZero(values[i]) ELSE 0
  IN at(1) + at(2) + at(3) + at(4) + at(5)
Fits(values) == ComponentSum(values) <= MaxCount

Clamp(v) == IF v # Missing /\ v < 0 THEN 0 ELSE v

Counters(u) == <<u.input, u.output, u.reasoning, u.read, u.write, u.total>>
Components(u) == <<u.input, u.output, u.reasoning, u.read, u.write>>

Clamped(u) == [u EXCEPT !.input = Clamp(@), !.output = Clamp(@), !.reasoning = Clamp(@),
                        !.read = Clamp(@), !.write = Clamp(@), !.total = Clamp(@)]
Negative(u) == Clamped(u) # u
AnyPresent(u) == \E i \in DOMAIN Counters(u) : Counters(u)[i] # Missing

\* Output includes reasoning, which cannot exceed it.
ReasoningFits(u) == u.reasoning = Missing \/ (u.output # Missing /\ u.reasoning <= u.output)
\* Mutant: output keeps the reasoning that is also a component of its own.
OutputWithReasoning(u) == u

OutputOnly(u) == [u EXCEPT !.output = IF u.reasoning = Missing THEN @ ELSE @ - u.reasoning]

WithoutReasoning(u) == [u EXCEPT !.reasoning = Missing]

Unusable == [usable |-> FALSE, doubtful |-> FALSE, counts |-> NoUsage]
Usable(u, doubtful) == [usable |-> TRUE, doubtful |-> doubtful, counts |-> u]

-----------------------------------------------------------------------------
(* What each parser makes of a record *)

\* Input includes what was read from the cache.
InputOnly(u) == [u EXCEPT !.input = IF u.input = Missing \/ u.read = Missing THEN @ ELSE @ - u.read]

CodexReading(u) ==
  LET c == Clamped(u)
      exclusive == InputOnly(OutputOnly(c))
  IN IF ReasoningFits(c) /\ Fits(Components(Clamped(exclusive)))
     THEN Usable(Clamped(exclusive), Negative(u) \/ Negative(exclusive)) ELSE Unusable

ClaudeReading(u) ==
  LET c == Clamped(u)
      counts == IF ReasoningFits(c) THEN OutputOnly(c) ELSE WithoutReasoning(c)
      consistent == c.total = Missing \/ c.total = ComponentSum(Components(counts))
  IN IF Fits(Components(counts))
     THEN Usable(counts, Negative(u) \/ ~ReasoningFits(c) \/ ~consistent) ELSE Unusable

\* Older versions counted the cache in the input, which the total shows.
LegacyPi(c) ==
  /\ c.total # Missing /\ c.total # ComponentSum(<<c.input, c.output, c.read, c.write>>)
  /\ c.total = ComponentSum(<<c.input, c.output>>)
  /\ c.input # Missing /\ c.input >= ComponentSum(<<c.read, c.write>>)

PiReading(u) ==
  LET c == Clamped(u)
      counted == <<c.input, c.output, c.read, c.write>>
      legacy == LegacyPi(c)
      counts == [(IF ReasoningFits(c) THEN OutputOnly(c) ELSE WithoutReasoning(c)) EXCEPT
                   !.input = IF legacy THEN @ - ComponentSum(<<c.read, c.write>>) ELSE @]
      consistent == c.total = Missing \/ legacy \/ c.total = ComponentSum(counted)
  IN IF Fits(counted) THEN Usable(counts, Negative(u) \/ ~consistent \/ ~ReasoningFits(c)) ELSE Unusable

\* Reasoning is a counter of its own.
OpenCodeReading(u) ==
  LET c == Clamped(u)
  IN IF Fits(Components(c)) THEN Usable([c EXCEPT !.reasoning = OrZero(@)], Negative(u)) ELSE Unusable

\* parseEvidence: doubtful counters are estimates, the others are confirmed.
CountersOf(u) ==
  IF ~AnyPresent(u) THEN Unusable
  ELSE CASE u.harness = "codex"       -> CodexReading(u)
         [] u.harness = "claude-code" -> ClaudeReading(u)
         [] u.harness = "pi"          -> PiReading(u)
         [] u.harness = "opencode"    -> OpenCodeReading(u)

-----------------------------------------------------------------------------
(* Properties *)

\* What the agent says it used, each token once: Codex counts the cache in its input,
\* all but OpenCode count reasoning in their output.
Used(u) ==
  CASE u.harness = "codex" ->
         ComponentSum(<<IF u.input = Missing THEN u.read ELSE u.input, u.output>>)
    [] u.harness \in {"claude-code", "pi"} ->
         IF u.total # Missing THEN u.total ELSE ComponentSum(<<u.input, u.output, u.read, u.write>>)
    [] u.harness = "opencode" -> ComponentSum(Components(u))

\* No counter published is negative, their sum stays within the range, and what is
\* confirmed adds up to what the agent used, with no token in two components: a
\* missing, a negative, a contradictory or an excessive counter never does harm.
CountersSound ==
  LET r == CountersOf(usage)
      parts == Components(r.counts)
  IN r.usable =>
       /\ \A i \in DOMAIN parts : parts[i] = Missing \/ parts[i] >= 0
       /\ Fits(parts)
       /\ ~r.doubtful => ComponentSum(parts) = Used(usage)
=============================================================================
