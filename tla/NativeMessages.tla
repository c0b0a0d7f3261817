---------------------------- MODULE NativeMessages ----------------------------
(***************************************************************************)
(* One message of Claude Code, Pi or OpenCode, from the agent's own store  *)
(* to the contribution published for it (src/packages/core: pipeline/      *)
(* extract.go, processor/process.go, the parsers, publication/identity.go).*)
(* Claude Code and Pi append to a log; OpenCode revises a row in place, in *)
(* the table of its first format, of its second, or in both.  What was     *)
(* captured is never forgotten, and reaches the processor in any order:    *)
(* several collectors may hold copies of one log.                          *)
(***************************************************************************)
EXTENDS Integers, FiniteSets

CONSTANTS
  Stamps,          \* times a record may carry
  Uses,            \* usages, what NativeUsage makes of the counters
  Unreadable,      \* the usage of a record that has none, or has one out of range
  MaxWrites        \* bound: how often the agent writes

ASSUME MessageAssumption == Stamps \subseteq Nat /\ Unreadable \notin Uses /\ MaxWrites \in Nat

VARIABLES
  message,         \* the message: its harness, and whether its records name a request
  shown,           \* the records the agent's store holds now
  writes,          \* how often it was written
  kept,            \* evidence captured
  arrived          \* evidence the processor is given

messageVars == <<message, shown, writes, kept, arrived>>

OpenCodeFormats == {"opencode-v1", "opencode-v2"}
Formats == OpenCodeFormats \cup {"log"}

\* `clean` records show no invalid counter, no unsafe field and no contradictory alias;
\* the place of a record in its log is part of the evidence.
Pieces == {p \in [format : Formats, at : Stamps, uses : Uses \cup {Unreadable}, clean : BOOLEAN,
                   ordinal : 0..MaxWrites] : p.uses = Unreadable => p.clean}

NativeMessageInit ==
  /\ message \in [harness : {"claude-code", "pi", "opencode"}, request : BOOLEAN]
  /\ message.harness # "claude-code" => ~message.request
  /\ shown = {} /\ writes = 0 /\ kept = {} /\ arrived = {}

-----------------------------------------------------------------------------
(* The agent and the collector *)

AppendLine(p) ==
  /\ message.harness # "opencode" /\ writes < MaxWrites
  /\ p.format = "log" /\ p.ordinal = writes + 1
  /\ shown' = shown \cup {p} /\ writes' = writes + 1
  /\ UNCHANGED <<message, kept, arrived>>

\* A row is created once: a revision keeps the creation time.
ReviseRow(p) ==
  /\ message.harness = "opencode" /\ writes < MaxWrites
  /\ p.format \in OpenCodeFormats /\ p.ordinal = 0
  /\ \A q \in shown : q.format = p.format => q.at = p.at
  /\ shown' = {q \in shown : q.format # p.format} \cup {p} /\ writes' = writes + 1
  /\ UNCHANGED <<message, kept, arrived>>

\* parseSQLite reads both tables in one transaction; evidence already held is not recorded
\* again.  (What a log keeps between captures is the Capture module's concern.)
CaptureMessage ==
  /\ kept' = kept \cup shown
  /\ UNCHANGED <<message, shown, writes, arrived>>

DeliverPiece(p) ==
  /\ p \in kept /\ arrived' = arrived \cup {p}
  /\ UNCHANGED <<message, shown, writes, kept>>

NativeMessageNext ==
  \/ \E p \in Pieces : AppendLine(p) \/ ReviseRow(p)
  \/ CaptureMessage
  \/ \E p \in kept \ arrived : DeliverPiece(p)

NativeMessageSpec == NativeMessageInit /\ [][NativeMessageNext]_messageVars

-----------------------------------------------------------------------------
(* Process: the pieces of one message make a group *)

Candidates == {p \in arrived : p.uses # Unreadable}

\* The pieces that may be sorted last: equal times are told apart by a hash alone.
LastOf(S) == {p \in S : \A q \in S : q.at <= p.at}

\* Mutant: the first clean piece is kept.
FirstSelected(group) ==
  LET later == {p \in group : p.format = "opencode-v2"}
      clean == {p \in group : p.clean}
  IN IF later # {} THEN LastOf(later)
     ELSE IF clean # {} THEN {p \in clean : \A q \in clean : p.at <= q.at}
     ELSE LastOf(group)

\* The last clean piece, or the last one; OpenCode's second format goes before both.
Selectable(group) ==
  LET later == {p \in group : p.format = "opencode-v2"}
      clean == {p \in group : p.clean}
  IN IF later # {} THEN LastOf(later)
     ELSE IF clean # {} THEN LastOf(clean) ELSE LastOf(group)

\* sameEvidenceUsage: places are not compared, nor the times of Claude Code.
SameUsage(p, q) == p.uses = q.uses /\ (message.harness # "claude-code" => p.at = q.at)

\* A record of Claude Code is a revision of an earlier one of the same request.
Revises(selected, p) == message.request /\ p.at # selected.at

Overruled(selected, p) == selected.format = "opencode-v2" /\ p.format = "opencode-v1"

Conflicts(selected, group) ==
  \E p \in group :
    p.clean /\ ~Overruled(selected, p) /\ ~SameUsage(p, selected) /\ ~Revises(selected, p)

Confirms(selected, group) == selected.clean /\ ~Conflicts(selected, group)

\* The outcome each piece of evidence is given.
Disposition(p, selected, group) ==
  IF Conflicts(selected, group) \/ ~p.clean THEN "ambiguous"
  ELSE IF p = selected THEN "processed"
  ELSE IF p.at < selected.at \/ p.format # selected.format THEN "superseded"
  ELSE "duplicate"

-----------------------------------------------------------------------------
(* Properties *)

\* The pieces whose word counts: those of the later format, and of a request its newest revision.
Voices ==
  LET clean == {p \in Candidates : p.clean}
      later == {p \in clean : p.format = "opencode-v2"}
  IN IF later # {} THEN later ELSE IF message.request THEN LastOf(clean) ELSE clean

Agreed(S) == S # {} /\ \A p, q \in S : SameUsage(p, q)

\* Doubtful rows of the second format keep the first from being counted.
DoubtfulSecond == \E p \in Candidates : p.format = "opencode-v2" /\ ~p.clean

\* Whatever evidence arrived, in whatever order, and however the hashes break ties
\* (Process, sameEvidenceUsage): only a usage on which all that count agree is confirmed;
\* it is confirmed, unless a doubtful row of the second format interferes; and nothing
\* that tells another usage is called a duplicate of it.
ConfirmsWhatIsAgreed ==
  \A s \in Selectable(Candidates) :
    /\ Confirms(s, Candidates) => Agreed(Voices) /\ s \in Voices
    /\ Agreed(Voices) /\ ~DoubtfulSecond => Confirms(s, Candidates)
    /\ \A p \in Candidates :
         Disposition(p, s, Candidates) = "duplicate" => SameUsage(p, s)
=============================================================================
