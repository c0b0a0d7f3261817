------------------------------ MODULE LongLine ------------------------------
(***************************************************************************)
(* A line of a log that is longer than evidence may be: it is read as a    *)
(* stream, and skipped if that proves it irrelevant                        *)
(* (src/packages/core/pipeline/extract_stream.go).  An agent writes any    *)
(* JSON object, symbol by symbol; the reader follows with its own parser.  *)
(* Whitespace is left out, and a string is one symbol.                     *)
(***************************************************************************)
EXTENDS Integers, SequencesExt

CONSTANTS
  MaxDepth,        \* how deep objects and arrays may nest
  MaxNumber        \* bound: symbols of a number

ASSUME LongLineAssumption == MaxDepth \in Nat \ {0} /\ MaxNumber \in Nat

VARIABLES
  agent,           \* whose log it is
  text,            \* what is written: the open containers and what the object says so far
  scan             \* the reader: streamDiscriminator and where its calls stand

longLineVars == <<agent, text, scan>>

Strings == [codex |-> {"type", "payload", "event_msg", "response_item", "agent_message", "token_count", "turn_context"},
            pi |-> {"type", "message", "role", "user", "assistant", "label", "session"},
            claude |-> {"type", "message", "role", "user", "assistant"}]

Digits == {"0", "1"}
InNumbers == Digits \cup {"-", "+", ".", "e"}
Marks == {"{", "}", "[", "]", ":", ","}

\* "null" stands for every literal, "bad" for a byte that has no place in JSON.
Symbols == Strings[agent] \cup InNumbers \cup Marks \cup {"null", "bad"}
IsString(x) == x \in Strings[agent]

-----------------------------------------------------------------------------
(* The discriminators of a record, and what they decide *)

Nowhere == "nowhere"
Paths == {<<"type">>, <<"payload", "type">>, <<"message", "role">>}

\* UsageRecord
Consumption(says) ==
  CASE agent = "codex" -> says[<<"type">>] = "event_msg" /\ says[<<"payload", "type">>] = "token_count"
    [] OTHER           -> says[<<"message", "role">>] = "assistant"
                          /\ says[<<"type">>] = IF agent = "pi" THEN "message" ELSE "assistant"

\* extractJSONRecord: evidence is usage, or context for it.
Recorded(says) == Consumption(says) \/ says[<<"type">>] \in {"turn_context", "session"}

\* streamDiscriminator.irrelevant
Irrelevant(says) ==
  CASE agent = "codex"  -> \/ says[<<"type">>] = "response_item"
                           \/ says[<<"type">>] = "event_msg" /\ says[<<"payload", "type">>] = "agent_message"
    [] agent = "pi"     -> \/ says[<<"type">>] = "label"
                           \/ says[<<"type">>] = "message" /\ says[<<"message", "role">>] = "user"
    [] agent = "claude" -> says[<<"type">>] = "user"

Silent == [p \in Paths |-> Nowhere]

-----------------------------------------------------------------------------
(* The agent writes any JSON object.  A name that is given again replaces  *)
(* the earlier value, all of it (decodeObject).                            *)

IsInt(s) == s # <<>> /\ (\A i \in DOMAIN s : s[i] \in Digits) /\ (s[1] = "0" => Len(s) = 1)
AreDigits(s) == s # <<>> /\ \A i \in DOMAIN s : s[i] \in Digits
Unsigned(s, signs) == IF s # <<>> /\ s[1] \in signs THEN Tail(s) ELSE s
IsFraction(s) == IF s = <<>> THEN TRUE ELSE s[1] = "." /\ AreDigits(Tail(s))
IsExponent(s) == IF s = <<>> THEN TRUE ELSE s[1] = "e" /\ AreDigits(Unsigned(Tail(s), {"+", "-"}))

IsNumber(s) ==
  LET u == Unsigned(s, {"-"}) IN
  \E i \in DOMAIN u : \E j \in i..Len(u) :
    /\ IsInt(SubSeq(u, 1, i)) /\ IsFraction(SubSeq(u, i + 1, j)) /\ IsExponent(SubSeq(u, j + 1, Len(u)))

Extends(number, x) ==
  x \in InNumbers /\ \E rest \in {<<>>} \cup {<<d>> : d \in Digits} : IsNumber(number \o <<x>> \o rest)

\* `next` is what the grammar wants; `fresh`: the innermost container is empty; `at`: the
\* names that lead to the value being written; `twice`: one of these names came again.
Blank == [open |-> <<>>, next |-> "object", fresh |-> FALSE, at |-> <<>>, number |-> <<>>,
          says |-> Silent, names |-> {}, twice |-> FALSE]

Whole == text.next = "end"

Within(t, bracket) == t.open # <<>> /\ Last(t.open) = bracket

May(t, x) ==
  \/ t.number # <<>> /\ Extends(t.number, x)
  \/ /\ t.number = <<>> \/ IsNumber(t.number)
     /\ \/ t.next = "name" /\ IsString(x)
        \/ t.next = "colon" /\ x = ":"
        \/ t.next = "value" /\ (IsString(x) \/ x = "null" \/ Extends(<<>>, x))
        \/ t.next \in {"value", "object"} /\ x = "{" /\ Len(t.open) < MaxDepth
        \/ t.next = "value" /\ x = "[" /\ Len(t.open) < MaxDepth
        \/ t.next = "more" /\ x = ","
        \/ (t.next = "more" \/ t.fresh) /\ Within(t, "{") /\ x = "}"
        \/ (t.next = "more" \/ t.fresh) /\ Within(t, "[") /\ x = "]"

LeadsTo(path, p) == Len(path) <= Len(p) /\ SubSeq(p, 1, Len(path)) = path
Leading(path) == \E p \in Paths : LeadsTo(path, p)

Named(t, name) ==
  LET path == Append(t.at, name) IN
  IF Leading(path)
  THEN [t EXCEPT !.at = path, !.says = [p \in Paths |-> IF LeadsTo(path, p) THEN Nowhere ELSE @[p]],
                 !.names = @ \cup {path}, !.twice = @ \/ path \in t.names]
  ELSE [t EXCEPT !.at = Append(@, "other")]

\* In an object, the next value is named anew.
ValueDone(t) ==
  [t EXCEPT !.next = IF t.open = <<>> THEN "end" ELSE "more", !.fresh = FALSE, !.number = <<>>,
            !.at = IF Within(t, "{") THEN Front(@) ELSE @]

Opened(t, x) ==
  [t EXCEPT !.open = Append(@, x), !.fresh = TRUE, !.next = IF x = "{" THEN "name" ELSE "value",
            !.at = IF x = "[" THEN Append(@, "items") ELSE @]

Closed(t) ==
  ValueDone([t EXCEPT !.open = Front(@), !.at = IF Within(t, "[") THEN Front(@) ELSE @])

Written(t, x) ==
  CASE t.number # <<>> /\ Extends(t.number, x) -> [t EXCEPT !.number = Append(@, x)]
    [] x = ":" -> [t EXCEPT !.next = "value"]
    [] x = "," -> [t EXCEPT !.next = IF Within(t, "{") THEN "name" ELSE "value", !.number = <<>>]
    [] x \in {"{", "["} -> Opened(t, x)
    [] x \in {"}", "]"} -> Closed(t)
    [] t.next = "name" /\ IsString(x) -> [Named(t, x) EXCEPT !.next = "colon", !.fresh = FALSE]
    [] t.next = "value" /\ IsString(x) ->
         ValueDone(IF t.at \in Paths THEN [t EXCEPT !.says[t.at] = x] ELSE t)
    [] t.next = "value" /\ x = "null" -> ValueDone(t)
    [] OTHER -> [ValueDone(t) EXCEPT !.number = <<x>>]

-----------------------------------------------------------------------------
(* streamDiscriminator: `calls` are object and array calls that have not   *)
(* returned, each with its path; `at` is the place in the innermost one,   *)
(* and `child` the path handed to value; "root" is the path of the object. *)

Started == [calls |-> <<>>, at |-> "object", child |-> Nowhere, number |-> 0,
            values |-> Silent, seen |-> {}, ambiguous |-> FALSE]

Dead == [Started EXCEPT !.at = "invalid"]

\* The names a path of the code stands for.
PathOf(name) == CASE name = "payload.type" -> <<"payload", "type">>
                  [] name = "message.role" -> <<"message", "role">>
                  [] OTHER -> <<name>>

\* Mutant: a name counts wherever it stands.
AnywhereNamed(parent, key) ==
  CASE parent = "payload" /\ key = "type" -> "payload.type"
    [] key = "role" -> "message.role"
    [] key \in {"type", "payload", "message"} -> key
    [] OTHER -> "?"

DiscriminatorPath(parent, key) ==
  CASE parent = "root" /\ key \in {"type", "payload", "message"} -> key
    [] parent = "payload" /\ key = "type" -> "payload.type"
    [] parent = "message" /\ key = "role" -> "message.role"
    [] OTHER -> "?"

Saw(s, child) ==
  IF child = "?" THEN s ELSE [s EXCEPT !.seen = @ \cup {child}, !.ambiguous = @ \/ child \in s.seen]

\* The transitions of number; it returns in state 2, 3, 5 or 8 only.
NumberNext(n, x) ==
  CASE n = 0 /\ x = "0" -> 2
    [] n = 0 /\ x = "1" -> 3
    [] n = 3 /\ x \in Digits -> 3
    [] n \in {2, 3} /\ x = "." -> 4
    [] n \in {2, 3, 5} /\ x = "e" -> 6
    [] n \in {4, 5} /\ x \in Digits -> 5
    [] n = 6 /\ x \in {"+", "-"} -> 7
    [] n \in {6, 7, 8} /\ x \in Digits -> 8
    [] OTHER -> -1
NumberEnds(n) == n \in {2, 3, 5, 8}

\* What follows a call of value.
Returned(s) == [s EXCEPT !.at = IF s.calls = <<>> THEN "end" ELSE "more"]
Return(s) == Returned([s EXCEPT !.calls = Front(@)])
Call(s, kind, path, at) ==
  IF Len(s.calls) >= MaxDepth THEN Dead
  ELSE [s EXCEPT !.calls = Append(@, [kind |-> kind, path |-> path]), !.at = at]

Value(s, path, x) ==
  CASE IsString(x) ->
         Returned(IF path # "?" /\ PathOf(path) \in Paths THEN [s EXCEPT !.values[PathOf(path)] = x] ELSE s)
    [] x = "{" -> Call(s, "object", path, "key_or_end")
    [] x = "[" -> Call(s, "array", "?", "item_or_end")
    [] x = "null" -> Returned(s)
    [] x = "-" -> [s EXCEPT !.at = "number", !.number = 0]
    [] x = "0" -> [s EXCEPT !.at = "number", !.number = 2]
    [] x = "1" -> [s EXCEPT !.at = "number", !.number = 3]
    [] OTHER -> Dead

Key(s, x) ==
  IF ~IsString(x) THEN Dead
  ELSE LET child == DiscriminatorPath(Last(s.calls).path, x)
       IN [Saw(s, child) EXCEPT !.child = child, !.at = "colon"]

More(s, x) ==
  LET object == Last(s.calls).kind = "object"
  IN CASE x = (IF object THEN "}" ELSE "]") -> Return(s)
       [] x = "," -> [s EXCEPT !.at = IF object THEN "key" ELSE "item"]
       [] OTHER -> Dead

Step(s, x) ==
  CASE s.at = "object"      -> IF x = "{" THEN Call(s, "object", "root", "key_or_end") ELSE Dead
    [] s.at = "key_or_end"  -> IF x = "}" THEN Return(s) ELSE Key(s, x)
    [] s.at = "key"         -> Key(s, x)
    [] s.at = "colon"       -> IF x = ":" THEN [s EXCEPT !.at = "value"] ELSE Dead
    [] s.at = "value"       -> Value([s EXCEPT !.child = Nowhere], s.child, x)
    [] s.at = "item_or_end" -> IF x = "]" THEN Return(s) ELSE Value(s, "?", x)
    [] s.at = "item"        -> Value(s, "?", x)
    [] s.at = "number"      -> IF NumberNext(s.number, x) >= 0
                               THEN [s EXCEPT !.number = NumberNext(s.number, x)]
                               ELSE IF NumberEnds(s.number) THEN More([s EXCEPT !.number = 0], x) ELSE Dead
    [] s.at = "more"        -> More(s, x)
    [] OTHER                -> Dead

\* readCaptureLine, at the end of the line or at the end of the file.
Outcome(s, tail) ==
  CASE s.at # "end" /\ tail -> "waits"
    [] s.at = "end" /\ ~s.ambiguous /\ Irrelevant(s.values) -> "skipped"
    [] OTHER -> "limit"

-----------------------------------------------------------------------------

LongLineInit ==
  /\ agent \in {"codex", "pi", "claude"}
  /\ text = Blank /\ scan = Started

\* What a number is does not depend on what stands before it.
LongestNumber == IF text.names = {} THEN MaxNumber ELSE 1

WriteSymbol(x) ==
  /\ May(text, x)
  /\ IsNumber(text.number) /\ Extends(text.number, x) => Len(text.number) < LongestNumber
  /\ text' = Written(text, x) /\ scan' = Step(scan, x)
  /\ UNCHANGED agent

NextLine ==
  /\ Whole
  /\ text' = Blank /\ scan' = Started
  /\ UNCHANGED agent

LongLineNext == NextLine \/ \E x \in Symbols : WriteSymbol(x)

LongLineSpec == LongLineInit /\ [][LongLineNext]_longLineVars

-----------------------------------------------------------------------------
(* Properties *)

\* However deep, and with whatever names given twice: the stream parser takes exactly
\* what JSON allows; a line is skipped exactly if its discriminators say plainly, and
\* once, that it is irrelevant, and then reading it whole would have recorded nothing;
\* one that is cut off waits for its rest (readCaptureLine, extractJSONRecord).
SkipsOnlyTheIrrelevant ==
  /\ \A x \in Symbols : May(text, x) <=> Step(scan, x).at # "invalid"
  /\ Whole <=> scan.at = "end"
  /\ \A tail \in BOOLEAN :
       /\ Outcome(scan, tail) = "skipped" <=> Whole /\ ~text.twice /\ Irrelevant(text.says)
       /\ Outcome(scan, tail) = "skipped" => ~Recorded(text.says)
       /\ Outcome(scan, tail) = "waits" <=> tail /\ ~Whole
=============================================================================
