----------------------------- MODULE CodexTurns -----------------------------
(***************************************************************************)
(* Which turn and model a Codex usage event belongs to.  A rollout says so *)
(* on lines of its own; the collector hands each event the latest of each  *)
(* kind (extract.go), and the processor, which sees one record at a time   *)
(* and an arriving prefix of them, puts the turn together again            *)
(* (processor/codex.go, process.go).  A turn context names turn and model. *)
(***************************************************************************)
EXTENDS Integers, FiniteSets, SequencesExt

CONSTANTS
  Turns, Models,
  Missing,         \* no turn, no model
  MaxRollouts,     \* bound: files written at the path of the session
  MaxWritten       \* bound: lines written, in all files

ASSUME CodexTurnsAssumption ==
  /\ Missing \notin Turns \cup Models
  /\ MaxRollouts \in Nat \ {0} /\ MaxWritten \in Nat

VARIABLES
  rollouts,        \* the files that took each other's place; each a sequence of lines
  cursor,          \* extractionCursor: lineage, ordinal, and the contexts kept
  evidence         \* the records captured.  They are sent in this order (module
                   \* Delivery): what the server holds was once all that was captured

turnsVars == <<rollouts, cursor, evidence>>

Line(kind, turn, model) == [kind |-> kind, turn |-> turn, model |-> model]
SessionMeta == Line("session_meta", Missing, Missing)
Usage == Line("token_count", Missing, Missing)
RolloutLines ==
  {SessionMeta, Usage} \cup {Line("turn_context", t, m) : t \in Turns, m \in Models}
                       \cup {Line("task_started", t, Missing) : t \in Turns}

-----------------------------------------------------------------------------
(* The host writes; the collector follows *)

LinesWritten == FoldLeft(LAMBDA n, file : n + Len(file), 0, rollouts)

\* The host: of a rollout, one session_meta is enough.
WriteRolloutLine(line) ==
  /\ LinesWritten < MaxWritten
  /\ line = SessionMeta => ~Contains(Last(rollouts), line)
  /\ rollouts' = [rollouts EXCEPT ![Len(rollouts)] = Append(@, line)]
  /\ UNCHANGED <<cursor, evidence>>

\* Another file takes its place.
ReplaceRollout ==
  /\ Len(rollouts) < MaxRollouts
  /\ rollouts' = Append(rollouts, << >>)
  /\ UNCHANGED <<cursor, evidence>>

\* A rewritten file starts a lineage (module Capture).
Rotate ==
  /\ cursor.lineage < Len(rollouts)
  /\ cursor' = [lineage |-> Len(rollouts), ordinal |-> 0, context |-> {}]
  /\ UNCHANGED <<rollouts, evidence>>

\* extractJSONRecord: the latest record of each kind is kept for those that follow.
KeptFor(context, record) ==
  IF record.line = Usage THEN context
  ELSE {c \in context : c.line.kind # record.line.kind}
       \cup {[ordinal |-> record.ordinal, line |-> record.line]}

Extract ==
  /\ cursor.lineage = Len(rollouts) /\ cursor.ordinal < Len(Last(rollouts))
  /\ LET n == cursor.ordinal + 1
         record == [lineage |-> cursor.lineage, ordinal |-> n, line |-> Last(rollouts)[n],
                    context |-> {c \in cursor.context : c.line.kind # Last(rollouts)[n].kind}]
     IN /\ cursor' = [cursor EXCEPT !.ordinal = n, !.context = KeptFor(@, record)]
        /\ evidence' = evidence \cup {record}
  /\ UNCHANGED rollouts

TurnsInit ==
  /\ rollouts = << << >> >>
  /\ cursor = [lineage |-> 1, ordinal |-> 0, context |-> {}]
  /\ evidence = {}

TurnsNext ==
  \/ \E line \in RolloutLines : WriteRolloutLine(line)
  \/ ReplaceRollout \/ Rotate \/ Extract

TurnsSpec == TurnsInit /\ [][TurnsNext]_turnsVars

-----------------------------------------------------------------------------
(* process.go: the state a record's own contexts give, and the turn context *)
(* that may follow it                                                       *)

\* codexJSONLState
NoState == [session |-> FALSE, turn |-> Missing, model |-> Missing]

\* applySessionMeta, applyTurnContext, and a started task.
Applied(state, line) ==
  CASE line.kind = "session_meta" -> [state EXCEPT !.session = TRUE]
    [] line.kind = "turn_context" -> [state EXCEPT !.turn = line.turn, !.model = line.model]
    [] line.kind = "task_started" -> [state EXCEPT !.turn = line.turn]

\* The contexts a record keeps are applied in their order: the latest one last.
Latest(contexts) == CHOOSE c \in contexts : \A d \in contexts : d.ordinal <= c.ordinal
StateOf(record) ==
  MapThenFoldSet(LAMBDA c, state : Applied(state, c.line), NoState, LAMBDA c : c, Latest, record.context)

\* Mutant: a turn context of any file will do.
InAnyLineage(record) ==
  {r \in evidence : r.ordinal > record.ordinal /\ r.line.kind = "turn_context"}

Following(record) ==
  {r \in evidence : /\ r.lineage = record.lineage /\ r.ordinal > record.ordinal
                /\ r.line.kind = "turn_context"}
Nearest(records) == CHOOSE r \in records : \A q \in records : r.ordinal <= q.ordinal

\* factFromEvent without a model leaves the event pending; flushPending resolves it.
Flushed(state, record) ==
  IF Following(record) = {} THEN state
  ELSE LET next == Applied(state, Nearest(Following(record)).line)
       IN [state EXCEPT !.model = next.model, !.turn = IF @ = Missing THEN next.turn ELSE @]

Attribution(record) ==
  LET state == StateOf(record) IN
  CASE ~state.session -> NoState
    [] state.session /\ state.model # Missing -> state
    [] state.session /\ state.model = Missing -> Flushed(state, record)

-----------------------------------------------------------------------------
(* Properties *)

\* The line of these kinds nearest to line n of a file, before it, and the turn context after it.
Around(file, n, kinds, upto) ==
  LET before == {i \in 1..n - 1 : file[i].kind \in kinds}
      after == {i \in n + 1..upto : file[i].kind = "turn_context"}
  IN [before |-> IF before = {} THEN {} ELSE {file[CHOOSE i \in before : \A j \in before : j <= i]},
      after |-> IF after = {} THEN {} ELSE {file[CHOOSE i \in after : \A j \in after : i <= j]}]

ArrivedOf(lineage) == Cardinality({r \in evidence : r.lineage = lineage})

\* Every event of a session belongs to the turn that its file, read from the start in
\* one go, has last opened before it, and to the model last named; one that precedes
\* them all, to the first turn that follows in the same file, once that has arrived,
\* and from then on for good: "Later same-lineage turn context can resolve missing
\* model metadata" (docs/design.md:190).
AttributedAsRead ==
  \A r \in {q \in evidence : q.line = Usage} :
    LET file == rollouts[r.lineage]
        upto == ArrivedOf(r.lineage)
        opened == Around(file, r.ordinal, {"turn_context", "task_started"}, upto)
        named == Around(file, r.ordinal, {"turn_context"}, upto)
        says == Attribution(r)
        Follow(around) == IF around.before # {} THEN around.before ELSE around.after
    IN IF ~\E i \in 1..r.ordinal : file[i] = SessionMeta THEN says = NoState
       ELSE /\ says.session
            /\ {says.model} = (IF Follow(named) = {} THEN {Missing} ELSE {l.model : l \in Follow(named)})
            /\ {says.turn} = (IF Follow(opened) = {} THEN {Missing} ELSE {l.turn : l \in Follow(opened)})
=============================================================================
