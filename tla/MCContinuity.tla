---------------------------- MODULE MCContinuity ----------------------------
(***************************************************************************)
(* Capture and what is read of a line, each on its own: a collection       *)
(* follows logs that are rewritten, a single line too long for evidence is *)
(* read as a stream, and the turns of a Codex rollout are put together     *)
(* again.  `part` names the one that runs, and the others stay as they     *)
(* began.                                                                  *)
(***************************************************************************)
EXTENDS MCCapture, LongLine, CodexTurns, TLC

VARIABLE part

allVars == <<vars, longLineVars, turnsVars, part>>

\* Neither turns nor models are compared with anything but each other.
Alike == Permutations(Turns) \cup Permutations(Models)

MCInit ==
  /\ part \in {"capture", "line", "turns"}
  /\ Init /\ TurnsInit
  /\ LongLineInit /\ (part # "line" => agent = "pi")

\* The host of the turns falls silent.
AllRead ==
  /\ LinesWritten = MaxWritten
  /\ cursor.lineage = Len(rollouts) /\ cursor.ordinal = Len(Last(rollouts))

MCNext ==
  /\ UNCHANGED part
  /\ \/ part = "capture" /\ Next /\ UNCHANGED <<longLineVars, turnsVars>>
     \/ part = "line" /\ LongLineNext /\ UNCHANGED <<vars, turnsVars>>
     \/ part = "turns" /\ TurnsNext /\ UNCHANGED <<vars, longLineVars>>
     \/ part = "turns" /\ AllRead /\ UNCHANGED <<vars, longLineVars, turnsVars>>

MCSpec == MCInit /\ [][MCNext]_allVars
=============================================================================
