----------------------------- MODULE MCCapture -----------------------------
(* Small instances of Capture: the first source holds any line, the others  *)
(* one line of usage.                                                       *)
EXTENDS Capture

CONSTANTS usage, header, huge, lengths, rewritings

MCKindOf == [l \in Lines |-> CASE l = header -> "session" [] l = huge -> "limit" [] OTHER -> "usage"]
MCMayHold == [s \in Sources |-> IF s = 1 THEN Lines ELSE {usage}]
MCMaxLines == [s \in Sources |-> IF s = 1 THEN lengths ELSE 0]
MCMaxRewrites == [s \in Sources |-> IF s = 1 THEN rewritings ELSE 0]
=============================================================================
