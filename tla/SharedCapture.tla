---------------------------- MODULE SharedCapture ----------------------------
(***************************************************************************)
(* Viewers of one backend share its captures: overlapping requests join,   *)
(* a full refresh that joins a plain capture gets a follow-up, and the     *)
(* backend joins everything before it closes its stores                    *)
(* (src/packages/core: localbackend/capture.go, localruntime).             *)
(***************************************************************************)
EXTENDS Integers

CONSTANTS
  Callers,       \* requests to capture, each made once
  Full,          \* those that ask for a full refresh
  Dir,           \* the source directory of each
  None           \* no capture, no ticket, no result

ASSUME SharedCaptureAssumption ==
  /\ Full \subseteq Callers /\ None \notin Callers
  /\ \A c \in Callers, full \in BOOLEAN : None # [dir |-> Dir[c], full |-> full]
  /\ \A ok \in BOOLEAN, full \in BOOLEAN : None # [ok |-> ok, full |-> full]

\* A ticket is named after the request that opened it.
VARIABLES
  caller,        \* where each request is
  ticket,        \* the ticket each caller waits for
  reply,        \* the result it got
  active,        \* captures.active: directory, full
  wanted,       \* captures.pending
  current,       \* captures.ticket
  results,       \* of each ticket that is done
  run,           \* the collection: full, how far, which of its ticket, without error
  live,          \* the backend's context is not cancelled
  shutdown       \* of closing the backend

callerVars  == <<caller, ticket, reply>>
captureVars == <<active, wanted, current, results, run>>
backendVars == <<live, shutdown>>
sharedVars == <<callerVars, captureVars, backendVars>>

Collection(full, round) == [full |-> full, phase |-> "collecting", round |-> round, ok |-> FALSE]

-----------------------------------------------------------------------------
(* captures.request, all of it under captures.mu *)

\* Mutant: a stronger request joins like any other.
NeverStronger(c) == FALSE

Stronger(c) == c \in Full /\ ~active.full

Join(c) ==
  /\ active # None /\ active.dir = Dir[c]
  /\ wanted' = (wanted \/ Stronger(c))
  /\ caller' = [caller EXCEPT ![c] = "waiting"]
  /\ ticket' = [ticket EXCEPT ![c] = current]
  /\ UNCHANGED <<reply, active, current, results, run>>

\* StartCollection is part of it: the collection is counted before the lock is left.
StartCapture(c) ==
  /\ active = None /\ live
  /\ active' = [dir |-> Dir[c], full |-> c \in Full]
  /\ current' = c
  /\ run' = Collection(c \in Full, 1)
  /\ caller' = [caller EXCEPT ![c] = "waiting"]
  /\ ticket' = [ticket EXCEPT ![c] = c]
  /\ UNCHANGED <<reply, wanted, results>>

\* ErrCaptureBusy for another directory; the error of the context once it is cancelled.
Refuse(c) ==
  /\ IF active = None THEN ~live ELSE active.dir # Dir[c]
  /\ caller' = [caller EXCEPT ![c] = "refused"]
  /\ UNCHANGED <<ticket, reply, captureVars>>

RequestCapture(c) ==
  /\ caller[c] = "idle" /\ shutdown # "closed"
  /\ Join(c) \/ StartCapture(c) \/ Refuse(c)
  /\ UNCHANGED backendVars

-----------------------------------------------------------------------------
(* captures.collect *)

\* The collection ends, with or without an error, cancelled or not.
Return ==
  /\ run.phase = "collecting"
  /\ \E ok \in BOOLEAN : run' = [run EXCEPT !.phase = "returned", !.ok = ok]
  /\ UNCHANGED <<callerVars, active, wanted, current, results, backendVars>>

\* Mutant: a follow-up that runs stays wanted.
StillPending == TRUE

Strengthened == [active EXCEPT !.full = TRUE]
Served == FALSE

\* Bound: collections of one ticket are counted up to here.
MaxRounds == 3

FollowUp ==
  /\ run.phase = "returned" /\ wanted /\ live
  /\ wanted' = Served
  /\ active' = Strengthened
  /\ run' = Collection(TRUE, IF run.round < MaxRounds THEN run.round + 1 ELSE MaxRounds)
  /\ UNCHANGED <<callerVars, current, results, backendVars>>

Done ==
  /\ run.phase = "returned" /\ ~(wanted /\ live)
  /\ active' = None
  /\ results' = [results EXCEPT ![current] = [ok |-> run.ok, full |-> run.full]]
  /\ run' = [run EXCEPT !.phase = "none"]
  /\ UNCHANGED <<callerVars, wanted, current, backendVars>>

-----------------------------------------------------------------------------
(* collectionStream: the caller gets the result of its ticket, or its connection ends *)

Answer(c) ==
  /\ caller[c] = "waiting" /\ results[ticket[c]] # None
  /\ caller' = [caller EXCEPT ![c] = "answered"]
  /\ reply' = [reply EXCEPT ![c] = results[ticket[c]]]
  /\ UNCHANGED <<ticket, captureVars, backendVars>>

Disconnect(c) ==
  /\ caller[c] = "waiting"
  /\ caller' = [caller EXCEPT ![c] = "gone"]
  /\ UNCHANGED <<ticket, reply, captureVars, backendVars>>

-----------------------------------------------------------------------------
(* The end of localbackend.serve *)

\* The last viewer left, or a signal.
Cancel ==
  /\ live
  /\ live' = FALSE /\ shutdown' = "joining"
  /\ UNCHANGED <<callerVars, captureVars>>

\* captures.join
JoinCaptures ==
  /\ shutdown = "joining"
  /\ current # None => results[current] # None
  /\ shutdown' = "closing"
  /\ UNCHANGED <<callerVars, captureVars, live>>

\* Runtime.Close waits for the collections it counted and closes the stores.
Close ==
  /\ shutdown = "closing" /\ run.phase # "collecting"
  /\ shutdown' = "closed"
  /\ UNCHANGED <<callerVars, captureVars, live>>

-----------------------------------------------------------------------------
SharedInit ==
  /\ caller = [c \in Callers |-> "idle"] /\ ticket = [c \in Callers |-> None]
  /\ reply = [c \in Callers |-> None]
  /\ active = None /\ wanted = FALSE /\ current = None
  /\ results = [c \in Callers |-> None]
  /\ run = [full |-> FALSE, phase |-> "none", round |-> 0, ok |-> FALSE]
  /\ live = TRUE /\ shutdown = "serving"

SharedNext ==
  \/ \E c \in Callers : RequestCapture(c) \/ Answer(c) \/ Disconnect(c)
  \/ Return \/ FollowUp \/ Done
  \/ Cancel \/ JoinCaptures \/ Close

\* Collections return, and the goroutines that wait for them run.
SharedFairness ==
  /\ WF_sharedVars(Return) /\ WF_sharedVars(FollowUp) /\ WF_sharedVars(Done)
  /\ WF_sharedVars(JoinCaptures) /\ WF_sharedVars(Close)
  /\ \A c \in Callers : WF_sharedVars(Answer(c))

SharedSpec == SharedInit /\ [][SharedNext]_sharedVars

-----------------------------------------------------------------------------
SharedTypeOK ==
  /\ caller \in [Callers -> {"idle", "waiting", "answered", "refused", "gone"}]
  /\ ticket \in [Callers -> Callers \cup {None}]
  /\ current \in Callers \cup {None}
  /\ wanted \in BOOLEAN /\ live \in BOOLEAN
  /\ run.phase \in {"none", "collecting", "returned"} /\ run.full \in BOOLEAN
  /\ shutdown \in {"serving", "joining", "closing", "closed"}
  /\ active = None <=> run.phase = "none"

\* While the backend serves, no full refresh is answered with the success of a plain
\* capture it joined (captures.request against collect).  A backend that stops drops
\* the follow-up and may do just that.
FullMeansFull ==
  [][\A c \in Full : live /\ caller[c] = "waiting" /\ caller'[c] = "answered" /\ reply'[c].ok
       => reply'[c].full]_sharedVars

\* At most one follow-up for all that join a capture, however many of them are stronger
\* and whenever they come (the comment on captures).
OneFollowUp == run.round <= 2

\* Who waits is answered, or leaves, and a backend told to stop does so: each of the
\* waits on the way to it ends.
AllAnswered ==
  /\ \A c \in Callers : caller[c] = "waiting" ~> caller[c] # "waiting"
  /\ ~live ~> shutdown = "closed"
=============================================================================
