------------------------- MODULE Collections_proofs -------------------------
(***************************************************************************)
(* What the backend runs for its clients, for every instance: captures     *)
(* that requests join, and collections that publish their progress.        *)
(***************************************************************************)
EXTENDS SharedCapture, CollectorProgress, FiniteSetTheorems, WellFoundedInduction, TLAPS


-----------------------------------------------------------------------------
(* Shared captures: the inductive invariant *)

\* Types, as far as the steps need them.
Typed ==
  /\ caller \in [Callers -> {"idle", "waiting", "answered", "refused", "gone"}]
  /\ ticket \in [Callers -> Callers \cup {None}]
  /\ current \in Callers \cup {None}
  /\ wanted \in BOOLEAN /\ live \in BOOLEAN
  /\ run \in [full : BOOLEAN, phase : {"none", "collecting", "returned"}, round : Nat, ok : BOOLEAN]
  /\ shutdown \in {"serving", "joining", "closing", "closed"}
  /\ results \in [Callers -> [ok : BOOLEAN, full : BOOLEAN] \cup {None}]
  /\ reply \in [Callers -> [ok : BOOLEAN, full : BOOLEAN] \cup {None}]
  /\ active \in [dir : {Dir[c] : c \in Callers}, full : BOOLEAN] \cup {None}

\* captures.active is what runs, under a ticket that is not done.
InStep ==
  /\ active = None <=> run.phase = "none"
  /\ active # None => active.full = run.full /\ current \in Callers /\ results[current] = None

\* A request that was not made yet opened no ticket.
Unused == \A c \in Callers : caller[c] = "idle" => results[c] = None /\ current # c

\* Something stronger is wanted only while a plain capture runs, its first one; the
\* flag outlives it only in a backend that stops.
PendingOnce ==
  /\ wanted => IF active = None THEN ~live ELSE ~active.full
  /\ run.round <= 2
  /\ active # None /\ ~active.full => run.round = 1

\* What a full refresh waits for is full, or will be followed by one.
Promised(c) ==
  IF results[ticket[c]] = None
  THEN ticket[c] = current /\ active # None /\ (active.full \/ wanted)
  ELSE results[ticket[c]].ok /\ live => results[ticket[c]].full

Promises == \A c \in Full : caller[c] = "waiting" => ticket[c] \in Callers /\ Promised(c)

\* Everybody who waits has a ticket.
Ticketed == \A c \in Callers : caller[c] = "waiting" => ticket[c] \in Callers

IInv == Typed /\ InStep /\ Unused /\ PendingOnce /\ Ticketed /\ Promises

-----------------------------------------------------------------------------
\* Nothing runs, and nobody waits, when a backend starts.
LEMMA InitIInv == SharedInit => IInv
<1> SUFFICES ASSUME SharedInit PROVE IInv
  OBVIOUS
<1> USE SharedCaptureAssumption DEF SharedInit
<1>1. Typed
  BY DEF Typed
<1>2. InStep /\ Unused /\ PendingOnce
  BY DEF InStep, Unused, PendingOnce
<1>3. Ticketed /\ Promises
  BY DEF Ticketed, Promises
<1> QED BY <1>1, <1>2, <1>3 DEF IInv

\* Requests: they join, start a collection or are refused.
LEMMA RequestStep == ASSUME IInv, NEW c \in Callers, RequestCapture(c) PROVE IInv'
<1> USE SharedCaptureAssumption
<1>1. CASE Join(c)
  <2>1. active # None /\ run.phase # "none" /\ current \in Callers /\ results[current] = None
        /\ active.full \in BOOLEAN /\ caller[c] = "idle" /\ current # c
    BY <1>1 DEF RequestCapture, Join, IInv, Typed, InStep, Unused
  <2>2. wanted' \in BOOLEAN /\ (wanted' <=> wanted \/ Stronger(c))
        /\ caller' = [caller EXCEPT ![c] = "waiting"]
        /\ ticket' = [ticket EXCEPT ![c] = current]
        /\ UNCHANGED <<reply, active, current, results, run, backendVars>>
    BY <1>1 DEF RequestCapture, Join
  <2>3. wanted' => ~active.full
    BY <2>1, <2>2 DEF Stronger, IInv, PendingOnce
  <2>4. Typed' /\ Ticketed'
    BY <2>1, <2>2 DEF IInv, Typed, Ticketed, backendVars
  <2>5. InStep' /\ Unused'
    BY <2>1, <2>2 DEF IInv, Typed, InStep, Unused, backendVars
  <2>6. PendingOnce'
    BY <2>1, <2>2, <2>3 DEF IInv, PendingOnce, backendVars
  <2>7. Promises'
    BY <2>1, <2>2 DEF IInv, Typed, Promises, Promised, Stronger, backendVars
  <2> QED BY <2>4, <2>5, <2>6, <2>7 DEF IInv
<1>2. CASE StartCapture(c)
  <2> DEFINE started == [dir |-> Dir[c], full |-> c \in Full]
  <2>0. PICK full \in BOOLEAN : full = (c \in Full)
    <3>1. (c \in Full) = TRUE \/ (c \in Full) = FALSE
      OBVIOUS
    <3> QED BY <3>1, Zenon
  <2>1. started # None /\ started.full = full
        /\ started \in [dir : {Dir[d] : d \in Callers}, full : BOOLEAN]
    BY <2>0
  <2>2. active = None /\ ~wanted /\ live /\ run.phase = "none"
        /\ caller[c] = "idle" /\ results[c] = None
    BY <1>2 DEF RequestCapture, StartCapture, IInv, Typed, InStep, Unused, PendingOnce
  <2>3. active' = started /\ current' = c /\ wanted' = wanted /\ results' = results
        /\ run' = [full |-> full, phase |-> "collecting", round |-> 1, ok |-> FALSE]
        /\ caller' = [caller EXCEPT ![c] = "waiting"]
        /\ ticket' = [ticket EXCEPT ![c] = c]
        /\ reply' = reply /\ live' = live /\ shutdown' = shutdown
    BY <1>2, <2>0 DEF RequestCapture, StartCapture, Collection, backendVars
  <2> HIDE DEF started
  <2>4. Typed'
    BY <2>1, <2>3 DEF IInv, Typed
  <2>5. InStep' /\ Unused'
    BY <2>1, <2>2, <2>3 DEF IInv, Typed, InStep, Unused
  <2>6. PendingOnce' /\ Ticketed'
    BY <2>1, <2>2, <2>3 DEF IInv, Typed, PendingOnce, Ticketed
  <2>7. Promises'
    <3> SUFFICES ASSUME NEW d \in Full, caller'[d] = "waiting"
                 PROVE  ticket'[d] \in Callers /\ Promised(d)'
      BY DEF Promises
    <3>1. CASE d = c
      BY <2>0, <2>1, <2>2, <2>3, <3>1 DEF IInv, Typed, Promised
    <3>2. CASE d # c
      <4>1. caller[d] = "waiting" /\ ticket'[d] = ticket[d]
        BY <2>3, <3>2 DEF IInv, Typed
      <4>2. ticket[d] \in Callers /\ results[ticket[d]] # None
        BY <2>2, <4>1 DEF IInv, Promises, Promised
      <4> QED BY <2>2, <2>3, <4>1, <4>2 DEF IInv, Promises, Promised
    <3> QED BY <3>1, <3>2
  <2> QED BY <2>4, <2>5, <2>6, <2>7 DEF IInv
<1>3. CASE Refuse(c)
  BY <1>3 DEF RequestCapture, Refuse, IInv, Typed, InStep, Unused, PendingOnce, Ticketed,
     Promises, Promised, backendVars, captureVars
<1> QED BY <1>1, <1>2, <1>3 DEF RequestCapture

\* Answers and closed connections change nothing the others rely on.
LEMMA CallerStep == ASSUME IInv, NEW c \in Callers, Answer(c) \/ Disconnect(c) PROVE IInv'
<1> USE SharedCaptureAssumption
<1>1. CASE Answer(c)
  BY <1>1 DEF Answer, IInv, Typed, InStep, Unused, PendingOnce, Ticketed,
     Promises, Promised, backendVars, captureVars
<1>2. CASE Disconnect(c)
  BY <1>2 DEF Disconnect, IInv, Typed, InStep, Unused, PendingOnce, Ticketed,
     Promises, Promised, backendVars, captureVars
<1> QED BY <1>1, <1>2

\* A collection returns.
LEMMA ReturnStep == ASSUME IInv, Return PROVE IInv'
<1>1. PICK ok \in BOOLEAN : run' = [run EXCEPT !.phase = "returned", !.ok = ok]
  BY DEF Return
<1>2. run'.full = run.full /\ run'.round = run.round /\ run'.phase = "returned"
      /\ run' \in [full : BOOLEAN, phase : {"none", "collecting", "returned"}, round : Nat, ok : BOOLEAN]
  BY <1>1 DEF IInv, Typed
<1> QED BY <1>2 DEF Return, IInv, Typed, InStep, Unused, PendingOnce, Ticketed,
     Promises, Promised, backendVars, callerVars

\* The follow-up is full, and what was wanted is served by it.
LEMMA FollowUpStep == ASSUME IInv, FollowUp PROVE IInv'
<1> USE SharedCaptureAssumption
<1>1. active # None /\ ~active.full /\ run.round = 1 /\ wanted /\ live
  BY DEF FollowUp, IInv, Typed, InStep, PendingOnce
<1>2. active' # None /\ active'.full
      /\ active' \in [dir : {Dir[c] : c \in Callers}, full : BOOLEAN]
  <2>1. PICK d \in {Dir[c] : c \in Callers}, f \in BOOLEAN : active = [dir |-> d, full |-> f]
    BY <1>1 DEF IInv, Typed
  <2>2. active' = [dir |-> d, full |-> TRUE]
    BY <2>1 DEF FollowUp, Strengthened
  <2>3. PICK c \in Callers : d = Dir[c]
    OBVIOUS
  <2> QED BY <2>2, <2>3
<1>3. run' = [full |-> TRUE, phase |-> "collecting", round |-> 2, ok |-> FALSE] /\ ~wanted'
  BY <1>1 DEF FollowUp, Collection, MaxRounds, Served
<1>4. current' = current /\ results' = results /\ UNCHANGED <<callerVars, backendVars>> /\ wanted' = FALSE
  BY DEF FollowUp, Served
<1> HIDE DEF FollowUp
<1>5. Typed' /\ Ticketed' /\ Unused'
  BY <1>2, <1>3, <1>4 DEF IInv, Typed, Ticketed, Unused, callerVars, backendVars
<1>6. InStep' /\ PendingOnce'
  BY <1>1, <1>2, <1>3, <1>4 DEF IInv, Typed, InStep, PendingOnce, callerVars, backendVars
<1>7. Promises'
  BY <1>1, <1>2, <1>3, <1>4 DEF IInv, Promises, Promised, callerVars, backendVars
<1> QED BY <1>5, <1>6, <1>7 DEF IInv

\* A ticket is done.
LEMMA DoneStep == ASSUME IInv, Done PROVE IInv'
<1> USE SharedCaptureAssumption
<1> DEFINE result == [ok |-> run.ok, full |-> run.full]
<1>1. active # None /\ active.full = run.full /\ current \in Callers /\ results[current] = None
      /\ (wanted => ~live)
  BY DEF Done, IInv, Typed, InStep
<1>2. result # None /\ result.full = run.full /\ result \in [ok : BOOLEAN, full : BOOLEAN]
  BY DEF IInv, Typed
<1>3. run'.phase = "none" /\ run'.round = run.round
      /\ run' \in [full : BOOLEAN, phase : {"none", "collecting", "returned"}, round : Nat, ok : BOOLEAN]
  BY DEF Done, IInv, Typed
<1>4. active' = None /\ results' = [results EXCEPT ![current] = result]
      /\ UNCHANGED <<callerVars, wanted, current, backendVars>>
  BY DEF Done
<1> HIDE DEF result
<1>5. Typed' /\ Ticketed'
  BY <1>1, <1>2, <1>3, <1>4 DEF IInv, Typed, Ticketed, callerVars, backendVars
<1>6. InStep' /\ Unused' /\ PendingOnce'
  BY <1>1, <1>2, <1>3, <1>4 DEF IInv, Typed, InStep, Unused, PendingOnce, callerVars, backendVars
<1>7. Promises'
  <2> SUFFICES ASSUME NEW c \in Full, caller[c] = "waiting"
               PROVE  ticket[c] \in Callers /\ Promised(c)'
    BY <1>4 DEF Promises, callerVars
  <2>1. ticket[c] \in Callers /\ Promised(c)
    BY DEF IInv, Promises
  <2>2. CASE ticket[c] = current
    <3>1. active.full \/ wanted
      BY <1>1, <2>1, <2>2 DEF Promised
    <3>2. results'[ticket[c]] = result
      BY <1>4, <2>2, <1>1 DEF IInv, Typed
    <3> QED BY <1>1, <1>2, <1>4, <2>1, <3>1, <3>2 DEF Promised, callerVars, backendVars
  <2>3. CASE ticket[c] # current
    BY <1>1, <1>4, <2>1, <2>3 DEF Promised, IInv, Typed, callerVars, backendVars
  <2> QED BY <2>1, <2>2, <2>3
<1> QED BY <1>5, <1>6, <1>7 DEF IInv

\* The end of the backend.
LEMMA ClosingStep == ASSUME IInv, Cancel \/ JoinCaptures \/ Close PROVE IInv'
<1>1. UNCHANGED <<callerVars, captureVars>> /\ live' \in BOOLEAN /\ (live' => live)
      /\ shutdown' \in {"serving", "joining", "closing", "closed"}
  <2>1. UNCHANGED <<callerVars, captureVars>>
        /\ shutdown' \in {"serving", "joining", "closing", "closed"}
    BY DEF Cancel, JoinCaptures, Close
  <2>2. live \in BOOLEAN
    BY DEF IInv, Typed
  <2>3. CASE Cancel
    BY <2>3, <2>1 DEF Cancel
  <2>4. CASE JoinCaptures
    BY <2>4, <2>1, <2>2 DEF JoinCaptures
  <2>5. CASE Close
    BY <2>5, <2>1, <2>2 DEF Close
  <2> QED BY <2>3, <2>4, <2>5
<1>2. Typed' /\ InStep' /\ Unused' /\ Ticketed'
  BY <1>1 DEF IInv, Typed, InStep, Unused, Ticketed, callerVars, captureVars
<1>3. PendingOnce'
  BY <1>1 DEF IInv, Typed, PendingOnce, callerVars, captureVars
<1>4. Promises'
  BY <1>1 DEF IInv, Typed, Promises, Promised, callerVars, captureVars
<1> QED BY <1>2, <1>3, <1>4 DEF IInv

\* A step of something else leaves the captures alone.
LEMMA StutterIInv == ASSUME IInv, UNCHANGED sharedVars PROVE IInv'
  BY DEF IInv, Typed, InStep, Unused, PendingOnce, Ticketed, Promises, Promised,
     sharedVars, callerVars, captureVars, backendVars

\* Every step keeps the invariant.
LEMMA NextIInv == ASSUME IInv, [SharedNext]_sharedVars PROVE IInv'
  BY RequestStep, CallerStep, ReturnStep, FollowUpStep, DoneStep, ClosingStep, StutterIInv DEF SharedNext

-----------------------------------------------------------------------------
\* Joining, following up and answering keep captures.active, the wanted flag and the
\* tickets in step with what really runs.
THEOREM CapturesHold == SharedSpec => []IInv
<1>1. SharedInit => IInv
  BY InitIInv
<1>2. IInv /\ [SharedNext]_sharedVars => IInv'
  BY NextIInv
<1> QED BY <1>1, <1>2, PTL DEF SharedSpec

\* Every reachable state has its type.
THEOREM CaptureTypeCorrect == SharedSpec => []SharedTypeOK
<1>1. IInv => SharedTypeOK
  BY DEF IInv, Typed, InStep, SharedTypeOK
<1> QED BY <1>1, CapturesHold, PTL

\* However many requests join a capture, and however strong they are, it is followed
\* up once (captures).
THEOREM FollowedOnce == SharedSpec => []OneFollowUp
<1>1. IInv => OneFollowUp
  BY DEF IInv, PendingOnce, OneFollowUp
<1> QED BY <1>1, CapturesHold, PTL

\* A full refresh that joined a plain capture is answered with a full one while the
\* backend serves (captures.request, captures.collect).
THEOREM RefreshesAreFull == SharedSpec => FullMeansFull
<1>1. ASSUME IInv, [SharedNext]_sharedVars, NEW c \in Full,
             live, caller[c] = "waiting", caller'[c] = "answered", reply'[c].ok
      PROVE  reply'[c].full
  <2>1. Answer(c)
    <3> USE SharedCaptureAssumption
    <3>1. ASSUME NEW d \in Callers, RequestCapture(d) PROVE FALSE
      BY <1>1, <3>1 DEF RequestCapture, Join, StartCapture, Refuse, IInv, Typed
    <3>2. ASSUME NEW d \in Callers, Disconnect(d) PROVE FALSE
      BY <1>1, <3>2 DEF Disconnect, IInv, Typed
    <3>3. ASSUME NEW d \in Callers, Answer(d) PROVE d = c
      BY <1>1, <3>3 DEF Answer, IInv, Typed
    <3>4. ASSUME Return \/ FollowUp \/ Done \/ Cancel \/ JoinCaptures \/ Close \/ UNCHANGED sharedVars
          PROVE  FALSE
      BY <1>1, <3>4 DEF Return, FollowUp, Done, Cancel, JoinCaptures, Close, sharedVars, callerVars
    <3> QED BY <1>1, <3>1, <3>2, <3>3, <3>4 DEF SharedNext
  <2>2. reply'[c] = results[ticket[c]] /\ results[ticket[c]] # None
    BY <1>1, <2>1, SharedCaptureAssumption DEF Answer, IInv, Typed
  <2> QED BY <1>1, <2>2 DEF IInv, Promises, Promised
<1>2. IInv /\ [SharedNext]_sharedVars
      => \A c \in Full : live /\ caller[c] = "waiting" /\ caller'[c] = "answered" /\ reply'[c].ok
           => reply'[c].full
  BY <1>1
<1> QED BY <1>2, CapturesHold, PTL DEF SharedSpec, FullMeansFull

-----------------------------------------------------------------------------
(* Collections and their registry: types of every reachable state *)


ProgressSteps ==
  {"idle", "discovering", "announcing", "looking", "reporting", "working", "summing",
   "stopping", "failing", "abandoning", "delivering", "ending", "done"}
Places == {"held", "queued", "reading", "read", "saving", "done"}
Causes == {"", "collection_failed", "submission_failed"}

\* What Observer.state may hold: it becomes a heartbeat or a last message only on its way out.
States == [op : {"begin", "update"}, stage : {"waiting", "capturing", "submitting"}, error : {""},
           harnesses : [Harnesses -> Statuses], batches : Nat]

\* What the registry is sent.
Messages == [op : {"begin", "update", "heartbeat", "finish"}, stage : Stages, error : Errors,
             harnesses : [Harnesses -> Statuses], batches : Nat]

RegistryTyped ==
  /\ now \in Nat
  /\ attempts \in [Attempts -> Entries \cup {Absent}]
  /\ refused \subseteq Attempts

\* The sources of a, and how far each is: two lists of one length.
Listed(js, ps) == js \in Seq(Harnesses) /\ ps \in Seq(Places) /\ Len(js) = Len(ps)

CollectionTyped ==
  /\ step \in [Attempts -> ProgressSteps]
  /\ at \in [Attempts -> Harnesses]
  /\ cancelled \in [Attempts -> BOOLEAN]
  /\ beat \in [Attempts -> BOOLEAN]
  /\ state \in [Attempts -> States]
  /\ event \in [Attempts -> [Harnesses -> Measurements]]
  /\ saving \in [Attempts -> [Harnesses -> BOOLEAN]]
  /\ jobs \in [Attempts -> Seq(Harnesses)]
  /\ place \in [Attempts -> Seq(Places)]
  /\ \A a \in Attempts : Len(jobs[a]) = Len(place[a])
  /\ troubled \in [Attempts -> Causes]
  /\ sent \in [Attempts -> Nat]
  /\ closed \in BOOLEAN

ProgressTyped == RegistryTyped /\ CollectionTyped

\* An attempt the registry knows was begun.
BegunOnce == \A a \in Attempts : step[a] = "idle" => attempts[a] = Absent

ProgressInv == ProgressTyped /\ BegunOnce

-----------------------------------------------------------------------------
(* What an operation of the registry may do to its entries *)

\* An entry q after some operation on r at the time t: an outcome stays or is forgotten,
\* and only an attempt that ended, or whose lease ran out, is forgotten.
Keeps(r, q, t) ==
  /\ r # Absent /\ r.stage \in Terminal => q \in {r, Absent}
  /\ r # Absent /\ q = Absent => r.stage \in Terminal \/ t >= r.expires
  /\ r = Absent => q = Absent


\* Ending the measurements of an attempt leaves them typed (finishCapture).
LEMMA FinishedCaptures ==
  ASSUME NEW r \in Entries, NEW s \in Stages
  PROVE  FinishCapture(r, s) \in [Harnesses -> Measurements \cup {Absent}]
<1> DEFINE p == IF s = "failed" THEN "failed" ELSE "interrupted"
           counts == [Outcomes -> Nat]
<1>1. p \in Phases
  BY DEF Phases, CaptureTerminal
<1>2. Measurements =
        [phase : Phases, known : BOOLEAN, total : Nat, checked : Nat, active : Int, count : counts]
  BY DEF Measurements
<1>3. FinishCapture(r, s) =
        [h \in Harnesses |->
           IF r.captures[h] = Absent \/ r.captures[h].phase \in CaptureTerminal THEN r.captures[h]
           ELSE [r.captures[h] EXCEPT !.active = 0, !.phase = p]]
  BY DEF FinishCapture
<1>4. r.captures \in [Harnesses -> Measurements \cup {Absent}]
  BY DEF Entries
<1> HIDE DEF p, counts
<1>5. ASSUME NEW c \in Measurements
      PROVE  [c EXCEPT !.active = 0, !.phase = p] \in Measurements
  <2>1. [c EXCEPT !.active = 0] \in Measurements
    BY <1>2
  <2>2. ASSUME NEW d \in Measurements
        PROVE  [d EXCEPT !.phase = p] \in Measurements
    BY <1>1, <1>2
  <2> QED
    BY <2>1, <2>2, Zenon
<1>6. ASSUME NEW h \in Harnesses
      PROVE  FinishCapture(r, s)[h] \in Measurements \cup {Absent}
  BY <1>3, <1>4, <1>5
<1> QED
  BY <1>3, <1>6

\* An attempt that is interrupted stays an entry, one that ended.
LEMMA InterruptedIsEntry ==
  ASSUME NEW r \in Entries, NEW t \in Nat
  PROVE  Interrupted(r, t) \in Entries /\ Interrupted(r, t).stage \in Terminal
<1> DEFINE c == FinishCapture(r, "interrupted")
<1>1. c \in [Harnesses -> Measurements \cup {Absent}]
  BY FinishedCaptures DEF Stages, Terminal
<1>2. Interrupted(r, t) = [r EXCEPT !.stage = "interrupted", !.error = "publisher_lost",
                                    !.finished = t, !.captures = c]
  BY DEF Interrupted
<1> HIDE DEF c
<1>3. Interrupted(r, t) \in Entries
  BY <1>1, <1>2 DEF Entries, Stages, Errors, Terminal
<1>4. Interrupted(r, t).stage = "interrupted"
  BY <1>2 DEF Entries
<1> QED
  BY <1>3, <1>4 DEF Terminal

\* An entry that a message is applied to stays an entry.
LEMMA AppliedIsEntry ==
  ASSUME RegistryAssumption, now \in Nat, NEW r \in Entries, NEW m \in Messages
  PROVE  Applied(r, m) \in Entries
<1>1. Renewed(r) \in Entries
  BY DEF Renewed, Entries, RegistryAssumption
<1> DEFINE shown == [Renewed(r) EXCEPT !.stage = m.stage, !.error = m.error,
                                       !.harnesses = m.harnesses, !.batches = m.batches]
<1>2. shown \in Entries
  BY <1>1 DEF Entries, Messages
<1>3. m.stage \in Stages
  BY DEF Messages
<1> HIDE DEF shown
<1> DEFINE c == FinishCapture(shown, m.stage)
<1>4. c \in [Harnesses -> Measurements \cup {Absent}]
  BY <1>2, <1>3, FinishedCaptures
<1> HIDE DEF c
<1>5. [shown EXCEPT !.finished = now, !.captures = c] \in Entries
  BY <1>2, <1>4 DEF Entries
<1>6. Applied(r, m) \in {Renewed(r), shown, [shown EXCEPT !.finished = now, !.captures = c]}
  BY DEF Applied, shown, c
<1> QED
  BY <1>1, <1>2, <1>5, <1>6

\* What Expire, which every operation starts with, leaves: an outcome stays or is
\* forgotten, and whoever is still live was not touched.
LEMMA ExpireKeeps ==
  ASSUME RegistryAssumption, RegistryTyped
  PROVE  /\ Expire(attempts) \in [Attempts -> Entries \cup {Absent}]
         /\ \A b \in Attempts :
              /\ Keeps(attempts[b], Expire(attempts)[b], now)
              /\ b \in Live(Expire(attempts)) => attempts[b] \in Entries /\ attempts[b].stage \notin Terminal
                                                 /\ Expire(attempts)[b] = attempts[b]
              /\ b \in Known(Expire(attempts)) \ Live(Expire(attempts)) =>
                   attempts[b] \in Entries /\ (attempts[b].stage \in Terminal \/ now >= attempts[b].expires)
<1> DEFINE lost(b) == b \in Live(attempts) /\ now >= attempts[b].expires
           ended(b) == IF lost(b) THEN Interrupted(attempts[b], attempts[b].expires) ELSE attempts[b]
           q(b) == IF b \in Known(attempts)
                      /\ ~(ended(b).stage \in Terminal /\ now - ended(b).finished >= TerminalRetention)
                   THEN ended(b) ELSE Absent
<1>1. Expire(attempts) = [b \in Attempts |-> q(b)]
  BY DEF Expire
<1>2. ASSUME NEW b \in Attempts
      PROVE  /\ q(b) \in Entries \cup {Absent}
             /\ Keeps(attempts[b], q(b), now)
             /\ q(b) # Absent => attempts[b] \in Entries
             /\ q(b) # Absent /\ q(b).stage \notin Terminal =>
                  attempts[b].stage \notin Terminal /\ q(b) = attempts[b]
             /\ q(b) # Absent /\ q(b).stage \in Terminal =>
                  attempts[b].stage \in Terminal \/ now >= attempts[b].expires
  <2>1. CASE attempts[b] = Absent
    <3>1. q(b) = Absent
      BY <2>1 DEF Known
    <3> QED
      BY <2>1, <3>1 DEF Keeps
  <2>2. CASE attempts[b] # Absent
    <3>1. attempts[b] \in Entries
      BY <2>2 DEF RegistryTyped
    <3>2. attempts[b].expires \in Nat
      BY <3>1 DEF Entries
    <3> DEFINE i == Interrupted(attempts[b], attempts[b].expires)
    <3>3. i \in Entries /\ i.stage \in Terminal
      BY <3>1, <3>2, InterruptedIsEntry
    <3> HIDE DEF i
    <3>4. b \in Known(attempts) /\ (b \in Live(attempts) <=> attempts[b].stage \notin Terminal)
      BY <2>2 DEF Known, Live
    <3>5. q(b) \in {attempts[b], i, Absent}
          /\ (q(b) = i => \/ attempts[b].stage \notin Terminal /\ now >= attempts[b].expires
                         \/ i \in {attempts[b], Absent})
          /\ (q(b) = Absent => attempts[b].stage \in Terminal \/ now >= attempts[b].expires)
      <4>1. CASE lost(b)
        <5>1. ended(b) = i
          BY <4>1 DEF i
        <5>2. attempts[b].stage \notin Terminal /\ now >= attempts[b].expires
          BY <4>1, <3>4
        <5>3. q(b) \in {i, Absent}
          BY <5>1
        <5> HIDE DEF q
        <5> QED
          BY <5>2, <5>3
      <4>2. CASE ~lost(b)
        <5>1. ended(b) = attempts[b]
          BY <4>2
        <5>2. /\ q(b) \in {attempts[b], Absent}
              /\ q(b) = Absent => attempts[b].stage \in Terminal \/ attempts[b] = Absent
          BY <5>1, <3>4
        <5> HIDE DEF q
        <5> QED
          BY <5>2, <2>2
      <4> QED
        BY <4>1, <4>2
    <3> HIDE DEF q
    <3>6. Absent \notin Entries
      BY DEF RegistryAssumption
    <3> QED
      BY <2>2, <3>1, <3>3, <3>5, <3>6 DEF Keeps
  <2> QED
    BY <2>1, <2>2
<1> HIDE DEF q
<1>3. Expire(attempts) \in [Attempts -> Entries \cup {Absent}] /\ \A b \in Attempts : Expire(attempts)[b] = q(b)
  BY <1>1, <1>2
<1>4. ASSUME NEW b \in Attempts
      PROVE  /\ b \in Live(Expire(attempts)) <=> q(b) # Absent /\ q(b).stage \notin Terminal
             /\ b \in Known(Expire(attempts)) <=> q(b) # Absent
  BY <1>3 DEF Live, Known
<1> QED
  BY <1>2, <1>3, <1>4

\* An operation that expires and then replaces one live entry, or none.
LEMMA ReplacingKeeps ==
  ASSUME RegistryAssumption, RegistryTyped, NEW a \in Attempts, NEW q,
         \/ attempts' = Expire(attempts)
         \/ /\ a \in Live(Expire(attempts)) /\ q \in Entries
            /\ attempts' = [Expire(attempts) EXCEPT ![a] = q]
  PROVE  /\ attempts' \in [Attempts -> Entries \cup {Absent}]
         /\ \A b \in Attempts : Keeps(attempts[b], attempts'[b], now)
<1> DEFINE reg == Expire(attempts)
<1>1. reg \in [Attempts -> Entries \cup {Absent}] /\ \A b \in Attempts : Keeps(attempts[b], reg[b], now)
  BY ExpireKeeps
<1>2. a \in Live(reg) => attempts[a] # Absent /\ attempts[a].stage \notin Terminal
  BY ExpireKeeps DEF RegistryAssumption
<1>3. q \in Entries => q # Absent
  BY DEF RegistryAssumption
<1> HIDE DEF reg
<1>4. \/ attempts' = reg
      \/ a \in Live(reg) /\ q \in Entries /\ attempts' = [reg EXCEPT ![a] = q]
  BY DEF reg
<1>5. CASE attempts' = reg
  BY <1>1, <1>5
<1>6. CASE a \in Live(reg) /\ q \in Entries /\ attempts' = [reg EXCEPT ![a] = q]
  <2>1. attempts' \in [Attempts -> Entries \cup {Absent}] /\ attempts'[a] = q
        /\ \A b \in Attempts \ {a} : attempts'[b] = reg[b]
    BY <1>1, <1>6
  <2>2. Keeps(attempts[a], q, now)
    BY <1>2, <1>3, <1>6 DEF Keeps
  <2> QED
    BY <1>1, <2>1, <2>2
<1> QED
  BY <1>4, <1>5, <1>6

\* What every operation but the begin of an attempt does to the entries.
RegistryKept == RegistryTyped' /\ \A b \in Attempts : Keeps(attempts[b], attempts'[b], now)

\* Registry.Apply, whatever the message.
LEMMA ApplyKeeps ==
  ASSUME RegistryAssumption, RegistryTyped, NEW a \in Attempts, NEW m \in Messages, Apply(a, m)
  PROVE  RegistryKept
<1> DEFINE reg == Expire(attempts)
           q == Applied(reg[a], m)
<1>1. /\ attempts' = reg \/ (a \in Live(reg) /\ attempts' = [reg EXCEPT ![a] = q])
      /\ refused' \subseteq (refused \cup {a}) /\ now' = now
  BY DEF Apply, PublisherCall
<1>2. ASSUME a \in Live(reg)
      PROVE  q \in Entries
  <2>1. reg[a] \in Entries
    BY <1>2, ExpireKeeps
  <2> QED
    BY <2>1, AppliedIsEntry DEF RegistryTyped
<1> HIDE DEF q
<1>3. /\ attempts' \in [Attempts -> Entries \cup {Absent}]
      /\ \A b \in Attempts : Keeps(attempts[b], attempts'[b], now)
  BY <1>1, <1>2, ReplacingKeeps
<1> HIDE DEF reg
<1> QED
  BY <1>1, <1>3 DEF RegistryKept, RegistryTyped

\* Registry.UpdateCapture, whatever the measurement.
LEMMA UpdateCaptureKeeps ==
  ASSUME RegistryAssumption, RegistryTyped, NEW a \in Attempts, NEW h \in Harnesses,
         NEW c \in Measurements, UpdateCapture(a, h, c)
  PROVE  RegistryKept
<1> DEFINE reg == Expire(attempts)
           q == [reg[a] EXCEPT !.captures[h] = c]
<1>1. /\ attempts' = reg \/ (a \in Live(reg) /\ attempts' = [reg EXCEPT ![a] = q])
      /\ refused' \subseteq (refused \cup {a}) /\ now' = now
  BY DEF UpdateCapture, PublisherCall
<1>2. ASSUME a \in Live(reg)
      PROVE  q \in Entries
  <2>1. reg[a] \in Entries
    BY <1>2, ExpireKeeps
  <2> DEFINE r == reg[a]
  <2> HIDE DEF reg, r
  <2>2. r \in Entries => [r EXCEPT !.captures[h] = c] \in Entries
    <3> HIDE DEF Measurements
    <3> QED
      BY DEF Entries
  <2> QED
    BY <2>1, <2>2 DEF r
<1> HIDE DEF q
<1>3. /\ attempts' \in [Attempts -> Entries \cup {Absent}]
      /\ \A b \in Attempts : Keeps(attempts[b], attempts'[b], now)
  BY <1>1, <1>2, ReplacingKeeps
<1> HIDE DEF reg
<1> QED
  BY <1>1, <1>3 DEF RegistryKept, RegistryTyped

\* Readers and time touch no entry but those that are overdue.
LEMMA WatchKeeps ==
  ASSUME RegistryAssumption, RegistryTyped, Snapshot \/ Tick
  PROVE  RegistryKept
<1>1. CASE Snapshot
  BY <1>1, ExpireKeeps DEF Snapshot, RegistryKept, RegistryTyped
<1>2. CASE Tick
  <2>1. attempts' = attempts /\ now' \in Nat /\ refused' = refused
    BY <1>2 DEF Tick, RegistryTyped
  <2> QED
    BY <2>1 DEF RegistryKept, RegistryTyped, Keeps
<1> QED
  BY <1>1, <1>2

\* The owner's shutdown ends the live attempts only.
LEMMA InterruptAllKeeps ==
  ASSUME RegistryAssumption, RegistryTyped, InterruptAll
  PROVE  RegistryKept
<1>1. now' = now /\ refused' = refused
  BY DEF InterruptAll
<1>2. ASSUME NEW b \in Attempts
      PROVE  attempts'[b] \in Entries \cup {Absent} /\ Keeps(attempts[b], attempts'[b], now)
  <2>1. CASE b \in Live(attempts)
    <3>1. attempts[b] \in Entries /\ attempts[b] # Absent /\ attempts[b].stage \notin Terminal
      BY <2>1 DEF Live, Known, RegistryTyped
    <3>2. attempts'[b] = Interrupted(attempts[b], now)
      BY <2>1 DEF InterruptAll
    <3>3. attempts'[b] \in Entries
      BY <3>1, <3>2, InterruptedIsEntry DEF RegistryTyped
    <3> QED
      BY <3>1, <3>3 DEF Keeps, RegistryAssumption
  <2>2. CASE b \notin Live(attempts)
    <3>1. attempts'[b] = attempts[b]
      BY <2>2 DEF InterruptAll
    <3> QED
      BY <3>1 DEF Keeps, RegistryTyped
  <2> QED
    BY <2>1, <2>2
<1>3. attempts' \in [Attempts -> Entries \cup {Absent}]
  <2>1. DOMAIN attempts' = Attempts /\ attempts' = [b \in Attempts |-> attempts'[b]]
    BY DEF InterruptAll
  <2> QED
    BY <1>2, <2>1
<1> QED
  BY <1>1, <1>2, <1>3 DEF RegistryKept, RegistryTyped

\* Registry.Apply of a begin makes room only by an attempt that ended.
LEMMA BeginKeeps ==
  ASSUME RegistryAssumption, RegistryTyped, NEW a \in Attempts, Begin(a)
  PROVE  /\ RegistryTyped'
         /\ \A b \in Attempts \ {a} : Keeps(attempts[b], attempts'[b], now)
<1> DEFINE reg == Expire(attempts)
<1>1. reg \in [Attempts -> Entries \cup {Absent}] /\ \A b \in Attempts : Keeps(attempts[b], reg[b], now)
  BY ExpireKeeps
<1>2. \A b \in Evictable(reg) :
        b \in Attempts /\ attempts[b] \in Entries /\ (attempts[b].stage \in Terminal \/ now >= attempts[b].expires)
  BY ExpireKeeps DEF Evictable, Known
<1>3. Begun \in Entries
  <2>1. [h \in Harnesses |-> "none"] \in [Harnesses -> Statuses]
    BY DEF Statuses
  <2>2. [h \in Harnesses |-> Absent] \in [Harnesses -> Measurements \cup {Absent}]
    OBVIOUS
  <2>3. now + LeaseDuration \in Nat /\ "waiting" \in Stages /\ "" \in Errors
    BY DEF RegistryTyped, RegistryAssumption, Stages, Errors
  <2> QED
    BY <2>1, <2>2, <2>3 DEF Begun, Entries
<1>4. /\ now' = now /\ refused' = refused
      /\ \/ attempts' = reg
         \/ \E room \in Rooms(reg) : attempts' = [room EXCEPT ![a] = Begun]
  BY DEF Begin
<1> HIDE DEF reg
<1>5. CASE attempts' = reg
  BY <1>1, <1>4, <1>5 DEF RegistryTyped
<1>6. CASE \E room \in Rooms(reg) : attempts' = [room EXCEPT ![a] = Begun]
  <2>1. PICK room \in Rooms(reg) : attempts' = [room EXCEPT ![a] = Begun]
    BY <1>6
  <2>2. room = reg \/ \E e \in Evictable(reg) : room = [reg EXCEPT ![e] = Absent]
    BY DEF Rooms
  <2>3. room \in [Attempts -> Entries \cup {Absent}]
        /\ \A b \in Attempts : room[b] = reg[b] \/ (b \in Evictable(reg) /\ room[b] = Absent)
    BY <1>1, <2>2
  <2>4. ASSUME NEW b \in Attempts
        PROVE  Keeps(attempts[b], room[b], now)
    BY <1>1, <1>2, <2>3 DEF Keeps
  <2>5. attempts' \in [Attempts -> Entries \cup {Absent}] /\ \A b \in Attempts \ {a} : attempts'[b] = room[b]
    BY <1>3, <2>1, <2>3
  <2> QED
    BY <1>4, <2>4, <2>5 DEF RegistryTyped
<1> QED
  BY <1>4, <1>5, <1>6
-----------------------------------------------------------------------------
(* What the observer and the reporter build is typed *)

\* The observer's message about one harness.
LEMMA HarnessIsTyped ==
  ASSUME CollectionTyped, NEW a \in Attempts, NEW h \in Harnesses, NEW status \in Statuses
  PROVE  HarnessIs(a, h, status) \in States
<1> DEFINE m == state[a]
           hs == [Harnesses -> Statuses]
<1>1. m \in States
  BY DEF CollectionTyped
<1>2. States = [op : {"begin", "update"}, stage : {"waiting", "capturing", "submitting"}, error : {""},
                harnesses : hs, batches : Nat]
  BY DEF States
<1>3. [m.harnesses EXCEPT ![h] = status] \in hs
  <2>1. m.harnesses \in hs
    <3> HIDE DEF hs
    <3> QED
      BY <1>1, <1>2
  <2> QED
    BY <2>1
<1> DEFINE k == [m.harnesses EXCEPT ![h] = status]
<1>4. HarnessIs(a, h, status) = [m EXCEPT !.op = "update", !.stage = "capturing", !.harnesses = k]
  BY <1>1 DEF HarnessIs, States
<1> HIDE DEF m, hs, k
<1>5. [m EXCEPT !.op = "update", !.stage = "capturing", !.harnesses = k] \in States
  BY <1>1, <1>2, <1>3 DEF k
<1> QED
  BY <1>4, <1>5

\* A state of the observer may be sent, as it is, as a heartbeat or with an outcome.
LEMMA StatesAreMessages ==
  ASSUME NEW m \in States, NEW stage \in Stages, NEW error \in Errors, NEW n \in Nat
  PROVE  /\ m \in Messages
         /\ [m EXCEPT !.op = "heartbeat"] \in Messages
         /\ [m EXCEPT !.op = "finish", !.stage = stage, !.error = error, !.batches = n] \in Messages
<1> DEFINE hs == [Harnesses -> Statuses]
<1>1. States = [op : {"begin", "update"}, stage : {"waiting", "capturing", "submitting"}, error : {""},
                harnesses : hs, batches : Nat]
  BY DEF States
<1>2. Messages = [op : {"begin", "update", "heartbeat", "finish"}, stage : Stages, error : Errors,
                  harnesses : hs, batches : Nat]
  BY DEF Messages
<1> HIDE DEF hs
<1>3. m \in Messages
  BY <1>1, <1>2 DEF Stages, Errors
<1>4. [m EXCEPT !.op = "heartbeat"] \in Messages
  BY <1>2, <1>3
<1>5. [m EXCEPT !.op = "finish", !.stage = stage, !.error = error, !.batches = n] \in Messages
  BY <1>2, <1>3
<1> QED
  BY <1>3, <1>4, <1>5

\* A measurement with a field replaced.
LEMMA MeasurementFields ==
  ASSUME NEW c \in Measurements
  PROVE  /\ \A p \in Phases : [c EXCEPT !.phase = p] \in Measurements
         /\ \A n \in Int : [c EXCEPT !.active = n] \in Measurements
         /\ \A n \in Nat : [c EXCEPT !.checked = n] \in Measurements
         /\ \A n \in Nat, o \in Outcomes : [c EXCEPT !.count[o] = n] \in Measurements
         /\ \A n \in Nat, p \in Phases : [c EXCEPT !.known = TRUE, !.total = n, !.phase = p] \in Measurements
<1> DEFINE counts == [Outcomes -> Nat]
<1>1. Measurements =
        [phase : Phases, known : BOOLEAN, total : Nat, checked : Nat, active : Int, count : counts]
  BY DEF Measurements
<1>2. ASSUME NEW n \in Nat, NEW o \in Outcomes
      PROVE  [c EXCEPT !.count[o] = n] \in Measurements
  <2> DEFINE k == [c.count EXCEPT ![o] = n]
  <2>1. c.count \in counts
    <3> HIDE DEF counts
    <3> QED
      BY <1>1
  <2>2. k \in counts
    BY <2>1
  <2>3. [c EXCEPT !.count[o] = n] = [c EXCEPT !.count = k]
    BY <1>1
  <2> HIDE DEF counts, k
  <2>4. [c EXCEPT !.count = k] \in Measurements
    BY <1>1, <2>2
  <2> QED
    BY <2>3, <2>4
<1> HIDE DEF counts
<1>3. \A n \in Nat, p \in Phases : [c EXCEPT !.known = TRUE, !.total = n, !.phase = p] \in Measurements
  BY <1>1
<1> QED
  BY <1>1, <1>2, <1>3

\* captureWorkPhase names one of the phases.
LEMMA WorkPhaseTyped ==
  ASSUME NEW c \in Measurements, NEW sav \in BOOLEAN
  PROVE  CaptureWorkPhase(c, sav) \in Measurements
<1> DEFINE p == CASE sav -> "saving"
                  [] ~sav /\ c.active > 0 -> "reading"
                  [] ~sav /\ c.active = 0 /\ c.checked < c.total -> "waiting"
                  [] OTHER -> IF c.count["failed"] + c.count["quarantined"] > 0 THEN "failed" ELSE "complete"
<1>1. p \in Phases
  BY DEF Phases, CaptureTerminal
<1>2. CaptureWorkPhase(c, sav) = [c EXCEPT !.phase = p]
  BY DEF CaptureWorkPhase
<1> HIDE DEF p
<1> QED
  BY <1>1, <1>2, MeasurementFields

\* One more source counted.
LEMMA CountedTyped ==
  ASSUME NEW c \in Measurements, NEW o \in Outcomes
  PROVE  Counted(c, o) \in Measurements
<1> DEFINE d == [c EXCEPT !.checked = c.checked + 1]
           n == c.count[o] + 1
<1>1. c.checked + 1 \in Nat /\ n \in Nat
  BY DEF Measurements
<1>2. d \in Measurements
  BY <1>1, MeasurementFields
<1>3. Counted(c, o) = [d EXCEPT !.count[o] = n]
  BY DEF Counted, Measurements
<1> HIDE DEF d, n
<1>4. [d EXCEPT !.count[o] = n] \in Measurements
  BY <1>1, <1>2, MeasurementFields
<1> QED
  BY <1>3, <1>4

\* The sources that are given out are those held; the list keeps its length.
LEMMA IssueTyped ==
  ASSUME NEW a, NEW ps \in Seq(Places)
  PROVE  Issue(a, ps) \in Seq(Places) /\ Len(Issue(a, ps)) = Len(ps)
<1> DEFINE f == Issue(a, ps)
<1>1. DOMAIN f = 1..Len(ps) /\ \A j \in 1..Len(ps) : f[j] \in {"queued", ps[j]}
  BY DEF Issue
<1>2. \A j \in 1..Len(ps) : f[j] \in Places
  BY <1>1 DEF Places
<1>3. f = [j \in 1..Len(ps) |-> f[j]]
  BY DEF Issue
<1> HIDE DEF f
<1>4. f \in [1..Len(ps) -> Places]
  BY <1>2, <1>3
<1>5. f \in Seq(Places)
  BY <1>4
<1> QED
  BY <1>1, <1>5 DEF f

-----------------------------------------------------------------------------
(* The steps of a collection *)

\* Whatever it did, every outcome stayed, and no entry appeared.
Kept == \A b \in Attempts : Keeps(attempts[b], attempts'[b], now)

\* Observer.Collection and Delivery.
LEMMA TellKeeps ==
  ASSUME RegistryAssumption, ProgressTyped, NEW a \in Attempts, NEW m \in States, Tell(a, m)
  PROVE  RegistryTyped' /\ Kept /\ state' \in [Attempts -> States]
<1>1. m \in Messages
  BY StatesAreMessages DEF Stages, Errors
<1>2. RegistryKept
  BY <1>1, ApplyKeeps DEF Tell, ProgressTyped
<1>3. state' \in [Attempts -> States]
  <2> HIDE DEF States
  <2> QED
    BY DEF Tell, ProgressTyped, CollectionTyped
<1> QED
  BY <1>2, <1>3 DEF RegistryKept, Kept

\* captureReporter.update.
LEMMA MeasureKeeps ==
  ASSUME RegistryAssumption, ProgressTyped, NEW a \in Attempts, NEW h \in Harnesses,
         NEW c \in Measurements, Measure(a, h, c)
  PROVE  RegistryTyped' /\ Kept /\ event' \in [Attempts -> [Harnesses -> Measurements]]
<1>1. RegistryKept
  BY UpdateCaptureKeeps DEF Measure, ProgressTyped
<1>2. event' \in [Attempts -> [Harnesses -> Measurements]]
  <2> HIDE DEF Measurements
  <2> QED
    BY DEF Measure, ProgressTyped, CollectionTyped
<1> QED
  BY <1>1, <1>2 DEF RegistryKept, Kept

\* Nothing of the registry changes.
LEMMA StillKept ==
  ASSUME RegistryTyped, UNCHANGED registryVars
  PROVE  RegistryTyped' /\ Kept
BY DEF RegistryTyped, Kept, Keeps, registryVars

\* Only StartCollection begins an attempt.
LEMMA BegunStays ==
  ASSUME BegunOnce, Kept, \A b \in Attempts : step'[b] = "idle" => step[b] = "idle"
  PROVE  BegunOnce'
BY DEF BegunOnce, Kept, Keeps


\* StartCollection.
LEMMA StartKeeps ==
  ASSUME RegistryAssumption, ProgressInv, NEW a \in Attempts, StartCollection(a)
  PROVE  ProgressInv' /\ \A b \in Held : Keeps(attempts[b], attempts'[b], now)
<1>1. /\ RegistryTyped' /\ \A b \in Attempts \ {a} : Keeps(attempts[b], attempts'[b], now)
  BY BeginKeeps DEF StartCollection, ProgressInv, ProgressTyped
<1>2. attempts[a] = Absent
  BY DEF StartCollection, ProgressInv, BegunOnce
<1> DEFINE ok == attempts'[a] # Absent
<1>3. /\ step' = [step EXCEPT ![a] = IF ok THEN "discovering" ELSE "done"]
      /\ beat' = [beat EXCEPT ![a] = ok]
      /\ UNCHANGED <<event, saving, jobs, place, at, cancelled, state, troubled, sent, closed>>
  BY DEF StartCollection, Goto, measureVars
<1>4. ok \in BOOLEAN
  OBVIOUS
<1> HIDE DEF ok
<1>5. CollectionTyped'
  <2>1. step' \in [Attempts -> ProgressSteps] /\ beat' \in [Attempts -> BOOLEAN]
    BY <1>3, <1>4 DEF ProgressInv, ProgressTyped, CollectionTyped, ProgressSteps
  <2> QED
    BY <1>3, <2>1 DEF ProgressInv, ProgressTyped, CollectionTyped
<1>6. \A b \in Attempts : step'[b] = "idle" => b # a /\ step[b] = "idle"
  BY <1>3 DEF ProgressInv, ProgressTyped, CollectionTyped
<1>7. BegunOnce'
  BY <1>1, <1>6 DEF ProgressInv, BegunOnce, Keeps
<1> QED
  BY <1>1, <1>2, <1>5, <1>7 DEF ProgressInv, ProgressTyped, Held

\* Where a collection goes from a step it took: never back to idle.
LEMMA GoesOn ==
  ASSUME CollectionTyped, NEW a \in Attempts, NEW s \in ProgressSteps \ {"idle"}, Goto(a, s)
  PROVE  /\ step' \in [Attempts -> ProgressSteps]
         /\ \A b \in Attempts : step'[b] = "idle" => step[b] = "idle"
BY DEF Goto, CollectionTyped

\* What heartbeats, their end and a cancellation change.
LEMMA BesideKeeps ==
  ASSUME RegistryAssumption, ProgressInv, NEW a \in Attempts,
         Heartbeat(a) \/ StopBeat(a) \/ CancelCollection(a)
  PROVE  ProgressInv' /\ Kept
<1>1. RegistryTyped' /\ Kept
  <2>1. CASE Heartbeat(a)
    <3>1. state[a] \in States
      BY DEF ProgressInv, ProgressTyped, CollectionTyped
    <3>2. [state[a] EXCEPT !.op = "heartbeat"] \in Messages
      BY <3>1, StatesAreMessages DEF Stages, Errors
    <3> QED
      BY <2>1, <3>2, ApplyKeeps DEF Heartbeat, ProgressInv, ProgressTyped, RegistryKept, Kept
  <2>2. CASE StopBeat(a) \/ CancelCollection(a)
    BY <2>2, StillKept DEF StopBeat, CancelCollection, ProgressInv, ProgressTyped
  <2> QED
    BY <2>1, <2>2
<1>2. /\ step' = step /\ UNCHANGED <<event, saving, jobs, place, at, state, troubled, sent, closed>>
      /\ beat' \in {beat, [beat EXCEPT ![a] = FALSE]}
      /\ cancelled' \in {cancelled, [cancelled EXCEPT ![a] = TRUE]}
  BY DEF Heartbeat, StopBeat, CancelCollection, measureVars, collectionVars
<1>3. CollectionTyped'
  <2>1. beat' \in [Attempts -> BOOLEAN] /\ cancelled' \in [Attempts -> BOOLEAN]
    BY <1>2 DEF ProgressInv, ProgressTyped, CollectionTyped
  <2> QED
    BY <1>2, <2>1 DEF ProgressInv, ProgressTyped, CollectionTyped
<1>4. BegunOnce'
  BY <1>1, <1>2, BegunStays DEF ProgressInv
<1> QED
  BY <1>1, <1>3, <1>4 DEF ProgressInv, ProgressTyped

\* A step of a collection: its registry operation kept the outcomes, and what it
\* changed is typed.
LEMMA StepKeeps ==
  ASSUME ProgressInv, RegistryTyped', Kept,
         step' \in [Attempts -> ProgressSteps], \A b \in Attempts : step'[b] = "idle" => step[b] = "idle",
         at' \in [Attempts -> Harnesses], cancelled' \in [Attempts -> BOOLEAN],
         beat' \in [Attempts -> BOOLEAN], state' \in [Attempts -> States],
         event' \in [Attempts -> [Harnesses -> Measurements]],
         saving' \in [Attempts -> [Harnesses -> BOOLEAN]],
         jobs' \in [Attempts -> Seq(Harnesses)], place' \in [Attempts -> Seq(Places)],
         \A b \in Attempts : Len(jobs'[b]) = Len(place'[b]),
         troubled' \in [Attempts -> Causes], sent' \in [Attempts -> Nat], closed' \in BOOLEAN
  PROVE  ProgressInv' /\ Kept
<1>1. CollectionTyped'
  BY DEF CollectionTyped
<1>2. BegunOnce'
  BY BegunStays DEF ProgressInv
<1> QED
  BY <1>1, <1>2 DEF ProgressInv, ProgressTyped


\* There is a first harness.
LEMMA FirstHarness == ProgressAssumption => 1 \in Harnesses
<1> SUFFICES ASSUME ProgressAssumption PROVE 1 \in Harnesses
  OBVIOUS
<1>1. Cardinality(Harnesses) \in Nat
  BY FS_CardinalityType DEF ProgressAssumption
<1>2. PICK h : h \in Harnesses
  BY DEF ProgressAssumption
<1>3. h \in 1..Cardinality(Harnesses)
  BY <1>2 DEF ProgressAssumption
<1>4. 1 \in 1..Cardinality(Harnesses)
  BY <1>1, <1>3
<1> QED
  BY <1>4 DEF ProgressAssumption

\* What a collection starts with, and leaves.
LEMMA FreshTyped == FirstState \in States /\ NoEvents \in [Harnesses -> Measurements]
<1>1. FirstState \in States
  <2>1. [h \in Harnesses |-> "none"] \in [Harnesses -> Statuses]
    BY DEF Statuses
  <2> QED
    BY <2>1 DEF FirstState, States
<1>2. Blank \in Measurements
  <2>1. NoOutcome \in [Outcomes -> Nat]
    BY DEF NoOutcome
  <2> QED
    BY <2>1 DEF Blank, Measurements, Phases
<1> QED
  BY <1>1, <1>2 DEF NoEvents

\* There is a next harness, or the first again.
LEMMA NextHarness ==
  ASSUME ProgressAssumption, ProgressTyped, NEW a \in Attempts
  PROVE  /\ [at EXCEPT ![a] = 1] \in [Attempts -> Harnesses]
         /\ [at EXCEPT ![a] = IF at[a] + 1 \notin Harnesses THEN 1 ELSE at[a] + 1] \in [Attempts -> Harnesses]
<1>1. 1 \in Harnesses
  BY FirstHarness
<1> QED
  BY <1>1 DEF ProgressTyped, CollectionTyped

\* One harness is looked at.
LEMMA DiscoveringKeeps ==
  ASSUME RegistryAssumption, ProgressInv, NEW a \in Attempts, Discovering(a)
  PROVE  ProgressInv' /\ Kept
<1> DEFINE c == [event[a][at[a]] EXCEPT !.phase = "discovering"]
<1>1. at[a] \in Harnesses /\ event[a][at[a]] \in Measurements
  BY DEF ProgressInv, ProgressTyped, CollectionTyped
<1>2. c \in Measurements
  BY <1>1, MeasurementFields DEF Phases
<1>3. Measure(a, at[a], c) /\ Goto(a, "announcing")
      /\ UNCHANGED <<at, cancelled, beat, state, troubled, sent, saving, jobs, place, closed>>
  BY DEF Discovering
<1> HIDE DEF c
<1>4. RegistryTyped' /\ Kept /\ event' \in [Attempts -> [Harnesses -> Measurements]]
  BY <1>1, <1>2, <1>3, MeasureKeeps DEF ProgressInv
<1>5. step' \in [Attempts -> ProgressSteps] /\ \A b \in Attempts : step'[b] = "idle" => step[b] = "idle"
  BY <1>3, GoesOn DEF ProgressInv, ProgressTyped, ProgressSteps
<1> QED
  BY <1>3, <1>4, <1>5, StepKeeps DEF ProgressInv, ProgressTyped, CollectionTyped

\* It is announced.
LEMMA AnnouncingKeeps ==
  ASSUME RegistryAssumption, ProgressInv, NEW a \in Attempts, Announcing(a)
  PROVE  ProgressInv' /\ Kept
<1>1. HarnessIs(a, at[a], "running") \in States
  BY HarnessIsTyped DEF ProgressInv, ProgressTyped, CollectionTyped, Statuses
<1>2. Tell(a, HarnessIs(a, at[a], "running")) /\ Goto(a, "looking")
      /\ UNCHANGED <<event, saving, jobs, place, at, cancelled, beat, troubled, sent, closed>>
  BY DEF Announcing, measureVars
<1>3. RegistryTyped' /\ Kept /\ state' \in [Attempts -> States]
  BY <1>1, <1>2, TellKeeps DEF ProgressInv
<1>4. step' \in [Attempts -> ProgressSteps] /\ \A b \in Attempts : step'[b] = "idle" => step[b] = "idle"
  BY <1>2, GoesOn DEF ProgressInv, ProgressTyped, ProgressSteps
<1> QED
  BY <1>2, <1>3, <1>4, StepKeeps DEF ProgressInv, ProgressTyped, CollectionTyped

\* Two lists joined.
LEMMA AppendedTyped ==
  ASSUME NEW S, NEW s \in Seq(S), NEW t \in Seq(S)
  PROVE  s \o t \in Seq(S) /\ Len(s \o t) = Len(s) + Len(t)
OBVIOUS

\* Its sources are listed, or its discovery fails.
LEMMA LookingKeeps ==
  ASSUME ProgressAssumption, RegistryAssumption, ProgressInv, NEW a \in Attempts, Looking(a)
  PROVE  ProgressInv' /\ Kept
<1> DEFINE h == at[a]
<1>1. h \in Harnesses /\ event[a][h] \in Measurements
  BY DEF ProgressInv, ProgressTyped, CollectionTyped
<1>2. Goto(a, "reporting") /\ UNCHANGED <<at, cancelled, beat, state, sent, saving, closed>>
      /\ (DiscoveryFails(a) \/ \E n \in 0..(MaxSources[a] - Len(jobs[a])) : Discovered(a, n))
  BY DEF Looking
<1>3. step' \in [Attempts -> ProgressSteps] /\ \A b \in Attempts : step'[b] = "idle" => step[b] = "idle"
  BY <1>2, GoesOn DEF ProgressInv, ProgressTyped, ProgressSteps
<1>4. CASE DiscoveryFails(a)
  <2> DEFINE p == IF cancelled[a] THEN "interrupted" ELSE "failed"
             c == [event[a][h] EXCEPT !.phase = p]
  <2>1. Measure(a, h, c) /\ UNCHANGED <<jobs, place>>
        /\ troubled' = [troubled EXCEPT ![a] = "collection_failed"]
    BY <1>4 DEF DiscoveryFails
  <2>2. p \in Phases
    BY DEF Phases, CaptureTerminal
  <2> HIDE DEF p
  <2>3. c \in Measurements
    BY <1>1, <2>2, MeasurementFields
  <2> HIDE DEF c
  <2>4. RegistryTyped' /\ Kept /\ event' \in [Attempts -> [Harnesses -> Measurements]]
    BY <1>1, <2>1, <2>3, MeasureKeeps DEF ProgressInv
  <2>5. troubled' \in [Attempts -> Causes]
    BY <2>1 DEF ProgressInv, ProgressTyped, CollectionTyped, Causes
  <2> QED
    BY <1>2, <1>3, <2>1, <2>4, <2>5, StepKeeps DEF ProgressInv, ProgressTyped, CollectionTyped
<1>5. ASSUME NEW n \in 0..(MaxSources[a] - Len(jobs[a])), Discovered(a, n)
      PROVE  ProgressInv' /\ Kept
  <2> DEFINE p == IF n = 0 THEN "complete" ELSE "waiting"
             c == [event[a][h] EXCEPT !.known = TRUE, !.total = n, !.phase = p]
             js == Sources(h, n)
             ps == [i \in 1..n |-> "held"]
  <2>1. Measure(a, h, c) /\ UNCHANGED troubled
        /\ jobs' = [jobs EXCEPT ![a] = jobs[a] \o js] /\ place' = [place EXCEPT ![a] = place[a] \o ps]
    BY <1>5 DEF Discovered, ProgressInv, ProgressTyped, CollectionTyped
  <2>2. p \in Phases
    BY DEF Phases, CaptureTerminal
  <2>3. n \in Nat
    BY <1>5
  <2>4. js \in Seq(Harnesses) /\ Len(js) = n /\ ps \in Seq(Places) /\ Len(ps) = n
    BY <1>1, <2>3 DEF Sources, Places
  <2> HIDE DEF p, js, ps
  <2>5. c \in Measurements
    BY <1>1, <2>2, <2>3, MeasurementFields
  <2> HIDE DEF c, h
  <2>6. RegistryTyped' /\ Kept /\ event' \in [Attempts -> [Harnesses -> Measurements]]
    BY <1>1, <2>1, <2>5, MeasureKeeps DEF ProgressInv
  <2>7. /\ jobs \in [Attempts -> Seq(Harnesses)] /\ place \in [Attempts -> Seq(Places)]
        /\ \A b \in Attempts : Len(jobs[b]) = Len(place[b])
    BY DEF ProgressInv, ProgressTyped, CollectionTyped
  <2>8. /\ jobs[a] \o js \in Seq(Harnesses) /\ Len(jobs[a] \o js) = Len(jobs[a]) + n
        /\ place[a] \o ps \in Seq(Places) /\ Len(place[a] \o ps) = Len(place[a]) + n
    <3>1. jobs[a] \in Seq(Harnesses) /\ place[a] \in Seq(Places)
      BY <2>7
    <3> QED
      BY <2>4, <3>1, AppendedTyped, ZenonT(60)
  <2>9. /\ jobs' \in [Attempts -> Seq(Harnesses)] /\ place' \in [Attempts -> Seq(Places)]
        /\ \A b \in Attempts : Len(jobs'[b]) = Len(place'[b])
    BY <2>1, <2>7, <2>8
  <2> QED
    BY <1>2, <1>3, <2>1, <2>6, <2>9, StepKeeps DEF ProgressInv, ProgressTyped, CollectionTyped
<1> QED
  BY <1>2, <1>4, <1>5


\* The places of one collection replaced by a list as long.
LEMMA PlacesTyped ==
  ASSUME CollectionTyped, NEW a \in Attempts, NEW ps \in Seq(Places), Len(ps) = Len(place[a]),
         place' = [place EXCEPT ![a] = ps], jobs' = jobs
  PROVE  /\ jobs' \in [Attempts -> Seq(Harnesses)] /\ place' \in [Attempts -> Seq(Places)]
         /\ \A b \in Attempts : Len(jobs'[b]) = Len(place'[b])
<1>1. /\ jobs \in [Attempts -> Seq(Harnesses)] /\ place \in [Attempts -> Seq(Places)]
      /\ \A b \in Attempts : Len(jobs[b]) = Len(place[b])
  BY DEF CollectionTyped
<1>2. place' \in [Attempts -> Seq(Places)] /\ \A b \in Attempts : place'[b] = IF b = a THEN ps ELSE place[b]
  BY <1>1
<1> QED
  BY <1>1, <1>2

\* What became of a harness's discovery is reported, and the first sources are issued.
LEMMA ReportingKeeps ==
  ASSUME ProgressAssumption, RegistryAssumption, ProgressInv, NEW a \in Attempts, Reporting(a)
  PROVE  ProgressInv' /\ Kept
<1> DEFINE h == at[a]
           e == event[a][h]
           status == IF e.phase \in {"failed", "interrupted"} THEN "failed"
                     ELSE IF e.total = 0 THEN "skipped" ELSE "running"
           last == h + 1 \notin Harnesses
<1>1. /\ Tell(a, HarnessIs(a, h, status))
      /\ at' = [at EXCEPT ![a] = IF last THEN 1 ELSE h + 1]
      /\ \/ Spool(a)
         \/ \E s \in {"delivering", "discovering"} : Goto(a, s) /\ UNCHANGED <<place, troubled>>
      /\ UNCHANGED <<event, saving, jobs, cancelled, beat, sent, closed>>
  BY DEF Reporting
<1>2. status \in Statuses /\ h \in Harnesses
  BY DEF Statuses, ProgressInv, ProgressTyped, CollectionTyped
<1>3. at' \in [Attempts -> Harnesses]
  BY <1>1, NextHarness DEF ProgressInv
<1> HIDE DEF h, status, last
<1>4. HarnessIs(a, h, status) \in States
  BY <1>2, HarnessIsTyped DEF ProgressInv, ProgressTyped
<1>5. RegistryTyped' /\ Kept /\ state' \in [Attempts -> States]
  BY <1>1, <1>4, TellKeeps DEF ProgressInv
<1>6. CASE Spool(a)
  <2>1. /\ \/ place' = [place EXCEPT ![a] = Issue(a, place[a])]
           \/ place' = place
        /\ troubled' \in {troubled, [troubled EXCEPT ![a] = "collection_failed"]}
        /\ \E s \in {"working", "stopping", "failing"} : Goto(a, s)
    BY <1>6 DEF Spool, ProgressInv, ProgressTyped, CollectionTyped
  <2>2. troubled' \in [Attempts -> Causes]
    <3>1. troubled \in [Attempts -> Causes] /\ "collection_failed" \in Causes
      BY DEF ProgressInv, ProgressTyped, CollectionTyped, Causes
    <3> QED
      BY <2>1, <3>1
  <2>3. step' \in [Attempts -> ProgressSteps] /\ \A b \in Attempts : step'[b] = "idle" => step[b] = "idle"
    BY <2>1, GoesOn DEF ProgressInv, ProgressTyped, ProgressSteps
  <2>4. place[a] \in Seq(Places)
    BY DEF ProgressInv, ProgressTyped, CollectionTyped
  <2>5. /\ jobs' \in [Attempts -> Seq(Harnesses)] /\ place' \in [Attempts -> Seq(Places)]
        /\ \A b \in Attempts : Len(jobs'[b]) = Len(place'[b])
    <3>1. CASE place' = [place EXCEPT ![a] = Issue(a, place[a])]
      BY <1>1, <2>4, <3>1, IssueTyped, PlacesTyped DEF ProgressInv, ProgressTyped
    <3>2. CASE place' = place
      BY <1>1, <3>2 DEF ProgressInv, ProgressTyped, CollectionTyped
    <3> QED
      BY <2>1, <3>1, <3>2
  <2> QED
    BY <1>1, <1>3, <1>5, <2>2, <2>3, <2>5, StepKeeps DEF ProgressInv, ProgressTyped, CollectionTyped
<1>7. ASSUME NEW s \in {"delivering", "discovering"}, Goto(a, s), UNCHANGED <<place, troubled>>
      PROVE  ProgressInv' /\ Kept
  <2>1. step' \in [Attempts -> ProgressSteps] /\ \A b \in Attempts : step'[b] = "idle" => step[b] = "idle"
    BY <1>7, GoesOn DEF ProgressInv, ProgressTyped, ProgressSteps
  <2> QED
    BY <1>1, <1>3, <1>5, <1>7, <2>1, StepKeeps DEF ProgressInv, ProgressTyped, CollectionTyped
<1> QED
  BY <1>1, <1>6, <1>7

\* A collection refused before it looks, and one whose sources are through.
LEMMA TurnsKeep ==
  ASSUME ProgressAssumption, RegistryAssumption, ProgressInv, NEW a \in Attempts,
         Unavailable(a) \/ Drained(a)
  PROVE  ProgressInv' /\ Kept
<1>1. /\ UNCHANGED <<now, attempts, refused>>
      /\ UNCHANGED <<event, saving, jobs, place, cancelled, beat, state, sent, closed>>
      /\ troubled' \in {troubled, [troubled EXCEPT ![a] = "collection_failed"]}
      /\ at' \in {at, [at EXCEPT ![a] = 1]}
      /\ \E s \in {"delivering", "ending", "stopping"} : Goto(a, s)
  BY DEF Unavailable, Drained, measureVars, registryVars
<1>2. RegistryTyped' /\ Kept
  BY <1>1, StillKept DEF registryVars, ProgressInv, ProgressTyped
<1>3. at' \in [Attempts -> Harnesses]
  <2>1. ProgressTyped /\ at \in [Attempts -> Harnesses]
    BY DEF ProgressInv, ProgressTyped, CollectionTyped
  <2> QED
    BY <1>1, <2>1, NextHarness
<1>4. step' \in [Attempts -> ProgressSteps] /\ \A b \in Attempts : step'[b] = "idle" => step[b] = "idle"
  BY <1>1, GoesOn DEF ProgressInv, ProgressTyped, ProgressSteps
<1>5. troubled' \in [Attempts -> Causes]
  BY <1>1 DEF ProgressInv, ProgressTyped, CollectionTyped, Causes
<1> QED
  BY <1>1, <1>2, <1>3, <1>4, <1>5, StepKeeps DEF ProgressInv, ProgressTyped, CollectionTyped


\* One source of a collection, and its place moved on.
LEMMA MoveTyped ==
  ASSUME ProgressTyped, NEW a \in Attempts, NEW j \in DOMAIN place[a], NEW p \in Places
  PROVE  /\ jobs[a][j] \in Harnesses
         /\ [place[a] EXCEPT ![j] = p] \in Seq(Places)
         /\ Len([place[a] EXCEPT ![j] = p]) = Len(place[a])
         /\ [place EXCEPT ![a][j] = p] = [place EXCEPT ![a] = [place[a] EXCEPT ![j] = p]]
<1>1. /\ place[a] \in Seq(Places) /\ jobs[a] \in Seq(Harnesses) /\ Len(jobs[a]) = Len(place[a])
      /\ place \in [Attempts -> Seq(Places)]
  BY DEF ProgressTyped, CollectionTyped
<1>2. j \in 1..Len(jobs[a])
  BY <1>1
<1>3. jobs[a][j] \in Harnesses
  BY <1>1, <1>2
<1>4. [place[a] EXCEPT ![j] = p] \in Seq(Places) /\ Len([place[a] EXCEPT ![j] = p]) = Len(place[a])
  BY <1>1
<1>5. [place EXCEPT ![a][j] = p] = [place EXCEPT ![a] = [place[a] EXCEPT ![j] = p]]
  OBVIOUS
<1> QED
  BY <1>3, <1>4, <1>5

\* A worker takes a source, and is done with it.
LEMMA ReadingKeeps ==
  ASSUME RegistryAssumption, ProgressInv, NEW a \in Attempts, NEW j \in DOMAIN place[a], Reading(a, j)
  PROVE  ProgressInv' /\ Kept
<1> DEFINE h == jobs[a][j]
           e == event[a][h]
<1>1. h \in Harnesses
  BY MoveTyped DEF ProgressInv, Places
<1>2. e \in Measurements /\ saving[a][h] \in BOOLEAN /\ e.active \in Int
  <2>1. e \in Measurements /\ saving[a][h] \in BOOLEAN
    <3> HIDE DEF Measurements
    <3> QED
      BY <1>1 DEF ProgressInv, ProgressTyped, CollectionTyped
  <2> HIDE DEF e
  <2>2. e.active \in Int
    BY <2>1 DEF Measurements
  <2> QED
    BY <2>1, <2>2
<1>3. UNCHANGED <<saving, jobs, step, at, cancelled, beat, state, troubled, sent, closed>>
  BY DEF Reading, collectionVars
<1>4. PICK n \in Int, p \in {"reading", "read"} :
        Move(a, j, p) /\ Measure(a, h, CaptureWorkPhase([e EXCEPT !.active = n], saving[a][h]))
  <2>1. CASE place[a][j] = "queued" /\ Move(a, j, "reading")
             /\ Measure(a, h, CaptureWorkPhase([e EXCEPT !.active = e.active + 1], saving[a][h]))
    <3>1. e.active + 1 \in Int
      BY <1>2
    <3> HIDE DEF e, h
    <3> QED
      BY <2>1, <3>1
  <2>2. CASE place[a][j] = "reading" /\ Move(a, j, "read")
             /\ Measure(a, h, CaptureWorkPhase([e EXCEPT !.active = e.active - 1], saving[a][h]))
    <3>1. e.active - 1 \in Int
      BY <1>2
    <3> HIDE DEF e, h
    <3> QED
      BY <2>2, <3>1
  <2>3. /\ [event[a][jobs[a][j]] EXCEPT !.active = @ + 1] = [e EXCEPT !.active = e.active + 1]
        /\ [event[a][jobs[a][j]] EXCEPT !.active = @ - 1] = [e EXCEPT !.active = e.active - 1]
    BY <1>2 DEF Measurements
  <2> QED
    BY <2>1, <2>2, <2>3 DEF Reading
<1> DEFINE c == CaptureWorkPhase([e EXCEPT !.active = n], saving[a][h])
<1>5. c \in Measurements
  BY <1>2, <1>4, MeasurementFields, WorkPhaseTyped
<1>6. Move(a, j, p) /\ Measure(a, h, c)
  BY <1>4
<1> HIDE DEF h, c
<1>7. RegistryTyped' /\ Kept /\ event' \in [Attempts -> [Harnesses -> Measurements]]
  BY <1>1, <1>5, <1>6, MeasureKeeps DEF ProgressInv
<1>8. /\ jobs' \in [Attempts -> Seq(Harnesses)] /\ place' \in [Attempts -> Seq(Places)]
      /\ \A b \in Attempts : Len(jobs'[b]) = Len(place'[b])
  <2>1. p \in Places
    BY DEF Places
  <2> QED
    BY <1>3, <1>6, <2>1, MoveTyped, PlacesTyped DEF Move, ProgressInv, ProgressTyped
<1> QED
  BY <1>3, <1>7, <1>8, StepKeeps DEF ProgressInv, ProgressTyped, CollectionTyped

\* The writer starts to save the next source.
LEMMA SavingKeeps ==
  ASSUME RegistryAssumption, ProgressInv, NEW a \in Attempts, NEW j \in DOMAIN place[a], Saving(a, j)
  PROVE  ProgressInv' /\ Kept
<1> DEFINE h == jobs[a][j]
           c == CaptureWorkPhase(event[a][h], TRUE)
<1>1. h \in Harnesses
  BY MoveTyped DEF ProgressInv, Places
<1>2. c \in Measurements
  <2>1. event[a][h] \in Measurements
    BY <1>1 DEF ProgressInv, ProgressTyped, CollectionTyped
  <2> QED
    BY <2>1, WorkPhaseTyped
<1>3. /\ Move(a, j, "saving") /\ Measure(a, h, c)
      /\ saving' = [saving EXCEPT ![a][h] = TRUE]
      /\ UNCHANGED <<jobs, step, at, cancelled, beat, state, troubled, sent, closed>>
  BY DEF Saving, collectionVars
<1> HIDE DEF h, c
<1>4. RegistryTyped' /\ Kept /\ event' \in [Attempts -> [Harnesses -> Measurements]]
  BY <1>1, <1>2, <1>3, MeasureKeeps DEF ProgressInv
<1>5. /\ jobs' \in [Attempts -> Seq(Harnesses)] /\ place' \in [Attempts -> Seq(Places)]
      /\ \A b \in Attempts : Len(jobs'[b]) = Len(place'[b])
  <2>1. "saving" \in Places
    BY DEF Places
  <2> QED
    BY <1>3, <2>1, MoveTyped, PlacesTyped DEF Move, ProgressInv, ProgressTyped
<1>6. saving' \in [Attempts -> [Harnesses -> BOOLEAN]]
  BY <1>1, <1>3 DEF ProgressInv, ProgressTyped, CollectionTyped
<1> QED
  BY <1>3, <1>4, <1>5, <1>6, StepKeeps DEF ProgressInv, ProgressTyped, CollectionTyped


\* The writer is done with a source: it is counted, and the next may be issued.
LEMMA FinalizedKeeps ==
  ASSUME RegistryAssumption, ProgressInv, NEW a \in Attempts, NEW j \in DOMAIN place[a],
         NEW o \in Outcomes, Finalized(a, j, o)
  PROVE  ProgressInv' /\ Kept
<1> DEFINE h == jobs[a][j]
           c == CaptureWorkPhase(Counted(event[a][h], o), FALSE)
           places == [place[a] EXCEPT ![j] = "done"]
<1>1. h \in Harnesses /\ places \in Seq(Places) /\ Len(places) = Len(place[a])
  BY MoveTyped DEF ProgressInv, Places
<1>2. c \in Measurements
  <2>1. event[a][h] \in Measurements
    BY <1>1 DEF ProgressInv, ProgressTyped, CollectionTyped
  <2> QED
    BY <2>1, CountedTyped, WorkPhaseTyped
<1>3. /\ Measure(a, h, c)
      /\ saving' = [saving EXCEPT ![a][h] = FALSE] /\ at' = [at EXCEPT ![a] = h]
      /\ troubled' \in {troubled, [troubled EXCEPT ![a] = "collection_failed"]}
      /\ \E s \in {"summing", "working"} : Goto(a, s)
      /\ \E ps \in {places, Issue(a, places)} : place' = [place EXCEPT ![a] = ps]
      /\ UNCHANGED <<jobs, cancelled, beat, state, sent, closed>>
  BY DEF Finalized
<1> HIDE DEF h, c, places
<1>4. RegistryTyped' /\ Kept /\ event' \in [Attempts -> [Harnesses -> Measurements]]
  BY <1>1, <1>2, <1>3, MeasureKeeps DEF ProgressInv
<1>5. /\ jobs' \in [Attempts -> Seq(Harnesses)] /\ place' \in [Attempts -> Seq(Places)]
      /\ \A b \in Attempts : Len(jobs'[b]) = Len(place'[b])
  <2>1. PICK ps \in {places, Issue(a, places)} : place' = [place EXCEPT ![a] = ps]
    BY <1>3
  <2>2. ps \in Seq(Places) /\ Len(ps) = Len(place[a])
    BY <1>1, IssueTyped
  <2> QED
    BY <1>3, <2>1, <2>2, PlacesTyped DEF ProgressInv, ProgressTyped
<1>6. saving' \in [Attempts -> [Harnesses -> BOOLEAN]] /\ at' \in [Attempts -> Harnesses]
  BY <1>1, <1>3 DEF ProgressInv, ProgressTyped, CollectionTyped
<1>7. troubled' \in [Attempts -> Causes]
  BY <1>3 DEF ProgressInv, ProgressTyped, CollectionTyped, Causes
<1>8. step' \in [Attempts -> ProgressSteps] /\ \A b \in Attempts : step'[b] = "idle" => step[b] = "idle"
  BY <1>3, GoesOn DEF ProgressInv, ProgressTyped, ProgressSteps
<1> QED
  BY <1>3, <1>4, <1>5, <1>6, <1>7, <1>8, StepKeeps DEF ProgressInv, ProgressTyped, CollectionTyped

\* What became of a harness is reported.
LEMMA SummingKeeps ==
  ASSUME RegistryAssumption, ProgressInv, NEW a \in Attempts, Summing(a)
  PROVE  ProgressInv' /\ Kept
<1>1. PICK status \in Statuses : Tell(a, HarnessIs(a, at[a], status))
  BY DEF Summing, Statuses
<1>2. /\ \E ps \in {place[a], Issue(a, place[a])} : place' = [place EXCEPT ![a] = ps]
      /\ Goto(a, "working")
      /\ UNCHANGED <<event, saving, jobs, at, cancelled, beat, troubled, sent, closed>>
  BY DEF Summing, ProgressInv, ProgressTyped, CollectionTyped
<1>3. HarnessIs(a, at[a], status) \in States
  BY HarnessIsTyped DEF ProgressInv, ProgressTyped, CollectionTyped
<1>4. RegistryTyped' /\ Kept /\ state' \in [Attempts -> States]
  BY <1>1, <1>3, TellKeeps DEF ProgressInv
<1>5. /\ jobs' \in [Attempts -> Seq(Harnesses)] /\ place' \in [Attempts -> Seq(Places)]
      /\ \A b \in Attempts : Len(jobs'[b]) = Len(place'[b])
  <2>1. PICK ps \in {place[a], Issue(a, place[a])} : place' = [place EXCEPT ![a] = ps]
    BY <1>2
  <2>2. place[a] \in Seq(Places)
    BY DEF ProgressInv, ProgressTyped, CollectionTyped
  <2>3. ps \in Seq(Places) /\ Len(ps) = Len(place[a])
    BY <2>2, IssueTyped
  <2> QED
    BY <1>2, <2>1, <2>3, PlacesTyped DEF ProgressInv, ProgressTyped
<1>6. step' \in [Attempts -> ProgressSteps] /\ \A b \in Attempts : step'[b] = "idle" => step[b] = "idle"
  BY <1>2, GoesOn DEF ProgressInv, ProgressTyped, ProgressSteps
<1> QED
  BY <1>2, <1>4, <1>5, <1>6, StepKeeps DEF ProgressInv, ProgressTyped, CollectionTyped

\* What was not finished of a harness.
LEMMA StoppingKeeps ==
  ASSUME ProgressAssumption, RegistryAssumption, ProgressInv, NEW a \in Attempts, Stopping(a)
  PROVE  ProgressInv' /\ Kept
<1> DEFINE h == at[a]
           p == IF step[a] = "stopping" THEN "interrupted" ELSE "failed"
           c == [event[a][h] EXCEPT !.phase = p]
           last == h + 1 \notin Harnesses
<1>1. /\ Measure(a, h, c) \/ UNCHANGED <<event, registryVars>>
      /\ at' = [at EXCEPT ![a] = IF last THEN 1 ELSE h + 1]
      /\ \E s \in {"stopping", "failing", "abandoning", "delivering"} : Goto(a, s)
      /\ UNCHANGED <<saving, jobs, place, cancelled, beat, state, troubled, sent, closed>>
  BY DEF Stopping
<1>2. h \in Harnesses /\ event[a][h] \in Measurements
  BY DEF ProgressInv, ProgressTyped, CollectionTyped
<1>3. p \in Phases
  BY DEF Phases, CaptureTerminal
<1>4. at' \in [Attempts -> Harnesses]
  BY <1>1, NextHarness DEF ProgressInv
<1> HIDE DEF p, last
<1>5. c \in Measurements
  BY <1>2, <1>3, MeasurementFields
<1> HIDE DEF h, c
<1>6. RegistryTyped' /\ Kept /\ event' \in [Attempts -> [Harnesses -> Measurements]]
  <2>1. CASE Measure(a, h, c)
    BY <1>2, <1>5, <2>1, MeasureKeeps DEF ProgressInv
  <2>2. CASE UNCHANGED <<event, registryVars>>
    BY <2>2, StillKept DEF ProgressInv, ProgressTyped, CollectionTyped
  <2> QED
    BY <1>1, <2>1, <2>2
<1>7. step' \in [Attempts -> ProgressSteps] /\ \A b \in Attempts : step'[b] = "idle" => step[b] = "idle"
  BY <1>1, GoesOn DEF ProgressInv, ProgressTyped, ProgressSteps
<1> QED
  BY <1>1, <1>4, <1>6, <1>7, StepKeeps DEF ProgressInv, ProgressTyped, CollectionTyped

\* The harnesses whose sources were never issued.
LEMMA AbandoningKeeps ==
  ASSUME ProgressAssumption, RegistryAssumption, ProgressInv, NEW a \in Attempts, Abandoning(a)
  PROVE  ProgressInv' /\ Kept
<1> DEFINE h == at[a]
           last == h + 1 \notin Harnesses
<1>1. /\ Tell(a, HarnessIs(a, h, "failed")) \/ UNCHANGED <<state, registryVars>>
      /\ troubled' = [troubled EXCEPT ![a] = "collection_failed"]
      /\ at' = [at EXCEPT ![a] = IF last THEN 1 ELSE h + 1]
      /\ \E s \in {"delivering", "abandoning"} : Goto(a, s)
      /\ UNCHANGED <<event, saving, jobs, place, cancelled, beat, sent, closed>>
  BY DEF Abandoning, measureVars
<1>2. at' \in [Attempts -> Harnesses]
  BY <1>1, NextHarness DEF ProgressInv
<1> HIDE DEF last
<1>3. HarnessIs(a, h, "failed") \in States
  BY HarnessIsTyped DEF ProgressInv, ProgressTyped, CollectionTyped, Statuses
<1>4. RegistryTyped' /\ Kept /\ state' \in [Attempts -> States]
  <2>1. CASE Tell(a, HarnessIs(a, h, "failed"))
    BY <1>3, <2>1, TellKeeps DEF ProgressInv
  <2>2. CASE UNCHANGED <<state, registryVars>>
    BY <2>2, StillKept DEF ProgressInv, ProgressTyped, CollectionTyped
  <2> QED
    BY <1>1, <2>1, <2>2
<1>5. step' \in [Attempts -> ProgressSteps] /\ \A b \in Attempts : step'[b] = "idle" => step[b] = "idle"
  BY <1>1, GoesOn DEF ProgressInv, ProgressTyped, ProgressSteps
<1>6. troubled' \in [Attempts -> Causes]
  BY <1>1 DEF ProgressInv, ProgressTyped, CollectionTyped, Causes
<1> QED
  BY <1>1, <1>2, <1>4, <1>5, <1>6, StepKeeps DEF ProgressInv, ProgressTyped, CollectionTyped

\* Batches are sent.
LEMMA DeliveringKeeps ==
  ASSUME RegistryAssumption, ProgressInv, NEW a \in Attempts, Delivering(a)
  PROVE  ProgressInv' /\ Kept
<1> DEFINE m == [state[a] EXCEPT !.op = "update", !.stage = "submitting", !.batches = sent[a]]
           hs == [Harnesses -> Statuses]
<1>1. state[a] \in States /\ sent[a] \in Nat
  BY DEF ProgressInv, ProgressTyped, CollectionTyped
<1>2. States = [op : {"begin", "update"}, stage : {"waiting", "capturing", "submitting"}, error : {""},
                harnesses : hs, batches : Nat]
  BY DEF States
<1>3. m \in States
  <2> HIDE DEF hs
  <2> QED
    BY <1>1, <1>2
<1>4. /\ Tell(a, m)
      /\ \/ step' = step
         \/ Goto(a, "ending")
      /\ sent' \in {sent, [sent EXCEPT ![a] = sent[a] + 1]}
      /\ troubled' \in {troubled, [troubled EXCEPT ![a] = "submission_failed"]}
      /\ UNCHANGED <<event, saving, jobs, place, at, cancelled, beat, closed>>
  BY <1>1 DEF Delivering, measureVars, ProgressInv, ProgressTyped, CollectionTyped
<1> HIDE DEF m
<1>5. RegistryTyped' /\ Kept /\ state' \in [Attempts -> States]
  BY <1>3, <1>4, TellKeeps DEF ProgressInv
<1>6. step' \in [Attempts -> ProgressSteps] /\ \A b \in Attempts : step'[b] = "idle" => step[b] = "idle"
  BY <1>4, GoesOn DEF ProgressInv, ProgressTyped, CollectionTyped, ProgressSteps
<1>7. troubled' \in [Attempts -> Causes] /\ sent' \in [Attempts -> Nat]
  <2>1. troubled \in [Attempts -> Causes] /\ sent \in [Attempts -> Nat] /\ "submission_failed" \in Causes
    BY DEF ProgressInv, ProgressTyped, CollectionTyped, Causes
  <2>2. troubled' \in [Attempts -> Causes]
    BY <1>4, <2>1
  <2>3. sent' \in [Attempts -> Nat]
    BY <1>1, <1>4, <2>1
  <2> QED
    BY <2>2, <2>3
<1> QED
  BY <1>4, <1>5, <1>6, <1>7, StepKeeps DEF ProgressInv, ProgressTyped, CollectionTyped


\* A collection sends its outcome, and what it knew goes with it.
LEMMA FinishKeeps ==
  ASSUME ProgressAssumption, RegistryAssumption, ProgressInv, NEW a \in Attempts, Finish(a)
  PROVE  ProgressInv' /\ Kept
<1>1. PICK r \in Results(a) :
        Apply(a, [state[a] EXCEPT !.op = "finish", !.stage = r.stage, !.error = r.error, !.batches = sent[a]])
  BY DEF Finish
<1>2. troubled[a] \in Causes /\ state[a] \in States /\ sent[a] \in Nat
  BY DEF ProgressInv, ProgressTyped, CollectionTyped
<1>3. r.stage \in Stages /\ r.error \in Errors
  <2> DEFINE e == IF troubled[a] = "" THEN "collection_failed" ELSE troubled[a]
             accepted == [stage |-> "accepted", error |-> ""]
             failed == [stage |-> "failed", error |-> e]
             interrupted == [stage |-> "interrupted", error |-> "cancelled"]
  <2>1. e \in Causes
    BY <1>2 DEF Causes
  <2>2. Results(a) \in {{accepted}, {failed} \cup {interrupted}, {failed} \cup {}}
    BY Zenon DEF Results
  <2> HIDE DEF e
  <2>3. r \in {accepted, failed, interrupted}
    <3> HIDE DEF accepted, failed, interrupted
    <3> QED
      BY <2>2
  <2>4. /\ accepted.stage = "accepted" /\ accepted.error = ""
        /\ failed.stage = "failed" /\ failed.error = e
        /\ interrupted.stage = "interrupted" /\ interrupted.error = "cancelled"
    OBVIOUS
  <2>5. /\ {"accepted", "failed", "interrupted"} \subseteq Stages
        /\ "" \in Errors /\ e \in Errors /\ "cancelled" \in Errors
    BY <2>1 DEF Causes, Stages, Terminal, Errors
  <2> HIDE DEF accepted, failed, interrupted
  <2> QED
    BY <2>3, <2>4, <2>5
<1> DEFINE m == [state[a] EXCEPT !.op = "finish", !.stage = r.stage, !.error = r.error, !.batches = sent[a]]
<1>4. m \in Messages
  BY <1>2, <1>3, StatesAreMessages
<1>5. Apply(a, m)
  BY <1>1
<1> HIDE DEF m
<1>6. RegistryTyped' /\ Kept
  BY <1>4, <1>5, ApplyKeeps DEF ProgressInv, ProgressTyped, RegistryKept, Kept
<1>7. /\ Goto(a, "done")
      /\ state' = [state EXCEPT ![a] = FirstState]
      /\ event' = [event EXCEPT ![a] = NoEvents]
      /\ jobs' = [jobs EXCEPT ![a] = << >>] /\ place' = [place EXCEPT ![a] = << >>]
      /\ cancelled' = [cancelled EXCEPT ![a] = FALSE]
      /\ troubled' = [troubled EXCEPT ![a] = ""]
      /\ sent' = [sent EXCEPT ![a] = 0]
      /\ UNCHANGED <<saving, at, beat, closed>>
  BY DEF Finish
<1>8. step' \in [Attempts -> ProgressSteps] /\ \A b \in Attempts : step'[b] = "idle" => step[b] = "idle"
  BY <1>7, GoesOn DEF ProgressInv, ProgressTyped, ProgressSteps
<1>9. FirstState \in States /\ NoEvents \in [Harnesses -> Measurements]
  BY FreshTyped
<1>10. /\ jobs' \in [Attempts -> Seq(Harnesses)] /\ place' \in [Attempts -> Seq(Places)]
       /\ \A b \in Attempts : Len(jobs'[b]) = Len(place'[b])
  <2>1. /\ jobs \in [Attempts -> Seq(Harnesses)] /\ place \in [Attempts -> Seq(Places)]
        /\ \A b \in Attempts : Len(jobs[b]) = Len(place[b])
    BY DEF ProgressInv, ProgressTyped, CollectionTyped
  <2>2. << >> \in Seq(Harnesses) /\ << >> \in Seq(Places)
    OBVIOUS
  <2>3. /\ jobs' \in [Attempts -> Seq(Harnesses)] /\ place' \in [Attempts -> Seq(Places)]
        /\ \A b \in Attempts : /\ jobs'[b] = IF b = a THEN << >> ELSE jobs[b]
                               /\ place'[b] = IF b = a THEN << >> ELSE place[b]
    BY <1>7, <2>1, <2>2
  <2> QED
    BY <2>1, <2>3
<1>11. state' \in [Attempts -> States] /\ event' \in [Attempts -> [Harnesses -> Measurements]]
  BY <1>7, <1>9 DEF ProgressInv, ProgressTyped, CollectionTyped
<1>12. /\ cancelled' \in [Attempts -> BOOLEAN] /\ troubled' \in [Attempts -> Causes]
       /\ sent' \in [Attempts -> Nat]
  BY <1>7 DEF ProgressInv, ProgressTyped, CollectionTyped, Causes
<1> QED
  BY <1>6, <1>7, <1>8, <1>10, <1>11, <1>12, StepKeeps DEF ProgressInv, ProgressTyped, CollectionTyped

\* The owner's shutdown, the readers, and time.
LEMMA RuntimeKeeps ==
  ASSUME RegistryAssumption, ProgressInv, CloseRuntime \/ Watch
  PROVE  ProgressInv' /\ Kept
<1>1. RegistryTyped' /\ Kept
  <2>1. RegistryKept
    BY InterruptAllKeeps, WatchKeeps DEF CloseRuntime, Watch, ProgressInv, ProgressTyped
  <2> QED
    BY <2>1 DEF RegistryKept, Kept
<1>2. /\ UNCHANGED <<event, saving, jobs, place, step, at, cancelled, beat, state, troubled, sent>>
      /\ closed' \in {closed, TRUE}
  BY DEF CloseRuntime, Watch, measureVars, collectionVars
<1> QED
  BY <1>1, <1>2, StepKeeps DEF ProgressInv, ProgressTyped, CollectionTyped

-----------------------------------------------------------------------------
(* The specification *)

\* No attempt is known before the first collection.
LEMMA ProgressInitInv ==
  ASSUME ProgressAssumption, RegistryAssumption, ProgressInit
  PROVE  ProgressInv
<1>1. RegistryTyped
  BY DEF ProgressInit, RegistryInit, RegistryTyped
<1>2. CollectionTyped
  <2>1. FirstState \in States /\ NoEvents \in [Harnesses -> Measurements]
    BY FreshTyped
  <2>3. at \in [Attempts -> Harnesses]
    BY FirstHarness DEF ProgressInit
  <2>4. step \in [Attempts -> ProgressSteps] /\ troubled \in [Attempts -> Causes]
    BY DEF ProgressInit, ProgressSteps, Causes
  <2>5. /\ cancelled \in [Attempts -> BOOLEAN] /\ beat \in [Attempts -> BOOLEAN]
        /\ saving \in [Attempts -> [Harnesses -> BOOLEAN]] /\ closed \in BOOLEAN
        /\ sent \in [Attempts -> Nat]
    BY DEF ProgressInit
  <2>6. state \in [Attempts -> States] /\ event \in [Attempts -> [Harnesses -> Measurements]]
    BY <2>1 DEF ProgressInit
  <2>7. /\ jobs \in [Attempts -> Seq(Harnesses)] /\ place \in [Attempts -> Seq(Places)]
        /\ \A b \in Attempts : Len(jobs[b]) = Len(place[b])
    <3>1. << >> \in Seq(Harnesses) /\ << >> \in Seq(Places)
      OBVIOUS
    <3>2. jobs = [b \in Attempts |-> << >>] /\ place = [b \in Attempts |-> << >>]
      BY DEF ProgressInit
    <3> QED
      BY <3>1, <3>2
  <2> QED
    BY <2>3, <2>4, <2>5, <2>6, <2>7 DEF CollectionTyped
<1>3. BegunOnce
  BY DEF ProgressInit, RegistryInit, BegunOnce
<1> QED
  BY <1>1, <1>2, <1>3 DEF ProgressInv, ProgressTyped

\* Every step of every collection, of the runtime and of its viewers keeps the invariant,
\* and the outcomes.
LEMMA ProgressStepInv ==
  ASSUME ProgressAssumption, RegistryAssumption, ProgressInv, [ProgressNext]_progressVars
  PROVE  ProgressInv' /\ \A b \in Held : Keeps(attempts[b], attempts'[b], now)
<1>1. CASE UNCHANGED progressVars
  <2>1. RegistryTyped' /\ Kept
    BY <1>1, StillKept DEF progressVars, ProgressInv, ProgressTyped
  <2>2. ProgressInv' /\ Kept
    BY <1>1, <2>1, StepKeeps DEF progressVars, measureVars, collectionVars, ProgressInv, ProgressTyped,
                                 CollectionTyped
  <2> QED
    BY <2>2 DEF Kept, Held
<1>2. ASSUME ProgressInv' /\ Kept
      PROVE  ProgressInv' /\ \A b \in Held : Keeps(attempts[b], attempts'[b], now)
  BY <1>2 DEF Kept, Held
<1>3. ASSUME NEW a \in Attempts, StartCollection(a)
      PROVE  ProgressInv' /\ \A b \in Held : Keeps(attempts[b], attempts'[b], now)
  BY <1>3, StartKeeps
<1>4. ASSUME NEW a \in Attempts, Heartbeat(a) \/ StopBeat(a) \/ CancelCollection(a)
      PROVE  ProgressInv' /\ Kept
  BY <1>4, BesideKeeps
<1>5. ASSUME NEW a \in Attempts, CaptureStep(a)
      PROVE  ProgressInv' /\ Kept
  <2>1. CASE Discovering(a) \/ Announcing(a) \/ Looking(a) \/ Reporting(a) \/ Unavailable(a)
    BY <2>1, DiscoveringKeeps, AnnouncingKeeps, LookingKeeps, ReportingKeeps, TurnsKeep
  <2>2. ASSUME NEW j \in DOMAIN place[a], Reading(a, j) \/ Saving(a, j) \/ \E o \in Outcomes : Finalized(a, j, o)
        PROVE  ProgressInv' /\ Kept
    BY <2>2, ReadingKeeps, SavingKeeps, FinalizedKeeps
  <2>3. CASE Summing(a) \/ Drained(a) \/ Stopping(a) \/ Abandoning(a)
    BY <2>3, SummingKeeps, TurnsKeep, StoppingKeeps, AbandoningKeeps
  <2> QED
    BY <1>5, <2>1, <2>2, <2>3 DEF CaptureStep
<1>6. ASSUME NEW a \in Attempts, Delivering(a) \/ Finish(a)
      PROVE  ProgressInv' /\ Kept
  BY <1>6, DeliveringKeeps, FinishKeeps
<1>7. ASSUME CloseRuntime \/ Watch
      PROVE  ProgressInv' /\ Kept
  BY <1>7, RuntimeKeeps
<1> QED
  BY <1>1, <1>2, <1>3, <1>4, <1>5, <1>6, <1>7 DEF ProgressNext, Collect

\* Types of every reachable state, and an entry only for an attempt that was begun:
\* what the registry is sent is always a message and a measurement of the kinds
\* Registry.Apply and Registry.UpdateCapture know.
THEOREM ProgressHolds == ProgressSpec => []ProgressInv
<1>1. ProgressInit => ProgressInv
  BY ProgressInitInv, ProgressAssumption, RegistryAssumption
<1>2. ProgressInv /\ [ProgressNext]_progressVars => ProgressInv'
  BY ProgressStepInv, ProgressAssumption, RegistryAssumption
<1> QED
  BY <1>1, <1>2, PTL DEF ProgressSpec

\* OutcomesStay: however many collections, workers, viewers and heartbeats there are, an
\* attempt that ended keeps its outcome until it is forgotten, and an attempt is
\* forgotten only after it ended or lost its lease.
THEOREM OutcomesAreKept == ProgressSpec => OutcomesStay
<1> DEFINE Step == \A a \in Held :
              /\ attempts[a].stage \in Terminal => attempts'[a] \in {attempts[a], Absent}
              /\ attempts'[a] = Absent => attempts[a].stage \in Terminal \/ now >= attempts[a].expires
<1>1. ProgressInv /\ [ProgressNext]_progressVars => Step
  <2> SUFFICES ASSUME ProgressInv, [ProgressNext]_progressVars PROVE Step
    OBVIOUS
  <2>1. \A b \in Held : Keeps(attempts[b], attempts'[b], now)
    BY ProgressStepInv, ProgressAssumption, RegistryAssumption
  <2> QED
    BY <2>1 DEF Keeps, Held
<1>2. ProgressInv /\ [ProgressNext]_progressVars => [Step]_progressVars
  BY <1>1
<1> HIDE DEF Step
<1>3. ProgressSpec => [][Step]_progressVars
  BY <1>2, ProgressHolds, PTL DEF ProgressSpec
<1> QED
  BY <1>3 DEF OutcomesStay, Step

-----------------------------------------------------------------------------
(* How collections and their entries agree: the invariant *)

\* The sources of a harness, and those of them at one place.
Of(js, h) == {j \in DOMAIN js : js[j] = h}
On(js, ps, h, p) == {j \in Of(js, h) : ps[j] = p}

\* What a collection's result would say of it.
Troubled(a) == troubled[a] # ""

\* A measurement counts the sources there are, those done and those being read, and
\* names the phase the reporter works out of them.
Tallied(c, sav, js, ps, h) ==
  /\ c.known /\ c.total = Cardinality(Of(js, h))
  /\ c.checked = Cardinality(On(js, ps, h, "done")) /\ c.checked = Sum(c.count)
  /\ c.active = Cardinality(On(js, ps, h, "reading"))
  /\ c.phase = CaptureWorkPhase(c, sav).phase

\* The measurement of a harness whose sources could not be found.
Unfound(c) ==
  /\ c.phase \in {"failed", "interrupted"} /\ ~c.known /\ c.count = NoOutcome
  /\ c.total = 0 /\ c.checked = 0 /\ c.active = 0

Measured(a, h) ==
  \/ Tallied(event[a][h], saving[a][h], jobs[a], place[a], h)
  \/ Unfound(event[a][h]) /\ Of(jobs[a], h) = {} /\ Troubled(a)

\* A harness that is through was told to be, unless the result carries an error.
Reported(a, h) ==
  ~Troubled(a) /\ event[a][h].checked = event[a][h].total
    => state[a].harnesses[h] \in {"complete", "skipped"}

Quiet(a) == \A h \in Harnesses : ~saving[a][h]

Fresh(a) ==
  step[a] = "idle" =>
    /\ event[a] = NoEvents /\ state[a] = FirstState /\ Quiet(a) /\ jobs[a] = << >> /\ place[a] = << >>
    /\ at[a] = 1

\* While sources are looked for, harness after harness: those before are measured,
\* those after are blank, and no source was given out.
Finds(a) ==
  step[a] \in {"discovering", "announcing", "looking", "reporting"} =>
    /\ Quiet(a) /\ \A j \in DOMAIN place[a] : place[a][j] = "held"
    /\ \A h \in Harnesses :
         /\ h < at[a] => Measured(a, h) /\ Reported(a, h)
         /\ h > at[a] => event[a][h] = Blank
    /\ \A j \in DOMAIN jobs[a] : jobs[a][j] < at[a] \/ (jobs[a][j] = at[a] /\ step[a] = "reporting")
    /\ step[a] = "discovering" => event[a][at[a]] = Blank
    /\ step[a] \in {"announcing", "looking"} => event[a][at[a]] = [Blank EXCEPT !.phase = "discovering"]
    /\ step[a] = "reporting" => Measured(a, at[a])

\* While sources are read and saved: a harness that is through was told to be, and
\* unless it was cancelled, sources are held only behind others on their way.
Works(a) ==
  step[a] \in {"working", "summing"} =>
    /\ \A h \in Harnesses :
         /\ Measured(a, h)
         /\ Reported(a, h) \/ (step[a] = "summing" /\ at[a] = h)
         /\ saving[a][h] => \E j \in DOMAIN jobs[a] : jobs[a][j] = h /\ place[a][j] = "saving"
    /\ step[a] = "working" /\ ~cancelled[a] /\ (\E j \in DOMAIN place[a] : place[a][j] = "held") =>
         \E j \in DOMAIN place[a] : place[a][j] \notin {"held", "done"}

\* While the unfinished are told: nothing is on its way, and if all is done and well,
\* nothing is changed.
Stops(a) ==
  step[a] \in {"stopping", "failing"} =>
    /\ Quiet(a) /\ \A j \in DOMAIN place[a] : place[a][j] \in {"held", "done"}
    /\ step[a] = "failing" => Troubled(a)
    /\ \A h \in Harnesses :
         /\ Reported(a, h)
         /\ h >= at[a] => Measured(a, h)
         /\ h < at[a] /\ ~Troubled(a) /\ (\A j \in DOMAIN place[a] : place[a][j] = "done") => Measured(a, h)

\* What is delivered without an error is through in every harness.
Delivers(a) ==
  step[a] \in {"delivering", "ending"} /\ ~Troubled(a) =>
    \A h \in Harnesses :
      /\ state[a].harnesses[h] \in {"complete", "skipped"}
      /\ event[a][h].phase = "complete" \/ event[a][h].count["quarantined"] > 0

FailuresTold(a) == \A h \in Harnesses : event[a][h].count["failed"] > 0 => Troubled(a)

CaptureHolds(a) ==
  /\ Fresh(a) /\ Finds(a) /\ Works(a) /\ Stops(a) /\ Delivers(a) /\ FailuresTold(a)
  /\ beat[a] => Running(a)
  /\ state[a].batches <= sent[a]

\* Measurements that ended are not active, and all of an entry that ended have.
Rests(r) ==
  \A h \in Harnesses : r.captures[h] # Absent /\ r.captures[h].phase \in CaptureTerminal => r.captures[h].active = 0
AllEnded(r) == \A h \in Harnesses : r.captures[h] # Absent => r.captures[h].phase \in CaptureTerminal

\* A live entry shows what its collection last told.
InStepWith(a, r) ==
  /\ Running(a) /\ r.error # "publisher_lost" /\ r.batches <= state[a].batches /\ r.harnesses = state[a].harnesses
  /\ \A h \in Harnesses : r.captures[h] = IF event[a][h] = Blank THEN Absent ELSE event[a][h]

\* One that ended without its collection lost it, and one that was accepted is through.
Outcome(a, r) ==
  /\ r.stage \in Terminal => AllEnded(r) /\ (r.error = "publisher_lost" \/ step[a] = "done")
  /\ r.stage = "accepted" =>
       \A h \in Harnesses :
         /\ r.harnesses[h] \in {"complete", "skipped"}
         /\ r.captures[h] # Absent /\ r.captures[h].phase = "complete"

Shown(a) ==
  /\ step[a] = "idle" => a \notin refused
  /\ attempts[a] # Absent =>
       /\ Rests(attempts[a]) /\ Outcome(a, attempts[a])
       /\ a \in refused => attempts[a].error = "publisher_lost"
       /\ attempts[a].stage \notin Terminal => InStepWith(a, attempts[a])

OutcomeInv == \A a \in Attempts : CaptureHolds(a) /\ Shown(a)

-----------------------------------------------------------------------------
(* What an operation of the registry shows *)

\* An entry that was not called for may be interrupted, or forgotten.
Aged(r, q) ==
  \/ q \in {r, Absent}
  \/ r # Absent /\ r.stage \notin Terminal /\ \E t \in Nat : q = Interrupted(r, t)

EndedOrGone(q) == q = Absent \/ q.stage \in Terminal

\* Measurements end with their entry, and keep what they ended as (finishCapture).
LEMMA FinishedEnds ==
  ASSUME NEW r \in Entries, NEW s, Absent \notin Measurements, Rests(r)
  PROVE  \A h \in Harnesses :
           /\ FinishCapture(r, s)[h] # Absent =>
                FinishCapture(r, s)[h].phase \in CaptureTerminal /\ FinishCapture(r, s)[h].active = 0
           /\ r.captures[h] # Absent /\ r.captures[h].phase \in CaptureTerminal =>
                FinishCapture(r, s)[h] = r.captures[h]
<1> DEFINE p == IF s = "failed" THEN "failed" ELSE "interrupted"
           counts == [Outcomes -> Nat]
           ended(h) == IF r.captures[h] = Absent \/ r.captures[h].phase \in CaptureTerminal THEN r.captures[h]
                       ELSE [r.captures[h] EXCEPT !.active = 0, !.phase = p]
<1>1. FinishCapture(r, s) = [h \in Harnesses |-> ended(h)]
  BY DEF FinishCapture
<1>2. p \in CaptureTerminal
  BY DEF CaptureTerminal
<1>3. r.captures \in [Harnesses -> Measurements \cup {Absent}]
  <2> HIDE DEF Measurements
  <2>1. QED BY DEF Entries
<1>4. Measurements =
        [phase : Phases, known : BOOLEAN, total : Nat, checked : Nat, active : Int, count : counts]
  BY DEF Measurements
<1> HIDE DEF p, counts, ended
<1>5. ASSUME NEW c \in Measurements
      PROVE  [c EXCEPT !.active = 0, !.phase = p].phase = p /\ [c EXCEPT !.active = 0, !.phase = p].active = 0
  BY <1>4
<1>6. SUFFICES ASSUME NEW h \in Harnesses
      PROVE  /\ FinishCapture(r, s)[h] # Absent =>
                  FinishCapture(r, s)[h].phase \in CaptureTerminal /\ FinishCapture(r, s)[h].active = 0
             /\ r.captures[h] # Absent /\ r.captures[h].phase \in CaptureTerminal =>
                  FinishCapture(r, s)[h] = r.captures[h]
  OBVIOUS
<1> DEFINE c == r.captures[h]
<1>7. c \in Measurements \cup {Absent}
  BY <1>3
<1>8. CASE c = Absent \/ c.phase \in CaptureTerminal
  <2>0. ended(h) = c
    BY <1>8, Zenon DEF ended
  <2>1. FinishCapture(r, s)[h] = c
    BY <1>1, <2>0
  <2>2. QED BY <1>8, <2>1 DEF Rests
<1>9. CASE ~(c = Absent \/ c.phase \in CaptureTerminal)
  <2>0. ended(h) = [c EXCEPT !.active = 0, !.phase = p]
    BY <1>9, Zenon DEF ended
  <2>1. FinishCapture(r, s)[h] = [c EXCEPT !.active = 0, !.phase = p]
    BY <1>1, <2>0
  <2>2. c \in Measurements
    BY <1>7, <1>9
  <2> HIDE DEF c
  <2>3. FinishCapture(r, s)[h].phase = p /\ FinishCapture(r, s)[h].active = 0
    BY <1>5, <2>1, <2>2
  <2>4. QED BY <1>2, <1>9, <2>3 DEF c
<1>10. QED BY <1>8, <1>9

\* What an interrupted entry shows.
LEMMA InterruptedShows ==
  ASSUME RegistryAssumption, NEW r \in Entries, Rests(r), NEW t \in Nat
  PROVE  LET q == Interrupted(r, t) IN
         q # Absent /\ q.stage = "interrupted" /\ q.error = "publisher_lost" /\ Rests(q) /\ AllEnded(q)
<1> DEFINE c == FinishCapture(r, "interrupted")
           q == Interrupted(r, t)
<1>1. q = [r EXCEPT !.stage = "interrupted", !.error = "publisher_lost", !.finished = t, !.captures = c]
  BY DEF Interrupted
<1>2. q \in Entries /\ q # Absent
  BY InterruptedIsEntry DEF RegistryAssumption
<1>3. \A h \in Harnesses : c[h] # Absent => c[h].phase \in CaptureTerminal /\ c[h].active = 0
  BY FinishedEnds DEF RegistryAssumption
<1> HIDE DEF c
<1>4. q.stage = "interrupted" /\ q.error = "publisher_lost" /\ q.captures = c
  BY <1>1 DEF Entries
<1> HIDE DEF q
<1>5. QED BY <1>2, <1>3, <1>4 DEF Rests, AllEnded, q

\* An attempt that no call was made for stays as it is, is interrupted or is forgotten.
LEMMA AgedIsShown ==
  ASSUME RegistryAssumption, RegistryTyped, NEW b \in Attempts, Shown(b), Aged(attempts[b], attempts'[b]),
         b \in refused' => b \in refused, step'[b] = step[b], event'[b] = event[b], state'[b] = state[b]
  PROVE  Shown(b)'
<1> DEFINE r == attempts[b]
           q == attempts'[b]
<1>1. CASE q = Absent
  BY <1>1 DEF Shown
<1>2. CASE q = r
  BY <1>2 DEF Shown, Outcome, InStepWith, Running
<1>3. CASE r # Absent /\ r.stage \notin Terminal /\ \E t \in Nat : q = Interrupted(r, t)
  <2>1. PICK t \in Nat : q = Interrupted(r, t)
    BY <1>3
  <2>2. r \in Entries /\ Rests(r)
    BY <1>3 DEF RegistryTyped, Shown
  <2> HIDE DEF q, r
  <2>3. q # Absent /\ q.stage = "interrupted" /\ q.error = "publisher_lost" /\ Rests(q) /\ AllEnded(q)
    BY <2>1, <2>2, InterruptedShows
  <2>4. QED BY <2>3 DEF Shown, Outcome, Terminal, q
<1>4. QED BY <1>1, <1>2, <1>3 DEF Aged

\* A collection whose entry ended without it, or is gone, goes on as one that lost it.
LEMMA LostIsShown ==
  ASSUME RegistryAssumption, RegistryTyped, NEW a \in Attempts, Shown(a), Aged(attempts[a], attempts'[a]),
         EndedOrGone(attempts'[a]), Running(a), step'[a] # "idle"
  PROVE  Shown(a)'
<1> DEFINE r == attempts[a]
           q == attempts'[a]
<1>1. CASE q = Absent
  BY <1>1 DEF Shown
<1>2. CASE q = r /\ q # Absent
  <2>1. r.stage \in Terminal /\ r.error = "publisher_lost" /\ AllEnded(r) /\ Rests(r)
    BY <1>2 DEF EndedOrGone, Shown, Outcome, Running
  <2>2. QED BY <1>2, <2>1 DEF Shown, Outcome
<1>3. CASE r # Absent /\ r.stage \notin Terminal /\ \E t \in Nat : q = Interrupted(r, t)
  <2>1. PICK t \in Nat : q = Interrupted(r, t)
    BY <1>3
  <2>2. r \in Entries /\ Rests(r)
    BY <1>3 DEF RegistryTyped, Shown
  <2> HIDE DEF q, r
  <2>3. q # Absent /\ q.stage = "interrupted" /\ q.error = "publisher_lost" /\ Rests(q) /\ AllEnded(q)
    BY <2>1, <2>2, InterruptedShows
  <2>4. QED BY <2>3 DEF Shown, Outcome, Terminal, q
<1>4. QED BY <1>1, <1>2, <1>3 DEF Aged

\* Every operation starts by interrupting or forgetting what is overdue, and no more.
LEMMA ExpireAges ==
  ASSUME RegistryAssumption, RegistryTyped, NEW b \in Attempts
  PROVE  /\ Aged(attempts[b], Expire(attempts)[b])
         /\ b \in Live(Expire(attempts)) =>
              /\ Expire(attempts)[b] = attempts[b] /\ attempts[b] \in Entries
              /\ attempts[b].stage \notin Terminal
         /\ b \notin Live(Expire(attempts)) => EndedOrGone(Expire(attempts)[b])
<1> DEFINE lost == b \in Live(attempts) /\ now >= attempts[b].expires
           i == Interrupted(attempts[b], attempts[b].expires)
           ended == IF lost THEN i ELSE attempts[b]
           stays == b \in Known(attempts) /\ ~(ended.stage \in Terminal /\ now - ended.finished >= TerminalRetention)
           q == IF stays THEN ended ELSE Absent
<1>1. Expire(attempts)[b] = q
  BY DEF Expire
<1>2. lost => attempts[b] # Absent /\ attempts[b].stage \notin Terminal /\ attempts[b].expires \in Nat
  <2>1. SUFFICES ASSUME lost PROVE attempts[b] # Absent /\ attempts[b].stage \notin Terminal
                                   /\ attempts[b].expires \in Nat
    OBVIOUS
  <2>2. attempts[b] # Absent /\ attempts[b].stage \notin Terminal
    BY <2>1 DEF Live, Known
  <2>3. attempts[b] \in Entries
    BY <2>2 DEF RegistryTyped
  <2>4. QED BY <2>2, <2>3 DEF Entries
<1>3. Aged(attempts[b], q)
  <2>1. CASE lost
    <3>1. q \in {i, Absent}
      BY <2>1
    <3>2. QED BY <1>2, <2>1, <3>1 DEF Aged
  <2>2. CASE ~lost
    <3>1. q \in {attempts[b], Absent}
      BY <2>2
    <3>2. QED BY <3>1 DEF Aged
  <2>3. QED BY <2>1, <2>2
<1> HIDE DEF q
<1>4. b \notin Live(Expire(attempts)) => EndedOrGone(Expire(attempts)[b])
  BY DEF Live, Known, EndedOrGone
<1>5. QED BY <1>1, <1>3, <1>4, ExpireKeeps

\* An operation on a that expires, and then replaces its live entry, or none.
LEMMA ReplacingAges ==
  ASSUME RegistryAssumption, RegistryTyped, NEW a \in Attempts, NEW q,
         \/ attempts' = Expire(attempts)
         \/ a \in Live(Expire(attempts)) /\ attempts' = [Expire(attempts) EXCEPT ![a] = q]
  PROVE  /\ \A b \in Attempts \ {a} : Aged(attempts[b], attempts'[b])
         /\ \/ Aged(attempts[a], attempts'[a]) /\ EndedOrGone(attempts'[a])
            \/ /\ attempts[a] \in Entries /\ attempts[a].stage \notin Terminal /\ a \in Live(Expire(attempts))
               /\ Expire(attempts)[a] = attempts[a] /\ attempts'[a] \in {attempts[a], q}
<1> DEFINE reg == Expire(attempts)
<1>1. reg \in [Attempts -> Entries \cup {Absent}]
  BY ExpireKeeps
<1>2. \A b \in Attempts : Aged(attempts[b], reg[b])
  BY ExpireAges
<1>3. CASE a \notin Live(reg)
  BY <1>2, <1>3, ExpireAges
<1>4. CASE a \in Live(reg)
  <2>1. reg[a] = attempts[a] /\ attempts[a] \in Entries /\ attempts[a].stage \notin Terminal
    BY <1>4, ExpireAges
  <2> HIDE DEF reg
  <2>2. attempts' = reg \/ attempts' = [reg EXCEPT ![a] = q]
    BY DEF reg
  <2>3. (\A b \in Attempts \ {a} : attempts'[b] = reg[b]) /\ attempts'[a] \in {reg[a], q}
    BY <1>1, <2>2
  <2>4. QED BY <1>2, <1>4, <2>1, <2>3 DEF reg
<1>5. QED BY <1>3, <1>4

\* Registry.Apply: the entry has ended or is gone, takes the message, or refuses it.
LEMMA ApplyIs ==
  ASSUME RegistryAssumption, RegistryTyped, NEW a \in Attempts, NEW m, Apply(a, m)
  PROVE  /\ \A b \in Attempts \ {a} : Aged(attempts[b], attempts'[b]) /\ (b \in refused' => b \in refused)
         /\ \/ Aged(attempts[a], attempts'[a]) /\ EndedOrGone(attempts'[a])
            \/ /\ attempts[a] \in Entries /\ attempts[a].stage \notin Terminal
               /\ \/ attempts'[a] = Applied(attempts[a], m) /\ (a \in refused' => a \in refused)
                  \/ ~ValidMessage(m) \/ Regresses(attempts[a], m)
<1> DEFINE reg == Expire(attempts)
           q == Applied(reg[a], m)
           taken == a \in Live(reg) /\ ValidMessage(m) /\ ~Regresses(reg[a], m)
<1>1. /\ attempts' = IF taken THEN [reg EXCEPT ![a] = q] ELSE reg
      /\ refused' \subseteq (IF taken THEN refused ELSE refused \cup {a})
  BY DEF Apply, PublisherCall
<1>2. reg \in [Attempts -> Entries \cup {Absent}]
  BY ExpireKeeps
<1>3. /\ \A b \in Attempts \ {a} : Aged(attempts[b], attempts'[b])
      /\ \/ Aged(attempts[a], attempts'[a]) /\ EndedOrGone(attempts'[a])
         \/ /\ attempts[a] \in Entries /\ attempts[a].stage \notin Terminal /\ a \in Live(reg)
            /\ reg[a] = attempts[a]
  <2> HIDE DEF q
  <2>1. \/ attempts' = Expire(attempts)
        \/ a \in Live(Expire(attempts)) /\ attempts' = [Expire(attempts) EXCEPT ![a] = q]
    BY <1>1
  <2>2. QED BY <2>1, ReplacingAges
<1> HIDE DEF reg
<1>4. CASE taken
  <2>1. attempts'[a] = q
    BY <1>1, <1>2, <1>4
  <2>2. QED BY <1>1, <1>3, <1>4, <2>1
<1>5. CASE ~taken
  <2>1. \A b \in Attempts \ {a} : b \in refused' => b \in refused
    BY <1>1
  <2>2. QED BY <1>3, <1>5, <2>1
<1>6. QED BY <1>4, <1>5

\* Registry.UpdateCapture, the same of a measurement.
LEMMA UpdateCaptureIs ==
  ASSUME RegistryAssumption, RegistryTyped, NEW a \in Attempts, NEW h \in Harnesses, NEW c, UpdateCapture(a, h, c)
  PROVE  /\ \A b \in Attempts \ {a} : Aged(attempts[b], attempts'[b]) /\ (b \in refused' => b \in refused)
         /\ \/ Aged(attempts[a], attempts'[a]) /\ EndedOrGone(attempts'[a])
            \/ /\ attempts[a] \in Entries /\ attempts[a].stage \notin Terminal
               /\ \/ /\ attempts'[a] = [attempts[a] EXCEPT !.captures[h] = c]
                     /\ a \in refused' => a \in refused
                  \/ ~ValidCapture(c)
                  \/ attempts[a].captures[h] # Absent /\ ~Follows(attempts[a].captures[h], c)
<1> DEFINE reg == Expire(attempts)
           q == [reg[a] EXCEPT !.captures[h] = c]
           taken == a \in Live(reg) /\ ValidCapture(c)
                    /\ (reg[a].captures[h] = Absent \/ Follows(reg[a].captures[h], c))
<1>1. /\ attempts' = IF taken THEN [reg EXCEPT ![a] = q] ELSE reg
      /\ refused' \subseteq (IF taken THEN refused ELSE refused \cup {a})
  BY DEF UpdateCapture, PublisherCall
<1>2. reg \in [Attempts -> Entries \cup {Absent}]
  BY ExpireKeeps
<1>3. /\ \A b \in Attempts \ {a} : Aged(attempts[b], attempts'[b])
      /\ \/ Aged(attempts[a], attempts'[a]) /\ EndedOrGone(attempts'[a])
         \/ /\ attempts[a] \in Entries /\ attempts[a].stage \notin Terminal /\ a \in Live(reg)
            /\ reg[a] = attempts[a]
  <2> HIDE DEF q
  <2>1. \/ attempts' = Expire(attempts)
        \/ a \in Live(Expire(attempts)) /\ attempts' = [Expire(attempts) EXCEPT ![a] = q]
    BY <1>1
  <2>2. QED BY <2>1, ReplacingAges
<1> HIDE DEF reg
<1>4. CASE taken
  <2>1. attempts'[a] = q
    BY <1>1, <1>2, <1>4
  <2>2. QED BY <1>1, <1>3, <1>4, <2>1
<1>5. CASE ~taken
  <2>1. \A b \in Attempts \ {a} : b \in refused' => b \in refused
    BY <1>1
  <2>2. QED BY <1>3, <1>5, <2>1
<1>6. QED BY <1>4, <1>5

\* A begin ages the others, or makes room by one; its own entry is new, or there is none.
LEMMA BeginIs ==
  ASSUME RegistryAssumption, RegistryTyped, NEW a \in Attempts, Begin(a)
  PROVE  /\ \A b \in Attempts \ {a} : Aged(attempts[b], attempts'[b])
         /\ attempts'[a] \in {Begun, Absent} /\ refused' = refused
<1> DEFINE reg == Expire(attempts)
<1>1. reg \in [Attempts -> Entries \cup {Absent}]
  BY ExpireKeeps
<1>2. \A b \in Attempts : Aged(attempts[b], reg[b])
  BY ExpireAges
<1>3. /\ reg[a] = Absent /\ refused' = refused
      /\ \/ attempts' = reg
         \/ \E room \in Rooms(reg) : attempts' = [room EXCEPT ![a] = Begun]
  BY DEF Begin
<1> HIDE DEF reg
<1>4. CASE attempts' = reg
  BY <1>2, <1>3, <1>4
<1>5. CASE \E room \in Rooms(reg) : attempts' = [room EXCEPT ![a] = Begun]
  <2>1. PICK room \in Rooms(reg) : attempts' = [room EXCEPT ![a] = Begun]
    BY <1>5
  <2>2. room = reg \/ \E e \in Evictable(reg) : room = [reg EXCEPT ![e] = Absent]
    BY DEF Rooms
  <2>3. DOMAIN room = Attempts /\ \A b \in Attempts : room[b] \in {reg[b], Absent}
    BY <1>1, <2>2
  <2>4. attempts'[a] = Begun /\ \A b \in Attempts \ {a} : attempts'[b] = room[b]
    BY <2>1, <2>3
  <2>5. \A b \in Attempts \ {a} : Aged(attempts[b], attempts'[b])
    BY <1>2, <2>3, <2>4 DEF Aged
  <2>6. QED BY <1>3, <2>4, <2>5
<1>6. QED BY <1>3, <1>4, <1>5

-----------------------------------------------------------------------------
(* What the calls of a collection show *)

\* A measurement the registry takes after the last one of the harness.
Legit(a, h, c) ==
  ValidCapture(c) /\ c.phase # "none" /\ (event[a][h] # Blank => Follows(event[a][h], c))

\* A measurement that ends is not active (validCapture).
LEMMA ValidRests ==
  ASSUME NEW c, ValidCapture(c), c.phase \in CaptureTerminal
  PROVE  c.active = 0
<1>1. PhaseFits(c)
  BY DEF ValidCapture
<1>2. QED BY <1>1 DEF PhaseFits, CaptureTerminal

\* An entry that is live and in step with its collection.
LEMMA LiveIsShown ==
  ASSUME NEW a \in Attempts, Running(a)', attempts'[a].stage \notin Terminal, attempts'[a].error # "publisher_lost",
         attempts'[a].batches <= state'[a].batches, attempts'[a].harnesses = state'[a].harnesses,
         \A h \in Harnesses : attempts'[a].captures[h] = IF event'[a][h] = Blank THEN Absent ELSE event'[a][h],
         Rests(attempts[a])', a \notin refused'
  PROVE  Shown(a)'
<1>1. attempts'[a].stage # "accepted"
  BY DEF Terminal
<1>2. Outcome(a, attempts[a])'
  BY <1>1 DEF Outcome
<1>3. InStepWith(a, attempts[a])'
  BY DEF InStepWith
<1>4. step'[a] # "idle"
  BY DEF Running
<1>5. QED BY <1>2, <1>3, <1>4 DEF Shown

\* captureReporter.update: what is shown stays what was told, also when it was lost.
LEMMA MeasureIsShown ==
  ASSUME RegistryAssumption, ProgressInv, NEW a \in Attempts, NEW h \in Harnesses, NEW c \in Measurements,
         Shown(a), Running(a), Measure(a, h, c), Legit(a, h, c), state'[a] = state[a], Running(a)'
  PROVE  Shown(a)'
<1> DEFINE r == attempts[a]
           q == attempts'[a]
<1>0. RegistryTyped /\ UpdateCapture(a, h, c) /\ step'[a] # "idle" /\ step'[a] # "done"
  BY DEF ProgressInv, ProgressTyped, Measure, Running
<1>1. event'[a] = [event[a] EXCEPT ![h] = c] /\ event[a] \in [Harnesses -> Measurements]
  <2> HIDE DEF Measurements
  <2>1. QED BY DEF Measure, ProgressInv, ProgressTyped, CollectionTyped
<1>2. CASE Aged(r, q) /\ EndedOrGone(q)
  BY <1>0, <1>2, LostIsShown
<1>3. CASE r \in Entries /\ r.stage \notin Terminal
  <2>0. r # Absent
    BY <1>3 DEF RegistryAssumption
  <2>1. InStepWith(a, r) /\ Rests(r) /\ (a \in refused => r.error = "publisher_lost")
    BY <1>3, <2>0 DEF Shown
  <2>2. CASE q = [r EXCEPT !.captures[h] = c] /\ (a \in refused' => a \in refused)
    <3> DEFINE k == [r.captures EXCEPT ![h] = c]
               cs == [Harnesses -> Measurements \cup {Absent}]
    <3>1. r.captures \in cs
      <4> HIDE DEF cs
      <4>1. QED BY <1>3 DEF Entries, cs
    <3>2. k \in cs /\ k[h] = c /\ \A g \in Harnesses \ {h} : k[g] = r.captures[g]
      <4> HIDE DEF Measurements
      <4>1. QED BY <3>1
    <3> HIDE DEF k, cs, r, q
    <3>3. q = [r EXCEPT !.captures = k]
      BY <1>3, <2>2 DEF Entries, k
    <3>4. /\ q.stage = r.stage /\ q.error = r.error /\ q.batches = r.batches /\ q.harnesses = r.harnesses
          /\ q.captures = k
      BY <1>3, <3>3 DEF Entries
    <3>5. Rests(attempts[a])'
      <4>1. c.phase \in CaptureTerminal => c.active = 0
        BY ValidRests DEF Legit
      <4>2. \A g \in Harnesses : k[g] # Absent /\ k[g].phase \in CaptureTerminal => k[g].active = 0
        BY <2>1, <3>2, <4>1 DEF Rests
      <4>3. q.captures = k
        BY <3>4
      <4>4. QED BY <4>2, <4>3 DEF Rests, q
    <3>6. \A g \in Harnesses : q.captures[g] = IF event'[a][g] = Blank THEN Absent ELSE event'[a][g]
      <4>1. c # Blank
        BY DEF Legit, Blank
      <4>2. \A g \in Harnesses : event'[a][g] = IF g = h THEN c ELSE event[a][g]
        <5> HIDE DEF Measurements
        <5>1. QED BY <1>1
      <4>3. \A g \in Harnesses : r.captures[g] = IF event[a][g] = Blank THEN Absent ELSE event[a][g]
        BY <2>1 DEF InStepWith
      <4>4. q.captures[h] = IF event'[a][h] = Blank THEN Absent ELSE event'[a][h]
        BY <3>2, <3>4, <4>1, <4>2
      <4>5. ASSUME NEW g \in Harnesses \ {h}
            PROVE  q.captures[g] = IF event'[a][g] = Blank THEN Absent ELSE event'[a][g]
        BY <3>2, <3>4, <4>2, <4>3
      <4>6. QED BY <4>4, <4>5
    <3>7. /\ q.stage \notin Terminal /\ q.error # "publisher_lost" /\ q.batches <= state'[a].batches
          /\ q.harnesses = state'[a].harnesses
      BY <1>3, <2>1, <3>4 DEF InStepWith
    <3>8. a \notin refused'
      BY <2>1, <2>2 DEF InStepWith
    <3>9. QED BY <3>5, <3>6, <3>7, <3>8, LiveIsShown DEF q
  <2>3. ValidCapture(c) /\ (r.captures[h] # Absent => Follows(r.captures[h], c))
    <3>1. r.captures[h] = IF event[a][h] = Blank THEN Absent ELSE event[a][h]
      BY <2>1 DEF InStepWith
    <3>2. ValidCapture(c) /\ (event[a][h] # Blank => Follows(event[a][h], c))
      BY DEF Legit
    <3>3. CASE event[a][h] = Blank
      BY <3>1, <3>2, <3>3
    <3>4. CASE event[a][h] # Blank
      <4>1. r.captures[h] = event[a][h]
        BY <3>1, <3>4
      <4>2. QED BY <3>2, <3>4, <4>1
    <3>5. QED BY <3>3, <3>4
  <2>4. \/ q = [r EXCEPT !.captures[h] = c] /\ (a \in refused' => a \in refused)
        \/ Aged(r, q) /\ EndedOrGone(q)
    BY <1>0, <2>3, UpdateCaptureIs
  <2>5. QED BY <1>2, <2>2, <2>4
<1>4. (Aged(r, q) /\ EndedOrGone(q)) \/ (r \in Entries /\ r.stage \notin Terminal)
  BY <1>0, UpdateCaptureIs
<1>5. QED BY <1>2, <1>3, <1>4

\* A message that is taken replaces what is shown, but for the measurements.
LEMMA AppliedUpdate ==
  ASSUME NEW r \in Entries, NEW m \in States, m.op = "update", RegistryTyped, RegistryAssumption
  PROVE  LET q == Applied(r, m) IN
         /\ q.stage = m.stage /\ q.error = m.error /\ q.harnesses = m.harnesses /\ q.batches = m.batches
         /\ q.captures = r.captures
<1> DEFINE hs == [Harnesses -> Statuses]
           cs == [Harnesses -> Measurements \cup {Absent}]
<1>1. Entries = [stage : Stages, error : Errors, harnesses : hs, batches : Nat,
                 expires : Nat, finished : Nat, captures : cs]
  BY DEF Entries
<1> HIDE DEF hs, cs
<1>2. Applied(r, m) = [Renewed(r) EXCEPT !.stage = m.stage, !.error = m.error,
                                         !.harnesses = m.harnesses, !.batches = m.batches]
  BY DEF Applied
<1>3. now + LeaseDuration \in Nat
  BY DEF RegistryTyped, RegistryAssumption
<1>4. Renewed(r) \in Entries /\ Renewed(r).captures = r.captures
  BY <1>1, <1>3 DEF Renewed
<1> DEFINE u == Renewed(r)
<1> HIDE DEF u
<1>5. QED BY <1>1, <1>2, <1>4 DEF u

\* What an observer's state says; an update of it is valid (Observer.state, validMessage).
LEMMA StateFields ==
  ASSUME CollectionTyped, NEW a \in Attempts, NEW m \in States
  PROVE  /\ m.stage \in {"waiting", "capturing", "submitting"} /\ m.error # "publisher_lost"
         /\ m.batches \in Nat /\ state[a] \in States /\ state[a].batches \in Nat
         /\ m.op = "update" => ValidMessage(m)
<1>1. /\ m.stage \in {"waiting", "capturing", "submitting"} /\ m.error = ""
      /\ m.batches \in Nat /\ state[a] \in States /\ state[a].batches \in Nat
  BY DEF CollectionTyped, States
<1>2. m.error # "publisher_lost"
  BY <1>1
<1>3. m.op = "update" => ValidMessage(m)
  BY <1>1 DEF ValidMessage
<1>4. QED BY <1>1, <1>2, <1>3

\* A message whose batches do not fall behind is what is shown, and what was told.
LEMMA TellIsShown ==
  ASSUME RegistryAssumption, ProgressInv, NEW a \in Attempts, NEW m \in States,
         Shown(a), Running(a), Tell(a, m), m.op = "update", m.batches >= state[a].batches,
         event'[a] = event[a], Running(a)'
  PROVE  Shown(a)'
<1> DEFINE r == attempts[a]
           q == attempts'[a]
<1>0. /\ RegistryTyped /\ CollectionTyped /\ Apply(a, m) /\ step'[a] # "idle" /\ step'[a] # "done"
      /\ state'[a] = m
  BY DEF ProgressInv, ProgressTyped, CollectionTyped, Tell, Running
<1>1. CASE Aged(r, q) /\ EndedOrGone(q)
  BY <1>0, <1>1, LostIsShown
<1>2. CASE r \in Entries /\ r.stage \notin Terminal
  <2>0. r # Absent
    BY <1>2 DEF RegistryAssumption
  <2>1. InStepWith(a, r) /\ Rests(r) /\ (a \in refused => r.error = "publisher_lost")
    BY <1>2, <2>0 DEF Shown
  <2>2. /\ m.stage \in {"waiting", "capturing", "submitting"} /\ m.error # "publisher_lost" /\ m.batches \in Nat
        /\ state[a].batches \in Nat /\ ValidMessage(m)
    BY <1>0, StateFields
  <2>3. r.batches \in Nat
    <3> HIDE DEF r
    <3>1. QED BY <1>2 DEF Entries
  <2>4. ValidMessage(m) /\ ~Regresses(r, m)
    BY <2>1, <2>2, <2>3 DEF Regresses, InStepWith
  <2>5. CASE q = Applied(r, m) /\ (a \in refused' => a \in refused)
    <3>1. /\ q.stage = m.stage /\ q.error = m.error /\ q.harnesses = m.harnesses /\ q.batches = m.batches
          /\ q.captures = r.captures
      BY <1>0, <1>2, <2>5, AppliedUpdate
    <3>2. a \notin refused'
      BY <2>1, <2>5 DEF InStepWith
    <3>3. q.stage \notin Terminal
      BY <2>2, <3>1 DEF Terminal
    <3>4. Rests(attempts[a])'
      BY <2>1, <3>1 DEF Rests
    <3>5. \A g \in Harnesses : q.captures[g] = IF event'[a][g] = Blank THEN Absent ELSE event'[a][g]
      <4>1. event'[a] = event[a]
        OBVIOUS
      <4>2. QED BY <2>1, <3>1, <4>1 DEF InStepWith
    <3>6. QED BY <1>0, <2>2, <3>1, <3>2, <3>3, <3>4, <3>5, LiveIsShown
  <2>6. \/ q = Applied(r, m) /\ (a \in refused' => a \in refused)
        \/ Aged(r, q) /\ EndedOrGone(q)
    BY <1>0, <2>4, ApplyIs
  <2>7. QED BY <1>1, <2>5, <2>6
<1>3. (Aged(r, q) /\ EndedOrGone(q)) \/ (r \in Entries /\ r.stage \notin Terminal)
  BY <1>0, ApplyIs
<1>4. QED BY <1>1, <1>2, <1>3

-----------------------------------------------------------------------------
(* The places of sources, counted *)

\* The sources of a harness are finitely many, those done and those being read are
\* others, and while one is not done, not all are.
LEMMA TallyFits ==
  ASSUME NEW js \in Seq(Harnesses), NEW ps, NEW h
  PROVE  /\ IsFiniteSet(Of(js, h)) /\ Cardinality(Of(js, h)) \in Nat
         /\ \A p \in Places : On(js, ps, h, p) \subseteq Of(js, h) /\ IsFiniteSet(On(js, ps, h, p))
                              /\ Cardinality(On(js, ps, h, p)) \in Nat
         /\ Cardinality(On(js, ps, h, "done")) + Cardinality(On(js, ps, h, "reading")) <= Cardinality(Of(js, h))
         /\ \A j \in Of(js, h) : ps[j] \notin {"done", "reading"} =>
              Cardinality(On(js, ps, h, "done")) + Cardinality(On(js, ps, h, "reading")) < Cardinality(Of(js, h))
         /\ \A j \in Of(js, h) : ps[j] # "done" =>
              Cardinality(On(js, ps, h, "done")) < Cardinality(Of(js, h))
         /\ Of(js, h) = {} => Cardinality(Of(js, h)) = 0
<1> DEFINE all == Of(js, h)
           done == On(js, ps, h, "done")
           reading == On(js, ps, h, "reading")
<1>1. IsFiniteSet(all) /\ Cardinality(all) \in Nat
  <2>1. IsFiniteSet(DOMAIN js)
    <3>1. Len(js) \in Nat /\ DOMAIN js = 1..Len(js)
      OBVIOUS
    <3>2. QED BY <3>1, FS_Interval
  <2>2. all \in SUBSET (DOMAIN js)
    BY DEF Of
  <2>3. QED BY <2>1, <2>2, FS_Subset, FS_CardinalityType
<1>2. ASSUME NEW p \in Places
      PROVE  On(js, ps, h, p) \subseteq all /\ IsFiniteSet(On(js, ps, h, p)) /\ Cardinality(On(js, ps, h, p)) \in Nat
  <2>1. On(js, ps, h, p) \in SUBSET all
    BY DEF On
  <2>2. QED BY <1>1, <2>1, FS_Subset, FS_CardinalityType
<1>3. /\ done \in SUBSET all /\ IsFiniteSet(done) /\ Cardinality(done) \in Nat
      /\ reading \in SUBSET all /\ IsFiniteSet(reading) /\ Cardinality(reading) \in Nat
  BY <1>2 DEF Places
<1>4. done \cap reading = {}
  BY DEF On
<1> DEFINE both == done \cup reading
<1>5. both \in SUBSET all /\ IsFiniteSet(both) /\ Cardinality(both) = Cardinality(done) + Cardinality(reading)
  <2>1. Cardinality(done \cap reading) = 0
    BY <1>4, FS_EmptySet
  <2> HIDE DEF done, reading
  <2>2. Cardinality(both) = Cardinality(done) + Cardinality(reading) - Cardinality(done \cap reading)
        /\ IsFiniteSet(both)
    BY <1>3, FS_Union
  <2>3. QED BY <1>3, <2>1, <2>2
<1>6. Cardinality(both) <= Cardinality(all)
  <2> HIDE DEF both, all
  <2>1. QED BY <1>1, <1>5, FS_Subset
<1>7. ASSUME NEW j \in all, NEW S \in SUBSET all, j \notin S
      PROVE  Cardinality(S) < Cardinality(all)
  <2> HIDE DEF all
  <2>1. Cardinality(S) <= Cardinality(all) /\ IsFiniteSet(S) /\ (Cardinality(all) = Cardinality(S) => all = S)
    BY <1>1, FS_Subset
  <2>2. Cardinality(S) \in Nat
    BY <2>1, FS_CardinalityType
  <2>3. QED BY <1>1, <1>7, <2>1, <2>2
<1>8. ASSUME NEW j \in all, ps[j] \notin {"done", "reading"}
      PROVE  Cardinality(both) < Cardinality(all)
  <2>1. j \notin both
    BY <1>8 DEF On
  <2> HIDE DEF both, all
  <2>2. QED BY <1>5, <1>7, <2>1
<1>9. ASSUME NEW j \in all, ps[j] # "done"
      PROVE  Cardinality(done) < Cardinality(all)
  <2>1. j \notin done
    BY <1>9 DEF On
  <2> HIDE DEF done, all
  <2>2. QED BY <1>3, <1>7, <2>1
<1>10. all = {} => Cardinality(all) = 0
  BY FS_EmptySet
<1> HIDE DEF all, done, reading, both
<1>11. QED BY <1>1, <1>2, <1>5, <1>6, <1>8, <1>9, <1>10 DEF all, done, reading

\* All sources of a harness done are all its sources, and none being read is zero.
LEMMA TallyOfAll ==
  ASSUME NEW js \in Seq(Harnesses), NEW ps, NEW h
  PROVE  /\ (\A j \in Of(js, h) : ps[j] = "done") => On(js, ps, h, "done") = Of(js, h)
         /\ \A p \in Places : (\A j \in Of(js, h) : ps[j] # p) => Cardinality(On(js, ps, h, p)) = 0
<1>1. (\A j \in Of(js, h) : ps[j] = "done") => On(js, ps, h, "done") = Of(js, h)
  BY DEF On
<1>2. ASSUME NEW p \in Places, \A j \in Of(js, h) : ps[j] # p
      PROVE  Cardinality(On(js, ps, h, p)) = 0
  <2>1. On(js, ps, h, p) = {}
    BY <1>2 DEF On
  <2>2. QED BY <2>1, FS_EmptySet
<1>3. QED BY <1>1, <1>2

\* A source that moves is counted where it goes, and no longer where it was.
Moved(ps, j, p) == [ps EXCEPT ![j] = p]

MoveCounts(js, ps, j, p, h, s) ==
  /\ h = js[j] /\ s = p =>
       Cardinality(On(js, Moved(ps, j, p), h, s)) = Cardinality(On(js, ps, h, s)) + 1
  /\ h = js[j] /\ s = ps[j] =>
       Cardinality(On(js, Moved(ps, j, p), h, s)) = Cardinality(On(js, ps, h, s)) - 1
  /\ h # js[j] \/ s \notin {p, ps[j]} => On(js, Moved(ps, j, p), h, s) = On(js, ps, h, s)

\* And the others where they were.
LEMMA MoveTally ==
  ASSUME NEW js \in Seq(Harnesses), NEW ps \in Seq(Places), Len(js) = Len(ps),
         NEW j \in DOMAIN ps, NEW p \in Places, ps[j] # p, NEW h, NEW s \in Places
  PROVE  MoveCounts(js, ps, j, p, h, s)
<1> DEFINE qs == Moved(ps, j, p)
           S == On(js, ps, h, s)
           T == On(js, qs, h, s)
<1>1. DOMAIN ps = DOMAIN js /\ qs[j] = p /\ \A i \in DOMAIN ps \ {j} : qs[i] = ps[i]
  BY DEF Moved
<1>2. IsFiniteSet(S) /\ Cardinality(S) \in Nat
  BY TallyFits
<1>3. h = js[j] /\ s = p => T = S \cup {j} /\ j \notin S
  BY <1>1 DEF On, Of
<1>4. h = js[j] /\ s = ps[j] => T = S \ {j} /\ j \in S
  BY <1>1 DEF On, Of
<1>5. h # js[j] \/ s \notin {p, ps[j]} => T = S
  BY <1>1 DEF On, Of
<1> HIDE DEF S, T
<1>6. h = js[j] /\ s = p => Cardinality(T) = Cardinality(S) + 1
  BY <1>2, <1>3, FS_AddElement
<1>7. h = js[j] /\ s = ps[j] => Cardinality(T) = Cardinality(S) - 1
  BY <1>2, <1>4, FS_RemoveElement
<1>8. QED BY <1>5, <1>6, <1>7 DEF MoveCounts, S, T

\* What is given out was held.
LEMMA IssueMoves ==
  ASSUME NEW a, NEW ps \in Seq(Places), NEW j \in DOMAIN ps
  PROVE  /\ DOMAIN Issue(a, ps) = DOMAIN ps
         /\ ps[j] # "held" => Issue(a, ps)[j] = ps[j]
         /\ Issue(a, ps)[j] \in {ps[j], "queued"}
BY DEF Issue

\* Giving out changes no count of those on their way or done.
LEMMA IssueTally ==
  ASSUME NEW a, NEW js \in Seq(Harnesses), NEW ps \in Seq(Places), Len(js) = Len(ps), NEW h,
         NEW s \in Places \ {"held", "queued"}
  PROVE  On(js, Issue(a, ps), h, s) = On(js, ps, h, s)
<1>1. DOMAIN js = DOMAIN ps
  OBVIOUS
<1>2. \A j \in DOMAIN ps : Issue(a, ps)[j] = s <=> ps[j] = s
  BY IssueMoves
<1>3. QED BY <1>1, <1>2 DEF On, Of

\* A set of naturals has a least one.
LEMMA LeastOf ==
  ASSUME NEW S \in SUBSET Nat, S # {}
  PROVE  \E m \in S : \A k \in S : ~(k < m)
<1>1. PICK m \in S : \A k \in S : ~(<<k, m>> \in OpToRel(<, Nat))
  BY NatLessThanWellFounded, WFMin
<1>2. \A k \in S : k < m => <<k, m>> \in OpToRel(<, Nat)
  BY DEF OpToRel
<1>3. QED BY <1>1, <1>2

\* Sources stay held only behind others on their way (the job slots).
LEMMA IssueGivesOut ==
  ASSUME ProgressAssumption, NEW a, NEW ps \in Seq(Places), NEW i \in DOMAIN ps, Issue(a, ps)[i] = "held"
  PROVE  \E j \in DOMAIN ps : Issue(a, ps)[j] \notin {"held", "done"}
<1> DEFINE busy == {j \in DOMAIN ps : ps[j] \notin {"held", "done"}}
           held == {j \in DOMAIN ps : ps[j] = "held"}
           first(j) == {k \in held : k < j}
           taken == Cardinality(busy)
<1>1. CASE busy # {}
  <2>1. PICK j \in DOMAIN ps : ps[j] \notin {"held", "done"}
    BY <1>1
  <2>2. Issue(a, ps)[j] = ps[j]
    BY <2>1, IssueMoves
  <2>3. QED BY <2>1, <2>2
<1>2. CASE busy = {}
  <2>1. i \in held
    BY IssueMoves
  <2>2. held \in SUBSET Nat
    OBVIOUS
  <2> HIDE DEF held
  <2>3. PICK m \in held : \A k \in held : ~(k < m)
    BY <2>1, <2>2, LeastOf
  <2>4. first(m) = {}
    BY <2>3
  <2>5. Cardinality(first(m)) = 0 /\ taken = 0
    BY <1>2, <2>4, FS_EmptySet
  <2>6. Cardinality(first(m)) < Workers - taken
    BY <2>5 DEF ProgressAssumption
  <2>7. m \in DOMAIN ps
    BY DEF held
  <2>8. Issue(a, ps) = [j \in DOMAIN ps |-> IF j \in held /\ Cardinality(first(j)) < Workers - taken THEN "queued" ELSE ps[j]]
    BY DEF Issue, held
  <2> HIDE DEF first, taken
  <2>9. Issue(a, ps)[m] = "queued"
    BY <2>3, <2>6, <2>7, <2>8
  <2>10. QED BY <2>7, <2>9
<1>3. QED BY <1>1, <1>2

\* Places of sources that were just found.
HeldOf(n) == [i \in 1..n |-> "held"]

\* The sources a harness is found to have, behind those of others.
Appends(js, ps, h, n) ==
  LET ks == js \o Sources(h, n)
      qs == ps \o HeldOf(n)
  IN /\ ks \in Seq(Harnesses) /\ qs \in Seq(Places) /\ Len(ks) = Len(qs)
     /\ Cardinality(Of(ks, h)) = n
     /\ \A g \in Harnesses \ {h} : Of(ks, g) = Of(js, g) /\ \A s \in Places : On(ks, qs, g, s) = On(js, ps, g, s)
     /\ (\A j \in DOMAIN ps : ps[j] = "held") => \A j \in DOMAIN qs : qs[j] = "held"

\* They count for it, and nothing changes for the others.
LEMMA AppendTally ==
  ASSUME NEW js \in Seq(Harnesses), NEW ps \in Seq(Places), Len(js) = Len(ps),
         NEW h \in Harnesses, Of(js, h) = {}, NEW n \in Nat
  PROVE  Appends(js, ps, h, n)
<1> DEFINE more == HeldOf(n)
           ks == js \o Sources(h, n)
           qs == ps \o more
           m == Len(js)
<1>1. Sources(h, n) \in Seq(Harnesses) /\ Len(Sources(h, n)) = n /\ \A i \in 1..n : Sources(h, n)[i] = h
  BY DEF Sources
<1>2. more \in Seq(Places) /\ Len(more) = n /\ \A i \in 1..n : more[i] = "held"
  <2>1. "held" \in Places
    BY DEF Places
  <2>2. QED BY <2>1 DEF HeldOf
<1> HIDE DEF more
<1>3. m \in Nat /\ DOMAIN js = 1..m /\ DOMAIN ps = 1..m
  OBVIOUS
<1>4. /\ ks \in Seq(Harnesses) /\ Len(ks) = m + n
      /\ \A j \in 1..m : ks[j] = js[j]
      /\ \A j \in (m + 1)..(m + n) : ks[j] = h
  <2> DEFINE t == Sources(h, n)
  <2> HIDE DEF t
  <2>1. t \in Seq(Harnesses) /\ Len(t) = n /\ \A i \in 1..n : t[i] = h
    BY <1>1 DEF t
  <2>2. js \o t \in Seq(Harnesses) /\ Len(js \o t) = m + n
    BY <2>1
  <2>3. \A j \in 1..m : (js \o t)[j] = js[j]
    BY <2>1
  <2>4. ASSUME NEW j \in (m + 1)..(m + n) PROVE (js \o t)[j] = h
    <3>1. j - m \in 1..n /\ j \in Nat /\ j > m /\ j <= m + n
      BY <1>3
    <3>2. (js \o t)[j] = t[j - m]
      BY <2>1, <3>1
    <3>3. QED BY <2>1, <3>1, <3>2
  <2>5. QED BY <2>2, <2>3, <2>4 DEF t
<1>5. /\ qs \in Seq(Places) /\ Len(qs) = m + n
      /\ \A j \in 1..m : qs[j] = ps[j]
      /\ \A j \in (m + 1)..(m + n) : qs[j] = "held"
  <2>1. qs \in Seq(Places) /\ Len(qs) = m + n
    BY <1>2
  <2>2. \A j \in 1..m : qs[j] = ps[j]
    BY <1>2
  <2>3. ASSUME NEW j \in (m + 1)..(m + n) PROVE qs[j] = "held"
    <3>1. j - m \in 1..n /\ j \in Nat /\ j > m /\ j <= m + n
      BY <1>3
    <3>2. qs[j] = more[j - m]
      BY <1>2, <3>1
    <3>3. QED BY <1>2, <3>1, <3>2
  <2>4. QED BY <2>1, <2>2, <2>3
<1> HIDE DEF ks, qs, m
<1>6. DOMAIN ks = 1..(m + n) /\ DOMAIN qs = 1..(m + n)
  BY <1>4, <1>5
<1>7. \A j \in 1..(m + n) : j \in 1..m \/ j \in (m + 1)..(m + n)
  BY <1>3
<1>8. Of(ks, h) = (m + 1)..(m + n)
  <2>1. \A j \in 1..m : js[j] # h
    BY <1>3 DEF Of
  <2>2. (m + 1)..(m + n) \subseteq 1..(m + n)
    BY <1>3
  <2>3. QED BY <1>4, <1>6, <1>7, <2>1, <2>2 DEF Of
<1>9. Cardinality(Of(ks, h)) = n
  <2>1. m + 1 \in Int /\ m + n \in Int
    BY <1>3
  <2>2. Cardinality((m + 1)..(m + n)) = IF m + 1 > m + n THEN 0 ELSE (m + n) - (m + 1) + 1
    BY <2>1, FS_Interval
  <2>3. QED BY <1>3, <1>8, <2>2
<1>10. ASSUME NEW g \in Harnesses \ {h}
       PROVE  Of(ks, g) = Of(js, g) /\ \A s \in Places : On(ks, qs, g, s) = On(js, ps, g, s)
  <2>1. 1..m \subseteq 1..(m + n)
    BY <1>3
  <2>2. Of(ks, g) = Of(js, g) /\ Of(js, g) \subseteq 1..m
    BY <1>3, <1>4, <1>6, <1>7, <2>1 DEF Of
  <2>3. QED BY <1>5, <2>2 DEF On
<1>11. (\A j \in DOMAIN ps : ps[j] = "held") => \A j \in DOMAIN qs : qs[j] = "held"
  BY <1>3, <1>5, <1>6, <1>7
<1>12. QED BY <1>4, <1>5, <1>9, <1>10, <1>11 DEF Appends, ks, qs, more

-----------------------------------------------------------------------------
(* The measurements a reporter makes *)

\* The fields of a measurement.
LEMMA MeasurementHas ==
  ASSUME NEW c \in Measurements
  PROVE  /\ c.phase \in Phases /\ c.known \in BOOLEAN /\ c.total \in Nat /\ c.checked \in Nat /\ c.active \in Int
         /\ \A o \in Outcomes : c.count[o] \in Nat
         /\ \A p : [c EXCEPT !.phase = p].phase = p
         /\ \A p : LET d == [c EXCEPT !.phase = p] IN
              /\ d.known = c.known /\ d.total = c.total /\ d.checked = c.checked
              /\ d.active = c.active /\ d.count = c.count
<1> DEFINE counts == [Outcomes -> Nat]
<1>1. Measurements =
        [phase : Phases, known : BOOLEAN, total : Nat, checked : Nat, active : Int, count : counts]
  BY DEF Measurements
<1> HIDE DEF counts
<1>2. c.count \in counts
  BY <1>1
<1>3. \A o \in Outcomes : c.count[o] \in Nat
  BY <1>2 DEF counts
<1>4. QED BY <1>1, <1>3

\* The phase is worked out of the counts alone (captureWorkPhase).
WorkPhase(c, sav) ==
  IF sav THEN "saving" ELSE IF c.active > 0 THEN "reading"
  ELSE IF c.active = 0 /\ c.checked < c.total THEN "waiting"
  ELSE IF c.count["failed"] + c.count["quarantined"] > 0 THEN "failed" ELSE "complete"

\* The measurement a worker or the writer works out changes its phase alone.
LEMMA WorkPhaseIs ==
  ASSUME NEW c \in Measurements, NEW sav \in BOOLEAN
  PROVE  LET d == CaptureWorkPhase(c, sav) IN
         /\ d = [c EXCEPT !.phase = WorkPhase(c, sav)] /\ d.phase = WorkPhase(c, sav)
         /\ d.known = c.known /\ d.total = c.total /\ d.checked = c.checked
         /\ d.active = c.active /\ d.count = c.count
<1> DEFINE p == CASE sav -> "saving"
                  [] ~sav /\ c.active > 0 -> "reading"
                  [] ~sav /\ c.active = 0 /\ c.checked < c.total -> "waiting"
                  [] OTHER -> IF c.count["failed"] + c.count["quarantined"] > 0 THEN "failed" ELSE "complete"
<1>1. CaptureWorkPhase(c, sav) = [c EXCEPT !.phase = p]
  BY DEF CaptureWorkPhase
<1>2. p = WorkPhase(c, sav)
  BY DEF WorkPhase
<1> HIDE DEF p
<1>3. QED BY <1>1, <1>2, MeasurementHas

\* A harness is through only when nothing is read or saved and all is checked.
LEMMA ThroughMeans ==
  ASSUME NEW c \in Measurements, NEW sav \in BOOLEAN, c.active \in Nat, c.checked <= c.total
  PROVE  /\ WorkPhase(c, sav) # "none"
         /\ WorkPhase(c, sav) \in CaptureTerminal <=> ~sav /\ c.active = 0 /\ c.checked = c.total
         /\ ~sav /\ c.active = 0 /\ c.checked = c.total =>
              WorkPhase(c, sav) = IF c.count["failed"] + c.count["quarantined"] > 0 THEN "failed" ELSE "complete"
<1>1. c.checked \in Nat /\ c.total \in Nat
  BY MeasurementHas
<1>2. QED BY <1>1 DEF WorkPhase, CaptureTerminal

\* Counts that add up make a valid measurement, whatever the phase they give.
LEMMA WorkIsValid ==
  ASSUME NEW c \in Measurements, NEW sav \in BOOLEAN, c.known, c.checked = Sum(c.count),
         c.active \in Nat, c.checked + c.active <= c.total
  PROVE  ValidCapture(CaptureWorkPhase(c, sav))
<1> DEFINE d == CaptureWorkPhase(c, sav)
<1>1. /\ d.phase = WorkPhase(c, sav)
      /\ d.known = c.known /\ d.total = c.total /\ d.checked = c.checked
      /\ d.active = c.active /\ d.count = c.count
  BY WorkPhaseIs
<1>2. /\ c.checked \in Nat /\ c.total \in Nat /\ c.count["failed"] \in Nat /\ c.count["quarantined"] \in Nat
  BY MeasurementHas DEF Outcomes
<1> HIDE DEF d
<1>3. PhaseFits(d)
  BY <1>1, <1>2 DEF PhaseFits, WorkPhase
<1>4. d.checked = Sum(d.count)
  BY <1>1
<1>5. ValidCapture(d)
  BY <1>1, <1>2, <1>3, <1>4 DEF ValidCapture
<1>6. QED BY <1>5 DEF d

\* While a source is not done, its harness is not through.
LEMMA NotThrough ==
  ASSUME NEW c \in Measurements, NEW sav \in BOOLEAN, NEW js \in Seq(Harnesses), NEW ps, NEW h,
         Tallied(c, sav, js, ps, h), NEW j \in Of(js, h), ps[j] # "done"
  PROVE  c.phase \notin CaptureTerminal /\ c.checked < c.total
<1>1. c.checked < c.total /\ c.active \in Nat
  BY TallyFits DEF Tallied, Places
<1>2. c.phase = WorkPhase(c, sav)
  BY WorkPhaseIs DEF Tallied
<1>3. c.checked \in Nat /\ c.total \in Nat
  BY MeasurementHas
<1>4. QED BY <1>1, <1>2, <1>3, ThroughMeans

\* What a worker or the writer measures next is taken after what it measured before.
LEMMA WorkFollows ==
  ASSUME NEW old \in Measurements, NEW c \in Measurements, NEW sav \in BOOLEAN,
         old.known, old.phase \notin CaptureTerminal, \A o \in Outcomes : old.count[o] <= c.count[o],
         c.known, c.total = old.total, c.checked = Sum(c.count), c.active \in Nat, c.checked + c.active <= c.total
  PROVE  LET d == CaptureWorkPhase(c, sav) IN ValidCapture(d) /\ d.phase # "none" /\ Follows(old, d)
<1> DEFINE d == CaptureWorkPhase(c, sav)
<1>1. /\ d.phase = WorkPhase(c, sav) /\ d.known = c.known /\ d.total = c.total /\ d.count = c.count
  BY WorkPhaseIs
<1>2. ValidCapture(d)
  BY WorkIsValid
<1>3. c.checked <= c.total
  <2>1. c.checked \in Nat /\ c.total \in Nat
    BY MeasurementHas
  <2>2. QED BY <2>1
<1>4. WorkPhase(c, sav) # "none"
  BY <1>3, ThroughMeans
<1> HIDE DEF d
<1>5. Follows(old, d)
  BY <1>1 DEF Follows
<1>6. QED BY <1>1, <1>2, <1>4, <1>5 DEF d

\* Changes of the counts alone: one source more or fewer being read, one more checked.
LEMMA CountedIs ==
  ASSUME NEW c \in Measurements, NEW o \in Outcomes
  PROVE  LET d == Counted(c, o) IN
         /\ d.known = c.known /\ d.total = c.total /\ d.active = c.active /\ d.phase = c.phase
         /\ d.checked = c.checked + 1
         /\ \A x \in Outcomes : d.count[x] = IF x = o THEN c.count[x] + 1 ELSE c.count[x]
         /\ Sum(d.count) = Sum(c.count) + 1
<1> DEFINE counts == [Outcomes -> Nat]
           k == [c.count EXCEPT ![o] = c.count[o] + 1]
<1>1. Measurements =
        [phase : Phases, known : BOOLEAN, total : Nat, checked : Nat, active : Int, count : counts]
  BY DEF Measurements
<1>2. c.count \in counts
  <2> HIDE DEF counts
  <2>1. QED BY <1>1
<1>3. k \in counts /\ \A x \in Outcomes : k[x] = IF x = o THEN c.count[x] + 1 ELSE c.count[x]
  BY <1>2
<1>4. Sum(k) = Sum(c.count) + 1
  <2>1. /\ c.count["captured"] \in Nat /\ c.count["unchanged"] \in Nat
        /\ c.count["failed"] \in Nat /\ c.count["quarantined"] \in Nat
    BY <1>2 DEF Outcomes
  <2>2. /\ k["captured"] = IF "captured" = o THEN c.count["captured"] + 1 ELSE c.count["captured"]
        /\ k["unchanged"] = IF "unchanged" = o THEN c.count["unchanged"] + 1 ELSE c.count["unchanged"]
        /\ k["failed"] = IF "failed" = o THEN c.count["failed"] + 1 ELSE c.count["failed"]
        /\ k["quarantined"] = IF "quarantined" = o THEN c.count["quarantined"] + 1 ELSE c.count["quarantined"]
    BY <1>3 DEF Outcomes
  <2>3. o \in {"captured", "unchanged", "failed", "quarantined"}
    BY DEF Outcomes
  <2> HIDE DEF k
  <2>4. QED BY <2>1, <2>2, <2>3 DEF Sum
<1>5. Counted(c, o) = [c EXCEPT !.checked = c.checked + 1, !.count = k]
  <2> HIDE DEF counts
  <2>1. QED BY <1>1 DEF Counted
<1> HIDE DEF counts, k
<1>6. LET d == Counted(c, o) IN
      /\ d.known = c.known /\ d.total = c.total /\ d.active = c.active /\ d.phase = c.phase
      /\ d.checked = c.checked + 1 /\ d.count = k
  BY <1>1, <1>5
<1>7. QED BY <1>3, <1>4, <1>6

\* One source more or fewer being read changes that count alone.
LEMMA ActiveIs ==
  ASSUME NEW c \in Measurements, NEW n \in Int
  PROVE  LET d == [c EXCEPT !.active = n] IN
         /\ d \in Measurements /\ d.known = c.known /\ d.total = c.total /\ d.active = n
         /\ d.checked = c.checked /\ d.count = c.count
<1> DEFINE counts == [Outcomes -> Nat]
<1>1. Measurements =
        [phase : Phases, known : BOOLEAN, total : Nat, checked : Nat, active : Int, count : counts]
  BY DEF Measurements
<1> HIDE DEF counts
<1>2. QED BY <1>1

-----------------------------------------------------------------------------
(* What the other calls show: heartbeats, beginnings and endings *)

\* Nothing of the registry, and nothing told, changes.
LEMMA StillIsShown ==
  ASSUME NEW a \in Attempts, Shown(a), Running(a), Running(a)', UNCHANGED <<attempts, refused>>,
         state'[a] = state[a], event'[a] = event[a]
  PROVE  Shown(a)'
<1>1. step'[a] # "idle" /\ step[a] # "done"
  BY DEF Running
<1>2. CASE attempts[a] = Absent
  BY <1>1, <1>2 DEF Shown
<1>3. CASE attempts[a] # Absent
  <2>1. /\ Rests(attempts[a]) /\ Outcome(a, attempts[a])
        /\ a \in refused => attempts[a].error = "publisher_lost"
        /\ attempts[a].stage \notin Terminal => InStepWith(a, attempts[a])
    BY <1>3 DEF Shown
  <2>2. Outcome(a, attempts[a])' /\ Rests(attempts[a])'
    BY <1>1, <2>1 DEF Outcome, Rests, AllEnded
  <2>3. attempts'[a].stage \notin Terminal => InStepWith(a, attempts[a])'
    BY <2>1 DEF InStepWith
  <2>4. QED BY <1>1, <2>1, <2>2, <2>3 DEF Shown
<1>4. QED BY <1>2, <1>3

\* A renewed lease changes nothing that is shown.
LEMMA RenewedIs ==
  ASSUME RegistryAssumption, RegistryTyped, NEW r \in Entries
  PROVE  LET q == Renewed(r) IN
         /\ q \in Entries /\ q.stage = r.stage /\ q.error = r.error /\ q.harnesses = r.harnesses
         /\ q.batches = r.batches /\ q.captures = r.captures
<1> DEFINE hs == [Harnesses -> Statuses]
           cs == [Harnesses -> Measurements \cup {Absent}]
<1>1. Entries = [stage : Stages, error : Errors, harnesses : hs, batches : Nat,
                 expires : Nat, finished : Nat, captures : cs]
  BY DEF Entries
<1>2. now + LeaseDuration \in Nat
  BY DEF RegistryTyped, RegistryAssumption
<1> HIDE DEF hs, cs
<1>3. QED BY <1>1, <1>2 DEF Renewed

\* Observer.heartbeat.
LEMMA BeatIsShown ==
  ASSUME RegistryAssumption, ProgressInv, NEW a \in Attempts, Shown(a), Running(a),
         Apply(a, [state[a] EXCEPT !.op = "heartbeat"]),
         step'[a] = step[a], state'[a] = state[a], event'[a] = event[a]
  PROVE  Shown(a)'
<1> DEFINE r == attempts[a]
           q == attempts'[a]
           m == [state[a] EXCEPT !.op = "heartbeat"]
<1>0. RegistryTyped /\ CollectionTyped /\ step'[a] # "idle" /\ Running(a)'
  BY DEF ProgressInv, ProgressTyped, Running
<1>1. m.op = "heartbeat"
  <2>1. state[a] \in States
    BY <1>0 DEF CollectionTyped
  <2>2. QED BY <2>1 DEF States
<1>2. Apply(a, m)
  OBVIOUS
<1> HIDE DEF m
<1>3. CASE Aged(r, q) /\ EndedOrGone(q)
  BY <1>0, <1>3, LostIsShown
<1>4. CASE r \in Entries /\ r.stage \notin Terminal
  <2>0. r # Absent
    BY <1>4 DEF RegistryAssumption
  <2>1. InStepWith(a, r) /\ Rests(r) /\ (a \in refused => r.error = "publisher_lost")
    BY <1>4, <2>0 DEF Shown
  <2>2. ValidMessage(m) /\ ~Regresses(r, m)
    BY <1>1 DEF ValidMessage, Regresses
  <2>3. CASE q = Applied(r, m) /\ (a \in refused' => a \in refused)
    <3>1. q = Renewed(r)
      BY <1>1, <2>3 DEF Applied
    <3>2. /\ q.stage = r.stage /\ q.error = r.error /\ q.harnesses = r.harnesses
          /\ q.batches = r.batches /\ q.captures = r.captures
      BY <1>0, <1>4, <3>1, RenewedIs
    <3>3. Rests(attempts[a])'
      BY <2>1, <3>2 DEF Rests
    <3>4. a \notin refused'
      BY <2>1, <2>3 DEF InStepWith
    <3>5. /\ q.batches <= state'[a].batches /\ q.harnesses = state'[a].harnesses
          /\ \A h \in Harnesses : q.captures[h] = IF event'[a][h] = Blank THEN Absent ELSE event'[a][h]
          /\ q.error # "publisher_lost"
      BY <2>1, <3>2 DEF InStepWith
    <3>6. QED BY <1>0, <1>4, <3>2, <3>3, <3>4, <3>5, LiveIsShown
  <2>4. \/ q = Applied(r, m) /\ (a \in refused' => a \in refused)
        \/ Aged(r, q) /\ EndedOrGone(q)
    BY <1>0, <1>2, <2>2, ApplyIs
  <2>5. QED BY <1>3, <2>3, <2>4
<1>5. (Aged(r, q) /\ EndedOrGone(q)) \/ (r \in Entries /\ r.stage \notin Terminal)
  BY <1>0, <1>2, ApplyIs
<1>6. QED BY <1>3, <1>4, <1>5

\* Runtime.StartCollection: the entry is new, or there is none.
LEMMA StartIsShown ==
  ASSUME RegistryAssumption, ProgressInv, NEW a \in Attempts, Shown(a), Fresh(a), step[a] = "idle", Begin(a),
         step'[a] = IF attempts'[a] # Absent THEN "discovering" ELSE "done",
         state'[a] = state[a], event'[a] = event[a]
  PROVE  Shown(a)'
<1>0. RegistryTyped
  BY DEF ProgressInv, ProgressTyped
<1>1. attempts'[a] \in {Begun, Absent} /\ refused' = refused /\ a \notin refused
  BY <1>0, BeginIs DEF Shown
<1>2. state[a] = FirstState /\ event[a] = NoEvents
  BY DEF Fresh
<1>3. CASE attempts'[a] = Absent
  BY <1>1, <1>3 DEF Shown
<1>4. CASE attempts'[a] # Absent
  <2> DEFINE q == attempts'[a]
  <2>1. q = Begun /\ step'[a] = "discovering"
    BY <1>1, <1>4
  <2>2. /\ q.stage = "waiting" /\ q.error # "publisher_lost" /\ q.harnesses = [h \in Harnesses |-> "none"]
        /\ q.batches = 0 /\ q.captures = [h \in Harnesses |-> Absent]
    <3>1. /\ Begun.stage = "waiting" /\ Begun.error = "" /\ Begun.harnesses = [h \in Harnesses |-> "none"]
          /\ Begun.batches = 0 /\ Begun.captures = [h \in Harnesses |-> Absent]
      BY Zenon DEF Begun
    <3>2. Begun.error # "publisher_lost"
      BY <3>1, Zenon
    <3>3. /\ Begun.stage = "waiting" /\ Begun.harnesses = [h \in Harnesses |-> "none"]
          /\ Begun.batches = 0 /\ Begun.captures = [h \in Harnesses |-> Absent]
      BY <3>1, Zenon
    <3>4. QED BY <2>1, <3>2, <3>3
  <2>3. state'[a].batches = 0 /\ state'[a].harnesses = [h \in Harnesses |-> "none"]
    <3>1. FirstState.batches = 0 /\ FirstState.harnesses = [h \in Harnesses |-> "none"]
      BY Zenon DEF FirstState
    <3>2. QED BY <1>2, <3>1
  <2>4. \A h \in Harnesses : q.captures[h] = Absent
    BY <2>2
  <2>5. \A h \in Harnesses : event'[a][h] = Blank
    BY <1>2 DEF NoEvents
  <2>6. Rests(attempts[a])'
    BY <2>4 DEF Rests
  <2>7. q.stage \notin Terminal /\ q.batches <= state'[a].batches
    BY <2>2, <2>3 DEF Terminal
  <2>8. Running(a)'
    BY <2>1 DEF Running
  <2>9. QED BY <1>1, <2>2, <2>3, <2>4, <2>5, <2>6, <2>7, <2>8, LiveIsShown
<1>5. QED BY <1>3, <1>4

\* How a collection may end.
LEMMA ResultIs ==
  ASSUME CollectionTyped, NEW a \in Attempts, NEW r \in Results(a)
  PROVE  /\ r.stage \in Terminal /\ r.stage \in Stages /\ r.error \in Errors /\ r.error # "publisher_lost"
         /\ r.stage = "accepted" <=> r.error = ""
         /\ r.stage = "accepted" => ~Troubled(a) /\ ~Quarantined(a)
<1> DEFINE e == IF troubled[a] = "" THEN "collection_failed" ELSE troubled[a]
           accepted == [stage |-> "accepted", error |-> ""]
           failed == [stage |-> "failed", error |-> e]
           interrupted == [stage |-> "interrupted", error |-> "cancelled"]
<1>1. e \in {"collection_failed", "submission_failed"}
  <2>1. troubled[a] \in {"", "collection_failed", "submission_failed"}
    BY Zenon DEF CollectionTyped, Causes
  <2>2. QED BY <2>1, Zenon
<1>2. CASE troubled[a] = "" /\ ~Quarantined(a)
  <2>1. Results(a) = {accepted}
    BY <1>2, Zenon DEF Results
  <2>2. accepted.stage = "accepted" /\ accepted.error = ""
    BY Zenon
  <2> HIDE DEF accepted
  <2>3. r.stage = "accepted" /\ r.error = ""
    BY <2>1, <2>2, Zenon
  <2>4. r.error # "publisher_lost"
    BY <2>3, Zenon
  <2>5. ~Troubled(a)
    BY <1>2, Zenon DEF Troubled
  <2>6. r.error \in Errors
    BY <2>3, Zenon DEF Errors
  <2>7. r.stage \in Terminal /\ r.stage \in Stages
    BY <2>3, Zenon DEF Terminal, Stages
  <2>8. QED BY <1>2, <2>3, <2>4, <2>5, <2>6, <2>7, Zenon
<1>3. CASE ~(troubled[a] = "" /\ ~Quarantined(a))
  <2>1. Results(a) \in {{failed} \cup {interrupted}, {failed} \cup {}}
    BY <1>3, Zenon DEF Results
  <2>2. /\ failed.stage = "failed" /\ failed.error = e
        /\ interrupted.stage = "interrupted" /\ interrupted.error = "cancelled"
    BY Zenon
  <2> HIDE DEF failed, interrupted, e
  <2>3. r \in {failed, interrupted}
    BY <2>1
  <2>4. r.stage \in {"failed", "interrupted"} /\ r.error \in {"collection_failed", "submission_failed", "cancelled"}
    BY <1>1, <2>2, <2>3
  <2>5. r.error \in Errors
    BY <2>4, Zenon DEF Errors
  <2>6. r.stage \in Terminal /\ r.stage \in Stages /\ r.stage # "accepted"
    BY <2>4 DEF Terminal, Stages
  <2>7. r.error # "" /\ r.error # "publisher_lost"
    BY <2>4, Zenon
  <2>8. QED BY <2>5, <2>6, <2>7, Zenon
<1>4. QED BY <1>2, <1>3, Zenon

\* What an accepted end, like any other, leaves of the entry.
LEMMA AppliedFinish ==
  ASSUME RegistryAssumption, RegistryTyped, NEW r \in Entries, Rests(r), NEW m \in Messages, m.op = "finish"
  PROVE  LET q == Applied(r, m) IN
         /\ q.stage = m.stage /\ q.error = m.error /\ q.harnesses = m.harnesses /\ Rests(q) /\ AllEnded(q)
         /\ \A h \in Harnesses : r.captures[h] # Absent /\ r.captures[h].phase \in CaptureTerminal =>
              q.captures[h] = r.captures[h]
<1> DEFINE hs == [Harnesses -> Statuses]
           cs == [Harnesses -> Measurements \cup {Absent}]
           u == Renewed(r)
           shown == [u EXCEPT !.stage = m.stage, !.error = m.error, !.harnesses = m.harnesses, !.batches = m.batches]
           c == FinishCapture(shown, m.stage)
           q == Applied(r, m)
<1>1. Entries = [stage : Stages, error : Errors, harnesses : hs, batches : Nat,
                 expires : Nat, finished : Nat, captures : cs]
  BY DEF Entries
<1>2. /\ Messages = [op : {"begin", "update", "heartbeat", "finish"}, stage : Stages, error : Errors,
                     harnesses : hs, batches : Nat]
  BY DEF Messages
<1>3. u \in Entries /\ u.captures = r.captures
  BY RenewedIs
<1>4. q = [shown EXCEPT !.finished = now, !.captures = c]
  BY DEF Applied
<1> HIDE DEF hs, cs, u
<1>5. /\ shown \in Entries /\ shown.stage = m.stage /\ shown.error = m.error /\ shown.harnesses = m.harnesses
      /\ shown.captures = r.captures
  BY <1>1, <1>2, <1>3
<1> HIDE DEF shown
<1>6. Rests(shown)
  BY <1>5 DEF Rests
<1>7. \A h \in Harnesses :
        /\ c[h] # Absent => c[h].phase \in CaptureTerminal /\ c[h].active = 0
        /\ shown.captures[h] # Absent /\ shown.captures[h].phase \in CaptureTerminal => c[h] = shown.captures[h]
  BY <1>5, <1>6, FinishedEnds DEF RegistryAssumption
<1> HIDE DEF c, q
<1>8. q.stage = m.stage /\ q.error = m.error /\ q.harnesses = m.harnesses /\ q.captures = c
  BY <1>1, <1>4, <1>5
<1>9. Rests(q) /\ AllEnded(q)
  BY <1>7, <1>8 DEF Rests, AllEnded
<1>10. QED BY <1>5, <1>7, <1>8, <1>9 DEF q

\* Observer.Finish: it is accepted only if every harness is through.
LEMMA FinishIsShown ==
  ASSUME RegistryAssumption, ProgressInv, NEW a \in Attempts, Shown(a), Delivers(a), step[a] = "ending",
         state[a].batches <= sent[a], NEW e \in Results(a),
         Apply(a, [state[a] EXCEPT !.op = "finish", !.stage = e.stage, !.error = e.error, !.batches = sent[a]]),
         step'[a] = "done"
  PROVE  Shown(a)'
<1> DEFINE r == attempts[a]
           q == attempts'[a]
           m == [state[a] EXCEPT !.op = "finish", !.stage = e.stage, !.error = e.error, !.batches = sent[a]]
<1>0. RegistryTyped /\ CollectionTyped /\ step'[a] # "idle" /\ Running(a)
  BY DEF ProgressInv, ProgressTyped, Running
<1>1. /\ e.stage \in Terminal /\ e.stage \in Stages /\ e.error \in Errors /\ e.error # "publisher_lost"
      /\ e.stage = "accepted" <=> e.error = ""
      /\ e.stage = "accepted" => ~Troubled(a) /\ ~Quarantined(a)
  BY <1>0, ResultIs, Zenon
<1>2. e.stage = "accepted" => \A h \in Harnesses : state[a].harnesses[h] \in {"complete", "skipped"}
                                                   /\ event[a][h].phase = "complete"
  <2>1. SUFFICES ASSUME e.stage = "accepted", NEW h \in Harnesses
                 PROVE  state[a].harnesses[h] \in {"complete", "skipped"} /\ event[a][h].phase = "complete"
    OBVIOUS
  <2>2. ~Troubled(a) /\ ~Quarantined(a)
    BY <1>1, <2>1, Zenon
  <2>3. state[a].harnesses[h] \in {"complete", "skipped"}
        /\ (event[a][h].phase = "complete" \/ event[a][h].count["quarantined"] > 0)
    BY <2>2 DEF Delivers
  <2>4. QED BY <2>2, <2>3 DEF Quarantined
<1>3. state[a] \in States /\ sent[a] \in Nat
  BY <1>0 DEF CollectionTyped
<1>4. m \in Messages
  BY <1>1, <1>3, StatesAreMessages, Zenon
<1>5. /\ m.op = "finish" /\ m.stage = e.stage /\ m.error = e.error /\ m.harnesses = state[a].harnesses
      /\ m.batches = sent[a]
  <2> DEFINE hs == [Harnesses -> Statuses]
             none == {""}
             s == state[a]
  <2>1. States = [op : {"begin", "update"}, stage : {"waiting", "capturing", "submitting"}, error : none,
                  harnesses : hs, batches : Nat]
    BY DEF States
  <2>2. s \in States
    BY <1>3
  <2> HIDE DEF hs, s, none
  <2>3. LET k == [s EXCEPT !.op = "finish", !.stage = e.stage, !.error = e.error, !.batches = sent[a]]
        IN /\ k.op = "finish" /\ k.stage = e.stage /\ k.error = e.error /\ k.harnesses = s.harnesses
           /\ k.batches = sent[a]
    BY <2>1, <2>2
  <2>4. QED BY <2>3 DEF s
<1>6. Apply(a, m)
  OBVIOUS
<1> HIDE DEF m
<1>7. ValidMessage(m)
  BY <1>1, <1>5, Zenon DEF ValidMessage
<1>8. CASE Aged(r, q) /\ EndedOrGone(q)
  BY <1>0, <1>8, LostIsShown
<1>9. CASE r \in Entries /\ r.stage \notin Terminal
  <2>0. r # Absent
    BY <1>9 DEF RegistryAssumption
  <2>1. InStepWith(a, r) /\ Rests(r) /\ (a \in refused => r.error = "publisher_lost")
    BY <1>9, <2>0 DEF Shown
  <2>2. ~Regresses(r, m)
    <3>1. r.batches <= state[a].batches
      BY <2>1 DEF InStepWith
    <3>2. r.batches \in Nat /\ state[a].batches \in Nat
      <4>1. state[a].batches \in Nat
        BY <1>0, <1>3, StateFields
      <4> HIDE DEF r
      <4>2. r.batches \in Nat
        BY <1>9 DEF Entries
      <4>3. QED BY <4>1, <4>2
    <3>3. QED BY <1>3, <1>5, <3>1, <3>2 DEF Regresses
  <2>3. CASE q = Applied(r, m) /\ (a \in refused' => a \in refused)
    <3>1. /\ q.stage = m.stage /\ q.error = m.error /\ q.harnesses = m.harnesses /\ Rests(q) /\ AllEnded(q)
          /\ \A h \in Harnesses : r.captures[h] # Absent /\ r.captures[h].phase \in CaptureTerminal =>
               q.captures[h] = r.captures[h]
      BY <1>0, <1>4, <1>5, <1>9, <2>1, <2>3, AppliedFinish
    <3>2. a \notin refused'
      BY <2>1, <2>3 DEF InStepWith
    <3>3. q.stage \in Terminal
      BY <1>1, <1>5, <3>1
    <3>4. q.stage = "accepted" => \A h \in Harnesses :
            q.harnesses[h] \in {"complete", "skipped"} /\ q.captures[h] # Absent /\ q.captures[h].phase = "complete"
      <4>1. SUFFICES ASSUME q.stage = "accepted", NEW h \in Harnesses
                     PROVE  q.harnesses[h] \in {"complete", "skipped"} /\ q.captures[h] # Absent
                            /\ q.captures[h].phase = "complete"
        OBVIOUS
      <4>2. state[a].harnesses[h] \in {"complete", "skipped"} /\ event[a][h].phase = "complete"
        BY <1>2, <1>5, <3>1, <4>1
      <4>3. event[a][h] # Blank
        BY <4>2 DEF Blank
      <4>4. r.captures[h] = event[a][h]
        BY <2>1, <4>3 DEF InStepWith
      <4>5. event[a][h] # Absent
        <5>1. event[a][h] \in Measurements
          <6> HIDE DEF Measurements
          <6>1. QED BY <1>0 DEF CollectionTyped
        <5>2. QED BY <5>1 DEF RegistryAssumption
      <4>6. q.captures[h] = event[a][h]
        BY <3>1, <4>2, <4>4, <4>5 DEF CaptureTerminal
      <4>7. QED BY <1>5, <3>1, <4>2, <4>5, <4>6
    <3>5. Rests(attempts[a])' /\ AllEnded(attempts[a])'
      BY <3>1 DEF Rests, AllEnded
    <3>6. Outcome(a, attempts[a])'
      BY <3>3, <3>4, <3>5 DEF Outcome
    <3>7. QED BY <3>2, <3>3, <3>5, <3>6 DEF Shown
  <2>4. \/ q = Applied(r, m) /\ (a \in refused' => a \in refused)
        \/ Aged(r, q) /\ EndedOrGone(q)
    BY <1>0, <1>6, <1>7, <2>2, ApplyIs
  <2>5. QED BY <1>8, <2>3, <2>4
<1>10. (Aged(r, q) /\ EndedOrGone(q)) \/ (r \in Entries /\ r.stage \notin Terminal)
  BY <1>0, <1>6, ApplyIs
<1>11. QED BY <1>8, <1>9, <1>10

-----------------------------------------------------------------------------
(* The steps of a collection, and what it knows of its sources *)

\* Types of what a collection keeps.
LEMMA CollectionHas ==
  ASSUME ProgressInv, NEW a \in Attempts
  PROVE  /\ RegistryTyped /\ CollectionTyped
         /\ jobs[a] \in Seq(Harnesses) /\ place[a] \in Seq(Places) /\ Len(jobs[a]) = Len(place[a])
         /\ DOMAIN jobs[a] = DOMAIN place[a] /\ at[a] \in Harnesses /\ sent[a] \in Nat
         /\ state[a] \in States /\ state[a].batches \in Nat
         /\ \A h \in Harnesses : event[a][h] \in Measurements /\ saving[a][h] \in BOOLEAN
<1>1. RegistryTyped /\ CollectionTyped
  BY DEF ProgressInv, ProgressTyped
<1>2. /\ jobs[a] \in Seq(Harnesses) /\ place[a] \in Seq(Places) /\ Len(jobs[a]) = Len(place[a])
      /\ at[a] \in Harnesses /\ sent[a] \in Nat /\ state[a] \in States
  BY <1>1 DEF CollectionTyped
<1>3. DOMAIN jobs[a] = DOMAIN place[a]
  BY <1>2
<1>4. \A h \in Harnesses : event[a][h] \in Measurements /\ saving[a][h] \in BOOLEAN
  <2> HIDE DEF Measurements
  <2>1. QED BY <1>1 DEF CollectionTyped
<1>5. state[a].batches \in Nat
  BY <1>1, <1>2, StateFields
<1>6. QED BY <1>1, <1>2, <1>3, <1>4, <1>5

\* Harnesses are numbers, the last of them the number there are.
LEMMA HarnessesAre ==
  ASSUME ProgressAssumption
  PROVE  /\ Harnesses \subseteq Nat /\ 1 \in Harnesses
         /\ \A h \in Harnesses : h >= 1
         /\ \A h, g \in Harnesses : h + 1 \notin Harnesses => g <= h
         /\ \A h, g \in Harnesses : g < h + 1 <=> g <= h
<1>1. Cardinality(Harnesses) \in Nat /\ 1 \in Harnesses
  BY FirstHarness, FS_CardinalityType DEF ProgressAssumption
<1> DEFINE n == Cardinality(Harnesses)
<1>2. Harnesses = 1..n
  BY DEF ProgressAssumption
<1> HIDE DEF n
<1>3. n \in Nat
  BY <1>1 DEF n
<1>4. QED BY <1>1, <1>2, <1>3

\* A harness that was not looked at counts nothing.
LEMMA BlankHas ==
  /\ Blank \in Measurements /\ Blank.phase = "none" /\ Blank.known = FALSE
  /\ Blank.total = 0 /\ Blank.checked = 0 /\ Blank.active = 0 /\ Blank.count = NoOutcome
  /\ Sum(NoOutcome) = 0 /\ \A o \in Outcomes : NoOutcome[o] = 0
<1>1. /\ Blank.phase = "none" /\ Blank.known = FALSE
      /\ Blank.total = 0 /\ Blank.checked = 0 /\ Blank.active = 0 /\ Blank.count = NoOutcome
  BY DEF Blank
<1>2. \A o \in Outcomes : NoOutcome[o] = 0
  BY DEF NoOutcome
<1>3. Sum(NoOutcome) = 0
  BY <1>2 DEF Sum, Outcomes
<1>4. Blank \in Measurements
  <2>1. NoOutcome \in [Outcomes -> Nat]
    BY DEF NoOutcome
  <2>2. QED BY <2>1 DEF Blank, Measurements, Phases
<1>5. QED BY <1>1, <1>2, <1>3, <1>4

\* A measurement replaces that of its harness, and a message what was told.
LEMMA EventIs ==
  ASSUME ProgressInv, NEW a \in Attempts, NEW h \in Harnesses, NEW c, Measure(a, h, c)
  PROVE  event'[a][h] = c /\ \A g \in Harnesses \ {h} : event'[a][g] = event[a][g]
<1>1. event \in [Attempts -> [Harnesses -> Measurements]]
  BY DEF ProgressInv, ProgressTyped, CollectionTyped
<1> DEFINE cs == [Harnesses -> Measurements]
<1>2. event' = [event EXCEPT ![a] = [event[a] EXCEPT ![h] = c]]
  BY DEF Measure
<1> DEFINE k == [event[a] EXCEPT ![h] = c]
<1>3. event[a] \in cs
  <2> HIDE DEF cs
  <2>1. QED BY <1>1 DEF cs
<1>4. k[h] = c /\ \A g \in Harnesses \ {h} : k[g] = event[a][g]
  <2> HIDE DEF Measurements
  <2>1. QED BY <1>3
<1> HIDE DEF k
<1>5. event'[a] = k
  <2> HIDE DEF cs
  <2>1. QED BY <1>1, <1>2 DEF k, cs
<1>6. QED BY <1>4, <1>5

\* A harness's status replaces what was told of it, and of no other (Observer.Collection).
LEMMA HarnessIsHas ==
  ASSUME CollectionTyped, NEW a \in Attempts, NEW h \in Harnesses, NEW status
  PROVE  LET m == HarnessIs(a, h, status) IN
         /\ m.op = "update" /\ m.batches = state[a].batches
         /\ m.harnesses[h] = status /\ \A g \in Harnesses \ {h} : m.harnesses[g] = state[a].harnesses[g]
<1> DEFINE m == state[a]
           hs == [Harnesses -> Statuses]
           none == {""}
           k == [m.harnesses EXCEPT ![h] = status]
<1>1. m \in States
  BY DEF CollectionTyped
<1>2. States = [op : {"begin", "update"}, stage : {"waiting", "capturing", "submitting"}, error : none,
                harnesses : hs, batches : Nat]
  BY DEF States
<1> HIDE DEF none
<1>3. m.harnesses \in hs
  <2> HIDE DEF hs, m
  <2>1. QED BY <1>1, <1>2
<1>4. k[h] = status /\ \A g \in Harnesses \ {h} : k[g] = m.harnesses[g]
  <2> HIDE DEF m
  <2>1. QED BY <1>3
<1>5. HarnessIs(a, h, status) = [m EXCEPT !.op = "update", !.stage = "capturing", !.harnesses = k]
  <2>1. "harnesses" \in DOMAIN m
    <3> HIDE DEF hs, m
    <3>1. QED BY <1>1, <1>2
  <2>2. QED BY <2>1 DEF HarnessIs
<1> HIDE DEF m, hs, k
<1>6. LET d == [m EXCEPT !.op = "update", !.stage = "capturing", !.harnesses = k]
      IN d.op = "update" /\ d.batches = m.batches /\ d.harnesses = k
  BY <1>1, <1>2
<1>7. QED BY <1>4, <1>5, <1>6 DEF m

\* An error stays with its result.
LEMMA TroubledStays ==
  ASSUME NEW a, troubled'[a] = troubled[a]
  PROVE  Troubled(a)' <=> Troubled(a)
BY Zenon DEF Troubled

\* An error that is set is one.
LEMMA TroubledNow ==
  ASSUME CollectionTyped, NEW a \in Attempts, NEW x \in {"collection_failed", "submission_failed"},
         troubled' = [troubled EXCEPT ![a] = x]
  PROVE  Troubled(a)'
<1>1. troubled'[a] = x
  BY DEF CollectionTyped
<1>2. x # ""
  BY Zenon
<1>3. QED BY <1>1, <1>2, Zenon DEF Troubled

\* What is known of a harness stays true while its sources stay where they are.
LEMMA MeasuredStays ==
  ASSUME NEW a, NEW h, Measured(a, h), event'[a][h] = event[a][h], saving'[a][h] = saving[a][h],
         Of(jobs'[a], h) = Of(jobs[a], h),
         \A s \in {"done", "reading"} : On(jobs'[a], place'[a], h, s) = On(jobs[a], place[a], h, s),
         Troubled(a) => Troubled(a)'
  PROVE  Measured(a, h)'
BY DEF Measured, Tallied, Unfound

\* And what was told of it stays true with it.
LEMMA ReportedStays ==
  ASSUME NEW a, NEW h, Reported(a, h), event'[a][h] = event[a][h],
         state'[a].harnesses[h] = state[a].harnesses[h], Troubled(a) => Troubled(a)'
  PROVE  Reported(a, h)'
BY DEF Reported

\* The invariant asks of a running collection what its step asks.
LEMMA HoldsAt ==
  ASSUME NEW a, FailuresTold(a)', state'[a].batches <= sent'[a],
         \/ step'[a] \in {"discovering", "announcing", "looking", "reporting"} /\ Finds(a)'
         \/ step'[a] \in {"working", "summing"} /\ Works(a)'
         \/ step'[a] \in {"stopping", "failing"} /\ Stops(a)'
         \/ step'[a] \in {"delivering", "ending"} /\ Delivers(a)'
         \/ step'[a] = "abandoning"
  PROVE  CaptureHolds(a)' /\ Running(a)'
<1>1. Running(a)'
  BY DEF Running
<1>2. Fresh(a)' /\ Finds(a)' /\ Works(a)' /\ Stops(a)' /\ Delivers(a)'
  BY DEF Fresh, Finds, Works, Stops, Delivers
<1>3. QED BY <1>1, <1>2 DEF CaptureHolds

\* Only the measurements told count failures.
LEMMA FailuresStay ==
  ASSUME NEW a, FailuresTold(a), \A h \in Harnesses : event'[a][h].count = event[a][h].count,
         Troubled(a) => Troubled(a)'
  PROVE  FailuresTold(a)'
BY DEF FailuresTold

\* One harness is looked at.
LEMMA DiscoveringHolds ==
  ASSUME ProgressAssumption, RegistryAssumption, ProgressInv, NEW a \in Attempts, CaptureHolds(a), Shown(a), Discovering(a)
  PROVE  CaptureHolds(a)' /\ Shown(a)'
<1> DEFINE h == at[a]
           c == [event[a][h] EXCEPT !.phase = "discovering"]
           seen == [Blank EXCEPT !.phase = "discovering"]
<1>1. /\ RegistryTyped /\ CollectionTyped /\ h \in Harnesses /\ \A g \in Harnesses : event[a][g] \in Measurements
  BY CollectionHas
<1>2. /\ step[a] = "discovering" /\ Measure(a, h, c) /\ step'[a] = "announcing"
      /\ UNCHANGED <<at, cancelled, beat, state, troubled, sent, saving, jobs, place, closed>>
  BY <1>1 DEF Discovering, Goto, CollectionTyped
<1>3. Finds(a) /\ FailuresTold(a) /\ state[a].batches <= sent[a] /\ event[a][h] = Blank
  BY <1>2 DEF CaptureHolds, Finds
<1>4. c = seen
  BY <1>3
<1>5. /\ seen \in Measurements /\ seen.phase = "discovering" /\ seen.known = FALSE /\ seen.total = 0
      /\ seen.checked = 0 /\ seen.active = 0 /\ seen.count = NoOutcome
  <2>1. "discovering" \in Phases
    BY DEF Phases
  <2>2. QED BY <2>1, BlankHas, MeasurementHas, MeasurementFields
<1>6. Measure(a, h, seen)
  BY <1>2, <1>4
<1> HIDE DEF h, c, seen
<1>7. Legit(a, h, seen)
  BY <1>3, <1>5, BlankHas DEF Legit, ValidCapture, PhaseFits
<1>8. event'[a][h] = seen /\ \A g \in Harnesses \ {h} : event'[a][g] = event[a][g]
  BY <1>1, <1>6, EventIs
<1>9. Troubled(a) => Troubled(a)'
  BY <1>2, TroubledStays
<1>10. FailuresTold(a)'
  <2>1. \A g \in Harnesses : event'[a][g].count = event[a][g].count
    BY <1>3, <1>5, <1>8, BlankHas
  <2>2. QED BY <1>3, <1>9, <2>1, FailuresStay
<1>11. Finds(a)'
  <2>1. Quiet(a)' /\ \A j \in DOMAIN place'[a] : place'[a][j] = "held"
    BY <1>2, <1>3 DEF Finds, Quiet
  <2>2. ASSUME NEW g \in Harnesses, g < at'[a]
        PROVE  Measured(a, g)' /\ Reported(a, g)'
    <3>1. g # h
      BY <1>1, <1>2, <2>2, HarnessesAre DEF h
    <3>2. Measured(a, g) /\ Reported(a, g)
      BY <1>2, <1>3, <2>2 DEF Finds
    <3>3. event'[a][g] = event[a][g]
      BY <1>8, <3>1
    <3>4. QED BY <1>2, <1>9, <3>2, <3>3, MeasuredStays, ReportedStays
  <2>3. ASSUME NEW g \in Harnesses, g > at'[a]
        PROVE  event'[a][g] = Blank
    <3>1. g # h
      BY <1>1, <1>2, <2>3, HarnessesAre DEF h
    <3>2. QED BY <1>2, <1>3, <1>8, <2>3, <3>1 DEF Finds
  <2>4. \A j \in DOMAIN jobs'[a] : jobs'[a][j] < at'[a]
    BY <1>2, <1>3 DEF Finds
  <2>5. event'[a][at'[a]] = [Blank EXCEPT !.phase = "discovering"]
    BY <1>2, <1>8 DEF h, seen
  <2>6. QED BY <1>2, <2>1, <2>2, <2>3, <2>4, <2>5 DEF Finds
<1>12. CaptureHolds(a)' /\ Running(a)'
  BY <1>2, <1>3, <1>10, <1>11, HoldsAt
<1>13. Running(a)
  BY <1>2 DEF Running
<1>14. Shown(a)'
  BY <1>1, <1>2, <1>5, <1>6, <1>7, <1>12, <1>13, MeasureIsShown
<1>15. QED BY <1>12, <1>14

\* It is announced.
LEMMA AnnouncingHolds ==
  ASSUME ProgressAssumption, RegistryAssumption, ProgressInv, NEW a \in Attempts, CaptureHolds(a), Shown(a), Announcing(a)
  PROVE  CaptureHolds(a)' /\ Shown(a)'
<1> DEFINE h == at[a]
           m == HarnessIs(a, h, "running")
<1>1. RegistryTyped /\ CollectionTyped /\ h \in Harnesses /\ state[a].batches \in Nat
  BY CollectionHas
<1>2. /\ step[a] = "announcing" /\ Tell(a, m) /\ step'[a] = "looking"
      /\ UNCHANGED <<event, saving, jobs, place, at, cancelled, beat, troubled, sent, closed>>
  BY <1>1 DEF Announcing, Goto, CollectionTyped, measureVars
<1>3. /\ m \in States /\ m.op = "update" /\ m.batches = state[a].batches
      /\ \A g \in Harnesses \ {h} : m.harnesses[g] = state[a].harnesses[g]
  <2>1. "running" \in Statuses
    BY DEF Statuses
  <2>2. QED BY <1>1, <2>1, HarnessIsTyped, HarnessIsHas
<1>4. Finds(a) /\ FailuresTold(a) /\ state[a].batches <= sent[a]
  BY DEF CaptureHolds
<1> HIDE DEF m
<1>5. state'[a] = m
  BY <1>1, <1>2 DEF Tell, CollectionTyped
<1>6. Troubled(a) => Troubled(a)'
  BY <1>2, TroubledStays
<1>7. FailuresTold(a)'
  BY <1>2, <1>4, <1>6, FailuresStay
<1>8. Finds(a)'
  <2>1. Quiet(a)' /\ \A j \in DOMAIN place'[a] : place'[a][j] = "held"
    BY <1>2, <1>4 DEF Finds, Quiet
  <2>2. ASSUME NEW g \in Harnesses, g < at'[a]
        PROVE  Measured(a, g)' /\ Reported(a, g)'
    <3>1. g # h
      BY <1>1, <1>2, <2>2, HarnessesAre
    <3>2. Measured(a, g) /\ Reported(a, g)
      BY <1>2, <1>4, <2>2 DEF Finds
    <3>3. state'[a].harnesses[g] = state[a].harnesses[g]
      BY <1>3, <1>5, <3>1
    <3>4. QED BY <1>2, <1>6, <3>2, <3>3, MeasuredStays, ReportedStays
  <2>3. \A g \in Harnesses : g > at'[a] => event'[a][g] = Blank
    BY <1>2, <1>4 DEF Finds
  <2>4. \A j \in DOMAIN jobs'[a] : jobs'[a][j] < at'[a]
    BY <1>2, <1>4 DEF Finds
  <2>5. event'[a][at'[a]] = [Blank EXCEPT !.phase = "discovering"]
    BY <1>2, <1>4 DEF Finds
  <2>6. QED BY <1>2, <2>1, <2>2, <2>3, <2>4, <2>5 DEF Finds
<1>9. CaptureHolds(a)' /\ Running(a)'
  BY <1>2, <1>3, <1>4, <1>5, <1>7, <1>8, HoldsAt
<1>10. Running(a)
  BY <1>2 DEF Running
<1>11. Shown(a)'
  BY <1>1, <1>2, <1>3, <1>9, <1>10, TellIsShown
<1>12. QED BY <1>9, <1>11

\* Counts that add up are a tally, with the phase worked out of them.
LEMMA TalliedBy ==
  ASSUME NEW c \in Measurements, NEW sav \in BOOLEAN, NEW js, NEW ps, NEW h,
         c.known, c.total = Cardinality(Of(js, h)), c.checked = Cardinality(On(js, ps, h, "done")),
         c.checked = Sum(c.count), c.active = Cardinality(On(js, ps, h, "reading")), c.phase = WorkPhase(c, sav)
  PROVE  Tallied(c, sav, js, ps, h)
BY WorkPhaseIs DEF Tallied

\* The measurement of a harness whose sources are found.
LEMMA FoundIs ==
  ASSUME NEW n \in Nat, NEW e, e = [Blank EXCEPT !.phase = "discovering"]
  PROVE  LET c == [e EXCEPT !.known = TRUE, !.total = n, !.phase = IF n = 0 THEN "complete" ELSE "waiting"] IN
         /\ c \in Measurements /\ c.known /\ c.total = n /\ c.checked = 0 /\ c.active = 0 /\ c.count = NoOutcome
         /\ c.phase = IF n = 0 THEN "complete" ELSE "waiting"
<1> DEFINE counts == [Outcomes -> Nat]
           p == IF n = 0 THEN "complete" ELSE "waiting"
<1>1. Measurements =
        [phase : Phases, known : BOOLEAN, total : Nat, checked : Nat, active : Int, count : counts]
  BY DEF Measurements
<1>2. p \in Phases /\ "discovering" \in Phases
  BY DEF Phases, CaptureTerminal
<1>3. Blank \in Measurements /\ Blank.checked = 0 /\ Blank.active = 0 /\ Blank.count = NoOutcome
  BY BlankHas
<1>4. e \in Measurements /\ e.checked = 0 /\ e.active = 0 /\ e.count = NoOutcome
  <2> HIDE DEF counts
  <2>1. QED BY <1>1, <1>2, <1>3
<1> HIDE DEF counts, p
<1>5. LET c == [e EXCEPT !.known = TRUE, !.total = n, !.phase = p] IN
      /\ c \in Measurements /\ c.known /\ c.total = n /\ c.checked = 0 /\ c.active = 0 /\ c.count = NoOutcome
      /\ c.phase = p
  BY <1>1, <1>2, <1>4
<1>6. QED BY <1>5 DEF p

\* And of one whose sources are not.
LEMMA NotFoundIs ==
  ASSUME NEW e, e = [Blank EXCEPT !.phase = "discovering"], NEW p \in {"failed", "interrupted"}
  PROVE  LET c == [e EXCEPT !.phase = p] IN
         /\ c \in Measurements /\ Unfound(c) /\ c.checked = 0 /\ ValidCapture(c) /\ c.phase # "none"
         /\ c.count = NoOutcome
<1>1. "discovering" \in Phases /\ p \in Phases
  BY DEF Phases, CaptureTerminal
<1>2. /\ e \in Measurements /\ ~e.known /\ e.total = 0 /\ e.checked = 0 /\ e.active = 0 /\ e.count = NoOutcome
  BY <1>1, BlankHas, MeasurementHas, MeasurementFields
<1> DEFINE c == [e EXCEPT !.phase = p]
<1>3. /\ c \in Measurements /\ c.phase = p /\ c.known = e.known /\ c.total = e.total /\ c.checked = e.checked
      /\ c.active = e.active /\ c.count = e.count
  BY <1>1, <1>2, MeasurementHas, MeasurementFields
<1> HIDE DEF c
<1>4. PhaseFits(c)
  BY <1>2, <1>3 DEF PhaseFits
<1>5. ValidCapture(c) /\ Unfound(c)
  BY <1>2, <1>3, <1>4, BlankHas DEF ValidCapture, Unfound
<1>6. QED BY <1>2, <1>3, <1>5 DEF c

\* A measurement that has just begun may be followed by any other.
LEMMA AnyFollows ==
  ASSUME NEW e, e = [Blank EXCEPT !.phase = "discovering"], NEW c \in Measurements
  PROVE  Follows(e, c)
<1>1. "discovering" \in Phases /\ "discovering" \notin CaptureTerminal
  BY DEF Phases, CaptureTerminal
<1>2. e.phase = "discovering" /\ e.known = FALSE /\ e.count = NoOutcome
  BY BlankHas, MeasurementHas
<1>3. \A o \in Outcomes : NoOutcome[o] = 0 /\ c.count[o] \in Nat
  BY BlankHas, MeasurementHas
<1>4. QED BY <1>1, <1>2, <1>3 DEF Follows

\* The others stay as found while one is looked at.
LEMMA FindsGoesOn ==
  ASSUME ProgressAssumption, ProgressInv, NEW a \in Attempts, Finds(a),
         step[a] = "looking", step'[a] = "reporting", at' = at, saving' = saving, state' = state,
         \A g \in Harnesses \ {at[a]} :
           /\ event'[a][g] = event[a][g] /\ Of(jobs'[a], g) = Of(jobs[a], g)
           /\ \A s \in {"done", "reading"} : On(jobs'[a], place'[a], g, s) = On(jobs[a], place[a], g, s),
         \A j \in DOMAIN place'[a] : place'[a][j] = "held",
         \A j \in DOMAIN jobs'[a] : jobs'[a][j] < at[a] \/ jobs'[a][j] = at[a],
         Troubled(a) => Troubled(a)', Measured(a, at[a])'
  PROVE  Finds(a)'
<1> DEFINE h == at[a]
<1>1. h \in Harnesses /\ \A g \in Harnesses : (g < h => g # h) /\ (g > h => g # h)
  <2>1. h \in Harnesses
    BY CollectionHas
  <2>2. QED BY <2>1, HarnessesAre
<1>2. Quiet(a)'
  BY DEF Finds, Quiet
<1>3. ASSUME NEW g \in Harnesses, g < at'[a]
      PROVE  Measured(a, g)' /\ Reported(a, g)'
  <2>1. g # h /\ Measured(a, g) /\ Reported(a, g)
    BY <1>1, <1>3 DEF Finds
  <2>2. /\ event'[a][g] = event[a][g] /\ Of(jobs'[a], g) = Of(jobs[a], g)
        /\ \A s \in {"done", "reading"} : On(jobs'[a], place'[a], g, s) = On(jobs[a], place[a], g, s)
        /\ saving'[a][g] = saving[a][g] /\ state'[a].harnesses[g] = state[a].harnesses[g]
    BY <2>1
  <2>3. QED BY <2>1, <2>2, MeasuredStays, ReportedStays
<1>4. ASSUME NEW g \in Harnesses, g > at'[a]
      PROVE  event'[a][g] = Blank
  BY <1>1, <1>4 DEF Finds
<1>5. QED BY <1>2, <1>3, <1>4 DEF Finds

\* A harness was looked at: its sources are known, or they are not.
LEMMA LookingHolds ==
  ASSUME ProgressAssumption, RegistryAssumption, ProgressInv, NEW a \in Attempts, CaptureHolds(a), Shown(a), Looking(a)
  PROVE  CaptureHolds(a)' /\ Shown(a)'
<1> DEFINE h == at[a]
           e == event[a][h]
           js == jobs[a]
           ps == place[a]
<1>1. /\ RegistryTyped /\ CollectionTyped /\ h \in Harnesses /\ e \in Measurements /\ saving[a][h] \in BOOLEAN
      /\ js \in Seq(Harnesses) /\ ps \in Seq(Places) /\ Len(js) = Len(ps) /\ DOMAIN js = DOMAIN ps
  BY CollectionHas
<1>2. /\ step[a] = "looking" /\ step'[a] = "reporting"
      /\ UNCHANGED <<at, cancelled, beat, state, sent, saving, closed>>
  BY <1>1 DEF Looking, Goto, CollectionTyped
<1>3. Finds(a) /\ FailuresTold(a) /\ state[a].batches <= sent[a]
  BY DEF CaptureHolds
<1>4. e = [Blank EXCEPT !.phase = "discovering"] /\ e # Blank
  <2>1. e = [Blank EXCEPT !.phase = "discovering"]
    BY <1>2, <1>3 DEF Finds
  <2>2. e.phase = "discovering"
    BY <2>1, BlankHas, MeasurementHas
  <2>3. QED BY <2>1, <2>2, BlankHas
<1>5. Of(js, h) = {} /\ ~saving[a][h] /\ \A j \in DOMAIN ps : ps[j] = "held"
  <2>1. \A j \in DOMAIN js : js[j] < h
    BY <1>2, <1>3 DEF Finds
  <2>2. ~saving[a][h] /\ \A j \in DOMAIN ps : ps[j] = "held"
    BY <1>1, <1>2, <1>3 DEF Finds, Quiet
  <2>3. h \in Nat
    BY <1>1, HarnessesAre
  <2>4. QED BY <2>1, <2>2, <2>3 DEF Of
<1>6. ASSUME NEW c \in Measurements, Measure(a, h, c), ValidCapture(c), c.phase # "none", c.count = NoOutcome,
             CaptureHolds(a)' /\ Running(a)'
      PROVE  Shown(a)'
  <2>1. Legit(a, h, c)
    BY <1>4, <1>6, AnyFollows DEF Legit
  <2>2. Running(a) /\ state'[a] = state[a]
    BY <1>2 DEF Running
  <2>3. QED BY <1>1, <1>6, <2>1, <2>2, MeasureIsShown
<1>7. ASSUME NEW c \in Measurements, Measure(a, h, c), c.count = NoOutcome, Troubled(a) => Troubled(a)'
      PROVE  /\ event'[a][h] = c /\ \A g \in Harnesses \ {h} : event'[a][g] = event[a][g]
             /\ FailuresTold(a)'
  <2>1. event'[a][h] = c /\ \A g \in Harnesses \ {h} : event'[a][g] = event[a][g]
    BY <1>1, <1>7, EventIs
  <2>2. e.count = NoOutcome
    BY <1>4, BlankHas, MeasurementHas DEF Phases
  <2>3. \A g \in Harnesses : event'[a][g].count = event[a][g].count
    BY <1>7, <2>1, <2>2
  <2>4. QED BY <1>3, <1>7, <2>1, <2>3, FailuresStay
<1>8. CASE DiscoveryFails(a)
  <2> DEFINE p == IF cancelled[a] THEN "interrupted" ELSE "failed"
             c == [e EXCEPT !.phase = p]
  <2>1. /\ Measure(a, h, c) /\ UNCHANGED <<jobs, place>>
        /\ troubled' = [troubled EXCEPT ![a] = "collection_failed"]
    BY <1>8 DEF DiscoveryFails
  <2>2. p \in {"failed", "interrupted"}
    OBVIOUS
  <2> HIDE DEF p
  <2>3. /\ c \in Measurements /\ Unfound(c) /\ c.checked = 0 /\ ValidCapture(c) /\ c.phase # "none"
        /\ c.count = NoOutcome
    BY <1>4, <2>2, NotFoundIs
  <2> HIDE DEF c
  <2>4. Troubled(a)'
    BY <1>1, <2>1, TroubledNow
  <2>5. event'[a][h] = c /\ (\A g \in Harnesses \ {h} : event'[a][g] = event[a][g]) /\ FailuresTold(a)'
    BY <1>7, <2>1, <2>3, <2>4
  <2>6. Measured(a, h)'
    BY <1>2, <1>5, <2>1, <2>3, <2>4, <2>5 DEF Measured
  <2>7. \A j \in DOMAIN jobs'[a] : jobs'[a][j] < at[a] \/ jobs'[a][j] = at[a]
    BY <1>2, <1>3, <2>1 DEF Finds
  <2>8. Finds(a)'
    BY <1>2, <1>3, <1>5, <2>1, <2>4, <2>5, <2>6, <2>7, FindsGoesOn
  <2>9. CaptureHolds(a)' /\ Running(a)'
    BY <1>2, <1>3, <2>5, <2>8, HoldsAt
  <2>10. QED BY <1>6, <2>1, <2>3, <2>9
<1>9. ASSUME NEW n \in 0..(MaxSources[a] - Len(jobs[a])), Discovered(a, n)
      PROVE  CaptureHolds(a)' /\ Shown(a)'
  <2> DEFINE c == [e EXCEPT !.known = TRUE, !.total = n, !.phase = IF n = 0 THEN "complete" ELSE "waiting"]
             ks == js \o Sources(h, n)
             qs == ps \o HeldOf(n)
  <2>1. n \in Nat
    BY <1>1 DEF ProgressAssumption
  <2>2. /\ Measure(a, h, c) /\ troubled' = troubled
        /\ jobs' = [jobs EXCEPT ![a] = ks] /\ place' = [place EXCEPT ![a] = qs]
    BY <1>9 DEF Discovered, HeldOf
  <2>3. /\ c \in Measurements /\ c.known /\ c.total = n /\ c.checked = 0 /\ c.active = 0 /\ c.count = NoOutcome
        /\ c.phase = IF n = 0 THEN "complete" ELSE "waiting"
    BY <1>4, <2>1, FoundIs
  <2>4. /\ ks \in Seq(Harnesses) /\ qs \in Seq(Places) /\ Len(ks) = Len(qs)
        /\ Cardinality(Of(ks, h)) = n
        /\ \A g \in Harnesses \ {h} : Of(ks, g) = Of(js, g) /\ \A s \in Places : On(ks, qs, g, s) = On(js, ps, g, s)
        /\ \A j \in DOMAIN qs : qs[j] = "held"
    <3> HIDE DEF h, e, js, ps
    <3>1. Appends(js, ps, h, n)
      BY <1>1, <1>5, <2>1, AppendTally
    <3>2. QED BY <1>5, <3>1 DEF Appends
  <2>5. \A j \in DOMAIN ks : ks[j] < h \/ ks[j] = h
    <3>1. ASSUME NEW j \in DOMAIN ks, ks[j] # h
          PROVE  ks[j] < h
      <4>0. \A i \in DOMAIN ks : ks[i] \in Harnesses
        <5> HIDE DEF ks
        <5>1. QED BY <2>4
      <4>1. ks[j] \in Harnesses \ {h}
        BY <3>1, <4>0
      <4>2. j \in Of(ks, ks[j])
        BY DEF Of
      <4>3. j \in Of(js, ks[j])
        BY <2>4, <4>1, <4>2
      <4>4. j \in DOMAIN js /\ js[j] = ks[j]
        BY <4>3 DEF Of
      <4>5. QED BY <1>2, <1>3, <4>4 DEF Finds
    <3>2. QED BY <3>1
  <2> HIDE DEF c, ks, qs
  <2>6. jobs'[a] = ks /\ place'[a] = qs
    BY <1>1, <2>2 DEF CollectionTyped
  <2>7. Troubled(a) => Troubled(a)'
    BY <2>2, TroubledStays
  <2>8. event'[a][h] = c /\ (\A g \in Harnesses \ {h} : event'[a][g] = event[a][g]) /\ FailuresTold(a)'
    BY <1>7, <2>2, <2>3, <2>7
  <2>9. Measured(a, h)'
    <3>1. Cardinality(On(ks, qs, h, "done")) = 0 /\ Cardinality(On(ks, qs, h, "reading")) = 0
      <4>1. \A j \in Of(ks, h) : qs[j] # "done" /\ qs[j] # "reading"
        <5>1. DOMAIN ks = DOMAIN qs
          BY <2>4
        <5>2. QED BY <2>4, <5>1 DEF Of
      <4>2. QED BY <2>4, <4>1, TallyOfAll DEF Places
    <3>2. c.phase = WorkPhase(c, saving[a][h]) /\ c.checked = Sum(c.count)
      BY <1>5, <2>1, <2>3, BlankHas DEF WorkPhase, Outcomes
    <3>3. Tallied(c, saving[a][h], ks, qs, h)
      BY <1>1, <2>3, <2>4, <3>1, <3>2, TalliedBy
    <3>4. QED BY <1>2, <2>6, <2>8, <3>3 DEF Measured
  <2>10. \A g \in Harnesses \ {h} : \A s \in {"done", "reading"} : On(ks, qs, g, s) = On(js, ps, g, s)
    BY <2>4 DEF Places
  <2>11. Finds(a)'
    BY <1>2, <1>3, <2>4, <2>5, <2>6, <2>7, <2>8, <2>9, <2>10, FindsGoesOn
  <2>12. CaptureHolds(a)' /\ Running(a)'
    BY <1>2, <1>3, <2>8, <2>11, HoldsAt
  <2>13. ValidCapture(c) /\ c.phase # "none"
    BY <2>1, <2>3, BlankHas DEF ValidCapture, PhaseFits, Outcomes
  <2>14. QED BY <1>6, <2>2, <2>3, <2>12, <2>13
<1>10. QED BY <1>8, <1>9 DEF Looking

\* While all its sources are held, a harness waits, or is complete without any.
LEMMA HeldTally ==
  ASSUME NEW c \in Measurements, NEW sav \in BOOLEAN, ~sav, NEW js \in Seq(Harnesses), NEW ps, NEW h,
         Tallied(c, sav, js, ps, h), \A j \in Of(js, h) : ps[j] = "held"
  PROVE  /\ c.checked = 0 /\ c.total \in Nat /\ (Of(js, h) = {} => c.total = 0)
         /\ c.phase = IF c.total = 0 THEN "complete" ELSE "waiting"
<1>1. c.checked = 0 /\ c.active = 0
  <2>1. \A j \in Of(js, h) : ps[j] # "done" /\ ps[j] # "reading"
    OBVIOUS
  <2>2. QED BY <2>1, TallyOfAll DEF Tallied, Places
<1>2. c.total \in Nat /\ (Of(js, h) = {} => c.total = 0)
  BY TallyFits DEF Tallied
<1>3. c.count["failed"] + c.count["quarantined"] = 0
  <2>1. /\ c.count["captured"] \in Nat /\ c.count["unchanged"] \in Nat
        /\ c.count["failed"] \in Nat /\ c.count["quarantined"] \in Nat
    BY MeasurementHas DEF Outcomes
  <2>2. Sum(c.count) = 0
    BY <1>1 DEF Tallied
  <2>3. QED BY <2>1, <2>2 DEF Sum
<1>4. c.phase = WorkPhase(c, sav)
  BY WorkPhaseIs DEF Tallied
<1>5. QED BY <1>1, <1>2, <1>3, <1>4 DEF WorkPhase

\* What was found of a harness is reported; after the last one, sources are given out.
LEMMA ReportingHolds ==
  ASSUME ProgressAssumption, RegistryAssumption, ProgressInv, NEW a \in Attempts, CaptureHolds(a), Shown(a), Reporting(a)
  PROVE  CaptureHolds(a)' /\ Shown(a)'
<1> DEFINE h == at[a]
           e == event[a][h]
           status == IF e.phase \in {"failed", "interrupted"} THEN "failed"
                     ELSE IF e.total = 0 THEN "skipped" ELSE "running"
           m == HarnessIs(a, h, status)
           last == h + 1 \notin Harnesses
           js == jobs[a]
           ps == place[a]
<1>1. /\ RegistryTyped /\ CollectionTyped /\ h \in Harnesses /\ state[a].batches \in Nat
      /\ js \in Seq(Harnesses) /\ ps \in Seq(Places) /\ Len(js) = Len(ps) /\ DOMAIN js = DOMAIN ps
      /\ \A g \in Harnesses : event[a][g] \in Measurements /\ saving[a][g] \in BOOLEAN
  BY CollectionHas
<1>2. /\ step[a] = "reporting" /\ Tell(a, m) /\ at' = [at EXCEPT ![a] = IF last THEN 1 ELSE h + 1]
      /\ UNCHANGED <<event, saving, jobs, cancelled, beat, sent, closed>>
      /\ \/ last /\ js # << >> /\ Spool(a)
         \/ /\ ~last \/ js = << >>
            /\ Goto(a, IF last THEN "delivering" ELSE "discovering") /\ UNCHANGED <<place, troubled>>
  BY DEF Reporting
<1>3. Finds(a) /\ FailuresTold(a) /\ state[a].batches <= sent[a]
  BY DEF CaptureHolds
<1>4. /\ (\A j \in DOMAIN ps : ps[j] = "held") /\ (\A g \in Harnesses : ~saving[a][g]) /\ Measured(a, h)
      /\ \A g \in Harnesses : (g < h => Measured(a, g) /\ Reported(a, g)) /\ (g > h => event[a][g] = Blank)
      /\ \A j \in DOMAIN js : js[j] < h \/ js[j] = h
  BY <1>2, <1>3 DEF Finds, Quiet
<1>5. /\ m \in States /\ m.op = "update" /\ m.batches = state[a].batches
      /\ m.harnesses[h] = status /\ \A g \in Harnesses \ {h} : m.harnesses[g] = state[a].harnesses[g]
  <2>1. status \in Statuses
    BY DEF Statuses
  <2> HIDE DEF status
  <2>2. QED BY <1>1, <2>1, HarnessIsTyped, HarnessIsHas
<1>6. state'[a] = m
  <2> HIDE DEF m
  <2>1. QED BY <1>1, <1>2 DEF Tell, CollectionTyped
<1>7. at'[a] = IF last THEN 1 ELSE h + 1
  BY <1>1, <1>2 DEF CollectionTyped
<1>8. ASSUME NEW g \in Harnesses, Measured(a, g), ~Troubled(a)
      PROVE  /\ event[a][g].checked = 0 /\ (Of(js, g) = {} => event[a][g].total = 0)
             /\ event[a][g].phase = IF event[a][g].total = 0 THEN "complete" ELSE "waiting"
  <2>1. Tallied(event[a][g], saving[a][g], js, ps, g)
    BY <1>8 DEF Measured
  <2>2. \A j \in Of(js, g) : ps[j] = "held"
    BY <1>1, <1>4 DEF Of
  <2> DEFINE c == event[a][g]
             sav == saving[a][g]
  <2>3. c \in Measurements /\ sav \in BOOLEAN /\ ~sav
    BY <1>1, <1>4
  <2> HIDE DEF js, ps, c, sav
  <2>4. /\ c.checked = 0 /\ c.total \in Nat /\ (Of(js, g) = {} => c.total = 0)
        /\ c.phase = IF c.total = 0 THEN "complete" ELSE "waiting"
    <3>1. Tallied(c, sav, js, ps, g)
      BY <2>1 DEF c, sav
    <3>2. js \in Seq(Harnesses)
      BY <1>1
    <3>3. QED BY <2>2, <2>3, <3>1, <3>2, HeldTally, Zenon
  <2>5. QED BY <2>4 DEF c
<1>9. ASSUME Troubled(a) => Troubled(a)'
      PROVE  \A g \in Harnesses : g <= h => Reported(a, g)'
  <2> SUFFICES ASSUME NEW g \in Harnesses, g <= h PROVE Reported(a, g)'
    OBVIOUS
  <2>1. CASE g = h
    <3>1. ASSUME ~Troubled(a), e.checked = e.total
          PROVE  status = "skipped"
      BY <1>1, <1>4, <1>8, <3>1
    <3>2. state'[a].harnesses[g] = status /\ event' = event
      BY <1>2, <1>5, <1>6, <2>1
    <3> HIDE DEF status
    <3>3. QED BY <1>9, <2>1, <3>1, <3>2 DEF Reported
  <2>2. CASE g # h
    <3>1. g < h
      BY <1>1, <2>2, HarnessesAre
    <3>2. Reported(a, g) /\ state'[a].harnesses[g] = state[a].harnesses[g] /\ event' = event
      BY <1>2, <1>4, <1>5, <1>6, <2>2, <3>1
    <3>3. QED BY <1>9, <3>2, ReportedStays
  <2>3. QED BY <2>1, <2>2
<1>10. ASSUME Troubled(a) => Troubled(a)', \A g : \A s \in {"done", "reading"} : On(js, place'[a], g, s) = On(js, ps, g, s)
       PROVE  \A g \in Harnesses : g <= h => Measured(a, g)'
  <2> SUFFICES ASSUME NEW g \in Harnesses, g <= h PROVE Measured(a, g)'
    OBVIOUS
  <2>1. Measured(a, g)
    BY <1>1, <1>4, HarnessesAre
  <2>2. QED BY <1>2, <1>10, <2>1, MeasuredStays
<1>11. last => \A g \in Harnesses : g <= h
  BY <1>1, HarnessesAre
<1>12. ASSUME Troubled(a) => Troubled(a)'
       PROVE  FailuresTold(a)' /\ state'[a].batches <= sent'[a]
  BY <1>2, <1>3, <1>5, <1>6, <1>12, FailuresStay
<1>13. ASSUME CaptureHolds(a)' /\ Running(a)'
       PROVE  Shown(a)'
  <2> HIDE DEF m
  <2>1. Running(a) /\ event'[a] = event[a]
    BY <1>2 DEF Running
  <2>2. QED BY <1>1, <1>2, <1>5, <1>13, <2>1, TellIsShown
<1>14. Quiet(a)'
  BY <1>2, <1>4 DEF Quiet
<1> HIDE DEF status, m
<1>15. CASE ~last /\ Goto(a, "discovering") /\ UNCHANGED <<place, troubled>>
  <2>1. step'[a] = "discovering" /\ (Troubled(a) => Troubled(a)') /\ place' = place /\ at'[a] = h + 1
    BY <1>1, <1>7, <1>15, TroubledStays DEF Goto, CollectionTyped
  <2>2. \A g \in Harnesses : g <= h => Measured(a, g)' /\ Reported(a, g)'
    BY <1>9, <1>10, <2>1
  <2>3. \A g \in Harnesses : (g < h + 1 => g <= h) /\ (g > h + 1 => g > h) /\ h + 1 > h
    <3>1. h \in Nat /\ \A g \in Harnesses : g \in Nat
      <4>1. h \in Harnesses
        BY <1>1
      <4>2. QED BY <4>1, HarnessesAre
    <3> HIDE DEF h, e, last, js, ps
    <3>2. TAKE g \in Harnesses
    <3>3. g \in Nat /\ h \in Nat
      BY <3>1
    <3>4. QED BY <3>3
  <2>4. h + 1 \in Harnesses
    BY <1>15
  <2>5. event'[a][at'[a]] = Blank /\ \A g \in Harnesses : g > at'[a] => event'[a][g] = Blank
    BY <1>2, <1>4, <2>1, <2>3, <2>4
  <2>6. \A j \in DOMAIN jobs'[a] : jobs'[a][j] < at'[a]
    <3>1. \A j \in DOMAIN js : js[j] \in Harnesses
      <4> HIDE DEF js
      <4>1. QED BY <1>1
    <3>2. ASSUME NEW g \in Harnesses, g < h \/ g = h PROVE g < h + 1
      <4>1. g \in Nat /\ h \in Nat
        BY <1>1, HarnessesAre
      <4> HIDE DEF h
      <4>2. QED BY <3>2, <4>1
    <3>3. QED BY <1>2, <1>4, <2>1, <3>1, <3>2
  <2>7. \A g \in Harnesses : g < at'[a] => Measured(a, g)' /\ Reported(a, g)'
    BY <2>1, <2>2, <2>3
  <2>8. \A j \in DOMAIN place'[a] : place'[a][j] = "held"
    BY <1>4, <2>1
  <2>9. Finds(a)'
    BY <1>14, <2>1, <2>5, <2>6, <2>7, <2>8 DEF Finds
  <2>10. CaptureHolds(a)' /\ Running(a)'
    BY <1>12, <2>1, <2>9, HoldsAt
  <2>11. QED BY <1>13, <2>10
<1>16. CASE last /\ js = << >> /\ Goto(a, "delivering") /\ UNCHANGED <<place, troubled>>
  <2>1. step'[a] = "delivering" /\ (Troubled(a) <=> Troubled(a)') /\ place' = place
    BY <1>1, <1>16, TroubledStays DEF Goto, CollectionTyped
  <2>2. \A g \in Harnesses : Measured(a, g) /\ Measured(a, g)' /\ Reported(a, g)'
    <3>1. \A g \in Harnesses : Measured(a, g)
      BY <1>1, <1>4, <1>11, <1>16, HarnessesAre
    <3>2. QED BY <1>9, <1>10, <1>11, <1>16, <2>1, <3>1
  <2>3. Delivers(a)'
    <3> SUFFICES ASSUME ~Troubled(a)', NEW g \in Harnesses
                 PROVE  /\ state'[a].harnesses[g] \in {"complete", "skipped"}
                        /\ event'[a][g].phase = "complete"
      BY DEF Delivers
    <3>1. Of(js, g) = {}
      BY <1>16 DEF Of
    <3>2. event[a][g].checked = 0 /\ event[a][g].total = 0 /\ event[a][g].phase = "complete"
      BY <1>8, <2>1, <2>2, <3>1
    <3>3. QED BY <1>2, <2>2, <3>2 DEF Reported
  <2>4. CaptureHolds(a)' /\ Running(a)'
    BY <1>12, <2>1, <2>3, HoldsAt
  <2>5. QED BY <1>13, <2>4
<1>17. CASE last /\ Spool(a)
  <2>1. CASE place' = [place EXCEPT ![a] = Issue(a, @)] /\ Goto(a, "working") /\ UNCHANGED troubled
    <3>1. step'[a] = "working" /\ (Troubled(a) => Troubled(a)') /\ place'[a] = Issue(a, ps)
      BY <1>1, <2>1, TroubledStays DEF Goto, CollectionTyped
    <3>2. \A g : \A s \in {"done", "reading"} : On(js, place'[a], g, s) = On(js, ps, g, s)
      <4> HIDE DEF js, ps
      <4>1. QED BY <1>1, <3>1, IssueTally DEF Places
    <3>3. \A g \in Harnesses : Measured(a, g)' /\ Reported(a, g)'
      BY <1>9, <1>10, <1>11, <1>17, <3>1, <3>2
    <3>4. \A g \in Harnesses : ~saving'[a][g]
      BY <1>2, <1>4
    <3>5. (\E j \in DOMAIN place'[a] : place'[a][j] = "held") =>
            \E j \in DOMAIN place'[a] : place'[a][j] \notin {"held", "done"}
      <4> HIDE DEF ps
      <4>1. DOMAIN Issue(a, ps) = DOMAIN ps
        BY DEF Issue
      <4>2. QED BY <1>1, <3>1, <4>1, IssueGivesOut
    <3>6. Works(a)'
      BY <3>1, <3>3, <3>4, <3>5 DEF Works
    <3>7. CaptureHolds(a)' /\ Running(a)'
      BY <1>12, <3>1, <3>6, HoldsAt
    <3>8. QED BY <1>13, <3>7
  <2>2. CASE /\ troubled' = [troubled EXCEPT ![a] = "collection_failed"]
             /\ Goto(a, IF cancelled[a] THEN "stopping" ELSE "failing")
             /\ UNCHANGED place
    <3>1. Troubled(a)'
      BY <1>1, <2>2, TroubledNow
    <3>2. step'[a] \in {"stopping", "failing"} /\ place' = place
      BY <1>1, <2>2 DEF Goto, CollectionTyped
    <3>3. \A g \in Harnesses : Measured(a, g)' /\ Reported(a, g)'
      BY <1>9, <1>10, <1>11, <1>17, <3>1, <3>2
    <3>4. \A j \in DOMAIN place'[a] : place'[a][j] \in {"held", "done"}
      BY <1>4, <3>2
    <3>5. Stops(a)'
      BY <1>14, <3>1, <3>3, <3>4 DEF Stops
    <3>6. CaptureHolds(a)' /\ Running(a)'
      BY <1>12, <3>1, <3>2, <3>5, HoldsAt
    <3>7. QED BY <1>13, <3>6
  <2>3. QED BY <1>17, <2>1, <2>2 DEF Spool
<1>18. QED BY <1>2, <1>15, <1>16, <1>17

\* The collection is refused before it looks.
LEMMA UnavailableHolds ==
  ASSUME ProgressAssumption, RegistryAssumption, ProgressInv, NEW a \in Attempts, CaptureHolds(a), Shown(a), Unavailable(a)
  PROVE  CaptureHolds(a)' /\ Shown(a)'
<1>1. RegistryTyped /\ CollectionTyped
  BY CollectionHas
<1>2. /\ step[a] = "discovering" /\ step'[a] \in {"delivering", "ending"}
      /\ troubled' = [troubled EXCEPT ![a] = "collection_failed"]
      /\ UNCHANGED <<now, attempts, refused, event, saving, jobs, place, at, cancelled, beat, state, sent, closed>>
  BY <1>1 DEF Unavailable, Goto, CollectionTyped, registryVars, measureVars
<1>3. Troubled(a)'
  BY <1>1, <1>2, TroubledNow
<1>4. Delivers(a)'
  BY <1>3 DEF Delivers
<1>5. FailuresTold(a)' /\ state'[a].batches <= sent'[a]
  BY <1>2, <1>3, FailuresStay DEF CaptureHolds
<1>6. CaptureHolds(a)' /\ Running(a)'
  BY <1>2, <1>4, <1>5, HoldsAt
<1>7. Running(a)
  BY <1>2 DEF Running
<1>8. QED BY <1>2, <1>6, <1>7, StillIsShown

\* What is measured then: the counts are those of the places, and the registry takes the
\* measurement after the one before.
Measures(d, sav, js, qs, h, e, c) ==
  /\ d \in Measurements /\ Tallied(d, sav, js, qs, h)
  /\ ValidCapture(d) /\ d.phase # "none" /\ Follows(e, d)
  /\ d.checked = c.checked /\ d.total = c.total /\ d.count = c.count

\* Counts c taken from the places qs, after the measurement e of a harness not through.
CountsNext(e, c, js, qs, h) ==
  /\ e.known /\ e.phase \notin CaptureTerminal /\ e.total = Cardinality(Of(js, h))
  /\ c.known /\ c.total = e.total /\ c.checked = Sum(c.count)
  /\ \A o \in Outcomes : e.count[o] <= c.count[o]
  /\ c.checked = Cardinality(On(js, qs, h, "done")) /\ c.active = Cardinality(On(js, qs, h, "reading"))

\* A source moved, and its harness is measured again.
LEMMA MovedTally ==
  ASSUME NEW js \in Seq(Harnesses), NEW h, NEW qs, NEW sav \in BOOLEAN,
         NEW e \in Measurements, NEW c \in Measurements, CountsNext(e, c, js, qs, h)
  PROVE  Measures(CaptureWorkPhase(c, sav), sav, js, qs, h, e, c)
<1>2. /\ e.known /\ e.phase \notin CaptureTerminal /\ e.total = Cardinality(Of(js, h))
      /\ c.known /\ c.total = e.total /\ c.checked = Sum(c.count)
      /\ \A o \in Outcomes : e.count[o] <= c.count[o]
      /\ c.checked = Cardinality(On(js, qs, h, "done")) /\ c.active = Cardinality(On(js, qs, h, "reading"))
  BY DEF CountsNext
<1> DEFINE d == CaptureWorkPhase(c, sav)
<1>3. /\ d \in Measurements /\ d.phase = WorkPhase(c, sav) /\ d.known = c.known /\ d.total = c.total
      /\ d.checked = c.checked /\ d.active = c.active /\ d.count = c.count
  BY WorkPhaseIs, WorkPhaseTyped
<1>4. c.total = Cardinality(Of(js, h))
  BY <1>2
<1>5. c.active \in Nat /\ c.checked + c.active <= c.total
  BY <1>2, <1>4, TallyFits DEF Places
<1>6. ValidCapture(d) /\ d.phase # "none" /\ Follows(e, d)
  BY <1>2, <1>4, <1>5, WorkFollows
<1> HIDE DEF d
<1>7. d.phase = WorkPhase(d, sav)
  BY <1>3 DEF WorkPhase
<1>8. /\ d.known /\ d.total = Cardinality(Of(js, h)) /\ d.checked = Cardinality(On(js, qs, h, "done"))
      /\ d.checked = Sum(d.count) /\ d.active = Cardinality(On(js, qs, h, "reading"))
  BY <1>2, <1>3, <1>4
<1>9. Tallied(d, sav, js, qs, h)
  BY <1>3, <1>7, <1>8, TalliedBy
<1>10. QED BY <1>3, <1>6, <1>9 DEF Measures, d

\* What is known when the writer or a worker turns to a source.
LEMMA AtWork ==
  ASSUME ProgressInv, NEW a \in Attempts, NEW j \in DOMAIN place[a], CaptureHolds(a), step[a] = "working",
         place[a][j] # "done"
  PROVE  LET js == jobs[a]
             h == jobs[a][j]
             e == event[a][h]
         IN /\ RegistryTyped /\ CollectionTyped /\ js \in Seq(Harnesses) /\ place[a] \in Seq(Places)
            /\ Len(js) = Len(place[a]) /\ DOMAIN js = DOMAIN place[a] /\ j \in Of(js, h)
            /\ h \in Harnesses /\ e \in Measurements /\ saving[a][h] \in BOOLEAN /\ e # Blank
            /\ Tallied(e, saving[a][h], js, place[a], h)
            /\ Works(a) /\ FailuresTold(a) /\ state[a].batches <= sent[a] /\ Running(a)
            /\ \A g \in Harnesses : /\ Measured(a, g) /\ Reported(a, g)
                                    /\ saving[a][g] => \E i \in DOMAIN js : js[i] = g /\ place[a][i] = "saving"
<1>1. /\ RegistryTyped /\ CollectionTyped /\ jobs[a] \in Seq(Harnesses) /\ place[a] \in Seq(Places)
      /\ Len(jobs[a]) = Len(place[a]) /\ DOMAIN jobs[a] = DOMAIN place[a]
      /\ \A h \in Harnesses : event[a][h] \in Measurements /\ saving[a][h] \in BOOLEAN
  BY CollectionHas
<1>2. jobs[a][j] \in Harnesses /\ j \in Of(jobs[a], jobs[a][j])
  BY <1>1 DEF Of
<1>3. Works(a) /\ FailuresTold(a) /\ state[a].batches <= sent[a] /\ Running(a)
  BY DEF CaptureHolds, Running
<1>4. \A g \in Harnesses : /\ Measured(a, g) /\ Reported(a, g)
                           /\ saving[a][g] => \E i \in DOMAIN jobs[a] : jobs[a][i] = g /\ place[a][i] = "saving"
  BY <1>3 DEF Works
<1>5. Tallied(event[a][jobs[a][j]], saving[a][jobs[a][j]], jobs[a], place[a], jobs[a][j])
  BY <1>2, <1>4 DEF Measured
<1>6. event[a][jobs[a][j]] # Blank
  BY <1>5, BlankHas DEF Tallied
<1>7. QED BY <1>1, <1>2, <1>3, <1>4, <1>5, <1>6

\* A worker takes a source, and is done with it.
LEMMA ReadingHolds ==
  ASSUME ProgressAssumption, RegistryAssumption, ProgressInv, NEW a \in Attempts, CaptureHolds(a), Shown(a),
         NEW j \in DOMAIN place[a], Reading(a, j)
  PROVE  CaptureHolds(a)' /\ Shown(a)'
<1> DEFINE js == jobs[a]
           ps == place[a]
<1>0. step[a] = "working" /\ ps[j] \in {"queued", "reading"}
  BY DEF Reading
<1>21. PICK h \in Harnesses : h = js[j]
  <2>1. js[j] \in Harnesses
    BY <1>0, AtWork
  <2>2. QED BY <2>1
<1> DEFINE e == event[a][h]
           sav == saving[a][h]
<1>1. h = js[j] /\ RegistryTyped /\ CollectionTyped /\ js \in Seq(Harnesses) /\ ps \in Seq(Places)
      /\ Len(js) = Len(ps) /\ DOMAIN js = DOMAIN ps /\ j \in DOMAIN ps /\ j \in Of(js, h)
      /\ h \in Harnesses /\ e \in Measurements /\ sav \in BOOLEAN /\ e # Blank
      /\ Tallied(e, sav, js, ps, h)
      /\ FailuresTold(a) /\ state[a].batches <= sent[a] /\ Running(a)
      /\ \A g \in Harnesses : /\ Measured(a, g) /\ Reported(a, g)
                              /\ saving[a][g] => \E i \in DOMAIN js : js[i] = g /\ ps[i] = "saving"
  BY <1>0, <1>21, AtWork
<1>2. e.active \in Int /\ e.checked \in Nat /\ e.total \in Nat /\ \A o \in Outcomes : e.count[o] \in Nat
  BY <1>1, MeasurementHas
<1>3. PICK n \in Int, p \in {"reading", "read"} :
        /\ place' = [place EXCEPT ![a] = [ps EXCEPT ![j] = p]]
        /\ Measure(a, h, CaptureWorkPhase([e EXCEPT !.active = n], sav))
        /\ \/ ps[j] = "queued" /\ p = "reading" /\ n = e.active + 1
           \/ ps[j] = "reading" /\ p = "read" /\ n = e.active - 1
  <2>1. /\ [event[a][jobs[a][j]] EXCEPT !.active = @ + 1] = [e EXCEPT !.active = e.active + 1]
        /\ [event[a][jobs[a][j]] EXCEPT !.active = @ - 1] = [e EXCEPT !.active = e.active - 1]
    BY <1>1 DEF Measurements
  <2>2. \A p : [place EXCEPT ![a][j] = p] = [place EXCEPT ![a] = [ps EXCEPT ![j] = p]]
    OBVIOUS
  <2>3. CASE ps[j] = "queued" /\ Move(a, j, "reading")
             /\ Measure(a, h, CaptureWorkPhase([e EXCEPT !.active = e.active + 1], sav))
    <3>1. e.active + 1 \in Int
      BY <1>2
    <3> HIDE DEF e, sav
    <3> QED
      BY <2>2, <2>3, <3>1 DEF Move
  <2>4. CASE ps[j] = "reading" /\ Move(a, j, "read")
             /\ Measure(a, h, CaptureWorkPhase([e EXCEPT !.active = e.active - 1], sav))
    <3>1. e.active - 1 \in Int
      BY <1>2
    <3> HIDE DEF e, sav
    <3> QED
      BY <2>2, <2>4, <3>1 DEF Move
  <2> QED
    BY <1>1, <2>1, <2>3, <2>4 DEF Reading
<1> DEFINE qs == Moved(ps, j, p)
           c == [e EXCEPT !.active = n]
           d == CaptureWorkPhase(c, sav)
<1>4. /\ step'[a] = "working" /\ jobs' = jobs /\ place'[a] = qs /\ Measure(a, h, d)
      /\ UNCHANGED <<saving, step, at, cancelled, beat, state, troubled, sent, closed>>
  <2>1. place'[a] = qs
    BY <1>1, <1>3 DEF CollectionTyped, Moved
  <2>2. Measure(a, h, d)
    BY <1>3
  <2>3. QED BY <1>0, <2>1, <2>2 DEF Reading, collectionVars
<1>5. /\ c \in Measurements /\ c.known = e.known /\ c.total = e.total /\ c.active = n
      /\ c.checked = e.checked /\ c.count = e.count
  BY <1>1, ActiveIs
<1>6. p \in Places /\ ps[j] # p /\ ps[j] \in Places /\ ps[j] # "done" /\ ps[j] # "saving"
  BY <1>0, <1>3 DEF Places
<1> HIDE DEF js, ps, e, sav
<1>7. /\ Cardinality(On(js, qs, h, "done")) = Cardinality(On(js, ps, h, "done"))
      /\ Cardinality(On(js, qs, h, "reading")) = n
      /\ \A g : g # h => \A s \in Places : On(js, qs, g, s) = On(js, ps, g, s)
  <2>1. "done" \in Places /\ "reading" \in Places
    BY DEF Places
  <2>9. /\ js \in Seq(Harnesses) /\ ps \in Seq(Places) /\ Len(js) = Len(ps) /\ j \in DOMAIN ps
        /\ p \in Places /\ ps[j] # p /\ h = js[j]
    BY <1>1, <1>6
  <2>10. "done" \notin {p, ps[j]}
    BY <1>3, <1>6
  <2>11. \A g : \A s \in Places : MoveCounts(js, ps, j, p, g, s)
    BY <2>9, MoveTally
  <2>2. On(js, qs, h, "done") = On(js, ps, h, "done")
    BY <2>1, <2>9, <2>10, <2>11 DEF MoveCounts
  <2>3. e.active = Cardinality(On(js, ps, h, "reading"))
    BY <1>1 DEF Tallied
  <2>12. MoveCounts(js, ps, j, p, h, "reading")
    BY <2>1, <2>11
  <2>4. ASSUME ps[j] = "queued" /\ p = "reading" /\ n = e.active + 1
        PROVE  Cardinality(On(js, qs, h, "reading")) = n
    BY <2>3, <2>4, <2>9, <2>12 DEF MoveCounts
  <2>5. ASSUME ps[j] = "reading" /\ p = "read" /\ n = e.active - 1
        PROVE  Cardinality(On(js, qs, h, "reading")) = n
    BY <2>3, <2>5, <2>9, <2>12 DEF MoveCounts
  <2>6. \A g : g # h => \A s \in Places : On(js, qs, g, s) = On(js, ps, g, s)
    BY <2>9, <2>11 DEF MoveCounts
  <2>7. QED BY <1>3, <2>2, <2>4, <2>5, <2>6
<1>8. /\ d \in Measurements /\ Tallied(d, sav, js, qs, h)
      /\ ValidCapture(d) /\ d.phase # "none" /\ Follows(e, d)
      /\ d.checked = e.checked /\ d.total = e.total /\ d.count = e.count
  <2>1. /\ c.checked = Sum(c.count) /\ (\A o \in Outcomes : e.count[o] <= c.count[o])
        /\ c.checked = Cardinality(On(js, qs, h, "done")) /\ c.active = Cardinality(On(js, qs, h, "reading"))
        /\ Tallied(e, sav, js, ps, h)
    BY <1>1, <1>2, <1>5, <1>7 DEF Tallied
  <2>2. /\ js \in Seq(Harnesses) /\ sav \in BOOLEAN /\ e \in Measurements /\ e.known /\ e.total = Cardinality(Of(js, h))
        /\ c \in Measurements /\ c.known /\ c.total = e.total
    BY <1>1, <1>5 DEF Tallied
  <2>6. e.phase \notin CaptureTerminal
    BY <1>1, <1>6, NotThrough
  <2>3. c.checked = e.checked /\ c.count = e.count
    BY <1>5
  <2> HIDE DEF c, qs
  <2>4. Measures(d, sav, js, qs, h, e, c)
    <3>1. CountsNext(e, c, js, qs, h)
      BY <2>1, <2>2, <2>6 DEF CountsNext
    <3>2. QED BY <2>2, <3>1, MovedTally
  <2> HIDE DEF d
  <2>5. QED BY <2>2, <2>3, <2>4 DEF Measures
<1> HIDE DEF c, d
<1>9. event'[a][h] = d /\ \A g \in Harnesses \ {h} : event'[a][g] = event[a][g]
  BY <1>1, <1>4, EventIs
<1>10. Troubled(a) => Troubled(a)'
  BY <1>4, TroubledStays
<1>11. FailuresTold(a)' /\ state'[a].batches <= sent'[a]
  <2>1. \A g \in Harnesses : event'[a][g].count = event[a][g].count
    BY <1>8, <1>9 DEF e
  <2>2. QED BY <1>1, <1>4, <1>10, <2>1, FailuresStay
<1>12. qs[j] = p /\ DOMAIN qs = DOMAIN ps /\ \A i \in DOMAIN ps : i # j => qs[i] = ps[i]
  BY <1>1 DEF Moved
<1> HIDE DEF qs
<1>13. \A i \in DOMAIN js : ps[i] = "saving" => qs[i] = "saving"
  BY <1>1, <1>6, <1>12
<1>14. ASSUME NEW g \in Harnesses \ {h}
       PROVE  /\ Measured(a, g)' /\ Reported(a, g)'
              /\ saving'[a][g] => \E i \in DOMAIN js : js[i] = g /\ qs[i] = "saving"
  <2>1. \A s \in {"done", "reading"} : On(js, qs, g, s) = On(js, ps, g, s)
    BY <1>7 DEF Places
  <2>2. event'[a][g] = event[a][g] /\ saving'[a][g] = saving[a][g] /\ Measured(a, g) /\ Reported(a, g)
    BY <1>1, <1>4, <1>9
  <2>3. Measured(a, g)'
    BY <1>4, <1>10, <2>1, <2>2, MeasuredStays DEF js, ps
  <2>4. Reported(a, g)'
    BY <1>4, <1>10, <2>2, ReportedStays
  <2>5. saving'[a][g] => \E i \in DOMAIN js : js[i] = g /\ qs[i] = "saving"
    BY <1>1, <1>13, <2>2
  <2>6. QED BY <2>3, <2>4, <2>5
<1>15. /\ Measured(a, h)' /\ Reported(a, h)'
       /\ saving'[a][h] => \E i \in DOMAIN js : js[i] = h /\ qs[i] = "saving"
  <2>1. Measured(a, h)'
    BY <1>4, <1>8, <1>9 DEF Measured, sav, js
  <2>2. e.checked < e.total
    BY <1>1, <1>6, NotThrough
  <2>3. Reported(a, h)'
    BY <1>2, <1>8, <1>9, <2>2 DEF Reported
  <2>4. saving'[a][h] => \E i \in DOMAIN js : js[i] = h /\ qs[i] = "saving"
    BY <1>1, <1>4, <1>13
  <2>5. QED BY <2>1, <2>3, <2>4
<1>16. Works(a)'
  <2>1. j \in DOMAIN qs /\ qs[j] \notin {"held", "done"}
    BY <1>1, <1>3, <1>12
  <2>2. jobs'[a] = js
    BY <1>4 DEF js
  <2>3. QED BY <1>4, <1>14, <1>15, <2>1, <2>2 DEF Works
<1>17. CaptureHolds(a)' /\ Running(a)'
  BY <1>4, <1>11, <1>16, HoldsAt
<1>18. Legit(a, h, d)
  BY <1>8 DEF Legit, e
<1>19. state'[a] = state[a]
  BY <1>4
<1>20. QED BY <1>1, <1>4, <1>8, <1>17, <1>18, <1>19, MeasureIsShown

\* The writer takes a source that was read.
LEMMA SavingHolds ==
  ASSUME ProgressAssumption, RegistryAssumption, ProgressInv, NEW a \in Attempts, CaptureHolds(a), Shown(a),
         NEW j \in DOMAIN place[a], Saving(a, j)
  PROVE  CaptureHolds(a)' /\ Shown(a)'
<1> DEFINE js == jobs[a]
           ps == place[a]
<1>0. step[a] = "working" /\ ps[j] = "read"
  BY DEF Saving, Turn
<1>21. PICK h \in Harnesses : h = js[j]
  <2>1. js[j] \in Harnesses
    BY <1>0, AtWork
  <2>2. QED BY <2>1
<1> DEFINE e == event[a][h]
           sav == saving[a][h]
<1>1. /\ h = js[j] /\ RegistryTyped /\ CollectionTyped /\ js \in Seq(Harnesses) /\ ps \in Seq(Places)
      /\ Len(js) = Len(ps) /\ DOMAIN js = DOMAIN ps /\ j \in DOMAIN ps /\ j \in Of(js, h)
      /\ h \in Harnesses /\ e \in Measurements /\ sav \in BOOLEAN /\ e # Blank
      /\ Tallied(e, sav, js, ps, h)
      /\ FailuresTold(a) /\ state[a].batches <= sent[a] /\ Running(a)
      /\ \A g \in Harnesses : /\ Measured(a, g) /\ Reported(a, g)
                              /\ saving[a][g] => \E i \in DOMAIN js : js[i] = g /\ ps[i] = "saving"
  BY <1>0, <1>21, AtWork
<1>2. e.active \in Int /\ e.checked \in Nat /\ e.total \in Nat /\ \A o \in Outcomes : e.count[o] \in Nat
  BY <1>1, MeasurementHas
<1> DEFINE qs == Moved(ps, j, "saving")
           d == CaptureWorkPhase(e, TRUE)
<1>4. /\ step'[a] = "working" /\ jobs' = jobs /\ place'[a] = qs /\ Measure(a, h, d)
      /\ saving' = [saving EXCEPT ![a][h] = TRUE]
      /\ UNCHANGED <<step, at, cancelled, beat, state, troubled, sent, closed>>
  <2>1. place' = [place EXCEPT ![a][j] = "saving"]
    BY DEF Saving, Move
  <2>2. place'[a] = qs
    BY <1>1, <2>1 DEF CollectionTyped, Moved
  <2>3. QED BY <1>0, <1>1, <2>2 DEF Saving, collectionVars
<1>5. saving'[a][h] = TRUE /\ \A g \in Harnesses \ {h} : saving'[a][g] = saving[a][g]
  BY <1>1, <1>4 DEF CollectionTyped
<1>6. "saving" \in Places /\ "done" \in Places /\ "reading" \in Places /\ ps[j] # "saving" /\ ps[j] # "done"
      /\ ps[j] # "reading"
  BY <1>0 DEF Places
<1> HIDE DEF js, ps, e, sav
<1>7. \A g : \A s \in {"done", "reading"} : On(js, qs, g, s) = On(js, ps, g, s)
  <2>9. /\ js \in Seq(Harnesses) /\ ps \in Seq(Places) /\ Len(js) = Len(ps) /\ j \in DOMAIN ps
        /\ "saving" \in Places /\ ps[j] # "saving"
    BY <1>1, <1>6
  <2>11. \A g : \A s \in Places : MoveCounts(js, ps, j, "saving", g, s)
    BY <2>9, MoveTally
  <2>12. "done" \notin {"saving", ps[j]} /\ "reading" \notin {"saving", ps[j]}
    BY <1>6
  <2>13. QED BY <1>6, <2>11, <2>12 DEF MoveCounts
<1>8. Measures(d, TRUE, js, qs, h, e, e)
  <2>1. /\ e.known /\ e.total = Cardinality(Of(js, h)) /\ e.checked = Sum(e.count)
        /\ e.checked = Cardinality(On(js, qs, h, "done")) /\ e.active = Cardinality(On(js, qs, h, "reading"))
    BY <1>1, <1>7 DEF Tallied
  <2>2. e.phase \notin CaptureTerminal
    BY <1>1, <1>6, NotThrough
  <2>3. CountsNext(e, e, js, qs, h)
    BY <1>2, <2>1, <2>2 DEF CountsNext
  <2>4. QED BY <1>1, <2>3, MovedTally
<1> HIDE DEF d
<1>9. event'[a][h] = d /\ \A g \in Harnesses \ {h} : event'[a][g] = event[a][g]
  BY <1>1, <1>4, EventIs
<1>10. Troubled(a) => Troubled(a)'
  BY <1>4, TroubledStays
<1>11. FailuresTold(a)' /\ state'[a].batches <= sent'[a]
  <2>1. \A g \in Harnesses : event'[a][g].count = event[a][g].count
    BY <1>8, <1>9 DEF e, Measures
  <2>2. QED BY <1>1, <1>4, <1>10, <2>1, FailuresStay
<1>12. qs[j] = "saving" /\ DOMAIN qs = DOMAIN ps /\ \A i \in DOMAIN ps : i # j => qs[i] = ps[i]
  BY <1>1 DEF Moved
<1> HIDE DEF qs
<1>13. \A i \in DOMAIN js : ps[i] = "saving" => qs[i] = "saving"
  BY <1>1, <1>12
<1>14. ASSUME NEW g \in Harnesses \ {h}
       PROVE  /\ Measured(a, g)' /\ Reported(a, g)'
              /\ saving'[a][g] => \E i \in DOMAIN js : js[i] = g /\ qs[i] = "saving"
  <2>1. \A s \in {"done", "reading"} : On(js, qs, g, s) = On(js, ps, g, s)
    BY <1>7
  <2>2. event'[a][g] = event[a][g] /\ saving'[a][g] = saving[a][g] /\ Measured(a, g) /\ Reported(a, g)
    BY <1>1, <1>5, <1>9
  <2>3. Measured(a, g)'
    BY <1>4, <1>10, <2>1, <2>2, MeasuredStays DEF js, ps
  <2>4. Reported(a, g)'
    BY <1>4, <1>10, <2>2, ReportedStays
  <2>5. saving'[a][g] => \E i \in DOMAIN js : js[i] = g /\ qs[i] = "saving"
    BY <1>1, <1>13, <2>2
  <2>6. QED BY <2>3, <2>4, <2>5
<1>15. Measured(a, h)' /\ Reported(a, h)'
  <2>1. Measured(a, h)'
    BY <1>4, <1>5, <1>8, <1>9 DEF Measured, Measures, js
  <2>2. e.checked < e.total
    BY <1>1, <1>6, NotThrough
  <2>3. Reported(a, h)'
    BY <1>2, <1>8, <1>9, <2>2 DEF Reported, Measures
  <2>4. QED BY <2>1, <2>3
<1>16. Works(a)'
  <2>1. j \in DOMAIN qs /\ qs[j] = "saving" /\ js[j] = h /\ j \in DOMAIN js
    BY <1>1, <1>12
  <2>2. jobs'[a] = js
    BY <1>4 DEF js
  <2>3. \A g \in Harnesses :
          /\ Measured(a, g)' /\ Reported(a, g)'
          /\ saving'[a][g] => \E i \in DOMAIN js : js[i] = g /\ qs[i] = "saving"
    BY <1>14, <1>15, <2>1
  <2>4. \E i \in DOMAIN qs : qs[i] \notin {"held", "done"}
    BY <2>1
  <2>5. QED BY <1>4, <2>2, <2>3, <2>4 DEF Works
<1>17. CaptureHolds(a)' /\ Running(a)'
  BY <1>4, <1>11, <1>16, HoldsAt
<1>18. Legit(a, h, d) /\ d \in Measurements
  BY <1>8 DEF Legit, Measures, e
<1>19. state'[a] = state[a]
  BY <1>4
<1>20. QED BY <1>1, <1>4, <1>17, <1>18, <1>19, MeasureIsShown

\* The writer is done with a source.
LEMMA FinalizedHolds ==
  ASSUME ProgressAssumption, RegistryAssumption, ProgressInv, NEW a \in Attempts, CaptureHolds(a), Shown(a),
         NEW j \in DOMAIN place[a], NEW o \in Outcomes, Finalized(a, j, o)
  PROVE  CaptureHolds(a)' /\ Shown(a)'
<1> DEFINE js == jobs[a]
           ps == place[a]
<1>0. step[a] = "working" /\ ps[j] \in {"saving", "read"}
  BY DEF Finalized, Turn
<1>21. PICK h \in Harnesses : h = js[j]
  <2>1. js[j] \in Harnesses
    BY <1>0, AtWork
  <2>2. QED BY <2>1
<1> DEFINE e == event[a][h]
           sav == saving[a][h]
<1>1. /\ h = js[j] /\ RegistryTyped /\ CollectionTyped /\ js \in Seq(Harnesses) /\ ps \in Seq(Places)
      /\ Len(js) = Len(ps) /\ DOMAIN js = DOMAIN ps /\ j \in DOMAIN ps /\ j \in Of(js, h)
      /\ h \in Harnesses /\ e \in Measurements /\ sav \in BOOLEAN /\ e # Blank
      /\ Tallied(e, sav, js, ps, h)
      /\ FailuresTold(a) /\ state[a].batches <= sent[a] /\ Running(a)
      /\ \A g \in Harnesses : /\ Measured(a, g) /\ Reported(a, g)
                              /\ saving[a][g] => \E i \in DOMAIN js : js[i] = g /\ ps[i] = "saving"
  BY <1>0, <1>21, AtWork
<1>2. e.active \in Int /\ e.checked \in Nat /\ e.total \in Nat /\ \A x \in Outcomes : e.count[x] \in Nat
  BY <1>1, MeasurementHas
<1> DEFINE qs == Moved(ps, j, "done")
           c == Counted(e, o)
           d == CaptureWorkPhase(c, FALSE)
           last == \A k \in DOMAIN qs : js[k] = h => qs[k] = "done"
           fs == IF last \/ cancelled[a] THEN qs ELSE Issue(a, qs)
<1>3. /\ place' = [place EXCEPT ![a] = fs] /\ Measure(a, h, d) /\ saving' = [saving EXCEPT ![a][h] = FALSE]
      /\ step' = [step EXCEPT ![a] = IF last THEN "summing" ELSE "working"] /\ at' = [at EXCEPT ![a] = h]
      /\ troubled' = IF o = "failed" THEN [troubled EXCEPT ![a] = "collection_failed"] ELSE troubled
      /\ UNCHANGED <<jobs, cancelled, beat, state, sent, closed>>
  BY <1>1 DEF Finalized, Goto, Moved
<1> HIDE DEF js, ps, e, sav, c, d, last, fs
<1>4. /\ step'[a] = (IF last THEN "summing" ELSE "working") /\ at'[a] = h /\ place'[a] = fs
      /\ saving'[a][h] = FALSE /\ \A g \in Harnesses \ {h} : saving'[a][g] = saving[a][g]
  BY <1>1, <1>3 DEF CollectionTyped
<1>5. "saving" \in Places /\ "done" \in Places /\ "reading" \in Places /\ ps[j] # "done"
      /\ ps[j] # "reading"
  BY <1>0 DEF Places, ps
<1>6. /\ qs \in Seq(Places) /\ Len(qs) = Len(js) /\ qs[j] = "done" /\ DOMAIN qs = DOMAIN ps
      /\ \A i \in DOMAIN ps : i # j => qs[i] = ps[i]
  BY <1>1, <1>5 DEF Moved
<1>7. /\ Cardinality(On(js, qs, h, "done")) = e.checked + 1 /\ On(js, qs, h, "reading") = On(js, ps, h, "reading")
      /\ \A g : g # h => \A s \in {"done", "reading"} : On(js, qs, g, s) = On(js, ps, g, s)
  <2>9. /\ js \in Seq(Harnesses) /\ ps \in Seq(Places) /\ Len(js) = Len(ps) /\ j \in DOMAIN ps
        /\ "done" \in Places /\ ps[j] # "done" /\ h = js[j]
    BY <1>1, <1>5
  <2>11. \A g : \A s \in Places : MoveCounts(js, ps, j, "done", g, s)
    BY <2>9, MoveTally
  <2>12. "reading" \notin {"done", ps[j]} /\ "reading" \in Places
    BY <1>5
  <2>1. e.checked = Cardinality(On(js, ps, h, "done"))
    BY <1>1 DEF Tallied
  <2>2. MoveCounts(js, ps, j, "done", h, "done") /\ MoveCounts(js, ps, j, "done", h, "reading")
    BY <2>9, <2>11, <2>12
  <2>3. Cardinality(On(js, qs, h, "done")) = e.checked + 1
    BY <2>1, <2>2, <2>9 DEF MoveCounts
  <2>4. On(js, qs, h, "reading") = On(js, ps, h, "reading")
    BY <2>2, <2>12 DEF MoveCounts
  <2>5. \A g : g # h => \A s \in {"done", "reading"} : On(js, qs, g, s) = On(js, ps, g, s)
    BY <2>9, <2>11, <2>12 DEF MoveCounts
  <2>6. QED BY <2>3, <2>4, <2>5
<1>8. /\ c \in Measurements /\ c.known = e.known /\ c.total = e.total /\ c.active = e.active
      /\ c.checked = e.checked + 1 /\ Sum(c.count) = Sum(e.count) + 1
      /\ \A x \in Outcomes : c.count[x] = IF x = o THEN e.count[x] + 1 ELSE e.count[x]
  BY <1>1, CountedTyped, CountedIs DEF c
<1> HIDE DEF qs
<1>9. Measures(d, FALSE, js, qs, h, e, c)
  <2>1. e.known /\ e.total = Cardinality(Of(js, h)) /\ e.checked = Sum(e.count)
        /\ e.active = Cardinality(On(js, ps, h, "reading"))
    BY <1>1 DEF Tallied
  <2>2. e.phase \notin CaptureTerminal
    BY <1>1, <1>5, NotThrough
  <2>5. \A x \in Outcomes : e.count[x] <= c.count[x]
    BY <1>2, <1>8
  <2>3. CountsNext(e, c, js, qs, h)
    BY <1>7, <1>8, <2>1, <2>2, <2>5 DEF CountsNext
  <2>4. QED BY <1>1, <1>8, <2>3, MovedTally DEF d
<1>10. event'[a][h] = d /\ \A g \in Harnesses \ {h} : event'[a][g] = event[a][g]
  BY <1>1, <1>3, EventIs
<1>11. (o = "failed" => Troubled(a)') /\ (Troubled(a) => Troubled(a)')
  <2>1. CASE o = "failed"
    BY <1>1, <1>3, <2>1, TroubledNow
  <2>2. CASE o # "failed"
    BY <1>3, <2>2, TroubledStays
  <2>3. QED BY <2>1, <2>2
<1>12. FailuresTold(a)' /\ state'[a].batches <= sent'[a]
  <2>1. ASSUME NEW g \in Harnesses, event'[a][g].count["failed"] > 0, o # "failed"
        PROVE  Troubled(a)'
    <3>1. event'[a][g].count["failed"] = event[a][g].count["failed"]
      <4>1. CASE g = h
        <5>1. d.count["failed"] = e.count["failed"]
          BY <1>8, <1>9, <2>1 DEF Measures, Outcomes
        <5>2. QED BY <1>10, <4>1, <5>1 DEF e
      <4>2. CASE g # h
        BY <1>10, <4>2
      <4>3. QED BY <4>1, <4>2
    <3>2. QED BY <1>1, <1>11, <2>1, <3>1 DEF FailuresTold
  <2>2. FailuresTold(a)'
    BY <1>11, <2>1 DEF FailuresTold
  <2>3. QED BY <1>1, <1>3, <2>2
<1>13. /\ \A g : \A s \in {"done", "reading"} : On(js, fs, g, s) = On(js, qs, g, s)
       /\ DOMAIN fs = DOMAIN qs /\ \A i \in DOMAIN qs : qs[i] # "held" => fs[i] = qs[i]
  <2>1. \A g : \A s \in {"done", "reading"} : On(js, Issue(a, qs), g, s) = On(js, qs, g, s)
    BY <1>1, <1>6, IssueTally DEF Places
  <2>2. DOMAIN Issue(a, qs) = DOMAIN qs /\ \A i \in DOMAIN qs : qs[i] # "held" => Issue(a, qs)[i] = qs[i]
    BY <1>6, IssueMoves DEF Issue
  <2>3. fs = qs \/ fs = Issue(a, qs)
    BY DEF fs
  <2>4. QED BY <2>1, <2>2, <2>3
<1>14. ASSUME NEW g \in Harnesses \ {h}
       PROVE  /\ Measured(a, g)' /\ Reported(a, g)'
              /\ saving'[a][g] => \E i \in DOMAIN js : js[i] = g /\ fs[i] = "saving"
  <2>1. \A s \in {"done", "reading"} : On(js, fs, g, s) = On(js, ps, g, s)
    BY <1>7, <1>13
  <2>2. event'[a][g] = event[a][g] /\ saving'[a][g] = saving[a][g] /\ Measured(a, g) /\ Reported(a, g)
    BY <1>1, <1>4, <1>10
  <2>3. Measured(a, g)'
    BY <1>3, <1>4, <1>11, <2>1, <2>2, MeasuredStays DEF js, ps
  <2>4. Reported(a, g)'
    BY <1>3, <1>11, <2>2, ReportedStays
  <2>5. saving'[a][g] => \E i \in DOMAIN js : js[i] = g /\ fs[i] = "saving"
    <3>1. ASSUME NEW i \in DOMAIN js, js[i] = g, ps[i] = "saving"
          PROVE  fs[i] = "saving"
      <4>1. i # j /\ i \in DOMAIN ps /\ i \in DOMAIN qs
        BY <1>1, <1>6, <3>1
      <4>2. qs[i] = "saving"
        BY <1>6, <3>1, <4>1
      <4>3. QED BY <1>13, <4>1, <4>2
    <3>2. QED BY <1>1, <2>2, <3>1
  <2>6. QED BY <2>3, <2>4, <2>5
<1>15. Measured(a, h)' /\ (Reported(a, h)' \/ (step'[a] = "summing" /\ at'[a] = h)) /\ ~saving'[a][h]
  <2>1. Measured(a, h)'
    <3>1. Tallied(d, FALSE, js, fs, h)
      BY <1>9, <1>13 DEF Measures, Tallied
    <3>2. QED BY <1>3, <1>4, <1>10, <3>1 DEF Measured, js
  <2>2. CASE last
    BY <1>4, <2>1, <2>2
  <2>3. CASE ~last
    <3>1. PICK k \in DOMAIN qs : js[k] = h /\ qs[k] # "done"
      BY <2>3 DEF last
    <3>2. k \in Of(js, h)
      BY <1>1, <1>6, <3>1 DEF Of
    <3>3. d.checked < d.total /\ d.checked \in Nat /\ d.total \in Nat
      <4>1. PICK s \in BOOLEAN : d \in Measurements /\ Tallied(d, s, js, qs, h)
        BY <1>9 DEF Measures
      <4>4. js \in Seq(Harnesses)
        BY <1>1
      <4>2. d.checked < d.total
        BY <3>1, <3>2, <4>1, <4>4, NotThrough
      <4>3. QED BY <4>1, <4>2, MeasurementHas
    <3>4. Reported(a, h)'
      BY <1>10, <3>3 DEF Reported
    <3>5. QED BY <1>4, <2>1, <3>4
  <2>4. QED BY <2>2, <2>3
<1>16. Works(a)'
  <2>1. \A g \in Harnesses :
          /\ Measured(a, g)' /\ (Reported(a, g)' \/ (step'[a] = "summing" /\ at'[a] = g))
          /\ saving'[a][g] => \E i \in DOMAIN js : js[i] = g /\ fs[i] = "saving"
    BY <1>14, <1>15
  <2>2. ASSUME step'[a] = "working", ~cancelled'[a], NEW i \in DOMAIN fs, fs[i] = "held"
        PROVE  \E k \in DOMAIN fs : fs[k] \notin {"held", "done"}
    <3>1. fs = Issue(a, qs)
      BY <1>3, <1>4, <2>2 DEF fs
    <3>2. i \in DOMAIN qs
      BY <1>13
    <3>3. QED BY <1>6, <1>13, <2>2, <3>1, <3>2, IssueGivesOut
  <2>3. jobs'[a] = js
    BY <1>3 DEF js
  <2>4. QED BY <1>4, <2>1, <2>2, <2>3 DEF Works
<1>17. CaptureHolds(a)' /\ Running(a)'
  BY <1>4, <1>12, <1>16, HoldsAt
<1>18. Legit(a, h, d) /\ d \in Measurements
  BY <1>9 DEF Legit, Measures, e
<1>19. state'[a] = state[a]
  BY <1>3
<1>20. QED BY <1>1, <1>3, <1>17, <1>18, <1>19, MeasureIsShown

\* A harness whose sources are all done is through, and complete unless one of them
\* failed or was put aside.
LEMMA DoneTally ==
  ASSUME NEW c \in Measurements, NEW sav \in BOOLEAN, ~sav, NEW js \in Seq(Harnesses), NEW ps, NEW h,
         Tallied(c, sav, js, ps, h), \A j \in Of(js, h) : ps[j] = "done"
  PROVE  /\ c.checked = c.total
         /\ c.count["failed"] = 0 => c.phase = "complete" \/ c.count["quarantined"] > 0
<1>1. c.checked = c.total /\ c.active = 0
  <2>1. On(js, ps, h, "done") = Of(js, h)
    BY TallyOfAll
  <2>2. \A j \in Of(js, h) : ps[j] # "reading"
    OBVIOUS
  <2>3. Cardinality(On(js, ps, h, "reading")) = 0
    BY <2>2, TallyOfAll DEF Places
  <2>4. QED BY <2>1, <2>3 DEF Tallied
<1>2. c.phase = WorkPhase(c, sav)
  BY WorkPhaseIs DEF Tallied
<1>3. c.checked \in Nat /\ c.total \in Nat /\ c.count["failed"] \in Nat /\ c.count["quarantined"] \in Nat
  BY MeasurementHas DEF Outcomes
<1>4. WorkPhase(c, sav) = IF c.count["failed"] + c.count["quarantined"] > 0 THEN "failed" ELSE "complete"
  BY <1>1, <1>3, ThroughMeans
<1>5. QED BY <1>1, <1>2, <1>3, <1>4

\* What became of a harness whose sources are all done is told.
LEMMA SummingHolds ==
  ASSUME ProgressAssumption, RegistryAssumption, ProgressInv, NEW a \in Attempts, CaptureHolds(a), Shown(a), Summing(a)
  PROVE  CaptureHolds(a)' /\ Shown(a)'
<1>0. /\ RegistryTyped /\ CollectionTyped /\ at[a] \in Harnesses /\ state[a].batches \in Nat
      /\ jobs[a] \in Seq(Harnesses) /\ place[a] \in Seq(Places) /\ Len(jobs[a]) = Len(place[a])
  BY CollectionHas
<1>21. PICK h \in Harnesses : h = at[a]
  BY <1>0
<1> DEFINE js == jobs[a]
           ps == place[a]
           fs == IF cancelled[a] THEN ps ELSE Issue(a, ps)
<1>1. PICK status \in {"complete", "skipped", "failed"} :
        /\ status = "failed" <=> event[a][h].count["failed"] > 0
        /\ Tell(a, HarnessIs(a, h, status))
  BY <1>21 DEF Summing
<1> DEFINE m == HarnessIs(a, h, status)
<1>2. /\ step[a] = "summing" /\ Tell(a, m) /\ step'[a] = "working" /\ place'[a] = fs
      /\ UNCHANGED <<event, saving, jobs, at, cancelled, beat, troubled, sent, closed>>
  BY <1>0, <1>1 DEF Summing, Goto, CollectionTyped
<1>3. Works(a) /\ FailuresTold(a) /\ state[a].batches <= sent[a]
  BY DEF CaptureHolds
<1>4. \A g \in Harnesses : /\ Measured(a, g) /\ (g # h => Reported(a, g))
                           /\ saving[a][g] => \E i \in DOMAIN js : js[i] = g /\ ps[i] = "saving"
  BY <1>2, <1>3, <1>21 DEF Works
<1>5. /\ m \in States /\ m.op = "update" /\ m.batches = state[a].batches
      /\ m.harnesses[h] = status /\ \A g \in Harnesses \ {h} : m.harnesses[g] = state[a].harnesses[g]
  <2>1. status \in Statuses
    BY DEF Statuses
  <2>2. QED BY <1>0, <2>1, HarnessIsTyped, HarnessIsHas
<1> HIDE DEF m
<1>6. state'[a] = m
  BY <1>0, <1>2 DEF Tell, CollectionTyped
<1>7. Troubled(a) => Troubled(a)'
  BY <1>2, TroubledStays
<1> HIDE DEF js, ps, fs
<1>8. /\ \A g : \A s \in {"done", "reading"} : On(js, fs, g, s) = On(js, ps, g, s)
      /\ DOMAIN fs = DOMAIN ps /\ \A i \in DOMAIN ps : ps[i] # "held" => fs[i] = ps[i]
  <2>0. js \in Seq(Harnesses) /\ ps \in Seq(Places) /\ Len(js) = Len(ps)
    BY <1>0 DEF js, ps
  <2>1. \A g : \A s \in {"done", "reading"} : On(js, Issue(a, ps), g, s) = On(js, ps, g, s)
    BY <2>0, IssueTally DEF Places
  <2>2. DOMAIN Issue(a, ps) = DOMAIN ps /\ \A i \in DOMAIN ps : ps[i] # "held" => Issue(a, ps)[i] = ps[i]
    BY <2>0, IssueMoves DEF Issue
  <2>3. fs = ps \/ fs = Issue(a, ps)
    BY DEF fs
  <2>4. QED BY <2>1, <2>2, <2>3
<1>9. FailuresTold(a)' /\ state'[a].batches <= sent'[a]
  BY <1>2, <1>3, <1>5, <1>6, <1>7, FailuresStay
<1>10. ASSUME NEW g \in Harnesses
       PROVE  /\ Measured(a, g)' /\ Reported(a, g)'
              /\ saving'[a][g] => \E i \in DOMAIN js : js[i] = g /\ fs[i] = "saving"
  <2>1. Measured(a, g)'
    <3>1. Measured(a, g) /\ event'[a][g] = event[a][g] /\ saving'[a][g] = saving[a][g]
      BY <1>2, <1>4
    <3>2. QED BY <1>2, <1>7, <1>8, <3>1, MeasuredStays DEF js, ps
  <2>2. Reported(a, g)'
    <3>1. CASE g = h
      <4>1. ~Troubled(a) => ~(event[a][h].count["failed"] > 0)
        BY <1>3 DEF FailuresTold
      <4>2. state'[a].harnesses[h] = status
        BY <1>5, <1>6
      <4>3. QED BY <1>1, <1>7, <3>1, <4>1, <4>2 DEF Reported
    <3>2. CASE g # h
      <4>1. Reported(a, g) /\ state'[a].harnesses[g] = state[a].harnesses[g] /\ event'[a][g] = event[a][g]
        BY <1>2, <1>4, <1>5, <1>6, <3>2
      <4>2. QED BY <1>7, <4>1, ReportedStays
    <3>3. QED BY <3>1, <3>2
  <2>3. saving'[a][g] => \E i \in DOMAIN js : js[i] = g /\ fs[i] = "saving"
    <3>1. DOMAIN js = DOMAIN ps
      BY <1>0 DEF js, ps
    <3>2. QED BY <1>2, <1>4, <1>8, <3>1
  <2>4. QED BY <2>1, <2>2, <2>3
<1>11. Works(a)'
  <2>1. ASSUME ~cancelled'[a], NEW i \in DOMAIN fs, fs[i] = "held"
        PROVE  \E k \in DOMAIN fs : fs[k] \notin {"held", "done"}
    <3>1. fs = Issue(a, ps)
      BY <1>2, <2>1 DEF fs
    <3>2. i \in DOMAIN ps /\ ps \in Seq(Places)
      BY <1>0, <1>8 DEF ps
    <3>3. QED BY <1>8, <2>1, <3>1, <3>2, IssueGivesOut
  <2>2. jobs'[a] = js
    BY <1>2 DEF js
  <2>3. QED BY <1>2, <1>10, <2>1, <2>2 DEF Works
<1>12. CaptureHolds(a)' /\ Running(a)'
  BY <1>2, <1>9, <1>11, HoldsAt
<1>13. Running(a) /\ event'[a] = event[a]
  BY <1>2 DEF Running
<1>14. QED BY <1>0, <1>2, <1>5, <1>12, <1>13, TellIsShown

\* Nothing is on its way: what was done is delivered, or what was not is told.
LEMMA DrainedHolds ==
  ASSUME ProgressAssumption, RegistryAssumption, ProgressInv, NEW a \in Attempts, CaptureHolds(a), Shown(a), Drained(a)
  PROVE  CaptureHolds(a)' /\ Shown(a)'
<1> DEFINE js == jobs[a]
           ps == place[a]
<1>0. /\ RegistryTyped /\ CollectionTyped /\ js \in Seq(Harnesses) /\ ps \in Seq(Places) /\ DOMAIN js = DOMAIN ps
      /\ \A g \in Harnesses : event[a][g] \in Measurements /\ saving[a][g] \in BOOLEAN
  BY CollectionHas
<1>1. /\ step[a] = "working" /\ step'[a] = (IF cancelled[a] THEN "stopping" ELSE "delivering") /\ at'[a] = 1
      /\ \A j \in DOMAIN ps : ps[j] \in {"held", "done"}
      /\ UNCHANGED <<attempts, refused, event, saving, jobs, place, cancelled, beat, state, troubled, sent, closed>>
  BY <1>0 DEF Drained, Goto, CollectionTyped, registryVars, measureVars
<1>2. Works(a) /\ FailuresTold(a) /\ state[a].batches <= sent[a]
  BY DEF CaptureHolds
<1>3. \A g \in Harnesses : Measured(a, g) /\ Reported(a, g) /\ ~saving[a][g]
  BY <1>0, <1>1, <1>2 DEF Works
<1>4. Troubled(a) <=> Troubled(a)'
  BY <1>1, TroubledStays
<1>5. \A g \in Harnesses : Measured(a, g)' /\ Reported(a, g)'
  BY <1>1, <1>3, <1>4, MeasuredStays, ReportedStays
<1>6. FailuresTold(a)' /\ state'[a].batches <= sent'[a]
  BY <1>1, <1>2, <1>4, FailuresStay
<1>7. CASE cancelled[a]
  <2>1. Quiet(a)' /\ \A j \in DOMAIN place'[a] : place'[a][j] \in {"held", "done"}
    BY <1>1, <1>3 DEF Quiet
  <2>2. step'[a] = "stopping"
    BY <1>1, <1>7
  <2>3. Stops(a)'
    BY <1>5, <2>1, <2>2 DEF Stops
  <2>4. QED BY <1>6, <2>2, <2>3, HoldsAt, StillIsShown, <1>1 DEF Running
<1>8. CASE ~cancelled[a]
  <2>1. step'[a] = "delivering"
    BY <1>1, <1>8
  <2>2. \A j \in DOMAIN ps : ps[j] = "done"
    BY <1>1, <1>2, <1>8 DEF Works
  <2>3. Delivers(a)'
    <3> SUFFICES ASSUME ~Troubled(a)', NEW g \in Harnesses
                 PROVE  /\ state'[a].harnesses[g] \in {"complete", "skipped"}
                        /\ event'[a][g].phase = "complete" \/ event'[a][g].count["quarantined"] > 0
      BY DEF Delivers
    <3> DEFINE c == event[a][g]
               sav == saving[a][g]
    <3>1. Tallied(c, sav, js, ps, g) /\ c \in Measurements /\ sav \in BOOLEAN /\ ~sav
      BY <1>0, <1>3, <1>4 DEF Measured
    <3>2. \A j \in Of(js, g) : ps[j] = "done"
      BY <1>0, <2>2 DEF Of
    <3>3. c.count["failed"] = 0
      <4>1. ~(c.count["failed"] > 0)
        BY <1>2, <1>4 DEF FailuresTold
      <4>2. c.count["failed"] \in Nat
        BY <3>1, MeasurementHas DEF Outcomes
      <4>3. QED BY <4>1, <4>2
    <3> HIDE DEF c, sav, js, ps
    <3>4. c.checked = c.total /\ (c.phase = "complete" \/ c.count["quarantined"] > 0)
      BY <1>0, <3>1, <3>2, <3>3, DoneTally
    <3>5. event'[a][g] = c
      BY <1>1 DEF c
    <3>6. QED BY <1>5, <3>4, <3>5 DEF Reported
  <2>4. QED BY <1>6, <2>1, <2>3, HoldsAt, StillIsShown, <1>1 DEF Running
<1>9. QED BY <1>7, <1>8

\* While a collection's own state stays, so does what is known of it.
LEMMA CaptureStays ==
  ASSUME NEW a, CaptureHolds(a), step'[a] = step[a], at'[a] = at[a], state'[a] = state[a], event'[a] = event[a],
         saving'[a] = saving[a], jobs'[a] = jobs[a], place'[a] = place[a], troubled'[a] = troubled[a],
         sent'[a] = sent[a], beat'[a] => beat[a], cancelled[a] => cancelled'[a]
  PROVE  CaptureHolds(a)'
<1>1. Troubled(a)' <=> Troubled(a)
  BY TroubledStays
<1>2. \A h : (Measured(a, h)' <=> Measured(a, h)) /\ (Reported(a, h)' <=> Reported(a, h))
  BY <1>1 DEF Measured, Reported, Tallied, Unfound
<1>3. (Quiet(a)' <=> Quiet(a)) /\ (Running(a)' <=> Running(a)) /\ (FailuresTold(a) => FailuresTold(a)')
  BY <1>1 DEF Quiet, Running, FailuresTold
<1>4. Fresh(a)'
  BY <1>3 DEF CaptureHolds, Fresh
<1>5. Finds(a)'
  BY <1>2, <1>3 DEF CaptureHolds, Finds
<1>6. Works(a)'
  BY <1>2 DEF CaptureHolds, Works
<1>7. Stops(a)'
  BY <1>1, <1>2, <1>3 DEF CaptureHolds, Stops
<1>8. Delivers(a)'
  BY <1>1 DEF CaptureHolds, Delivers
<1>9. QED BY <1>3, <1>4, <1>5, <1>6, <1>7, <1>8 DEF CaptureHolds

\* When all is done and well, every harness is through, and was told to be.
LEMMA DoneDelivers ==
  ASSUME ProgressInv, NEW a \in Attempts, FailuresTold(a), ~Troubled(a), Quiet(a),
         \A j \in DOMAIN place[a] : place[a][j] = "done", NEW g \in Harnesses, Measured(a, g), Reported(a, g)
  PROVE  /\ state[a].harnesses[g] \in {"complete", "skipped"} /\ event[a][g].checked = event[a][g].total
         /\ event[a][g].phase = "complete" \/ event[a][g].count["quarantined"] > 0
         /\ event[a][g].count["failed"] = 0
<1> DEFINE c == event[a][g]
           sav == saving[a][g]
           js == jobs[a]
           ps == place[a]
<1>0. js \in Seq(Harnesses) /\ DOMAIN js = DOMAIN ps /\ c \in Measurements /\ sav \in BOOLEAN
  BY CollectionHas
<1>1. Tallied(c, sav, js, ps, g) /\ ~sav
  BY DEF Measured, Quiet
<1>2. \A j \in Of(js, g) : ps[j] = "done"
  BY <1>0 DEF Of
<1>3. c.count["failed"] = 0
  <2>1. ~(c.count["failed"] > 0)
    BY DEF FailuresTold
  <2>2. c.count["failed"] \in Nat
    BY <1>0, MeasurementHas DEF Outcomes
  <2>3. QED BY <2>1, <2>2
<1> HIDE DEF c, sav, js, ps
<1>4. c.checked = c.total /\ (c.phase = "complete" \/ c.count["quarantined"] > 0)
  BY <1>0, <1>1, <1>2, <1>3, DoneTally
<1>5. QED BY <1>3, <1>4 DEF Reported, c

\* The measurement of a harness that was not finished.
LEMMA UnfinishedIs ==
  ASSUME NEW e \in Measurements, NEW sav \in BOOLEAN, ~sav, NEW js \in Seq(Harnesses), NEW ps, NEW h,
         Tallied(e, sav, js, ps, h), \A j \in Of(js, h) : ps[j] # "reading", NEW stopped \in BOOLEAN,
         Unfinished(e, stopped)
  PROVE  LET c == [e EXCEPT !.phase = IF stopped THEN "interrupted" ELSE "failed"] IN
         /\ c \in Measurements /\ ValidCapture(c) /\ c.phase # "none" /\ Follows(e, c)
         /\ c.checked = e.checked /\ c.total = e.total /\ c.count = e.count
<1> DEFINE p == IF stopped THEN "interrupted" ELSE "failed"
           c == [e EXCEPT !.phase = p]
<1>0. p \in Phases /\ p \notin {"none", "discovering", "waiting", "reading", "saving", "complete"}
      /\ (stopped => p = "interrupted")
  BY DEF Phases, CaptureTerminal
<1> HIDE DEF p
<1>1. /\ c \in Measurements /\ c.phase = p /\ c.known = e.known /\ c.total = e.total /\ c.checked = e.checked
      /\ c.active = e.active /\ c.count = e.count
  BY <1>0, MeasurementHas, MeasurementFields
<1> HIDE DEF c
<1>2. e.active = 0 /\ e.known /\ e.checked <= e.total /\ e.checked = Sum(e.count) /\ e.phase = WorkPhase(e, sav)
  <2>1. e.active = 0
    BY TallyOfAll DEF Tallied, Places
  <2>2. e.checked <= e.total
    <3>1. e.checked = Cardinality(On(js, ps, h, "done")) /\ e.total = Cardinality(Of(js, h))
      BY DEF Tallied
    <3>2. Cardinality(On(js, ps, h, "done")) <= Cardinality(Of(js, h))
      <4>1. "done" \in Places /\ "reading" \in Places
        BY DEF Places
      <4>2. QED BY <4>1, TallyFits
    <3>3. QED BY <3>1, <3>2
  <2>3. QED BY <2>1, <2>2, WorkPhaseIs DEF Tallied
<1>3. e.checked \in Nat /\ e.total \in Nat /\ \A o \in Outcomes : e.count[o] \in Nat
  BY MeasurementHas
<1>4. PhaseFits(c)
  BY <1>0, <1>1, <1>2 DEF PhaseFits
<1>5. ValidCapture(c)
  BY <1>1, <1>2, <1>3, <1>4 DEF ValidCapture
<1>6. e.phase \in CaptureTerminal => Cancels(e, c)
  <2> SUFFICES ASSUME e.phase \in CaptureTerminal PROVE Cancels(e, c)
    OBVIOUS
  <2>1. e.checked = e.total
    BY <1>2, <1>3, ThroughMeans
  <2>2. stopped /\ e.count["failed"] > 0
    BY <1>3, <2>1 DEF Unfinished
  <2>3. e.count["failed"] + e.count["quarantined"] > 0
    <3>1. e.count["failed"] \in Nat /\ e.count["quarantined"] \in Nat
      BY <1>3 DEF Outcomes
    <3>2. QED BY <2>2, <3>1
  <2>4. e.phase = "failed"
    BY <1>2, <1>3, <2>1, <2>3, ThroughMeans
  <2>5. QED BY <1>0, <1>1, <2>2, <2>4 DEF Cancels
<1>7. Follows(e, c)
  BY <1>1, <1>3, <1>6 DEF Follows
<1>8. QED BY <1>0, <1>1, <1>5, <1>7 DEF c, p

\* What was not finished is told, harness after harness.
LEMMA StoppingHolds ==
  ASSUME ProgressAssumption, RegistryAssumption, ProgressInv, NEW a \in Attempts, CaptureHolds(a), Shown(a), Stopping(a)
  PROVE  CaptureHolds(a)' /\ Shown(a)'
<1>0. /\ RegistryTyped /\ CollectionTyped /\ at[a] \in Harnesses
      /\ jobs[a] \in Seq(Harnesses) /\ DOMAIN jobs[a] = DOMAIN place[a]
      /\ \A g \in Harnesses : event[a][g] \in Measurements /\ saving[a][g] \in BOOLEAN
  BY CollectionHas
<1>1. PICK h \in Harnesses : h = at[a]
  BY <1>0
<1>2. PICK stopped \in BOOLEAN : stopped <=> step[a] = "stopping"
  OBVIOUS
<1> DEFINE last == h + 1 \notin Harnesses
           held == \E j \in DOMAIN place[a] : place[a][j] = "held"
           done == \A j \in DOMAIN place[a] : place[a][j] = "done"
           d == [event[a][h] EXCEPT !.phase = IF stopped THEN "interrupted" ELSE "failed"]
<1>3. /\ step[a] \in {"stopping", "failing"} /\ at'[a] = (IF last THEN 1 ELSE h + 1)
      /\ step'[a] = (IF ~last THEN step[a] ELSE IF stopped /\ held THEN "abandoning" ELSE "delivering")
      /\ UNCHANGED <<saving, jobs, place, cancelled, beat, state, troubled, sent, closed>>
  BY <1>0, <1>1, <1>2 DEF Stopping, Goto, CollectionTyped
<1>4. \/ Unfinished(event[a][h], stopped) /\ Measure(a, h, d)
      \/ ~Unfinished(event[a][h], stopped) /\ UNCHANGED <<event, attempts, refused>>
  BY <1>1, <1>2 DEF Stopping, registryVars
<1>5. Stops(a) /\ FailuresTold(a) /\ state[a].batches <= sent[a]
  BY DEF CaptureHolds
<1>6. /\ Quiet(a) /\ (\A j \in DOMAIN place[a] : place[a][j] \in {"held", "done"})
      /\ (step[a] = "failing" => Troubled(a)) /\ \A g \in Harnesses : Reported(a, g)
  BY <1>3, <1>5 DEF Stops
<1>7. /\ \A g \in Harnesses : g >= h => Measured(a, g)
      /\ ~Troubled(a) /\ done => \A g \in Harnesses : Measured(a, g)
  <2>1. \A g \in Harnesses : g >= h \/ g < h
    BY HarnessesAre
  <2>2. QED BY <1>1, <1>3, <1>5, <2>1 DEF Stops
<1>8. Troubled(a) <=> Troubled(a)'
  BY <1>3, TroubledStays
<1>9. Measured(a, h)
  BY <1>7, HarnessesAre
<1>10. Running(a) /\ Running(a)'
  BY <1>3 DEF Running
<1>11. ASSUME ~Troubled(a), done, NEW g \in Harnesses
       PROVE  /\ state[a].harnesses[g] \in {"complete", "skipped"} /\ event[a][g].checked = event[a][g].total
              /\ event[a][g].phase = "complete" \/ event[a][g].count["quarantined"] > 0
              /\ event[a][g].count["failed"] = 0
  BY <1>5, <1>6, <1>7, <1>11, DoneDelivers
<1>12. ASSUME ~Troubled(a), done, NEW g \in Harnesses
       PROVE  ~Unfinished(event[a][g], stopped)
  <2>1. event[a][g].checked = event[a][g].total /\ event[a][g].count["failed"] = 0
    BY <1>11, <1>12
  <2>2. event[a][g].checked \in Nat
    BY <1>0, MeasurementHas
  <2>3. QED BY <2>1, <2>2 DEF Unfinished
<1> HIDE DEF last, held, done, d
<1>13. /\ \A g \in Harnesses : /\ event'[a][g].checked = event[a][g].checked
                               /\ event'[a][g].total = event[a][g].total /\ event'[a][g].count = event[a][g].count
       /\ \A g \in Harnesses \ {h} : event'[a][g] = event[a][g]
       /\ ~Troubled(a) /\ done => \A g \in Harnesses : event'[a][g] = event[a][g]
       /\ Shown(a)'
  <2>1. CASE Unfinished(event[a][h], stopped) /\ Measure(a, h, d)
    <3> DEFINE e == event[a][h]
               sav == saving[a][h]
               js == jobs[a]
               ps == place[a]
    <3>1. e \in Measurements /\ sav \in BOOLEAN /\ ~sav /\ js \in Seq(Harnesses) /\ e.known
      BY <1>0, <1>6, <2>1 DEF Quiet, Unfinished
    <3>2. Tallied(e, sav, js, ps, h)
      BY <1>9, <3>1 DEF Measured, Unfound
    <3>3. \A j \in Of(js, h) : ps[j] # "reading"
      BY <1>0, <1>6 DEF Of
    <3>8. e # Blank
      BY <3>1, BlankHas
    <3> HIDE DEF e, sav, js, ps
    <3>4. /\ d \in Measurements /\ ValidCapture(d) /\ d.phase # "none" /\ Follows(e, d)
          /\ d.checked = e.checked /\ d.total = e.total /\ d.count = e.count
      <4>1. Unfinished(e, stopped) /\ d = [e EXCEPT !.phase = IF stopped THEN "interrupted" ELSE "failed"]
        BY <2>1 DEF d, e
      <4>2. QED BY <3>1, <3>2, <3>3, <4>1, UnfinishedIs
    <3>5. event'[a][h] = d /\ \A g \in Harnesses \ {h} : event'[a][g] = event[a][g]
      BY <2>1, EventIs
    <3>6. Legit(a, h, d)
      BY <3>4 DEF Legit, e
    <3>7. state'[a] = state[a]
      BY <1>3
    <3>9. Shown(a)'
      BY <1>10, <2>1, <3>4, <3>6, <3>7, MeasureIsShown
    <3>10. ~(~Troubled(a) /\ done)
      BY <1>12, <2>1
    <3>11. \A g \in Harnesses : /\ event'[a][g].checked = event[a][g].checked
                                /\ event'[a][g].total = event[a][g].total /\ event'[a][g].count = event[a][g].count
      BY <3>4, <3>5 DEF e
    <3>12. QED BY <3>5, <3>9, <3>10, <3>11
  <2>2. CASE ~Unfinished(event[a][h], stopped) /\ UNCHANGED <<event, attempts, refused>>
    <3>1. state'[a] = state[a] /\ event'[a] = event[a]
      BY <1>3, <2>2
    <3>2. Shown(a)'
      BY <1>10, <2>2, <3>1, StillIsShown
    <3>3. QED BY <3>1, <3>2
  <2>3. QED BY <1>4, <2>1, <2>2
<1>14. FailuresTold(a)' /\ state'[a].batches <= sent'[a]
  <2>1. \A g \in Harnesses : event'[a][g].count = event[a][g].count
    BY <1>13
  <2>2. FailuresTold(a)'
    BY <1>5, <1>8, <2>1, FailuresStay
  <2>3. QED BY <1>3, <1>5, <2>2
<1>15. \A g \in Harnesses : Reported(a, g)'
  BY <1>3, <1>6, <1>8, <1>13 DEF Reported
<1>16. ASSUME NEW g \in Harnesses, Measured(a, g), event'[a][g] = event[a][g]
       PROVE  Measured(a, g)'
  BY <1>3, <1>8, <1>16, MeasuredStays
<1>17. CASE ~last
  <2>1. step'[a] = step[a] /\ at'[a] = h + 1
    BY <1>3, <1>17
  <2>2. Quiet(a)' /\ (\A j \in DOMAIN place'[a] : place'[a][j] \in {"held", "done"})
        /\ (step'[a] = "failing" => Troubled(a)')
    BY <1>3, <1>6, <1>8, <2>1 DEF Quiet
  <2>3. ASSUME NEW g \in Harnesses, g >= at'[a]
        PROVE  Measured(a, g)'
    <3>1. g # h /\ g >= h
      BY <2>1, <2>3, HarnessesAre
    <3>2. QED BY <1>7, <1>13, <1>16, <3>1
  <2>4. ASSUME NEW g \in Harnesses, ~Troubled(a)', \A j \in DOMAIN place'[a] : place'[a][j] = "done"
        PROVE  Measured(a, g)'
    <3>1. ~Troubled(a) /\ done
      BY <1>3, <1>8, <2>4 DEF done
    <3>2. QED BY <1>7, <1>13, <1>16, <3>1
  <2>5. Stops(a)'
    BY <1>15, <2>2, <2>3, <2>4 DEF Stops
  <2>6. QED BY <1>3, <1>13, <1>14, <2>1, <2>5, HoldsAt
<1>18. CASE last /\ stopped /\ held
  <2>1. step'[a] = "abandoning"
    BY <1>3, <1>18
  <2>2. QED BY <1>13, <1>14, <2>1, HoldsAt
<1>19. CASE last /\ ~(stopped /\ held)
  <2>1. step'[a] = "delivering"
    BY <1>3, <1>19
  <2>2. ASSUME ~Troubled(a)', NEW g \in Harnesses
        PROVE  /\ state'[a].harnesses[g] \in {"complete", "skipped"}
               /\ event'[a][g].phase = "complete" \/ event'[a][g].count["quarantined"] > 0
    <3>1. ~Troubled(a) /\ done
      BY <1>2, <1>3, <1>6, <1>8, <1>19, <2>2 DEF held, done
    <3>2. event'[a][g] = event[a][g] /\ state'[a] = state[a]
      BY <1>3, <1>13, <3>1
    <3>3. QED BY <1>11, <3>1, <3>2
  <2>3. Delivers(a)'
    BY <2>2 DEF Delivers
  <2>4. QED BY <1>13, <1>14, <2>1, <2>3, HoldsAt
<1>20. QED BY <1>17, <1>18, <1>19

\* The harnesses whose sources were not read are told to have failed.
LEMMA AbandoningHolds ==
  ASSUME ProgressAssumption, RegistryAssumption, ProgressInv, NEW a \in Attempts, CaptureHolds(a), Shown(a), Abandoning(a)
  PROVE  CaptureHolds(a)' /\ Shown(a)'
<1>0. /\ RegistryTyped /\ CollectionTyped /\ at[a] \in Harnesses /\ state[a] \in States /\ state[a].batches \in Nat
  BY CollectionHas
<1> DEFINE m == HarnessIs(a, at[a], "failed")
<1>1. /\ step[a] = "abandoning" /\ step'[a] \in {"abandoning", "delivering"}
      /\ troubled' = [troubled EXCEPT ![a] = "collection_failed"]
      /\ UNCHANGED <<event, saving, jobs, place, cancelled, beat, sent, closed>>
      /\ Tell(a, m) \/ UNCHANGED <<state, attempts, refused>>
  BY <1>0 DEF Abandoning, Goto, CollectionTyped, measureVars, registryVars
<1>2. Troubled(a)'
  BY <1>0, <1>1, TroubledNow
<1>3. Delivers(a)'
  BY <1>2 DEF Delivers
<1>4. m \in States /\ m.op = "update" /\ m.batches = state[a].batches
  <2>1. "failed" \in Statuses
    BY DEF Statuses
  <2>2. QED BY <1>0, <2>1, HarnessIsTyped, HarnessIsHas
<1> HIDE DEF m
<1>5. state'[a] = m \/ state'[a] = state[a]
  BY <1>0, <1>1 DEF Tell, CollectionTyped
<1>6. FailuresTold(a)' /\ state'[a].batches <= sent'[a]
  <2>1. FailuresTold(a) /\ state[a].batches <= sent[a]
    BY DEF CaptureHolds
  <2>2. FailuresTold(a)'
    BY <1>1, <1>2, <2>1, FailuresStay
  <2>3. QED BY <1>1, <1>4, <1>5, <2>1, <2>2
<1>7. CaptureHolds(a)' /\ Running(a)'
  BY <1>1, <1>3, <1>6, HoldsAt
<1>8. Running(a) /\ event'[a] = event[a]
  BY <1>1 DEF Running
<1>9. CASE Tell(a, m)
  BY <1>0, <1>4, <1>7, <1>8, <1>9, TellIsShown
<1>10. CASE UNCHANGED <<state, attempts, refused>>
  BY <1>7, <1>8, <1>10, StillIsShown
<1>11. QED BY <1>1, <1>7, <1>9, <1>10

\* Batches are delivered, and how many were is told.
LEMMA DeliveringHolds ==
  ASSUME ProgressAssumption, RegistryAssumption, ProgressInv, NEW a \in Attempts, CaptureHolds(a), Shown(a), Delivering(a)
  PROVE  CaptureHolds(a)' /\ Shown(a)'
<1>0. /\ RegistryTyped /\ CollectionTyped /\ state[a] \in States /\ state[a].batches \in Nat /\ sent[a] \in Nat
  BY CollectionHas
<1> DEFINE m == [state[a] EXCEPT !.op = "update", !.stage = "submitting", !.batches = sent[a]]
<1>1. /\ step[a] = "delivering" /\ step'[a] \in {"delivering", "ending"} /\ Tell(a, m)
      /\ troubled' \in {troubled, [troubled EXCEPT ![a] = "submission_failed"]}
      /\ sent'[a] \in {sent[a], sent[a] + 1}
      /\ UNCHANGED <<event, saving, jobs, place, at, cancelled, beat, closed>>
  BY <1>0 DEF Delivering, Goto, CollectionTyped, measureVars
<1>2. m \in States /\ m.op = "update" /\ m.batches = sent[a] /\ m.harnesses = state[a].harnesses
  <2> DEFINE hs == [Harnesses -> Statuses]
             none == {""}
  <2>1. States = [op : {"begin", "update"}, stage : {"waiting", "capturing", "submitting"}, error : none,
                  harnesses : hs, batches : Nat]
    BY DEF States
  <2> HIDE DEF hs, none
  <2>2. QED BY <1>0, <2>1
<1> HIDE DEF m
<1>3. state'[a] = m
  BY <1>0, <1>1 DEF Tell, CollectionTyped
<1>4. /\ FailuresTold(a) /\ Delivers(a) /\ state[a].batches <= sent[a]
  BY DEF CaptureHolds
<1>5. Troubled(a) => Troubled(a)'
  <2>1. CASE troubled' = troubled
    BY <2>1, TroubledStays
  <2>2. CASE troubled' = [troubled EXCEPT ![a] = "submission_failed"]
    BY <1>0, <2>2, TroubledNow
  <2>3. QED BY <1>1, <2>1, <2>2
<1>6. Delivers(a)'
  BY <1>1, <1>2, <1>3, <1>4, <1>5 DEF Delivers
<1>7. FailuresTold(a)' /\ state'[a].batches <= sent'[a]
  <2>1. FailuresTold(a)'
    BY <1>1, <1>4, <1>5, FailuresStay
  <2>2. QED BY <1>0, <1>1, <1>2, <1>3, <2>1
<1>8. CaptureHolds(a)' /\ Running(a)'
  BY <1>1, <1>6, <1>7, HoldsAt
<1>9. Running(a) /\ event'[a] = event[a] /\ m.batches >= state[a].batches
  BY <1>0, <1>1, <1>2, <1>4 DEF Running
<1>10. QED BY <1>0, <1>1, <1>2, <1>8, <1>9, TellIsShown

\* A collection that is over keeps nothing.
LEMMA FinishHolds ==
  ASSUME ProgressAssumption, RegistryAssumption, ProgressInv, NEW a \in Attempts, CaptureHolds(a), Shown(a), Finish(a)
  PROVE  CaptureHolds(a)' /\ Shown(a)'
<1>0. /\ RegistryTyped /\ CollectionTyped
  BY CollectionHas
<1>1. PICK e \in Results(a) :
        Apply(a, [state[a] EXCEPT !.op = "finish", !.stage = e.stage, !.error = e.error, !.batches = sent[a]])
  BY DEF Finish
<1>2. /\ step[a] = "ending" /\ step'[a] = "done" /\ ~beat'[a]
      /\ state' = [state EXCEPT ![a] = FirstState] /\ event' = [event EXCEPT ![a] = NoEvents]
      /\ sent' = [sent EXCEPT ![a] = 0]
  BY <1>0 DEF Finish, Goto, Joined, CollectionTyped
<1>3. state'[a] = FirstState /\ event'[a] = NoEvents /\ sent'[a] = 0
  BY <1>0, <1>2 DEF CollectionTyped
<1>4. FirstState.batches = 0
  BY Zenon DEF FirstState
<1>5. FailuresTold(a)'
  <2>1. \A h \in Harnesses : event'[a][h].count["failed"] = 0
    BY <1>3, BlankHas DEF NoEvents, Outcomes
  <2>2. QED BY <2>1 DEF FailuresTold
<1>6. Fresh(a)' /\ Finds(a)' /\ Works(a)' /\ Stops(a)' /\ Delivers(a)'
  BY <1>2 DEF Fresh, Finds, Works, Stops, Delivers
<1>7. state'[a].batches <= sent'[a]
  BY <1>3, <1>4
<1>8. CaptureHolds(a)'
  BY <1>2, <1>5, <1>6, <1>7 DEF CaptureHolds
<1>9. Delivers(a) /\ state[a].batches <= sent[a]
  BY DEF CaptureHolds
<1>10. Shown(a)'
  BY <1>1, <1>2, <1>9, FinishIsShown
<1>11. QED BY <1>8, <1>10

\* A collection begins with nothing known.
LEMMA StartHolds ==
  ASSUME ProgressAssumption, RegistryAssumption, ProgressInv, NEW a \in Attempts, CaptureHolds(a), Shown(a),
         StartCollection(a)
  PROVE  CaptureHolds(a)' /\ Shown(a)'
<1>0. /\ RegistryTyped /\ CollectionTyped
  BY CollectionHas
<1>1. /\ step[a] = "idle" /\ Begin(a)
      /\ step'[a] = (IF attempts'[a] # Absent THEN "discovering" ELSE "done")
      /\ beat'[a] = (attempts'[a] # Absent)
      /\ UNCHANGED <<event, saving, jobs, place, at, cancelled, state, troubled, sent, closed>>
  BY <1>0 DEF StartCollection, Goto, CollectionTyped, measureVars
<1>2. /\ event[a] = NoEvents /\ Quiet(a) /\ jobs[a] = << >> /\ place[a] = << >> /\ at[a] = 1
      /\ Fresh(a) /\ FailuresTold(a) /\ state[a].batches <= sent[a]
  BY <1>1 DEF CaptureHolds, Fresh
<1>3. Shown(a)'
  BY <1>1, <1>2, StartIsShown
<1>4. Troubled(a)' <=> Troubled(a)
  BY <1>1, TroubledStays
<1>5. FailuresTold(a)'
  BY <1>1, <1>2, <1>4, FailuresStay
<1>6. Finds(a)'
  <2>1. Quiet(a)' /\ (\A j \in DOMAIN place'[a] : place'[a][j] = "held") /\ DOMAIN jobs'[a] = {}
    BY <1>1, <1>2 DEF Quiet
  <2>2. \A h \in Harnesses : event'[a][h] = Blank /\ ~(h < at'[a])
    BY <1>1, <1>2, HarnessesAre DEF NoEvents
  <2>3. event'[a][at'[a]] = Blank
    BY <1>1, <1>2, <2>2, HarnessesAre
  <2>4. step'[a] \in {"discovering", "done"}
    BY <1>1
  <2>5. QED BY <2>1, <2>2, <2>3, <2>4 DEF Finds
<1>7. Fresh(a)' /\ Works(a)' /\ Stops(a)' /\ Delivers(a)'
  BY <1>1 DEF Fresh, Works, Stops, Delivers
<1>8. beat'[a] => Running(a)'
  BY <1>1 DEF Running
<1>9. CaptureHolds(a)'
  BY <1>1, <1>2, <1>5, <1>6, <1>7, <1>8 DEF CaptureHolds
<1>10. QED BY <1>3, <1>9

\* The heartbeat and the caller's cancellation change nothing that is known of sources.
LEMMA BesideHolds ==
  ASSUME ProgressAssumption, RegistryAssumption, ProgressInv, NEW a \in Attempts, CaptureHolds(a), Shown(a),
         Heartbeat(a) \/ StopBeat(a) \/ CancelCollection(a)
  PROVE  CaptureHolds(a)' /\ Shown(a)'
<1>0. /\ RegistryTyped /\ CollectionTyped /\ (beat[a] => Running(a))
  BY CollectionHas DEF CaptureHolds
<1>1. /\ UNCHANGED <<step, at, state, event, saving, jobs, place, troubled, sent>>
      /\ (beat'[a] => beat[a]) /\ (cancelled[a] => cancelled'[a])
  BY <1>0 DEF Heartbeat, StopBeat, CancelCollection, CollectionTyped, measureVars, collectionVars
<1>2. CaptureHolds(a)'
  BY <1>1, CaptureStays
<1>3. Running(a) /\ Running(a)'
  BY <1>0, <1>1 DEF Heartbeat, StopBeat, CancelCollection, Running
<1>4. CASE Heartbeat(a)
  <2>1. Apply(a, [state[a] EXCEPT !.op = "heartbeat"])
    BY <1>4 DEF Heartbeat
  <2>2. QED BY <1>1, <1>2, <1>3, <2>1, BeatIsShown
<1>5. CASE StopBeat(a) \/ CancelCollection(a)
  <2>1. UNCHANGED <<attempts, refused>>
    BY <1>5 DEF StopBeat, CancelCollection, registryVars
  <2>2. QED BY <1>1, <1>2, <1>3, <2>1, StillIsShown
<1>6. QED BY <1>4, <1>5

-----------------------------------------------------------------------------
(* The invariant holds of every collection *)

\* A step of one collection leaves what another keeps.
OnlyOf(a) ==
  \A b \in Attempts \ {a} :
    /\ step'[b] = step[b] /\ at'[b] = at[b] /\ state'[b] = state[b] /\ event'[b] = event[b]
    /\ saving'[b] = saving[b] /\ jobs'[b] = jobs[b] /\ place'[b] = place[b] /\ troubled'[b] = troubled[b]
    /\ sent'[b] = sent[b] /\ beat'[b] = beat[b] /\ cancelled'[b] = cancelled[b]

\* And calls the registry for itself, at most once.
OwnCall(a) ==
  \/ Begin(a)
  \/ \E m : Apply(a, m)
  \/ \E h \in Harnesses : \E c : UpdateCapture(a, h, c)
  \/ UNCHANGED <<attempts, refused>>

\* A call for one attempt ages the others, and refuses none of them.
LEMMA CallsAge ==
  ASSUME RegistryAssumption, RegistryTyped, NEW a \in Attempts, OwnCall(a), NEW b \in Attempts \ {a}
  PROVE  Aged(attempts[b], attempts'[b]) /\ (b \in refused' => b \in refused)
<1>1. CASE Begin(a)
  BY <1>1, BeginIs
<1>2. CASE \E m : Apply(a, m)
  BY <1>2, ApplyIs
<1>3. CASE \E h \in Harnesses : \E c : UpdateCapture(a, h, c)
  BY <1>3, UpdateCaptureIs
<1>4. CASE UNCHANGED <<attempts, refused>>
  BY <1>4 DEF Aged
<1>5. QED BY <1>1, <1>2, <1>3, <1>4 DEF OwnCall

\* The other collections, and what is shown of them, stay in step.
LEMMA OthersHold ==
  ASSUME RegistryAssumption, ProgressInv, NEW a \in Attempts, OnlyOf(a), OwnCall(a),
         NEW b \in Attempts \ {a}, CaptureHolds(b), Shown(b)
  PROVE  CaptureHolds(b)' /\ Shown(b)'
<1>1. RegistryTyped
  BY DEF ProgressInv, ProgressTyped
<1>2. Aged(attempts[b], attempts'[b]) /\ (b \in refused' => b \in refused)
  BY <1>1, CallsAge
<1>3. /\ step'[b] = step[b] /\ at'[b] = at[b] /\ state'[b] = state[b] /\ event'[b] = event[b]
      /\ saving'[b] = saving[b] /\ jobs'[b] = jobs[b] /\ place'[b] = place[b] /\ troubled'[b] = troubled[b]
      /\ sent'[b] = sent[b] /\ beat'[b] = beat[b] /\ cancelled'[b] = cancelled[b]
  BY DEF OnlyOf
<1>4. CaptureHolds(b)'
  BY <1>3, CaptureStays
<1>5. Shown(b)'
  BY <1>1, <1>2, <1>3, AgedIsShown
<1>6. QED BY <1>4, <1>5

\* Every step of a collection is such a step.
LEMMA StepsAreOwn ==
  ASSUME ProgressInv, NEW a \in Attempts, Collect(a)
  PROVE  OnlyOf(a) /\ OwnCall(a)
<1>0. CollectionTyped /\ at[a] \in Harnesses /\ \A j \in DOMAIN place[a] : jobs[a][j] \in Harnesses
  BY CollectionHas
<1>1. CASE StartCollection(a)
  <2>1. OwnCall(a)
    BY <1>1 DEF StartCollection, OwnCall
  <2>2. OnlyOf(a)
    BY <1>0, <1>1 DEF StartCollection, Goto, OnlyOf, CollectionTyped, measureVars
  <2>3. QED BY <2>1, <2>2
<1>2. CASE Heartbeat(a) \/ StopBeat(a) \/ CancelCollection(a)
  <2>1. OwnCall(a)
    BY <1>2 DEF Heartbeat, StopBeat, CancelCollection, OwnCall, registryVars
  <2>2. OnlyOf(a)
    BY <1>0, <1>2 DEF Heartbeat, StopBeat, CancelCollection, OnlyOf, CollectionTyped, measureVars, collectionVars
  <2>3. QED BY <2>1, <2>2
<1>3. CASE Discovering(a) \/ Announcing(a)
  <2>1. OwnCall(a)
    BY <1>0, <1>3 DEF Discovering, Announcing, Measure, Tell, OwnCall
  <2>2. OnlyOf(a)
    BY <1>0, <1>3 DEF Discovering, Announcing, Measure, Tell, Goto, OnlyOf, CollectionTyped, measureVars
  <2>3. QED BY <2>1, <2>2
<1>4. CASE Looking(a)
  <2>1. OwnCall(a)
    BY <1>0, <1>4 DEF Looking, DiscoveryFails, Discovered, Measure, OwnCall
  <2>2. OnlyOf(a)
    <3>1. CASE DiscoveryFails(a)
      BY <1>0, <1>4, <3>1 DEF Looking, DiscoveryFails, Measure, Goto, OnlyOf, CollectionTyped
    <3>2. ASSUME NEW n, Discovered(a, n)
          PROVE  OnlyOf(a)
      BY <1>0, <1>4, <3>2 DEF Looking, Discovered, Measure, Goto, OnlyOf, CollectionTyped
    <3>3. QED BY <1>4, <3>1, <3>2 DEF Looking
  <2>3. QED BY <2>1, <2>2
<1>5. CASE Reporting(a)
  <2>1. OwnCall(a)
    BY <1>5 DEF Reporting, Tell, OwnCall
  <2>2. OnlyOf(a)
    <3>1. CASE Spool(a)
      BY <1>0, <1>5, <3>1 DEF Reporting, Spool, Tell, Goto, OnlyOf, CollectionTyped
    <3>2. CASE ~Spool(a)
      BY <1>0, <1>5, <3>2 DEF Reporting, Tell, Goto, OnlyOf, CollectionTyped
    <3>3. QED BY <3>1, <3>2
  <2>3. QED BY <2>1, <2>2
<1>6. CASE Unavailable(a) \/ Drained(a)
  <2>1. OwnCall(a)
    BY <1>6 DEF Unavailable, Drained, OwnCall, registryVars
  <2>2. OnlyOf(a)
    BY <1>0, <1>6 DEF Unavailable, Drained, Goto, OnlyOf, CollectionTyped, measureVars
  <2>3. QED BY <2>1, <2>2
<1>7. ASSUME NEW j \in DOMAIN place[a], Reading(a, j) \/ Saving(a, j)
      PROVE  OnlyOf(a) /\ OwnCall(a)
  <2>1. OwnCall(a)
    BY <1>0, <1>7 DEF Reading, Saving, Measure, OwnCall
  <2>2. OnlyOf(a)
    BY <1>0, <1>7 DEF Reading, Saving, Move, Measure, OnlyOf, CollectionTyped, collectionVars
  <2>3. QED BY <2>1, <2>2
<1>8. ASSUME NEW j \in DOMAIN place[a], NEW o \in Outcomes, Finalized(a, j, o)
      PROVE  OnlyOf(a) /\ OwnCall(a)
  <2>1. OwnCall(a)
    BY <1>0, <1>8 DEF Finalized, Measure, OwnCall
  <2>2. OnlyOf(a)
    BY <1>0, <1>8 DEF Finalized, Measure, Goto, OnlyOf, CollectionTyped
  <2>3. QED BY <2>1, <2>2
<1>9. CASE Summing(a)
  <2>1. OwnCall(a)
    BY <1>9 DEF Summing, Tell, OwnCall
  <2>2. OnlyOf(a)
    BY <1>0, <1>9 DEF Summing, Tell, Goto, OnlyOf, CollectionTyped
  <2>3. QED BY <2>1, <2>2
<1>10. CASE Stopping(a)
  <2>1. OwnCall(a)
    BY <1>0, <1>10 DEF Stopping, Measure, OwnCall, registryVars
  <2>2. OnlyOf(a)
    BY <1>0, <1>10 DEF Stopping, Measure, Goto, OnlyOf, CollectionTyped
  <2>3. QED BY <2>1, <2>2
<1>11. CASE Abandoning(a)
  <2>1. OwnCall(a)
    BY <1>11 DEF Abandoning, Tell, OwnCall, registryVars
  <2>2. OnlyOf(a)
    BY <1>0, <1>11 DEF Abandoning, Tell, Goto, OnlyOf, CollectionTyped, measureVars
  <2>3. QED BY <2>1, <2>2
<1>12. CASE Delivering(a)
  <2>1. OwnCall(a)
    BY <1>12 DEF Delivering, Tell, OwnCall
  <2>2. OnlyOf(a)
    BY <1>0, <1>12 DEF Delivering, Tell, Goto, OnlyOf, CollectionTyped, measureVars
  <2>3. QED BY <2>1, <2>2
<1>13. CASE Finish(a)
  <2>1. OwnCall(a)
    BY <1>13 DEF Finish, OwnCall
  <2>2. OnlyOf(a)
    <3>1. PICK none : troubled' = [troubled EXCEPT ![a] = none]
      BY <1>13 DEF Finish
    <3>2. /\ Goto(a, "done") /\ state' = [state EXCEPT ![a] = FirstState] /\ event' = [event EXCEPT ![a] = NoEvents]
          /\ jobs' = [jobs EXCEPT ![a] = << >>] /\ place' = [place EXCEPT ![a] = << >>]
          /\ cancelled' = [cancelled EXCEPT ![a] = FALSE] /\ sent' = [sent EXCEPT ![a] = 0]
          /\ UNCHANGED <<saving, at, beat>>
      BY <1>13, Zenon DEF Finish
    <3>3. QED BY <1>0, <3>1, <3>2 DEF Goto, OnlyOf, CollectionTyped
  <2>3. QED BY <2>1, <2>2
<1>14. QED
  BY <1>1, <1>2, <1>3, <1>4, <1>5, <1>6, <1>7, <1>8, <1>9, <1>10, <1>11, <1>12, <1>13 DEF Collect, CaptureStep

\* And keeps what is known of its own sources.
LEMMA OwnHolds ==
  ASSUME ProgressAssumption, RegistryAssumption, ProgressInv, NEW a \in Attempts, CaptureHolds(a), Shown(a), Collect(a)
  PROVE  CaptureHolds(a)' /\ Shown(a)'
<1>1. CASE StartCollection(a)
  BY <1>1, StartHolds
<1>2. CASE Heartbeat(a) \/ StopBeat(a) \/ CancelCollection(a)
  BY <1>2, BesideHolds
<1>3. CASE Discovering(a)
  BY <1>3, DiscoveringHolds
<1>4. CASE Announcing(a)
  BY <1>4, AnnouncingHolds
<1>5. CASE Looking(a)
  BY <1>5, LookingHolds
<1>6. CASE Reporting(a)
  BY <1>6, ReportingHolds
<1>7. CASE Unavailable(a)
  BY <1>7, UnavailableHolds
<1>8. ASSUME NEW j \in DOMAIN place[a], Reading(a, j)
      PROVE  CaptureHolds(a)' /\ Shown(a)'
  BY <1>8, ReadingHolds
<1>9. ASSUME NEW j \in DOMAIN place[a], Saving(a, j)
      PROVE  CaptureHolds(a)' /\ Shown(a)'
  BY <1>9, SavingHolds
<1>10. ASSUME NEW j \in DOMAIN place[a], NEW o \in Outcomes, Finalized(a, j, o)
       PROVE  CaptureHolds(a)' /\ Shown(a)'
  BY <1>10, FinalizedHolds
<1>11. CASE Summing(a)
  BY <1>11, SummingHolds
<1>12. CASE Drained(a)
  BY <1>12, DrainedHolds
<1>13. CASE Stopping(a)
  BY <1>13, StoppingHolds
<1>14. CASE Abandoning(a)
  BY <1>14, AbandoningHolds
<1>15. CASE Delivering(a)
  BY <1>15, DeliveringHolds
<1>16. CASE Finish(a)
  BY <1>16, FinishHolds
<1>17. QED
  BY <1>1, <1>2, <1>3, <1>4, <1>5, <1>6, <1>7, <1>8, <1>9, <1>10, <1>11, <1>12, <1>13, <1>14, <1>15, <1>16
     DEF Collect, CaptureStep

\* No entry is live when the runtime closes, so it interrupts none; viewers and time
\* end what is overdue.
LEMMA RuntimeHolds ==
  ASSUME RegistryAssumption, ProgressInv, OutcomeInv, CloseRuntime \/ Watch, NEW b \in Attempts
  PROVE  CaptureHolds(b)' /\ Shown(b)'
<1>1. /\ RegistryTyped /\ CaptureHolds(b) /\ Shown(b)
      /\ UNCHANGED <<step, at, state, event, saving, jobs, place, troubled, sent, beat, cancelled, refused>>
  BY DEF ProgressInv, ProgressTyped, OutcomeInv, CloseRuntime, Watch, InterruptAll, Snapshot, Tick,
         measureVars, collectionVars
<1>2. Aged(attempts[b], attempts'[b])
  <2>1. CASE CloseRuntime
    <3>1. ~Running(b)
      BY <2>1 DEF CloseRuntime
    <3>2. attempts[b] # Absent => attempts[b].stage \in Terminal
      BY <1>1, <3>1 DEF Shown, InStepWith
    <3>3. b \notin Live(attempts)
      BY <3>2 DEF Live, Known
    <3>4. attempts'[b] = attempts[b]
      BY <2>1, <3>3 DEF CloseRuntime, InterruptAll
    <3>5. QED BY <3>4 DEF Aged
  <2>2. CASE Snapshot
    BY <1>1, <2>2, ExpireAges DEF Snapshot
  <2>3. CASE Tick
    BY <2>3 DEF Tick, Aged
  <2>4. QED BY <2>1, <2>2, <2>3 DEF Watch
<1>3. CaptureHolds(b)'
  BY <1>1, CaptureStays
<1>4. Shown(b)'
  BY <1>1, <1>2, AgedIsShown
<1>5. QED BY <1>3, <1>4

\* Nothing is known, and nothing shown, at first.
LEMMA OutcomeInit ==
  ASSUME ProgressAssumption, ProgressInit
  PROVE  OutcomeInv
<1> SUFFICES ASSUME NEW a \in Attempts PROVE CaptureHolds(a) /\ Shown(a)
  BY DEF OutcomeInv
<1>1. /\ step[a] = "idle" /\ at[a] = 1 /\ beat[a] = FALSE /\ state[a] = FirstState /\ event[a] = NoEvents
      /\ saving[a] = [h \in Harnesses |-> FALSE] /\ jobs[a] = << >> /\ place[a] = << >> /\ sent[a] = 0
      /\ attempts[a] = Absent /\ refused = {}
  <2>1. /\ step = [b \in Attempts |-> "idle"] /\ at = [b \in Attempts |-> 1] /\ beat = [b \in Attempts |-> FALSE]
        /\ state = [b \in Attempts |-> FirstState] /\ event = [b \in Attempts |-> NoEvents]
        /\ saving = [b \in Attempts |-> [h \in Harnesses |-> FALSE]] /\ jobs = [b \in Attempts |-> << >>]
        /\ place = [b \in Attempts |-> << >>] /\ sent = [b \in Attempts |-> 0]
        /\ attempts = [b \in Attempts |-> Absent] /\ refused = {}
    BY Zenon DEF ProgressInit, RegistryInit
  <2>2. QED BY <2>1
<1>2. FirstState.batches = 0
  BY Zenon DEF FirstState
<1>3. FailuresTold(a)
  <2>1. \A h \in Harnesses : event[a][h].count["failed"] = 0
    BY <1>1, BlankHas DEF NoEvents, Outcomes
  <2>2. QED BY <2>1 DEF FailuresTold
<1>4. Fresh(a)
  BY <1>1 DEF Fresh, Quiet
<1>5. Finds(a) /\ Works(a) /\ Stops(a) /\ Delivers(a)
  BY <1>1 DEF Finds, Works, Stops, Delivers
<1>6. CaptureHolds(a)
  BY <1>1, <1>2, <1>3, <1>4, <1>5 DEF CaptureHolds
<1>7. Shown(a)
  BY <1>1 DEF Shown
<1>8. QED BY <1>6, <1>7

\* Every step keeps the invariant.
LEMMA OutcomeStep ==
  ASSUME ProgressAssumption, RegistryAssumption, ProgressInv, OutcomeInv, [ProgressNext]_progressVars
  PROVE  OutcomeInv'
<1> SUFFICES ASSUME NEW b \in Attempts PROVE CaptureHolds(b)' /\ Shown(b)'
  BY DEF OutcomeInv
<1>1. CaptureHolds(b) /\ Shown(b) /\ RegistryTyped
  BY DEF OutcomeInv, ProgressInv, ProgressTyped
<1>2. CASE UNCHANGED progressVars
  <2>1. UNCHANGED <<step, at, state, event, saving, jobs, place, troubled, sent, beat, cancelled, refused, attempts>>
    BY <1>2 DEF progressVars, registryVars, measureVars, collectionVars
  <2>2. CaptureHolds(b)'
    BY <1>1, <2>1, CaptureStays
  <2>3. Aged(attempts[b], attempts'[b])
    BY <2>1 DEF Aged
  <2>4. Shown(b)'
    BY <1>1, <2>1, <2>3, AgedIsShown
  <2>5. QED BY <2>2, <2>4
<1>3. ASSUME NEW a \in Attempts, Collect(a)
      PROVE  CaptureHolds(b)' /\ Shown(b)'
  <2>1. CASE b = a
    BY <1>1, <1>3, <2>1, OwnHolds
  <2>2. CASE b # a
    <3>1. OnlyOf(a) /\ OwnCall(a)
      BY <1>3, StepsAreOwn
    <3>2. b \in Attempts \ {a}
      BY <2>2
    <3>3. QED BY <1>1, <3>1, <3>2, OthersHold
  <2>3. QED BY <2>1, <2>2
<1>4. CASE CloseRuntime \/ Watch
  BY <1>4, RuntimeHolds
<1>5. QED BY <1>2, <1>3, <1>4 DEF ProgressNext

\* What an entry shows, and what its collection was, agree.
LEMMA OutcomeMeans ==
  ASSUME OutcomeInv
  PROVE  EndedShowsOutcome
<1>1. RefusedOnlyWhenLost
  BY DEF OutcomeInv, Shown, RefusedOnlyWhenLost, Held
<1>2. ASSUME NEW a \in Held
      PROVE  /\ step[a] = "done" =>
                  /\ attempts[a].stage \in Terminal
                  /\ \A h \in Harnesses : attempts[a].captures[h] # Absent =>
                       attempts[a].captures[h].phase \in CaptureTerminal /\ attempts[a].captures[h].active = 0
             /\ attempts[a].stage = "accepted" /\ a \notin refused =>
                  \A h \in Harnesses : attempts[a].harnesses[h] \in {"complete", "skipped"}
                                       /\ attempts[a].captures[h].phase = "complete"
  <2>1. /\ a \in Attempts /\ Rests(attempts[a]) /\ Outcome(a, attempts[a])
        /\ attempts[a].stage \notin Terminal => Running(a)
    BY <1>2 DEF Held, OutcomeInv, Shown, InStepWith
  <2>2. step[a] = "done" => attempts[a].stage \in Terminal /\ AllEnded(attempts[a])
    BY <2>1 DEF Running, Outcome
  <2>3. QED BY <2>1, <2>2 DEF Outcome, AllEnded, Rests
<1>3. QED BY <1>1, <1>2 DEF EndedShowsOutcome

-----------------------------------------------------------------------------
\* A collection that is over is shown as what it was, whatever its workers, its writer,
\* its heartbeat, its caller's cancellation and the clock did in between: ended, with no
\* harness that still reads, accepted only if every harness is through, and lost if an
\* update of it was refused (Registry.Apply, Registry.UpdateCapture, Observer.Finish).
THEOREM OutcomesAreShown == ProgressSpec => []EndedShowsOutcome
<1>1. ProgressInit => OutcomeInv
  BY OutcomeInit, ProgressAssumption
<1>2. OutcomeInv /\ ProgressInv /\ [ProgressNext]_progressVars => OutcomeInv'
  BY OutcomeStep, ProgressAssumption, RegistryAssumption
<1>3. OutcomeInv => EndedShowsOutcome
  BY OutcomeMeans
<1>4. QED BY <1>1, <1>2, <1>3, ProgressHolds, PTL DEF ProgressSpec
=============================================================================
