------------------------------ MODULE Capture ------------------------------
(***************************************************************************)
(* Incremental reading of JSONL logs (src/packages/core/pipeline): a       *)
(* collection prepares each source outside any transaction while agents go *)
(* on writing, truncating and replacing it, and commits evidence and       *)
(* checkpoint together after a second look at the file.                    *)
(*                                                                         *)
(* A line is a member of Lines: its kind is all that matters to capture.   *)
(* A byte offset is the prefix it ends, a hash of bytes is those bytes.    *)
(***************************************************************************)
EXTENDS Integers, SequencesExt

CONSTANTS
  Jobs,          \* number of sources, in the order of their discovery
  Lines,         \* complete JSON lines
  KindOf,        \* "usage", "other", "limit" (over the record limit), or a kind of context
  MayHold,       \* the lines of each source
  Workers,       \* rawPreparationWorkers
  MaxLines,      \* bound: length of a source
  MaxRewrites,   \* bound: truncations and replacements of a source
  MaxFailures    \* bound: failed sources and ended collections

ASSUME CaptureAssumption ==
  /\ Jobs \in Nat \ {0} /\ Workers \in Nat \ {0}
  /\ MayHold \in [1..Jobs -> SUBSET Lines]
  /\ MaxLines \in [1..Jobs -> Nat] /\ MaxRewrites \in [1..Jobs -> Nat] /\ MaxFailures \in Nat

VARIABLES
  files,         \* by source and inode (the last one has the path): lines, and how they end
  mtime,         \* of each source: every write changes it
  checkpoint,    \* evidence_sources, by source
  captured,      \* records in evidence_outbox, by source
  marker,        \* evidence_quarantine: the signature of each source that failed
  mode,          \* the collection going on: incremental, or a full refresh
  issued, completed,  \* jobs handed to the readers, jobs the writer is done with
  job,           \* where each job is
  rewrites, failures

fileVars  == <<files, mtime, rewrites>>
storeVars == <<checkpoint, captured, marker>>
runVars   == <<mode, issued, completed, job>>
vars == <<fileVars, storeVars, runVars, failures>>

Sources == 1..Jobs

\* A collection is a loop over these; a failed job may propose a marker.
Waiting == [at |-> "waiting"]
Done == [at |-> "done"]
Failed(proposal) == [at |-> "failed", marker |-> proposal]

-----------------------------------------------------------------------------
(* Files *)

Empty == [lines |-> << >>, end |-> "newline"]
File(s) == Last(files[s])

\* Lines with their newline, and lines that are at least complete values.
Terminated(f) == IF f.end = "newline" THEN f.lines ELSE Front(f.lines)
Complete(f)   == IF f.end = "partial" THEN Front(f.lines) ELSE f.lines

\* rawSourceSignature: device, inode, size and modification time.
Signature(s) == <<Len(files[s]), mtime[s]>>

Write(s, f) == files' = [files EXCEPT ![s] = Append(Front(@), f)]

\* Signatures are only compared, so a time nobody remembers stands for any later one.
Remembered(s) ==
  marker[s] \cup (CASE job[s].at \in {"checked", "reading"} -> {job[s].signature}
                     [] job[s].at = "failed" -> job[s].marker
                     [] OTHER -> {})
NextTime(s) == CHOOSE n \in 0..2 : <<Len(files'[s]), n>> \notin Remembered(s)

Touch(s) ==
  /\ mtime' = [mtime EXCEPT ![s] = NextTime(s)]
  /\ UNCHANGED <<storeVars, runVars, failures>>

\* An agent starts a line and may be caught before its newline.
AgentAppends(s) ==
  /\ File(s).end = "newline"
  /\ Len(File(s).lines) < MaxLines[s]
  /\ \E l \in MayHold[s], e \in {"newline", "whole", "partial"} :
       Write(s, [lines |-> Append(File(s).lines, l), end |-> e])
  /\ Touch(s) /\ UNCHANGED rewrites

AgentFinishesLine(s) ==
  /\ File(s).end # "newline"
  /\ Write(s, [File(s) EXCEPT !.end = "newline"])
  /\ Touch(s) /\ UNCHANGED rewrites

Rewritten(s) ==
  /\ rewrites[s] < MaxRewrites[s]
  /\ rewrites' = [rewrites EXCEPT ![s] = @ + 1]

\* The file is cut, in place; what follows is appended.
Truncate(s) ==
  /\ Rewritten(s)
  /\ \E n \in 0..Len(File(s).lines) - 1 :
       Write(s, [lines |-> SubSeq(File(s).lines, 1, n), end |-> "newline"])
  /\ Touch(s)

\* Another file gets the path, filled by what is appended before the next look at it;
\* a reader keeps the one it has open, any other is gone.
Kept(s) == IF job[s].at = "reading" THEN files[s] ELSE [n \in DOMAIN files[s] |-> Empty]

Replace(s) ==
  /\ Rewritten(s)
  /\ files' = [files EXCEPT ![s] = Append(Kept(s), Empty)]
  /\ Touch(s)

-----------------------------------------------------------------------------
(* Lines and records *)

IsContext(l)  == KindOf[l] \notin {"usage", "other", "limit"}
IsRecorded(l) == KindOf[l] = "usage" \/ IsContext(l)

\* Mutant: the context of a session is never superseded.
Accumulated(context, ordinal, l) ==
  IF IsContext(l) THEN context \cup {<<ordinal, l>>} ELSE context

\* Each kind of context is replaced by its next line.
ContextAfter(context, ordinal, l) ==
  IF IsContext(l)
  THEN {x \in context : KindOf[x[2]] # KindOf[l]} \cup {<<ordinal, l>>}
  ELSE context

\* The cursor after one more complete line.
Advanced(cursor, l) ==
  [cursor EXCEPT !.ordinal = @ + 1,
                 !.prefix = Append(@, l),
                 !.context = ContextAfter(@, cursor.ordinal + 1, l)]

\* What a line contributes: evidence names its context lines, not itself.
RecordOf(next, l) ==
  IF IsRecorded(l)
  THEN {[lineage |-> next.lineage, ordinal |-> next.ordinal, line |-> l,
         context |-> {x \in next.context : x[1] # next.ordinal}]}
  ELSE {}

\* Mutant: a rewritten source keeps its lineage.
SameLineage(s) == IF checkpoint[s] = {} THEN 1 ELSE (CHOOSE c \in checkpoint[s] : TRUE).lineage

\* RandomID: a lineage this source never had.
NewLineage(s) == IF checkpoint[s] = {} THEN 1 ELSE (CHOOSE c \in checkpoint[s] : TRUE).lineage + 1

AtStart(lineage) == [lineage |-> lineage, ordinal |-> 0, prefix |-> << >>, context |-> {}]

\* Where reading resumes: after the checkpoint if its prefix is still there, else at
\* the start under a new lineage; a full refresh starts over.
Resumed(s) ==
  IF \E c \in checkpoint[s] : IsPrefix(c.prefix, Terminated(File(s)))
  THEN LET c == CHOOSE c \in checkpoint[s] : TRUE
       IN IF mode = "refresh" THEN AtStart(c.lineage) ELSE c
  ELSE AtStart(NewLineage(s))
-----------------------------------------------------------------------------
(* Preparation: readers, concurrent with everything else *)

Become(s, j) ==
  /\ job' = [job EXCEPT ![s] = j]
  /\ UNCHANGED <<fileVars, storeVars, mode, issued, completed, failures>>

\* Mutant: once failed, always skipped.
EverFailed(s) == mode # "refresh" /\ marker[s] # {}

\* A source that failed is skipped while its file is untouched.
Quarantined(s) == mode # "refresh" /\ marker[s] = {Signature(s)}

\* A reader takes the next job of the queue; the signature comes before the content.
CheckSource(s) ==
  /\ s <= issued /\ job[s] = Waiting
  /\ \A t \in 1..s - 1 : job[t] # Waiting
  /\ Become(s, IF Quarantined(s) THEN Failed({})
               ELSE [at |-> "checked", signature |-> Signature(s)])

OpenSource(s) ==
  /\ job[s].at = "checked"
  /\ Become(s, [at |-> "reading", signature |-> job[s].signature,
                inode |-> Len(files[s]), baseline |-> checkpoint[s],
                cursor |-> Resumed(s), bytes |-> Resumed(s).prefix, records |-> {}])

Prepared(s) == [job[s] EXCEPT !.at = "prepared"]

\* Mutant: the failure is put on whatever the file is now.
Marked(s) == {Signature(s)}

\* The limit is the file's fault only if it is still the file that was looked at.
Blamed(s) == IF Signature(s) = job[s].signature THEN {Signature(s)} ELSE {}

\* One line: the end of the file, a line over the limit, a value still without its
\* newline (evidence, but the cursor stays before it), or a complete line.
ReadLine(s) ==
  LET f == files[s][job[s].inode]
      n == Len(job[s].bytes) + 1
      next == Advanced(job[s].cursor, f.lines[n])
      read == [job[s] EXCEPT !.bytes = Append(@, f.lines[n]),
                             !.records = @ \cup RecordOf(next, f.lines[n])]
  IN
  /\ job[s].at = "reading"
  /\ \/ n > Len(Complete(f)) /\ Become(s, Prepared(s))
     \/ /\ n <= Len(Complete(f)) /\ KindOf[f.lines[n]] = "limit"
        /\ Become(s, Failed(Blamed(s)))
     \/ /\ n <= Len(Complete(f)) /\ KindOf[f.lines[n]] # "limit"
        /\ IF n > Len(Terminated(f))
           THEN Become(s, [read EXCEPT !.at = "prepared"])
           ELSE Become(s, [read EXCEPT !.cursor = next])

-----------------------------------------------------------------------------
(* The writer takes results in the order of the jobs *)

\* Mutant: the file is trusted to be what was read.
Unverified(s) == TRUE

\* verifyPreparedJSONL: the path still names the file, which still starts with the
\* bytes that were read.
Verified(s) ==
  /\ job[s].inode = Len(files[s])
  /\ IsPrefix(job[s].cursor.prefix, Terminated(File(s)))
  /\ IsPrefix(job[s].bytes, Complete(File(s)))

\* Records and checkpoint in one transaction, or nothing.  The file is looked at
\* last; from then on it does not matter, so looking and committing are one step.
CommitSource(s) ==
  /\ s = completed + 1 /\ job[s].at = "prepared"
  /\ IF job[s].baseline = checkpoint[s] /\ Verified(s)
     THEN /\ captured' = [captured EXCEPT ![s] = @ \cup job[s].records]
          /\ checkpoint' = [checkpoint EXCEPT ![s] = {job[s].cursor}]
          /\ job' = [job EXCEPT ![s] = [at |-> "committed"]]
          /\ UNCHANGED <<marker, fileVars, mode, issued, completed, failures>>
     ELSE Become(s, Failed({}))

\* A job is issued for each one the writer is done with: that bounds readers and
\* finished spools together.
NextIssued == Min({issued + 1, Jobs})

\* The writer is done with a job: a reader may have another, and after the last one
\* the collection ends.
Consume(s) ==
  /\ completed' = s % Jobs
  /\ issued' = IF s = Jobs THEN 0 ELSE NextIssued
  /\ mode' = IF s = Jobs THEN "idle" ELSE mode
  /\ job' = IF s = Jobs THEN [t \in Sources |-> Waiting] ELSE [job EXCEPT ![s] = Done]
  /\ UNCHANGED <<fileVars, checkpoint, captured, failures>>

\* A transaction of its own, after the commit.
ClearMarker(s) ==
  /\ s = completed + 1 /\ job[s].at = "committed"
  /\ marker' = [marker EXCEPT ![s] = {}]
  /\ Consume(s)

\* SaveQuarantine, if this failure is the file's fault.
NextMarker(s) == IF job[s].marker = {} THEN marker[s] ELSE job[s].marker

ConsumeFailure(s) ==
  /\ s = completed + 1 /\ job[s].at = "failed"
  /\ marker' = [marker EXCEPT ![s] = NextMarker(s)]
  /\ Consume(s)

-----------------------------------------------------------------------------
FirstIssued == Min({Workers, Jobs})

Begin(m) ==
  /\ mode = "idle"
  /\ mode' = m
  /\ issued' = FirstIssued
  /\ UNCHANGED <<completed, job, fileVars, storeVars, failures>>

\* Reading, writing or clearing a marker fails; the other sources go on.
SourceFails(s) ==
  /\ failures < MaxFailures
  /\ failures' = failures + 1
  /\ job[s].at \notin {"waiting", "failed", "done"} \/ (job[s].at = "failed" /\ job[s].marker # {})
  /\ job' = [job EXCEPT ![s] = Failed({})]
  /\ UNCHANGED <<fileVars, storeVars, mode, issued, completed>>

\* The collection is cancelled or dies with its process.
Abort ==
  /\ mode # "idle"
  /\ failures < MaxFailures
  /\ failures' = failures + 1
  /\ mode' = "idle" /\ issued' = 0 /\ completed' = 0
  /\ job' = [s \in Sources |-> Waiting]
  /\ UNCHANGED <<fileVars, storeVars>>

-----------------------------------------------------------------------------
Init ==
  /\ files = [s \in Sources |-> <<Empty>>]
  /\ mtime = [s \in Sources |-> 0]
  /\ checkpoint = [s \in Sources |-> {}]
  /\ captured = [s \in Sources |-> {}]
  /\ marker = [s \in Sources |-> {}]
  /\ mode = "idle" /\ issued = 0 /\ completed = 0
  /\ job = [s \in Sources |-> Waiting]
  /\ rewrites = [s \in Sources |-> 0] /\ failures = 0

Prepare(s) == CheckSource(s) \/ OpenSource(s) \/ ReadLine(s)
Settle(s)  == CommitSource(s) \/ ClearMarker(s) \/ ConsumeFailure(s)

Next ==
  \/ \E s \in Sources :
       \/ AgentAppends(s) \/ AgentFinishesLine(s) \/ Truncate(s) \/ Replace(s)
       \/ Prepare(s) \/ Settle(s) \/ SourceFails(s)
  \/ \E m \in {"incremental", "refresh"} : Begin(m)
  \/ Abort

(***************************************************************************)
(* Fairness.  Collections are asked for again and again (Begin of the      *)
(* ordinary kind), readers and the writer go on.  Nothing is assumed of    *)
(* agents, failures and full refreshes.                                    *)
(***************************************************************************)
Fairness ==
  /\ WF_vars(Begin("incremental"))
  /\ \A s \in Sources : WF_vars(Prepare(s)) /\ WF_vars(Settle(s))

Spec == Init /\ [][Next]_vars
FairSpec == Spec /\ Fairness

-----------------------------------------------------------------------------
\* Reference: the records of a text that is read from its start in one go.  Context
\* is the last line of each kind before the line, of its own kind excepted.
ContextOf(t, n) ==
  {<<k, t[k]>> : k \in {k \in 1..n - 1 :
     IsContext(t[k]) /\ \A m \in k + 1..n : KindOf[t[m]] # KindOf[t[k]]}}

RecordsOf(t, lineage) ==
  {[lineage |-> lineage, ordinal |-> n, line |-> t[n], context |-> ContextOf(t, n)] :
     n \in {n \in DOMAIN t : IsRecorded(t[n])}}

HasLimit(t) == \E n \in DOMAIN t : KindOf[t[n]] = "limit"

\* A checkpoint never passes a line it did not capture: whatever was read in pieces,
\* retried or read again, the evidence equals that of one complete reading, context
\* included (parseJSONL, extractJSONRecord).
NothingSkipped ==
  \A s \in Sources : \A c \in checkpoint[s] :
    RecordsOf(c.prefix, c.lineage) \subseteq captured[s] /\ ~HasLimit(c.prefix)

\* What is committed stands in the file at that moment, at its place and under its
\* context, although the file was read while agents wrote, cut and replaced it
\* (verifyPreparedJSONL).
CommitsWhatIsThere ==
  [][\A s \in Sources : \A c \in checkpoint'[s] :
       captured'[s] \ captured[s] \subseteq RecordsOf(Complete(File(s)), c.lineage)]_vars

\* An incremental collection continues a lineage only by appending to what was
\* committed under it (cursorFor, parseJSONL).
LineageExtends ==
  [][\A s \in Sources : \A c \in checkpoint[s], d \in checkpoint'[s] :
       mode = "incremental" /\ c.lineage = d.lineage => IsPrefix(c.prefix, d.prefix)]_vars

\* A source is skipped only while it really has a line that cannot be captured: no
\* write during the reading puts a marker on a file that is fine (prepareRawSource).
QuarantineDeserved ==
  \A s \in Sources : Signature(s) \in marker[s] => HasLimit(File(s).lines)

\* Once agents stop, everything in a source without such a line is evidence: failures,
\* markers of older contents and other sources do not hold it up (extractPrepared).
EverythingCaptured ==
  \A s \in Sources :
    <>[](\/ HasLimit(File(s).lines)
         \/ \E c \in checkpoint[s] : RecordsOf(Complete(File(s)), c.lineage) \subseteq captured[s])

\* docs/design.md:82: "Rewrite/truncation rotates lineage": a place in a lineage is
\* one line forever.
RewriteRotatesLineage ==
  \A s \in Sources : \A q, r \in captured[s] :
    q.lineage = r.lineage /\ q.ordinal = r.ordinal => q.line = r.line
=============================================================================
