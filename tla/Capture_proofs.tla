--------------------------- MODULE Capture_proofs ---------------------------
(***************************************************************************)
(* Source capture, for any number of sources, lines, readers, rewrites and *)
(* failures: a checkpoint never passes a line that was not captured, what  *)
(* is committed stands in the file, a lineage is only appended to, and a   *)
(* marker stays only on a file that deserves it.  And what a Codex rollout *)
(* says of turns and models is put together again as its file has it.      *)
(* And of a line too long to be evidence, of any depth and with any names, *)
(* the stream parser takes what JSON allows, and only what would have      *)
(* recorded nothing is skipped.                                            *)
(***************************************************************************)
EXTENDS Capture, CodexTurns, LongLine, FiniteSetTheorems, SequenceTheorems,
        WellFoundedInduction, TLAPS

-----------------------------------------------------------------------------
(* Texts. *)

\* The text t starts with p.
Starts(p, t) == Len(p) <= Len(t) /\ \A i \in 1..Len(p) : p[i] = t[i]

\* The library's prefix is one that can be read line by line.
LEMMA PrefixStarts ==
  ASSUME NEW p \in Seq(Lines), NEW t \in Seq(Lines)
  PROVE  IsPrefix(p, t) <=> Starts(p, t)
<1>1. Len(p) \in Nat /\ Len(t) \in Nat
  BY LenProperties
<1>2. SubSeq(p, 1, Len(p)) = p
  BY SubSeqFull
<1>3. ASSUME Len(p) <= Len(t) PROVE p = SubSeq(t, 1, Len(p)) <=> \A i \in 1..Len(p) : p[i] = t[i]
  <2> DEFINE q == SubSeq(t, 1, Len(p))
  <2>1. \A i \in 1..Len(p) : t[i] \in Lines
    BY <1>1, <1>3, ElementOfSeq
  <2>2. /\ q \in Seq(Lines)
        /\ Len(q) = IF 1 <= Len(p) THEN Len(p) - 1 + 1 ELSE 0
        /\ \A i \in 1 .. Len(p) - 1 + 1 : q[i] = t[1 + i - 1]
    <3>1. 1 \in Int /\ Len(p) \in Int
      BY <1>1
    <3> QED BY <2>1, <3>1, SubSeqProperties
  <2>3. Len(q) = Len(p) /\ \A i \in 1..Len(p) : q[i] = t[i]
    BY <1>1, <2>2
  <2> HIDE DEF q
  <2>4. p = q <=> \A i \in 1..Len(p) : p[i] = q[i]
    BY <2>2, <2>3, SeqEqual
  <2> QED BY <2>3, <2>4 DEF q
<1> QED BY <1>2, <1>3 DEF IsPrefix, Starts

\* A line appended to a file comes after all its lines and changes none of them.
LEMMA AppendStarts ==
  ASSUME NEW t \in Seq(Lines), NEW l \in Lines
  PROVE  /\ Append(t, l) \in Seq(Lines) /\ Len(Append(t, l)) = Len(t) + 1
         /\ \A i \in 1..Len(t) : Append(t, l)[i] = t[i]
         /\ Append(t, l)[Len(t) + 1] = l
         /\ Len(t) \in Nat
  OBVIOUS

\* A text that starts with another has the records of that one, and their context.
LEMMA RecordsWithin ==
  ASSUME NEW p \in Seq(Lines), NEW t \in Seq(Lines), Starts(p, t), NEW lineage
  PROVE  /\ \A n \in 1..Len(p) : ContextOf(p, n) = ContextOf(t, n)
         /\ RecordsOf(p, lineage) \subseteq RecordsOf(t, lineage)
<1>1. /\ Len(p) \in Nat /\ Len(t) \in Nat /\ DOMAIN p = 1..Len(p) /\ DOMAIN t = 1..Len(t)
      /\ Len(p) <= Len(t)
  BY LenProperties DEF Starts
<1>2. ASSUME NEW n \in 1..Len(p) PROVE ContextOf(p, n) = ContextOf(t, n)
  <2>1. \A k \in 1..n : p[k] = t[k]
    BY <1>1 DEF Starts
  <2>2. \A k \in 1..n - 1 : k \in 1..n /\ \A m \in k + 1..n : m \in 1..n
    BY <1>1
  <2> QED BY <2>1, <2>2 DEF ContextOf
<1>3. \A n \in DOMAIN p : n \in DOMAIN t /\ p[n] = t[n]
  BY <1>1 DEF Starts
<1> QED BY <1>1, <1>2, <1>3 DEF RecordsOf

-----------------------------------------------------------------------------
(* Cursors. *)

\* The lines that are the context at the end of a text: the last of each kind.
Standing(t, k) == IsContext(t[k]) /\ \A m \in k + 1..Len(t) : KindOf[t[m]] # KindOf[t[k]]
ContextAt(t) == {<<k, t[k]>> : k \in {k \in 1..Len(t) : Standing(t, k)}}

\* A cursor counts the lines before it and carries their context.
Sound(c) ==
  /\ c = [lineage |-> c.lineage, ordinal |-> c.ordinal, prefix |-> c.prefix, context |-> c.context]
  /\ c.lineage \in Nat /\ c.prefix \in Seq(Lines)
  /\ c.ordinal = Len(c.prefix) /\ c.context = ContextAt(c.prefix)
  /\ ~HasLimit(c.prefix)

\* One more line stands, and those of another kind that stood.
LEMMA StandingGrows ==
  ASSUME NEW t \in Seq(Lines), NEW l \in Lines
  PROVE  /\ Standing(Append(t, l), Len(t) + 1) <=> IsContext(l)
         /\ \A k \in 1..Len(t) :
              Standing(Append(t, l), k) <=> Standing(t, k) /\ KindOf[l] # KindOf[t[k]]
<1> DEFINE u == Append(t, l)
<1>1. /\ Len(u) = Len(t) + 1 /\ Len(t) \in Nat /\ u[Len(t) + 1] = l
      /\ \A i \in 1..Len(t) : u[i] = t[i]
  BY AppendStarts
<1> HIDE DEF u
<1>2. Standing(u, Len(t) + 1) <=> IsContext(l)
  BY <1>1 DEF Standing
<1>3. ASSUME NEW k \in 1..Len(t)
      PROVE  Standing(u, k) <=> Standing(t, k) /\ KindOf[l] # KindOf[t[k]]
  <2>1. \A m : m \in k + 1..Len(u) <=> m \in k + 1..Len(t) \/ m = Len(t) + 1
    BY <1>1
  <2>2. \A m \in k + 1..Len(t) : u[m] = t[m]
    BY <1>1
  <2> QED BY <1>1, <2>1, <2>2 DEF Standing
<1> QED BY <1>2, <1>3 DEF u

\* ContextAfter keeps the context up to date.
LEMMA ContextAdvances ==
  ASSUME NEW t \in Seq(Lines), NEW l \in Lines
  PROVE  ContextAt(Append(t, l)) = ContextAfter(ContextAt(t), Len(t) + 1, l)
<1> DEFINE u == Append(t, l)
<1>1. /\ Len(u) = Len(t) + 1 /\ Len(t) \in Nat /\ u[Len(t) + 1] = l
      /\ \A i \in 1..Len(t) : u[i] = t[i]
  BY AppendStarts
<1>2. /\ Standing(u, Len(t) + 1) <=> IsContext(l)
      /\ \A k \in 1..Len(t) : Standing(u, k) <=> Standing(t, k) /\ KindOf[l] # KindOf[t[k]]
  BY StandingGrows
<1> HIDE DEF u
<1>3. \A x : x \in ContextAt(u) <=>
               \/ IsContext(l) /\ x = <<Len(t) + 1, l>>
               \/ \E k \in 1..Len(t) : Standing(t, k) /\ KindOf[l] # KindOf[t[k]] /\ x = <<k, t[k]>>
  <2>1. \A k : k \in 1..Len(u) <=> k \in 1..Len(t) \/ k = Len(t) + 1
    BY <1>1
  <2> QED BY <1>1, <1>2, <2>1 DEF ContextAt
<1>4. CASE IsContext(l)
  <2>1. \A x : x \in ContextAfter(ContextAt(t), Len(t) + 1, l) <=>
               \/ x = <<Len(t) + 1, l>>
               \/ \E k \in 1..Len(t) : Standing(t, k) /\ KindOf[l] # KindOf[t[k]] /\ x = <<k, t[k]>>
    BY <1>4 DEF ContextAfter, ContextAt
  <2>2. \A x : x \in ContextAt(u) <=> x \in ContextAfter(ContextAt(t), Len(t) + 1, l)
    BY <1>3, <1>4, <2>1
  <2> QED BY <2>2 DEF u, ContextAfter, ContextAt
<1>5. CASE ~IsContext(l)
  <2>1. \A k \in 1..Len(t) : Standing(t, k) => KindOf[l] # KindOf[t[k]]
    BY <1>5 DEF Standing, IsContext
  <2>2. \A x : x \in ContextAt(u) <=> x \in ContextAt(t)
    BY <1>3, <1>5, <2>1 DEF ContextAt
  <2> QED BY <1>5, <2>2 DEF u, ContextAfter, ContextAt
<1> QED BY <1>4, <1>5

\* A line's own record, and the records of the lines before it, are those of the
\* whole text.
LEMMA RecordsAdvance ==
  ASSUME NEW c, Sound(c), NEW l \in Lines, KindOf[l] # "limit"
  PROVE  /\ Sound(Advanced(c, l))
         /\ Advanced(c, l).lineage = c.lineage
         /\ Advanced(c, l).prefix = Append(c.prefix, l)
         /\ RecordsOf(Append(c.prefix, l), c.lineage)
              = RecordsOf(c.prefix, c.lineage) \cup RecordOf(Advanced(c, l), l)
<1> DEFINE t == c.prefix
           u == Append(t, l)
           next == Advanced(c, l)
<1>1. /\ t \in Seq(Lines) /\ c.ordinal = Len(t) /\ c.context = ContextAt(t) /\ ~HasLimit(t)
      /\ c.lineage \in Nat
      /\ c = [lineage |-> c.lineage, ordinal |-> c.ordinal, prefix |-> t, context |-> c.context]
  BY DEF Sound
<1>2. next = [lineage |-> c.lineage, ordinal |-> Len(t) + 1, prefix |-> u,
              context |-> ContextAfter(ContextAt(t), Len(t) + 1, l)]
  <2> DEFINE x == ContextAfter(c.context, c.ordinal + 1, l)
  <2>1. next = [c EXCEPT !.ordinal = c.ordinal + 1, !.prefix = u, !.context = x]
    BY DEF Advanced
  <2>2. c.ordinal = Len(t) /\ c.context = ContextAt(t)
    BY <1>1
  <2>3. x = ContextAfter(ContextAt(t), Len(t) + 1, l)
    BY <2>2
  <2> HIDE DEF t, u, next, x
  <2>4. c = [lineage |-> c.lineage, ordinal |-> c.ordinal, prefix |-> t, context |-> c.context]
    BY <1>1
  <2>5. next = [lineage |-> c.lineage, ordinal |-> c.ordinal + 1, prefix |-> u, context |-> x]
    BY <2>1, <2>4
  <2> QED BY <2>2, <2>3, <2>5
<1>3. /\ u \in Seq(Lines) /\ Len(u) = Len(t) + 1 /\ Len(t) \in Nat /\ u[Len(t) + 1] = l
      /\ \A i \in 1..Len(t) : u[i] = t[i]
  BY <1>1, AppendStarts
<1>4. ContextAt(u) = ContextAfter(ContextAt(t), Len(t) + 1, l)
  BY <1>1, ContextAdvances
<1>5. \A k \in 1..Len(t) : Standing(u, k) <=> Standing(t, k) /\ KindOf[l] # KindOf[t[k]]
  BY <1>1, StandingGrows
<1>6. DOMAIN u = 1..(Len(t) + 1) /\ DOMAIN t = 1..Len(t)
  BY <1>1, <1>3, LenProperties
<1> HIDE DEF t, u, next
<1>7. ~HasLimit(u)
  <2>1. \A i \in 1..(Len(t) + 1) : i \in 1..Len(t) \/ i = Len(t) + 1
    BY <1>3
  <2> QED BY <1>1, <1>3, <1>6, <2>1 DEF HasLimit
<1>8. Sound(next)
  BY <1>1, <1>2, <1>3, <1>4, <1>7 DEF Sound
<1>9. ContextOf(u, Len(t) + 1) = {x \in next.context : x[1] # next.ordinal}
  <2>1. ContextOf(u, Len(t) + 1) = {<<k, u[k]>> : k \in {k \in 1..Len(t) : Standing(u, k)}}
    BY <1>3 DEF ContextOf, Standing
  <2>2. next.context = ContextAt(u) /\ next.ordinal = Len(t) + 1
    BY <1>2, <1>4
  <2>3. \A k : k \in 1..Len(t) <=> k \in 1..Len(u) /\ k # Len(t) + 1
    BY <1>3
  <2>4. \A x : x \in ContextAt(u) /\ x[1] # Len(t) + 1
               <=> \E k \in 1..Len(t) : Standing(u, k) /\ x = <<k, u[k]>>
    BY <2>3 DEF ContextAt
  <2>5. \A x : x \in ContextOf(u, Len(t) + 1) <=> x \in {y \in ContextAt(u) : y[1] # Len(t) + 1}
    BY <2>1, <2>4
  <2>6. ContextOf(u, Len(t) + 1) = {y \in ContextAt(u) : y[1] # Len(t) + 1}
    BY <2>1, <2>5 DEF ContextAt
  <2> QED BY <2>2, <2>6
<1>10. Starts(t, u)
  BY <1>3 DEF Starts
<1>11. RecordsOf(t, c.lineage) \subseteq RecordsOf(u, c.lineage)
  BY <1>1, <1>3, <1>10, RecordsWithin
<1>12. RecordOf(next, l) =
         IF IsRecorded(l) THEN {[lineage |-> c.lineage, ordinal |-> Len(t) + 1, line |-> l,
                                 context |-> ContextOf(u, Len(t) + 1)]}
         ELSE {}
  BY <1>2, <1>9 DEF RecordOf
<1>13. ASSUME NEW r \in RecordsOf(u, c.lineage)
       PROVE  r \in RecordsOf(t, c.lineage) \cup RecordOf(next, l)
  <2>1. PICK n \in DOMAIN u :
          /\ IsRecorded(u[n])
          /\ r = [lineage |-> c.lineage, ordinal |-> n, line |-> u[n], context |-> ContextOf(u, n)]
    BY <1>13 DEF RecordsOf
  <2>2. CASE n \in 1..Len(t)
    <3>1. u[n] = t[n] /\ ContextOf(u, n) = ContextOf(t, n)
      BY <1>1, <1>3, <1>10, <2>2, RecordsWithin
    <3> QED BY <1>6, <2>1, <2>2, <3>1 DEF RecordsOf
  <2>3. CASE n = Len(t) + 1
    BY <1>3, <1>12, <2>1, <2>3
  <2> QED BY <1>3, <1>6, <2>2, <2>3
<1>14. RecordOf(next, l) \subseteq RecordsOf(u, c.lineage)
  <2>1. Len(t) + 1 \in DOMAIN u
    BY <1>3, <1>6
  <2> QED BY <1>3, <1>12, <2>1 DEF RecordsOf
<1>15. RecordsOf(u, c.lineage) = RecordsOf(t, c.lineage) \cup RecordOf(next, l)
  BY <1>11, <1>13, <1>14
<1>16. next.lineage = c.lineage /\ next.prefix = u
  BY <1>2
<1> QED BY <1>8, <1>15, <1>16 DEF t, u, next

-----------------------------------------------------------------------------
(* The invariant. *)

FileSet == [lines : Seq(Lines), end : {"newline", "whole", "partial"}]

\* A source always has a file under its path.
FilesHold ==
  /\ files \in [Sources -> Seq(FileSet)] /\ \A s \in Sources : files[s] # << >>
  /\ mtime \in [Sources -> 0..2]

Singular(S) == \E x : S \subseteq {x}

\* What a checkpoint passed was captured.
CheckpointsHold ==
  /\ checkpoint = [s \in Sources |-> checkpoint[s]]
  /\ captured = [s \in Sources |-> captured[s]]
  /\ \A s \in Sources :
       /\ Singular(checkpoint[s])
       /\ \A c \in checkpoint[s] :
            Sound(c) /\ RecordsOf(c.prefix, c.lineage) \subseteq captured[s]

\* What a reader has so far: its records are those of the bytes it read, and the
\* records before its cursor are captured or among them.
Reads(s, j) ==
  /\ j = [at |-> j.at, signature |-> j.signature, inode |-> j.inode, baseline |-> j.baseline,
          cursor |-> j.cursor, bytes |-> j.bytes, records |-> j.records]
  /\ Sound(j.cursor) /\ j.bytes \in Seq(Lines)
  /\ Starts(j.cursor.prefix, j.bytes)
  /\ j.records \subseteq RecordsOf(j.bytes, j.cursor.lineage)
  /\ RecordsOf(j.cursor.prefix, j.cursor.lineage) \subseteq captured[s] \cup j.records
  /\ \A c \in j.baseline :
       /\ c.prefix \in Seq(Lines)
       /\ mode = "incremental" /\ c.lineage = j.cursor.lineage => Starts(c.prefix, j.cursor.prefix)

\* The reader's file, and the path's, if nothing was written since the job's first look.
Follows(s, j) ==
  /\ j.bytes = j.cursor.prefix
  /\ j.inode \in 1..Len(files[s])
  /\ Signature(s) = j.signature => j.inode = Len(files[s])

\* A marker that names the file as it is names a file with a line that cannot be captured.
Deserved(s, markers) ==
  Singular(markers) /\ (Signature(s) \in markers => HasLimit(File(s).lines))

JobFits(s, j) ==
  /\ j.at = "checked" => j = [at |-> "checked", signature |-> j.signature]
  /\ j.at \in {"reading", "prepared"} => Reads(s, j)
  /\ j.at = "reading" => Follows(s, j)
  /\ j.at = "failed" => Deserved(s, j.marker)

\* Between collections no job is under way.
JobsHold ==
  /\ job = [s \in Sources |-> job[s]]
  /\ mode = "idle" => issued = 0 /\ \A s \in Sources : job[s] = Waiting
  /\ \A s \in Sources : JobFits(s, job[s])

MarkersHold ==
  /\ marker = [s \in Sources |-> marker[s]]
  /\ \A s \in Sources : Deserved(s, marker[s])

CaptureInv == FilesHold /\ CheckpointsHold /\ JobsHold /\ MarkersHold

-----------------------------------------------------------------------------
(* Files. *)

\* A source's files, and the texts they hold.
LEMMA FileTyped ==
  ASSUME FilesHold, NEW s \in Sources
  PROVE  /\ Len(files[s]) \in Nat \ {0}
         /\ \A i \in 1..Len(files[s]) : files[s][i] \in FileSet
         /\ File(s) = files[s][Len(files[s])] /\ File(s) \in FileSet
<1>1. files[s] \in Seq(FileSet) /\ files[s] # << >>
  BY DEF FilesHold
<1> HIDE DEF FileSet
<1>2. Len(files[s]) \in Nat \ {0} /\ \A i \in 1..Len(files[s]) : files[s][i] \in FileSet
  BY <1>1
<1>3. File(s) = files[s][Len(files[s])]
  BY DEF File, Last
<1> QED BY <1>2, <1>3

\* All but the last element of a sequence.
LEMMA FrontTyped ==
  ASSUME NEW S, NEW q \in Seq(S)
  PROVE  /\ Front(q) \in Seq(S)
         /\ q # << >> => Len(Front(q)) = Len(q) - 1
         /\ \A i \in 1..Len(Front(q)) : i \in 1..Len(q) /\ Front(q)[i] = q[i]
<1> DEFINE n == Len(q) - 1
<1>1. Len(q) \in Nat /\ n \in Int /\ n <= Len(q) /\ (q # << >> => n \in Nat) /\ (q = << >> => n = -1)
  BY EmptySeq, LenProperties
<1>2. \A i \in 1..n : q[i] \in S
  BY <1>1, ElementOfSeq
<1>3. /\ SubSeq(q, 1, n) \in Seq(S)
      /\ Len(SubSeq(q, 1, n)) = IF 1 <= n THEN n - 1 + 1 ELSE 0
      /\ \A i \in 1 .. n - 1 + 1 : SubSeq(q, 1, n)[i] = q[1 + i - 1]
  BY <1>1, <1>2, SubSeqProperties
<1>4. Front(q) = SubSeq(q, 1, n)
  BY DEF Front
<1>5. q # << >> => Len(Front(q)) = n
  <2>1. \A k \in Nat : (IF 1 <= k THEN k - 1 + 1 ELSE 0) = k
    OBVIOUS
  <2>2. q # << >> => n \in Nat
    BY <1>1
  <2> HIDE DEF n
  <2>3. Len(Front(q)) = IF 1 <= n THEN n - 1 + 1 ELSE 0
    BY <1>3, <1>4
  <2> QED BY <2>1, <2>2, <2>3
<1>6. \A i \in 1..Len(Front(q)) : i \in 1..n
  BY <1>1, <1>3, <1>4
<1>7. \A i \in 1..n : i \in 1..Len(q) /\ i \in 1 .. n - 1 + 1 /\ 1 + i - 1 = i
  BY <1>1
<1>8. \A i \in 1..Len(Front(q)) : i \in 1..Len(q) /\ Front(q)[i] = q[i]
  BY <1>3, <1>4, <1>6, <1>7
<1> QED BY <1>3, <1>4, <1>5, <1>8

\* The complete lines of a file are lines of it.
LEMMA TextTyped ==
  ASSUME NEW f \in FileSet
  PROVE  /\ Terminated(f) \in Seq(Lines) /\ Complete(f) \in Seq(Lines)
         /\ f.lines \in Seq(Lines)
         /\ \A n \in 1..Len(Complete(f)) :
              n \in 1..Len(f.lines) /\ f.lines[n] \in Lines /\ Complete(f)[n] = f.lines[n]
<1>1. f.lines \in Seq(Lines)
  BY DEF FileSet
<1>2. /\ Front(f.lines) \in Seq(Lines)
      /\ \A n \in 1..Len(Front(f.lines)) : n \in 1..Len(f.lines) /\ Front(f.lines)[n] = f.lines[n]
  BY <1>1, FrontTyped
<1>3. Terminated(f) \in Seq(Lines) /\ Complete(f) \in Seq(Lines)
  BY <1>1, <1>2 DEF Terminated, Complete
<1>4. \A n \in 1..Len(Complete(f)) : n \in 1..Len(f.lines) /\ Complete(f)[n] = f.lines[n]
  BY <1>1, <1>2 DEF Complete
<1>5. \A n \in 1..Len(f.lines) : f.lines[n] \in Lines
  BY <1>1
<1> QED BY <1>1, <1>3, <1>4, <1>5

-----------------------------------------------------------------------------
(* Steps of agents. *)

\* Some time is not remembered: a marker and a job remember at most two.
LEMMA NewTime ==
  ASSUME NEW s, NEW size, Singular(marker[s]),
         job[s].at = "failed" => Singular(job[s].marker)
  PROVE  \E n \in 0..2 : <<size, n>> \notin Remembered(s)
<1>1. PICK x : marker[s] \subseteq {x}
  BY DEF Singular
<1>2. \E y : Remembered(s) \subseteq {x, y}
  <2>1. CASE job[s].at \in {"checked", "reading"}
    BY <1>1, <2>1 DEF Remembered
  <2>2. CASE job[s].at = "failed"
    <3>1. PICK y : job[s].marker \subseteq {y}
      BY <2>2 DEF Singular
    <3>2. Remembered(s) = marker[s] \cup job[s].marker
      BY <2>2 DEF Remembered
    <3> QED BY <1>1, <3>1, <3>2
  <2>3. CASE job[s].at \notin {"checked", "reading", "failed"}
    BY <1>1, <2>3 DEF Remembered
  <2> QED BY <2>1, <2>2, <2>3
<1>3. PICK y : Remembered(s) \subseteq {x, y}
  BY <1>2
<1>4. /\ <<size, 0>> # <<size, 1>> /\ <<size, 0>> # <<size, 2>> /\ <<size, 1>> # <<size, 2>>
      /\ 0 \in 0..2 /\ 1 \in 0..2 /\ 2 \in 0..2
  OBVIOUS
<1> QED BY <1>3, <1>4

\* What a write does to the other sources: nothing.
LEMMA WriteHolds ==
  ASSUME CaptureInv, NEW s \in Sources, NEW F \in Seq(FileSet),
         F # << >>, Len(files[s]) <= Len(F),
         files' = [files EXCEPT ![s] = F], Touch(s)
  PROVE  CaptureInv'
<1>1. FilesHold /\ CheckpointsHold /\ JobsHold /\ MarkersHold
  BY DEF CaptureInv
<1>2. files \in [Sources -> Seq(FileSet)] /\ mtime \in [Sources -> 0..2]
  BY <1>1 DEF FilesHold
<1>3. files'[s] = F /\ \A t \in Sources \ {s} : files'[t] = files[t]
  BY <1>2
<1> DEFINE n == NextTime(s)
<1>4. n \in 0..2 /\ <<Len(F), n>> \notin Remembered(s)
  <2>1. Singular(marker[s]) /\ (job[s].at = "failed" => Singular(job[s].marker))
    BY <1>1 DEF MarkersHold, JobsHold, JobFits, Deserved
  <2>2. \E m \in 0..2 : <<Len(F), m>> \notin Remembered(s)
    BY <2>1, NewTime
  <2>3. n = CHOOSE m \in 0..2 : <<Len(F), m>> \notin Remembered(s)
    BY <1>3 DEF NextTime
  <2> QED BY <2>2, <2>3
<1>5. mtime' = [mtime EXCEPT ![s] = n]
  BY DEF Touch
<1>6. UNCHANGED <<checkpoint, captured, marker, mode, issued, completed, job>>
  BY DEF Touch, storeVars, runVars
<1> HIDE DEF n
<1>7. FilesHold'
  BY <1>2, <1>3, <1>1, <1>4, <1>5 DEF FilesHold
<1>8. CheckpointsHold'
  BY <1>1, <1>6 DEF CheckpointsHold
<1>9. /\ Signature(s)' = <<Len(F), n>>
      /\ \A t \in Sources \ {s} : Signature(t)' = Signature(t) /\ File(t)' = File(t)
  BY <1>2, <1>3, <1>5 DEF Signature, File
<1>10. ASSUME NEW t \in Sources PROVE Deserved(t, marker[t])'
  <2>1. Deserved(t, marker[t])
    BY <1>1 DEF MarkersHold
  <2>2. CASE t # s
    BY <1>6, <1>9, <2>1, <2>2 DEF Deserved
  <2>3. CASE t = s
    BY <1>4, <1>6, <1>9, <2>1, <2>3 DEF Deserved, Remembered
  <2> QED BY <2>2, <2>3
<1>11. ASSUME NEW t \in Sources PROVE JobFits(t, job[t])'
  <2>1. JobFits(t, job[t])
    BY <1>1 DEF JobsHold
  <2>2. Reads(t, job[t]) => Reads(t, job[t])'
    BY <1>6 DEF Reads
  <2>3. CASE t # s
    <3>1. Follows(t, job[t]) => Follows(t, job[t])'
      BY <1>3, <1>6, <1>9, <2>3 DEF Follows
    <3>2. Deserved(t, job[t].marker) => Deserved(t, job[t].marker)'
      BY <1>6, <1>9, <2>3 DEF Deserved
    <3> QED BY <1>6, <2>1, <2>2, <3>1, <3>2 DEF JobFits
  <2>4. CASE t = s
    <3>1. job[s].at = "reading" => Signature(s)' # job[s].signature
      BY <1>4, <1>9 DEF Remembered
    <3>2. job[s].at = "reading" /\ Follows(s, job[s]) => Follows(s, job[s])'
      <4>1. Len(files[s]) \in Nat /\ Len(F) \in Nat
        BY <1>2, LenProperties
      <4>2. \A i : i \in 1..Len(files[s]) => i \in 1..Len(F)
        BY <4>1
      <4> QED BY <1>3, <1>6, <3>1, <4>2 DEF Follows
    <3>3. job[s].at = "failed" => Signature(s)' \notin job[s].marker
      BY <1>4, <1>9 DEF Remembered
    <3>4. job[s].at = "failed" /\ Deserved(s, job[s].marker) => Deserved(s, job[s].marker)'
      BY <1>6, <3>3 DEF Deserved
    <3> QED BY <1>6, <2>1, <2>2, <2>4, <3>2, <3>4 DEF JobFits
  <2> QED BY <2>3, <2>4
<1>12. JobsHold' /\ MarkersHold'
  BY <1>1, <1>6, <1>10, <1>11 DEF JobsHold, MarkersHold
<1> QED BY <1>7, <1>8, <1>12 DEF CaptureInv

\* A write of the file under the path.
LEMMA LastWriteHolds ==
  ASSUME CaptureInv, NEW s \in Sources, NEW f \in FileSet, Write(s, f), Touch(s)
  PROVE  CaptureInv'
<1>1. FilesHold /\ files[s] \in Seq(FileSet) /\ files[s] # << >>
  BY DEF CaptureInv, FilesHold
<1> DEFINE q == Front(files[s])
           F == Append(q, f)
<1> HIDE DEF FileSet
<1>2. q \in Seq(FileSet) /\ Len(q) = Len(files[s]) - 1
  BY <1>1, FrontTyped
<1>3. files' = [files EXCEPT ![s] = F]
  BY DEF Write
<1> HIDE DEF q
<1>4. F \in Seq(FileSet) /\ F # << >> /\ Len(F) = Len(q) + 1
  BY <1>2, AppendProperties
<1>5. Len(files[s]) \in Nat
  BY <1>1
<1>6. Len(files[s]) <= Len(F)
  BY <1>2, <1>4, <1>5
<1> HIDE DEF F
<1> QED BY <1>3, <1>4, <1>6, WriteHolds

\* Appending, finishing, cutting and replacing keep the invariant.
LEMMA AgentsHold ==
  ASSUME CaptureInv, NEW s \in Sources,
         AgentAppends(s) \/ AgentFinishesLine(s) \/ Truncate(s) \/ Replace(s)
  PROVE  CaptureInv'
<1>1. FilesHold /\ files[s] \in Seq(FileSet) /\ files[s] # << >>
  BY DEF CaptureInv, FilesHold
<1>2. File(s) \in FileSet /\ File(s).lines \in Seq(Lines) /\ Len(files[s]) \in Nat \ {0}
  BY <1>1, FileTyped, TextTyped
<1>3. CASE AgentAppends(s)
  <2>1. PICK l \in MayHold[s], e \in {"newline", "whole", "partial"} :
          Write(s, [lines |-> Append(File(s).lines, l), end |-> e])
    BY <1>3 DEF AgentAppends
  <2>2. l \in Lines
    BY CaptureAssumption DEF Sources
  <2>3. Append(File(s).lines, l) \in Seq(Lines)
    BY <1>2, <2>2
  <2>4. [lines |-> Append(File(s).lines, l), end |-> e] \in FileSet
    BY <2>3 DEF FileSet
  <2> QED BY <1>3, <2>1, <2>4, LastWriteHolds DEF AgentAppends
<1>4. CASE AgentFinishesLine(s)
  <2>1. [File(s) EXCEPT !.end = "newline"] \in FileSet
    BY <1>2 DEF FileSet
  <2> QED BY <1>4, <2>1, LastWriteHolds DEF AgentFinishesLine
<1>5. CASE Truncate(s)
  <2>1. PICK n \in 0..Len(File(s).lines) - 1 :
          Write(s, [lines |-> SubSeq(File(s).lines, 1, n), end |-> "newline"])
    BY <1>5 DEF Truncate
  <2>2. Len(File(s).lines) \in Nat /\ n \in Int /\ n <= Len(File(s).lines)
    BY <1>2, LenProperties
  <2>3. \A i \in 1..n : File(s).lines[i] \in Lines
    BY <1>2, <2>2, ElementOfSeq
  <2>4. SubSeq(File(s).lines, 1, n) \in Seq(Lines)
    BY <2>2, <2>3, SubSeqProperties
  <2>5. [lines |-> SubSeq(File(s).lines, 1, n), end |-> "newline"] \in FileSet
    BY <2>4 DEF FileSet
  <2> QED BY <1>5, <2>1, <2>5, LastWriteHolds DEF Truncate
<1>6. CASE Replace(s)
  <2>1. Empty \in FileSet
    <3>1. << >> \in Seq(Lines)
      OBVIOUS
    <3> QED BY <3>1 DEF FileSet, Empty
  <2> DEFINE q == Kept(s)
             F == Append(q, Empty)
  <2>2. q \in Seq(FileSet) /\ Len(q) = Len(files[s])
    <3>1. DOMAIN files[s] = 1..Len(files[s])
      BY <1>1, LenProperties
    <3> DEFINE r == [n \in 1..Len(files[s]) |-> Empty]
    <3> HIDE DEF FileSet
    <3>2. r \in Seq(FileSet) /\ Len(r) = Len(files[s])
      BY <1>2, <2>1
    <3> QED BY <1>1, <3>1, <3>2 DEF Kept
  <2> HIDE DEF FileSet, q
  <2>3. F \in Seq(FileSet) /\ F # << >> /\ Len(F) = Len(q) + 1
    BY <2>1, <2>2, AppendProperties
  <2>4. Len(files[s]) <= Len(F)
    BY <1>2, <2>2, <2>3
  <2>5. files' = [files EXCEPT ![s] = F] /\ Touch(s)
    BY <1>6 DEF Replace, q
  <2> HIDE DEF F
  <2> QED BY <2>3, <2>4, <2>5, WriteHolds
<1> QED BY <1>3, <1>4, <1>5, <1>6

-----------------------------------------------------------------------------
(* Steps of readers. *)

\* A job may become whatever fits.
LEMMA BecameHolds ==
  ASSUME CaptureInv, NEW s \in Sources, NEW j, JobFits(s, j), job[s] # Waiting \/ mode # "idle",
         job' = [job EXCEPT ![s] = j],
         UNCHANGED <<files, mtime, checkpoint, captured, marker, mode, issued>>
  PROVE  CaptureInv'
<1>1. FilesHold' /\ CheckpointsHold' /\ MarkersHold'
  BY DEF CaptureInv, FilesHold, CheckpointsHold, MarkersHold, Deserved, Signature, File
<1>2. \A t, k : JobFits(t, k) => JobFits(t, k)'
  BY DEF JobFits, Reads, Follows, Deserved, Signature, File
<1>3. JobsHold
  BY DEF CaptureInv
<1>4. mode # "idle"
  BY <1>3 DEF JobsHold
<1>5. /\ job' = [t \in Sources |-> job'[t]]
      /\ job'[s] = j /\ \A t \in Sources \ {s} : job'[t] = job[t]
  BY <1>3 DEF JobsHold
<1>6. \A t \in Sources : JobFits(t, job'[t])
  BY <1>3, <1>5 DEF JobsHold
<1>7. JobsHold'
  BY <1>2, <1>4, <1>5, <1>6 DEF JobsHold
<1> QED BY <1>1, <1>7 DEF CaptureInv

\* A failure that blames nothing always fits.
LEMMA FailureFits ==
  ASSUME NEW s \in Sources PROVE JobFits(s, Failed({}))
<1>1. Deserved(s, {})
  BY DEF Deserved, Singular
<1> QED BY <1>1 DEF JobFits, Failed

\* Nothing precedes the start of a text.
LEMMA StartSound ==
  ASSUME NEW lineage \in Nat
  PROVE  /\ Sound(AtStart(lineage)) /\ AtStart(lineage).prefix = << >>
         /\ AtStart(lineage).lineage = lineage
         /\ RecordsOf(<< >>, lineage) = {}
<1>1. /\ << >> \in Seq(Lines) /\ Len(<< >>) = 0 /\ DOMAIN << >> = {} /\ 1..0 = {}
  OBVIOUS
<1>2. ContextAt(<< >>) = {}
  BY <1>1 DEF ContextAt
<1>3. ~HasLimit(<< >>) /\ RecordsOf(<< >>, lineage) = {}
  BY <1>1 DEF HasLimit, RecordsOf
<1> QED BY <1>1, <1>2, <1>3 DEF Sound, AtStart

\* Where reading resumes, everything before is captured, and an incremental collection
\* resumes under the checkpoint's lineage only after its prefix.
LEMMA ResumedSound ==
  ASSUME CheckpointsHold, NEW s \in Sources
  PROVE  /\ Sound(Resumed(s))
         /\ RecordsOf(Resumed(s).prefix, Resumed(s).lineage) \subseteq captured[s]
         /\ \A c \in checkpoint[s] :
              /\ c.prefix \in Seq(Lines)
              /\ mode = "incremental" /\ c.lineage = Resumed(s).lineage
                   => Starts(c.prefix, Resumed(s).prefix)
<1>1. \A c \in checkpoint[s] :
        /\ Sound(c) /\ c.prefix \in Seq(Lines) /\ c.lineage \in Nat
        /\ RecordsOf(c.prefix, c.lineage) \subseteq captured[s]
        /\ checkpoint[s] = {c}
        /\ (CHOOSE d \in checkpoint[s] : TRUE) = c
  BY DEF CheckpointsHold, Singular, Sound
<1>2. CASE \E c \in checkpoint[s] : IsPrefix(c.prefix, Terminated(File(s)))
  <2>1. PICK c \in checkpoint[s] : IsPrefix(c.prefix, Terminated(File(s)))
    BY <1>2
  <2>2. Resumed(s) = IF mode = "refresh" THEN AtStart(c.lineage) ELSE c
    BY <1>1, <1>2, <2>1 DEF Resumed
  <2>3. CASE mode = "refresh"
    BY <1>1, <2>2, <2>3, StartSound
  <2>4. CASE mode # "refresh"
    <3>1. Starts(c.prefix, c.prefix)
      BY <1>1, <2>1, LenProperties DEF Starts
    <3> QED BY <1>1, <2>1, <2>2, <2>4, <3>1
  <2> QED BY <2>3, <2>4
<1>3. CASE ~\E c \in checkpoint[s] : IsPrefix(c.prefix, Terminated(File(s)))
  <2>1. Resumed(s) = AtStart(NewLineage(s))
    BY <1>3 DEF Resumed
  <2>2. NewLineage(s) \in Nat
    <3>1. CASE checkpoint[s] = {}
      BY <3>1 DEF NewLineage
    <3>2. CASE checkpoint[s] # {}
      BY <1>1, <3>2 DEF NewLineage
    <3> QED BY <3>1, <3>2
  <2>3. \A c \in checkpoint[s] : c.lineage # NewLineage(s)
    <3> SUFFICES ASSUME NEW c \in checkpoint[s] PROVE c.lineage # NewLineage(s)
      OBVIOUS
    <3>1. NewLineage(s) = c.lineage + 1 /\ c.lineage \in Nat
      BY <1>1 DEF NewLineage
    <3> QED BY <3>1
  <2> QED BY <1>1, <2>1, <2>2, <2>3, StartSound
<1> QED BY <1>2, <1>3

\* A job that is under way is under way in a collection.
LEMMA UnderWay ==
  ASSUME JobsHold, NEW s \in Sources
  PROVE  /\ JobFits(s, job[s])
         /\ job[s].at # "waiting" => job[s] # Waiting /\ mode # "idle"
  BY DEF JobsHold, Waiting

\* The first look and the opening of a source keep the invariant.
LEMMA OpeningHolds ==
  ASSUME CaptureInv, NEW s \in Sources, CheckSource(s) \/ OpenSource(s)
  PROVE  CaptureInv'
<1>1. FilesHold /\ CheckpointsHold /\ JobsHold
  BY DEF CaptureInv
<1>2. CASE CheckSource(s)
  <2> DEFINE j == IF Quarantined(s) THEN Failed({}) ELSE [at |-> "checked", signature |-> Signature(s)]
  <2>1. JobFits(s, j)
    BY FailureFits DEF JobFits
  <2>2. mode # "idle"
    <3>1. s <= issued /\ s # 0 /\ s \in Nat
      BY <1>2, CaptureAssumption DEF CheckSource, Sources
    <3> QED BY <1>1, <3>1 DEF JobsHold
  <2>3. Become(s, j)
    BY <1>2 DEF CheckSource
  <2> HIDE DEF j
  <2> QED BY <2>1, <2>2, <2>3, BecameHolds DEF Become, fileVars, storeVars
<1>3. CASE OpenSource(s)
  <2> DEFINE c == Resumed(s)
             j == [at |-> "reading", signature |-> job[s].signature,
                   inode |-> Len(files[s]), baseline |-> checkpoint[s],
                   cursor |-> c, bytes |-> c.prefix, records |-> {}]
  <2>1. job[s].at = "checked" /\ Become(s, j)
    BY <1>3 DEF OpenSource
  <2>2. job[s] # Waiting
    BY <2>1 DEF Waiting
  <2>3. /\ Sound(c) /\ c.prefix \in Seq(Lines)
        /\ RecordsOf(c.prefix, c.lineage) \subseteq captured[s]
        /\ \A d \in checkpoint[s] :
             /\ d.prefix \in Seq(Lines)
             /\ mode = "incremental" /\ d.lineage = c.lineage => Starts(d.prefix, c.prefix)
    BY <1>1, ResumedSound DEF Sound
  <2> HIDE DEF c
  <2>4. Starts(c.prefix, c.prefix)
    BY <2>3, LenProperties DEF Starts
  <2>5. Reads(s, j)
    BY <2>3, <2>4 DEF Reads
  <2>6. Follows(s, j)
    BY <1>1, FileTyped DEF Follows
  <2>7. JobFits(s, j)
    BY <2>5, <2>6 DEF JobFits
  <2> HIDE DEF j
  <2> QED BY <2>1, <2>2, <2>7, BecameHolds DEF Become, fileVars, storeVars
<1> QED BY <1>2, <1>3

\* A line more: the records of the bytes, and what precedes the cursor.
LEMMA ReadMore ==
  ASSUME NEW s \in Sources, NEW j, Reads(s, j), j.bytes = j.cursor.prefix,
         NEW l \in Lines, KindOf[l] # "limit",
         NEW next, next = Advanced(j.cursor, l),
         NEW read, read = [j EXCEPT !.bytes = Append(@, l), !.records = @ \cup RecordOf(next, l)]
  PROVE  Reads(s, [read EXCEPT !.at = "prepared"]) /\ Reads(s, [read EXCEPT !.cursor = next])
<1> DEFINE place == j.cursor
           t == place.prefix
           u == Append(t, l)
           records == j.records \cup RecordOf(next, l)
           at == j.at
           signature == j.signature
           inode == j.inode
           baseline == j.baseline
<1>1. /\ Sound(place) /\ j.records \subseteq RecordsOf(t, place.lineage)
      /\ RecordsOf(t, place.lineage) \subseteq captured[s] \cup j.records
      /\ \A c \in j.baseline :
           /\ c.prefix \in Seq(Lines)
           /\ mode = "incremental" /\ c.lineage = place.lineage => Starts(c.prefix, t)
  BY DEF Reads
<1>2. /\ Sound(next) /\ next.lineage = place.lineage /\ next.prefix = u
      /\ RecordsOf(u, place.lineage) = RecordsOf(t, place.lineage) \cup RecordOf(next, l)
  BY <1>1, RecordsAdvance
<1>3. t \in Seq(Lines)
  BY <1>1 DEF Sound
<1>4. u \in Seq(Lines) /\ Len(u) = Len(t) + 1 /\ Len(t) \in Nat /\ \A i \in 1..Len(t) : u[i] = t[i]
  BY <1>3, AppendStarts
<1>5. place.prefix = t /\ j.bytes = t /\ baseline = j.baseline
  OBVIOUS
<1>6. read = [at |-> at, signature |-> signature, inode |-> inode, baseline |-> baseline,
              cursor |-> place, bytes |-> u, records |-> records]
  <2>1. read = [j EXCEPT !.bytes = u, !.records = records]
    OBVIOUS
  <2> DEFINE before == j.records
  <2>2. j = [at |-> at, signature |-> signature, inode |-> inode, baseline |-> baseline,
             cursor |-> place, bytes |-> t, records |-> before]
    BY DEF Reads
  <2> HIDE DEF at, signature, inode, baseline, before, place, t, u, records
  <2> QED BY <2>1, <2>2
<1> HIDE DEF place, t, u, records, at, signature, inode, baseline
<1>7. records \subseteq RecordsOf(u, place.lineage)
  BY <1>1, <1>2 DEF records
<1>8. /\ RecordsOf(t, place.lineage) \subseteq captured[s] \cup records
      /\ RecordsOf(u, place.lineage) \subseteq captured[s] \cup records
  BY <1>1, <1>2 DEF records
<1>9. Starts(t, u) /\ Starts(u, u)
  BY <1>4, LenProperties DEF Starts
<1>10. \A c \in j.baseline :
         mode = "incremental" /\ c.lineage = next.lineage => Starts(c.prefix, u)
  <2> SUFFICES ASSUME NEW c \in j.baseline, mode = "incremental", c.lineage = next.lineage
               PROVE  Starts(c.prefix, u)
    OBVIOUS
  <2>1. Starts(c.prefix, t) /\ Len(c.prefix) \in Nat
    BY <1>1, <1>2, LenProperties
  <2> QED BY <1>4, <2>1 DEF Starts
<1>11. Reads(s, [read EXCEPT !.at = "prepared"])
  <2> DEFINE r == [at |-> "prepared", signature |-> signature, inode |-> inode,
                   baseline |-> baseline, cursor |-> place, bytes |-> u, records |-> records]
  <2>1. [read EXCEPT !.at = "prepared"] = r
    BY ONLY <1>6
  <2>2. Reads(s, r)
    BY <1>1, <1>4, <1>5, <1>7, <1>8, <1>9 DEF Reads
  <2> QED BY <2>1, <2>2
<1>12. Reads(s, [read EXCEPT !.cursor = next])
  <2> DEFINE r == [at |-> at, signature |-> signature, inode |-> inode,
                   baseline |-> baseline, cursor |-> next, bytes |-> u, records |-> records]
  <2>1. [read EXCEPT !.cursor = next] = r
    BY ONLY <1>6
  <2>2. Reads(s, r)
    BY <1>1, <1>2, <1>4, <1>5, <1>7, <1>8, <1>9, <1>10 DEF Reads
  <2> QED BY <2>1, <2>2
<1> QED BY <1>11, <1>12

\* A reader's step keeps the invariant: at the end of the file, at a line over the
\* limit, at a value without its newline, and at a complete line.
LEMMA ReadHolds ==
  ASSUME CaptureInv, NEW s \in Sources, ReadLine(s)
  PROVE  CaptureInv'
<1> DEFINE f == files[s][job[s].inode]
           n == Len(job[s].bytes) + 1
           l == f.lines[n]
           next == Advanced(job[s].cursor, l)
           read == [job[s] EXCEPT !.bytes = Append(@, l), !.records = @ \cup RecordOf(next, l)]
<1>1. job[s].at = "reading"
  BY DEF ReadLine
<1>2. FilesHold /\ JobsHold /\ job[s] # Waiting /\ Reads(s, job[s]) /\ Follows(s, job[s])
  BY <1>1 DEF CaptureInv, JobsHold, JobFits, Waiting
<1>3. /\ f \in FileSet
      /\ Signature(s) = job[s].signature => f = File(s)
  BY <1>2, FileTyped DEF Follows
<1>4. n \in Nat \ {0}
  BY <1>2, LenProperties DEF Reads
<1>5. /\ \/ n > Len(Complete(f)) /\ Become(s, Prepared(s))
         \/ n <= Len(Complete(f)) /\ KindOf[l] = "limit" /\ Become(s, Failed(Blamed(s)))
         \/ n <= Len(Complete(f)) /\ KindOf[l] # "limit" /\ Become(s, [read EXCEPT !.at = "prepared"])
         \/ n <= Len(Complete(f)) /\ KindOf[l] # "limit" /\ Become(s, [read EXCEPT !.cursor = next])
  BY DEF ReadLine
<1> HIDE DEF f, n
<1>6. n <= Len(Complete(f)) => n \in DOMAIN f.lines /\ l \in Lines
  <2>1. Complete(f) \in Seq(Lines) /\ f.lines \in Seq(Lines)
    BY <1>3, TextTyped
  <2>2. n <= Len(Complete(f)) => n \in 1..Len(Complete(f))
    BY <1>4, <2>1, LenProperties
  <2> QED BY <1>3, <2>1, <2>2, TextTyped, LenProperties
<1> HIDE DEF l, next, read
<1>7. CASE Become(s, Prepared(s))
  <2> DEFINE j == Prepared(s)
  <2>1. j.at = "prepared" /\ Reads(s, j)
    <3> DEFINE signature == job[s].signature
               inode == job[s].inode
               baseline == job[s].baseline
               place == job[s].cursor
               bytes == job[s].bytes
               records == job[s].records
               at == job[s].at
               r == [at |-> "prepared", signature |-> signature, inode |-> inode,
                     baseline |-> baseline, cursor |-> place, bytes |-> bytes, records |-> records]
    <3>1. /\ job[s] = [at |-> at, signature |-> signature, inode |-> inode,
                       baseline |-> baseline, cursor |-> place, bytes |-> bytes, records |-> records]
          /\ j = [job[s] EXCEPT !.at = "prepared"]
      BY <1>2 DEF Reads, Prepared
    <3>2. /\ Sound(place) /\ bytes \in Seq(Lines)
          /\ Starts(place.prefix, bytes)
          /\ records \subseteq RecordsOf(bytes, place.lineage)
          /\ RecordsOf(place.prefix, place.lineage) \subseteq captured[s] \cup records
          /\ \A c \in baseline :
               /\ c.prefix \in Seq(Lines)
               /\ mode = "incremental" /\ c.lineage = place.lineage => Starts(c.prefix, place.prefix)
      BY <1>2 DEF Reads
    <3> HIDE DEF at, signature, inode, baseline, place, bytes, records, j
    <3>3. j = r
      BY ONLY <3>1
    <3>4. Reads(s, r)
      BY <3>2 DEF Reads
    <3> QED BY <3>3, <3>4
  <2>2. JobFits(s, j)
    BY <2>1 DEF JobFits
  <2>3. Become(s, j)
    BY <1>7
  <2> HIDE DEF j
  <2> QED BY <1>2, <2>2, <2>3, BecameHolds DEF Become, fileVars, storeVars
<1>8. CASE n <= Len(Complete(f)) /\ KindOf[l] = "limit" /\ Become(s, Failed(Blamed(s)))
  <2> DEFINE j == Failed(Blamed(s))
  <2>1. Signature(s) = job[s].signature => HasLimit(File(s).lines)
    BY <1>3, <1>6, <1>8 DEF HasLimit, l
  <2>2. Deserved(s, Blamed(s))
    BY <2>1 DEF Deserved, Singular, Blamed
  <2>3. JobFits(s, j)
    BY <2>2 DEF JobFits, Failed
  <2>4. Become(s, j)
    BY <1>8
  <2> HIDE DEF j
  <2> QED BY <1>2, <2>3, <2>4, BecameHolds DEF Become, fileVars, storeVars
<1>9. CASE n <= Len(Complete(f)) /\ KindOf[l] # "limit"
  <2>1. l \in Lines /\ KindOf[l] # "limit" /\ job[s].bytes = job[s].cursor.prefix
    BY <1>2, <1>6, <1>9 DEF Follows
  <2>2. Reads(s, [read EXCEPT !.at = "prepared"]) /\ Reads(s, [read EXCEPT !.cursor = next])
    BY <1>2, <2>1, ReadMore DEF read, next
  <2>3. CASE Become(s, [read EXCEPT !.at = "prepared"])
    <3> DEFINE j == [read EXCEPT !.at = "prepared"]
    <3>1. j.at = "prepared"
      BY <1>2 DEF read, Reads
    <3>2. JobFits(s, j)
      BY <2>2, <3>1 DEF JobFits
    <3>5. Become(s, j)
      BY <2>3
    <3> HIDE DEF j
    <3> QED BY <1>2, <3>2, <3>5, BecameHolds DEF Become, fileVars, storeVars
  <2>4. CASE Become(s, [read EXCEPT !.cursor = next])
    <3> DEFINE j == [read EXCEPT !.cursor = next]
    <3>1. /\ j.at = "reading" /\ j.inode = job[s].inode /\ j.signature = job[s].signature
          /\ j.bytes = Append(job[s].bytes, l) /\ j.cursor = next
      BY <1>1, <1>2 DEF read, Reads
    <3>2. next.prefix = Append(job[s].cursor.prefix, l)
      BY <1>2, <2>1, RecordsAdvance DEF Reads, next
    <3>3. Follows(s, j)
      BY <1>2, <2>1, <3>1, <3>2 DEF Follows
    <3>4. JobFits(s, j)
      BY <2>2, <3>1, <3>3 DEF JobFits
    <3>5. Become(s, j)
      BY <2>4
    <3> HIDE DEF j
    <3> QED BY <1>2, <3>4, <3>5, BecameHolds DEF Become, fileVars, storeVars
  <2>5. \/ Become(s, [read EXCEPT !.at = "prepared"])
        \/ Become(s, [read EXCEPT !.cursor = next])
        \/ Become(s, Prepared(s))
    BY <1>5, <1>9
  <2> QED BY <1>7, <2>3, <2>4, <2>5
<1> QED BY <1>5, <1>7, <1>8, <1>9

-----------------------------------------------------------------------------
(* Steps of the writer, and of collections. *)

\* A commit keeps the invariant: what precedes the cursor is then captured.
LEMMA CommitHolds ==
  ASSUME CaptureInv, NEW s \in Sources, CommitSource(s)
  PROVE  CaptureInv'
<1>1. job[s].at = "prepared" /\ FilesHold /\ CheckpointsHold /\ JobsHold /\ MarkersHold
  BY DEF CommitSource, CaptureInv
<1>2. job[s] # Waiting /\ mode # "idle" /\ Reads(s, job[s])
  BY <1>1 DEF JobsHold, JobFits, Waiting
<1>3. CASE Become(s, Failed({}))
  <2>1. JobFits(s, Failed({}))
    BY FailureFits
  <2> QED BY <1>2, <1>3, <2>1, BecameHolds DEF Become, fileVars, storeVars
<1>4. CASE ~Become(s, Failed({}))
  <2>1. /\ captured' = [captured EXCEPT ![s] = @ \cup job[s].records]
        /\ checkpoint' = [checkpoint EXCEPT ![s] = {job[s].cursor}]
        /\ job' = [job EXCEPT ![s] = [at |-> "committed"]]
        /\ UNCHANGED <<files, mtime, marker, mode, issued>>
    BY <1>4 DEF CommitSource, fileVars
  <2> DEFINE place == job[s].cursor
             records == job[s].records
  <2>2. /\ Sound(place)
        /\ RecordsOf(place.prefix, place.lineage) \subseteq captured[s] \cup records
    BY <1>2 DEF Reads
  <2> HIDE DEF place, records
  <2>3. CheckpointsHold'
    <3>1. /\ checkpoint = [t \in Sources |-> checkpoint[t]]
          /\ captured = [t \in Sources |-> captured[t]]
          /\ \A t \in Sources :
               /\ Singular(checkpoint[t])
               /\ \A c \in checkpoint[t] :
                    Sound(c) /\ RecordsOf(c.prefix, c.lineage) \subseteq captured[t]
      BY <1>1 DEF CheckpointsHold
    <3>2. /\ captured' = [t \in Sources |-> captured'[t]]
          /\ checkpoint' = [t \in Sources |-> checkpoint'[t]]
          /\ captured'[s] = captured[s] \cup records /\ checkpoint'[s] = {place}
          /\ \A t \in Sources \ {s} : captured'[t] = captured[t] /\ checkpoint'[t] = checkpoint[t]
      BY <2>1, <3>1 DEF place, records
    <3>3. Singular({place})
      BY DEF Singular
    <3>4. \A t \in Sources :
            /\ Singular(checkpoint'[t])
            /\ \A c \in checkpoint'[t] :
                 Sound(c) /\ RecordsOf(c.prefix, c.lineage) \subseteq captured'[t]
      BY <2>2, <3>1, <3>2, <3>3
    <3> QED BY <3>2, <3>4 DEF CheckpointsHold
  <2>4. FilesHold' /\ MarkersHold'
    BY <1>1, <2>1 DEF FilesHold, MarkersHold, Deserved, Signature, File
  <2>5. JobsHold'
    <3>1. /\ job' = [t \in Sources |-> job'[t]]
          /\ job'[s] = [at |-> "committed"] /\ \A t \in Sources \ {s} : job'[t] = job[t]
      BY <1>1, <2>1 DEF JobsHold
    <3>2. JobFits(s, job[s])'
      BY <3>1 DEF JobFits
    <3>3. ASSUME NEW t \in Sources \ {s} PROVE JobFits(t, job[t])'
      <4>1. JobFits(t, job[t])
        BY <1>1 DEF JobsHold
      <4>2. captured'[t] = captured[t]
        BY <1>1, <2>1 DEF CheckpointsHold
      <4>3. Reads(t, job[t]) => Reads(t, job[t])'
        BY <2>1, <3>1, <4>2 DEF Reads
      <4>4. Follows(t, job[t]) => Follows(t, job[t])'
        BY <2>1, <3>1 DEF Follows, Signature
      <4>5. Deserved(t, job[t].marker) => Deserved(t, job[t].marker)'
        BY <2>1, <3>1 DEF Deserved, Signature, File
      <4> QED BY <3>1, <4>1, <4>3, <4>4, <4>5 DEF JobFits
    <3> QED BY <1>2, <2>1, <3>1, <3>2, <3>3 DEF JobsHold
  <2> QED BY <2>3, <2>4, <2>5 DEF CaptureInv
<1> QED BY <1>3, <1>4

\* The writer is done with a job, and leaves a marker that is deserved.
LEMMA ConsumedHolds ==
  ASSUME CaptureInv, NEW s \in Sources, Consume(s), NEW markers,
         job[s].at # "waiting", Deserved(s, markers), marker' = [marker EXCEPT ![s] = markers]
  PROVE  CaptureInv'
<1>1. FilesHold /\ CheckpointsHold /\ JobsHold /\ MarkersHold
  BY DEF CaptureInv
<1>2. /\ UNCHANGED <<files, mtime, checkpoint, captured>>
      /\ issued' = IF s = Jobs THEN 0 ELSE NextIssued
      /\ mode' = IF s = Jobs THEN "idle" ELSE mode
      /\ job' = IF s = Jobs THEN [t \in Sources |-> Waiting] ELSE [job EXCEPT ![s] = Done]
  BY DEF Consume, fileVars
<1>3. mode # "idle"
  BY <1>1 DEF JobsHold, Waiting
<1>4. FilesHold' /\ CheckpointsHold'
  BY <1>1, <1>2 DEF FilesHold, CheckpointsHold
<1>5. MarkersHold'
  <2>1. /\ marker' = [t \in Sources |-> marker'[t]] /\ marker'[s] = markers
        /\ \A t \in Sources \ {s} : marker'[t] = marker[t]
    BY <1>1 DEF MarkersHold
  <2>2. \A t, S : Deserved(t, S) => Deserved(t, S)'
    BY <1>2 DEF Deserved, Signature, File
  <2>3. \A t \in Sources : Deserved(t, marker'[t])
    BY <1>1, <2>1 DEF MarkersHold
  <2> QED BY <2>1, <2>2, <2>3 DEF MarkersHold
<1>6. CASE s = Jobs
  <2>1. JobFits(1, Waiting)'
    BY DEF JobFits, Waiting
  <2>2. \A t : JobFits(t, Waiting)'
    BY DEF JobFits, Waiting
  <2>3. JobsHold'
    BY <1>2, <1>6, <2>2 DEF JobsHold
  <2> QED BY <1>4, <1>5, <2>3 DEF CaptureInv
<1>7. CASE s # Jobs
  <2>1. /\ job' = [t \in Sources |-> job'[t]] /\ job'[s] = Done
        /\ \A t \in Sources \ {s} : job'[t] = job[t]
    BY <1>1, <1>2, <1>7 DEF JobsHold
  <2>2. \A t : JobFits(t, Done)
    BY DEF JobFits, Done
  <2>3. \A t, j : JobFits(t, j) => JobFits(t, j)'
    BY <1>2, <1>7 DEF JobFits, Reads, Follows, Deserved, Signature, File
  <2>4. \A t \in Sources : JobFits(t, job'[t])
    BY <1>1, <2>1, <2>2 DEF JobsHold
  <2>5. JobsHold'
    BY <1>2, <1>3, <1>7, <2>1, <2>3, <2>4 DEF JobsHold
  <2> QED BY <1>4, <1>5, <2>5 DEF CaptureInv
<1> QED BY <1>6, <1>7

\* Settling a job keeps the invariant.
LEMMA SettleHolds ==
  ASSUME CaptureInv, NEW s \in Sources, Settle(s)
  PROVE  CaptureInv'
<1>1. CASE CommitSource(s)
  BY <1>1, CommitHolds
<1>2. CASE ClearMarker(s)
  <2>1. Deserved(s, {})
    BY DEF Deserved, Singular
  <2> QED BY <1>2, <2>1, ConsumedHolds DEF ClearMarker
<1>3. CASE ConsumeFailure(s)
  <2>1. Deserved(s, NextMarker(s))
    BY <1>3 DEF ConsumeFailure, CaptureInv, JobsHold, MarkersHold, JobFits, NextMarker
  <2> QED BY <1>3, <2>1, ConsumedHolds DEF ConsumeFailure
<1> QED BY <1>1, <1>2, <1>3 DEF Settle

\* The rest: a collection begins, fails in part, or ends.
LEMMA CollectionHolds ==
  ASSUME CaptureInv,
         \/ \E m \in {"incremental", "refresh"} : Begin(m)
         \/ \E s \in Sources : SourceFails(s)
         \/ Abort
  PROVE  CaptureInv'
<1>1. FilesHold /\ CheckpointsHold /\ JobsHold /\ MarkersHold
  BY DEF CaptureInv
<1>2. \A t : JobFits(t, Waiting) /\ JobFits(t, Waiting)'
  BY DEF JobFits, Waiting
<1>3. ASSUME NEW m \in {"incremental", "refresh"}, Begin(m) PROVE CaptureInv'
  <2>1. /\ mode = "idle" /\ mode' = m /\ m # "idle"
        /\ UNCHANGED <<job, files, mtime, checkpoint, captured, marker>>
    BY <1>3 DEF Begin, fileVars, storeVars
  <2>2. FilesHold' /\ CheckpointsHold' /\ MarkersHold'
    BY <1>1, <2>1 DEF FilesHold, CheckpointsHold, MarkersHold, Deserved, Signature, File
  <2>3. JobsHold'
    BY <1>1, <1>2, <2>1 DEF JobsHold
  <2> QED BY <2>2, <2>3 DEF CaptureInv
<1>4. ASSUME NEW s \in Sources, SourceFails(s) PROVE CaptureInv'
  <2>1. job[s] # Waiting
    BY <1>4 DEF SourceFails, Waiting
  <2>2. JobFits(s, Failed({}))
    BY FailureFits
  <2> QED BY <1>4, <2>1, <2>2, BecameHolds DEF SourceFails, fileVars, storeVars
<1>5. CASE Abort
  <2>1. /\ mode' = "idle" /\ issued' = 0 /\ job' = [s \in Sources |-> Waiting]
        /\ UNCHANGED <<files, mtime, checkpoint, captured, marker>>
    BY <1>5 DEF Abort, fileVars, storeVars
  <2>2. FilesHold' /\ CheckpointsHold' /\ MarkersHold'
    BY <1>1, <2>1 DEF FilesHold, CheckpointsHold, MarkersHold, Deserved, Signature, File
  <2>3. JobsHold'
    BY <1>2, <2>1 DEF JobsHold
  <2> QED BY <2>2, <2>3 DEF CaptureInv
<1> QED BY <1>3, <1>4, <1>5

-----------------------------------------------------------------------------
(* The theorems. *)

\* At first there is nothing to be wrong about.
LEMMA CaptureInitInv == Init => CaptureInv
<1> SUFFICES ASSUME Init PROVE CaptureInv
  OBVIOUS
<1>1. FilesHold
  <2>1. Empty \in FileSet
    <3>1. << >> \in Seq(Lines)
      OBVIOUS
    <3> QED BY <3>1 DEF FileSet, Empty
  <2> HIDE DEF FileSet
  <2>2. <<Empty>> \in Seq(FileSet) /\ <<Empty>> # << >>
    BY <2>1
  <2> QED BY <2>2 DEF FilesHold, Init
<1>2. Singular({}) /\ \A s \in Sources : Deserved(s, {})
  BY DEF Singular, Deserved
<1>3. CheckpointsHold /\ MarkersHold
  BY <1>2 DEF Init, CheckpointsHold, MarkersHold
<1>4. \A t : JobFits(t, Waiting)
  BY DEF JobFits, Waiting
<1>5. JobsHold
  BY <1>4 DEF Init, JobsHold
<1> QED BY <1>1, <1>3, <1>5 DEF CaptureInv

\* Every step keeps the invariant.
LEMMA CaptureNextInv == CaptureInv /\ [Next]_vars => CaptureInv'
<1> SUFFICES ASSUME CaptureInv, [Next]_vars PROVE CaptureInv'
  OBVIOUS
<1>1. CASE UNCHANGED vars
  BY <1>1 DEF vars, fileVars, storeVars, runVars, CaptureInv, FilesHold, CheckpointsHold, JobsHold,
     MarkersHold, JobFits, Reads, Follows, Deserved, Signature, File
<1>2. ASSUME NEW s \in Sources,
             AgentAppends(s) \/ AgentFinishesLine(s) \/ Truncate(s) \/ Replace(s)
      PROVE  CaptureInv'
  BY <1>2, AgentsHold
<1>3. ASSUME NEW s \in Sources, Prepare(s) PROVE CaptureInv'
  BY <1>3, OpeningHolds, ReadHolds DEF Prepare
<1>4. ASSUME NEW s \in Sources, Settle(s) PROVE CaptureInv'
  BY <1>4, SettleHolds
<1>5. ASSUME \/ \E m \in {"incremental", "refresh"} : Begin(m)
             \/ \E s \in Sources : SourceFails(s)
             \/ Abort
      PROVE  CaptureInv'
  BY <1>5, CollectionHolds
<1> QED BY <1>1, <1>2, <1>3, <1>4, <1>5 DEF Next

\* Every reachable state: files are files, what a checkpoint passed is captured, what a
\* reader holds is true of the bytes it read, and markers are deserved.
THEOREM ReadingHolds == Spec => []CaptureInv
<1> QED BY CaptureInitInv, CaptureNextInv, PTL DEF Spec

\* A checkpoint never passes a line it did not capture (parseJSONL, extractJSONRecord):
\* the evidence equals that of one complete reading of what it passed, context included,
\* for any number of sources and lines and whatever agents, failures and restarts do.
THEOREM NothingIsSkipped == Spec => []NothingSkipped
<1>1. CaptureInv => NothingSkipped
  BY DEF CaptureInv, CheckpointsHold, Sound, NothingSkipped
<1> QED BY <1>1, ReadingHolds, PTL

\* A source is skipped only while its file really has a line that cannot be captured:
\* no write during a reading puts a marker on a file that is fine (prepareRawSource).
THEOREM MarkersDeserved == Spec => []QuarantineDeserved
<1>1. CaptureInv => QuarantineDeserved
  BY DEF CaptureInv, MarkersHold, Deserved, QuarantineDeserved
<1> QED BY <1>1, ReadingHolds, PTL

\* Evidence and checkpoints change only by a commit that found the file as it was read.
LEMMA OnlyCommits ==
  ASSUME CaptureInv, [Next]_vars, ~UNCHANGED <<captured, checkpoint>>
  PROVE  \E s \in Sources :
           /\ Reads(s, job[s]) /\ job[s].baseline = checkpoint[s] /\ Verified(s)
           /\ captured'[s] = captured[s] \cup job[s].records
           /\ checkpoint'[s] = {job[s].cursor}
           /\ \A t \in Sources \ {s} : captured'[t] = captured[t] /\ checkpoint'[t] = checkpoint[t]
<1>1. ASSUME NEW s \in Sources,
             \/ AgentAppends(s) \/ AgentFinishesLine(s) \/ Truncate(s) \/ Replace(s)
             \/ Prepare(s) \/ ClearMarker(s) \/ ConsumeFailure(s) \/ SourceFails(s)
      PROVE  FALSE
  <2>1. CASE AgentAppends(s) \/ AgentFinishesLine(s) \/ Truncate(s) \/ Replace(s)
    BY <2>1 DEF AgentAppends, AgentFinishesLine, Truncate, Replace, Touch, storeVars
  <2>2. CASE Prepare(s)
    BY <2>2 DEF Prepare, CheckSource, OpenSource, ReadLine, Become, storeVars
  <2>3. CASE ClearMarker(s) \/ ConsumeFailure(s) \/ SourceFails(s)
    BY <2>3 DEF ClearMarker, ConsumeFailure, Consume, SourceFails, storeVars
  <2> QED BY <1>1, <2>1, <2>2, <2>3
<1>2. ~Abort /\ \A m : ~Begin(m)
  BY DEF Abort, Begin, storeVars
<1>3. ~UNCHANGED vars
  BY DEF vars, storeVars
<1>4. PICK s \in Sources : CommitSource(s)
  BY <1>1, <1>2, <1>3 DEF Next, Settle
<1>5. /\ job[s].baseline = checkpoint[s] /\ Verified(s) /\ job[s].at = "prepared"
      /\ captured' = [captured EXCEPT ![s] = @ \cup job[s].records]
      /\ checkpoint' = [checkpoint EXCEPT ![s] = {job[s].cursor}]
  BY <1>4 DEF CommitSource, Become, storeVars
<1>6. Reads(s, job[s])
  BY <1>5 DEF CaptureInv, JobsHold, JobFits
<1> QED BY <1>5, <1>6 DEF CaptureInv, CheckpointsHold

\* What is committed stands in the file at that moment, at its place and under its
\* context, although the file was read while agents wrote, cut and replaced it
\* (verifyPreparedJSONL).
THEOREM CommitsAreThere == Spec => CommitsWhatIsThere
<1>1. CaptureInv /\ [Next]_vars
        => [\A s \in Sources : \A c \in checkpoint'[s] :
              captured'[s] \ captured[s] \subseteq RecordsOf(Complete(File(s)), c.lineage)]_vars
  <2> SUFFICES ASSUME CaptureInv, [Next]_vars, NEW s \in Sources, NEW c \in checkpoint'[s],
                      NEW r \in captured'[s] \ captured[s]
               PROVE  r \in RecordsOf(Complete(File(s)), c.lineage)
    OBVIOUS
  <2>1. PICK t \in Sources :
           /\ Reads(t, job[t]) /\ job[t].baseline = checkpoint[t] /\ Verified(t)
           /\ captured'[t] = captured[t] \cup job[t].records
           /\ checkpoint'[t] = {job[t].cursor}
           /\ \A u \in Sources \ {t} : captured'[u] = captured[u] /\ checkpoint'[u] = checkpoint[u]
    BY OnlyCommits
  <2>2. t = s /\ c = job[s].cursor /\ r \in job[s].records
    BY <2>1
  <2>3. job[s].bytes \in Seq(Lines) /\ r \in RecordsOf(job[s].bytes, c.lineage)
    BY <2>1, <2>2 DEF Reads
  <2>4. Complete(File(s)) \in Seq(Lines)
    BY FileTyped, TextTyped DEF CaptureInv
  <2>5. Starts(job[s].bytes, Complete(File(s)))
    BY <2>1, <2>2, <2>3, <2>4, PrefixStarts DEF Verified
  <2> QED BY <2>3, <2>4, <2>5, RecordsWithin
<1> QED BY <1>1, ReadingHolds, PTL DEF Spec, CommitsWhatIsThere

\* An incremental collection continues a lineage only by appending to what was
\* committed under it (cursorFor, parseJSONL).
THEOREM LineagesExtend == Spec => LineageExtends
<1>1. CaptureInv /\ [Next]_vars
        => [\A s \in Sources : \A c \in checkpoint[s], d \in checkpoint'[s] :
              mode = "incremental" /\ c.lineage = d.lineage => IsPrefix(c.prefix, d.prefix)]_vars
  <2> SUFFICES ASSUME CaptureInv, [Next]_vars, NEW s \in Sources,
                      NEW c \in checkpoint[s], NEW d \in checkpoint'[s],
                      mode = "incremental", c.lineage = d.lineage
               PROVE  IsPrefix(c.prefix, d.prefix)
    OBVIOUS
  <2>1. Sound(c) /\ c.prefix \in Seq(Lines) /\ Singular(checkpoint[s])
    BY DEF CaptureInv, CheckpointsHold, Sound
  <2>2. CASE checkpoint'[s] = checkpoint[s]
    <3>1. c = d
      BY <2>1, <2>2 DEF Singular
    <3>2. Starts(c.prefix, c.prefix)
      BY <2>1, LenProperties DEF Starts
    <3> QED BY <2>1, <3>1, <3>2, PrefixStarts
  <2>3. CASE checkpoint'[s] # checkpoint[s]
    <3>1. PICK t \in Sources :
             /\ Reads(t, job[t]) /\ job[t].baseline = checkpoint[t]
             /\ checkpoint'[t] = {job[t].cursor}
             /\ \A u \in Sources \ {t} : checkpoint'[u] = checkpoint[u]
      BY <2>3, OnlyCommits
    <3>2. t = s /\ d = job[s].cursor
      BY <2>3, <3>1
    <3>3. d.prefix \in Seq(Lines) /\ Starts(c.prefix, d.prefix)
      BY <3>1, <3>2 DEF Reads, Sound
    <3> QED BY <2>1, <3>3, PrefixStarts
  <2> QED BY <2>2, <2>3
<1> QED BY <1>1, ReadingHolds, PTL DEF Spec, LineageExtends

-----------------------------------------------------------------------------
(* The turns of a Codex rollout: the contexts of a record, applied in their  *)
(* order, say what they say together.                                       *)

KeptContexts == [ordinal : Nat \ {0}, line : RolloutLines \ {Usage}]

\* Contexts that stand on lines of their own.
InOrder(contexts) ==
  /\ contexts \subseteq KeptContexts
  /\ \A c, d \in contexts : c.ordinal = d.ordinal => c = d

Upto(contexts, n) == {c \in contexts : c.ordinal <= n}

OfKinds(contexts, kinds) == {c \in contexts : c.line.kind \in kinds}
Opening == {"turn_context", "task_started"}
Naming == {"turn_context"}

\* What contexts say, taken together.
Says(contexts) ==
  [session |-> OfKinds(contexts, {"session_meta"}) # {},
   turn |-> IF OfKinds(contexts, Opening) = {} THEN Missing ELSE Latest(OfKinds(contexts, Opening)).line.turn,
   model |-> IF OfKinds(contexts, Naming) = {} THEN Missing ELSE Latest(OfKinds(contexts, Naming)).line.model]

\* f applies some of the contexts in their order.
Applies(f, contexts) ==
  f = [s \in SUBSET contexts |-> IF s = {} THEN NoState ELSE Applied(f[s \ {Latest(s)}], Latest(s).line)]

\* What the fold is: a function that applies them.
LEMMA StateApplies ==
  ASSUME NEW r
  PROVE  \E F : F = (CHOOSE f : Applies(f, r.context)) /\ StateOf(r) = F[r.context]
BY DEF StateOf, Applies, MapThenFoldSet

\* A set of naturals has a least element.
LEMMA SmallestOf ==
  ASSUME NEW S \in SUBSET Nat, S # {}
  PROVE  \E k \in S : \A j \in S : k <= j
<1>1. PICK k \in S : \A j \in S : ~(<<j, k>> \in OpToRel(<, Nat))
  BY NatLessThanWellFounded, WFMin
<1>2. \A j \in S : ~(j < k)
  BY <1>1 DEF OpToRel
<1>3. \A j \in S : k <= j
  BY <1>2
<1>4. QED BY <1>3

\* Contexts have a latest one.
LEMMA LatestIs ==
  ASSUME NEW S, InOrder(S), NEW T \in SUBSET S, T # {}, NEW n \in Nat, T \subseteq Upto(S, n)
  PROVE  /\ Latest(T) \in T
         /\ \A d \in T : d.ordinal <= Latest(T).ordinal
         /\ \A c \in T : (\A d \in T : d.ordinal <= c.ordinal) => c = Latest(T)
<1>1. \A c \in T : c.ordinal \in Nat /\ c.ordinal <= n
  BY DEF InOrder, KeptContexts, Upto
<1> DEFINE D == {n - c.ordinal : c \in T}
<1>2. D \subseteq Nat /\ D # {}
  BY <1>1
<1>3. PICK k \in D : \A j \in D : k <= j
  BY <1>2, SmallestOf
<1>4. PICK c \in T : k = n - c.ordinal
  BY <1>3
<1>5. \A d \in T : n - c.ordinal <= n - d.ordinal
  BY <1>3, <1>4
<1> HIDE DEF D
<1>6. \A d \in T : d.ordinal <= c.ordinal
  <2> TAKE d \in T
  <2>1. c.ordinal \in Nat /\ d.ordinal \in Nat /\ n - c.ordinal <= n - d.ordinal
    BY <1>1, <1>5
  <2>2. QED BY <2>1
<1>7. \E d \in T : \A e \in T : e.ordinal <= d.ordinal
  BY <1>6
<1>8. Latest(T) \in T /\ \A d \in T : d.ordinal <= Latest(T).ordinal
  BY <1>7 DEF Latest
<1>9. ASSUME NEW d \in T, \A e \in T : e.ordinal <= d.ordinal PROVE d = Latest(T)
  <2>1. d.ordinal <= Latest(T).ordinal /\ Latest(T).ordinal <= d.ordinal
    BY <1>8, <1>9
  <2>2. d.ordinal \in Nat /\ Latest(T).ordinal \in Nat
    BY <1>1, <1>8
  <2>3. d.ordinal = Latest(T).ordinal
    BY <2>1, <2>2
  <2>4. QED BY <1>8, <2>3 DEF InOrder
<1>10. QED BY <1>8, <1>9

\* What the latest one adds to what the others say.
LEMMA SaysInOrder ==
  ASSUME NEW S, InOrder(S), NEW T \in SUBSET S, T # {}, NEW n \in Nat, T \subseteq Upto(S, n)
  PROVE  Says(T) = Applied(Says(T \ {Latest(T)}), Latest(T).line)
<1> DEFINE x == Latest(T)
           R == T \ {x}
<1>1. x \in T /\ \A d \in T : d.ordinal <= x.ordinal
  BY LatestIs
<1>2. x.line \in RolloutLines \ {Usage}
  BY <1>1 DEF InOrder, KeptContexts
<1> HIDE DEF x
<1>3. ASSUME NEW kinds, x.line.kind \notin kinds PROVE OfKinds(T, kinds) = OfKinds(R, kinds)
  BY <1>3 DEF OfKinds
<1>4. ASSUME NEW kinds, x.line.kind \in kinds
      PROVE  OfKinds(T, kinds) # {} /\ Latest(OfKinds(T, kinds)) = x
  <2>1. x \in OfKinds(T, kinds) /\ OfKinds(T, kinds) \subseteq T
    BY <1>1, <1>4 DEF OfKinds
  <2>2. \A d \in OfKinds(T, kinds) : d.ordinal <= x.ordinal
    BY <1>1, <2>1
  <2>3. OfKinds(T, kinds) \in SUBSET S /\ OfKinds(T, kinds) # {} /\ OfKinds(T, kinds) \subseteq Upto(S, n)
    BY <2>1
  <2>4. QED BY <2>1, <2>2, <2>3, LatestIs
<1>5. CASE x.line.kind = "session_meta"
  <2>1. OfKinds(T, Opening) = OfKinds(R, Opening) /\ OfKinds(T, Naming) = OfKinds(R, Naming)
    BY <1>3, <1>5 DEF Opening, Naming
  <2>2. OfKinds(T, {"session_meta"}) # {}
    BY <1>4, <1>5
  <2>3. Applied(Says(R), x.line) = [Says(R) EXCEPT !.session = TRUE]
    BY <1>5 DEF Applied
  <2> HIDE DEF R
  <2>4. QED BY <2>1, <2>2, <2>3 DEF Says, x, R
<1>6. CASE x.line.kind = "turn_context"
  <2>1. OfKinds(T, {"session_meta"}) = OfKinds(R, {"session_meta"})
    BY <1>3, <1>6
  <2>2. /\ OfKinds(T, Opening) # {} /\ Latest(OfKinds(T, Opening)) = x
        /\ OfKinds(T, Naming) # {} /\ Latest(OfKinds(T, Naming)) = x
    BY <1>4, <1>6 DEF Opening, Naming
  <2>3. Applied(Says(R), x.line) = [Says(R) EXCEPT !.turn = x.line.turn, !.model = x.line.model]
    BY <1>6 DEF Applied
  <2> HIDE DEF R
  <2>4. QED BY <2>1, <2>2, <2>3 DEF Says, x, R
<1>7. CASE x.line.kind = "task_started"
  <2>1. /\ OfKinds(T, {"session_meta"}) = OfKinds(R, {"session_meta"})
        /\ OfKinds(T, Naming) = OfKinds(R, Naming)
    BY <1>3, <1>7 DEF Naming
  <2>2. OfKinds(T, Opening) # {} /\ Latest(OfKinds(T, Opening)) = x
    BY <1>4, <1>7 DEF Opening
  <2>3. Applied(Says(R), x.line) = [Says(R) EXCEPT !.turn = x.line.turn]
    BY <1>7 DEF Applied
  <2> HIDE DEF R
  <2>4. QED BY <2>1, <2>2, <2>3 DEF Says, x, R
<1>8. x.line.kind \in {"session_meta", "turn_context", "task_started"}
  BY <1>2 DEF RolloutLines, SessionMeta, Usage, Line
<1>9. QED BY <1>5, <1>6, <1>7, <1>8

\* So the fold says what its contexts say together.
LEMMA StateIs ==
  ASSUME NEW r, InOrder(r.context), NEW n \in Nat, r.context \subseteq Upto(r.context, n)
  PROVE  StateOf(r) = Says(r.context)
<1> DEFINE S == r.context
           g == [s \in SUBSET S |-> Says(s)]
<1>1. Says({}) = NoState
  BY DEF Says, NoState, OfKinds
<1>2. \A T \in SUBSET S : T # {} => Says(T) = Applied(Says(T \ {Latest(T)}), Latest(T).line)
  BY SaysInOrder
<1>3. Applies(g, S)
  <2>1. \A T \in SUBSET S : g[T] = IF T = {} THEN NoState ELSE Applied(g[T \ {Latest(T)}], Latest(T).line)
    <3> TAKE T \in SUBSET S
    <3>1. T \ {Latest(T)} \in SUBSET S
      OBVIOUS
    <3>2. g[T] = Says(T) /\ g[T \ {Latest(T)}] = Says(T \ {Latest(T)})
      BY <3>1
    <3> HIDE DEF g
    <3>3. QED BY <1>1, <1>2, <3>2
  <2>2. g = [T \in SUBSET S |-> g[T]]
    OBVIOUS
  <2> HIDE DEF g, S
  <2>3. QED BY <2>1, <2>2 DEF Applies
<1>4. PICK f : f = (CHOOSE h : Applies(h, S)) /\ StateOf(r) = f[S]
  BY StateApplies
<1>5. Applies(f, S)
  BY <1>3, <1>4
<1>6. \A T \in SUBSET S : f[T] = IF T = {} THEN NoState ELSE Applied(f[T \ {Latest(T)}], Latest(T).line)
  BY <1>5 DEF Applies
<1> DEFINE Bad == {k \in Nat : \E T \in SUBSET S : T \subseteq Upto(S, k) /\ f[T] # Says(T)}
<1>7. ASSUME Bad # {} PROVE FALSE
  <2>1. Bad \in SUBSET Nat
    OBVIOUS
  <2>2. PICK k \in Bad : \A j \in Bad : k <= j
    BY <1>7, <2>1, SmallestOf
  <2>3. PICK T \in SUBSET S : T \subseteq Upto(S, k) /\ f[T] # Says(T)
    BY <2>2
  <2>4. k \in Nat /\ T # {}
    BY <1>1, <1>6, <2>2, <2>3
  <2> DEFINE x == Latest(T)
             R == T \ {x}
  <2>5. x \in T /\ \A d \in T : d.ordinal <= x.ordinal
    BY <2>3, <2>4, LatestIs
  <2>6. /\ x.ordinal \in Nat /\ x.ordinal - 1 \in Nat /\ x.ordinal - 1 < k
        /\ \A d \in T : d.ordinal \in Nat /\ (d.ordinal = x.ordinal => d = x)
    <3>1. x.ordinal <= k
      BY <2>3, <2>5 DEF Upto
    <3>2. x.ordinal \in Nat \ {0} /\ \A d \in T : d.ordinal \in Nat
      BY <2>5 DEF InOrder, KeptContexts
    <3>3. \A d \in T : d.ordinal = x.ordinal => d = x
      BY <2>5 DEF InOrder
    <3> HIDE DEF x
    <3>4. QED BY <2>4, <3>1, <3>2, <3>3
  <2> HIDE DEF x
  <2>7. R \subseteq Upto(S, x.ordinal - 1)
    <3> SUFFICES ASSUME NEW d \in R PROVE d \in S /\ d.ordinal <= x.ordinal - 1
      BY DEF Upto
    <3>1. d \in T /\ d # x
      OBVIOUS
    <3>2. d.ordinal <= x.ordinal /\ d.ordinal # x.ordinal /\ d.ordinal \in Nat /\ x.ordinal \in Nat
      BY <2>5, <2>6, <3>1
    <3>3. QED BY <3>1, <3>2
  <2>8. R \in SUBSET S
    OBVIOUS
  <2> HIDE DEF R
  <2>9. f[R] = Says(R)
    <3>1. x.ordinal - 1 \notin Bad
      <4>1. ~(k <= x.ordinal - 1)
        BY <2>4, <2>6
      <4>2. QED BY <2>2, <4>1
    <3>2. QED BY <2>6, <2>7, <2>8, <3>1
  <2>10. f[T] = Applied(f[R], x.line) /\ Says(T) = Applied(Says(R), x.line)
    BY <1>2, <1>6, <2>3, <2>4 DEF x, R
  <2>11. QED BY <2>3, <2>9, <2>10
<1>8. QED
  <2>1. n \notin Bad
    BY <1>7
  <2>2. S \in SUBSET S /\ S \subseteq Upto(S, n)
    OBVIOUS
  <2>3. f[S] = Says(S)
    BY <2>1, <2>2
  <2>4. QED BY <1>4, <2>3

-----------------------------------------------------------------------------
(* The invariant: the records are what reading the all in one go gives. *)

Files == Seq(RolloutLines)
FileSeqs == Seq(Files)

KeptLine(file, i) == [ordinal |-> i, line |-> file[i]]
LatestLines(file, n) == {i \in 1..n : file[i] # Usage /\ \A j \in i + 1..n : file[j].kind # file[i].kind}
KeptAt(file, n) == {KeptLine(file, i) : i \in LatestLines(file, n)}
RecordIn(file, l, n) ==
  [lineage |-> l, ordinal |-> n, line |-> file[n],
   context |-> {c \in KeptAt(file, n - 1) : c.line.kind # file[n].kind}]

\* Of lineage l, the first taken[l] lines are captured.
HeldUpTo(taken) ==
  /\ taken[cursor.lineage] = cursor.ordinal
  /\ \A l \in Nat : l > cursor.lineage => taken[l] = 0
  /\ \A l \in DOMAIN rollouts : taken[l] <= Len(rollouts[l])
  /\ \A l \in DOMAIN rollouts : \A n \in 1..taken[l] : RecordIn(rollouts[l], l, n) \in evidence
  /\ \A r \in evidence : \E l \in DOMAIN rollouts : \E n \in 1..taken[l] : r = RecordIn(rollouts[l], l, n)

TurnsInv ==
  /\ rollouts \in FileSeqs /\ rollouts # << >>
  /\ cursor.lineage \in DOMAIN rollouts /\ cursor.ordinal \in Nat
  /\ cursor = [lineage |-> cursor.lineage, ordinal |-> cursor.ordinal,
               context |-> KeptAt(rollouts[cursor.lineage], cursor.ordinal)]
  /\ \E taken \in [Nat -> Nat] : HeldUpTo(taken)

\* A file that is written on keeps the records of the lines there were.
LEMMA KeepsRecords ==
  ASSUME NEW file \in Files, NEW newer \in Files,
         NEW n \in Nat, n <= Len(file), \A i \in 1..Len(file) : newer[i] = file[i]
  PROVE  /\ KeptAt(newer, n) = KeptAt(file, n)
         /\ \A l : n >= 1 => RecordIn(newer, l, n) = RecordIn(file, l, n)
<1>1. Len(file) \in Nat
  BY DEF Files
<1>2. ASSUME NEW k \in Nat, k <= n PROVE KeptAt(newer, k) = KeptAt(file, k)
  <2>1. \A i \in 1..k : newer[i] = file[i]
    BY <1>1, <1>2
  <2>2. \A i \in 1..k : \A j \in i + 1..k : j \in 1..k
    BY <1>2
  <2>3. LatestLines(newer, k) = LatestLines(file, k)
    BY <2>1, <2>2 DEF LatestLines
  <2>4. \A i \in LatestLines(file, k) : KeptLine(newer, i) = KeptLine(file, i)
    BY <2>1 DEF LatestLines, KeptLine
  <2>5. QED BY <2>3, <2>4 DEF KeptAt
<1>3. KeptAt(newer, n) = KeptAt(file, n)
  BY <1>2
<1>4. ASSUME NEW l, n >= 1 PROVE RecordIn(newer, l, n) = RecordIn(file, l, n)
  <2>1. n - 1 \in Nat /\ n - 1 <= n /\ n \in 1..Len(file)
    BY <1>1, <1>4
  <2>2. KeptAt(newer, n - 1) = KeptAt(file, n - 1) /\ newer[n] = file[n]
    BY <1>2, <2>1
  <2>3. QED BY <2>2 DEF RecordIn
<1>5. QED BY <1>3, <1>4

\* The kinds of lines, and which one is no context.
LEMMA KindsAre ==
  ASSUME NEW x \in RolloutLines
  PROVE  /\ x.kind \in {"session_meta", "token_count", "turn_context", "task_started"}
         /\ x.kind = "token_count" <=> x = Usage
         /\ x.kind = "session_meta" <=> x = SessionMeta
         /\ x.kind = "turn_context" => x.turn \in Turns /\ x.model \in Models
         /\ x.kind = "task_started" => x.turn \in Turns
BY DEF RolloutLines, SessionMeta, Usage, Line

\* The cursor keeps the latest line of each kind.
LEMMA KeepsLatest ==
  ASSUME NEW file \in Files, NEW n \in 1..Len(file), NEW r, r.ordinal = n, r.line = file[n]
  PROVE  KeptFor(KeptAt(file, n - 1), r) = KeptAt(file, n)
<1>1. n \in Nat /\ n >= 1 /\ \A i \in 1..n : file[i] \in RolloutLines
  BY DEF Files
<1>2. \A i \in 1..n - 1 : i \in 1..n /\ i # n
  BY <1>1
<1>3. \A i \in 1..n - 1 : i + 1..n = (i + 1..n - 1) \cup {n}
  BY <1>1
<1>4. CASE file[n] = Usage
  <2>1. \A i \in 1..n - 1 : file[i] # Usage => file[n].kind # file[i].kind
    BY <1>1, <1>2, <1>4, KindsAre
  <2>2. LatestLines(file, n) = LatestLines(file, n - 1)
    <3>1. \A i \in 1..n - 1 : i \in LatestLines(file, n) <=> i \in LatestLines(file, n - 1)
      BY <1>2, <1>3, <2>1 DEF LatestLines
    <3>2. \A i \in LatestLines(file, n) : i \in 1..n - 1
      BY <1>1, <1>4 DEF LatestLines
    <3>3. \A i \in LatestLines(file, n - 1) : i \in 1..n - 1
      BY DEF LatestLines
    <3>4. QED BY <3>1, <3>2, <3>3
  <2>3. KeptFor(KeptAt(file, n - 1), r) = KeptAt(file, n - 1)
    BY <1>4 DEF KeptFor
  <2>4. QED BY <2>2, <2>3 DEF KeptAt
<1>5. CASE file[n] # Usage
  <2>1. n \in LatestLines(file, n)
    BY <1>1, <1>5 DEF LatestLines
  <2>2. \A i \in 1..n - 1 : i \in LatestLines(file, n) <=>
          i \in LatestLines(file, n - 1) /\ file[i].kind # file[n].kind
    BY <1>2, <1>3 DEF LatestLines
  <2>3. \A i \in LatestLines(file, n) : i = n \/ i \in 1..n - 1
    BY <1>1 DEF LatestLines
  <2>4. \A i \in LatestLines(file, n - 1) : i \in 1..n - 1
    BY DEF LatestLines
  <2>5. LatestLines(file, n) = {i \in LatestLines(file, n - 1) : file[i].kind # file[n].kind} \cup {n}
    BY <2>1, <2>2, <2>3, <2>4
  <2>6. KeptFor(KeptAt(file, n - 1), r) =
          {c \in KeptAt(file, n - 1) : c.line.kind # file[n].kind} \cup {KeptLine(file, n)}
    BY <1>5 DEF KeptFor, KeptLine
  <2>7. {c \in KeptAt(file, n - 1) : c.line.kind # file[n].kind}
          = {KeptLine(file, i) : i \in {k \in LatestLines(file, n - 1) : file[k].kind # file[n].kind}}
    BY DEF KeptAt, KeptLine
  <2>8. QED BY <2>5, <2>6, <2>7 DEF KeptAt
<1>6. QED BY <1>4, <1>5

\* Files, and the lines of each.
LEMMA FilesAre ==
  ASSUME NEW all \in FileSeqs
  PROVE  /\ DOMAIN all = 1..Len(all) /\ Len(all) \in Nat
         /\ \A l \in DOMAIN all : all[l] \in Files /\ Len(all[l]) \in Nat /\ l \in Nat
<1>1. DOMAIN all = 1..Len(all) /\ Len(all) \in Nat /\ \A l \in DOMAIN all : all[l] \in Files
  BY DEF FileSeqs
<1>2. \A file \in Files : Len(file) \in Nat
  BY DEF Files
<1>3. \A l \in DOMAIN all : l \in Nat
  BY <1>1
<1>4. QED BY <1>1, <1>2, <1>3

\* What the invariant says of the cursor and the files.
LEMMA CursorIs ==
  ASSUME TurnsInv
  PROVE  /\ rollouts \in FileSeqs /\ rollouts # << >>
         /\ DOMAIN rollouts = 1..Len(rollouts) /\ Len(rollouts) \in Nat
         /\ cursor.lineage \in DOMAIN rollouts /\ cursor.lineage \in Nat /\ cursor.lineage <= Len(rollouts)
         /\ cursor.ordinal \in Nat
<1>1. rollouts \in FileSeqs /\ rollouts # << >>
  BY DEF TurnsInv
<1>2. cursor.lineage \in DOMAIN rollouts /\ cursor.ordinal \in Nat
  BY DEF TurnsInv
<1>3. DOMAIN rollouts = 1..Len(rollouts) /\ Len(rollouts) \in Nat
  BY <1>1, FilesAre
<1>4. cursor.lineage \in Nat /\ cursor.lineage <= Len(rollouts)
  BY <1>2, <1>3
<1>5. QED BY <1>1, <1>2, <1>3, <1>4

\* Files are written on, and added.
Grown(old, new) ==
  /\ DOMAIN old \subseteq DOMAIN new
  /\ \A l \in DOMAIN old : Len(old[l]) <= Len(new[l]) /\ \A i \in 1..Len(old[l]) : new[l][i] = old[l][i]

\* What is captured of a file.
LEMMA TakenIs ==
  ASSUME TurnsInv, NEW taken \in [Nat -> Nat], HeldUpTo(taken), NEW l \in DOMAIN rollouts
  PROVE  /\ l \in Nat /\ taken[l] \in Nat /\ Len(rollouts[l]) \in Nat /\ taken[l] <= Len(rollouts[l])
         /\ \A n \in 1..taken[l] : n \in 1..Len(rollouts[l]) /\ n \in Nat /\ n >= 1 /\ n <= Len(rollouts[l])
<1>1. l \in Nat /\ Len(rollouts[l]) \in Nat
  BY CursorIs, FilesAre
<1>2. taken[l] \in Nat /\ taken[l] <= Len(rollouts[l])
  BY <1>1 DEF HeldUpTo
<1> DEFINE t == taken[l]
           k == Len(rollouts[l])
<1>3. t \in Nat /\ k \in Nat /\ t <= k
  BY <1>1, <1>2
<1> HIDE DEF t, k
<1>4. \A n \in 1..t : n \in 1..k /\ n \in Nat /\ n >= 1 /\ n <= k
  BY <1>3
<1>5. QED BY <1>1, <1>2, <1>4 DEF t, k

\* They change no record.
LEMMA FilesGrow ==
  ASSUME TurnsInv, cursor' = cursor, evidence' = evidence, rollouts' \in FileSeqs, Grown(rollouts, rollouts')
  PROVE  TurnsInv'
<1>1. PICK taken \in [Nat -> Nat] : HeldUpTo(taken)
  BY DEF TurnsInv
<1>2. cursor.lineage \in DOMAIN rollouts /\ cursor.ordinal \in Nat /\ taken[cursor.lineage] = cursor.ordinal
  BY <1>1 DEF TurnsInv, HeldUpTo
<1>3. \A l \in DOMAIN rollouts : l \in DOMAIN rollouts' /\ Len(rollouts[l]) <= Len(rollouts'[l])
  BY DEF Grown
<1>4. \A l \in DOMAIN rollouts' : l \in Nat /\ Len(rollouts'[l]) \in Nat
  BY FilesAre
<1>5. \A l \in DOMAIN rollouts : \A n \in 0..taken[l] :
        /\ KeptAt(rollouts'[l], n) = KeptAt(rollouts[l], n)
        /\ n >= 1 => RecordIn(rollouts'[l], l, n) = RecordIn(rollouts[l], l, n)
  <2> TAKE l \in DOMAIN rollouts
  <2> TAKE n \in 0..taken[l]
  <2> DEFINE t == taken[l]
             file == rollouts[l]
             newer == rollouts'[l]
  <2>1. t \in Nat /\ Len(file) \in Nat /\ t <= Len(file) /\ n \in 0..t
    BY <1>1, TakenIs
  <2>2. file \in Files /\ newer \in Files
    BY <1>3, CursorIs, FilesAre
  <2>3. \A i \in 1..Len(file) : newer[i] = file[i]
    BY DEF Grown
  <2> HIDE DEF t, file, newer
  <2>4. n \in Nat /\ n <= Len(file)
    BY <2>1
  <2>5. /\ KeptAt(newer, n) = KeptAt(file, n)
        /\ n >= 1 => RecordIn(newer, l, n) = RecordIn(file, l, n)
    BY <2>2, <2>3, <2>4, KeepsRecords
  <2>6. QED BY <2>5 DEF file, newer
<1>6. KeptAt(rollouts'[cursor.lineage], cursor.ordinal) = KeptAt(rollouts[cursor.lineage], cursor.ordinal)
  <2>1. cursor.ordinal \in 0..taken[cursor.lineage]
    <3> DEFINE o == cursor.ordinal
    <3>1. o \in 0..o
      <4>1. o \in Nat
        BY <1>2
      <4> HIDE DEF o
      <4>2. QED BY <4>1
    <3>2. QED BY <1>2, <3>1
  <2>2. QED BY <1>2, <1>5, <2>1
<1>7. \A l \in DOMAIN rollouts : \A n \in 1..taken[l] : RecordIn(rollouts'[l], l, n) = RecordIn(rollouts[l], l, n)
  <2> TAKE l \in DOMAIN rollouts
  <2> DEFINE t == taken[l]
  <2>1. t \in Nat
    BY <1>1, TakenIs
  <2> HIDE DEF t
  <2>2. \A n \in 1..t : n \in 0..t /\ n >= 1
    BY <2>1
  <2>3. \A n \in 0..t : n >= 1 => RecordIn(rollouts'[l], l, n) = RecordIn(rollouts[l], l, n)
    BY <1>5 DEF t
  <2>4. QED BY <2>2, <2>3 DEF t
<1>8. \A l \in DOMAIN rollouts' : l \in DOMAIN rollouts \/ taken[l] = 0
  <2> TAKE l \in DOMAIN rollouts'
  <2>1. l \in Nat /\ (l \in DOMAIN rollouts \/ l > cursor.lineage)
    <3>1. l \in Nat /\ l >= 1
      BY FilesAre
    <3>2. DOMAIN rollouts = 1..Len(rollouts) /\ Len(rollouts) \in Nat /\ cursor.lineage \in Nat
          /\ cursor.lineage <= Len(rollouts)
      BY CursorIs
    <3> DEFINE k == Len(rollouts)
               c == cursor.lineage
    <3>3. k \in Nat /\ c \in Nat /\ c <= k /\ DOMAIN rollouts = 1..k
      BY <3>2
    <3> HIDE DEF k, c
    <3>4. l \in 1..k \/ l > c
      BY <3>1, <3>3
    <3>5. QED BY <3>1, <3>3, <3>4 DEF c
  <2>2. QED BY <1>1, <2>1 DEF HeldUpTo
<1>9. HeldUpTo(taken)'
  <2>1. taken[cursor'.lineage] = cursor'.ordinal /\ \A l \in Nat : l > cursor'.lineage => taken[l] = 0
    BY <1>1 DEF HeldUpTo
  <2>2. \A l \in DOMAIN rollouts' : taken[l] <= Len(rollouts'[l])
    <3> TAKE l \in DOMAIN rollouts'
    <3> DEFINE t == taken[l]
               now == Len(rollouts'[l])
               before == Len(rollouts[l])
    <3>1. t \in Nat /\ now \in Nat
      BY <1>4
    <3>2. CASE t = 0
      <4> HIDE DEF t, now
      <4>1. t <= now
        BY <3>1, <3>2
      <4>2. QED BY <4>1 DEF t, now
    <3>3. CASE l \in DOMAIN rollouts
      <4>1. t <= before /\ before <= now /\ before \in Nat
        BY <1>1, <1>3, <3>3, TakenIs
      <4> HIDE DEF t, now, before
      <4>2. t <= now
        BY <3>1, <4>1
      <4>3. QED BY <4>2 DEF t, now
    <3>4. QED BY <1>8, <3>2, <3>3
  <2>3. \A l \in DOMAIN rollouts' : \A n \in 1..taken[l] : l \in DOMAIN rollouts
    <3> TAKE l \in DOMAIN rollouts'
    <3> TAKE n \in 1..taken[l]
    <3>1. taken[l] # 0
      OBVIOUS
    <3>2. QED BY <1>8, <3>1
  <2>4. \A l \in DOMAIN rollouts' : \A n \in 1..taken[l] : RecordIn(rollouts'[l], l, n) \in evidence
    <3>1. \A l \in DOMAIN rollouts : \A n \in 1..taken[l] : RecordIn(rollouts[l], l, n) \in evidence
      BY <1>1 DEF HeldUpTo
    <3>2. QED BY <1>7, <2>3, <3>1
  <2>5. \A r \in evidence : \E l \in DOMAIN rollouts' : \E n \in 1..taken[l] : r = RecordIn(rollouts'[l], l, n)
    <3> TAKE r \in evidence
    <3>1. PICK l \in DOMAIN rollouts : \E n \in 1..taken[l] : r = RecordIn(rollouts[l], l, n)
      BY <1>1 DEF HeldUpTo
    <3>2. PICK n \in 1..taken[l] : r = RecordIn(rollouts[l], l, n)
      BY <3>1
    <3>3. QED BY <1>3, <1>7, <3>2
  <2>6. QED BY <2>1, <2>2, <2>4, <2>5 DEF HeldUpTo
<1>10. rollouts' # << >>
  BY <1>2, <1>3
<1>11. cursor' = [lineage |-> cursor'.lineage, ordinal |-> cursor'.ordinal,
                  context |-> KeptAt(rollouts'[cursor'.lineage], cursor'.ordinal)]
  BY <1>6 DEF TurnsInv
<1>12. cursor'.lineage \in DOMAIN rollouts' /\ cursor'.ordinal \in Nat
  BY <1>2, <1>3
<1>13. QED BY <1>9, <1>10, <1>11, <1>12 DEF TurnsInv

\* The host writes a line.
LEMMA WriteKeeps ==
  ASSUME TurnsInv, NEW line \in RolloutLines, WriteRolloutLine(line)
  PROVE  TurnsInv'
<1>1. /\ UNCHANGED <<cursor, evidence>>
      /\ rollouts' = [rollouts EXCEPT ![Len(rollouts)] = Append(@, line)]
  BY DEF WriteRolloutLine
<1>2. rollouts \in FileSeqs /\ rollouts # << >>
  BY CursorIs
<1> DEFINE n == Len(rollouts)
           file == rollouts[n]
<1>3. n \in 1..Len(rollouts) /\ file \in Files /\ DOMAIN rollouts = 1..n
  <2>1. n \in Nat /\ n # 0 /\ DOMAIN rollouts = 1..n
    <3>1. n \in Nat /\ DOMAIN rollouts = 1..n
      BY CursorIs
    <3>2. cursor.lineage \in 1..n
      BY CursorIs
    <3>3. QED BY <3>1, <3>2
  <2>2. n \in 1..n
    BY <2>1
  <2>3. QED BY <1>2, <2>1, <2>2, FilesAre
<1>4. /\ Append(file, line) \in Files /\ Len(Append(file, line)) = Len(file) + 1 /\ Len(file) \in Nat
      /\ \A i \in 1..Len(file) : Append(file, line)[i] = file[i]
  <2> HIDE DEF file
  <2>1. QED BY <1>3 DEF Files
<1>5. rollouts' \in FileSeqs /\ DOMAIN rollouts' = DOMAIN rollouts
  <2> HIDE DEF n, file
  <2>1. rollouts' = [rollouts EXCEPT ![n] = Append(file, line)]
    BY <1>1 DEF n, file
  <2>2. QED BY <1>2, <1>3, <1>4, <2>1 DEF FileSeqs
<1>6. /\ rollouts'[n] = Append(file, line)
      /\ \A l \in DOMAIN rollouts : l # n => rollouts'[l] = rollouts[l]
  <2> HIDE DEF n, file
  <2>1. rollouts' = [rollouts EXCEPT ![n] = Append(file, line)]
    BY <1>1 DEF n, file
  <2>2. n \in DOMAIN rollouts
    BY <1>3
  <2>3. QED BY <1>2, <2>1, <2>2 DEF FileSeqs
<1>7. \A l \in DOMAIN rollouts : rollouts[l] \in Files /\ Len(rollouts[l]) \in Nat
  BY <1>2, FilesAre
<1> HIDE DEF n
<1>8. \A l \in DOMAIN rollouts :
        Len(rollouts[l]) <= Len(rollouts'[l]) /\ \A i \in 1..Len(rollouts[l]) : rollouts'[l][i] = rollouts[l][i]
  <2> TAKE l \in DOMAIN rollouts
  <2>1. CASE l = n
    <3>1. Len(file) <= Len(file) + 1
      BY <1>4
    <3>2. QED BY <1>4, <1>6, <2>1, <3>1
  <2>2. CASE l # n
    BY <1>6, <1>7, <2>2
  <2>3. QED BY <2>1, <2>2
<1>9. Grown(rollouts, rollouts')
  BY <1>5, <1>8 DEF Grown
<1>10. QED BY <1>1, <1>5, <1>9, FilesGrow

\* Another file takes the place of the rollout.
LEMMA ReplaceKeeps ==
  ASSUME TurnsInv, ReplaceRollout
  PROVE  TurnsInv'
<1>1. UNCHANGED <<cursor, evidence>> /\ rollouts' = Append(rollouts, << >>)
  BY DEF ReplaceRollout
<1>2. rollouts \in FileSeqs /\ << >> \in Files
  BY CursorIs DEF Files
<1>3. /\ rollouts' \in FileSeqs /\ DOMAIN rollouts \subseteq DOMAIN rollouts'
      /\ \A l \in DOMAIN rollouts : rollouts'[l] = rollouts[l] /\ Len(rollouts[l]) \in Nat
  <2>1. rollouts' \in FileSeqs
    BY <1>1, <1>2 DEF FileSeqs
  <2>2. /\ DOMAIN rollouts \subseteq DOMAIN rollouts'
        /\ \A l \in DOMAIN rollouts : rollouts'[l] = rollouts[l]
    BY <1>1, <1>2 DEF FileSeqs
  <2>3. QED BY <1>2, <2>1, <2>2, FilesAre
<1>4. Grown(rollouts, rollouts')
  BY <1>3 DEF Grown
<1>5. QED BY <1>1, <1>3, <1>4, FilesGrow

\* The cursor goes to the start of it.
LEMMA RotateKeeps ==
  ASSUME TurnsInv, Rotate
  PROVE  TurnsInv'
<1>1. /\ UNCHANGED <<rollouts, evidence>> /\ cursor.lineage < Len(rollouts)
      /\ cursor' = [lineage |-> Len(rollouts), ordinal |-> 0, context |-> {}]
  BY DEF Rotate
<1>2. /\ rollouts \in FileSeqs /\ rollouts # << >> /\ cursor.lineage \in 1..Len(rollouts)
      /\ Len(rollouts) \in 1..Len(rollouts) /\ Len(rollouts) \in Nat /\ DOMAIN rollouts = 1..Len(rollouts)
  <2>1. cursor.lineage \in 1..Len(rollouts) /\ Len(rollouts) \in Nat
    BY CursorIs
  <2>2. Len(rollouts) \in 1..Len(rollouts)
    BY <2>1
  <2>3. QED BY <2>1, <2>2, CursorIs
<1>3. PICK taken \in [Nat -> Nat] : HeldUpTo(taken)
  BY DEF TurnsInv
<1>4. KeptAt(rollouts[Len(rollouts)], 0) = {}
  BY DEF KeptAt, LatestLines
<1>5. HeldUpTo(taken)'
  <2>1. taken[cursor'.lineage] = cursor'.ordinal /\ \A l \in Nat : l > cursor'.lineage => taken[l] = 0
    <3>1. cursor'.lineage = Len(rollouts) /\ cursor'.ordinal = 0
      BY <1>1
    <3>2. \A l \in Nat : l > cursor.lineage => taken[l] = 0
      BY <1>3 DEF HeldUpTo
    <3>3. \A l \in Nat : l > Len(rollouts) => l > cursor.lineage
      <4>1. \A a \in Nat : \A c \in 1..a : \A l \in Nat : l > a => l > c
        OBVIOUS
      <4>2. QED BY <1>2, <4>1
    <3>4. QED BY <1>1, <1>2, <3>1, <3>2, <3>3
  <2>2. QED BY <1>1, <1>3, <2>1 DEF HeldUpTo
<1>6. cursor'.lineage = Len(rollouts) /\ cursor'.ordinal = 0 /\ cursor'.context = {}
  BY <1>1
<1>7. QED BY <1>1, <1>2, <1>4, <1>5, <1>6 DEF TurnsInv

\* One more line of the file under the path is captured.
LEMMA ExtractKeeps ==
  ASSUME TurnsInv, Extract
  PROVE  TurnsInv'
<1> DEFINE l == cursor.lineage
           n == cursor.ordinal + 1
           file == rollouts[l]
           record == RecordIn(file, l, n)
<1>1. l \in DOMAIN rollouts /\ l \in Nat /\ cursor.ordinal \in Nat /\ file \in Files /\ Len(file) \in Nat
  BY CursorIs, FilesAre
<1>2. n \in Nat /\ n >= 1 /\ n - 1 = cursor.ordinal
  BY <1>1
<1>3. cursor = [lineage |-> l, ordinal |-> cursor.ordinal, context |-> KeptAt(file, n - 1)]
  <2>1. cursor = [lineage |-> l, ordinal |-> cursor.ordinal, context |-> KeptAt(file, cursor.ordinal)]
    BY DEF TurnsInv
  <2> HIDE DEF l, n, file
  <2>2. QED BY <1>2, <2>1
<1>4. Last(rollouts) = file /\ cursor.ordinal < Len(file)
  <2>1. cursor.lineage = Len(rollouts) /\ cursor.ordinal < Len(Last(rollouts))
    BY DEF Extract
  <2>2. Last(rollouts) = file
    BY <2>1 DEF Last
  <2>3. QED BY <2>1, <2>2
<1>5. n \in 1..Len(file) /\ n <= Len(file)
  <2>1. cursor.ordinal < Len(file) /\ Len(file) \in Nat
    BY <1>1, <1>4
  <2> HIDE DEF l, file
  <2>2. QED BY <1>1, <2>1
<1>6. rollouts' = rollouts /\ evidence' = evidence \cup {record}
      /\ cursor' = [cursor EXCEPT !.ordinal = n, !.context = KeptFor(@, record)]
  <2>1. record = [lineage |-> l, ordinal |-> n, line |-> file[n],
                  context |-> {c \in cursor.context : c.line.kind # file[n].kind}]
    <3>1. cursor.context = KeptAt(file, n - 1)
      BY <1>3
    <3> HIDE DEF l, n, file
    <3>2. QED BY <3>1 DEF RecordIn
  <2> HIDE DEF record
  <2>2. QED BY <1>4, <2>1 DEF Extract
<1>7. record.ordinal = n /\ record.line = file[n]
  BY DEF RecordIn
<1>8. KeptFor(KeptAt(file, n - 1), record) = KeptAt(file, n)
  <2> HIDE DEF record, n, file
  <2>1. QED BY <1>1, <1>5, <1>7, KeepsLatest
<1>9. cursor' = [lineage |-> l, ordinal |-> n, context |-> KeptAt(file, n)]
  <2> HIDE DEF record, n, file, l
  <2>1. cursor.context = KeptAt(file, n - 1)
    BY <1>3
  <2> DEFINE next == KeptFor(cursor.context, record)
  <2>2. cursor' = [cursor EXCEPT !.ordinal = n, !.context = next]
    BY <1>6
  <2>3. next = KeptAt(file, n)
    BY <1>8, <2>1
  <2> DEFINE o == cursor.ordinal
             kept == KeptAt(file, n - 1)
  <2> HIDE DEF next
  <2>4. cursor' = [lineage |-> l, ordinal |-> n, context |-> next]
    <3>1. cursor = [lineage |-> l, ordinal |-> o, context |-> kept]
      BY <1>3
    <3> HIDE DEF o, kept
    <3>2. QED BY <2>2, <3>1
  <2>5. QED BY <2>3, <2>4
<1>10. PICK taken \in [Nat -> Nat] : HeldUpTo(taken)
  BY DEF TurnsInv
<1>11. taken[l] = n - 1
  BY <1>2, <1>10 DEF HeldUpTo
<1> HIDE DEF n, file, l
<1>12. PICK more \in [Nat -> Nat] : more[l] = n /\ \A k \in Nat : k # l => more[k] = taken[k]
  <2> DEFINE t == [taken EXCEPT ![l] = n]
  <2>1. t \in [Nat -> Nat] /\ t[l] = n /\ \A k \in Nat : k # l => t[k] = taken[k]
    BY <1>1, <1>2
  <2> HIDE DEF t
  <2>2. QED BY <2>1
<1> HIDE DEF record
<1>13. \A k \in DOMAIN rollouts : k \in Nat /\ taken[k] \in Nat /\ taken[k] <= Len(rollouts[k])
  BY <1>10, TakenIs
<1>14. \A i \in 1..n : i = n \/ i \in 1..taken[l]
  BY <1>2, <1>11
<1>15. \A i \in 1..taken[l] : i \in 1..n
  BY <1>2, <1>11
<1>16. n \in 1..n
  BY <1>2
<1>17. HeldUpTo(more)'
  <2>1. more[cursor'.lineage] = cursor'.ordinal /\ cursor'.lineage = l
    BY <1>9, <1>12
  <2>2. \A k \in Nat : k > l => more[k] = 0
    <3> TAKE k \in Nat
    <3>1. k > l => k # l
      BY <1>1
    <3>2. k > l => taken[k] = 0
      BY <1>10 DEF HeldUpTo, l
    <3>3. QED BY <1>12, <3>1, <3>2
  <2>3. \A k \in DOMAIN rollouts : more[k] <= Len(rollouts[k])
    <3> TAKE k \in DOMAIN rollouts
    <3>1. CASE k = l
      BY <1>5, <1>12, <3>1 DEF file
    <3>2. CASE k # l
      BY <1>12, <1>13, <3>2
    <3>3. QED BY <3>1, <3>2
  <2>4. \A k \in DOMAIN rollouts : \A i \in 1..taken[k] : RecordIn(rollouts[k], k, i) \in evidence
    BY <1>10 DEF HeldUpTo
  <2>5. \A k \in DOMAIN rollouts : \A i \in 1..more[k] : RecordIn(rollouts[k], k, i) \in evidence'
    <3> TAKE k \in DOMAIN rollouts
    <3> TAKE i \in 1..more[k]
    <3>1. CASE k = l /\ i = n
      BY <1>6, <3>1 DEF record, file
    <3>2. CASE k = l /\ i # n
      <4>1. i \in 1..taken[l]
        BY <1>12, <1>14, <3>2
      <4>2. QED BY <1>6, <2>4, <3>2, <4>1
    <3>3. CASE k # l
      <4>1. i \in 1..taken[k]
        BY <1>12, <1>13, <3>3
      <4>2. QED BY <1>6, <2>4, <4>1
    <3>4. QED BY <3>1, <3>2, <3>3
  <2>6. \A r \in evidence' : \E k \in DOMAIN rollouts : \E i \in 1..more[k] : r = RecordIn(rollouts[k], k, i)
    <3> TAKE r \in evidence'
    <3>1. CASE r = record
      <4>1. n \in 1..more[l]
        BY <1>12, <1>16
      <4>2. QED BY <1>1, <3>1, <4>1 DEF record, file
    <3>2. CASE r \in evidence
      <4>1. PICK k \in DOMAIN rollouts : \E i \in 1..taken[k] : r = RecordIn(rollouts[k], k, i)
        BY <1>10, <3>2 DEF HeldUpTo
      <4>2. PICK i \in 1..taken[k] : r = RecordIn(rollouts[k], k, i)
        BY <4>1
      <4>3. i \in 1..more[k]
        <5>1. CASE k = l
          BY <1>12, <1>15, <5>1
        <5>2. CASE k # l
          BY <1>12, <1>13, <5>2
        <5>3. QED BY <5>1, <5>2
      <4>4. QED BY <4>2, <4>3
    <3>3. QED BY <1>6, <3>1, <3>2
  <2>7. more[cursor'.lineage] = cursor'.ordinal /\ \A k \in Nat : k > cursor'.lineage => more[k] = 0
    BY <2>1, <2>2
  <2>8. \A k \in DOMAIN rollouts' : more[k] <= Len(rollouts'[k])
    BY <1>6, <2>3
  <2>9. \A k \in DOMAIN rollouts' : \A i \in 1..more[k] : RecordIn(rollouts'[k], k, i) \in evidence'
    BY <1>6, <2>5
  <2>10. \A r \in evidence' : \E k \in DOMAIN rollouts' : \E i \in 1..more[k] : r = RecordIn(rollouts'[k], k, i)
    BY <1>6, <2>6
  <2>11. QED BY <2>7, <2>8, <2>9, <2>10 DEF HeldUpTo
<1>18. cursor'.lineage = l /\ cursor'.ordinal = n /\ rollouts'[cursor'.lineage] = file
  <2>1. cursor'.lineage = l /\ cursor'.ordinal = n
    BY <1>9
  <2>2. rollouts'[cursor'.lineage] = rollouts[l]
    BY <1>6, <2>1
  <2>3. QED BY <2>1, <2>2 DEF file
<1>19. cursor' = [lineage |-> cursor'.lineage, ordinal |-> cursor'.ordinal,
                  context |-> KeptAt(rollouts'[cursor'.lineage], cursor'.ordinal)]
  BY <1>9, <1>18
<1>20. \E t \in [Nat -> Nat] : HeldUpTo(t)'
  BY <1>17
<1>21. rollouts' \in FileSeqs /\ rollouts' # << >> /\ cursor'.lineage \in DOMAIN rollouts' /\ cursor'.ordinal \in Nat
  BY <1>1, <1>2, <1>6, <1>18, CursorIs
<1>22. QED BY <1>19, <1>20, <1>21 DEF TurnsInv

\* At the start, nothing is written.
LEMMA TurnsStart ==
  ASSUME TurnsInit
  PROVE  TurnsInv
<1>1. /\ rollouts = << << >> >> /\ cursor = [lineage |-> 1, ordinal |-> 0, context |-> {}] /\ evidence = {}
  BY DEF TurnsInit
<1>2. << >> \in Files /\ Len(<< << >> >>) = 1
  BY DEF Files
<1>3. rollouts \in FileSeqs /\ rollouts # << >> /\ DOMAIN rollouts = {1} /\ rollouts[1] = << >>
  BY <1>1, <1>2 DEF FileSeqs
<1>4. KeptAt(rollouts[1], 0) = {}
  BY DEF KeptAt, LatestLines
<1> DEFINE taken == [l \in Nat |-> 0]
<1>5. taken \in [Nat -> Nat] /\ HeldUpTo(taken)
  BY <1>1, <1>3 DEF HeldUpTo
<1> HIDE DEF taken
<1>6. QED BY <1>1, <1>3, <1>4, <1>5 DEF TurnsInv

\* Every step keeps the invariant.
LEMMA TurnsStep ==
  ASSUME TurnsInv, [TurnsNext]_turnsVars
  PROVE  TurnsInv'
<1>1. CASE \E line \in RolloutLines : WriteRolloutLine(line)
  BY <1>1, WriteKeeps
<1>2. CASE ReplaceRollout
  BY <1>2, ReplaceKeeps
<1>3. CASE Rotate
  BY <1>3, RotateKeeps
<1>4. CASE Extract
  BY <1>4, ExtractKeeps
<1>5. CASE UNCHANGED turnsVars
  <2>1. rollouts' = rollouts /\ cursor' = cursor /\ evidence' = evidence
    BY <1>5 DEF turnsVars
  <2>2. Grown(rollouts, rollouts')
    <3>1. \A l \in DOMAIN rollouts : Len(rollouts[l]) \in Nat
      BY CursorIs, FilesAre
    <3>2. \A l \in DOMAIN rollouts : Len(rollouts[l]) <= Len(rollouts[l])
      BY <3>1
    <3>3. QED BY <2>1, <3>2 DEF Grown
  <2>3. QED BY <2>1, <2>2, CursorIs, FilesGrow
<1>6. QED BY <1>1, <1>2, <1>3, <1>4, <1>5 DEF TurnsNext

-----------------------------------------------------------------------------
(* What the records say is what the file says. *)

LinesBefore(file, n, kinds) == {i \in 1..n - 1 : file[i].kind \in kinds}
TurnsAfter(file, n, upto) == {i \in n + 1..upto : file[i].kind = "turn_context"}
LastLine(S) == CHOOSE i \in S : \A j \in S : j <= i
FirstLine(S) == CHOOSE i \in S : \A j \in S : i <= j

\* Some of the first lines have a last one, others a first one.
LEMMA EndsAre ==
  ASSUME NEW S \in SUBSET Nat, NEW n \in Nat, S # {}, \A i \in S : i <= n
  PROVE  /\ LastLine(S) \in S /\ \A j \in S : j <= LastLine(S)
         /\ FirstLine(S) \in S /\ \A j \in S : FirstLine(S) <= j
<1>1. \E i \in S : \A j \in S : i <= j
  BY SmallestOf
<1> DEFINE D == {n - i : i \in S}
<1>2. D \in SUBSET Nat /\ D # {}
  <2>1. \A i \in S : n - i \in Nat
    <3> TAKE i \in S
    <3>1. i \in Nat /\ i <= n
      OBVIOUS
    <3>2. QED BY <3>1
  <2>2. QED BY <2>1
<1>3. PICK k \in D : \A j \in D : k <= j
  BY <1>2, SmallestOf
<1>4. PICK i \in S : k = n - i
  BY <1>3
<1>5. \A j \in S : n - i <= n - j
  BY <1>3, <1>4
<1> HIDE DEF D
<1>6. \A j \in S : j <= i
  <2> TAKE j \in S
  <2>1. n - i <= n - j /\ i \in Nat /\ j \in Nat
    BY <1>5
  <2>2. QED BY <2>1
<1>7. \E d \in S : \A j \in S : j <= d
  BY <1>6
<1>8. LastLine(S) \in S /\ \A j \in S : j <= LastLine(S)
  BY <1>7 DEF LastLine
<1>9. FirstLine(S) \in S /\ \A j \in S : FirstLine(S) <= j
  BY <1>1 DEF FirstLine
<1>10. QED BY <1>8, <1>9

\* The contexts kept stand on lines of their own, none of them a usage event.
LEMMA KeptIsInOrder ==
  ASSUME NEW file \in Files, NEW n \in Nat, n <= Len(file)
  PROVE  InOrder(KeptAt(file, n)) /\ KeptAt(file, n) \subseteq Upto(KeptAt(file, n), n)
<1>1. \A i \in LatestLines(file, n) : i \in Nat \ {0} /\ i <= n /\ file[i] \in RolloutLines \ {Usage}
  <2>1. Len(file) \in Nat /\ \A i \in 1..Len(file) : file[i] \in RolloutLines
    BY DEF Files
  <2>2. \A i \in 1..n : i \in 1..Len(file) /\ i \in Nat \ {0} /\ i <= n
    BY <2>1
  <2>3. QED BY <2>1, <2>2 DEF LatestLines
<1>2. \A c \in KeptAt(file, n) : /\ c.ordinal \in LatestLines(file, n)
                                 /\ c = [ordinal |-> c.ordinal, line |-> file[c.ordinal]]
  BY DEF KeptAt, KeptLine
<1>3. KeptAt(file, n) \subseteq KeptContexts
  <2> SUFFICES ASSUME NEW c \in KeptAt(file, n) PROVE c \in KeptContexts
    OBVIOUS
  <2>1. c.ordinal \in Nat \ {0} /\ file[c.ordinal] \in RolloutLines \ {Usage}
    BY <1>1, <1>2
  <2> DEFINE i == c.ordinal
             x == file[i]
  <2>2. c = [ordinal |-> i, line |-> x] /\ i \in Nat \ {0} /\ x \in RolloutLines \ {Usage}
    BY <1>2, <2>1
  <2> HIDE DEF i, x
  <2>3. QED BY <2>2 DEF KeptContexts
<1>4. \A c, d \in KeptAt(file, n) : c.ordinal = d.ordinal => c = d
  BY <1>2
<1>5. KeptAt(file, n) \subseteq Upto(KeptAt(file, n), n)
  BY <1>1, <1>2 DEF Upto
<1>6. QED BY <1>3, <1>4, <1>5 DEF InOrder

\* The latest context of some kinds is the nearest line of these kinds.
LEMMA LatestIsNearest ==
  ASSUME NEW file \in Files, NEW n \in 1..Len(file), NEW kinds, "token_count" \notin kinds
  PROVE  LET kept == OfKinds(KeptAt(file, n - 1), kinds)
             before == LinesBefore(file, n, kinds)
         IN /\ kept = {} <=> before = {}
            /\ before # {} => Latest(kept).line = file[LastLine(before)] /\ LastLine(before) \in before
<1> DEFINE C == KeptAt(file, n - 1)
           kept == OfKinds(C, kinds)
           before == LinesBefore(file, n, kinds)
           m == LastLine(before)
<1>1. n - 1 \in Nat /\ n - 1 <= Len(file) /\ Len(file) \in Nat /\ \A i \in 1..n - 1 : file[i] \in RolloutLines
  BY DEF Files
<1>2. InOrder(C) /\ C \subseteq Upto(C, n - 1)
  BY <1>1, KeptIsInOrder
<1>3. \A c \in kept : c.ordinal \in before /\ c.line = file[c.ordinal]
  BY DEF OfKinds, KeptAt, KeptLine, LatestLines, LinesBefore
<1>4. ASSUME before # {} PROVE m \in before /\ KeptLine(file, m) \in kept /\ \A d \in kept : d.ordinal <= m
  <2>1. before \in SUBSET Nat /\ \A i \in before : i <= n - 1
    BY <1>1 DEF LinesBefore
  <2>2. m \in before /\ \A j \in before : j <= m
    BY <1>1, <1>4, <2>1, EndsAre
  <2> HIDE DEF m
  <2>3. m \in 1..n - 1 /\ file[m].kind \in kinds
    BY <2>2 DEF LinesBefore
  <2>4. file[m] # Usage
    BY <1>1, <2>3, KindsAre
  <2>5. \A j \in m + 1..n - 1 : file[j].kind # file[m].kind
    <3> TAKE j \in m + 1..n - 1
    <3>1. j \in 1..n - 1 /\ ~(j <= m)
      BY <1>1, <2>3
    <3>2. j \notin before
      BY <2>2, <3>1
    <3>3. QED BY <2>3, <3>1, <3>2 DEF LinesBefore
  <2>6. m \in LatestLines(file, n - 1)
    BY <2>3, <2>4, <2>5 DEF LatestLines
  <2>7. KeptLine(file, m) \in C /\ KeptLine(file, m).line = file[m]
    BY <2>6 DEF KeptAt, KeptLine
  <2>8. KeptLine(file, m) \in kept
    BY <2>3, <2>7 DEF OfKinds
  <2>9. QED BY <1>3, <2>2, <2>8
<1>5. kept = {} <=> before = {}
  BY <1>3, <1>4
<1>6. ASSUME before # {} PROVE Latest(kept).line = file[m]
  <2>1. kept \in SUBSET C /\ kept # {}
    BY <1>4, <1>6 DEF OfKinds
  <2>2. KeptLine(file, m).ordinal = m /\ KeptLine(file, m).line = file[m]
    BY DEF KeptLine
  <2>3. KeptLine(file, m) \in kept /\ \A d \in kept : d.ordinal <= KeptLine(file, m).ordinal
    BY <1>4, <1>6, <2>2
  <2> HIDE DEF kept, C, m
  <2>4. kept \subseteq Upto(C, n - 1)
    BY <1>2, <2>1
  <2>5. KeptLine(file, m) = Latest(kept)
    BY <1>1, <1>2, <2>1, <2>3, <2>4, LatestIs
  <2>6. QED BY <2>2, <2>5
<1>7. QED BY <1>4, <1>5, <1>6

\* Of the records, those of a file are as many as were taken.
LEMMA ArrivedIs ==
  ASSUME TurnsInv, NEW taken \in [Nat -> Nat], HeldUpTo(taken), NEW l \in DOMAIN rollouts
  PROVE  ArrivedOf(l) = taken[l]
<1> DEFINE t == taken[l]
           file == rollouts[l]
           R == {r \in evidence : r.lineage = l}
           f == [i \in 1..t |-> RecordIn(file, l, i)]
<1>1. t \in Nat
  BY TakenIs
<1>2. \A i \in 1..t : RecordIn(file, l, i) \in R /\ RecordIn(file, l, i).ordinal = i
  BY DEF HeldUpTo, RecordIn
<1>3. \A r \in R : \E i \in 1..t : r = RecordIn(file, l, i)
  <2> TAKE r \in R
  <2>1. PICK k \in DOMAIN rollouts : \E i \in 1..taken[k] : r = RecordIn(rollouts[k], k, i)
    BY DEF HeldUpTo
  <2>2. k = l
    BY <2>1 DEF RecordIn
  <2>3. QED BY <2>1, <2>2
<1> HIDE DEF t, file, R
<1>4. f \in Bijection(1..t, R)
  <2>1. f \in [1..t -> R] /\ \A i \in 1..t : f[i] = RecordIn(file, l, i)
    BY <1>2
  <2> HIDE DEF f
  <2>2. \A i, j \in 1..t : f[i] = f[j] => i = j
    BY <1>2, <2>1
  <2>3. \A r \in R : \E i \in 1..t : f[i] = r
    BY <1>3, <2>1
  <2>4. f \in Injection(1..t, R)
    BY <2>1, <2>2 DEF Injection, IsInjective
  <2>5. f \in Surjection(1..t, R)
    BY <2>1, <2>3 DEF Surjection
  <2>6. QED BY <2>4, <2>5 DEF Bijection
<1>5. IsFiniteSet(1..t) /\ Cardinality(1..t) = t
  <2>1. t >= 1 => t - 1 + 1 = t
    BY <1>1
  <2>2. QED BY <1>1, <2>1, FS_Interval
<1>6. Cardinality(R) = t
  BY <1>4, <1>5, FS_Bijection DEF ExistsBijection
<1>7. QED BY <1>6 DEF ArrivedOf, R, t

\* What a usage event's contexts say together is what the lines before it say.
LEMMA SaysOf ==
  ASSUME NEW file \in Files, NEW n \in 1..Len(file)
  PROVE  Says(KeptAt(file, n - 1)) =
           [session |-> LinesBefore(file, n, {"session_meta"}) # {},
            turn |-> IF LinesBefore(file, n, Opening) = {} THEN Missing
                     ELSE file[LastLine(LinesBefore(file, n, Opening))].turn,
            model |-> IF LinesBefore(file, n, Naming) = {} THEN Missing
                      ELSE file[LastLine(LinesBefore(file, n, Naming))].model]
<1> DEFINE C == KeptAt(file, n - 1)
           B(kinds) == LinesBefore(file, n, kinds)
<1>1. OfKinds(C, {"session_meta"}) = {} <=> B({"session_meta"}) = {}
  BY LatestIsNearest
<1>2. /\ OfKinds(C, Opening) = {} <=> B(Opening) = {}
      /\ B(Opening) # {} => Latest(OfKinds(C, Opening)).line = file[LastLine(B(Opening))]
  BY LatestIsNearest DEF Opening
<1>3. /\ OfKinds(C, Naming) = {} <=> B(Naming) = {}
      /\ B(Naming) # {} => Latest(OfKinds(C, Naming)).line = file[LastLine(B(Naming))]
  BY LatestIsNearest DEF Naming
<1>4. QED BY <1>1, <1>2, <1>3 DEF Says

\* The turn context that is nearest among the records that follow r is the nearest line.
NearestOf(r, file, n, upto) ==
  LET after == TurnsAfter(file, n, upto)
  IN /\ Following(r) = {} <=> after = {}
     /\ after # {} => Nearest(Following(r)).line = file[FirstLine(after)] /\ FirstLine(after) \in after

\* This is so of every record captured.
LEMMA NearestIs ==
  ASSUME TurnsInv, NEW taken \in [Nat -> Nat], HeldUpTo(taken), NEW l \in DOMAIN rollouts,
         NEW n \in 1..taken[l], NEW r, r.lineage = l, r.ordinal = n
  PROVE  NearestOf(r, rollouts[l], n, taken[l])
<1> DEFINE t == taken[l]
           file == rollouts[l]
           after == TurnsAfter(file, n, t)
           F == Following(r)
           k == FirstLine(after)
<1>1. t \in Nat /\ n \in Nat /\ n >= 1
  BY TakenIs
<1>2. \A i \in 1..t : RecordIn(file, l, i) \in evidence
  BY DEF HeldUpTo
<1>3. \A q \in evidence : q.lineage = l => \E i \in 1..t : q = RecordIn(file, l, i)
  <2> TAKE q \in evidence
  <2>1. PICK h \in DOMAIN rollouts : \E i \in 1..taken[h] : q = RecordIn(rollouts[h], h, i)
    BY DEF HeldUpTo
  <2>2. q.lineage = h
    BY <2>1 DEF RecordIn
  <2>3. QED BY <2>1, <2>2
<1>4. \A i : /\ RecordIn(file, l, i).lineage = l /\ RecordIn(file, l, i).ordinal = i
             /\ RecordIn(file, l, i).line = file[i]
  BY DEF RecordIn
<1>5. \A q \in F : q \in evidence /\ q.lineage = l /\ q.ordinal > n /\ q.line.kind = "turn_context"
  BY DEF Following
<1>6. \A q \in evidence : q.lineage = l /\ q.ordinal > n /\ q.line.kind = "turn_context" => q \in F
  BY DEF Following
<1> HIDE DEF t, file, F
<1>7. \A i \in after : i \in 1..t /\ i > n /\ i \in Nat /\ i <= t /\ file[i].kind = "turn_context"
  BY <1>1 DEF TurnsAfter
<1>8. \A i \in 1..t : i > n /\ file[i].kind = "turn_context" => i \in after
  BY <1>1 DEF TurnsAfter
<1>9. \A i \in after : RecordIn(file, l, i) \in F
  <2> TAKE i \in after
  <2>1. RecordIn(file, l, i) \in evidence /\ i > n /\ file[i].kind = "turn_context"
    BY <1>2, <1>7
  <2>2. QED BY <1>4, <1>6, <2>1
<1>10. \A q \in F : q.ordinal \in after /\ q = RecordIn(file, l, q.ordinal)
  <2> TAKE q \in F
  <2>1. PICK i \in 1..t : q = RecordIn(file, l, i)
    BY <1>3, <1>5
  <2>2. q.ordinal = i /\ q.line = file[i]
    BY <1>4, <2>1
  <2>3. i \in after
    BY <1>5, <1>8, <2>2
  <2>4. QED BY <2>1, <2>2, <2>3
<1>11. F = {} <=> after = {}
  BY <1>9, <1>10
<1>12. ASSUME after # {} PROVE Nearest(F).line = file[k] /\ k \in after
  <2>1. after \in SUBSET Nat /\ \A i \in after : i <= t
    BY <1>7
  <2>2. k \in after /\ \A j \in after : k <= j
    BY <1>1, <1>12, <2>1, EndsAre
  <2> HIDE DEF k, after
  <2>3. RecordIn(file, l, k) \in F /\ \A q \in F : RecordIn(file, l, k).ordinal <= q.ordinal
    BY <1>4, <1>9, <1>10, <2>2
  <2>4. Nearest(F) \in F /\ \A q \in F : Nearest(F).ordinal <= q.ordinal
    BY <2>3 DEF Nearest
  <2>5. Nearest(F).ordinal = k
    <3>1. Nearest(F).ordinal \in after /\ Nearest(F).ordinal <= k /\ k <= Nearest(F).ordinal
      BY <1>4, <1>10, <2>2, <2>3, <2>4
    <3> DEFINE o == Nearest(F).ordinal
    <3>2. o \in Nat /\ k \in Nat /\ o <= k /\ k <= o
      BY <2>1, <2>2, <3>1
    <3> HIDE DEF o
    <3>3. o = k
      BY <3>2
    <3>4. QED BY <3>3 DEF o
  <2>6. Nearest(F) = RecordIn(file, l, k)
    BY <1>10, <2>4, <2>5
  <2>7. QED BY <1>4, <2>2, <2>6
<1>13. NearestOf(r, file, n, t)
  BY <1>11, <1>12 DEF NearestOf, F
<1>14. QED BY <1>13 DEF file, t

\* Around a line, in these terms.
LEMMA AroundIs ==
  ASSUME NEW file, NEW n, NEW kinds, NEW upto
  PROVE  Around(file, n, kinds, upto) =
           [before |-> IF LinesBefore(file, n, kinds) = {} THEN {} ELSE {file[LastLine(LinesBefore(file, n, kinds))]},
            after |-> IF TurnsAfter(file, n, upto) = {} THEN {} ELSE {file[FirstLine(TurnsAfter(file, n, upto))]}]
BY DEF Around, LinesBefore, TurnsAfter, LastLine, FirstLine

\* r is the usage event on line n of the file of lineage l; its contexts, applied in
\* their order, say what they say together.
UsageOf(r, file, l, n) ==
  /\ r.lineage = l /\ r.ordinal = n /\ file[n] = Usage
  /\ file \in Files /\ n \in 1..Len(file) /\ n \in Nat
  /\ StateOf(r) = Says(KeptAt(file, n - 1))

\* This is so of every usage event captured.
LEMMA UsageIs ==
  ASSUME TurnsInv, NEW taken \in [Nat -> Nat], HeldUpTo(taken), NEW l \in DOMAIN rollouts,
         NEW n \in 1..taken[l], NEW r, r = RecordIn(rollouts[l], l, n), r.line = Usage
  PROVE  UsageOf(r, rollouts[l], l, n)
<1> DEFINE file == rollouts[l]
<1>1. file \in Files /\ n \in 1..Len(file) /\ n \in Nat /\ n >= 1 /\ Len(file) \in Nat
  BY CursorIs, FilesAre, TakenIs
<1>2. r.lineage = l /\ r.ordinal = n /\ file[n] = Usage
      /\ r.context = {c \in KeptAt(file, n - 1) : c.line.kind # file[n].kind}
  BY DEF RecordIn
<1> HIDE DEF file
<1>3. n - 1 \in Nat /\ n - 1 <= Len(file)
  BY <1>1
<1>4. InOrder(KeptAt(file, n - 1)) /\ KeptAt(file, n - 1) \subseteq Upto(KeptAt(file, n - 1), n - 1)
  BY <1>1, <1>3, KeptIsInOrder
<1>5. r.context = KeptAt(file, n - 1)
  <2>1. \A c \in KeptAt(file, n - 1) : c.line \in RolloutLines \ {Usage}
    BY <1>4 DEF InOrder, KeptContexts
  <2>2. Usage.kind = "token_count"
    BY DEF Usage, Line
  <2>3. \A c \in KeptAt(file, n - 1) : c.line.kind # file[n].kind
    BY <1>2, <2>1, <2>2, KindsAre
  <2>4. QED BY <1>2, <2>3
<1>6. StateOf(r) = Says(r.context)
  BY <1>3, <1>4, <1>5, StateIs
<1>7. UsageOf(r, file, l, n)
  BY <1>1, <1>2, <1>5, <1>6 DEF UsageOf
<1>8. QED BY <1>7 DEF file

\* The lines of some kinds before a usage event: which they are and what they say.
LEMMA BeforeIs ==
  ASSUME NEW file \in Files, NEW n \in 1..Len(file)
  PROVE  LET opening == LinesBefore(file, n, Opening)
             naming == LinesBefore(file, n, Naming)
         IN /\ naming \subseteq opening
            /\ opening # {} => file[LastLine(opening)].turn \in Turns
            /\ naming # {} => file[LastLine(naming)].model \in Models
<1> DEFINE opening == LinesBefore(file, n, Opening)
           naming == LinesBefore(file, n, Naming)
<1>1. \A i \in 1..n - 1 : file[i] \in RolloutLines
  BY DEF Files
<1>2. naming \subseteq opening
  BY DEF LinesBefore, Opening, Naming
<1>3. ASSUME opening # {} PROVE file[LastLine(opening)].turn \in Turns
  <2>1. LastLine(opening) \in opening
    BY <1>3, LatestIsNearest DEF Opening
  <2>2. QED BY <1>1, <2>1, KindsAre DEF LinesBefore, Opening
<1>4. ASSUME naming # {} PROVE file[LastLine(naming)].model \in Models
  <2>1. LastLine(naming) \in naming
    BY <1>4, LatestIsNearest DEF Naming
  <2>2. QED BY <1>1, <2>1, KindsAre DEF LinesBefore, Naming
<1>5. QED BY <1>2, <1>3, <1>4

\* Each usage event has the turn and the model that its file gives it.
LEMMA UsageIsAttributed ==
  ASSUME CodexTurnsAssumption, TurnsInv, NEW r \in evidence, r.line = Usage
  PROVE  LET file == rollouts[r.lineage]
             upto == ArrivedOf(r.lineage)
             opened == Around(file, r.ordinal, {"turn_context", "task_started"}, upto)
             named == Around(file, r.ordinal, {"turn_context"}, upto)
             says == Attribution(r)
             Follow(around) == IF around.before # {} THEN around.before ELSE around.after
         IN IF ~\E i \in 1..r.ordinal : file[i] = SessionMeta THEN says = NoState
            ELSE /\ says.session
                 /\ {says.model} = (IF Follow(named) = {} THEN {Missing} ELSE {x.model : x \in Follow(named)})
                 /\ {says.turn} = (IF Follow(opened) = {} THEN {Missing} ELSE {x.turn : x \in Follow(opened)})
<1>1. PICK taken \in [Nat -> Nat] : HeldUpTo(taken)
  BY DEF TurnsInv
<1>2. PICK l \in DOMAIN rollouts : \E n \in 1..taken[l] : r = RecordIn(rollouts[l], l, n)
  BY <1>1 DEF HeldUpTo
<1>3. PICK n \in 1..taken[l] : r = RecordIn(rollouts[l], l, n)
  BY <1>2
<1>4. PICK file : file = rollouts[l]
  OBVIOUS
<1>5. PICK t : t = taken[l]
  OBVIOUS
<1>6. /\ r.lineage = l /\ r.ordinal = n /\ file[n] = Usage /\ file \in Files /\ n \in 1..Len(file) /\ n \in Nat
      /\ StateOf(r) = Says(KeptAt(file, n - 1)) /\ rollouts[r.lineage] = file
  <2>1. UsageOf(r, rollouts[l], l, n)
    BY <1>1, <1>3, UsageIs
  <2>2. QED BY <1>4, <2>1 DEF UsageOf
<1>7. ArrivedOf(r.lineage) = t
  BY <1>1, <1>5, <1>6, ArrivedIs
<1> DEFINE sessions == LinesBefore(file, n, {"session_meta"})
           opening == LinesBefore(file, n, Opening)
           naming == LinesBefore(file, n, Naming)
           after == TurnsAfter(file, n, t)
           opener == file[LastLine(opening)]
           namer == file[LastLine(naming)]
           next == file[FirstLine(after)]
           state == StateOf(r)
<1>8. state = [session |-> sessions # {},
               turn |-> IF opening = {} THEN Missing ELSE opener.turn,
               model |-> IF naming = {} THEN Missing ELSE namer.model]
  BY <1>6, SaysOf
<1>9. /\ naming \subseteq opening
      /\ opening # {} => opener.turn # Missing
      /\ naming # {} => namer.model # Missing
  <2>1. file \in Files /\ n \in 1..Len(file)
    BY <1>6
  <2>2. /\ naming \subseteq opening
        /\ opening # {} => opener.turn \in Turns
        /\ naming # {} => namer.model \in Models
    BY <2>1, BeforeIs
  <2>3. QED BY <2>2 DEF CodexTurnsAssumption
<1>10. (\E i \in 1..n : file[i] = SessionMeta) <=> sessions # {}
  <2>1. Usage # SessionMeta /\ SessionMeta.kind = "session_meta"
    BY DEF Usage, SessionMeta, Line
  <2>2. \A i \in 1..n - 1 : file[i] \in RolloutLines /\ i \in 1..n
    <3>1. file \in Seq(RolloutLines)
      BY <1>6 DEF Files
    <3>2. \A i \in 1..n - 1 : i \in 1..Len(file) /\ i \in 1..n
      BY <1>6, <3>1
    <3>3. QED BY <3>1, <3>2
  <2>3. \A i \in 1..n : i = n \/ i \in 1..n - 1
    BY <1>6
  <2>4. \A i \in 1..n - 1 : file[i].kind = "session_meta" <=> file[i] = SessionMeta
    BY <2>2, KindsAre
  <2>5. sessions = {i \in 1..n - 1 : file[i] = SessionMeta}
    BY <2>4 DEF LinesBefore
  <2>6. file[n] # SessionMeta
    BY <1>6, <2>1
  <2> HIDE DEF sessions
  <2>7. QED BY <2>2, <2>3, <2>5, <2>6
<1>11. /\ Following(r) = {} <=> after = {}
       /\ after # {} => Nearest(Following(r)).line = next /\ FirstLine(after) \in after
  <2>1. NearestOf(r, rollouts[l], n, taken[l])
    BY <1>1, <1>3, <1>6, NearestIs
  <2>2. NearestOf(r, file, n, t)
    BY <1>4, <1>5, <2>1
  <2>3. QED BY <2>2 DEF NearestOf
<1>12. after # {} => next.kind = "turn_context"
  BY <1>11 DEF TurnsAfter
<1>13. /\ Around(file, n, Opening, t) = [before |-> IF opening = {} THEN {} ELSE {opener},
                                        after |-> IF after = {} THEN {} ELSE {next}]
       /\ Around(file, n, Naming, t) = [before |-> IF naming = {} THEN {} ELSE {namer},
                                       after |-> IF after = {} THEN {} ELSE {next}]
  BY AroundIs
<1> HIDE DEF sessions, opening, naming, after, opener, namer, next, state
<1>14. Flushed(state, r) =
         IF after = {} THEN state
         ELSE [state EXCEPT !.model = next.model, !.turn = IF @ = Missing THEN next.turn ELSE @]
  <2>1. CASE after = {}
    BY <1>11, <2>1 DEF Flushed
  <2>2. CASE after # {}
    <3> DEFINE applied == Applied(state, next)
    <3>1. applied = [state EXCEPT !.turn = next.turn, !.model = next.model]
      BY <1>12, <2>2 DEF Applied
    <3>2. applied.turn = next.turn /\ applied.model = next.model
      BY <1>8, <3>1
    <3> HIDE DEF applied
    <3>3. Flushed(state, r) =
            [state EXCEPT !.model = applied.model, !.turn = IF @ = Missing THEN applied.turn ELSE @]
      BY <1>11, <2>2 DEF Flushed, applied
    <3>4. QED BY <2>2, <3>2, <3>3
  <2>3. QED BY <2>1, <2>2
<1>15. Attribution(r) = IF sessions = {} THEN NoState
                       ELSE IF naming # {} THEN state ELSE Flushed(state, r)
  <2>1. StateOf(r) = state
    BY DEF state
  <2>2. (state.session <=> sessions # {}) /\ (state.model # Missing <=> naming # {})
    BY <1>8, <1>9
  <2>3. CASE sessions = {}
    BY <2>1, <2>2, <2>3 DEF Attribution
  <2>4. CASE sessions # {} /\ naming # {}
    BY <2>1, <2>2, <2>4 DEF Attribution
  <2>5. CASE sessions # {} /\ naming = {}
    BY <2>1, <2>2, <2>5 DEF Attribution
  <2>6. QED BY <2>3, <2>4, <2>5
<1> DEFINE says == Attribution(r)
           Followed(before, x) == IF before # {} THEN {x} ELSE IF after = {} THEN {} ELSE {next}
           turns == Followed(opening, opener)
           models == Followed(naming, namer)
<1>16. CASE sessions = {}
  BY <1>6, <1>10, <1>15, <1>16
<1>17. ASSUME sessions # {}
       PROVE  /\ says.session
              /\ says.model = IF naming # {} THEN namer.model ELSE IF after = {} THEN Missing ELSE next.model
              /\ says.turn = IF opening # {} THEN opener.turn ELSE IF after = {} THEN Missing ELSE next.turn
  <2>1. CASE naming # {}
    <3>1. says = state /\ opening # {}
      BY <1>9, <1>15, <1>17, <2>1
    <3> HIDE DEF says
    <3>2. QED BY <1>8, <1>17, <2>1, <3>1
  <2>2. CASE naming = {} /\ after = {}
    <3>1. says = state
      BY <1>14, <1>15, <1>17, <2>2
    <3> HIDE DEF says
    <3>2. QED BY <1>8, <1>17, <2>2, <3>1
  <2>3. CASE naming = {} /\ after # {}
    <3>1. says = [state EXCEPT !.model = next.model, !.turn = IF @ = Missing THEN next.turn ELSE @]
      BY <1>14, <1>15, <1>17, <2>3
    <3> DEFINE turn == IF state.turn = Missing THEN next.turn ELSE state.turn
               model == next.model
    <3>2. says = [state EXCEPT !.model = model, !.turn = turn]
      BY <3>1
    <3>3. turn = IF opening # {} THEN opener.turn ELSE next.turn
      BY <1>8, <1>9
    <3> HIDE DEF says, turn
    <3>4. says.session /\ says.model = next.model /\ says.turn = turn
      BY <1>8, <1>17, <3>2
    <3>5. QED BY <2>3, <3>3, <3>4
  <2>4. QED BY <2>1, <2>2, <2>3
<1>18. \A x : {y.model : y \in {x}} = {x.model} /\ {y.turn : y \in {x}} = {x.turn}
  OBVIOUS
<1>19. ASSUME sessions # {}
       PROVE  /\ {says.model} = (IF models = {} THEN {Missing} ELSE {x.model : x \in models})
              /\ {says.turn} = (IF turns = {} THEN {Missing} ELSE {x.turn : x \in turns})
  <2> HIDE DEF says
  <2>1. {says.model} = (IF models = {} THEN {Missing} ELSE {x.model : x \in models})
    BY <1>17, <1>18, <1>19
  <2>2. {says.turn} = (IF turns = {} THEN {Missing} ELSE {x.turn : x \in turns})
    BY <1>17, <1>18, <1>19
  <2>3. QED BY <2>1, <2>2
<1> DEFINE named == Around(file, n, Naming, t)
           opened == Around(file, n, Opening, t)
<1>20. /\ (IF named.before # {} THEN named.before ELSE named.after) = models
       /\ (IF opened.before # {} THEN opened.before ELSE opened.after) = turns
  BY <1>13
<1> HIDE DEF says, models, turns, named, opened
<1>21. /\ named = Around(rollouts[r.lineage], r.ordinal, {"turn_context"}, ArrivedOf(r.lineage))
       /\ opened = Around(rollouts[r.lineage], r.ordinal, {"turn_context", "task_started"}, ArrivedOf(r.lineage))
  BY <1>6, <1>7 DEF named, opened, Naming, Opening
<1>22. CASE sessions # {}
  BY <1>6, <1>10, <1>17, <1>19, <1>20, <1>21, <1>22 DEF says
<1>23. QED BY <1>16, <1>22

\* Every usage event of a session belongs to the turn last opened before it in its file
\* and the model last named, or to the turn that follows (parseEvidence), for any number
\* of turns, models, files and lines.
THEOREM TurnsAttributed == TurnsSpec => []AttributedAsRead
<1>1. TurnsInit => TurnsInv
  BY TurnsStart
<1>2. TurnsInv /\ [TurnsNext]_turnsVars => TurnsInv'
  BY TurnsStep
<1>3. TurnsInv => AttributedAsRead
  BY CodexTurnsAssumption, UsageIsAttributed DEF AttributedAsRead
<1>4. QED BY <1>1, <1>2, <1>3, PTL DEF TurnsSpec

-----------------------------------------------------------------------------
(* What a number is: the states of the reader, as what its symbols so far say *)

Digital(w, lo, hi) == \A i \in lo..hi : w[i] \in Digits
WholePart(w, a) == a >= 1 /\ Digital(w, 1, a) /\ (w[1] = "0" => a = 1)
WithFraction(w, b) == \E a \in 1..b - 2 : WholePart(w, a) /\ w[a + 1] = "." /\ Digital(w, a + 2, b)
Mantissa(w, b) == WholePart(w, b) \/ WithFraction(w, b)

\* The first k symbols of w, an unsigned number, bring the reader to state n.
ExponentOpens(n, w, k) ==
  \/ n = 6 /\ k >= 2 /\ Mantissa(w, k - 1) /\ w[k] = "e"
  \/ n = 7 /\ k >= 3 /\ Mantissa(w, k - 2) /\ w[k - 1] = "e" /\ w[k] \in {"+", "-"}
Shape(n, w, k) ==
  \/ n = 0 /\ k = 0
  \/ n = 2 /\ k = 1 /\ w[1] = "0"
  \/ n = 3 /\ k >= 1 /\ w[1] = "1" /\ Digital(w, 1, k)
  \/ n = 4 /\ k >= 2 /\ WholePart(w, k - 1) /\ w[k] = "."
  \/ n = 5 /\ WithFraction(w, k)
  \/ ExponentOpens(n, w, k)
  \/ n = 8 /\ \E c \in 1..k : Digital(w, c, k) /\ \E o \in {6, 7} : ExponentOpens(o, w, c - 1)

Numerals == Seq(InNumbers)

\* An integer is the reader's state 2 or 3.
LEMMA WholeIs ==
  ASSUME NEW w, NEW k \in Nat, WholePart(w, k)
  PROVE  \/ Shape(2, w, k)
         \/ Shape(3, w, k)
BY DEF WholePart, Digital, Shape, Digits

\* And the mantissa 2, 3 or 5.
LEMMA MantissaIs ==
  ASSUME NEW w, NEW k \in Nat, Mantissa(w, k)
  PROVE  \E n \in {2, 3, 5} : Shape(n, w, k)
BY WholeIs DEF Mantissa, Shape

\* Each state but the first is reached by a step of the reader.
LEMMA ShapeBefore ==
  ASSUME NEW w, NEW k \in Nat, NEW m, Shape(m, w, k + 1)
  PROVE  \E n \in 0..8 : Shape(n, w, k) /\ NumberNext(n, w[k + 1]) = m
<1>1. CASE m = 2
  <2>1. Shape(0, w, k) /\ NumberNext(0, w[k + 1]) = 2
    BY <1>1 DEF Shape, ExponentOpens, NumberNext
  <2> QED BY <1>1, <2>1
<1>2. CASE m = 3
  <2>1. w[1] = "1" /\ Digital(w, 1, k + 1)
    BY <1>2 DEF Shape, ExponentOpens
  <2>2. CASE k = 0
    <3>1. Shape(0, w, k) /\ NumberNext(0, w[k + 1]) = 3
      BY <2>1, <2>2 DEF Shape, NumberNext
    <3> QED BY <1>2, <3>1
  <2>3. CASE k # 0
    <3>1. Shape(3, w, k)
      BY <2>1, <2>3 DEF Shape, Digital
    <3>2. w[k + 1] \in Digits
      BY <2>1 DEF Digital
    <3>3. NumberNext(3, w[k + 1]) = 3
      BY <3>2 DEF NumberNext, Digits
    <3> QED BY <1>2, <3>1, <3>3
  <2> QED BY <2>2, <2>3
<1>3. CASE m = 4
  <2>1. WholePart(w, k) /\ w[k + 1] = "."
    BY <1>3 DEF Shape, ExponentOpens
  <2>2. NumberNext(2, w[k + 1]) = 4 /\ NumberNext(3, w[k + 1]) = 4
    BY <2>1 DEF NumberNext, Digits
  <2>3. QED BY <1>3, <2>1, <2>2, WholeIs
<1>4. CASE m = 5
  <2>1. PICK a \in 1..k - 1 : WholePart(w, a) /\ w[a + 1] = "." /\ Digital(w, a + 2, k + 1)
    BY <1>4 DEF Shape, ExponentOpens, WithFraction
  <2>2. w[k + 1] \in Digits
    BY <2>1 DEF Digital
  <2>3. NumberNext(4, w[k + 1]) = 5 /\ NumberNext(5, w[k + 1]) = 5
    BY <2>2 DEF NumberNext, Digits
  <2>4. CASE a = k - 1
    <3>1. Shape(4, w, k)
      BY <2>1, <2>4 DEF Shape, WholePart
    <3> QED BY <1>4, <2>3, <3>1
  <2>5. CASE a # k - 1
    <3>1. a \in 1..k - 2 /\ Digital(w, a + 2, k)
      BY <2>1, <2>5 DEF Digital
    <3>2. Shape(5, w, k)
      BY <2>1, <3>1 DEF Shape, WithFraction
    <3> QED BY <1>4, <2>3, <3>2
  <2> QED BY <2>4, <2>5
<1>5. CASE m = 6
  <2>1. Mantissa(w, k) /\ w[k + 1] = "e"
    BY <1>5 DEF Shape, ExponentOpens
  <2>2. \A n \in {2, 3, 5} : NumberNext(n, w[k + 1]) = 6
    BY <2>1 DEF NumberNext, Digits
  <2>3. PICK n \in {2, 3, 5} : Shape(n, w, k)
    BY <2>1, MantissaIs
  <2> QED BY <1>5, <2>2, <2>3
<1>6. CASE m = 7
  <2>1. k >= 2 /\ Mantissa(w, k - 1) /\ w[k] = "e" /\ w[k + 1] \in {"+", "-"}
    BY <1>6 DEF Shape, ExponentOpens
  <2>2. Shape(6, w, k)
    BY <2>1 DEF Shape, ExponentOpens
  <2>3. NumberNext(6, w[k + 1]) = 7
    BY <2>1 DEF NumberNext, Digits
  <2> QED BY <1>6, <2>2, <2>3
<1>7. CASE m = 8
  <2>1. PICK c \in 1..k + 1 : /\ Digital(w, c, k + 1)
                              /\ \E o \in {6, 7} : ExponentOpens(o, w, c - 1)
    BY <1>7 DEF Shape, ExponentOpens
  <2>2. w[k + 1] \in Digits
    BY <2>1 DEF Digital
  <2>3. \A n \in {6, 7, 8} : NumberNext(n, w[k + 1]) = 8
    BY <2>2 DEF NumberNext, Digits
  <2>4. CASE c = k + 1
    <3>1. PICK o \in {6, 7} : ExponentOpens(o, w, k)
      BY <2>1, <2>4
    <3>2. Shape(o, w, k)
      BY <3>1 DEF Shape
    <3> QED BY <1>7, <2>3, <3>2
  <2>5. CASE c # k + 1
    <3>1. c \in 1..k /\ Digital(w, c, k)
      BY <2>1, <2>5 DEF Digital
    <3>2. Shape(8, w, k)
      BY <2>1, <3>1 DEF Shape
    <3> QED BY <1>7, <2>3, <3>2
  <2> QED BY <2>4, <2>5
<1>8. QED BY <1>1, <1>2, <1>3, <1>4, <1>5, <1>6, <1>7 DEF Shape, ExponentOpens

\* And each step of the reader leads to a state of the symbols it has read.
LEMMA ShapeAfter ==
  ASSUME NEW w, NEW k \in Nat, NEW n \in Nat, Shape(n, w, k), NumberNext(n, w[k + 1]) >= 0
  PROVE  Shape(NumberNext(n, w[k + 1]), w, k + 1)
<1> DEFINE x == w[k + 1]
<1>1. CASE n = 0
  <2>1. k = 0
    BY <1>1 DEF Shape, ExponentOpens
  <2>2. \/ x = "0" /\ NumberNext(n, x) = 2
        \/ x = "1" /\ NumberNext(n, x) = 3
    BY <1>1 DEF NumberNext, Digits
  <2>3. QED BY <2>1, <2>2 DEF Shape, Digital, Digits
<1>2. CASE n \in {2, 3}
  <2>1. WholePart(w, k)
    BY <1>2 DEF Shape, ExponentOpens, WholePart, Digital, Digits
  <2>2. \/ x = "." /\ NumberNext(n, x) = 4
        \/ x = "e" /\ NumberNext(n, x) = 6
        \/ n = 3 /\ x \in Digits /\ NumberNext(n, x) = 3
    BY <1>2 DEF NumberNext, Digits
  <2>3. CASE x = "." /\ NumberNext(n, x) = 4
    BY <2>1, <2>3 DEF Shape, WholePart
  <2>4. CASE x = "e" /\ NumberNext(n, x) = 6
    BY <2>1, <2>4 DEF Shape, ExponentOpens, Mantissa, WholePart
  <2>5. CASE n = 3 /\ x \in Digits /\ NumberNext(n, x) = 3
    BY <2>5 DEF Shape, ExponentOpens, Digital
  <2> QED BY <2>2, <2>3, <2>4, <2>5
<1>3. CASE n = 4
  <2>1. k >= 2 /\ WholePart(w, k - 1) /\ w[k] = "."
    BY <1>3 DEF Shape, ExponentOpens
  <2>2. x \in Digits /\ NumberNext(n, x) = 5
    BY <1>3 DEF NumberNext, Digits
  <2>3. Digital(w, k + 1, k + 1)
    BY <2>2 DEF Digital
  <2>4. k - 1 \in 1..(k + 1) - 2 /\ w[(k - 1) + 1] = "." /\ Digital(w, (k - 1) + 2, k + 1)
    BY <2>1, <2>3
  <2> QED BY <2>1, <2>2, <2>4 DEF Shape, WithFraction
<1>4. CASE n = 5
  <2>1. PICK a \in 1..k - 2 : WholePart(w, a) /\ w[a + 1] = "." /\ Digital(w, a + 2, k)
    BY <1>4 DEF Shape, ExponentOpens, WithFraction
  <2>2. \/ x = "e" /\ NumberNext(n, x) = 6
        \/ x \in Digits /\ NumberNext(n, x) = 5
    BY <1>4 DEF NumberNext, Digits
  <2>3. CASE x = "e" /\ NumberNext(n, x) = 6
    BY <2>1, <2>3 DEF Shape, ExponentOpens, Mantissa, WithFraction
  <2>4. CASE x \in Digits /\ NumberNext(n, x) = 5
    <3>1. Digital(w, a + 2, k + 1) /\ a \in 1..(k + 1) - 2
      BY <2>1, <2>4 DEF Digital
    <3> QED BY <2>1, <2>4, <3>1 DEF Shape, WithFraction
  <2> QED BY <2>2, <2>3, <2>4
<1>5. CASE n \in {6, 7}
  <2>1. ExponentOpens(n, w, k)
    BY <1>5 DEF Shape
  <2>2. \/ n = 6 /\ x \in {"+", "-"} /\ NumberNext(n, x) = 7
        \/ x \in Digits /\ NumberNext(n, x) = 8
    BY <1>5 DEF NumberNext, Digits
  <2>3. CASE n = 6 /\ x \in {"+", "-"} /\ NumberNext(n, x) = 7
    BY <2>1, <2>3 DEF Shape, ExponentOpens
  <2>4. CASE x \in Digits /\ NumberNext(n, x) = 8
    <3>1. Digital(w, k + 1, k + 1) /\ k + 1 \in 1..k + 1 /\ (k + 1) - 1 = k
      BY <2>4 DEF Digital
    <3> QED BY <1>5, <2>1, <2>4, <3>1 DEF Shape
  <2> QED BY <2>2, <2>3, <2>4
<1>6. CASE n = 8
  <2>1. PICK c \in 1..k : Digital(w, c, k) /\ \E o \in {6, 7} : ExponentOpens(o, w, c - 1)
    BY <1>6 DEF Shape, ExponentOpens
  <2>2. x \in Digits /\ NumberNext(n, x) = 8
    BY <1>6 DEF NumberNext, Digits
  <2>3. Digital(w, c, k + 1) /\ c \in 1..k + 1
    BY <2>1, <2>2 DEF Digital
  <2> QED BY <2>1, <2>2, <2>3 DEF Shape
<1>7. QED BY <1>1, <1>2, <1>3, <1>4, <1>5, <1>6 DEF Shape, ExponentOpens

\* So the state is that of the symbols alone: two that differ would have differed before.
LEMMA OneShape ==
  ASSUME NEW w, NEW k \in Nat, NEW n, NEW m, Shape(n, w, k), Shape(m, w, k)
  PROVE  n = m
<1> DEFINE Bad == {i \in Nat : \E p, q : Shape(p, w, i) /\ Shape(q, w, i) /\ p # q}
<1>1. SUFFICES ASSUME Bad # {} PROVE FALSE
  OBVIOUS
<1>2. PICK i \in Bad : \A j \in Bad : i <= j
  BY <1>1, SmallestOf
<1>3. PICK p, q : Shape(p, w, i) /\ Shape(q, w, i) /\ p # q
  BY <1>2
<1>4. CASE i = 0
  BY <1>3, <1>4 DEF Shape, ExponentOpens, WithFraction
<1>5. CASE i # 0
  <2>1. i - 1 \in Nat /\ (i - 1) + 1 = i
    BY <1>2, <1>5
  <2>2. PICK p1 \in 0..8 : Shape(p1, w, i - 1) /\ NumberNext(p1, w[i]) = p
    BY <1>3, <2>1, ShapeBefore
  <2>3. PICK q1 \in 0..8 : Shape(q1, w, i - 1) /\ NumberNext(q1, w[i]) = q
    BY <1>3, <2>1, ShapeBefore
  <2>4. p1 # q1
    BY <1>3, <2>2, <2>3
  <2>5. i - 1 \in Bad
    BY <2>1, <2>2, <2>3, <2>4
  <2> QED BY <1>2, <2>1, <2>5
<1>6. QED BY <1>4, <1>5

-----------------------------------------------------------------------------
(* IsNumber and Extends, as the reader's states say *)

\* A part of a number, symbol by symbol.
LEMMA PartIs ==
  ASSUME NEW u \in Numerals, NEW i \in 1..Len(u), NEW j \in i - 1..Len(u)
  PROVE  /\ SubSeq(u, i, j) \in Numerals
         /\ Len(SubSeq(u, i, j)) = (j - i) + 1
         /\ \A k \in 1..(j - i) + 1 : SubSeq(u, i, j)[k] = u[(i + k) - 1]
<1>1. \A k \in i..j : u[k] \in InNumbers
  BY DEF Numerals
<1>2. QED BY <1>1, SubSeqProperties DEF Numerals

\* What is left of a number without its first symbol.
LEMMA RestIs ==
  ASSUME NEW v \in Numerals, v # <<>>
  PROVE  /\ Tail(v) \in Numerals /\ Len(Tail(v)) = Len(v) - 1
         /\ \A k \in 1..Len(v) - 1 : Tail(v)[k] = v[k + 1]
BY HeadTailProperties DEF Numerals

\* The beginning of a number that IsInt takes.
LEMMA IntIs ==
  ASSUME NEW u \in Numerals, NEW i \in 1..Len(u)
  PROVE  IsInt(SubSeq(u, 1, i)) <=> WholePart(u, i)
<1> DEFINE v == SubSeq(u, 1, i)
<1>1. v \in Numerals /\ Len(v) = i /\ \A k \in 1..i : v[k] = u[k]
  BY PartIs
<1>2. DOMAIN v = 1..i /\ v # <<>>
  BY <1>1 DEF Numerals
<1> HIDE DEF v
<1>3. IsInt(v) <=> WholePart(u, i)
  BY <1>1, <1>2 DEF IsInt, WholePart, Digital
<1>4. QED BY <1>3 DEF v

\* What AreDigits says of a part.
LEMMA DigitsAre ==
  ASSUME NEW v \in Numerals
  PROVE  AreDigits(v) <=> Len(v) >= 1 /\ \A k \in 1..Len(v) : v[k] \in Digits
BY DEF AreDigits, Numerals

\* The part of a number that IsFraction takes.
LEMMA FractionIs ==
  ASSUME NEW u \in Numerals, NEW i \in 1..Len(u), NEW j \in i..Len(u)
  PROVE  IsFraction(SubSeq(u, i + 1, j)) <=>
           \/ j = i
           \/ j >= i + 2 /\ u[i + 1] = "." /\ Digital(u, i + 2, j)
<1> DEFINE v == SubSeq(u, i + 1, j)
<1>1. CASE j = i
  <2>1. v = <<>>
    BY <1>1, SubSeqEmpty
  <2> QED BY <1>1, <2>1 DEF IsFraction
<1>2. CASE j > i
  <2>1. v \in Numerals /\ Len(v) = j - i /\ \A k \in 1..j - i : v[k] = u[i + k]
    <3>1. i + 1 \in 1..Len(u) /\ j \in (i + 1) - 1..Len(u)
      BY <1>2
    <3>2. QED BY <1>2, <3>1, PartIs
  <2> HIDE DEF v
  <2>2. v # <<>> /\ v[1] = u[i + 1]
    BY <1>2, <2>1 DEF Numerals
  <2>3. Tail(v) \in Numerals /\ Len(Tail(v)) = (j - i) - 1
        /\ \A k \in 1..(j - i) - 1 : Tail(v)[k] = u[(i + 1) + k]
    <3>1. Tail(v) \in Numerals /\ Len(Tail(v)) = Len(v) - 1 /\ \A k \in 1..Len(v) - 1 : Tail(v)[k] = v[k + 1]
      BY <2>1, <2>2, RestIs
    <3>2. \A k \in 1..(j - i) - 1 : v[k + 1] = u[i + (k + 1)]
      BY <2>1
    <3>3. QED BY <2>1, <3>1, <3>2
  <2>4. AreDigits(Tail(v)) <=> j >= i + 2 /\ Digital(u, i + 2, j)
    <3>1. AreDigits(Tail(v)) <=> (j - i) - 1 >= 1 /\ \A k \in 1..(j - i) - 1 : u[(i + 1) + k] \in Digits
      BY <2>3, DigitsAre
    <3>2. (\A k \in 1..(j - i) - 1 : u[(i + 1) + k] \in Digits) <=> Digital(u, i + 2, j)
      <4>1. ASSUME \A k \in 1..(j - i) - 1 : u[(i + 1) + k] \in Digits
            PROVE  Digital(u, i + 2, j)
        <5>1. \A q \in i + 2..j : q - (i + 1) \in 1..(j - i) - 1 /\ (i + 1) + (q - (i + 1)) = q
          OBVIOUS
        <5>2. QED BY <4>1, <5>1 DEF Digital
      <4>2. ASSUME Digital(u, i + 2, j)
            PROVE  \A k \in 1..(j - i) - 1 : u[(i + 1) + k] \in Digits
        BY <4>2 DEF Digital
      <4>3. QED BY <4>1, <4>2
    <3>3. QED BY <1>2, <3>1, <3>2
  <2>5. IsFraction(v) <=> j >= i + 2 /\ u[i + 1] = "." /\ Digital(u, i + 2, j)
    BY <2>2, <2>4 DEF IsFraction
  <2>6. QED BY <1>2, <2>5 DEF v
<1>3. QED BY <1>1, <1>2

\* An exponent, if any, that begins at j + 1: its digits begin at c.
ExponentFrom(u, j, c) ==
  /\ c \in 1..Len(u) /\ Digital(u, c, Len(u)) /\ u[j + 1] = "e"
  /\ c = j + 2 \/ (c = j + 3 /\ u[j + 2] \in {"+", "-"})

\* The rest of a number that IsExponent takes.
LEMMA ExponentIs ==
  ASSUME NEW u \in Numerals, NEW j \in 1..Len(u)
  PROVE  IsExponent(SubSeq(u, j + 1, Len(u))) <=>
           \/ j = Len(u)
           \/ \E c \in 1..Len(u) : ExponentFrom(u, j, c)
<1> DEFINE v == SubSeq(u, j + 1, Len(u))
           n == Len(u)
<1>0. n \in Nat
  BY DEF Numerals
<1>1. CASE j = n
  <2>1. v = <<>>
    BY <1>0, <1>1, SubSeqEmpty
  <2> QED BY <1>1, <2>1 DEF IsExponent
<1>2. CASE j < n
  <2>1. v \in Numerals /\ Len(v) = n - j /\ \A k \in 1..n - j : v[k] = u[j + k]
    <3>1. j + 1 \in 1..n /\ n \in (j + 1) - 1..n
      BY <1>0, <1>2
    <3>2. QED BY <1>0, <1>2, <3>1, PartIs
  <2>2. v # <<>> /\ v[1] = u[j + 1]
    <3> HIDE DEF v, n
    <3>1. QED BY <1>0, <1>2, <2>1 DEF Numerals
  <2> DEFINE d == Tail(v)
  <2>3. d \in Numerals /\ Len(d) = (n - j) - 1 /\ \A k \in 1..(n - j) - 1 : d[k] = u[(j + 1) + k]
    <3> HIDE DEF v
    <3>1. Tail(v) \in Numerals /\ Len(Tail(v)) = Len(v) - 1 /\ \A k \in 1..Len(v) - 1 : Tail(v)[k] = v[k + 1]
      BY <2>1, <2>2, RestIs
    <3>2. \A k \in 1..(n - j) - 1 : v[k + 1] = u[j + (k + 1)]
      BY <1>0, <2>1
    <3>3. QED BY <1>0, <2>1, <3>1, <3>2
  <2> HIDE DEF v, n, d
  <2>4. CASE d # <<>> /\ d[1] \in {"+", "-"}
    <3>0. (n - j) - 1 >= 1 /\ d[1] = u[j + 2]
      BY <1>0, <1>2, <2>3, <2>4 DEF Numerals
    <3> DEFINE t == Tail(d)
    <3>1. t \in Numerals /\ Len(t) = (n - j) - 2 /\ \A k \in 1..(n - j) - 2 : t[k] = u[(j + 2) + k]
      <4>1. Tail(d) \in Numerals /\ Len(Tail(d)) = Len(d) - 1 /\ \A k \in 1..Len(d) - 1 : Tail(d)[k] = d[k + 1]
        BY <2>3, <2>4, RestIs
      <4>2. \A k \in 1..(n - j) - 2 : d[k + 1] = u[(j + 1) + (k + 1)]
        BY <1>0, <2>3
      <4>3. QED BY <1>0, <2>3, <4>1, <4>2
    <3> HIDE DEF t
    <3>2. AreDigits(t) <=> (n - j) - 2 >= 1 /\ Digital(u, j + 3, n)
      <4>1. AreDigits(t) <=> (n - j) - 2 >= 1 /\ \A k \in 1..(n - j) - 2 : u[(j + 2) + k] \in Digits
        BY <3>1, DigitsAre
      <4>2. ASSUME \A k \in 1..(n - j) - 2 : u[(j + 2) + k] \in Digits
            PROVE  Digital(u, j + 3, n)
        <5>1. \A q \in j + 3..n : q - (j + 2) \in 1..(n - j) - 2 /\ (j + 2) + (q - (j + 2)) = q
          BY <1>0
        <5>2. QED BY <4>2, <5>1 DEF Digital
      <4>3. ASSUME Digital(u, j + 3, n)
            PROVE  \A k \in 1..(n - j) - 2 : u[(j + 2) + k] \in Digits
        BY <1>0, <4>3 DEF Digital
      <4>4. QED BY <4>1, <4>2, <4>3
    <3>3. IsExponent(v) <=> u[j + 1] = "e" /\ (n - j) - 2 >= 1 /\ Digital(u, j + 3, n)
      BY <2>2, <2>4, <3>2 DEF IsExponent, Unsigned, d, t
    <3>4. (\E c \in 1..n : ExponentFrom(u, j, c)) <=> u[j + 1] = "e" /\ (n - j) - 2 >= 1 /\ Digital(u, j + 3, n)
      <4>1. \A c \in 1..n : c = j + 2 => ~Digital(u, c, n)
        BY <1>0, <2>4, <3>0 DEF Digital, Digits
      <4>2. \A c \in 1..n : ExponentFrom(u, j, c) => c = j + 3 /\ u[j + 1] = "e" /\ Digital(u, j + 3, n)
        BY <4>1 DEF ExponentFrom, n
      <4>3. ASSUME u[j + 1] = "e", (n - j) - 2 >= 1, Digital(u, j + 3, n)
            PROVE  j + 3 \in 1..n /\ ExponentFrom(u, j, j + 3)
        BY <1>0, <2>4, <3>0, <4>3 DEF ExponentFrom, n
      <4>4. QED BY <1>0, <4>2, <4>3
    <3>5. QED BY <1>2, <3>3, <3>4 DEF v, n
  <2>5. CASE ~(d # <<>> /\ d[1] \in {"+", "-"})
    <3>1. Unsigned(d, {"+", "-"}) = d
      BY <2>5 DEF Unsigned
    <3>2. AreDigits(d) <=> (n - j) - 1 >= 1 /\ Digital(u, j + 2, n)
      <4>1. AreDigits(d) <=> (n - j) - 1 >= 1 /\ \A k \in 1..(n - j) - 1 : u[(j + 1) + k] \in Digits
        BY <2>3, DigitsAre
      <4>2. ASSUME \A k \in 1..(n - j) - 1 : u[(j + 1) + k] \in Digits
            PROVE  Digital(u, j + 2, n)
        <5>1. \A q \in j + 2..n : q - (j + 1) \in 1..(n - j) - 1 /\ (j + 1) + (q - (j + 1)) = q
          BY <1>0
        <5>2. QED BY <4>2, <5>1 DEF Digital
      <4>3. ASSUME Digital(u, j + 2, n)
            PROVE  \A k \in 1..(n - j) - 1 : u[(j + 1) + k] \in Digits
        BY <1>0, <4>3 DEF Digital
      <4>4. QED BY <4>1, <4>2, <4>3
    <3>3. IsExponent(v) <=> u[j + 1] = "e" /\ (n - j) - 1 >= 1 /\ Digital(u, j + 2, n)
      BY <2>2, <3>1, <3>2 DEF IsExponent, d
    <3>4. (\E c \in 1..n : ExponentFrom(u, j, c)) <=> u[j + 1] = "e" /\ (n - j) - 1 >= 1 /\ Digital(u, j + 2, n)
      <4>1. \A c \in 1..n : c = j + 3 => u[j + 2] \notin {"+", "-"}
        <5>1. \A c \in 1..n : c = j + 3 => d # <<>> /\ d[1] = u[(j + 1) + 1]
          BY <1>0, <2>3 DEF Numerals
        <5>2. QED BY <2>5, <5>1
      <4>2. \A c \in 1..n : ExponentFrom(u, j, c) => c = j + 2 /\ u[j + 1] = "e" /\ Digital(u, j + 2, n)
        BY <4>1 DEF ExponentFrom, n
      <4>3. ASSUME u[j + 1] = "e", (n - j) - 1 >= 1, Digital(u, j + 2, n)
            PROVE  j + 2 \in 1..n /\ ExponentFrom(u, j, j + 2)
        BY <1>0, <4>3 DEF ExponentFrom, n
      <4>4. QED BY <1>0, <4>2, <4>3
    <3>5. QED BY <1>2, <3>3, <3>4 DEF v, n
  <2>6. QED BY <2>4, <2>5
<1>3. QED BY <1>0, <1>1, <1>2

\* A number is what leaves the reader in a state in which it may return.
LEMMA NumberIs ==
  ASSUME NEW s, NEW u \in Numerals, u = Unsigned(s, {"-"})
  PROVE  IsNumber(s) <=> \E n \in {2, 3, 5, 8} : Shape(n, u, Len(u))
<1>0. Len(u) \in Nat /\ DOMAIN u = 1..Len(u)
  BY DEF Numerals
<1>1. IsNumber(s) <=> \E i \in 1..Len(u) : \E j \in i..Len(u) :
        /\ WholePart(u, i)
        /\ j = i \/ (j >= i + 2 /\ u[i + 1] = "." /\ Digital(u, i + 2, j))
        /\ j = Len(u) \/ \E c \in 1..Len(u) : ExponentFrom(u, j, c)
  <2>1. IsNumber(s) <=> \E i \in 1..Len(u) : \E j \in i..Len(u) :
          IsInt(SubSeq(u, 1, i)) /\ IsFraction(SubSeq(u, i + 1, j)) /\ IsExponent(SubSeq(u, j + 1, Len(u)))
    BY <1>0 DEF IsNumber
  <2>2. \A i \in 1..Len(u) : \A j \in i..Len(u) :
          /\ IsInt(SubSeq(u, 1, i)) <=> WholePart(u, i)
          /\ IsFraction(SubSeq(u, i + 1, j)) <=>
               j = i \/ (j >= i + 2 /\ u[i + 1] = "." /\ Digital(u, i + 2, j))
          /\ IsExponent(SubSeq(u, j + 1, Len(u))) <=>
               j = Len(u) \/ \E c \in 1..Len(u) : ExponentFrom(u, j, c)
    <3> TAKE i \in 1..Len(u)
    <3> TAKE j \in i..Len(u)
    <3>1. j \in 1..Len(u)
      BY <1>0
    <3>2. QED BY <3>1, IntIs, FractionIs, ExponentIs
  <2>3. QED BY <2>1, <2>2
<1>2. ASSUME NEW i \in 1..Len(u), NEW j \in i..Len(u), WholePart(u, i),
             j = i \/ (j >= i + 2 /\ u[i + 1] = "." /\ Digital(u, i + 2, j))
      PROVE  j >= 1 /\ j \in Nat /\ Mantissa(u, j)
  BY <1>0, <1>2 DEF Mantissa, WithFraction
<1>3. ASSUME IsNumber(s)
      PROVE  \E n \in {2, 3, 5, 8} : Shape(n, u, Len(u))
  <2>1. PICK i \in 1..Len(u) : \E j \in i..Len(u) :
          /\ WholePart(u, i)
          /\ j = i \/ (j >= i + 2 /\ u[i + 1] = "." /\ Digital(u, i + 2, j))
          /\ j = Len(u) \/ \E c \in 1..Len(u) : ExponentFrom(u, j, c)
    BY <1>1, <1>3
  <2>2. PICK j \in i..Len(u) :
          /\ WholePart(u, i)
          /\ j = i \/ (j >= i + 2 /\ u[i + 1] = "." /\ Digital(u, i + 2, j))
          /\ j = Len(u) \/ \E c \in 1..Len(u) : ExponentFrom(u, j, c)
    BY <2>1
  <2>3. j >= 1 /\ j \in Nat /\ Mantissa(u, j)
    BY <2>2, <1>2
  <2>4. CASE j = Len(u)
    BY <2>3, <2>4, MantissaIs
  <2>5. CASE j # Len(u)
    <3>1. PICK c \in 1..Len(u) : ExponentFrom(u, j, c)
      BY <2>2, <2>5
    <3>2. CASE c = j + 2
      <4>1. ExponentOpens(6, u, c - 1)
        BY <2>3, <3>1, <3>2 DEF ExponentFrom, ExponentOpens
      <4>2. QED BY <3>1, <4>1 DEF ExponentFrom, Shape
    <3>3. CASE c = j + 3
      <4>1. u[j + 1] = "e" /\ u[j + 2] \in {"+", "-"} /\ c - 1 = j + 2
        BY <2>3, <3>1, <3>3 DEF ExponentFrom
      <4>2. ExponentOpens(7, u, j + 2)
        BY <2>3, <4>1 DEF ExponentOpens
      <4>3. ExponentOpens(7, u, c - 1)
        BY <4>1, <4>2
      <4>4. QED BY <3>1, <4>3 DEF ExponentFrom, Shape
    <3>4. QED BY <3>1, <3>2, <3>3 DEF ExponentFrom
  <2>6. QED BY <2>4, <2>5
<1>4. ASSUME NEW j \in 1..Len(u), Mantissa(u, j)
      PROVE  \E i \in 1..j : /\ WholePart(u, i)
                             /\ j = i \/ (j >= i + 2 /\ u[i + 1] = "." /\ Digital(u, i + 2, j))
  BY <1>0, <1>4 DEF Mantissa, WithFraction
<1>5. ASSUME NEW j \in 1..Len(u), Mantissa(u, j),
             j = Len(u) \/ \E c \in 1..Len(u) : ExponentFrom(u, j, c)
      PROVE  IsNumber(s)
  <2>1. PICK i \in 1..j : /\ WholePart(u, i)
                          /\ j = i \/ (j >= i + 2 /\ u[i + 1] = "." /\ Digital(u, i + 2, j))
    BY <1>4, <1>5
  <2>2. i \in 1..Len(u) /\ j \in i..Len(u)
    BY <1>0
  <2>3. QED BY <1>1, <1>5, <2>1, <2>2
<1>6. ASSUME NEW n \in {2, 3, 5, 8}, Shape(n, u, Len(u))
      PROVE  IsNumber(s)
  <2>1. CASE n \in {2, 3, 5}
    <3>1. Mantissa(u, Len(u)) /\ Len(u) \in 1..Len(u)
      <4>1. CASE n = 5
        BY <1>0, <1>6, <4>1 DEF Shape, ExponentOpens, Mantissa, WithFraction
      <4>2. CASE n \in {2, 3}
        <5>1. WholePart(u, Len(u))
          BY <1>6, <4>2 DEF Shape, ExponentOpens, WholePart, Digital, Digits
        <5>2. QED BY <1>0, <5>1 DEF Mantissa, WholePart
      <4>3. QED BY <2>1, <4>1, <4>2
    <3>2. QED BY <1>5, <3>1
  <2>2. CASE n = 8
    <3>1. PICK c \in 1..Len(u) : Digital(u, c, Len(u)) /\ \E o \in {6, 7} : ExponentOpens(o, u, c - 1)
      BY <1>6, <2>2 DEF Shape, ExponentOpens
    <3>2. CASE ExponentOpens(6, u, c - 1)
      <4>1. c - 2 \in 1..Len(u) /\ Mantissa(u, c - 2) /\ u[(c - 2) + 1] = "e" /\ c = (c - 2) + 2
        BY <1>0, <3>2 DEF ExponentOpens
      <4>2. ExponentFrom(u, c - 2, c)
        BY <3>1, <4>1 DEF ExponentFrom
      <4>3. QED BY <1>5, <4>1, <4>2
    <3>3. CASE ExponentOpens(7, u, c - 1)
      <4>1. /\ c - 3 \in 1..Len(u) /\ Mantissa(u, c - 3) /\ u[(c - 3) + 1] = "e" /\ c = (c - 3) + 3
            /\ u[(c - 3) + 2] \in {"+", "-"}
        BY <1>0, <3>3 DEF ExponentOpens
      <4>2. ExponentFrom(u, c - 3, c)
        BY <3>1, <4>1 DEF ExponentFrom
      <4>3. QED BY <1>5, <4>1, <4>2
    <3>4. QED BY <3>1, <3>2, <3>3
  <2>3. QED BY <1>6, <2>1, <2>2
<1>7. QED BY <1>3, <1>6

\* The symbols of s, after its sign, bring the reader to state n.
Body(s) == Unsigned(s, {"-"})
Reached(n, s) == n \in Nat /\ Shape(n, Body(s), Len(Body(s)))

\* The number without its sign, when a symbol is added.
LEMMA BodyIs ==
  ASSUME NEW s \in Numerals
  PROVE  /\ Body(s) \in Numerals /\ Len(Body(s)) \in Nat
         /\ \A x \in InNumbers : s # <<>> => Body(Append(s, x)) = Append(Body(s), x)
<1>1. Body(s) \in Numerals
  BY RestIs DEF Body, Unsigned
<1>2. ASSUME NEW x \in InNumbers, s # <<>>
      PROVE  Body(Append(s, x)) = Append(Body(s), x)
  <2> DEFINE t == Append(s, x)
  <2>1. t \in Numerals /\ t # <<>> /\ t[1] = s[1] /\ Len(t) = Len(s) + 1 /\ Len(s) >= 1
    BY <1>2 DEF Numerals
  <2>2. CASE s[1] = "-"
    <3>1. Body(s) = Tail(s) /\ Body(t) = Tail(t)
      BY <1>2, <2>1, <2>2 DEF Body, Unsigned
    <3>2. Tail(t) \in Numerals /\ Len(Tail(t)) = Len(s) /\ \A k \in 1..Len(s) : Tail(t)[k] = t[k + 1]
      <4> HIDE DEF t
      <4>1. Tail(t) \in Numerals /\ Len(Tail(t)) = Len(t) - 1 /\ \A k \in 1..Len(t) - 1 : Tail(t)[k] = t[k + 1]
        BY <2>1, RestIs
      <4>2. QED BY <2>1, <4>1
    <3>3. Tail(s) \in Numerals /\ Len(Tail(s)) = Len(s) - 1 /\ \A k \in 1..Len(s) - 1 : Tail(s)[k] = s[k + 1]
      BY <1>2, RestIs
    <3> DEFINE r == Tail(s)
    <3>4. \A k \in 1..Len(s) : t[k + 1] = IF k = Len(s) THEN x ELSE s[k + 1]
      BY <2>1 DEF Numerals
    <3>5. /\ Append(r, x) \in Numerals /\ Len(Append(r, x)) = Len(s)
          /\ \A k \in 1..Len(s) : Append(r, x)[k] = t[k + 1]
      <4> HIDE DEF r, t
      <4>1. r \in Numerals /\ Len(r) = Len(s) - 1 /\ \A k \in 1..Len(s) - 1 : r[k] = s[k + 1]
        BY <3>3 DEF r
      <4>2. QED BY <2>1, <3>4, <4>1 DEF Numerals
    <3> HIDE DEF t
    <3>6. Tail(t) = Append(Tail(s), x)
      <4> DEFINE a == Tail(t)
                 b == Append(Tail(s), x)
      <4>1. a \in Numerals /\ b \in Numerals /\ Len(a) = Len(b) /\ \A k \in 1..Len(a) : a[k] = b[k]
        BY <2>1, <3>2, <3>5
      <4> HIDE DEF a, b
      <4>2. a = b
        BY <4>1, SeqEqual DEF Numerals
      <4>3. QED BY <4>2 DEF a, b
    <3>7. QED BY <3>1, <3>6 DEF t
  <2>3. CASE s[1] # "-"
    BY <1>2, <2>1, <2>3 DEF Body, Unsigned
  <2>4. QED BY <2>2, <2>3
<1>3. Len(Body(s)) \in Nat
  BY <1>1 DEF Numerals
<1>4. QED BY <1>1, <1>2, <1>3

\* A state is that of the first symbols only.
LEMMA ShapeSame ==
  ASSUME NEW n, NEW k \in Nat, NEW v, NEW w, \A i \in 1..k : v[i] = w[i], Shape(n, v, k)
  PROVE  Shape(n, w, k)
<1>1. ASSUME NEW a \in Nat, a <= k, WholePart(v, a)
      PROVE  WholePart(w, a)
  BY <1>1 DEF WholePart, Digital
<1>2. ASSUME NEW b \in Nat, b <= k, WithFraction(v, b)
      PROVE  WithFraction(w, b)
  <2>1. PICK a \in 1..b - 2 : WholePart(v, a) /\ v[a + 1] = "." /\ Digital(v, a + 2, b)
    BY <1>2 DEF WithFraction
  <2>2. WholePart(w, a) /\ w[a + 1] = "." /\ Digital(w, a + 2, b)
    BY <1>1, <1>2, <2>1 DEF Digital
  <2>3. QED BY <2>2 DEF WithFraction
<1>3. ASSUME NEW b \in Nat, b <= k, Mantissa(v, b)
      PROVE  Mantissa(w, b)
  BY <1>1, <1>2, <1>3 DEF Mantissa
<1>4. ASSUME NEW c \in Nat, c <= k, NEW o, ExponentOpens(o, v, c)
      PROVE  ExponentOpens(o, w, c)
  <2>1. CASE o = 6
    <3>1. c >= 2 /\ Mantissa(v, c - 1) /\ v[c] = "e"
      BY <1>4, <2>1 DEF ExponentOpens
    <3>2. c - 1 \in Nat /\ c - 1 <= k /\ c \in 1..k
      BY <1>4, <3>1
    <3>3. QED BY <1>3, <2>1, <3>1, <3>2 DEF ExponentOpens
  <2>2. CASE o = 7
    <3>1. c >= 3 /\ Mantissa(v, c - 2) /\ v[c - 1] = "e" /\ v[c] \in {"+", "-"}
      BY <1>4, <2>2 DEF ExponentOpens
    <3>2. c - 2 \in Nat /\ c - 2 <= k /\ c - 1 \in 1..k /\ c \in 1..k
      BY <1>4, <3>1
    <3>3. QED BY <1>3, <2>2, <3>1, <3>2 DEF ExponentOpens
  <2>3. QED BY <1>4, <2>1, <2>2 DEF ExponentOpens
<1>5. CASE n \in {0, 2, 3}
  BY <1>5 DEF Shape, ExponentOpens, Digital
<1>6. CASE n = 4
  BY <1>1, <1>6 DEF Shape, ExponentOpens
<1>7. CASE n = 5
  BY <1>2, <1>7 DEF Shape, ExponentOpens
<1>8. CASE n \in {6, 7}
  BY <1>4, <1>8 DEF Shape
<1>9. CASE n = 8
  <2>1. PICK c \in 1..k : Digital(v, c, k) /\ \E o \in {6, 7} : ExponentOpens(o, v, c - 1)
    BY <1>9 DEF Shape, ExponentOpens
  <2>2. c - 1 \in Nat /\ c - 1 <= k
    BY <2>1
  <2>3. Digital(w, c, k) /\ \E o \in {6, 7} : ExponentOpens(o, w, c - 1)
    BY <1>4, <2>1, <2>2 DEF Digital
  <2>4. QED BY <1>9, <2>3 DEF Shape
<1>10. QED BY <1>5, <1>6, <1>7, <1>8, <1>9 DEF Shape, ExponentOpens

\* A number may begin so.
LEMMA NumberBegins == Reached(0, <<"-">>) /\ Reached(2, <<"0">>) /\ Reached(3, <<"1">>)
<1>1. Body(<<"-">>) = <<>> /\ Body(<<"0">>) = <<"0">> /\ Body(<<"1">>) = <<"1">>
  BY DEF Body, Unsigned
<1>2. Len(<<>>) = 0 /\ Len(<<"0">>) = 1 /\ Len(<<"1">>) = 1
  OBVIOUS
<1>3. QED BY <1>1, <1>2 DEF Reached, Shape, Digital, Digits

\* And goes on as the reader does.
LEMMA NumberGoesOn ==
  ASSUME NEW s \in Numerals, s # <<>>, NEW n, Reached(n, s), NEW x \in InNumbers, NumberNext(n, x) >= 0
  PROVE  Reached(NumberNext(n, x), Append(s, x)) /\ Append(s, x) \in Numerals
<1> DEFINE u == Body(s)
           w == Append(u, x)
           k == Len(u)
<1>1. u \in Numerals /\ k \in Nat /\ Body(Append(s, x)) = w
  BY BodyIs
<1>2. w \in Numerals /\ Len(w) = k + 1 /\ w[k + 1] = x /\ \A i \in 1..k : u[i] = w[i]
  <2> HIDE DEF u
  <2>1. QED BY <1>1 DEF Numerals
<1>3. Shape(n, u, k) /\ n \in Nat
  BY DEF Reached
<1> HIDE DEF u, w, k
<1>4. Shape(n, w, k)
  BY <1>1, <1>2, <1>3, ShapeSame
<1>5. Shape(NumberNext(n, x), w, k + 1)
  BY <1>1, <1>2, <1>3, <1>4, ShapeAfter
<1>6. NumberNext(n, x) \in Nat
  BY DEF NumberNext
<1>7. Append(s, x) \in Numerals
  BY DEF Numerals
<1>8. QED BY <1>1, <1>2, <1>5, <1>6, <1>7 DEF Reached

\* It is a number when the reader may return.
LEMMA NumberIsEnded ==
  ASSUME NEW s \in Numerals, NEW n, Reached(n, s)
  PROVE  IsNumber(s) <=> NumberEnds(n)
<1>1. Body(s) \in Numerals /\ Len(Body(s)) \in Nat
  BY BodyIs
<1>2. IsNumber(s) <=> \E m \in {2, 3, 5, 8} : Shape(m, Body(s), Len(Body(s)))
  BY <1>1, NumberIs DEF Body
<1>3. \A m : Shape(m, Body(s), Len(Body(s))) => m = n
  BY <1>1, OneShape DEF Reached
<1>4. QED BY <1>2, <1>3 DEF Reached, NumberEnds

\* No number goes on otherwise.
LEMMA NumberStepped ==
  ASSUME NEW s \in Numerals, s # <<>>, NEW n, Reached(n, s), NEW x \in InNumbers,
         NEW m, Reached(m, Append(s, x))
  PROVE  NumberNext(n, x) = m
<1> DEFINE u == Body(s)
           w == Append(u, x)
           k == Len(u)
<1>1. u \in Numerals /\ k \in Nat /\ Body(Append(s, x)) = w
  BY BodyIs
<1>2. w \in Numerals /\ Len(w) = k + 1 /\ w[k + 1] = x /\ \A i \in 1..k : u[i] = w[i]
  <2> HIDE DEF u
  <2>1. QED BY <1>1 DEF Numerals
<1>3. Shape(n, u, k)
  BY DEF Reached
<1>4. Shape(m, w, k + 1)
  BY <1>1, <1>2 DEF Reached
<1> HIDE DEF u, w, k
<1>5. Shape(n, w, k)
  BY <1>1, <1>2, <1>3, ShapeSame
<1>6. PICK p \in 0..8 : Shape(p, w, k) /\ NumberNext(p, w[k + 1]) = m
  BY <1>1, <1>4, ShapeBefore
<1>7. p = n
  BY <1>1, <1>5, <1>6, OneShape
<1>8. QED BY <1>2, <1>6, <1>7

\* What a numeral's beginning was in, if it was in a state at its end.
LEMMA NumberBefore ==
  ASSUME NEW s \in Numerals, s # <<>>, NEW x \in InNumbers, NEW m, Reached(m, Append(s, x))
  PROVE  \E p \in 0..8 : Reached(p, s)
<1> DEFINE u == Body(s)
           w == Append(u, x)
           k == Len(u)
<1>1. u \in Numerals /\ k \in Nat /\ Body(Append(s, x)) = w
  BY BodyIs
<1>2. w \in Numerals /\ Len(w) = k + 1 /\ \A i \in 1..k : w[i] = u[i]
  <2> HIDE DEF u
  <2>1. QED BY <1>1 DEF Numerals
<1>3. Shape(m, w, k + 1)
  BY <1>1, <1>2 DEF Reached
<1> HIDE DEF u, w, k
<1>4. PICK p \in 0..8 : Shape(p, w, k)
  BY <1>1, <1>3, ShapeBefore
<1>5. Shape(p, u, k)
  BY <1>1, <1>2, <1>4, ShapeSame
<1>6. QED BY <1>5 DEF Reached, u, k

\* A number has brought the reader to one of its ends.
LEMMA NumberReaches ==
  ASSUME NEW s \in Numerals, IsNumber(s)
  PROVE  \E m \in {2, 3, 5, 8} : Reached(m, s)
<1>1. Body(s) \in Numerals
  BY BodyIs
<1>2. QED BY <1>1, NumberIs DEF Reached, Body

\* What a numeral is extended with.
LEMMA Extensions ==
  ASSUME NEW s \in Numerals, NEW x
  PROVE  Extends(s, x) <=>
           /\ x \in InNumbers
           /\ IsNumber(Append(s, x)) \/ \E d \in Digits : IsNumber(Append(Append(s, x), d))
<1>1. ASSUME x \in InNumbers
      PROVE  /\ s \o <<x>> \o <<>> = Append(s, x)
             /\ \A d \in Digits : s \o <<x>> \o <<d>> = Append(Append(s, x), d)
  <2>1. s \o <<x>> = Append(s, x)
    BY <1>1 DEF Numerals
  <2> DEFINE t == Append(s, x)
  <2>2. t \in Numerals
    BY <1>1 DEF Numerals
  <2> HIDE DEF t
  <2>3. t \o <<>> = t /\ \A d \in Digits : t \o <<d>> = Append(t, d)
    BY <2>2, ConcatEmptySeq DEF Numerals
  <2>4. QED BY <2>1, <2>3 DEF t
<1>2. Extends(s, x) <=>
        /\ x \in InNumbers
        /\ IsNumber(s \o <<x>> \o <<>>) \/ \E d \in Digits : IsNumber(s \o <<x>> \o <<d>>)
  BY DEF Extends
<1>3. QED BY <1>1, <1>2

\* From here a digit makes it a number, unless it is one.
LEMMA NumberCanEnd ==
  ASSUME NEW s \in Numerals, s # <<>>, NEW n, Reached(n, s), n \in {0, 2, 3, 4, 5, 6, 7, 8}
  PROVE  IsNumber(s) \/ \E d \in Digits : IsNumber(Append(s, d))
<1>1. CASE NumberEnds(n)
  BY <1>1, NumberIsEnded
<1>2. CASE ~NumberEnds(n)
  <2>1. "0" \in Digits /\ "0" \in InNumbers
    BY DEF Digits, InNumbers
  <2>2. NumberNext(n, "0") \in {2, 5, 8}
    BY <1>2 DEF NumberNext, NumberEnds, Digits
  <2>3. NumberNext(n, "0") >= 0 /\ NumberEnds(NumberNext(n, "0"))
    BY <2>2 DEF NumberEnds
  <2>4. Reached(NumberNext(n, "0"), Append(s, "0")) /\ Append(s, "0") \in Numerals
    BY <2>1, <2>3, NumberGoesOn
  <2>5. IsNumber(Append(s, "0"))
    BY <2>3, <2>4, NumberIsEnded
  <2>6. QED BY <2>1, <2>5
<1>3. QED BY <1>1, <1>2

\* Of a numeral that goes on to a number, each beginning is in a state.
LEMMA Extended ==
  ASSUME NEW s \in Numerals, NEW x, Extends(s, x)
  PROVE  \E p \in 0..8 : Reached(p, Append(s, x))
<1> DEFINE t == Append(s, x)
<1>1. x \in InNumbers
  BY Extensions
<1>2. t \in Numerals /\ t # <<>>
  <2>1. t \in Numerals /\ Len(t) = Len(s) + 1 /\ Len(s) \in Nat
    BY <1>1 DEF Numerals
  <2> HIDE DEF t
  <2>2. QED BY <2>1
<1>3. IsNumber(t) \/ \E d \in Digits : IsNumber(Append(t, d))
  BY Extensions
<1> HIDE DEF t
<1>4. CASE IsNumber(t)
  <2>1. PICK m \in {2, 3, 5, 8} : Reached(m, t)
    BY <1>2, <1>4, NumberReaches
  <2>2. QED BY <2>1 DEF t
<1>5. ASSUME NEW d \in Digits, IsNumber(Append(t, d))
      PROVE  \E p \in 0..8 : Reached(p, t)
  <2>1. d \in InNumbers
    BY DEF InNumbers
  <2>2. Append(t, d) \in Numerals
    BY <1>2, <2>1 DEF Numerals
  <2>3. PICK m \in {2, 3, 5, 8} : Reached(m, Append(t, d))
    BY <1>5, <2>2, NumberReaches
  <2>4. QED BY <1>2, <2>1, <2>3, NumberBefore
<1>6. QED BY <1>3, <1>4, <1>5 DEF t

\* The reader reads on exactly if the number can go on.
LEMMA ExtendsIs ==
  ASSUME NEW s \in Numerals, s # <<>>, NEW n, Reached(n, s), NEW x
  PROVE  Extends(s, x) <=> NumberNext(n, x) >= 0
<1>1. ASSUME Extends(s, x)
      PROVE  NumberNext(n, x) >= 0
  <2>1. x \in InNumbers
    BY <1>1, Extensions
  <2>2. PICK p \in 0..8 : Reached(p, Append(s, x))
    BY <1>1, Extended
  <2>3. QED BY <2>1, <2>2, NumberStepped
<1>2. ASSUME NumberNext(n, x) >= 0
      PROVE  Extends(s, x)
  <2>1. x \in InNumbers /\ NumberNext(n, x) \in {0, 2, 3, 4, 5, 6, 7, 8}
    BY <1>2 DEF NumberNext, InNumbers, Digits
  <2>2. Reached(NumberNext(n, x), Append(s, x)) /\ Append(s, x) \in Numerals
    BY <1>2, <2>1, NumberGoesOn
  <2>3. Append(s, x) # <<>>
    BY DEF Numerals
  <2>4. IsNumber(Append(s, x)) \/ \E d \in Digits : IsNumber(Append(Append(s, x), d))
    BY <2>1, <2>2, <2>3, NumberCanEnd
  <2>5. QED BY <2>1, <2>4, Extensions
<1>3. QED BY <1>1, <1>2

\* A number begins with a sign or a digit.
LEMMA FirstIs ==
  ASSUME NEW x
  PROVE  Extends(<<>>, x) <=> x \in {"-", "0", "1"}
<1>1. <<>> \in Numerals /\ Append(<<>>, x) = <<x>>
  BY DEF Numerals
<1>2. ASSUME Extends(<<>>, x), x \notin {"-", "0", "1"}
      PROVE  FALSE
  <2>1. PICK p \in 0..8 : Reached(p, <<x>>)
    BY <1>1, <1>2, Extended
  <2>2. Body(<<x>>) = <<x>> /\ Len(<<x>>) = 1 /\ <<x>>[1] = x
    BY <1>2 DEF Body, Unsigned
  <2>3. Shape(p, <<x>>, 0 + 1)
    <3>1. Shape(p, Body(<<x>>), Len(Body(<<x>>)))
      BY <2>1 DEF Reached
    <3>2. Len(Body(<<x>>)) = 0 + 1
      BY <2>2
    <3>3. QED BY <2>2, <3>1, <3>2
  <2>4. PICK q \in 0..8 : Shape(q, <<x>>, 0) /\ NumberNext(q, x) = p
    <3> DEFINE w == <<x>>
    <3>1. Shape(p, w, 0 + 1) /\ w[0 + 1] = x
      BY <2>2, <2>3
    <3> HIDE DEF w
    <3>2. \E q \in 0..8 : Shape(q, w, 0) /\ NumberNext(q, w[0 + 1]) = p
      BY <3>1, ShapeBefore
    <3>3. QED BY <3>1, <3>2 DEF w
  <2>5. q = 0
    BY <2>4 DEF Shape, ExponentOpens, WithFraction
  <2>6. QED BY <1>2, <2>1, <2>4, <2>5 DEF NumberNext, Digits
<1>3. ASSUME x \in {"-", "0", "1"}
      PROVE  Extends(<<>>, x)
  <2>1. x \in InNumbers /\ <<x>> \in Numerals /\ <<x>> # <<>>
    BY <1>3 DEF InNumbers, Digits, Numerals
  <2>2. \E n \in {0, 2, 3} : Reached(n, <<x>>)
    BY <1>3, NumberBegins
  <2>3. IsNumber(<<x>>) \/ \E d \in Digits : IsNumber(Append(<<x>>, d))
    BY <2>1, <2>2, NumberCanEnd
  <2>4. QED BY <1>1, <2>1, <2>3, Extensions
<1>4. QED BY <1>2, <1>3

Heads == {"type", "payload", "message", "payload.type", "message.role"}
Brackets == {"{", "["}
Wants == {"object", "name", "colon", "value", "more", "end"}

Words == {"type", "payload", "event_msg", "response_item", "agent_message", "token_count", "turn_context",
          "message", "role", "user", "assistant", "label", "session"}
Steps == Words \cup {"items", "other"}
Places == {"object", "key_or_end", "key", "colon", "value", "item_or_end", "item", "number", "more", "end",
           "invalid"}
CallPaths == Heads \cup {"root", "?"}

Opens == Seq(Brackets)
PathSeqs == Seq(Steps)
CallRecords == [kind : {"object", "array"}, path : CallPaths]
CallSeqs == Seq(CallRecords)
SaidValues == [Paths -> Words \cup {Nowhere}]
Texts == [open : Opens, next : Wants, fresh : BOOLEAN, at : PathSeqs, number : Numerals, says : SaidValues,
          names : SUBSET PathSeqs, twice : BOOLEAN]
Scans == [calls : CallSeqs, at : Places, child : CallPaths \cup {Nowhere}, number : Int, values : SaidValues,
          seen : SUBSET Heads, ambiguous : BOOLEAN]

\* The reader's name for the names that lead to a value.
NameOf(path) ==
  IF ~Leading(path) THEN "?"
  ELSE IF path = <<>> THEN "root"
  ELSE IF Len(path) = 1 THEN path[1]
  ELSE IF path[1] = "payload" THEN "payload.type" ELSE "message.role"

IsBrace(b) == b = "{"
InObject(t) == t.open # <<>> /\ IsBrace(Last(t.open))
NameGiven(t) == t.next \in {"colon", "value"}

\* What is written is the beginning of an object.
WellFormed(t) ==
  /\ t.open = <<>> <=> t.next \in {"object", "end"}
  /\ t.next \in {"name", "colon"} => InObject(t)
  /\ t.fresh => t.next = "name" \/ (t.next = "value" /\ ~InObject(t))
  /\ t.number # <<>> => t.next = "more"
  /\ Len(t.at) = Len(t.open) - (IF InObject(t) /\ ~NameGiven(t) THEN 1 ELSE 0)
  /\ \A i \in 1..Len(t.at) : t.open[i] = "[" => t.at[i] = "items"

\* The reader's calls are the open brackets, each with the name of its place.
CallsFit(t, s) ==
  /\ Len(s.calls) = Len(t.open)
  /\ \A i \in 1..Len(t.open) :
       /\ s.calls[i].kind = IF IsBrace(t.open[i]) THEN "object" ELSE "array"
       /\ IsBrace(t.open[i]) => s.calls[i].path = NameOf(SubSeq(t.at, 1, i - 1))

PlaceOf(t) ==
  IF t.number # <<>> THEN "number"
  ELSE IF t.next = "name" THEN IF t.fresh THEN "key_or_end" ELSE "key"
  ELSE IF t.next = "value" /\ ~InObject(t) THEN IF t.fresh THEN "item_or_end" ELSE "item"
  ELSE t.next

KeepsUp(t, s) ==
  /\ s.at = PlaceOf(t)
  /\ t.number # <<>> => Reached(s.number, t.number)
  /\ NameGiven(t) /\ InObject(t) => s.child = NameOf(t.at)

SaidFits(t, s) ==
  /\ s.ambiguous = t.twice
  /\ t.names = {PathOf(c) : c \in s.seen}
  /\ ~t.twice => t.says = s.values
  /\ \A k \in 1..Len(t.at) : Leading(SubSeq(t.at, 1, k)) => SubSeq(t.at, 1, k) \in t.names
  /\ \A p \in Paths : t.says[p] # Nowhere => \A k \in 1..Len(p) : SubSeq(p, 1, k) \in t.names

Matches(t, s) ==
  /\ t \in Texts /\ s \in Scans
  /\ WellFormed(t) /\ CallsFit(t, s) /\ KeepsUp(t, s) /\ SaidFits(t, s)

\* What the operators leave and set.
LEMMA FrontIs ==
  ASSUME NEW S, NEW a \in Seq(S), a # <<>>
  PROVE  /\ Front(a) \in Seq(S) /\ Len(Front(a)) = Len(a) - 1
         /\ \A i \in 1..Len(a) - 1 : Front(a)[i] = a[i]
<1> DEFINE n == Len(a) - 1
<1>1. n \in Nat /\ \A i \in 1..n : a[i] \in S
  OBVIOUS
<1>2. Front(a) = SubSeq(a, 1, n)
  BY DEF Front
<1> HIDE DEF n
<1>3. /\ SubSeq(a, 1, n) \in Seq(S)
      /\ Len(SubSeq(a, 1, n)) = IF 1 <= n THEN n - 1 + 1 ELSE 0
      /\ \A i \in 1..n - 1 + 1 : SubSeq(a, 1, n)[i] = a[1 + i - 1]
  BY <1>1, SubSeqProperties
<1>4. Front(a) \in Seq(S) /\ Len(Front(a)) = n /\ \A i \in 1..n : Front(a)[i] = a[i]
  BY <1>1, <1>2, <1>3
<1>5. QED BY <1>4 DEF n

\* What follows a call of value changes the place only.
LEMMA ReturnedIs ==
  ASSUME NEW s \in Scans
  PROVE  /\ Returned(s) \in Scans
         /\ Returned(s).calls = s.calls /\ Returned(s).at = (IF s.calls = <<>> THEN "end" ELSE "more")
         /\ Returned(s).child = s.child /\ Returned(s).number = s.number /\ Returned(s).values = s.values
         /\ Returned(s).seen = s.seen /\ Returned(s).ambiguous = s.ambiguous
<1> DEFINE at == IF s.calls = <<>> THEN "end" ELSE "more"
<1>1. Returned(s) = [s EXCEPT !.at = at]
  BY DEF Returned
<1>0. at \in Places
  BY DEF Places
<1> HIDE DEF at
<1>2. QED BY <1>0, <1>1 DEF Scans, at

\* A call that returns is taken away.
LEMMA ReturnIs ==
  ASSUME NEW s \in Scans, s.calls # <<>>
  PROVE  /\ Return(s) \in Scans
         /\ Return(s).calls = Front(s.calls) /\ Return(s).at = (IF Front(s.calls) = <<>> THEN "end" ELSE "more")
         /\ Return(s).child = s.child /\ Return(s).number = s.number /\ Return(s).values = s.values
         /\ Return(s).seen = s.seen /\ Return(s).ambiguous = s.ambiguous
<1> DEFINE r == [s EXCEPT !.calls = Front(@)]
<1>1. s.calls \in CallSeqs
  BY DEF Scans
<1>2. Front(s.calls) \in CallSeqs
  BY <1>1, FrontIs DEF CallSeqs
<1>3. /\ r \in Scans /\ r.calls = Front(s.calls) /\ r.child = s.child /\ r.number = s.number
      /\ r.values = s.values /\ r.seen = s.seen /\ r.ambiguous = s.ambiguous
  BY <1>2 DEF Scans
<1> HIDE DEF r
<1>4. Return(s) = Returned(r)
  BY DEF Return, r
<1>5. QED BY <1>3, <1>4, ReturnedIs

\* A call that does not nest too deep is added.
LEMMA CallIs ==
  ASSUME NEW s \in Scans, NEW kind \in {"object", "array"}, NEW path \in CallPaths, NEW at \in Places,
         Len(s.calls) < MaxDepth
  PROVE  LET c == Call(s, kind, path, at) IN
         /\ c \in Scans
         /\ c.calls = Append(s.calls, [kind |-> kind, path |-> path]) /\ c.at = at
         /\ c.child = s.child /\ c.number = s.number /\ c.values = s.values
         /\ c.seen = s.seen /\ c.ambiguous = s.ambiguous
<1>1. s.calls \in CallSeqs
  BY DEF Scans
<1>2. [kind |-> kind, path |-> path] \in CallRecords
  BY DEF CallRecords
<1> DEFINE calls == Append(s.calls, [kind |-> kind, path |-> path])
<1>3. calls \in CallSeqs
  BY <1>1, <1>2 DEF CallSeqs
<1>4. Len(s.calls) \in Nat
  BY <1>1 DEF CallSeqs
<1>5. Call(s, kind, path, at) = [s EXCEPT !.calls = calls, !.at = at]
  BY <1>4, LongLineAssumption DEF Call
<1> HIDE DEF calls
<1>6. QED BY <1>3, <1>5 DEF Scans, calls

\* A line that is not JSON has its own place.
LEMMA DeadIs == Dead.at = "invalid"
BY DEF Dead, Started

\* ValueDone, of a text with a value.
LEMMA ValueDoneIs ==
  ASSUME NEW t \in Texts, InObject(t) => t.at # <<>>
  PROVE  LET d == ValueDone(t) IN
         /\ d \in Texts
         /\ d.open = t.open /\ d.next = (IF t.open = <<>> THEN "end" ELSE "more") /\ d.fresh = FALSE
         /\ d.number = <<>> /\ d.at = (IF InObject(t) THEN Front(t.at) ELSE t.at)
         /\ d.says = t.says /\ d.names = t.names /\ d.twice = t.twice
<1>1. t.at \in PathSeqs
  BY DEF Texts
<1> DEFINE at == IF InObject(t) THEN Front(t.at) ELSE t.at
<1>2. at \in PathSeqs
  BY <1>1, FrontIs DEF PathSeqs
<1>3. ValueDone(t) = [t EXCEPT !.next = IF t.open = <<>> THEN "end" ELSE "more", !.fresh = FALSE,
                               !.number = <<>>, !.at = at]
  BY Zenon DEF ValueDone, InObject, Within, IsBrace
<1>4. <<>> \in Numerals
  BY DEF Numerals
<1> HIDE DEF at
<1>5. QED BY <1>2, <1>3, <1>4 DEF Texts, Wants, at

\* Opened, of a bracket.
LEMMA OpenedIs ==
  ASSUME NEW t \in Texts, NEW x \in Brackets
  PROVE  LET o == Opened(t, x) IN
         /\ o \in Texts
         /\ o.open = Append(t.open, x) /\ o.next = (IF IsBrace(x) THEN "name" ELSE "value") /\ o.fresh = TRUE
         /\ o.number = t.number /\ o.at = (IF x = "[" THEN Append(t.at, "items") ELSE t.at)
         /\ o.says = t.says /\ o.names = t.names /\ o.twice = t.twice
<1>1. t.at \in PathSeqs /\ t.open \in Opens
  BY DEF Texts
<1> DEFINE at == IF x = "[" THEN Append(t.at, "items") ELSE t.at
           open == Append(t.open, x)
<1>2. at \in PathSeqs /\ open \in Opens
  <2>1. at \in PathSeqs
    <3>1. Append(t.at, "items") \in PathSeqs
      BY <1>1 DEF PathSeqs, Steps
    <3>2. QED BY <1>1, <3>1
  <2>2. open \in Opens
    BY <1>1 DEF Opens
  <2>3. QED BY <2>1, <2>2
<1>3. Opened(t, x) = [t EXCEPT !.open = open, !.fresh = TRUE, !.next = IF IsBrace(x) THEN "name" ELSE "value",
                               !.at = at]
  BY Zenon DEF Opened, IsBrace
<1> HIDE DEF at, open
<1>4. QED BY <1>2, <1>3 DEF Texts, Wants, at, open

\* Closed: the innermost bracket goes, and what it stood for is done.
ClosesTo(t, rest, b, at) ==
  /\ rest = Front(t.open)
  /\ b = (IF Within(t, "[") THEN Front(t.at) ELSE t.at)
  /\ at = (IF rest # <<>> /\ IsBrace(Last(rest)) THEN Front(b) ELSE b)
  /\ Within(t, "[") => t.at # <<>>
  /\ rest # <<>> /\ IsBrace(Last(rest)) => b # <<>>

\* Closed, of a text with an open bracket.
LEMMA ClosedIs ==
  ASSUME NEW t \in Texts, t.open # <<>>, NEW rest, NEW b, NEW at, ClosesTo(t, rest, b, at)
  PROVE  /\ Closed(t) \in Texts
         /\ Closed(t).open = rest /\ Closed(t).next = (IF rest = <<>> THEN "end" ELSE "more")
         /\ Closed(t).fresh = FALSE /\ Closed(t).number = <<>> /\ Closed(t).at = at
         /\ Closed(t).says = t.says /\ Closed(t).names = t.names /\ Closed(t).twice = t.twice
<1>0. /\ rest = Front(t.open)
      /\ b = (IF Within(t, "[") THEN Front(t.at) ELSE t.at)
      /\ at = (IF rest # <<>> /\ IsBrace(Last(rest)) THEN Front(b) ELSE b)
      /\ Within(t, "[") => t.at # <<>>
      /\ rest # <<>> /\ IsBrace(Last(rest)) => b # <<>>
  BY DEF ClosesTo
<1> DEFINE f == [t EXCEPT !.open = Front(@), !.at = b]
<1>1. t.at \in PathSeqs /\ t.open \in Opens
  BY DEF Texts
<1>2. b \in PathSeqs /\ Front(t.open) \in Opens
  BY <1>0, <1>1, FrontIs DEF PathSeqs, Opens
<1>3. /\ f \in Texts /\ f.open = Front(t.open) /\ f.at = b
      /\ f.says = t.says /\ f.names = t.names /\ f.twice = t.twice
  BY <1>0, <1>2 DEF Texts
<1>4. Closed(t) = ValueDone(f)
  BY <1>0 DEF Closed
<1> HIDE DEF f
<1>5. InObject(f) <=> Front(t.open) # <<>> /\ IsBrace(Last(Front(t.open)))
  BY <1>0, <1>3 DEF InObject
<1>6. InObject(f) => f.at # <<>>
  BY <1>0, <1>3, <1>5
<1>7. LET d == ValueDone(f) IN
      /\ d \in Texts
      /\ d.open = f.open /\ d.next = (IF f.open = <<>> THEN "end" ELSE "more") /\ d.fresh = FALSE
      /\ d.number = <<>> /\ d.at = (IF InObject(f) THEN Front(f.at) ELSE f.at)
      /\ d.says = f.says /\ d.names = f.names /\ d.twice = f.twice
  BY <1>3, <1>6, ValueDoneIs
<1>8. QED BY <1>0, <1>3, <1>4, <1>5, <1>7

-----------------------------------------------------------------------------
(* Paths, and what the reader calls them *)

\* Small lengths.
LEMMA Few ==
  ASSUME NEW l \in Nat
  PROVE  /\ l = 0 \/ l = 1 \/ l = 2 \/ l > 2
         /\ l > 2 => ~(l <= 1) /\ ~(l <= 2) /\ l # 0 /\ l # 1 /\ l # 2
         /\ l > 1 => l = 2 \/ l > 2
         /\ l = 0 \/ l = 1 \/ l > 1
OBVIOUS

\* The beginning of a path is a path.
LEMMA BeginningIs ==
  ASSUME NEW a \in PathSeqs, NEW k \in 0..Len(a)
  PROVE  /\ SubSeq(a, 1, k) \in PathSeqs /\ Len(SubSeq(a, 1, k)) = k
         /\ \A i \in 1..k : SubSeq(a, 1, k)[i] = a[i]
<1>1. k \in Int /\ \A i \in 1..k : a[i] \in Steps
  BY DEF PathSeqs
<1>2. /\ SubSeq(a, 1, k) \in Seq(Steps)
      /\ Len(SubSeq(a, 1, k)) = IF 1 <= k THEN k - 1 + 1 ELSE 0
      /\ \A i \in 1..k - 1 + 1 : SubSeq(a, 1, k)[i] = a[1 + i - 1]
  BY <1>1, SubSeqProperties
<1>3. QED BY <1>1, <1>2 DEF PathSeqs

\* Paths that agree everywhere are the same.
LEMMA SamePath ==
  ASSUME NEW a \in PathSeqs, NEW b \in PathSeqs, Len(a) = Len(b), \A i \in 1..Len(a) : a[i] = b[i]
  PROVE  a = b
BY SeqEqual DEF PathSeqs

\* Paths that agree so far begin the same.
LEMMA SameBeginning ==
  ASSUME NEW a \in PathSeqs, NEW b \in PathSeqs, NEW k \in Nat, k <= Len(a), k <= Len(b),
         \A i \in 1..k : a[i] = b[i]
  PROVE  SubSeq(a, 1, k) = SubSeq(b, 1, k)
<1>1. k \in 0..Len(a) /\ k \in 0..Len(b)
  BY DEF PathSeqs
<1> DEFINE v == SubSeq(a, 1, k)
           w == SubSeq(b, 1, k)
<1>2. v \in PathSeqs /\ Len(v) = k /\ \A i \in 1..k : v[i] = a[i]
  BY <1>1, BeginningIs
<1>3. w \in PathSeqs /\ Len(w) = k /\ \A i \in 1..k : w[i] = b[i]
  BY <1>1, BeginningIs
<1> HIDE DEF v, w
<1>4. v = w
  BY <1>2, <1>3, SamePath
<1>5. QED BY <1>4 DEF v, w

\* A path leads to another that it is a beginning of.
LEMMA LeadsToIs ==
  ASSUME NEW a \in PathSeqs, NEW p \in PathSeqs
  PROVE  LeadsTo(a, p) <=> Len(a) <= Len(p) /\ \A i \in 1..Len(a) : a[i] = p[i]
<1>1. Len(a) \in Nat /\ Len(p) \in Nat
  BY DEF PathSeqs
<1>2. CASE Len(a) <= Len(p)
  <2> DEFINE b == SubSeq(p, 1, Len(a))
  <2>1. b \in PathSeqs /\ Len(b) = Len(a) /\ \A i \in 1..Len(a) : b[i] = p[i]
    BY <1>1, <1>2, BeginningIs
  <2> HIDE DEF b
  <2>2. b = a <=> \A i \in 1..Len(a) : a[i] = p[i]
    BY <2>1, SamePath
  <2>3. QED BY <1>2, <2>2 DEF LeadsTo, b
<1>3. CASE ~(Len(a) <= Len(p))
  BY <1>3 DEF LeadsTo
<1>4. QED BY <1>2, <1>3

\* The paths of the discriminators.
LEMMA PathsTyped ==
  /\ Paths \subseteq PathSeqs
  /\ \A p \in PathSeqs : p \in Paths <=>
       \/ Len(p) = 1 /\ p[1] = "type"
       \/ Len(p) = 2 /\ p[1] = "payload" /\ p[2] = "type"
       \/ Len(p) = 2 /\ p[1] = "message" /\ p[2] = "role"
<1>1. <<"type">> \in PathSeqs /\ <<"payload", "type">> \in PathSeqs /\ <<"message", "role">> \in PathSeqs
  BY DEF PathSeqs, Steps, Words
<1>2. Paths \subseteq PathSeqs
  BY <1>1 DEF Paths
<1>3. ASSUME NEW p \in PathSeqs
      PROVE  p \in Paths <=> \/ Len(p) = 1 /\ p[1] = "type"
                             \/ Len(p) = 2 /\ p[1] = "payload" /\ p[2] = "type"
                             \/ Len(p) = 2 /\ p[1] = "message" /\ p[2] = "role"
  <2>1. p \in Paths => \/ Len(p) = 1 /\ p[1] = "type"
                       \/ Len(p) = 2 /\ p[1] = "payload" /\ p[2] = "type"
                       \/ Len(p) = 2 /\ p[1] = "message" /\ p[2] = "role"
    BY DEF Paths
  <2>2. ASSUME Len(p) = 1, p[1] = "type"
        PROVE  p = <<"type">>
    BY <1>1, <2>2, SamePath
  <2>3. ASSUME Len(p) = 2, p[1] = "payload", p[2] = "type"
        PROVE  p = <<"payload", "type">>
    <3>1. \A i \in 1..2 : p[i] = <<"payload", "type">>[i]
      BY <2>3
    <3>2. QED BY <1>1, <2>3, <3>1, SamePath
  <2>4. ASSUME Len(p) = 2, p[1] = "message", p[2] = "role"
        PROVE  p = <<"message", "role">>
    <3>1. \A i \in 1..2 : p[i] = <<"message", "role">>[i]
      BY <2>4
    <3>2. QED BY <1>1, <2>4, <3>1, SamePath
  <2>5. QED BY <2>1, <2>2, <2>3, <2>4 DEF Paths
<1>4. QED BY <1>2, <1>3

\* The paths that lead to a discriminator.
LEMMA LeadingIs ==
  ASSUME NEW a \in PathSeqs
  PROVE  Leading(a) <=>
           \/ Len(a) = 0
           \/ Len(a) = 1 /\ a[1] \in {"type", "payload", "message"}
           \/ Len(a) = 2 /\ a[1] = "payload" /\ a[2] = "type"
           \/ Len(a) = 2 /\ a[1] = "message" /\ a[2] = "role"
<1>1. <<"type">> \in PathSeqs /\ <<"payload", "type">> \in PathSeqs /\ <<"message", "role">> \in PathSeqs
  BY DEF PathSeqs, Steps, Words
<1>2. LeadsTo(a, <<"type">>) <=> Len(a) <= 1 /\ \A i \in 1..Len(a) : a[i] = <<"type">>[i]
  BY <1>1, LeadsToIs
<1>3. LeadsTo(a, <<"payload", "type">>) <=> Len(a) <= 2 /\ \A i \in 1..Len(a) : a[i] = <<"payload", "type">>[i]
  BY <1>1, LeadsToIs
<1>4. LeadsTo(a, <<"message", "role">>) <=> Len(a) <= 2 /\ \A i \in 1..Len(a) : a[i] = <<"message", "role">>[i]
  BY <1>1, LeadsToIs
<1>5. Leading(a) <=> LeadsTo(a, <<"type">>) \/ LeadsTo(a, <<"payload", "type">>) \/ LeadsTo(a, <<"message", "role">>)
  BY DEF Leading, Paths
<1>6. Len(a) \in Nat
  BY DEF PathSeqs
<1>7. CASE Len(a) = 0
  BY <1>2, <1>5, <1>7
<1>8. CASE Len(a) = 1
  BY <1>2, <1>3, <1>4, <1>5, <1>8
<1>9. CASE Len(a) = 2
  BY <1>2, <1>3, <1>4, <1>5, <1>9
<1>10. CASE Len(a) > 2
  <2>1. ~(Len(a) <= 1) /\ ~(Len(a) <= 2) /\ Len(a) # 0 /\ Len(a) # 1 /\ Len(a) # 2
    BY <1>6, <1>10, Few
  <2>2. QED BY <1>2, <1>3, <1>4, <1>5, <2>1, Zenon
<1>11. Len(a) = 0 \/ Len(a) = 1 \/ Len(a) = 2 \/ Len(a) > 2
  BY <1>6, Few
<1>12. QED BY <1>7, <1>8, <1>9, <1>10, <1>11, Zenon

\* The path of the object itself.
LEMMA EmptyIs ==
  ASSUME NEW a \in PathSeqs
  PROVE  a = <<>> <=> Len(a) = 0
BY DEF PathSeqs

\* The reader's name of a path, by its parts.
LEMMA NameIs ==
  ASSUME NEW a \in PathSeqs
  PROVE  /\ Len(a) = 0 => NameOf(a) = "root"
         /\ Len(a) = 1 => NameOf(a) = IF a[1] \in {"type", "payload", "message"} THEN a[1] ELSE "?"
         /\ Len(a) = 2 => NameOf(a) = IF a[1] = "payload" /\ a[2] = "type" THEN "payload.type"
                                      ELSE IF a[1] = "message" /\ a[2] = "role" THEN "message.role" ELSE "?"
         /\ Len(a) > 2 => NameOf(a) = "?"
         /\ NameOf(a) \in CallPaths
<1>1. Len(a) \in Nat
  BY DEF PathSeqs
<1>2. CASE Len(a) = 0
  <2>1. Leading(a) /\ a = <<>>
    BY <1>2, LeadingIs, EmptyIs
  <2>2. QED BY <1>2, <2>1 DEF NameOf, CallPaths
<1>3. CASE Len(a) = 1
  <2>1. Leading(a) <=> a[1] \in {"type", "payload", "message"}
    BY <1>3, LeadingIs
  <2>2. a # <<>>
    BY <1>3, EmptyIs
  <2>3. QED BY <1>3, <2>1, <2>2 DEF NameOf, CallPaths, Heads
<1>4. CASE Len(a) = 2
  <2>1. Leading(a) <=> (a[1] = "payload" /\ a[2] = "type") \/ (a[1] = "message" /\ a[2] = "role")
    BY <1>4, LeadingIs
  <2>2. a # <<>>
    BY <1>4, EmptyIs
  <2>3. Len(a) # 1 /\ Len(a) # 0 /\ ~(Len(a) > 2)
    BY <1>4
  <2>4. CASE Leading(a)
    BY <1>4, <2>1, <2>2, <2>3, <2>4 DEF NameOf, CallPaths, Heads
  <2>5. CASE ~Leading(a)
    BY <1>4, <2>1, <2>2, <2>3, <2>5 DEF NameOf, CallPaths, Heads
  <2>6. QED BY <2>4, <2>5
<1>5. CASE Len(a) > 2
  <2>1. ~Leading(a)
    BY <1>1, <1>5, LeadingIs
  <2>2. NameOf(a) = "?"
    BY <2>1 DEF NameOf
  <2>3. Len(a) # 0 /\ Len(a) # 1 /\ Len(a) # 2
    BY <1>1, <1>5, Few
  <2>4. QED BY <2>2, <2>3 DEF CallPaths
<1>6. Len(a) = 0 \/ Len(a) = 1 \/ Len(a) = 2 \/ Len(a) > 2
  BY <1>1, Few
<1>7. QED BY <1>2, <1>3, <1>4, <1>5, <1>6

\* A name within an object, as discriminatorPath gives it.
LEMMA NameWithin ==
  ASSUME NEW a \in PathSeqs, NEW x \in Steps
  PROVE  /\ Append(a, x) \in PathSeqs
         /\ NameOf(Append(a, x)) = DiscriminatorPath(NameOf(a), x)
         /\ Leading(Append(a, x)) <=> DiscriminatorPath(NameOf(a), x) # "?"
<1> DEFINE b == Append(a, x)
<1>1. Len(a) \in Nat
  BY DEF PathSeqs
<1>2. b \in PathSeqs /\ Len(b) = Len(a) + 1 /\ b[Len(a) + 1] = x /\ \A i \in 1..Len(a) : b[i] = a[i]
  BY DEF PathSeqs
<1> HIDE DEF b
<1>3. CASE Len(a) = 0
  <2>1. Len(b) = 1 /\ b[1] = x /\ NameOf(a) = "root"
    BY <1>2, <1>3, NameIs
  <2>2. QED BY <1>2, <2>1, NameIs, LeadingIs DEF DiscriminatorPath, b
<1>4. CASE Len(a) = 1
  <2>1. /\ Len(b) = 2 /\ b[2] = x /\ b[1] = a[1]
        /\ NameOf(a) = IF a[1] \in {"type", "payload", "message"} THEN a[1] ELSE "?"
    BY <1>2, <1>4, NameIs
  <2>2. QED BY <1>2, <2>1, NameIs, LeadingIs DEF DiscriminatorPath, b
<1>5. CASE Len(a) > 1
  <2>1. Len(b) > 2 /\ NameOf(a) \in {"payload.type", "message.role", "?"}
    <3>1. Len(a) = 2 \/ Len(a) > 2
      BY <1>1, <1>5, Few
    <3>2. Len(b) > 2
      BY <1>1, <1>2, <1>5
    <3>3. QED BY <3>1, <3>2, NameIs
  <2>2. QED BY <1>2, <2>1, NameIs, LeadingIs DEF DiscriminatorPath, b
<1>6. Len(a) = 0 \/ Len(a) = 1 \/ Len(a) > 1
  BY <1>1, Few
<1>7. QED BY <1>3, <1>4, <1>5, <1>6, Zenon

\* What a name stands for.
LEMMA PathOfName ==
  ASSUME NEW a \in PathSeqs
  PROVE  /\ Leading(a) /\ a # <<>> => NameOf(a) \in Heads /\ PathOf(NameOf(a)) = a
         /\ a \in Paths <=> NameOf(a) # "?" /\ PathOf(NameOf(a)) \in Paths
<1>1. Len(a) \in Nat
  BY DEF PathSeqs
<1>2. ASSUME Leading(a), a # <<>>
      PROVE  NameOf(a) \in Heads /\ PathOf(NameOf(a)) = a
  <2>1. CASE Len(a) = 1
    <3>1. a[1] \in {"type", "payload", "message"} /\ NameOf(a) = a[1]
      BY <1>2, <2>1, NameIs, LeadingIs
    <3>2. <<a[1]>> = a
      BY <2>1 DEF PathSeqs
    <3>3. QED BY <3>1, <3>2 DEF PathOf, Heads
  <2>2. CASE Len(a) = 2
    <3>1. <<a[1], a[2]>> = a
      BY <2>2 DEF PathSeqs
    <3>2. \/ a[1] = "payload" /\ a[2] = "type" /\ NameOf(a) = "payload.type"
          \/ a[1] = "message" /\ a[2] = "role" /\ NameOf(a) = "message.role"
      BY <1>2, <2>2, NameIs, LeadingIs
    <3>3. QED BY <3>1, <3>2 DEF PathOf, Heads
  <2>3. QED BY <1>1, <1>2, <2>1, <2>2, LeadingIs, EmptyIs
<1>3. a \in Paths => Leading(a) /\ a # <<>>
  BY PathsTyped, LeadingIs, EmptyIs
<1>4. ASSUME ~(Leading(a) /\ a # <<>>), NameOf(a) # "?"
      PROVE  PathOf(NameOf(a)) \notin Paths
  <2>1. NameOf(a) = "root"
    BY <1>4 DEF NameOf
  <2>2. PathOf("root") = <<"root">>
    BY DEF PathOf
  <2>3. <<"root">> \notin Paths
    BY DEF Paths
  <2>4. QED BY <2>1, <2>2, <2>3
<1>5. "?" \notin Heads
  BY DEF Heads
<1>6. QED BY <1>2, <1>3, <1>4, <1>5

\* Different names stand for different paths.
LEMMA OneName ==
  ASSUME NEW c \in Heads, NEW d \in Heads, PathOf(c) = PathOf(d)
  PROVE  c = d
<1>1. PathOf("type") = <<"type">> /\ PathOf("payload") = <<"payload">> /\ PathOf("message") = <<"message">>
      /\ PathOf("payload.type") = <<"payload", "type">> /\ PathOf("message.role") = <<"message", "role">>
  BY DEF PathOf
<1>2. QED BY <1>1 DEF Heads

-----------------------------------------------------------------------------
(* The reader takes what the grammar allows *)

Agents == {"codex", "pi", "claude"}

\* Two lengths can be compared.
LEMMA LessOrMore ==
  ASSUME NEW l \in Nat, NEW m \in Nat
  PROVE  l < m \/ l >= m
OBVIOUS

\* The last of a sequence that is not empty.
LEMMA LastOf ==
  ASSUME NEW l \in Nat, l >= 1
  PROVE  l \in 1..l
OBVIOUS

\* A string is no mark, no part of a number and no literal.
LEMMA WordsApart ==
  ASSUME NEW x \in Words
  PROVE  /\ x \notin InNumbers /\ x \notin Marks
         /\ x \notin {"null", "bad", "-", "0", "1", "{", "}", "[", "]", ":", ","}
         /\ \A n : NumberNext(n, x) = -1
<1>1. x \notin InNumbers /\ x \notin Marks /\ x \notin {"null", "bad", "-", "0", "1", "{", "}", "[", "]", ":", ","}
  BY DEF Words, InNumbers, Digits, Marks
<1>2. x \notin {"0", "1", ".", "e", "+", "-"} /\ x \notin Digits
  BY DEF Words, Digits
<1>3. QED BY <1>1, <1>2 DEF NumberNext

\* The strings of every agent are words.
LEMMA StringIs ==
  ASSUME agent \in Agents, NEW x, IsString(x)
  PROVE  x \in Words
BY DEF Agents, IsString, Strings, Words

\* What the agent can write.
LEMMA SymbolIs ==
  ASSUME agent \in Agents, NEW x \in Symbols
  PROVE  IsString(x) \/ x \in InNumbers \/ x \in Marks \/ x \in {"null", "bad"}
BY DEF Symbols, IsString

\* Marks, literals and the symbols of numbers are all different.
LEMMA MarksApart ==
  /\ \A x \in Marks : /\ x \notin InNumbers /\ x \notin Words /\ x \notin {"null", "bad", "-", "0", "1"}
                      /\ \A n : NumberNext(n, x) = -1
  /\ \A x \in {"null", "bad"} : /\ x \notin InNumbers /\ x \notin Words /\ x \notin Marks
                                /\ \A n : NumberNext(n, x) = -1
  /\ \A x \in InNumbers : x \notin Marks /\ x \notin Words /\ x \notin {"null", "bad"}
<1>1. \A x \in Marks : x \notin InNumbers /\ x \notin Words /\ x \notin {"null", "bad", "-", "0", "1"}
  BY DEF Marks, InNumbers, Digits, Words
<1>2. \A x \in {"null", "bad"} : x \notin InNumbers /\ x \notin Words /\ x \notin Marks
  BY DEF Marks, InNumbers, Digits, Words
<1>3. \A x : x \notin InNumbers => \A n : NumberNext(n, x) = -1
  BY DEF NumberNext, InNumbers, Digits
<1>4. \A x \in InNumbers : x \notin Marks /\ x \notin Words /\ x \notin {"null", "bad"}
  BY DEF Marks, InNumbers, Digits, Words
<1>5. QED BY <1>1, <1>2, <1>3, <1>4, Zenon

\* What the reader makes of a symbol where it expects a value, a name, or more.
LEMMA ValueTaken ==
  ASSUME agent \in Agents, NEW s \in Scans, NEW path \in CallPaths, NEW x \in Symbols
  PROVE  Value(s, path, x).at # "invalid" <=>
           \/ IsString(x) \/ x \in {"null", "-", "0", "1"}
           \/ x \in Brackets /\ Len(s.calls) < MaxDepth
<1>1. CASE IsString(x)
  <2> DEFINE r == IF path # "?" /\ PathOf(path) \in Paths THEN [s EXCEPT !.values[PathOf(path)] = x] ELSE s
  <2>1. x \notin {"null", "-", "0", "1", "{", "["}
    BY <1>1, StringIs, WordsApart
  <2>2. Value(s, path, x) = Returned(r)
    BY <1>1, <2>1 DEF Value
  <2>3. r.calls = s.calls /\ r = [r EXCEPT !.at = s.at]
    BY DEF Scans
  <2>4. Returned(r).at \in {"end", "more"}
    <3> HIDE DEF r
    <3>1. QED BY <2>3 DEF Returned
  <2>5. QED BY <1>1, <2>2, <2>4
<1>2. CASE ~IsString(x) /\ x \in Brackets
  <2>1. Len(s.calls) \in Nat
    BY DEF Scans, CallSeqs
  <2>2. \E kind \in {"object", "array"} : \E p \in CallPaths : \E at \in {"key_or_end", "item_or_end"} :
           Value(s, path, x) = Call(s, kind, p, at)
    <3>1. x = "{" => Value(s, path, x) = Call(s, "object", path, "key_or_end")
      BY <1>2 DEF Value
    <3>2. x = "[" => Value(s, path, x) = Call(s, "array", "?", "item_or_end")
      BY <1>2 DEF Value
    <3>3. "?" \in CallPaths
      BY DEF CallPaths
    <3>4. QED BY <1>2, <3>1, <3>2, <3>3 DEF Brackets
  <2>3. PICK kind \in {"object", "array"}, p \in CallPaths, at \in {"key_or_end", "item_or_end"} :
           Value(s, path, x) = Call(s, kind, p, at)
    BY <2>2
  <2>4. CASE Len(s.calls) < MaxDepth
    <3>1. at \in Places
      BY DEF Places
    <3>2. Call(s, kind, p, at).at = at
      BY <2>4, <3>1, CallIs
    <3>3. QED BY <1>2, <2>3, <2>4, <3>2
  <2>5. CASE ~(Len(s.calls) < MaxDepth)
    <3>1. Call(s, kind, p, at) = Dead
      <4>1. Len(s.calls) >= MaxDepth
        BY <2>1, <2>5, LongLineAssumption, LessOrMore
      <4>2. QED BY <4>1, Zenon DEF Call
    <3>2. x \notin {"null", "-", "0", "1"}
      BY <1>2 DEF Brackets
    <3>3. QED BY <1>2, <2>3, <2>5, <3>1, <3>2, DeadIs
  <2>6. QED BY <2>4, <2>5
<1>3. CASE ~IsString(x) /\ x \notin Brackets
  <2>1. CASE x = "null"
    <3>1. Value(s, path, x) = Returned(s)
      BY <1>3, <2>1 DEF Value
    <3>2. QED BY <2>1, <3>1, ReturnedIs
  <2>2. CASE x \in {"-", "0", "1"}
    <3>1. \E n \in {0, 2, 3} : Value(s, path, x) = [s EXCEPT !.at = "number", !.number = n]
      BY <1>3, <2>2 DEF Value
    <3>2. Value(s, path, x).at = "number"
      BY <3>1 DEF Scans
    <3>3. QED BY <2>2, <3>2
  <2>3. CASE x \notin {"null", "-", "0", "1"}
    <3>1. Value(s, path, x) = Dead
      BY <1>3, <2>3 DEF Value, Brackets
    <3>2. QED BY <1>3, <2>3, <3>1, DeadIs
  <2>4. QED BY <2>1, <2>2, <2>3
<1>4. QED BY <1>1, <1>2, <1>3

\* After a value: a comma, or the bracket that closes the innermost call.
LEMMA MoreTaken ==
  ASSUME NEW s \in Scans, s.calls # <<>>, NEW x
  PROVE  More(s, x).at # "invalid" <=> x = "," \/ x = (IF Last(s.calls).kind = "object" THEN "}" ELSE "]")
<1> DEFINE b == IF Last(s.calls).kind = "object" THEN "}" ELSE "]"
<1>1. CASE x = b
  <2>1. More(s, x) = Return(s)
    BY <1>1 DEF More
  <2>2. QED BY <1>1, <2>1, ReturnIs
<1>2. CASE x = ","
  <2>1. More(s, x) = [s EXCEPT !.at = IF Last(s.calls).kind = "object" THEN "key" ELSE "item"]
    BY <1>2 DEF More
  <2>2. More(s, x).at \in {"key", "item"}
    BY <2>1 DEF Scans
  <2>3. QED BY <1>2, <2>2
<1>3. CASE x # b /\ x # ","
  <2>1. More(s, x) = Dead
    BY <1>3 DEF More
  <2>2. QED BY <1>3, <2>1, DeadIs
<1>4. QED BY <1>1, <1>2, <1>3

\* A name, as the reader takes it.
LEMMA KeyIs ==
  ASSUME NEW s \in Scans, NEW x, IsString(x), NEW child \in CallPaths,
         child = DiscriminatorPath(Last(s.calls).path, x)
  PROVE  LET k == Key(s, x) IN
         /\ k \in Scans
         /\ k.calls = s.calls /\ k.at = "colon" /\ k.child = child /\ k.number = s.number /\ k.values = s.values
         /\ k.seen = (IF child = "?" THEN s.seen ELSE s.seen \cup {child})
         /\ k.ambiguous = (IF child = "?" THEN s.ambiguous ELSE s.ambiguous \/ child \in s.seen)
<1> DEFINE k == Key(s, x)
           seen == IF child = "?" THEN s.seen ELSE s.seen \cup {child}
           ambiguous == IF child = "?" THEN s.ambiguous ELSE s.ambiguous \/ child \in s.seen
<1>0. ambiguous \in BOOLEAN /\ "colon" \in Places /\ child \in CallPaths \cup {Nowhere}
  BY DEF Scans, Places
<1>00. seen \in SUBSET Heads
  <2>1. CASE child = "?"
    BY <2>1 DEF Scans
  <2>2. CASE child # "?"
    <3>1. child # "root"
      BY DEF DiscriminatorPath
    <3>2. child \in Heads
      BY <2>2, <3>1 DEF CallPaths
    <3>3. QED BY <2>2, <3>2 DEF Scans
  <2>3. QED BY <2>1, <2>2
<1>1. k = [Saw(s, child) EXCEPT !.child = child, !.at = "colon"]
  BY DEF Key
<1>2. Saw(s, child) = [s EXCEPT !.seen = seen, !.ambiguous = ambiguous]
  <2>1. CASE child = "?"
    BY <2>1 DEF Saw, Scans
  <2>2. CASE child # "?"
    BY <2>2 DEF Saw
  <2>3. QED BY <2>1, <2>2
<1>3. k = [s EXCEPT !.seen = seen, !.ambiguous = ambiguous, !.child = child, !.at = "colon"]
  BY <1>1, <1>2
<1> HIDE DEF k, seen, ambiguous
<1>4. /\ k \in Scans
      /\ k.calls = s.calls /\ k.at = "colon" /\ k.child = child /\ k.number = s.number /\ k.values = s.values
      /\ k.seen = seen /\ k.ambiguous = ambiguous
  BY <1>0, <1>00, <1>3 DEF Scans
<1>5. QED BY <1>4 DEF k, seen, ambiguous

\* The innermost bracket, and the call it stands for.
LEMMA InnermostIs ==
  ASSUME NEW t, NEW s, Matches(t, s), t.open # <<>>
  PROVE  /\ s.calls # <<>> /\ Len(s.calls) = Len(t.open) /\ Len(t.open) \in Nat /\ Len(t.open) >= 1
         /\ Last(s.calls).kind = (IF InObject(t) THEN "object" ELSE "array")
         /\ InObject(t) <=> IsBrace(Last(t.open))
         /\ Within(t, "[") <=> ~InObject(t)
         /\ Last(t.open) \in Brackets
<1>1. t.open \in Opens /\ s.calls \in CallSeqs
  BY DEF Matches, Texts, Scans
<1>2. Len(s.calls) = Len(t.open)
  BY DEF Matches, CallsFit
<1>3. Len(t.open) \in Nat /\ Len(t.open) >= 1 /\ t.open[Len(t.open)] \in Brackets
  BY <1>1 DEF Opens
<1>4. s.calls # <<>>
  BY <1>1, <1>2, <1>3 DEF CallSeqs
<1>5. s.calls[Len(t.open)].kind = IF IsBrace(t.open[Len(t.open)]) THEN "object" ELSE "array"
  <2>1. \A i \in 1..Len(t.open) : s.calls[i].kind = IF IsBrace(t.open[i]) THEN "object" ELSE "array"
    BY DEF Matches, CallsFit
  <2>2. Len(t.open) \in 1..Len(t.open)
    BY <1>3, LastOf
  <2>3. QED BY <2>1, <2>2
<1>6. Last(t.open) = t.open[Len(t.open)] /\ Last(s.calls) = s.calls[Len(t.open)]
  BY <1>2 DEF Last
<1>7. InObject(t) <=> IsBrace(Last(t.open))
  BY DEF InObject
<1>8. Within(t, "[") <=> ~InObject(t)
  BY <1>3, <1>6, Zenon DEF Within, InObject, IsBrace, Brackets
<1>9. QED BY <1>2, <1>3, <1>4, <1>5, <1>6, <1>7, <1>8

\* Where nothing is open, nothing is called.
LEMMA OutsideIs ==
  ASSUME NEW t, NEW s, Matches(t, s), t.open = <<>>
  PROVE  s.calls = <<>> /\ Len(s.calls) = 0 /\ Len(t.open) = 0 /\ t.next \in {"object", "end"} /\ ~InObject(t)
<1>1. t.open \in Opens /\ s.calls \in CallSeqs
  BY DEF Matches, Texts, Scans
<1>2. Len(s.calls) = Len(t.open)
  BY DEF Matches, CallsFit
<1>3. QED BY <1>1, <1>2 DEF Matches, WellFormed, CallSeqs, InObject, Within

\* What the grammar allows at each place.
LEMMA Wanted ==
  ASSUME agent \in Agents, NEW t, NEW s, Matches(t, s), NEW x \in Symbols
  PROVE  /\ s.at \in {"object", "key_or_end", "key", "colon", "value", "item_or_end", "item", "number", "more", "end"}
         /\ s.at = "object" => (May(t, x) <=> x = "{")
         /\ s.at = "key_or_end" => (May(t, x) <=> IsString(x) \/ x = "}")
         /\ s.at = "key" => (May(t, x) <=> IsString(x))
         /\ s.at = "colon" => (May(t, x) <=> x = ":")
         /\ s.at \in {"value", "item"} =>
              (May(t, x) <=> \/ IsString(x) \/ x \in {"null", "-", "0", "1"}
                             \/ x \in Brackets /\ Len(t.open) < MaxDepth)
         /\ s.at = "item_or_end" =>
              (May(t, x) <=> \/ IsString(x) \/ x \in {"null", "-", "0", "1", "]"}
                             \/ x \in Brackets /\ Len(t.open) < MaxDepth)
         /\ s.at = "more" => (May(t, x) <=> x = "," \/ x = IF InObject(t) THEN "}" ELSE "]")
         /\ s.at = "number" =>
              (May(t, x) <=> \/ Extends(t.number, x)
                             \/ IsNumber(t.number) /\ (x = "," \/ x = IF InObject(t) THEN "}" ELSE "]"))
         /\ s.at = "end" => ~May(t, x)
<1>1. s.at = PlaceOf(t) /\ t.next \in Wants /\ t.fresh \in BOOLEAN
  BY DEF Matches, KeepsUp, Texts
<1>2. /\ t.open = <<>> <=> t.next \in {"object", "end"}
      /\ t.next \in {"name", "colon"} => InObject(t)
      /\ t.fresh => t.next = "name" \/ (t.next = "value" /\ ~InObject(t))
      /\ t.number # <<>> => t.next = "more"
  BY DEF Matches, WellFormed
<1>3. t.open # <<>> => (Within(t, "[") <=> ~InObject(t))
  BY InnermostIs
<1>4. IsString(x) => x \notin {"{", "}", "[", "]", ":", ","} /\ x \notin {"null", "-", "0", "1"}
  BY StringIs, WordsApart
<1>5. Extends(<<>>, x) <=> x \in {"-", "0", "1"}
  BY FirstIs
<1>6. ASSUME t.number = <<>>
      PROVE  May(t, x) <=>
               \/ t.next = "name" /\ IsString(x)
               \/ t.next = "colon" /\ x = ":"
               \/ t.next = "value" /\ (IsString(x) \/ x \in {"null", "-", "0", "1"})
               \/ t.next \in {"value", "object"} /\ x = "{" /\ Len(t.open) < MaxDepth
               \/ t.next = "value" /\ x = "[" /\ Len(t.open) < MaxDepth
               \/ t.next = "more" /\ x = ","
               \/ (t.next = "more" \/ t.fresh) /\ InObject(t) /\ x = "}"
               \/ (t.next = "more" \/ t.fresh) /\ Within(t, "[") /\ x = "]"
  BY <1>5, <1>6, Zenon DEF May, InObject, Within, IsBrace
<1>7. CASE t.number # <<>>
  <2>1. t.next = "more" /\ t.open # <<>> /\ s.at = "number" /\ ~t.fresh
    BY <1>1, <1>2, <1>7 DEF PlaceOf
  <2>2. May(t, x) <=> \/ Extends(t.number, x)
                      \/ IsNumber(t.number) /\ (x = "," \/ x = IF InObject(t) THEN "}" ELSE "]")
    BY <1>3, <1>7, <2>1, Zenon DEF May, InObject, Within, IsBrace
  <2>3. QED BY <2>1, <2>2
<1>8. CASE t.number = <<>> /\ t.next = "object"
  <2>1. s.at = "object" /\ t.open = <<>> /\ Len(t.open) < MaxDepth /\ ~t.fresh
    BY <1>1, <1>2, <1>8, OutsideIs, LongLineAssumption DEF PlaceOf
  <2>2. QED BY <1>6, <1>8, <2>1
<1>9. CASE t.number = <<>> /\ t.next = "end"
  <2>1. s.at = "end" /\ ~t.fresh
    BY <1>1, <1>2, <1>9 DEF PlaceOf
  <2>2. QED BY <1>6, <1>9, <2>1
<1>10. CASE t.number = <<>> /\ t.next = "name"
  <2>1. s.at = (IF t.fresh THEN "key_or_end" ELSE "key") /\ InObject(t) /\ ~Within(t, "[")
    BY <1>1, <1>2, <1>3, <1>10 DEF PlaceOf
  <2>2. QED BY <1>6, <1>10, <2>1
<1>11. CASE t.number = <<>> /\ t.next = "colon"
  <2>1. s.at = "colon" /\ ~t.fresh
    BY <1>1, <1>2, <1>11 DEF PlaceOf
  <2>2. QED BY <1>6, <1>11, <2>1
<1>12. CASE t.number = <<>> /\ t.next = "value" /\ InObject(t)
  <2>1. s.at = "value" /\ ~t.fresh
    BY <1>1, <1>2, <1>12 DEF PlaceOf
  <2>2. QED BY <1>6, <1>12, <2>1 DEF Brackets
<1>13. CASE t.number = <<>> /\ t.next = "value" /\ ~InObject(t)
  <2>1. s.at = (IF t.fresh THEN "item_or_end" ELSE "item") /\ Within(t, "[")
    BY <1>1, <1>2, <1>3, <1>13 DEF PlaceOf
  <2>2. QED BY <1>6, <1>13, <2>1 DEF Brackets
<1>14. CASE t.number = <<>> /\ t.next = "more"
  <2>1. s.at = "more" /\ ~t.fresh /\ t.open # <<>>
    BY <1>1, <1>2, <1>14 DEF PlaceOf
  <2>2. QED BY <1>3, <1>6, <1>14, <2>1
<1>15. QED BY <1>1, <1>7, <1>8, <1>9, <1>10, <1>11, <1>12, <1>13, <1>14 DEF Wants

\* The path handed to a value.
LEMMA ChildIs ==
  ASSUME NEW t, NEW s, Matches(t, s), s.at = "value"
  PROVE  t.next = "value" /\ InObject(t) /\ t.number = <<>> /\ s.child = NameOf(t.at) /\ s.child \in CallPaths
<1>1. t.next = "value" /\ InObject(t) /\ t.number = <<>>
  BY DEF Matches, KeepsUp, PlaceOf, Texts, Wants
<1>2. s.child = NameOf(t.at) /\ t.at \in PathSeqs
  BY <1>1 DEF Matches, KeepsUp, NameGiven, Texts
<1>3. QED BY <1>1, <1>2, NameIs

\* Where a value may stand, a bracket is open.
LEMMA PlaceOpen ==
  ASSUME NEW t, NEW s, Matches(t, s), s.at \notin {"object", "end"}
  PROVE  t.open # <<>>
BY DEF Matches, KeepsUp, PlaceOf, WellFormed, Texts, Wants

\* So the reader takes exactly what the grammar allows.
LEMMA Taken ==
  ASSUME agent \in Agents, NEW t, NEW s, Matches(t, s), NEW x \in Symbols
  PROVE  May(t, x) <=> Step(s, x).at # "invalid"
<1>1. s \in Scans
  BY DEF Matches
<1>2. s.at \in {"object", "key_or_end", "key", "colon", "value", "item_or_end", "item", "number", "more", "end"}
  BY Wanted
<1>3. CASE s.at = "object"
  <2>1. Len(s.calls) < MaxDepth
    <3>1. t.open = <<>>
      BY <1>3 DEF Matches, KeepsUp, PlaceOf, WellFormed, Texts, Wants
    <3>2. QED BY <3>1, OutsideIs, LongLineAssumption
  <2>2. Step(s, x) = IF x = "{" THEN Call(s, "object", "root", "key_or_end") ELSE Dead
    BY <1>3 DEF Step
  <2>3. Call(s, "object", "root", "key_or_end").at = "key_or_end"
    <3>1. "root" \in CallPaths /\ "key_or_end" \in Places
      BY DEF CallPaths, Places
    <3>2. QED BY <1>1, <2>1, <3>1, CallIs
  <2>4. May(t, x) <=> x = "{"
    BY <1>3, Wanted
  <2>5. QED BY <2>2, <2>3, <2>4, DeadIs
<1>4. ASSUME NEW k, k = s, s.calls # <<>>
      PROVE  /\ Key(k, x).at # "invalid" <=> IsString(x)
             /\ Return(k).at # "invalid"
  <2>1. CASE IsString(x)
    <3>1. PICK child : child = DiscriminatorPath(Last(s.calls).path, x)
      OBVIOUS
    <3>2. child \in CallPaths
      <4>1. Last(s.calls).path \in CallPaths
        <5>1. s.calls \in Seq(CallRecords) /\ s.calls # <<>>
          BY <1>1, <1>4 DEF Scans, CallSeqs
        <5>2. s.calls[Len(s.calls)] \in CallRecords
          BY <5>1
        <5>3. QED BY <5>2 DEF CallRecords, Last
      <4>2. x \in Words
        BY <2>1, StringIs
      <4>3. QED BY <3>1, <4>1, <4>2 DEF DiscriminatorPath, CallPaths, Heads
    <3>3. Key(s, x).at = "colon"
      BY <1>1, <2>1, <3>1, <3>2, KeyIs
    <3>4. QED BY <1>1, <1>4, <2>1, <3>3, ReturnIs
  <2>2. CASE ~IsString(x)
    <3>1. Key(s, x) = Dead
      BY <2>2 DEF Key
    <3>2. QED BY <1>1, <1>4, <2>2, <3>1, DeadIs, ReturnIs
  <2>3. QED BY <2>1, <2>2
<1>5. CASE s.at = "key_or_end"
  <2>1. s.calls # <<>>
    BY <1>5, PlaceOpen, InnermostIs
  <2>2. Step(s, x) = IF x = "}" THEN Return(s) ELSE Key(s, x)
    BY <1>5 DEF Step
  <2>3. May(t, x) <=> IsString(x) \/ x = "}"
    BY <1>5, Wanted
  <2>4. QED BY <1>4, <2>1, <2>2, <2>3
<1>6. CASE s.at = "key"
  <2>1. s.calls # <<>>
    BY <1>6, PlaceOpen, InnermostIs
  <2>2. Step(s, x) = Key(s, x)
    BY <1>6 DEF Step
  <2>3. May(t, x) <=> IsString(x)
    BY <1>6, Wanted
  <2>4. QED BY <1>4, <2>1, <2>2, <2>3
<1>7. CASE s.at = "colon"
  <2>1. Step(s, x) = IF x = ":" THEN [s EXCEPT !.at = "value"] ELSE Dead
    BY <1>7 DEF Step
  <2>2. [s EXCEPT !.at = "value"].at = "value"
    BY <1>1 DEF Scans
  <2>3. May(t, x) <=> x = ":"
    BY <1>7, Wanted
  <2>4. QED BY <2>1, <2>2, <2>3, DeadIs
<1>8. CASE s.at = "value"
  <2> DEFINE r == [s EXCEPT !.child = Nowhere]
  <2>1. Step(s, x) = Value(r, s.child, x)
    BY <1>8 DEF Step
  <2>2. r \in Scans /\ r.calls = s.calls
    BY <1>1 DEF Scans
  <2>3. s.child \in CallPaths
    BY <1>8, ChildIs
  <2>4. Len(s.calls) = Len(t.open)
    BY DEF Matches, CallsFit
  <2> HIDE DEF r
  <2>5. Value(r, s.child, x).at # "invalid" <=>
           \/ IsString(x) \/ x \in {"null", "-", "0", "1"}
           \/ x \in Brackets /\ Len(s.calls) < MaxDepth
    BY <2>2, <2>3, ValueTaken
  <2>6. May(t, x) <=> \/ IsString(x) \/ x \in {"null", "-", "0", "1"}
                      \/ x \in Brackets /\ Len(t.open) < MaxDepth
    BY <1>8, Wanted
  <2>7. QED BY <2>1, <2>4, <2>5, <2>6
<1>9. Value(s, "?", x).at # "invalid" <=>
         \/ IsString(x) \/ x \in {"null", "-", "0", "1"}
         \/ x \in Brackets /\ Len(t.open) < MaxDepth
  <2>1. "?" \in CallPaths
    BY DEF CallPaths
  <2>2. Len(s.calls) = Len(t.open)
    BY DEF Matches, CallsFit
  <2>3. QED BY <1>1, <2>1, <2>2, ValueTaken
<1>10. CASE s.at = "item_or_end"
  <2>1. s.calls # <<>>
    BY <1>10, PlaceOpen, InnermostIs
  <2>2. Step(s, x) = IF x = "]" THEN Return(s) ELSE Value(s, "?", x)
    BY <1>10 DEF Step
  <2>3. May(t, x) <=> \/ IsString(x) \/ x \in {"null", "-", "0", "1", "]"}
                      \/ x \in Brackets /\ Len(t.open) < MaxDepth
    BY <1>10, Wanted
  <2>4. QED BY <1>4, <1>9, <2>1, <2>2, <2>3
<1>11. CASE s.at = "item"
  <2>1. Step(s, x) = Value(s, "?", x)
    BY <1>11 DEF Step
  <2>2. May(t, x) <=> \/ IsString(x) \/ x \in {"null", "-", "0", "1"}
                      \/ x \in Brackets /\ Len(t.open) < MaxDepth
    BY <1>11, Wanted
  <2>3. QED BY <1>9, <2>1, <2>2
<1>12. ASSUME NEW k, k \in Scans, k.calls = s.calls, t.open # <<>>
       PROVE  More(k, x).at # "invalid" <=> x = "," \/ x = IF InObject(t) THEN "}" ELSE "]"
  <2>1. s.calls # <<>> /\ Last(s.calls).kind = (IF InObject(t) THEN "object" ELSE "array")
    BY <1>12, InnermostIs
  <2>2. k.calls # <<>> /\ (Last(k.calls).kind = "object" <=> InObject(t))
    BY <1>12, <2>1
  <2>3. QED BY <1>12, <2>2, MoreTaken
<1>13. CASE s.at = "more"
  <2>1. Step(s, x) = More(s, x)
    BY <1>13 DEF Step
  <2>2. t.open # <<>>
    BY <1>13, PlaceOpen
  <2>3. May(t, x) <=> x = "," \/ x = IF InObject(t) THEN "}" ELSE "]"
    BY <1>13, Wanted
  <2>4. QED BY <1>1, <1>12, <2>1, <2>2, <2>3
<1>14. CASE s.at = "number"
  <2> DEFINE r == [s EXCEPT !.number = 0]
             n == NumberNext(s.number, x)
  <2>1. Step(s, x) = IF n >= 0 THEN [s EXCEPT !.number = n]
                     ELSE IF NumberEnds(s.number) THEN More(r, x) ELSE Dead
    BY <1>14 DEF Step
  <2>2. r \in Scans /\ r.calls = s.calls /\ [s EXCEPT !.number = n].at = "number"
    BY <1>1, <1>14 DEF Scans
  <2>3. t.number \in Numerals /\ t.number # <<>> /\ Reached(s.number, t.number) /\ t.open # <<>>
    <3>1. t.number # <<>>
      BY <1>14 DEF Matches, KeepsUp, PlaceOf, Texts, Wants
    <3>2. QED BY <1>14, <3>1, PlaceOpen DEF Matches, KeepsUp, Texts
  <2>4. Extends(t.number, x) <=> n >= 0
    BY <2>3, ExtendsIs
  <2>5. IsNumber(t.number) <=> NumberEnds(s.number)
    BY <2>3, NumberIsEnded
  <2>6. May(t, x) <=> \/ Extends(t.number, x)
                      \/ IsNumber(t.number) /\ (x = "," \/ x = IF InObject(t) THEN "}" ELSE "]")
    BY <1>14, Wanted
  <2> HIDE DEF r, n
  <2>7. More(r, x).at # "invalid" <=> x = "," \/ x = IF InObject(t) THEN "}" ELSE "]"
    BY <1>12, <2>2, <2>3
  <2>8. CASE n >= 0
    BY <2>1, <2>2, <2>4, <2>6, <2>8
  <2>9. CASE ~(n >= 0) /\ NumberEnds(s.number)
    BY <2>1, <2>4, <2>5, <2>6, <2>7, <2>9
  <2>10. CASE ~(n >= 0) /\ ~NumberEnds(s.number)
    BY <2>1, <2>4, <2>5, <2>6, <2>10, DeadIs
  <2>11. QED BY <2>8, <2>9, <2>10
<1>15. CASE s.at = "end"
  <2>1. Step(s, x) = Dead
    BY <1>15 DEF Step
  <2>2. ~May(t, x)
    BY <1>15, Wanted
  <2>3. QED BY <2>1, <2>2, DeadIs
<1>16. QED BY <1>2, <1>3, <1>5, <1>6, <1>7, <1>8, <1>10, <1>11, <1>13, <1>14, <1>15

-----------------------------------------------------------------------------
(* What each symbol does on both sides *)

\* No number is a number of no symbols.
LEMMA NoNumber == <<>> \in Numerals
BY DEF Numerals

\* Written, symbol by symbol.
LEMMA WrittenIs ==
  ASSUME agent \in Agents, NEW t, NEW x \in Symbols
  PROVE  /\ x = ":" => Written(t, x) = [t EXCEPT !.next = "value"]
         /\ x = "," => Written(t, x) = [t EXCEPT !.next = IF InObject(t) THEN "name" ELSE "value", !.number = <<>>]
         /\ x \in Brackets => Written(t, x) = Opened(t, x)
         /\ x \in {"}", "]"} => Written(t, x) = Closed(t)
         /\ IsString(x) /\ t.next = "name" =>
              Written(t, x) = [Named(t, x) EXCEPT !.next = "colon", !.fresh = FALSE]
         /\ IsString(x) /\ t.next = "value" =>
              Written(t, x) = ValueDone(IF t.at \in Paths THEN [t EXCEPT !.says[t.at] = x] ELSE t)
         /\ x = "null" /\ t.next = "value" => Written(t, x) = ValueDone(t)
         /\ x \in InNumbers /\ t.next = "value" /\ t.number = <<>> =>
              Written(t, x) = [ValueDone(t) EXCEPT !.number = <<x>>]
         /\ x \in InNumbers /\ t.number # <<>> /\ Extends(t.number, x) =>
              Written(t, x) = [t EXCEPT !.number = Append(@, x)]
<1> DEFINE goesOn == t.number # <<>> /\ Extends(t.number, x)
           longer == [t EXCEPT !.number = Append(@, x)]
<1>1. goesOn => x \in InNumbers
  BY DEF Extends
<1>2. x \in InNumbers => x \notin {":", ",", "{", "}", "[", "]", "null"} /\ ~IsString(x)
  BY MarksApart, StringIs, Zenon DEF Marks
<1>3. IsString(x) => ~goesOn /\ x \notin {":", ",", "{", "}", "[", "]", "null"}
  BY <1>1, StringIs, WordsApart
<1>4. x \in {":", ",", "{", "}", "[", "]", "null"} => ~goesOn /\ ~IsString(x)
  BY <1>1, <1>2, <1>3
<1>5. Written(t, x) =
        CASE goesOn -> longer
          [] x = ":" -> [t EXCEPT !.next = "value"]
          [] x = "," -> [t EXCEPT !.next = IF InObject(t) THEN "name" ELSE "value", !.number = <<>>]
          [] x \in {"{", "["} -> Opened(t, x)
          [] x \in {"}", "]"} -> Closed(t)
          [] t.next = "name" /\ IsString(x) -> [Named(t, x) EXCEPT !.next = "colon", !.fresh = FALSE]
          [] t.next = "value" /\ IsString(x) ->
               ValueDone(IF t.at \in Paths THEN [t EXCEPT !.says[t.at] = x] ELSE t)
          [] t.next = "value" /\ x = "null" -> ValueDone(t)
          [] OTHER -> [ValueDone(t) EXCEPT !.number = <<x>>]
  BY DEF Written, InObject
<1>6. goesOn <=> t.number # <<>> /\ Extends(t.number, x)
  OBVIOUS
<1> HIDE DEF goesOn, longer
<1>7. x = ":" => Written(t, x) = [t EXCEPT !.next = "value"]
  BY <1>4, <1>5
<1>8. x = "," => Written(t, x) = [t EXCEPT !.next = IF InObject(t) THEN "name" ELSE "value", !.number = <<>>]
  BY <1>4, <1>5
<1>9. x \in Brackets => Written(t, x) = Opened(t, x)
  BY <1>4, <1>5 DEF Brackets
<1>10. x \in {"}", "]"} => Written(t, x) = Closed(t)
  BY <1>4, <1>5
<1>11. IsString(x) /\ t.next = "name" =>
         Written(t, x) = [Named(t, x) EXCEPT !.next = "colon", !.fresh = FALSE]
  BY <1>3, <1>5
<1>12. IsString(x) /\ t.next = "value" =>
         Written(t, x) = ValueDone(IF t.at \in Paths THEN [t EXCEPT !.says[t.at] = x] ELSE t)
  BY <1>3, <1>5
<1>13. x = "null" /\ t.next = "value" => Written(t, x) = ValueDone(t)
  BY <1>4, <1>5
<1>14. x \in InNumbers /\ t.next = "value" /\ t.number = <<>> =>
         Written(t, x) = [ValueDone(t) EXCEPT !.number = <<x>>]
  BY <1>2, <1>5, <1>6
<1>15. x \in InNumbers /\ t.number # <<>> /\ Extends(t.number, x) =>
         Written(t, x) = [t EXCEPT !.number = Append(@, x)]
  <2>1. goesOn => Written(t, x) = longer
    BY <1>1, <1>2, <1>5
  <2>2. QED BY <1>6, <2>1 DEF longer
<1>16. QED BY <1>7, <1>8, <1>9, <1>10, <1>11, <1>12, <1>13, <1>14, <1>15, Zenon

\* What Matches says, piece by piece.
LEMMA Parts ==
  ASSUME NEW t, NEW s, Matches(t, s)
  PROVE  /\ t \in Texts /\ s \in Scans
         /\ t.at \in PathSeqs /\ t.open \in Opens /\ t.number \in Numerals /\ s.calls \in CallSeqs
         /\ Len(t.at) \in Nat /\ Len(t.open) \in Nat
         /\ Len(t.at) = Len(t.open) - (IF InObject(t) /\ ~NameGiven(t) THEN 1 ELSE 0)
         /\ Len(s.calls) = Len(t.open)
         /\ t.open = <<>> <=> t.next \in {"object", "end"}
         /\ t.open = <<>> <=> Len(t.open) = 0
         /\ InObject(t) => Len(t.open) >= 1
<1>1. t \in Texts /\ s \in Scans
  BY DEF Matches
<1>2. t.at \in PathSeqs /\ t.open \in Opens /\ t.number \in Numerals /\ s.calls \in CallSeqs
  BY <1>1 DEF Texts, Scans
<1>3. Len(t.at) \in Nat
  BY <1>2 DEF PathSeqs
<1>4. Len(t.open) \in Nat /\ (t.open = <<>> <=> Len(t.open) = 0)
  BY <1>2 DEF Opens
<1>5. Len(s.calls) = Len(t.open)
  BY DEF Matches, CallsFit
<1>6. /\ Len(t.at) = Len(t.open) - (IF InObject(t) /\ ~NameGiven(t) THEN 1 ELSE 0)
      /\ t.open = <<>> <=> t.next \in {"object", "end"}
  BY DEF Matches, WellFormed
<1>7. InObject(t) => Len(t.open) >= 1
  <2>1. InObject(t) => Len(t.open) # 0
    BY <1>4 DEF InObject, Within
  <2>2. QED BY <1>4, <2>1, Few
<1>8. QED BY <1>1, <1>2, <1>3, <1>4, <1>5, <1>6, <1>7

\* The first n names are the same.
Agree(u, t, n) == \A i \in 1..n : u.at[i] = t.at[i]

\* Calls stay as they are while the names that led to them do.
LEMMA CallsKept ==
  ASSUME NEW t, NEW s, Matches(t, s), NEW u, u.at \in PathSeqs, NEW v,
         u.open = t.open, v.calls = s.calls, Len(u.at) >= Len(t.open) - 1, Agree(u, t, Len(t.open) - 1)
  PROVE  CallsFit(u, v)
<1>1. /\ t.at \in PathSeqs /\ Len(t.open) \in Nat /\ Len(t.at) \in Nat /\ Len(t.at) >= Len(t.open) - 1
      /\ Len(s.calls) = Len(t.open)
  <2>1. /\ t.at \in PathSeqs /\ Len(t.open) \in Nat /\ Len(t.at) \in Nat
        /\ Len(t.at) = Len(t.open) - (IF InObject(t) /\ ~NameGiven(t) THEN 1 ELSE 0)
        /\ Len(s.calls) = Len(t.open)
    BY Parts
  <2>2. QED BY <2>1
<1>2. \A i \in 1..Len(t.open) :
        /\ s.calls[i].kind = IF IsBrace(t.open[i]) THEN "object" ELSE "array"
        /\ IsBrace(t.open[i]) => s.calls[i].path = NameOf(SubSeq(t.at, 1, i - 1))
  BY DEF Matches, CallsFit
<1>3. ASSUME NEW i \in 1..Len(t.open)
      PROVE  SubSeq(u.at, 1, i - 1) = SubSeq(t.at, 1, i - 1)
  <2>1. i - 1 \in Nat /\ i - 1 <= Len(t.open) - 1
    BY <1>1
  <2>2. Len(u.at) \in Nat
    BY DEF PathSeqs
  <2>3. i - 1 <= Len(u.at) /\ i - 1 <= Len(t.at)
    BY <1>1, <2>1, <2>2
  <2>4. \A j \in 1..i - 1 : u.at[j] = t.at[j]
    BY <1>1, <2>1 DEF Agree
  <2>5. QED BY <1>1, <2>1, <2>3, <2>4, SameBeginning
<1>4. QED BY <1>1, <1>2, <1>3 DEF CallsFit

\* What has been said stays as it is while names are only left, or lead nowhere.
LEMMA SaidKept ==
  ASSUME NEW t, NEW s, Matches(t, s), NEW u, u.at \in PathSeqs, NEW v,
         u.says = t.says, u.names = t.names, u.twice = t.twice,
         v.values = s.values, v.seen = s.seen, v.ambiguous = s.ambiguous,
         \A k \in 1..Len(u.at) :
           (k <= Len(t.at) /\ Agree(u, t, k)) \/ ~Leading(SubSeq(u.at, 1, k))
  PROVE  SaidFits(u, v)
<1>1. t.at \in PathSeqs /\ Len(t.at) \in Nat
  BY Parts
<1>2. ASSUME NEW k \in 1..Len(u.at), Leading(SubSeq(u.at, 1, k))
      PROVE  SubSeq(u.at, 1, k) \in u.names
  <2>1. k \in Nat /\ k <= Len(u.at) /\ k <= Len(t.at) /\ Agree(u, t, k)
    BY <1>2 DEF PathSeqs
  <2>2. SubSeq(u.at, 1, k) = SubSeq(t.at, 1, k)
    BY <1>1, <2>1, SameBeginning DEF Agree
  <2>3. k \in 1..Len(t.at)
    BY <1>1, <2>1
  <2>4. QED BY <1>2, <2>2, <2>3 DEF Matches, SaidFits
<1>3. QED BY <1>2 DEF Matches, SaidFits

\* The same brackets are open.
LEMMA InObjectSame ==
  ASSUME NEW t, NEW u, u.open = t.open
  PROVE  InObject(u) <=> InObject(t)
BY DEF InObject, Within

\* A number that goes on.
LEMMA NumberMatches ==
  ASSUME agent \in Agents, NEW t, NEW s, Matches(t, s), NEW x \in Symbols,
         t.number # <<>>, Extends(t.number, x)
  PROVE  Matches(Written(t, x), Step(s, x))
<1> DEFINE u == Written(t, x)
           v == Step(s, x)
           n == NumberNext(s.number, x)
<1>0. t \in Texts /\ s \in Scans
  BY Parts
<1>1. x \in InNumbers
  BY DEF Extends
<1>2. t.next = "more" /\ s.at = "number" /\ t.number \in Numerals /\ Reached(s.number, t.number)
  BY Parts DEF Matches, WellFormed, KeepsUp, PlaceOf
<1>3. n >= 0
  BY <1>2, ExtendsIs
<1>4. Reached(n, Append(t.number, x)) /\ Append(t.number, x) \in Numerals
  BY <1>1, <1>2, <1>3, NumberGoesOn
<1>5. Append(t.number, x) # <<>>
  BY <1>2 DEF Numerals
<1>6. u = [t EXCEPT !.number = Append(t.number, x)]
  BY <1>1, WrittenIs
<1>7. v = [s EXCEPT !.number = n]
  BY <1>2, <1>3 DEF Step
<1>8. n \in Int
  BY <1>4 DEF Reached
<1> HIDE DEF n, u, v
<1>9. /\ u \in Texts /\ u.open = t.open /\ u.next = t.next /\ u.fresh = t.fresh /\ u.at = t.at
      /\ u.number = Append(t.number, x) /\ u.says = t.says /\ u.names = t.names /\ u.twice = t.twice
  BY <1>0, <1>4, <1>6 DEF Texts
<1>10. /\ v \in Scans /\ v.calls = s.calls /\ v.at = s.at /\ v.child = s.child /\ v.number = n
       /\ v.values = s.values /\ v.seen = s.seen /\ v.ambiguous = s.ambiguous
  BY <1>0, <1>7, <1>8 DEF Scans
<1>11. InObject(u) <=> InObject(t)
  BY <1>9, InObjectSame
<1>12. WellFormed(u)
  BY <1>2, <1>9, <1>11 DEF Matches, WellFormed, NameGiven
<1>13. CallsFit(u, v)
  BY <1>9, <1>10 DEF Matches, CallsFit
<1>14. SaidFits(u, v)
  BY <1>9, <1>10 DEF Matches, SaidFits
<1>15. KeepsUp(u, v)
  BY <1>2, <1>4, <1>5, <1>9, <1>10 DEF KeepsUp, PlaceOf, NameGiven
<1>16. QED BY <1>9, <1>10, <1>12, <1>13, <1>14, <1>15 DEF Matches, u, v

\* After a name, its value.
LEMMA ColonMatches ==
  ASSUME agent \in Agents, NEW t, NEW s, Matches(t, s), NEW x \in Symbols, s.at = "colon", x = ":"
  PROVE  Matches(Written(t, x), Step(s, x))
<1> DEFINE u == Written(t, x)
           v == Step(s, x)
<1>0. t \in Texts /\ s \in Scans
  BY Parts
<1>1. t.next = "colon" /\ t.number = <<>> /\ ~t.fresh /\ InObject(t)
  BY DEF Matches, WellFormed, KeepsUp, PlaceOf, Texts, Wants
<1>2. u = [t EXCEPT !.next = "value"]
  BY WrittenIs
<1>3. v = [s EXCEPT !.at = "value"]
  BY DEF Step
<1> HIDE DEF u, v
<1>4. /\ u \in Texts /\ u.open = t.open /\ u.next = "value" /\ u.fresh = t.fresh /\ u.at = t.at
      /\ u.number = t.number /\ u.says = t.says /\ u.names = t.names /\ u.twice = t.twice
  BY <1>0, <1>2 DEF Texts, Wants
<1>5. /\ v \in Scans /\ v.calls = s.calls /\ v.at = "value" /\ v.child = s.child /\ v.number = s.number
      /\ v.values = s.values /\ v.seen = s.seen /\ v.ambiguous = s.ambiguous
  BY <1>0, <1>3 DEF Scans, Places
<1>6. InObject(u) <=> InObject(t)
  BY <1>4, InObjectSame
<1>7. WellFormed(u)
  BY <1>1, <1>4, <1>6 DEF Matches, WellFormed, NameGiven
<1>8. CallsFit(u, v)
  BY <1>4, <1>5 DEF Matches, CallsFit
<1>9. SaidFits(u, v)
  BY <1>4, <1>5 DEF Matches, SaidFits
<1>10. KeepsUp(u, v)
  BY <1>1, <1>4, <1>5, <1>6 DEF Matches, KeepsUp, PlaceOf, NameGiven
<1>11. QED BY <1>4, <1>5, <1>7, <1>8, <1>9, <1>10 DEF Matches, u, v

\* After a value, what More makes of the next symbol.
LEMMA MoreIs ==
  ASSUME agent \in Agents, NEW t, NEW s, Matches(t, s), NEW x \in Symbols, s.at \in {"more", "number"},
         x \in Marks, May(t, x)
  PROVE  \E r \in Scans :
           /\ Step(s, x) = More(r, x)
           /\ r.calls = s.calls /\ r.child = s.child /\ r.values = s.values /\ r.seen = s.seen
           /\ r.ambiguous = s.ambiguous
<1>1. s \in Scans
  BY DEF Matches
<1>2. CASE s.at = "more"
  <2>1. Step(s, x) = More(s, x)
    BY <1>2 DEF Step
  <2>2. QED BY <1>1, <2>1
<1>3. CASE s.at = "number"
  <2> DEFINE r == [s EXCEPT !.number = 0]
  <2>1. NumberNext(s.number, x) = -1
    BY MarksApart
  <2>2. t.number # <<>> /\ Reached(s.number, t.number) /\ t.number \in Numerals
    BY <1>3, Parts DEF Matches, KeepsUp, PlaceOf, Texts, Wants
  <2>3. ~Extends(t.number, x)
    BY MarksApart DEF Extends
  <2>4. IsNumber(t.number)
    BY <1>3, <2>3, Wanted
  <2>5. NumberEnds(s.number)
    BY <2>2, <2>4, NumberIsEnded
  <2>6. Step(s, x) = More(r, x)
    BY <1>3, <2>1, <2>5 DEF Step
  <2>7. /\ r \in Scans /\ r.calls = s.calls /\ r.child = s.child /\ r.values = s.values /\ r.seen = s.seen
        /\ r.ambiguous = s.ambiguous
    BY <1>1 DEF Scans
  <2>8. QED BY <2>6, <2>7
<1>4. QED BY <1>2, <1>3

\* Between values.
LEMMA CommaMatches ==
  ASSUME agent \in Agents, NEW t, NEW s, Matches(t, s), NEW x \in Symbols, s.at \in {"more", "number"},
         x = ",", May(t, x)
  PROVE  Matches(Written(t, x), Step(s, x))
<1> DEFINE u == Written(t, x)
           v == Step(s, x)
           next == IF InObject(t) THEN "name" ELSE "value"
           at == IF InObject(t) THEN "key" ELSE "item"
<1>0. t \in Texts /\ s \in Scans
  BY Parts
<1>1. t.next = "more" /\ ~t.fresh /\ t.open # <<>>
  BY DEF Matches, WellFormed, KeepsUp, PlaceOf, Texts, Wants
<1>2. u = [t EXCEPT !.next = next, !.number = <<>>]
  BY WrittenIs
<1>3. PICK r \in Scans :
        /\ v = More(r, x)
        /\ r.calls = s.calls /\ r.child = s.child /\ r.values = s.values /\ r.seen = s.seen
        /\ r.ambiguous = s.ambiguous
  BY MoreIs DEF Marks
<1>4. v = [r EXCEPT !.at = at]
  <2>1. Last(r.calls).kind = IF InObject(t) THEN "object" ELSE "array"
    BY <1>1, <1>3, InnermostIs
  <2>2. More(r, x) = [r EXCEPT !.at = IF Last(r.calls).kind = "object" THEN "key" ELSE "item"]
    BY DEF More
  <2>3. QED BY <1>3, <2>1, <2>2
<1>5. next \in Wants /\ <<>> \in Numerals /\ at \in Places
  <2>1. <<>> \in Numerals
    BY NoNumber
  <2>2. next \in Wants
    BY DEF Wants
  <2>3. at \in Places
    BY DEF Places
  <2>4. QED BY <2>1, <2>2, <2>3
<1> HIDE DEF u, v, next, at
<1>6. /\ u \in Texts /\ u.open = t.open /\ u.next = next /\ u.fresh = t.fresh /\ u.at = t.at
      /\ u.number = <<>> /\ u.says = t.says /\ u.names = t.names /\ u.twice = t.twice
  BY <1>0, <1>2, <1>5 DEF Texts
<1>7. /\ v \in Scans /\ v.calls = s.calls /\ v.at = at
      /\ v.values = s.values /\ v.seen = s.seen /\ v.ambiguous = s.ambiguous
  BY <1>3, <1>4, <1>5 DEF Scans
<1>8. InObject(u) <=> InObject(t)
  BY <1>6, InObjectSame
<1>9. WellFormed(u)
  BY <1>1, <1>6, <1>8 DEF Matches, WellFormed, NameGiven, next
<1>10. CallsFit(u, v)
  BY <1>6, <1>7 DEF Matches, CallsFit
<1>11. SaidFits(u, v)
  BY <1>6, <1>7 DEF Matches, SaidFits
<1>12. KeepsUp(u, v)
  BY <1>1, <1>6, <1>7, <1>8 DEF KeepsUp, PlaceOf, NameGiven, next, at
<1>13. QED BY <1>6, <1>7, <1>9, <1>10, <1>11, <1>12 DEF Matches, u, v

\* A sequence of length nothing is empty.
LEMMA NoneIs ==
  ASSUME NEW S, NEW a \in Seq(S)
  PROVE  a = <<>> <=> Len(a) = 0
OBVIOUS

\* A closing bracket ends the innermost call, and the value that it was.
LEMMA CloseMatches ==
  ASSUME agent \in Agents, NEW t, NEW s, Matches(t, s), NEW x \in Symbols,
         Written(t, x) = Closed(t), NEW r \in Scans, Step(s, x) = Return(r),
         r.calls = s.calls, r.values = s.values, r.seen = s.seen, r.ambiguous = s.ambiguous,
         t.open # <<>>, ~NameGiven(t) \/ ~InObject(t)
  PROVE  Matches(Written(t, x), Step(s, x))
<1> DEFINE u == Written(t, x)
           v == Step(s, x)
           n == Len(t.open)
           b == IF Within(t, "[") THEN Front(t.at) ELSE t.at
           rest == Front(t.open)
           inside == rest # <<>> /\ IsBrace(Last(rest))
           at == IF inside THEN Front(b) ELSE b
<1>1. /\ t \in Texts /\ s \in Scans /\ t.at \in PathSeqs /\ t.open \in Opens /\ s.calls \in CallSeqs
      /\ n \in Nat /\ n >= 1 /\ Len(s.calls) = n /\ s.calls # <<>>
  BY Parts, InnermostIs
<1>2. Within(t, "[") <=> ~InObject(t)
  BY InnermostIs
<1>3. Len(t.at) = IF InObject(t) THEN n - 1 ELSE n
  <2>1. Len(t.at) = n - (IF InObject(t) /\ ~NameGiven(t) THEN 1 ELSE 0)
    BY Parts
  <2> HIDE DEF n
  <2>2. QED BY <1>1, <2>1
<1>4. rest \in Opens /\ Len(rest) = n - 1 /\ \A i \in 1..n - 1 : rest[i] = t.open[i]
  BY <1>1, FrontIs DEF Opens
<1>5. Front(s.calls) \in CallSeqs /\ Len(Front(s.calls)) = n - 1 /\ \A i \in 1..n - 1 : Front(s.calls)[i] = s.calls[i]
  BY <1>1, FrontIs DEF CallSeqs
<1>6. rest = <<>> <=> n - 1 = 0
  <2> HIDE DEF rest, n
  <2>1. rest = <<>> <=> Len(rest) = 0
    BY <1>4, NoneIs DEF Opens
  <2>2. QED BY <1>4, <2>1
<1>7. Front(s.calls) = <<>> <=> n - 1 = 0
  <2> DEFINE c == Front(s.calls)
  <2> HIDE DEF c, n
  <2>1. c \in CallSeqs /\ Len(c) = n - 1
    BY <1>5 DEF c
  <2>2. c = <<>> <=> Len(c) = 0
    BY <2>1, NoneIs DEF CallSeqs
  <2>3. QED BY <2>1, <2>2 DEF c
<1>8. b \in PathSeqs /\ Len(b) = n - 1 /\ \A i \in 1..n - 1 : b[i] = t.at[i]
  <2>1. CASE InObject(t)
    <3>1. b = t.at
      BY <1>2, <2>1
    <3>2. QED BY <1>1, <1>3, <2>1, <3>1
  <2>2. CASE ~InObject(t)
    <3>1. b = Front(t.at)
      BY <1>2, <2>2
    <3>2. t.at # <<>>
      BY <1>1, <1>3, <2>2, EmptyIs
    <3>3. /\ Front(t.at) \in PathSeqs /\ Len(Front(t.at)) = Len(t.at) - 1
          /\ \A i \in 1..Len(t.at) - 1 : Front(t.at)[i] = t.at[i]
      BY <1>1, <3>2, FrontIs DEF PathSeqs
    <3>4. Len(t.at) = n
      BY <1>3, <2>2
    <3>5. QED BY <3>1, <3>3, <3>4
  <2>3. QED BY <2>1, <2>2
<1>9. inside => b # <<>>
  <2>1. inside => n - 1 # 0
    BY <1>6
  <2>2. b = <<>> <=> Len(b) = 0
    <3> HIDE DEF b
    <3>1. QED BY <1>8, EmptyIs
  <2>3. QED BY <1>8, <2>1, <2>2
<1>10. /\ at \in PathSeqs /\ Len(at) = (IF inside THEN n - 2 ELSE n - 1)
       /\ \A i \in 1..n - 2 : at[i] = t.at[i]
       /\ ~inside => \A i \in 1..n - 1 : at[i] = t.at[i]
  <2>1. CASE inside
    <3>1. /\ Front(b) \in PathSeqs /\ Len(Front(b)) = Len(b) - 1
          /\ \A i \in 1..Len(b) - 1 : Front(b)[i] = b[i]
      <4> HIDE DEF b, inside
      <4>1. QED BY <1>8, <1>9, <2>1, FrontIs DEF PathSeqs
    <3> HIDE DEF b, inside, n, rest
    <3>2. at = Front(b)
      BY <2>1
    <3> HIDE DEF at
    <3>3. \A i \in 1..n - 2 : at[i] = t.at[i]
      <4>1. \A i \in 1..n - 2 : i \in 1..Len(b) - 1 /\ i \in 1..n - 1
        BY <1>1, <1>8
      <4>2. QED BY <1>8, <3>1, <3>2, <4>1
    <3>4. Len(at) = n - 2 /\ at \in PathSeqs
      BY <1>1, <1>8, <3>1, <3>2
    <3>5. QED BY <2>1, <3>3, <3>4
  <2>2. CASE ~inside
    <3> HIDE DEF b, inside, n, rest
    <3>1. at = b
      BY <2>2
    <3> HIDE DEF at
    <3>2. QED BY <1>1, <1>8, <2>2, <3>1
  <2>3. QED BY <2>1, <2>2
<1>11. Within(t, "[") => t.at # <<>>
  <2>1. Within(t, "[") => Len(t.at) = n
    BY <1>2, <1>3
  <2>2. QED BY <1>1, <2>1, EmptyIs
<1>12. u = Closed(t)
  OBVIOUS
<1>13. /\ u \in Texts /\ u.open = rest /\ u.next = (IF rest = <<>> THEN "end" ELSE "more") /\ u.fresh = FALSE
       /\ u.number = <<>> /\ u.at = at /\ u.says = t.says /\ u.names = t.names /\ u.twice = t.twice
  <2>1. rest # <<>> /\ IsBrace(Last(rest)) => b # <<>>
    BY <1>9
  <2>2. t.open # <<>>
    OBVIOUS
  <2> HIDE DEF u, v, n
  <2>3. b = IF Within(t, "[") THEN Front(t.at) ELSE t.at
    OBVIOUS
  <2>4. at = IF rest # <<>> /\ IsBrace(Last(rest)) THEN Front(b) ELSE b
    OBVIOUS
  <2>5. rest = Front(t.open)
    OBVIOUS
  <2> HIDE DEF b, at, inside, rest
  <2>6. ClosesTo(t, rest, b, at)
    BY <1>11, <2>1, <2>3, <2>4, <2>5 DEF ClosesTo
  <2>7. t \in Texts
    BY <1>1
  <2>8. /\ Closed(t) \in Texts
        /\ Closed(t).open = rest /\ Closed(t).next = (IF rest = <<>> THEN "end" ELSE "more")
        /\ Closed(t).fresh = FALSE /\ Closed(t).number = <<>> /\ Closed(t).at = at
        /\ Closed(t).says = t.says /\ Closed(t).names = t.names /\ Closed(t).twice = t.twice
    BY <2>2, <2>6, <2>7, ClosedIs
  <2>9. QED BY <1>12, <2>8
<1>14. /\ v \in Scans /\ v.calls = Front(s.calls) /\ v.at = (IF Front(s.calls) = <<>> THEN "end" ELSE "more")
       /\ v.values = s.values /\ v.seen = s.seen /\ v.ambiguous = s.ambiguous
  BY <1>1, ReturnIs
<1>15. \A i \in 1..n :
         /\ s.calls[i].kind = IF IsBrace(t.open[i]) THEN "object" ELSE "array"
         /\ IsBrace(t.open[i]) => s.calls[i].path = NameOf(SubSeq(t.at, 1, i - 1))
  BY DEF Matches, CallsFit
<1>16. \A i \in 1..Len(t.at) : t.open[i] = "[" => t.at[i] = "items"
  BY DEF Matches, WellFormed
<1>17. InObject(u) <=> inside
  BY <1>13 DEF InObject
<1> HIDE DEF u, v, n, b, rest, inside, at
<1>18. CallsFit(u, v)
  <2>1. Len(u.open) = n - 1 /\ Len(v.calls) = n - 1
    BY <1>4, <1>5, <1>13, <1>14
  <2>2. ASSUME NEW i \in 1..n - 1
        PROVE  /\ v.calls[i].kind = IF IsBrace(u.open[i]) THEN "object" ELSE "array"
               /\ IsBrace(u.open[i]) => v.calls[i].path = NameOf(SubSeq(u.at, 1, i - 1))
    <3>1. i \in 1..n /\ v.calls[i] = s.calls[i] /\ u.open[i] = t.open[i]
      BY <1>1, <1>4, <1>5, <1>13, <1>14
    <3>2. SubSeq(u.at, 1, i - 1) = SubSeq(t.at, 1, i - 1)
      <4>1. i - 1 \in Nat /\ i - 1 <= n - 2
        BY <1>1
      <4>2. i - 1 <= Len(at) /\ i - 1 <= Len(t.at)
        BY <1>1, <1>3, <1>10, <4>1
      <4>3. \A j \in 1..i - 1 : at[j] = t.at[j]
        BY <1>1, <1>10, <4>1
      <4>4. QED BY <1>1, <1>10, <1>13, <4>1, <4>2, <4>3, SameBeginning
    <3>3. QED BY <1>15, <3>1, <3>2
  <2>3. QED BY <2>1, <2>2 DEF CallsFit
<1>19. SaidFits(u, v)
  <2>1. \A k \in 1..Len(at) : k <= Len(t.at) /\ \A i \in 1..k : at[i] = t.at[i]
    <3>1. CASE inside
      <4>1. Len(at) = n - 2
        BY <1>10, <3>1
      <4>2. QED BY <1>1, <1>3, <1>10, <4>1
    <3>2. CASE ~inside
      <4>1. Len(at) = n - 1
        BY <1>10, <3>2
      <4>2. QED BY <1>1, <1>3, <1>10, <3>2, <4>1
    <3>3. QED BY <3>1, <3>2
  <2>2. \A k \in 1..Len(u.at) : k <= Len(t.at) /\ Agree(u, t, k)
    BY <1>13, <2>1 DEF Agree
  <2>3. QED BY <1>10, <1>13, <1>14, <2>2, SaidKept
<1>20. KeepsUp(u, v)
  BY <1>6, <1>7, <1>13, <1>14 DEF KeepsUp, PlaceOf, NameGiven
<1>21. WellFormed(u)
  <2>1. u.open = <<>> <=> u.next \in {"object", "end"}
    BY <1>13
  <2>2. ~NameGiven(u) /\ u.next \notin {"name", "colon", "value"} /\ ~u.fresh /\ u.number = <<>>
    BY <1>13 DEF NameGiven
  <2>3. Len(u.at) = Len(u.open) - (IF InObject(u) /\ ~NameGiven(u) THEN 1 ELSE 0)
    <3>1. Len(u.at) = (IF inside THEN n - 2 ELSE n - 1) /\ Len(u.open) = n - 1
      BY <1>4, <1>10, <1>13
    <3>2. QED BY <1>1, <1>17, <2>2, <3>1
  <2>4. ASSUME NEW i \in 1..Len(u.at), u.open[i] = "["
        PROVE  u.at[i] = "items"
    <3>1. i \in 1..Len(t.at) /\ i \in 1..n - 1 /\ u.at[i] = t.at[i]
      <4>1. CASE inside
        <5>1. Len(u.at) = n - 2
          BY <1>10, <1>13, <4>1
        <5>2. QED BY <1>1, <1>3, <1>10, <1>13, <5>1
      <4>2. CASE ~inside
        <5>1. Len(u.at) = n - 1
          BY <1>10, <1>13, <4>2
        <5>2. QED BY <1>1, <1>3, <1>10, <1>13, <4>2, <5>1
      <4>3. QED BY <4>1, <4>2
    <3>2. t.open[i] = "["
      BY <1>4, <1>13, <2>4, <3>1
    <3>3. QED BY <1>16, <3>1, <3>2
  <2>5. QED BY <2>1, <2>2, <2>3, <2>4 DEF WellFormed
<1>22. QED BY <1>13, <1>14, <1>18, <1>19, <1>20, <1>21 DEF Matches, u, v

\* The names of an array's items lead nowhere.
LEMMA ItemsNameless ==
  ASSUME NEW a \in PathSeqs, NEW i \in 1..Len(a), a[i] = "items"
  PROVE  ~Leading(a)
<1>1. Len(a) \in Nat /\ i \in Nat /\ i >= 1 /\ i <= Len(a)
  BY DEF PathSeqs
<1>2. CASE Len(a) = 1
  <2>1. i = 1
    BY <1>1, <1>2
  <2>2. QED BY <1>2, <2>1, LeadingIs
<1>3. CASE Len(a) = 2
  <2>1. i = 1 \/ i = 2
    BY <1>1, <1>3
  <2>2. QED BY <1>3, <2>1, LeadingIs
<1>4. Len(a) # 0
  BY <1>1
<1>5. QED BY <1>2, <1>3, <1>4, LeadingIs

\* An opening bracket starts a call.
LEMMA OpenMatches ==
  ASSUME agent \in Agents, NEW t, NEW s, Matches(t, s), NEW x \in Brackets,
         Written(t, x) = Opened(t, x), NEW r \in Scans, NEW kind, NEW path \in CallPaths, NEW place,
         Step(s, x) = Call(r, kind, path, place), Len(s.calls) < MaxDepth,
         kind = (IF IsBrace(x) THEN "object" ELSE "array"),
         place = (IF IsBrace(x) THEN "key_or_end" ELSE "item_or_end"),
         IsBrace(x) => path = NameOf(t.at),
         r.calls = s.calls, r.values = s.values, r.seen = s.seen, r.ambiguous = s.ambiguous,
         t.number = <<>>, Len(t.at) = Len(t.open)
  PROVE  Matches(Written(t, x), Step(s, x))
<1> DEFINE u == Written(t, x)
           v == Step(s, x)
           n == Len(t.open)
           at == IF x = "[" THEN Append(t.at, "items") ELSE t.at
           call == [kind |-> kind, path |-> path]
<1>0. IsBrace(x) <=> x # "["
  BY Zenon DEF IsBrace, Brackets
<1>1. /\ t \in Texts /\ s \in Scans /\ t.at \in PathSeqs /\ t.open \in Opens /\ s.calls \in CallSeqs
      /\ n \in Nat /\ Len(s.calls) = n
  BY Parts
<1>2. t \in Texts
  BY <1>1
<1>3. /\ u \in Texts /\ u.open = Append(t.open, x) /\ u.next = (IF IsBrace(x) THEN "name" ELSE "value")
      /\ u.fresh = TRUE /\ u.number = t.number /\ u.at = at
      /\ u.says = t.says /\ u.names = t.names /\ u.twice = t.twice
  <2>1. /\ Opened(t, x) \in Texts /\ Opened(t, x).open = Append(t.open, x)
        /\ Opened(t, x).next = (IF IsBrace(x) THEN "name" ELSE "value") /\ Opened(t, x).fresh = TRUE
        /\ Opened(t, x).number = t.number /\ Opened(t, x).says = t.says /\ Opened(t, x).names = t.names
        /\ Opened(t, x).twice = t.twice
    BY <1>2, OpenedIs
  <2>2. Opened(t, x).at = IF x = "[" THEN Append(t.at, "items") ELSE t.at
    BY <1>2, OpenedIs
  <2>3. u = Opened(t, x)
    OBVIOUS
  <2>4. at = IF x = "[" THEN Append(t.at, "items") ELSE t.at
    OBVIOUS
  <2> HIDE DEF u, at
  <2>5. QED BY <2>1, <2>2, <2>3, <2>4
<1>4. kind \in {"object", "array"} /\ place \in Places
  BY DEF Places
<1>5. /\ v \in Scans /\ v.calls = Append(s.calls, call) /\ v.at = place
      /\ v.values = s.values /\ v.seen = s.seen /\ v.ambiguous = s.ambiguous
  BY <1>4, CallIs
<1>6. /\ Append(t.open, x) \in Opens /\ Len(Append(t.open, x)) = n + 1
      /\ Append(t.open, x)[n + 1] = x /\ \A i \in 1..n : Append(t.open, x)[i] = t.open[i]
  BY <1>1 DEF Opens
<1>7. /\ Len(Append(s.calls, call)) = n + 1 /\ Append(s.calls, call)[n + 1] = call
      /\ \A i \in 1..n : Append(s.calls, call)[i] = s.calls[i]
  <2>1. call \in CallRecords
    BY <1>4 DEF CallRecords
  <2> HIDE DEF call
  <2>2. QED BY <1>1, <2>1 DEF CallSeqs
<1>8. /\ at \in PathSeqs /\ Len(at) = (IF IsBrace(x) THEN n ELSE n + 1) /\ \A i \in 1..n : at[i] = t.at[i]
      /\ ~IsBrace(x) => at[n + 1] = "items"
      /\ IsBrace(x) => at = t.at
  <2>1. "items" \in Steps
    BY DEF Steps
  <2>2. Append(t.at, "items") \in PathSeqs /\ Len(Append(t.at, "items")) = n + 1
        /\ Append(t.at, "items")[n + 1] = "items" /\ \A i \in 1..n : Append(t.at, "items")[i] = t.at[i]
    BY <1>1, <2>1 DEF PathSeqs
  <2>3. QED BY <1>0, <1>1, <2>2
<1>9. call.kind = kind /\ call.path = path
  OBVIOUS
<1>10. \A i \in 1..n :
         /\ s.calls[i].kind = IF IsBrace(t.open[i]) THEN "object" ELSE "array"
         /\ IsBrace(t.open[i]) => s.calls[i].path = NameOf(SubSeq(t.at, 1, i - 1))
  BY DEF Matches, CallsFit
<1>11. \A i \in 1..n : t.open[i] = "[" => t.at[i] = "items"
  BY DEF Matches, WellFormed
<1> HIDE DEF u, v, n, at, call
<1>12. InObject(u) <=> IsBrace(x)
  <2>1. u.open # <<>> /\ Last(u.open) = x
    <3>1. Len(u.open) = n + 1 /\ u.open[n + 1] = x /\ u.open \in Opens
      BY <1>3, <1>6
    <3>2. Len(u.open) # 0
      BY <1>1, <3>1
    <3>3. QED BY <3>1, <3>2, NoneIs DEF Last, Opens
  <2>2. QED BY <2>1 DEF InObject
<1>13. CallsFit(u, v)
  <2>1. Len(u.open) = n + 1 /\ Len(v.calls) = n + 1
    BY <1>3, <1>5, <1>6, <1>7
  <2>2. ASSUME NEW i \in 1..n
        PROVE  /\ v.calls[i].kind = IF IsBrace(u.open[i]) THEN "object" ELSE "array"
               /\ IsBrace(u.open[i]) => v.calls[i].path = NameOf(SubSeq(u.at, 1, i - 1))
    <3>1. v.calls[i] = s.calls[i] /\ u.open[i] = t.open[i]
      BY <1>3, <1>5, <1>6, <1>7
    <3>2. SubSeq(u.at, 1, i - 1) = SubSeq(t.at, 1, i - 1)
      <4>1. i - 1 \in Nat /\ i - 1 <= n
        BY <1>1
      <4>2. i - 1 <= Len(at) /\ i - 1 <= Len(t.at)
        <5>1. Len(at) = n \/ Len(at) = n + 1
          BY <1>8
        <5>2. Len(t.at) = n
          BY DEF n
        <5>3. QED BY <1>1, <4>1, <5>1, <5>2
      <4>3. \A j \in 1..i - 1 : at[j] = t.at[j]
        BY <1>1, <1>8, <4>1
      <4>4. QED BY <1>1, <1>3, <1>8, <4>1, <4>2, <4>3, SameBeginning
    <3>3. QED BY <1>10, <3>1, <3>2
  <2>3. /\ v.calls[n + 1].kind = IF IsBrace(u.open[n + 1]) THEN "object" ELSE "array"
        /\ IsBrace(u.open[n + 1]) => v.calls[n + 1].path = NameOf(SubSeq(u.at, 1, n))
    <3>1. v.calls[n + 1] = call /\ u.open[n + 1] = x
      BY <1>3, <1>5, <1>6, <1>7
    <3>2. SubSeq(t.at, 1, n) = t.at
      <4>1. Len(t.at) = n
        BY DEF n
      <4>2. n \in 0..Len(t.at)
        BY <1>1, <4>1
      <4>3. SubSeq(t.at, 1, n) \in PathSeqs /\ Len(SubSeq(t.at, 1, n)) = n
            /\ \A i \in 1..n : SubSeq(t.at, 1, n)[i] = t.at[i]
        BY <1>1, <4>2, BeginningIs
      <4> DEFINE w == SubSeq(t.at, 1, n)
      <4> HIDE DEF w
      <4>4. w \in PathSeqs /\ Len(w) = Len(t.at) /\ \A i \in 1..Len(w) : w[i] = t.at[i]
        BY <4>1, <4>3 DEF w
      <4>5. w = t.at
        BY <1>1, <4>4, SamePath
      <4>6. QED BY <4>5 DEF w
    <3>3. QED BY <1>3, <1>8, <1>9, <3>1, <3>2
  <2>4. ASSUME NEW i \in 1..n + 1
        PROVE  /\ v.calls[i].kind = IF IsBrace(u.open[i]) THEN "object" ELSE "array"
               /\ IsBrace(u.open[i]) => v.calls[i].path = NameOf(SubSeq(u.at, 1, i - 1))
    <3>1. CASE i \in 1..n
      BY <2>2, <3>1
    <3>2. CASE i \notin 1..n
      <4>1. i = n + 1 /\ i - 1 = n
        BY <1>1, <3>2
      <4>2. QED BY <2>3, <4>1
    <3>3. QED BY <3>1, <3>2
  <2>5. QED BY <2>1, <2>4 DEF CallsFit
<1>14. SaidFits(u, v)
  <2>1. ASSUME NEW k \in 1..Len(u.at)
        PROVE  (k <= Len(t.at) /\ Agree(u, t, k)) \/ ~Leading(SubSeq(u.at, 1, k))
    <3>1. Len(t.at) = n
      BY DEF n
    <3>2. CASE k <= n
      <4>1. \A i \in 1..k : u.at[i] = t.at[i]
        BY <1>1, <1>3, <1>8, <3>2
      <4>2. QED BY <3>1, <3>2, <4>1 DEF Agree
    <3>3. CASE ~(k <= n)
      <4>1. k \in Nat /\ k <= Len(at) /\ k \in 1..Len(at) /\ Len(at) \in Nat
        BY <1>3, <1>8 DEF PathSeqs
      <4>2. ~IsBrace(x) /\ k = n + 1
        BY <1>1, <1>8, <3>3, <4>1
      <4>3. at[k] = "items"
        BY <1>8, <4>2
      <4>4. k \in 0..Len(at) /\ k \in 1..k
        BY <4>1
      <4>5. SubSeq(at, 1, k) \in PathSeqs /\ Len(SubSeq(at, 1, k)) = k /\ SubSeq(at, 1, k)[k] = at[k]
        BY <1>8, <4>4, BeginningIs
      <4>6. ~Leading(SubSeq(at, 1, k))
        BY <4>3, <4>4, <4>5, ItemsNameless
      <4>7. QED BY <1>3, <4>6
    <3>4. QED BY <3>2, <3>3
  <2>2. u.at \in PathSeqs
    BY <1>3, <1>8
  <2>3. QED BY <1>3, <1>5, <2>1, <2>2, SaidKept
<1>15. KeepsUp(u, v)
  BY <1>3, <1>5, <1>12 DEF KeepsUp, PlaceOf, NameGiven
<1>16. WellFormed(u)
  <2>1. u.open # <<>>
    <3>1. Len(u.open) = n + 1 /\ u.open \in Opens
      BY <1>3, <1>6
    <3>2. Len(u.open) # 0
      BY <1>1, <3>1
    <3>3. QED BY <3>1, <3>2, NoneIs DEF Opens
  <2>2. Len(u.at) = Len(u.open) - (IF InObject(u) /\ ~NameGiven(u) THEN 1 ELSE 0)
    <3>1. Len(u.at) = (IF IsBrace(x) THEN n ELSE n + 1) /\ Len(u.open) = n + 1
      BY <1>3, <1>6, <1>8
    <3>2. NameGiven(u) <=> ~IsBrace(x)
      BY <1>3 DEF NameGiven
    <3>3. QED BY <1>1, <1>12, <3>1, <3>2
  <2>3. ASSUME NEW i \in 1..Len(u.at), u.open[i] = "["
        PROVE  u.at[i] = "items"
    <3>1. CASE i \in 1..n
      <4>1. u.open[i] = t.open[i] /\ u.at[i] = t.at[i]
        BY <1>3, <1>6, <1>8, <3>1
      <4>2. QED BY <1>11, <2>3, <3>1, <4>1
    <3>2. CASE i \notin 1..n
      <4>1. i = n + 1 /\ ~IsBrace(x)
        <5>1. Len(u.at) = (IF IsBrace(x) THEN n ELSE n + 1)
          BY <1>3, <1>8
        <5>2. QED BY <1>1, <3>2, <5>1
      <4>2. QED BY <1>3, <1>8, <4>1
    <3>3. QED BY <3>1, <3>2
  <2>4. u.next \in {"name", "value"} /\ (u.next = "name" <=> IsBrace(x))
    BY <1>3
  <2>5. u.number = <<>>
    BY <1>3
  <2>6. QED BY <1>12, <2>1, <2>2, <2>3, <2>4, <2>5 DEF WellFormed
<1>17. QED BY <1>3, <1>5, <1>13, <1>14, <1>15, <1>16 DEF Matches, u, v

\* Where a value may stand.
AtValue(t) ==
  /\ t.next = "value" /\ t.number = <<>> /\ t.open # <<>> /\ Len(t.at) = Len(t.open) /\ NameGiven(t)
  /\ NameOf(t.at) \in CallPaths

\* A value is read under the name of its place, in an array under none.
LEMMA PathHanded ==
  ASSUME agent \in Agents, NEW t, NEW s, Matches(t, s), NEW x, x # "]",
         s.at \in {"value", "item", "item_or_end"}
  PROVE  /\ AtValue(t)
         /\ \E r \in Scans :
              /\ Step(s, x) = Value(r, NameOf(t.at), x)
              /\ r.calls = s.calls /\ r.values = s.values /\ r.seen = s.seen /\ r.ambiguous = s.ambiguous
<1>1. t.next = "value" /\ t.number = <<>> /\ (s.at = "value" <=> InObject(t))
  BY DEF Matches, KeepsUp, PlaceOf, Texts, Wants
<1>2. t.at \in PathSeqs /\ Len(t.at) \in Nat /\ t.open \in Opens /\ Len(t.open) \in Nat /\ s \in Scans
  BY Parts
<1>3. NameGiven(t)
  BY <1>1 DEF NameGiven
<1>4. Len(t.at) = Len(t.open)
  <2>1. Len(t.at) = Len(t.open) - (IF InObject(t) /\ ~NameGiven(t) THEN 1 ELSE 0)
    BY Parts
  <2>2. QED BY <1>2, <1>3, <2>1
<1>5. t.open # <<>>
  BY PlaceOpen
<1>6. AtValue(t)
  BY <1>1, <1>2, <1>3, <1>4, <1>5, NameIs DEF AtValue
<1>7. CASE s.at = "value"
  <2> DEFINE r == [s EXCEPT !.child = Nowhere]
  <2>1. Step(s, x) = Value(r, s.child, x)
    BY <1>7 DEF Step
  <2>2. /\ r \in Scans
        /\ r.calls = s.calls /\ r.values = s.values /\ r.seen = s.seen /\ r.ambiguous = s.ambiguous
    BY <1>2 DEF Scans
  <2>3. s.child = NameOf(t.at)
    BY <1>7, ChildIs
  <2>4. QED BY <1>6, <2>1, <2>2, <2>3
<1>8. CASE s.at # "value"
  <2>1. Step(s, x) = Value(s, "?", x)
    BY <1>8 DEF Step
  <2>2. ~InObject(t)
    BY <1>1, <1>8
  <2>3. t.open[Len(t.open)] = "["
    BY <1>5, <2>2, InnermostIs DEF Within, Last
  <2>4. Len(t.open) \in 1..Len(t.at)
    <3>1. Len(t.open) >= 1
      BY <1>5, InnermostIs
    <3>2. QED BY <1>2, <1>4, <3>1, LastOf
  <2>5. t.at[Len(t.open)] = "items"
    BY <2>3, <2>4 DEF Matches, WellFormed
  <2>6. ~Leading(t.at)
    BY <1>2, <2>4, <2>5, ItemsNameless
  <2>7. NameOf(t.at) = "?"
    BY <2>6 DEF NameOf
  <2>8. QED BY <1>2, <1>6, <2>1, <2>7
<1>9. QED BY <1>7, <1>8

\* The beginnings of a discriminator's path lead to it.
LEMMA BeginningLeads ==
  ASSUME NEW p \in Paths, NEW k \in 1..Len(p)
  PROVE  Leading(SubSeq(p, 1, k))
<1>1. p \in PathSeqs
  BY PathsTyped
<1>2. Len(p) \in Nat /\ k \in 0..Len(p) /\ k <= Len(p)
  BY <1>1 DEF PathSeqs
<1>3. Len(SubSeq(p, 1, k)) = k
  BY <1>1, <1>2, BeginningIs
<1>4. LeadsTo(SubSeq(p, 1, k), p)
  BY <1>2, <1>3 DEF LeadsTo
<1>5. QED BY <1>4 DEF Leading

\* A value leaves its name, or the place it has among items.
LEMMA ValueMatches ==
  ASSUME NEW t, NEW s, Matches(t, s), AtValue(t), NEW u \in Texts, NEW v \in Scans,
         u.open = t.open, u.next = "more", u.fresh = FALSE, u.at = (IF InObject(t) THEN Front(t.at) ELSE t.at),
         u.names = t.names, u.twice = t.twice,
         v.calls = s.calls, v.at = (IF u.number = <<>> THEN "more" ELSE "number"),
         u.number # <<>> => Reached(v.number, u.number), v.seen = s.seen, v.ambiguous = s.ambiguous,
         ~t.twice => u.says = v.values,
         \A p \in Paths : u.says[p] # Nowhere => t.says[p] # Nowhere \/ p = t.at
  PROVE  Matches(u, v)
<1> DEFINE n == Len(t.open)
<1>1. /\ t.at \in PathSeqs /\ t.open \in Opens /\ n \in Nat /\ n >= 1
  BY Parts, InnermostIs DEF AtValue
<1>2. Len(t.at) = n /\ t.open # <<>> /\ t.next = "value"
  BY DEF AtValue
<1>3. InObject(u) <=> InObject(t)
  BY InObjectSame
<1>4. ~NameGiven(u)
  BY DEF NameGiven
<1>5. \A i \in 1..n : t.open[i] = "[" => t.at[i] = "items"
  BY <1>2 DEF Matches, WellFormed
<1> HIDE DEF n
<1>6. /\ u.at \in PathSeqs /\ Len(u.at) = (IF InObject(t) THEN n - 1 ELSE n)
      /\ \A i \in 1..Len(u.at) : i \in 1..n /\ u.at[i] = t.at[i]
  <2>1. CASE InObject(t)
    <3>1. t.at # <<>>
      BY <1>1, <1>2, EmptyIs
    <3>2. Front(t.at) \in PathSeqs /\ Len(Front(t.at)) = Len(t.at) - 1
          /\ \A i \in 1..Len(t.at) - 1 : Front(t.at)[i] = t.at[i]
      BY <1>1, <3>1, FrontIs DEF PathSeqs
    <3>3. u.at = Front(t.at)
      BY <2>1
    <3>4. QED BY <1>1, <1>2, <2>1, <3>2, <3>3
  <2>2. CASE ~InObject(t)
    BY <1>1, <1>2, <2>2
  <2>3. QED BY <2>1, <2>2
<1>7. WellFormed(u)
  <2>1. Len(u.at) = Len(u.open) - (IF InObject(u) /\ ~NameGiven(u) THEN 1 ELSE 0)
    <3>1. Len(u.open) = n
      BY DEF n
    <3>2. CASE InObject(t)
      <4>1. Len(u.at) = n - 1 /\ InObject(u) /\ ~NameGiven(u)
        BY <1>3, <1>4, <1>6, <3>2
      <4>2. QED BY <3>1, <4>1
    <3>3. CASE ~InObject(t)
      <4>1. Len(u.at) = n /\ ~InObject(u)
        BY <1>3, <1>6, <3>3
      <4>2. QED BY <1>1, <3>1, <4>1
    <3>4. QED BY <3>2, <3>3
  <2>2. \A i \in 1..Len(u.at) : u.open[i] = "[" => u.at[i] = "items"
    BY <1>5, <1>6
  <2>3. QED BY <1>2, <2>1, <2>2 DEF WellFormed
<1>8. CallsFit(u, v)
  <2>1. Len(u.at) >= n - 1
    BY <1>1, <1>6
  <2>2. \A i \in 1..n - 1 : i \in 1..Len(u.at)
    BY <1>1, <1>6
  <2>3. Agree(u, t, n - 1)
    BY <1>6, <2>2 DEF Agree
  <2>4. QED BY <1>6, <2>1, <2>3, CallsKept DEF n
<1>9. KeepsUp(u, v)
  BY <1>4 DEF KeepsUp, PlaceOf
<1>10. SaidFits(u, v)
  <2>1. /\ s.ambiguous = t.twice /\ t.names = {PathOf(c) : c \in s.seen}
        /\ \A k \in 1..Len(t.at) : Leading(SubSeq(t.at, 1, k)) => SubSeq(t.at, 1, k) \in t.names
        /\ \A p \in Paths : t.says[p] # Nowhere => \A k \in 1..Len(p) : SubSeq(p, 1, k) \in t.names
    BY DEF Matches, SaidFits
  <2>2. ASSUME NEW k \in 1..Len(u.at), Leading(SubSeq(u.at, 1, k))
        PROVE  SubSeq(u.at, 1, k) \in u.names
    <3>1. k \in Nat /\ k <= Len(u.at) /\ k \in 1..Len(t.at) /\ k <= Len(t.at)
      BY <1>1, <1>2, <1>6
    <3>2. \A i \in 1..k : u.at[i] = t.at[i]
      BY <1>6, <3>1
    <3>3. SubSeq(u.at, 1, k) = SubSeq(t.at, 1, k)
      BY <1>1, <1>6, <3>1, <3>2, SameBeginning
    <3>4. QED BY <2>1, <2>2, <3>1, <3>3
  <2>3. ASSUME NEW p \in Paths, u.says[p] # Nowhere, NEW k \in 1..Len(p)
        PROVE  SubSeq(p, 1, k) \in u.names
    <3>1. CASE t.says[p] # Nowhere
      BY <2>1, <3>1
    <3>2. CASE p = t.at
      <4>1. Leading(SubSeq(p, 1, k))
        BY BeginningLeads
      <4>2. QED BY <2>1, <3>2, <4>1
    <3>3. QED BY <2>3, <3>1, <3>2
  <2>4. QED BY <2>1, <2>2, <2>3 DEF SaidFits
<1>11. QED BY <1>7, <1>8, <1>9, <1>10 DEF Matches

\* What is left when a value that stands is done.
LEMMA StandingDone ==
  ASSUME NEW t, NEW s, Matches(t, s), AtValue(t)
  PROVE  /\ t \in Texts /\ t.at \in PathSeqs /\ (InObject(t) => t.at # <<>>)
         /\ \A p \in Paths : t.says[p] \in Words \cup {Nowhere}
         /\ t.says \in SaidValues /\ s.values \in SaidValues
         /\ s.calls # <<>> /\ t.open # <<>>
         /\ ~t.twice => t.says = s.values
<1>1. t \in Texts /\ s \in Scans /\ t.at \in PathSeqs
  BY Parts
<1>2. Len(t.at) # 0
  <2>1. Len(t.open) >= 1 /\ Len(t.open) \in Nat /\ Len(t.at) = Len(t.open)
    BY InnermostIs DEF AtValue
  <2>2. QED BY <2>1
<1>3. t.says \in SaidValues /\ s.values \in SaidValues
  BY <1>1 DEF Texts, Scans
<1>4. s.calls # <<>> /\ t.open # <<>>
  BY InnermostIs DEF AtValue
<1>5. QED BY <1>1, <1>2, <1>3, <1>4, EmptyIs DEF SaidValues, Matches, SaidFits

\* A value that is a word.
LEMMA StringMatches ==
  ASSUME agent \in Agents, NEW t, NEW s, Matches(t, s), AtValue(t), NEW x \in Symbols, IsString(x),
         NEW r \in Scans, Step(s, x) = Value(r, NameOf(t.at), x),
         r.calls = s.calls, r.values = s.values, r.seen = s.seen, r.ambiguous = s.ambiguous
  PROVE  Matches(Written(t, x), Step(s, x))
<1> DEFINE w == IF t.at \in Paths THEN [t EXCEPT !.says[t.at] = x] ELSE t
           q == IF t.at \in Paths THEN [r EXCEPT !.values[t.at] = x] ELSE r
           says == IF t.at \in Paths THEN [t.says EXCEPT ![t.at] = x] ELSE t.says
           values == IF t.at \in Paths THEN [s.values EXCEPT ![t.at] = x] ELSE s.values
<1>1. /\ t \in Texts /\ t.at \in PathSeqs /\ (InObject(t) => t.at # <<>>)
      /\ t.says \in SaidValues /\ s.values \in SaidValues
      /\ s.calls # <<>> /\ t.open # <<>> /\ (~t.twice => t.says = s.values)
  BY StandingDone
<1>2. x \in Words
  BY StringIs
<1>3. t.next = "value" /\ t.number = <<>>
  BY DEF AtValue
<1>4. Written(t, x) = ValueDone(w)
  BY <1>3, WrittenIs
<1>5. says \in SaidValues /\ values \in SaidValues /\ (~t.twice => says = values)
      /\ \A p \in Paths : says[p] # Nowhere => t.says[p] # Nowhere \/ p = t.at
  BY <1>1, <1>2 DEF SaidValues
<1>6. Step(s, x) = Returned(q)
  <2> DEFINE path == NameOf(t.at)
  <2>1. x \notin {"null", "-", "0", "1", "{", "["}
    BY <1>2, WordsApart
  <2>2. Value(r, path, x) =
          Returned(IF path # "?" /\ PathOf(path) \in Paths THEN [r EXCEPT !.values[PathOf(path)] = x] ELSE r)
    BY <2>1 DEF Value
  <2>3. t.at \in Paths <=> path # "?" /\ PathOf(path) \in Paths
    BY <1>1, PathOfName
  <2>4. t.at \in Paths => PathOf(path) = t.at
    <3>1. t.at \in Paths => Leading(t.at) /\ t.at # <<>>
      BY <1>1, PathsTyped, LeadingIs, EmptyIs
    <3>2. QED BY <1>1, <3>1, PathOfName
  <2> HIDE DEF path
  <2>5. QED BY <2>2, <2>3, <2>4 DEF path
<1>7. w = [t EXCEPT !.says = says]
  <2>1. CASE t.at \in Paths
    BY <2>1
  <2>2. CASE t.at \notin Paths
    BY <1>1, <2>2 DEF Texts
  <2>3. QED BY <2>1, <2>2
<1>8. q = [r EXCEPT !.values = values]
  <2>1. CASE t.at \in Paths
    BY <2>1
  <2>2. CASE t.at \notin Paths
    BY <2>2 DEF Scans
  <2>3. QED BY <2>1, <2>2
<1> HIDE DEF w, q, says, values
<1>9. /\ w \in Texts /\ w.open = t.open /\ w.at = t.at /\ w.says = says /\ w.names = t.names /\ w.twice = t.twice
  BY <1>1, <1>5, <1>7 DEF Texts
<1>10. /\ q \in Scans /\ q.calls = s.calls /\ q.values = values /\ q.seen = s.seen /\ q.ambiguous = s.ambiguous
  BY <1>5, <1>8 DEF Scans
<1>11. InObject(w) <=> InObject(t)
  BY <1>9, InObjectSame
<1> DEFINE u == Written(t, x)
           v == Step(s, x)
<1>12. /\ u \in Texts /\ u.open = t.open /\ u.next = "more" /\ u.fresh = FALSE /\ u.number = <<>>
       /\ u.at = (IF InObject(t) THEN Front(t.at) ELSE t.at)
       /\ u.says = says /\ u.names = t.names /\ u.twice = t.twice
  <2>1. LET d == ValueDone(w) IN
        /\ d \in Texts
        /\ d.open = w.open /\ d.next = (IF w.open = <<>> THEN "end" ELSE "more") /\ d.fresh = FALSE
        /\ d.number = <<>> /\ d.at = (IF InObject(w) THEN Front(w.at) ELSE w.at)
        /\ d.says = w.says /\ d.names = w.names /\ d.twice = w.twice
    BY <1>1, <1>9, <1>11, ValueDoneIs
  <2>2. QED BY <1>1, <1>4, <1>9, <1>11, <2>1
<1>13. /\ v \in Scans /\ v.calls = s.calls /\ v.at = "more" /\ v.values = values /\ v.seen = s.seen
       /\ v.ambiguous = s.ambiguous
  BY <1>1, <1>6, <1>10, ReturnedIs
<1> HIDE DEF u, v
<1>14. Matches(u, v)
  BY <1>1, <1>5, <1>12, <1>13, ValueMatches
<1>15. QED BY <1>14 DEF u, v

\* A value that is neither a word nor a number, nor opens a bracket.
LEMMA NullMatches ==
  ASSUME agent \in Agents, NEW t, NEW s, Matches(t, s), AtValue(t), NEW x \in Symbols, x = "null",
         NEW r \in Scans, NEW path, Step(s, x) = Value(r, path, x),
         r.calls = s.calls, r.values = s.values, r.seen = s.seen, r.ambiguous = s.ambiguous
  PROVE  Matches(Written(t, x), Step(s, x))
<1>1. t \in Texts /\ (InObject(t) => t.at # <<>>) /\ s.calls # <<>> /\ t.open # <<>>
      /\ (~t.twice => t.says = s.values)
  BY StandingDone
<1>2. t.next = "value" /\ t.number = <<>>
  BY DEF AtValue
<1>3. Written(t, x) = ValueDone(t)
  BY <1>2, WrittenIs
<1>4. Step(s, x) = Returned(r)
  <2>1. ~IsString(x)
    BY StringIs, WordsApart
  <2>2. QED BY <2>1 DEF Value
<1> DEFINE u == Written(t, x)
           v == Step(s, x)
<1>5. /\ u \in Texts /\ u.open = t.open /\ u.next = "more" /\ u.fresh = FALSE /\ u.number = <<>>
      /\ u.at = (IF InObject(t) THEN Front(t.at) ELSE t.at)
      /\ u.says = t.says /\ u.names = t.names /\ u.twice = t.twice
  <2>1. LET d == ValueDone(t) IN
        /\ d \in Texts
        /\ d.open = t.open /\ d.next = (IF t.open = <<>> THEN "end" ELSE "more") /\ d.fresh = FALSE
        /\ d.number = <<>> /\ d.at = (IF InObject(t) THEN Front(t.at) ELSE t.at)
        /\ d.says = t.says /\ d.names = t.names /\ d.twice = t.twice
    BY <1>1, ValueDoneIs
  <2>2. QED BY <1>1, <1>3, <2>1
<1>6. /\ v \in Scans /\ v.calls = s.calls /\ v.at = "more" /\ v.values = s.values /\ v.seen = s.seen
      /\ v.ambiguous = s.ambiguous
  BY <1>1, <1>4, ReturnedIs
<1> HIDE DEF u, v
<1>7. Matches(u, v)
  BY <1>1, <1>5, <1>6, ValueMatches
<1>8. QED BY <1>7 DEF u, v

\* A number begins.
LEMMA NumberStarts ==
  ASSUME agent \in Agents, NEW t, NEW s, Matches(t, s), AtValue(t), NEW x \in Symbols, x \in {"-", "0", "1"},
         NEW r \in Scans, NEW path, Step(s, x) = Value(r, path, x),
         r.calls = s.calls, r.values = s.values, r.seen = s.seen, r.ambiguous = s.ambiguous
  PROVE  Matches(Written(t, x), Step(s, x))
<1> DEFINE n == IF x = "-" THEN 0 ELSE IF x = "0" THEN 2 ELSE 3
<1>1. t \in Texts /\ (InObject(t) => t.at # <<>>) /\ s.calls # <<>> /\ t.open # <<>>
      /\ (~t.twice => t.says = s.values)
  BY StandingDone
<1>2. t.next = "value" /\ t.number = <<>>
  BY DEF AtValue
<1>3. x \in InNumbers
  BY DEF InNumbers, Digits
<1>4. Written(t, x) = [ValueDone(t) EXCEPT !.number = <<x>>]
  BY <1>2, <1>3, WrittenIs
<1>5. Step(s, x) = [r EXCEPT !.at = "number", !.number = n]
  <2>1. ~IsString(x)
    BY StringIs, WordsApart
  <2>2. QED BY <2>1 DEF Value
<1>6. Reached(n, <<x>>) /\ <<x>> \in Numerals /\ <<x>> # <<>> /\ n \in Int
  BY <1>3, NumberBegins DEF Numerals
<1> DEFINE u == Written(t, x)
           v == Step(s, x)
           d == ValueDone(t)
           one == <<x>>
<1>7. /\ d \in Texts /\ d.open = t.open /\ d.next = "more" /\ d.fresh = FALSE
      /\ d.at = (IF InObject(t) THEN Front(t.at) ELSE t.at)
      /\ d.says = t.says /\ d.names = t.names /\ d.twice = t.twice
  BY <1>1, ValueDoneIs
<1>8. u = [d EXCEPT !.number = one]
  BY <1>4
<1>9. v = [r EXCEPT !.at = "number", !.number = n]
  BY <1>5
<1>10. Reached(n, one) /\ one \in Numerals /\ one # <<>>
  BY <1>6
<1> HIDE DEF u, v, d, n, one
<1>11. /\ u \in Texts /\ u.open = t.open /\ u.next = "more" /\ u.fresh = FALSE /\ u.number = one
       /\ u.at = (IF InObject(t) THEN Front(t.at) ELSE t.at)
       /\ u.says = t.says /\ u.names = t.names /\ u.twice = t.twice
  BY <1>7, <1>8, <1>10 DEF Texts
<1>12. /\ v \in Scans /\ v.calls = s.calls /\ v.at = "number" /\ v.number = n /\ v.values = s.values
       /\ v.seen = s.seen /\ v.ambiguous = s.ambiguous
  BY <1>6, <1>9 DEF Scans, Places
<1>13. Matches(u, v)
  BY <1>1, <1>10, <1>11, <1>12, ValueMatches
<1>14. QED BY <1>13 DEF u, v

\* Where a name may stand, and which object it is in.
LEMMA NamePlace ==
  ASSUME NEW t, NEW s, Matches(t, s), s.at \in {"key", "key_or_end"}
  PROVE  /\ t.next = "name" /\ t.number = <<>> /\ InObject(t) /\ t.open # <<>> /\ s.calls # <<>>
         /\ Len(t.at) = Len(t.open) - 1 /\ Len(t.open) \in Nat /\ Len(t.open) >= 1
         /\ Last(s.calls).path = NameOf(t.at)
         /\ t.open[Len(t.open)] # "["
<1>1. t.next = "name" /\ t.number = <<>>
  BY DEF Matches, KeepsUp, PlaceOf, Texts, Wants
<1>2. InObject(t)
  BY <1>1 DEF Matches, WellFormed
<1>3. ~NameGiven(t)
  BY <1>1 DEF NameGiven
<1>4. t.at \in PathSeqs /\ Len(t.open) \in Nat /\ t.open \in Opens
  BY Parts
<1>5. t.open # <<>>
  BY PlaceOpen
<1>6. s.calls # <<>> /\ Len(s.calls) = Len(t.open) /\ Len(t.open) >= 1 /\ ~Within(t, "[") /\ IsBrace(Last(t.open))
  BY <1>2, <1>5, InnermostIs
<1>7. Len(t.at) = Len(t.open) - 1
  <2>1. Len(t.at) = Len(t.open) - (IF InObject(t) /\ ~NameGiven(t) THEN 1 ELSE 0)
    BY Parts
  <2>2. QED BY <1>2, <1>3, <2>1
<1>8. Last(s.calls).path = NameOf(SubSeq(t.at, 1, Len(t.open) - 1))
  <2>1. Len(t.open) \in 1..Len(t.open)
    BY <1>4, <1>6, LastOf
  <2>2. IsBrace(t.open[Len(t.open)]) => s.calls[Len(t.open)].path = NameOf(SubSeq(t.at, 1, Len(t.open) - 1))
    BY <2>1 DEF Matches, CallsFit
  <2>3. Last(t.open) = t.open[Len(t.open)] /\ Last(s.calls) = s.calls[Len(t.open)]
    BY <1>6 DEF Last
  <2>4. QED BY <1>6, <2>2, <2>3
<1>9. SubSeq(t.at, 1, Len(t.open) - 1) = t.at
  <2>1. Len(t.at) \in Nat /\ Len(t.at) \in 0..Len(t.at)
    BY <1>4 DEF PathSeqs
  <2>2. SubSeq(t.at, 1, Len(t.at)) \in PathSeqs /\ Len(SubSeq(t.at, 1, Len(t.at))) = Len(t.at)
        /\ \A i \in 1..Len(t.at) : SubSeq(t.at, 1, Len(t.at))[i] = t.at[i]
    BY <1>4, <2>1, BeginningIs
  <2>3. SubSeq(t.at, 1, Len(t.at)) = t.at
    BY <1>4, <2>2, SamePath
  <2>4. QED BY <1>7, <2>3
<1>10. t.open[Len(t.open)] # "["
  BY <1>5, <1>6 DEF Within, Last
<1>11. QED BY <1>1, <1>2, <1>4, <1>5, <1>6, <1>7, <1>8, <1>9, <1>10

\* A path that is longer by a name.
LEMMA LongerPath ==
  ASSUME NEW a \in PathSeqs, NEW y \in Steps
  PROVE  /\ Append(a, y) \in PathSeqs /\ Len(a) \in Nat /\ Len(Append(a, y)) = Len(a) + 1
         /\ \A i \in 1..Len(a) : Append(a, y)[i] = a[i]
         /\ SubSeq(Append(a, y), 1, Len(a) + 1) = Append(a, y)
         /\ \A k \in 1..Len(a) : SubSeq(Append(a, y), 1, k) = SubSeq(a, 1, k)
         /\ Append(a, y) # <<>>
<1> DEFINE b == Append(a, y)
<1>1. b \in PathSeqs /\ Len(a) \in Nat /\ Len(b) = Len(a) + 1 /\ \A i \in 1..Len(a) : b[i] = a[i]
  BY DEF PathSeqs
<1> HIDE DEF b
<1>2. SubSeq(b, 1, Len(a) + 1) = b
  <2>1. Len(a) + 1 \in 0..Len(b)
    BY <1>1
  <2>2. SubSeq(b, 1, Len(a) + 1) \in PathSeqs /\ Len(SubSeq(b, 1, Len(a) + 1)) = Len(a) + 1
        /\ \A i \in 1..Len(a) + 1 : SubSeq(b, 1, Len(a) + 1)[i] = b[i]
    BY <1>1, <2>1, BeginningIs
  <2>3. QED BY <1>1, <2>2, SamePath
<1>3. ASSUME NEW k \in 1..Len(a)
      PROVE  SubSeq(b, 1, k) = SubSeq(a, 1, k)
  <2>1. k \in Nat /\ k <= Len(a) /\ k <= Len(b) /\ \A i \in 1..k : b[i] = a[i]
    BY <1>1
  <2>2. QED BY <1>1, <2>1, SameBeginning
<1>4. b # <<>>
  <2>1. Len(b) # 0
    BY <1>1
  <2>2. QED BY <1>1, <2>1, EmptyIs
<1>5. QED BY <1>1, <1>2, <1>3, <1>4 DEF b

\* A name: where its value stands, and what the reader calls that.
LEMMA NamedMatches ==
  ASSUME NEW t, NEW s, Matches(t, s), s.at \in {"key", "key_or_end"}, NEW y \in Steps,
         NEW u \in Texts, u.open = t.open, u.next = "colon", u.fresh = FALSE, u.number = <<>>,
         u.at = Append(t.at, y),
         NEW v \in Scans, v.calls = s.calls, v.at = "colon", v.child = NameOf(u.at), SaidFits(u, v)
  PROVE  Matches(u, v)
<1>1. /\ t.next = "name" /\ InObject(t) /\ t.open # <<>>
      /\ Len(t.at) = Len(t.open) - 1 /\ Len(t.open) \in Nat /\ Len(t.open) >= 1
      /\ t.open[Len(t.open)] # "["
  BY NamePlace
<1>2. t.at \in PathSeqs
  BY Parts
<1>3. u.at \in PathSeqs /\ Len(u.at) = Len(t.open) /\ \A i \in 1..Len(t.open) - 1 : u.at[i] = t.at[i]
  <2>1. u.at \in PathSeqs /\ Len(u.at) = Len(t.at) + 1 /\ \A i \in 1..Len(t.at) : u.at[i] = t.at[i]
    BY <1>2, LongerPath
  <2>2. QED BY <1>1, <2>1
<1>4. InObject(u) /\ NameGiven(u)
  BY <1>1, InObjectSame DEF NameGiven
<1>5. CallsFit(u, v)
  <2>1. Len(u.at) >= Len(t.open) - 1 /\ Agree(u, t, Len(t.open) - 1)
    BY <1>1, <1>3 DEF Agree
  <2>2. QED BY <1>3, <2>1, CallsKept
<1>6. KeepsUp(u, v)
  BY DEF KeepsUp, PlaceOf
<1>7. \A i \in 1..Len(t.at) : t.open[i] = "[" => t.at[i] = "items"
  BY DEF Matches, WellFormed
<1>8. WellFormed(u)
  <2>1. ASSUME NEW i \in 1..Len(u.at), u.open[i] = "["
        PROVE  u.at[i] = "items"
    <3>1. i # Len(t.open)
      BY <1>1, <2>1
    <3>2. i \in 1..Len(t.at) /\ i \in 1..Len(t.open) - 1
      BY <1>1, <1>3, <3>1
    <3>3. QED BY <1>3, <1>7, <2>1, <3>2
  <2>2. Len(u.at) = Len(u.open) - (IF InObject(u) /\ ~NameGiven(u) THEN 1 ELSE 0)
    BY <1>1, <1>3, <1>4
  <2>3. QED BY <1>1, <1>4, <2>1, <2>2 DEF WellFormed
<1>9. QED BY <1>5, <1>6, <1>8 DEF Matches

\* What a name given again takes back had been said under it.
LEMMA Retaken ==
  ASSUME NEW t, NEW s, Matches(t, s), NEW path \in PathSeqs, path # <<>>, path \notin t.names,
         NEW p \in Paths, LeadsTo(path, p)
  PROVE  t.says[p] = Nowhere
<1>1. Len(path) \in Nat /\ Len(path) # 0 /\ Len(path) <= Len(p) /\ SubSeq(p, 1, Len(path)) = path
  BY EmptyIs DEF LeadsTo, PathSeqs
<1>2. p \in PathSeqs /\ Len(p) \in Nat
  BY PathsTyped DEF PathSeqs
<1>3. Len(path) \in 1..Len(p)
  BY <1>1, <1>2
<1>4. t.says[p] # Nowhere => \A k \in 1..Len(p) : SubSeq(p, 1, k) \in t.names
  BY DEF Matches, SaidFits
<1>5. QED BY <1>1, <1>3, <1>4

\* What the names and their values are after a name.
SaysAfter(t, path) == [p \in Paths |-> IF LeadsTo(path, p) THEN Nowhere ELSE t.says[p]]

\* A name that leads to a discriminator is remembered, and takes back what it had said.
LEMMA SaidAfter ==
  ASSUME NEW t, NEW s, Matches(t, s), NEW y \in Steps, NEW u, NEW v, NEW child \in Heads,
         u.at = Append(t.at, y), PathOf(child) = Append(t.at, y),
         u.says = SaysAfter(t, Append(t.at, y)), u.names = t.names \cup {Append(t.at, y)},
         u.twice = (t.twice \/ Append(t.at, y) \in t.names),
         v.values = s.values, v.seen = s.seen \cup {child}, v.ambiguous = (s.ambiguous \/ child \in s.seen)
  PROVE  SaidFits(u, v)
<1> DEFINE path == Append(t.at, y)
<1>1. t.at \in PathSeqs /\ Len(t.at) \in Nat /\ s \in Scans /\ t \in Texts
  BY Parts
<1>2. /\ path \in PathSeqs /\ Len(path) = Len(t.at) + 1 /\ path # <<>>
      /\ SubSeq(path, 1, Len(t.at) + 1) = path
      /\ \A k \in 1..Len(t.at) : SubSeq(path, 1, k) = SubSeq(t.at, 1, k)
  BY <1>1, LongerPath
<1>3. /\ s.ambiguous = t.twice /\ t.names = {PathOf(c) : c \in s.seen}
      /\ ~t.twice => t.says = s.values
      /\ \A k \in 1..Len(t.at) : Leading(SubSeq(t.at, 1, k)) => SubSeq(t.at, 1, k) \in t.names
      /\ \A p \in Paths : t.says[p] # Nowhere => \A k \in 1..Len(p) : SubSeq(p, 1, k) \in t.names
  BY DEF Matches, SaidFits
<1>4. s.seen \in SUBSET Heads /\ t.says \in SaidValues
  BY <1>1 DEF Scans, Texts
<1> HIDE DEF path
<1>5. path \in t.names <=> child \in s.seen
  <2>1. path = PathOf(child)
    BY DEF path
  <2>2. ASSUME path \in t.names
        PROVE  child \in s.seen
    <3>1. PICK c \in s.seen : PathOf(c) = path
      BY <1>3, <2>2
    <3>2. c = child
      BY <1>4, <2>1, <3>1, OneName
    <3>3. QED BY <3>1, <3>2
  <2>3. QED BY <1>3, <2>1, <2>2
<1>6. v.ambiguous = u.twice
  BY <1>3, <1>5 DEF path
<1>7. u.names = {PathOf(c) : c \in v.seen}
  <2>1. u.names = {PathOf(c) : c \in s.seen} \cup {PathOf(child)}
    BY <1>3
  <2>2. \A S, d : {PathOf(c) : c \in S \cup {d}} = {PathOf(c) : c \in S} \cup {PathOf(d)}
    OBVIOUS
  <2>3. QED BY <2>1, <2>2
<1>8. ~u.twice => u.says = v.values
  <2>1. ASSUME ~u.twice
        PROVE  u.says = s.values
    <3>1. path \notin t.names /\ t.says = s.values
      BY <1>3, <2>1 DEF path
    <3>2. \A p \in Paths : LeadsTo(path, p) => t.says[p] = Nowhere
      BY <1>2, <3>1, Retaken
    <3>3. u.says = [p \in Paths |-> t.says[p]]
      BY <3>2 DEF path, SaysAfter
    <3>4. QED BY <1>4, <3>1, <3>3 DEF SaidValues
  <2>2. QED BY <2>1
<1>9. ASSUME NEW k \in 1..Len(path), Leading(SubSeq(path, 1, k))
      PROVE  SubSeq(path, 1, k) \in t.names \cup {path}
  <2>1. CASE k \in 1..Len(t.at)
    BY <1>2, <1>3, <1>9, <2>1
  <2>2. CASE k \notin 1..Len(t.at)
    <3>1. k = Len(t.at) + 1
      BY <1>1, <1>2, <2>2
    <3>2. QED BY <1>2, <3>1
  <2>3. QED BY <2>1, <2>2
<1>10. ASSUME NEW p \in Paths, u.says[p] # Nowhere, NEW k \in 1..Len(p)
       PROVE  SubSeq(p, 1, k) \in t.names \cup {path}
  <2>1. t.says[p] # Nowhere
    BY <1>10 DEF SaysAfter
  <2>2. QED BY <1>3, <2>1
<1>11. u.at = path /\ u.names = t.names \cup {path}
  BY DEF path
<1>12. QED BY <1>6, <1>7, <1>8, <1>9, <1>10, <1>11 DEF SaidFits

\* A name, on both sides.
LEMMA NameMatches ==
  ASSUME agent \in Agents, NEW t, NEW s, Matches(t, s), s.at \in {"key", "key_or_end"},
         NEW x \in Symbols, IsString(x)
  PROVE  Matches(Written(t, x), Step(s, x))
<1> DEFINE u == Written(t, x)
           v == Step(s, x)
           path == Append(t.at, x)
           child == DiscriminatorPath(Last(s.calls).path, x)
<1>1. t \in Texts /\ s \in Scans /\ t.at \in PathSeqs
  BY Parts
<1>2. t.next = "name" /\ t.number = <<>> /\ s.calls # <<>> /\ Last(s.calls).path = NameOf(t.at)
  BY NamePlace
<1>3. x \in Words /\ x \in Steps
  BY StringIs DEF Steps
<1>4. /\ path \in PathSeqs /\ NameOf(path) = child /\ (Leading(path) <=> child # "?") /\ path # <<>>
      /\ child \in CallPaths
  BY <1>1, <1>2, <1>3, NameWithin, LongerPath, NameIs
<1>5. u = [Named(t, x) EXCEPT !.next = "colon", !.fresh = FALSE]
  <2>1. t.next = "name"
    BY <1>2
  <2>2. Written(t, x) = [Named(t, x) EXCEPT !.next = "colon", !.fresh = FALSE]
    BY <2>1, WrittenIs
  <2>3. QED BY <2>2
<1>6. v = Key(s, x)
  <2>1. x # "}"
    BY <1>3, WordsApart
  <2>2. QED BY <2>1 DEF Step
<1>7. /\ v \in Scans
      /\ v.calls = s.calls /\ v.at = "colon" /\ v.child = child /\ v.values = s.values
      /\ v.seen = (IF child = "?" THEN s.seen ELSE s.seen \cup {child})
      /\ v.ambiguous = (IF child = "?" THEN s.ambiguous ELSE s.ambiguous \/ child \in s.seen)
  <2>1. LET k == Key(s, x) IN
        /\ k \in Scans
        /\ k.calls = s.calls /\ k.at = "colon" /\ k.child = child /\ k.number = s.number /\ k.values = s.values
        /\ k.seen = (IF child = "?" THEN s.seen ELSE s.seen \cup {child})
        /\ k.ambiguous = (IF child = "?" THEN s.ambiguous ELSE s.ambiguous \/ child \in s.seen)
    BY <1>1, <1>2, <1>4, KeyIs
  <2> HIDE DEF child, v
  <2>2. QED BY <1>6, <2>1
<1> HIDE DEF u, v, child
<1>8. CASE Leading(path)
  <2> DEFINE twice == t.twice \/ path \in t.names
             says == SaysAfter(t, path)
  <2>1. Named(t, x) = [t EXCEPT !.at = path, !.says = says, !.names = @ \cup {path}, !.twice = twice]
    BY <1>8 DEF Named, SaysAfter
  <2>2. says \in SaidValues /\ twice \in BOOLEAN /\ t.names \cup {path} \in SUBSET PathSeqs
    BY <1>1, <1>4 DEF Texts, SaidValues, SaysAfter
  <2> HIDE DEF twice, says, path
  <2>3. /\ u \in Texts /\ u.open = t.open /\ u.next = "colon" /\ u.fresh = FALSE /\ u.at = path
        /\ u.number = t.number /\ u.says = says /\ u.names = t.names \cup {path} /\ u.twice = twice
    BY <1>1, <1>4, <1>5, <2>1, <2>2 DEF Texts, Wants
  <2>4. child # "?" /\ child \in Heads /\ PathOf(child) = path
    BY <1>4, <1>8, PathOfName
  <2>5. v.seen = s.seen \cup {child} /\ v.ambiguous = (s.ambiguous \/ child \in s.seen)
    BY <1>7, <2>4
  <2>6. SaidFits(u, v)
    BY <1>3, <1>7, <2>3, <2>4, <2>5, SaidAfter DEF path, says, twice
  <2>7. Matches(u, v)
    <3>1. u.at = Append(t.at, x)
      BY <2>3 DEF path
    <3>2. u \in Texts /\ u.open = t.open /\ u.next = "colon" /\ u.fresh = FALSE /\ u.number = <<>>
      BY <1>2, <2>3
    <3>3. v \in Scans /\ v.calls = s.calls /\ v.at = "colon" /\ v.child = NameOf(u.at)
      BY <1>4, <1>7, <2>3
    <3>4. QED BY <1>3, <2>6, <3>1, <3>2, <3>3, NamedMatches
  <2>8. QED BY <2>7 DEF u, v
<1>9. CASE ~Leading(path)
  <2> DEFINE other == Append(t.at, "other")
  <2>1. Named(t, x) = [t EXCEPT !.at = other]
    BY <1>9 DEF Named
  <2>2. "other" \in Steps
    BY DEF Steps
  <2>3. other \in PathSeqs /\ NameOf(other) = "?" /\ ~Leading(other)
    <3>1. DiscriminatorPath(NameOf(t.at), "other") = "?"
      BY DEF DiscriminatorPath
    <3>2. QED BY <1>1, <2>2, <3>1, NameWithin
  <2>4. child = "?"
    BY <1>4, <1>9
  <2> HIDE DEF other, path
  <2>5. /\ u \in Texts /\ u.open = t.open /\ u.next = "colon" /\ u.fresh = FALSE /\ u.at = other
        /\ u.number = t.number /\ u.says = t.says /\ u.names = t.names /\ u.twice = t.twice
    BY <1>1, <1>5, <2>1, <2>3 DEF Texts, Wants
  <2>6. v.seen = s.seen /\ v.ambiguous = s.ambiguous
    BY <1>7, <2>4
  <2>7. ASSUME NEW k \in 1..Len(other)
        PROVE  (k <= Len(t.at) /\ Agree(u, t, k)) \/ ~Leading(SubSeq(other, 1, k))
    <3>1. /\ Len(t.at) \in Nat /\ Len(other) = Len(t.at) + 1 /\ SubSeq(other, 1, Len(t.at) + 1) = other
          /\ \A i \in 1..Len(t.at) : other[i] = t.at[i]
      BY <1>1, <2>2, LongerPath DEF other
    <3>2. CASE k \in 1..Len(t.at)
      <4>1. k <= Len(t.at) /\ \A i \in 1..k : i \in 1..Len(t.at)
        BY <3>1, <3>2
      <4>2. QED BY <2>5, <3>1, <4>1 DEF Agree
    <3>3. CASE k \notin 1..Len(t.at)
      <4>1. k = Len(t.at) + 1
        BY <3>1, <3>3
      <4>2. QED BY <2>3, <3>1, <4>1
    <3>4. QED BY <3>2, <3>3
  <2>8. SaidFits(u, v)
    BY <1>7, <2>3, <2>5, <2>6, <2>7, SaidKept
  <2>9. v.child = NameOf(u.at)
    BY <1>7, <2>3, <2>4, <2>5
  <2>10. Matches(u, v)
    <3>1. u.at = Append(t.at, "other")
      BY <2>5 DEF other
    <3>2. u \in Texts /\ u.open = t.open /\ u.next = "colon" /\ u.fresh = FALSE /\ u.number = <<>>
      BY <1>2, <2>5
    <3>3. v \in Scans /\ v.calls = s.calls /\ v.at = "colon"
      BY <1>7
    <3>4. QED BY <2>2, <2>8, <2>9, <3>1, <3>2, <3>3, NamedMatches
  <2>11. QED BY <2>10 DEF u, v
<1>10. QED BY <1>8, <1>9

\* A bracket that opens.
LEMMA BracketMatches ==
  ASSUME agent \in Agents, NEW t, NEW s, Matches(t, s), NEW x \in Symbols, x \in Brackets,
         s.at \in {"object", "value", "item", "item_or_end"}, May(t, x)
  PROVE  Matches(Written(t, x), Step(s, x))
<1>0. s \in Scans /\ t.at \in PathSeqs /\ Len(t.at) \in Nat /\ Len(s.calls) = Len(t.open)
  BY Parts
<1>1. Written(t, x) = Opened(t, x)
  BY WrittenIs
<1>2. x \notin {"]", "null", "-", "0", "1"} /\ ~IsString(x)
  <2>1. x \notin {"]", "null", "-", "0", "1"}
    BY DEF Brackets
  <2>2. ~IsString(x)
    BY StringIs, WordsApart DEF Brackets
  <2>3. QED BY <2>1, <2>2
<1>3. IsBrace(x) <=> x = "{"
  BY Zenon DEF IsBrace
<1>4. "root" \in CallPaths /\ "?" \in CallPaths
  BY DEF CallPaths
<1>5. CASE s.at = "object"
  <2>1. t.open = <<>> /\ t.number = <<>> /\ ~NameGiven(t)
    BY <1>5 DEF Matches, KeepsUp, PlaceOf, WellFormed, NameGiven, Texts, Wants
  <2>2. Len(s.calls) = 0 /\ Len(t.open) = 0 /\ ~InObject(t)
    BY <2>1, OutsideIs
  <2>3. Len(t.at) = 0
    <3>1. Len(t.at) = Len(t.open) - (IF InObject(t) /\ ~NameGiven(t) THEN 1 ELSE 0)
      BY Parts
    <3>2. (IF InObject(t) /\ ~NameGiven(t) THEN 1 ELSE 0) = 0
      BY <2>2
    <3> DEFINE c == IF InObject(t) /\ ~NameGiven(t) THEN 1 ELSE 0
    <3>3. Len(t.at) = Len(t.open) - c /\ c = 0
      BY <3>1, <3>2
    <3> HIDE DEF c
    <3>4. QED BY <2>2, <3>3
  <2>4. x = "{"
    BY <1>5, Wanted
  <2>5. Step(s, x) = Call(s, "object", "root", "key_or_end")
    BY <1>5, <2>4 DEF Step
  <2>6. NameOf(t.at) = "root"
    BY <1>0, <2>3, NameIs
  <2>7. Len(s.calls) < MaxDepth
    BY <2>2, LongLineAssumption
  <2>8. IsBrace(x)
    BY <1>3, <2>4
  <2>9. QED BY <1>0, <1>1, <1>4, <2>1, <2>2, <2>3, <2>5, <2>6, <2>7, <2>8, OpenMatches
<1>6. CASE s.at \in {"value", "item", "item_or_end"}
  <2>1. AtValue(t) /\ \E r \in Scans :
          /\ Step(s, x) = Value(r, NameOf(t.at), x)
          /\ r.calls = s.calls /\ r.values = s.values /\ r.seen = s.seen /\ r.ambiguous = s.ambiguous
    BY <1>2, <1>6, PathHanded
  <2>2. PICK r \in Scans :
          /\ Step(s, x) = Value(r, NameOf(t.at), x)
          /\ r.calls = s.calls /\ r.values = s.values /\ r.seen = s.seen /\ r.ambiguous = s.ambiguous
    BY <2>1
  <2>3. t.number = <<>> /\ Len(t.at) = Len(t.open) /\ NameOf(t.at) \in CallPaths
    BY <2>1 DEF AtValue
  <2>4. Len(s.calls) < MaxDepth
    <3>1. Len(t.open) < MaxDepth
      BY <1>2, <1>6, Wanted
    <3>2. QED BY <1>0, <3>1
  <2>5. CASE x = "{"
    <3>1. Step(s, x) = Call(r, "object", NameOf(t.at), "key_or_end")
      BY <1>2, <2>2, <2>5 DEF Value
    <3>2. IsBrace(x)
      BY <1>3, <2>5
    <3>3. QED BY <1>1, <2>2, <2>3, <2>4, <3>1, <3>2, OpenMatches
  <2>6. CASE x # "{"
    <3>1. x = "["
      BY <2>6 DEF Brackets
    <3>2. Step(s, x) = Call(r, "array", "?", "item_or_end")
      BY <1>2, <2>2, <3>1 DEF Value
    <3>3. ~IsBrace(x)
      BY <1>3, <2>6
    <3>4. QED BY <1>1, <1>4, <2>2, <2>3, <2>4, <3>2, <3>3, OpenMatches
  <2>7. QED BY <2>5, <2>6
<1>7. QED BY <1>5, <1>6

\* A value, or what closes the array where none stands.
LEMMA PlaceMatches ==
  ASSUME agent \in Agents, NEW t, NEW s, Matches(t, s), NEW x \in Symbols, May(t, x),
         s.at \in {"value", "item", "item_or_end"}
  PROVE  Matches(Written(t, x), Step(s, x))
<1>1. CASE x = "]"
  <2>1. s.at = "item_or_end"
    <3>1. ~IsString(x) /\ x \notin Brackets
      <4>1. ~IsString(x)
        BY <1>1, StringIs, WordsApart
      <4>2. x \notin Brackets
        BY <1>1 DEF Brackets
      <4>3. QED BY <4>1, <4>2
    <3>2. x \notin {"null", "-", "0", "1"}
      BY <1>1
    <3>3. QED BY <3>1, <3>2, Wanted
  <2>2. ~InObject(t)
    BY <2>1 DEF Matches, KeepsUp, PlaceOf, Texts, Wants
  <2>3. Step(s, x) = Return(s)
    BY <1>1, <2>1 DEF Step
  <2>4. Written(t, x) = Closed(t)
    BY <1>1, WrittenIs
  <2>5. t.open # <<>> /\ s \in Scans
    BY <2>1, PlaceOpen, Parts
  <2>6. QED BY <2>2, <2>3, <2>4, <2>5, CloseMatches
<1>2. CASE x \in Brackets
  BY <1>2, BracketMatches
<1>3. CASE x # "]" /\ x \notin Brackets
  <2>1. AtValue(t) /\ \E r \in Scans :
          /\ Step(s, x) = Value(r, NameOf(t.at), x)
          /\ r.calls = s.calls /\ r.values = s.values /\ r.seen = s.seen /\ r.ambiguous = s.ambiguous
    BY <1>3, PathHanded
  <2>2. PICK r \in Scans :
          /\ Step(s, x) = Value(r, NameOf(t.at), x)
          /\ r.calls = s.calls /\ r.values = s.values /\ r.seen = s.seen /\ r.ambiguous = s.ambiguous
    BY <2>1
  <2>3. IsString(x) \/ x \in {"null", "-", "0", "1"}
    BY <1>3, Wanted
  <2>4. CASE IsString(x)
    BY <2>1, <2>2, <2>4, StringMatches
  <2>5. CASE x = "null"
    BY <2>1, <2>2, <2>5, NullMatches
  <2>6. CASE x \in {"-", "0", "1"}
    BY <2>1, <2>2, <2>6, NumberStarts
  <2>7. QED BY <2>3, <2>4, <2>5, <2>6
<1>4. QED BY <1>1, <1>2, <1>3

\* What follows a value, or ends a number.
LEMMA AfterMatches ==
  ASSUME agent \in Agents, NEW t, NEW s, Matches(t, s), NEW x \in Symbols, May(t, x),
         s.at \in {"more", "number"}
  PROVE  Matches(Written(t, x), Step(s, x))
<1> DEFINE closing == IF InObject(t) THEN "}" ELSE "]"
<1>1. t.next = "more" /\ t.open # <<>>
  <2>1. t.next = "more"
    BY DEF Matches, KeepsUp, PlaceOf, WellFormed, Texts, Wants
  <2>2. QED BY <2>1, PlaceOpen
<1>2. CASE t.number # <<>> /\ Extends(t.number, x)
  BY <1>2, NumberMatches
<1>3. CASE ~(t.number # <<>> /\ Extends(t.number, x))
  <2>1. x = "," \/ x = closing
    <3>1. s.at = "number" => t.number # <<>>
      BY DEF Matches, KeepsUp, PlaceOf, Texts, Wants
    <3>2. QED BY <1>3, <3>1, Wanted
  <2>2. CASE x = ","
    BY <2>2, CommaMatches
  <2>3. CASE x = closing
    <3>1. x \in Marks /\ x \in {"}", "]"}
      BY <2>3 DEF Marks
    <3>2. PICK r \in Scans :
            /\ Step(s, x) = More(r, x)
            /\ r.calls = s.calls /\ r.child = s.child /\ r.values = s.values /\ r.seen = s.seen
            /\ r.ambiguous = s.ambiguous
      BY <3>1, MoreIs
    <3>3. Last(r.calls).kind = IF InObject(t) THEN "object" ELSE "array"
      BY <1>1, <3>2, InnermostIs
    <3>4. x = (IF Last(r.calls).kind = "object" THEN "}" ELSE "]") /\ x # ","
      BY <2>3, <3>3
    <3>5. More(r, x) = Return(r)
      BY <3>4 DEF More
    <3>6. Written(t, x) = Closed(t)
      BY <3>1, WrittenIs
    <3>7. ~NameGiven(t)
      BY <1>1 DEF NameGiven
    <3>8. QED BY <1>1, <3>2, <3>5, <3>6, <3>7, CloseMatches
  <2>4. QED BY <2>1, <2>2, <2>3
<1>4. QED BY <1>2, <1>3

\* The reader follows every symbol that may be written.
LEMMA StepMatches ==
  ASSUME agent \in Agents, NEW t, NEW s, Matches(t, s), NEW x \in Symbols, May(t, x)
  PROVE  Matches(Written(t, x), Step(s, x))
<1>1. s.at \in {"object", "key_or_end", "key", "colon", "value", "item_or_end", "item", "number", "more"}
  BY Wanted
<1>2. CASE s.at = "object"
  <2>1. x = "{"
    BY <1>2, Wanted
  <2>2. x \in Brackets
    BY <2>1 DEF Brackets
  <2>3. QED BY <1>2, <2>2, BracketMatches
<1>3. CASE s.at \in {"key", "key_or_end"} /\ IsString(x)
  BY <1>3, NameMatches
<1>4. CASE s.at \in {"key", "key_or_end"} /\ ~IsString(x)
  <2>1. s.at = "key_or_end" /\ x = "}"
    BY <1>4, Wanted
  <2>2. t.next = "name" /\ t.open # <<>>
    BY <1>4, NamePlace
  <2>3. ~NameGiven(t)
    BY <2>2 DEF NameGiven
  <2>4. Step(s, x) = Return(s)
    BY <2>1 DEF Step
  <2>5. Written(t, x) = Closed(t)
    BY <2>1, WrittenIs
  <2>6. s \in Scans
    BY Parts
  <2>7. QED BY <2>2, <2>3, <2>4, <2>5, <2>6, CloseMatches
<1>5. CASE s.at = "colon"
  <2>1. x = ":"
    BY <1>5, Wanted
  <2>2. QED BY <1>5, <2>1, ColonMatches
<1>6. CASE s.at \in {"value", "item", "item_or_end"}
  BY <1>6, PlaceMatches
<1>7. CASE s.at \in {"more", "number"}
  BY <1>7, AfterMatches
<1>8. QED BY <1>1, <1>2, <1>3, <1>4, <1>5, <1>6, <1>7

\* A line that has not begun.
LEMMA StartMatches == Matches(Blank, Started)
<1>1. Silent \in SaidValues /\ \A p \in Paths : Silent[p] = Nowhere
  BY DEF Silent, SaidValues
<1> DEFINE t == Blank
           s == Started
<1>2. <<>> \in Opens /\ <<>> \in PathSeqs /\ <<>> \in Numerals /\ <<>> \in CallSeqs
  <2>1. <<>> \in Opens
    BY DEF Opens
  <2>2. <<>> \in PathSeqs
    BY DEF PathSeqs
  <2>3. <<>> \in CallSeqs
    BY DEF CallSeqs
  <2>4. QED BY <2>1, <2>2, <2>3, NoNumber
<1> DEFINE none == <<>>
           silent == Silent
<1>3. none \in Opens /\ none \in PathSeqs /\ none \in Numerals /\ none \in CallSeqs
  BY <1>2
<1>4. /\ t.open = none /\ t.next = "object" /\ t.fresh = FALSE /\ t.at = none /\ t.number = none
      /\ t.says = silent /\ t.names = {} /\ t.twice = FALSE
      /\ t = [open |-> none, next |-> "object", fresh |-> FALSE, at |-> none, number |-> none,
              says |-> silent, names |-> {}, twice |-> FALSE]
  BY DEF Blank
<1>5. /\ s.calls = none /\ s.at = "object" /\ s.child = Nowhere /\ s.number = 0 /\ s.values = silent
      /\ s.seen = {} /\ s.ambiguous = FALSE
      /\ s = [calls |-> none, at |-> "object", child |-> Nowhere, number |-> 0,
              values |-> silent, seen |-> {}, ambiguous |-> FALSE]
  BY DEF Started
<1>6. Len(none) = 0
  OBVIOUS
<1>7. silent \in SaidValues /\ \A p \in Paths : silent[p] = Nowhere
  BY <1>1
<1>9. none = <<>>
  OBVIOUS
<1> HIDE DEF t, s, none, silent
<1>10. t \in Texts
  BY <1>3, <1>4, <1>7 DEF Texts, Wants
<1>11. s \in Scans
  BY <1>3, <1>5, <1>7 DEF Scans, Places
<1>12. ~InObject(t) /\ ~NameGiven(t)
  BY <1>4, <1>9 DEF InObject, NameGiven
<1>13. WellFormed(t)
  <2>1. Len(t.at) = Len(t.open) - (IF InObject(t) /\ ~NameGiven(t) THEN 1 ELSE 0)
    <3>1. (IF InObject(t) /\ ~NameGiven(t) THEN 1 ELSE 0) = 0
      BY <1>12
    <3>2. Len(t.at) = 0 /\ Len(t.open) = 0
      BY <1>4, <1>6
    <3> DEFINE c == IF InObject(t) /\ ~NameGiven(t) THEN 1 ELSE 0
    <3>3. c = 0
      BY <3>1
    <3> HIDE DEF c
    <3>4. Len(t.at) = Len(t.open) - c
      BY <3>2, <3>3
    <3>5. QED BY <3>4 DEF c
  <2>2. t.open = <<>> /\ t.number = <<>>
    BY <1>4, <1>9
  <2>3. \A i \in 1..Len(t.at) : t.open[i] = "[" => t.at[i] = "items"
    BY <1>4, <1>6
  <2>4. QED BY <1>4, <2>1, <2>2, <2>3 DEF WellFormed
<1>14. CallsFit(t, s)
  BY <1>4, <1>5, <1>6 DEF CallsFit
<1>15. KeepsUp(t, s)
  BY <1>4, <1>5, <1>9, <1>12 DEF KeepsUp, PlaceOf
<1>16. SaidFits(t, s)
  BY <1>4, <1>5, <1>6, <1>7 DEF SaidFits
<1>17. QED BY <1>10, <1>11, <1>13, <1>14, <1>15, <1>16 DEF Matches, t, s

\* What is irrelevant would have recorded nothing.
LEMMA IrrelevantUnrecorded ==
  ASSUME agent \in Agents, NEW says, Irrelevant(says)
  PROVE  ~Recorded(says)
<1>1. CASE agent = "codex"
  BY <1>1 DEF Irrelevant, Recorded, Consumption
<1>2. CASE agent = "pi"
  BY <1>2 DEF Irrelevant, Recorded, Consumption
<1>3. CASE agent = "claude"
  BY <1>3 DEF Irrelevant, Recorded, Consumption
<1>4. QED BY <1>1, <1>2, <1>3 DEF Agents

\* What the reader says of a line.
LEMMA OutcomeIs ==
  ASSUME NEW s, NEW tail \in BOOLEAN
  PROVE  /\ Outcome(s, tail) = "skipped" <=> s.at = "end" /\ ~s.ambiguous /\ Irrelevant(s.values)
         /\ Outcome(s, tail) = "waits" <=> tail /\ s.at # "end"
BY DEF Outcome

LongLineInv == agent \in Agents /\ Matches(text, scan)

\* It is so before the first line.
LEMMA LongLineStarts ==
  ASSUME LongLineInit
  PROVE  LongLineInv
BY StartMatches DEF LongLineInit, LongLineInv, Agents

\* Every symbol and every new line keep it.
LEMMA LongLineKept ==
  ASSUME LongLineInv, [LongLineNext]_longLineVars
  PROVE  LongLineInv'
<1>1. agent \in Agents /\ Matches(text, scan)
  BY DEF LongLineInv
<1>2. CASE NextLine
  <2>1. text' = Blank /\ scan' = Started /\ agent' = agent
    BY <1>2 DEF NextLine
  <2>2. Matches(text', scan')
    BY <2>1, StartMatches
  <2>3. QED BY <1>1, <2>1, <2>2 DEF LongLineInv
<1>3. ASSUME NEW x \in Symbols, WriteSymbol(x)
      PROVE  LongLineInv'
  <2>1. May(text, x) /\ text' = Written(text, x) /\ scan' = Step(scan, x) /\ agent' = agent
    BY <1>3 DEF WriteSymbol
  <2>2. Matches(Written(text, x), Step(scan, x))
    BY <1>1, <2>1, StepMatches
  <2>3. Matches(text', scan')
    BY <2>1, <2>2
  <2>4. QED BY <1>1, <2>1, <2>3 DEF LongLineInv
<1>4. CASE UNCHANGED longLineVars
  BY <1>1, <1>4 DEF longLineVars, LongLineInv
<1>5. QED BY <1>2, <1>3, <1>4 DEF LongLineNext

\* What is read is what is written, so what is skipped is irrelevant.
LEMMA LongLineSays ==
  ASSUME LongLineInv
  PROVE  SkipsOnlyTheIrrelevant
<1>1. agent \in Agents /\ Matches(text, scan)
  BY DEF LongLineInv
<1>2. \A x \in Symbols : May(text, x) <=> Step(scan, x).at # "invalid"
  BY <1>1, Taken
<1>3. Whole <=> scan.at = "end"
  <2>1. scan.at = PlaceOf(text) /\ (text.number # <<>> => text.next = "more") /\ text.next \in Wants
    BY <1>1 DEF Matches, KeepsUp, WellFormed, Texts
  <2>2. QED BY <2>1 DEF Whole, PlaceOf, Wants
<1>4. scan.ambiguous = text.twice /\ (~text.twice => text.says = scan.values)
  BY <1>1 DEF Matches, SaidFits
<1>5. text.twice \in BOOLEAN /\ scan.ambiguous \in BOOLEAN
  BY <1>1 DEF Matches, Texts, Scans
<1>6. ASSUME NEW tail \in BOOLEAN
      PROVE  /\ Outcome(scan, tail) = "skipped" <=> Whole /\ ~text.twice /\ Irrelevant(text.says)
             /\ Outcome(scan, tail) = "skipped" => ~Recorded(text.says)
             /\ Outcome(scan, tail) = "waits" <=> tail /\ ~Whole
  <2>1. /\ Outcome(scan, tail) = "skipped" <=> scan.at = "end" /\ ~scan.ambiguous /\ Irrelevant(scan.values)
        /\ Outcome(scan, tail) = "waits" <=> tail /\ scan.at # "end"
    BY OutcomeIs
  <2>2. Irrelevant(text.says) => ~Recorded(text.says)
    BY <1>1, IrrelevantUnrecorded
  <2>3. QED BY <1>3, <1>4, <1>5, <2>1, <2>2
<1>7. QED BY <1>2, <1>3, <1>6 DEF SkipsOnlyTheIrrelevant

\* However deep, and whatever names come again: the stream parser takes what JSON allows,
\* and skips only what would have recorded nothing (extract_stream.go).
THEOREM LongLinesSkipped == LongLineSpec => []SkipsOnlyTheIrrelevant
<1>1. LongLineInit => LongLineInv
  BY LongLineStarts
<1>2. LongLineInv /\ [LongLineNext]_longLineVars => LongLineInv'
  BY LongLineKept
<1>3. LongLineInv => SkipsOnlyTheIrrelevant
  BY LongLineSays
<1>4. QED BY <1>1, <1>2, <1>3, PTL DEF LongLineSpec
=============================================================================
