----------------------------- MODULE Replication -----------------------------
(***************************************************************************)
(* What delivery promises: whatever is lost, repeated or replaced on the   *)
(* way, a token database holds an initial part of the collector's journal, *)
(* in its order and without gaps, and in the end all of it.                *)
(***************************************************************************)
EXTENDS Integers, Sequences

CONSTANTS Records

VARIABLES
  journal,   \* what was captured, in order
  copy       \* what the token database accepted of it

replicationVars == <<journal, copy>>

Init == journal = << >> /\ copy = << >>

\* A capture adds observations that are not in the journal yet.
Capture ==
  /\ \E n \in 1..Len(journal') :
       journal = SubSeq(journal', 1, Len(journal') - n)
  /\ \A i, j \in DOMAIN journal' : journal'[i] = journal'[j] => i = j
  /\ UNCHANGED copy

\* The copy grows along the journal.
Copy ==
  /\ \E n \in Len(copy) + 1 .. Len(journal) : copy' = SubSeq(journal, 1, n)
  /\ UNCHANGED journal

\* A new token database starts from the beginning; so does a new collector.
NewDatabase  == copy' = << >> /\ UNCHANGED journal
NewCollector == journal' = << >> /\ copy' = << >>

Next == Capture \/ Copy \/ NewDatabase \/ NewCollector

Spec == Init /\ [][Next]_replicationVars /\ WF_replicationVars(Copy)
=============================================================================
