---------------------------- MODULE TokenHistory ----------------------------
(***************************************************************************)
(* What the Token database promises its viewers, whatever the processor    *)
(* does underneath: evidence is only ever added; what viewers read was     *)
(* computed from accepted evidence and never from less of it than before;  *)
(* the revision they poll moves exactly forward and with every change; and *)
(* in the end they read everything that was accepted.                      *)
(***************************************************************************)
EXTENDS Integers

CONSTANTS Scopes, Records, ScopeOf

VARIABLES
  evidence,   \* the accepted records
  visible,    \* the evidence behind what viewers read, by scope
  revision    \* the revision viewers poll

historyVars == <<evidence, visible, revision>>

Init ==
  /\ evidence = {}
  /\ visible = [s \in Scopes |-> {}]
  /\ revision = 0

\* A batch brings new evidence; viewers notice nothing yet.
Receive ==
  /\ evidence' \in SUBSET Records
  /\ evidence \subseteq evidence' /\ evidence # evidence'
  /\ UNCHANGED <<visible, revision>>

\* Viewers get to read more: in place, or by switching to a rebuilt history.
Show ==
  /\ visible' \in [Scopes -> SUBSET evidence]
  /\ \A s \in Scopes : visible[s] \subseteq visible'[s]
  /\ revision' = revision + 1
  /\ UNCHANGED evidence

Next == Receive \/ Show

ShowsEverything == \A r \in evidence : r \in visible[ScopeOf[r]]

\* The step after which viewers are up to date.
CatchUp == ~ShowsEverything /\ Show /\ ShowsEverything'

\* Viewers are not kept from accepted evidence for ever.
Spec == Init /\ [][Next]_historyVars /\ WF_historyVars(CatchUp)
=============================================================================
