----------------------------- MODULE MCDelivery -----------------------------
(***************************************************************************)
(* Small instances of the two things a viewer's refresh waits for, each    *)
(* explored on its own: `part` names the one that runs, and the other      *)
(* stays as it began.  Delivery has a few records of one session.          *)
(***************************************************************************)
EXTENDS Delivery, SharedCapture

CONSTANTS
  session,
  plain, refresh, other        \* captures: one plain, one full, one elsewhere

VARIABLE part

MCScopeOf == [r \in Records |-> session]
MCParentsOf == [r \in Records |-> {}]
MCDir == [c \in Callers |-> IF c = other THEN "elsewhere" ELSE "default"]

MCInit == part \in {"delivery", "captures"} /\ Init /\ SharedInit

MCNext ==
  /\ UNCHANGED part
  /\ \/ part = "delivery" /\ Next /\ UNCHANGED sharedVars
     \/ part = "captures" /\ SharedNext /\ UNCHANGED deliveryVars

\* Fairness and SharedFairness, each for the one that runs.
MCFairness ==
  /\ WF_deliveryVars(part = "delivery" /\ Open)
  /\ \A p \in Runs :
       /\ WF_deliveryVars(part = "delivery" /\ Start(p))
       /\ WF_deliveryVars(part = "delivery" /\ (Proceed(p) \/ (Fails(p) /\ GiveUp(p))))
  /\ WF_sharedVars(part = "captures" /\ Return)
  /\ WF_sharedVars(part = "captures" /\ FollowUp)
  /\ WF_sharedVars(part = "captures" /\ Done)
  /\ WF_sharedVars(part = "captures" /\ JoinCaptures)
  /\ WF_sharedVars(part = "captures" /\ Close)
  /\ \A c \in Callers : WF_sharedVars(part = "captures" /\ Answer(c))

MCSpec == MCInit /\ [][MCNext]_<<deliveryVars, sharedVars, part>> /\ MCFairness
=============================================================================
