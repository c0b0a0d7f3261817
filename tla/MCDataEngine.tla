---------------------------- MODULE MCDataEngine ----------------------------
(* Small instances of DataEngine: a parent session, a child that names it, and
   an unrelated session that later records link to the parent or to the child. *)
EXTENDS DataEngine, Sequences, TLC

CONSTANTS parent, child, other, rChild, rParent, rOther, rSibling, rLink

MCScopeOf == rChild :> child @@ rParent :> parent @@ rOther :> other
             @@ rSibling :> other @@ rLink :> other
MCParentsOf == rChild :> {parent} @@ rParent :> {} @@ rOther :> {}
               @@ rSibling :> {parent} @@ rLink :> {child}

Send(stream, id, from, entries) ==
  [stream |-> stream, id |-> id, from |-> from, entries |-> entries]

\* One collector; the store does not insist on the order of its batches.
Families    == {Send(1, 1, 1, <<rChild, rParent>>), Send(1, 2, 3, <<rOther>>)}
LateParent  == {Send(1, 1, 1, <<rChild>>), Send(1, 2, 2, <<rParent>>)}
LateLink    == LateParent \cup {Send(1, 3, 3, <<rOther>>), Send(1, 4, 4, <<rLink>>)}
LateSibling == LateLink \cup {Send(1, 5, 5, <<rSibling>>)}

\* A second collector that captured the same history, a batch id used for other
\* content, and a sequence bound to another record.
Disputed == LateLink \cup
  {Send(2, 1, 1, <<rChild, rParent>>), Send(1, 1, 3, <<rOther>>), Send(1, 3, 2, <<rOther, rLink>>)}
=============================================================================
