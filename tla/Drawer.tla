------------------------------- MODULE Drawer -------------------------------
(***************************************************************************)
(* The drawers of the terminal dashboard (table.go, desk.go): menus whose  *)
(* choice is applied at once, and the filter values, a draft that is only  *)
(* applied on Enter while the values it is chosen from are read, and read  *)
(* again whenever a publication is observed.                               *)
(*                                                                         *)
(* Filter values are keys 1..NumKeys.  A model is listed by its key; a     *)
(* repository by a label, which numbers those of the same name in the      *)
(* order they are offered, or, before it has a label, by its key.          *)
(***************************************************************************)
EXTENDS Naturals, FiniteSets, Sequences

CONSTANTS
  NumKeys,          \* values of a dimension
  Options,          \* number of choices of each menu, by tab
  MaxOpened,        \* bound on drawers opened
  MaxObserved       \* bound on publications observed

Menus == {"range", "bucket", "sort", "repoGroup"}
Tabs == {"usage", "repo"}
Dimensions == {"model", "repository"}
Keys == 1..NumKeys

ASSUME DrawerAssumption ==
  /\ NumKeys \in Nat /\ MaxOpened \in Nat /\ MaxObserved \in Nat
  /\ \A p \in Menus, t \in Tabs : Options[p][t] \in Nat \ {0}

VARIABLES
  drawer,           \* popup, tab, cursor, and what the filter values need
  chosen,           \* the applied filters, by dimension
  picked,           \* and the applied choice of each menu
  facets,           \* the current read of the values: none, asked or failed, or what it read
  offered,          \* the values in the backend
  ready,            \* whether the backend answers: a poll or a read said so, and none said otherwise since
  opened, observed

drawerVars == <<drawer, chosen, picked, facets, offered, ready, opened, observed>>

Nothing == <<>>     \* the empty map

NoFacets == [at |-> "none", offered |-> {}]
Asked == [at |-> "asked", offered |-> {}]

\* What lists a key before its label is known.
RawItem(dimension, k) == IF dimension = "repository" THEN NumKeys + k ELSE k

CurrentItems(dimension) == {RawItem(dimension, k) : k \in chosen[dimension]}

\* Ascending: at each place the item that so many are below.
Sorted(items) ==
  [place \in 1..Cardinality(items) |-> CHOOSE i \in items : Cardinality({k \in items : k < i}) = place - 1]

Checked(w, i) == i \in DOMAIN w.draft /\ w.draft[i]

\* The repositories offered, by label (locationFilterLabels).
Labels(keys) == Sorted(keys)

MoveCursor(cursor, length, up) ==
  IF length = 0 THEN 0 ELSE IF up THEN (cursor + 1) % length ELSE (cursor + length - 1) % length

ClampCursor(cursor, length) == IF length = 0 THEN 0 ELSE IF cursor >= length THEN length - 1 ELSE cursor

FilterItems(tab) == IF tab = "repo" THEN 6 ELSE 4

Length(w) ==
  CASE w.popup = "filters" -> FilterItems(w.tab)
    [] w.popup \in Menus   -> Options[w.popup][w.tab]
    [] w.popup = "values"  -> Len(w.values)
    [] OTHER -> 0

-----------------------------------------------------------------------------
(* Keys *)

Unapplied == UNCHANGED <<chosen, picked, offered, ready, observed>>

\* Tabs and the digits, while no drawer is open.
SwitchTab ==
  /\ drawer.popup = "none"
  /\ \E t \in Tabs \ {drawer.tab} : drawer' = [drawer EXCEPT !.tab = t]
  /\ UNCHANGED <<facets, opened>> /\ Unapplied

OpenFilters ==
  /\ drawer.popup = "none" /\ opened < MaxOpened /\ opened' = opened + 1
  /\ drawer' = [drawer EXCEPT !.popup = "filters", !.cursor = 0]
  /\ UNCHANGED facets /\ Unapplied

\* d, g and s, and the first line of the filters.  A choice the tab does not
\* have stands first.
OpenMenu(p) ==
  /\ p = "repoGroup" => drawer.tab = "repo"
  /\ p = "bucket" => drawer.tab # "repo"
  /\ \/ drawer.popup = "none" /\ opened < MaxOpened /\ opened' = opened + 1
     \/ p = "range" /\ drawer.popup = "filters" /\ drawer.cursor = 0 /\ UNCHANGED opened
  /\ drawer' = [drawer EXCEPT !.popup = p,
                  !.cursor = IF picked[p] < Options[p][drawer.tab] THEN picked[p] ELSE 0]
  /\ UNCHANGED facets /\ Unapplied

\* p, m, h, and a line of the filters.  Nothing is asked of a backend that is not
\* ready: the drawer loads until a publication, or the loss of one, is told.
OpenFilterValues(dimension) ==
  /\ dimension = "repository" => drawer.tab = "repo"
  /\ \/ /\ drawer.popup = "none" /\ dimension = "model"
        /\ opened < MaxOpened /\ opened' = opened + 1
     \/ /\ drawer.popup = "filters" /\ drawer.cursor = (IF dimension = "model" THEN 2 ELSE 4)
        /\ UNCHANGED opened
  /\ drawer' = [drawer EXCEPT !.popup = "values", !.dimension = dimension, !.cursor = 0,
                  !.values = <<>>, !.keyOf = Nothing,
                  !.draft = [i \in CurrentItems(dimension) |-> TRUE], !.loading = TRUE, !.err = FALSE]
  /\ facets' = IF ready THEN Asked ELSE facets
  /\ Unapplied

MoveHighlight(up) ==
  /\ drawer.popup # "none"
  /\ drawer' = [drawer EXCEPT !.cursor = MoveCursor(@, Length(drawer), up)]
  /\ UNCHANGED <<facets, opened>> /\ Unapplied

CloseDrawer ==
  /\ drawer.popup # "none"
  /\ drawer' = [drawer EXCEPT !.popup = "none"]
  /\ UNCHANGED <<facets, opened>> /\ Unapplied

Pick ==
  /\ drawer.popup \in Menus
  /\ picked' = [picked EXCEPT ![drawer.popup] = drawer.cursor]
  /\ drawer' = [drawer EXCEPT !.popup = "none"]
  /\ UNCHANGED <<chosen, facets, offered, ready, opened, observed>>

Toggle ==
  /\ drawer.popup = "values" /\ drawer.values # <<>>
  /\ LET i == drawer.values[drawer.cursor + 1] IN
     drawer' = [drawer EXCEPT !.draft = [j \in DOMAIN @ \cup {i} |-> IF j = i THEN ~Checked(drawer, i) ELSE @[j]]]
  /\ UNCHANGED <<facets, opened>> /\ Unapplied

\* c
ClearDraft ==
  /\ drawer.popup = "values"
  /\ drawer' = [drawer EXCEPT !.draft = Nothing]
  /\ UNCHANGED <<facets, opened>> /\ Unapplied

\* What Enter applies: a label without a key selects nothing.
SelectedKeys(w) ==
  LET items == {w.values[j] : j \in DOMAIN w.values}
      selected == {i \in items : Checked(w, i)}
  IN IF w.dimension = "repository" THEN {w.keyOf[i] : i \in selected \cap DOMAIN w.keyOf} ELSE selected

ApplyFilterValues ==
  /\ drawer.popup = "values" /\ ~drawer.loading /\ ~drawer.err
  /\ chosen' = [chosen EXCEPT ![drawer.dimension] = SelectedKeys(drawer)]
  /\ drawer' = [drawer EXCEPT !.popup = "none"]
  /\ UNCHANGED <<picked, facets, offered, ready, opened, observed>>

-----------------------------------------------------------------------------
(* The values arrive *)

ReadFacets ==
  /\ facets.at = "asked"
  /\ facets' \in {[at |-> "read", offered |-> offered], [at |-> "failed", offered |-> {}]}
  /\ UNCHANGED <<drawer, opened>> /\ Unapplied

\* Mutant: every read starts from the filters applied.
FromApplied(w, current) == [i \in current \cup DOMAIN w.draft |-> i \in current]

\* The draft wins; what the filters select is only checked on the first read.
MergedDraft(w, current) ==
  [i \in current \cup DOMAIN w.draft |-> IF i \in DOMAIN w.draft THEN w.draft[i] ELSE w.values = <<>>]

\* filterValuesMsg, of the values it read.
WithValues(w, keys) ==
  LET repository == w.dimension = "repository"
      labels == Labels(keys)
      base == IF repository THEN DOMAIN labels ELSE keys \cup chosen[w.dimension]
      current == IF repository THEN {i \in base : labels[i] \in chosen[w.dimension]} ELSE chosen[w.dimension]
      draft == MergedDraft(w, current)
      values == Sorted(base \cup DOMAIN draft)
      labelled == IF repository THEN base ELSE {}
      kept == DOMAIN w.keyOf \cap DOMAIN w.draft
      focused == IF w.cursor < Len(w.values) THEN w.values[w.cursor + 1] ELSE 0
      at == IF \E j \in DOMAIN values : values[j] = focused
            THEN (CHOOSE j \in DOMAIN values : values[j] = focused) - 1 ELSE w.cursor
  IN [w EXCEPT !.values = values, !.draft = draft, !.cursor = ClampCursor(at, Len(values)),
               !.keyOf = [i \in labelled \cup kept |-> IF i \in kept THEN w.keyOf[i] ELSE labels[i]]]

FacetsArrive ==
  /\ facets.at \in {"read", "failed"}
  /\ facets' = NoFacets
  /\ drawer' = IF drawer.popup # "values" THEN drawer
               ELSE LET w == [drawer EXCEPT !.loading = FALSE, !.err = facets.at = "failed"]
                    IN IF w.err THEN w ELSE WithValues(w, facets.offered)
  /\ UNCHANGED <<opened>> /\ Unapplied

Cleared(w) == [w EXCEPT !.values = <<>>, !.keyOf = Nothing]

\* transitionPublication: the read on its way is obsolete, and so are the values of
\* another backend or database.
Observe ==
  /\ observed < MaxObserved /\ observed' = observed + 1
  /\ offered' \in SUBSET Keys
  /\ ready' = TRUE
  /\ \E identityChanged \in BOOLEAN :
       LET w == IF identityChanged THEN Cleared(drawer) ELSE drawer IN
       IF w.popup = "values"
       THEN /\ drawer' = [w EXCEPT !.err = FALSE, !.loading = w.values = <<>>]
            /\ facets' = Asked
       ELSE drawer' = [w EXCEPT !.err = FALSE] /\ facets' = NoFacets
  /\ UNCHANGED <<chosen, picked, opened>>

\* A poll finds the backend not ready.
LoseReadiness ==
  /\ ready' = FALSE
  /\ drawer' = [Cleared(drawer) EXCEPT !.loading = FALSE, !.err = TRUE]
  /\ facets' = NoFacets
  /\ UNCHANGED <<chosen, picked, offered, opened, observed>>

\* A poll or a read finds it ready with the publication already observed: nothing is
\* asked again, and an open drawer keeps its error.
RegainReadiness ==
  /\ ~ready /\ observed > 0
  /\ ready' = TRUE
  /\ UNCHANGED <<drawer, chosen, picked, facets, offered, opened, observed>>

DrawerInit ==
  /\ drawer = [popup |-> "none", tab |-> "usage", cursor |-> 0, dimension |-> "model", values |-> <<>>,
               keyOf |-> Nothing, draft |-> Nothing, loading |-> FALSE, err |-> FALSE]
  /\ chosen = [x \in Dimensions |-> {}] /\ picked = [p \in Menus |-> 0]
  /\ facets = NoFacets /\ offered = Keys /\ ready = FALSE /\ opened = 0 /\ observed = 0

DrawerKeys ==
  \/ SwitchTab \/ OpenFilters \/ \E p \in Menus : OpenMenu(p)
  \/ \E x \in Dimensions : OpenFilterValues(x)
  \/ \E up \in BOOLEAN : MoveHighlight(up)
  \/ CloseDrawer \/ Pick \/ Toggle \/ ClearDraft \/ ApplyFilterValues

DrawerNext == DrawerKeys \/ ReadFacets \/ FacetsArrive \/ Observe \/ LoseReadiness \/ RegainReadiness

DrawerSpec == DrawerInit /\ [][DrawerNext]_drawerVars

-----------------------------------------------------------------------------
\* Values that arrive again check and clear no box that is on the screen, leave every
\* box of the draft (one the filters chose or Space touched) with the repository it
\* stands for, and leave the cursor on a line: the draft outlives the publications under
\* it, and Enter and Space index the lines by the cursor (filterValuesMsg,
\* toggleFilterValue).  Of a box outside the draft nothing is kept but that it is not
\* checked: its label may number another repository of the same name.
ReadsKeepDraft ==
  [][FacetsArrive /\ drawer.popup = "values" =>
     /\ \A j \in DOMAIN drawer.values :
          LET i == drawer.values[j] IN
          /\ Checked(drawer, i) = Checked(drawer', i)
          /\ i \in DOMAIN drawer.keyOf \cap DOMAIN drawer.draft => drawer'.keyOf[i] = drawer.keyOf[i]
     /\ drawer'.values # <<>> => drawer'.cursor < Len(drawer'.values)]_drawerVars
=============================================================================
