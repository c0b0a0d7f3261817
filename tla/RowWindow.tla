------------------------------ MODULE RowWindow ------------------------------
(***************************************************************************)
(* The table of the terminal dashboard: which of its rows are on the       *)
(* screen, and where the focus is (src/packages/cli/internal/tui: table.go,*)
(* table_refresh.go, render.go, desk.go).  Positions count from 1.         *)
(***************************************************************************)
EXTENDS Integers, FiniteSets, SequencesExt

CONSTANTS
  Views,                      \* the tabs
  BareLines,                  \* of the screen that are never rows
  RoomyHeight, RoomyLines,    \* deskRoomyHeight: from here, blank lines and the time zone
  MetricHeight, MetricLines,  \* deskMetricMinHeight: from here, the totals
  RowNames,                   \* what rowFocusKey tells rows apart by; two rows may share it
  RowLines,                   \* lines that a row with lists may take
  MaxRows,                    \* bound: rows of an answer
  Heights                     \* of the terminal

ASSUME RowWindowAssumption ==
  /\ Views \subseteq {"tokens", "models", "providers", "harnesses", "sessions", "context", "repo"}
  /\ RowLines \subseteq Nat \ {0} /\ Heights \subseteq Nat \ {0}
  /\ {BareLines, RoomyHeight, RoomyLines, MetricHeight, MetricLines, MaxRows} \subseteq Nat

VARIABLES
  tableRows,       \* the answer that is shown
  activeTab,       \* the rows may still be those of the tab before
  height,          \* of the terminal; 0 until it is told
  focus, offset,   \* cursor, scrollOffset
  awaited          \* the read on its way: "fresh" (a new selection), "again" (the same)

windowVars == <<tableRows, activeTab, height, focus, offset, awaited>>

Window == [rows |-> tableRows, tab |-> activeTab, height |-> height]

\* deskHeader, and the footer: what is above the rows depends on the tab and the height only.
DeskLines(w) ==
  BareLines + (IF w.height >= RoomyHeight THEN RoomyLines ELSE 0)
            + (IF w.height < MetricHeight THEN 0
               ELSE MetricLines + (IF w.tab = "context" THEN 1 ELSE 0))

MaxVisibleRows(w) ==
  IF w.height = 0 THEN 0 ELSE IF w.height - DeskLines(w) > 1 THEN w.height - DeskLines(w) ELSE 1

\* columnsForModeAndTab, isListColumn: the tabs with a column of models, providers or harnesses.
HasLists(tab) == tab \notin {"tokens", "context"}

\* formatRenderRows: a list has a line for each of its values.
RenderRowLineCount(w, i) == IF HasLists(w.tab) THEN w.rows[i].lines ELSE 1

\* The lines of rows from..to, numbered within each.
Lines(w, from, to) == UNION {{i} \X (1..RenderRowLineCount(w, i)) : i \in from..to}
LinesOf(w, from, to) == Cardinality(Lines(w, from, to))

\* The first row is shown even if it is too tall.
VisibleRowsFrom(w, o) ==
  {i \in o..Len(w.rows) : MaxVisibleRows(w) > 0 /\ (i = o \/ LinesOf(w, o, i) <= MaxVisibleRows(w))}

Least(S) == CHOOSE i \in S : \A j \in S : i <= j

MaxScrollOffset(w) ==
  IF w.rows = << >> \/ MaxVisibleRows(w) = 0 THEN 1
  ELSE Least({o \in DOMAIN w.rows : Len(w.rows) \in VisibleRowsFrom(w, o)})

ClampTo(n, last) == IF n > last THEN (IF last = 0 THEN 1 ELSE last) ELSE IF n < 1 THEN 1 ELSE n

\* Mutant: scrolls up to the focus, never down.
OnlyUpwards(w, f, o) ==
  LET c == ClampTo(f, Len(w.rows))
  IN [focus |-> c, offset |-> ClampTo(IF c < o THEN c ELSE o, MaxScrollOffset(w))]

\* ensureCursorVisible: scrolls up to the focus, or down until it is visible.
EnsureCursorVisible(w, f, o) ==
  LET c == ClampTo(f, Len(w.rows))
      low == IF c < o THEN c ELSE o
      enough == {i \in low..Len(w.rows) : c \in VisibleRowsFrom(w, i)}
  IN [focus |-> c, offset |-> ClampTo(IF enough = {} THEN low ELSE Least(enough), MaxScrollOffset(w))]

Place(position) == focus' = position.focus /\ offset' = position.offset
ResetRowPosition == focus' = 1 /\ offset' = 1

-----------------------------------------------------------------------------

RowWindowInit ==
  /\ tableRows = << >> /\ activeTab \in Views /\ height = 0
  /\ focus = 1 /\ offset = 1 /\ awaited = "fresh"

\* WindowSizeMsg
Resize(h) ==
  /\ height' = h
  /\ LET w == [Window EXCEPT !.height = h]
     IN Place(EnsureCursorVisible(w, focus, ClampTo(offset, MaxScrollOffset(w))))
  /\ UNCHANGED <<tableRows, activeTab, awaited>>

\* moveCursor: a line or a page.
MoveFocus(delta) ==
  /\ tableRows # << >>
  /\ Place(EnsureCursorVisible(Window, ClampTo(ClampTo(focus, Len(tableRows)) + delta, Len(tableRows)), offset))
  /\ UNCHANGED <<tableRows, activeTab, height, awaited>>

\* Another tab, sort, group or filter: the rows stay until the answer is there.
SelectView(t) ==
  /\ activeTab' = t /\ awaited' = "fresh" /\ ResetRowPosition
  /\ UNCHANGED <<tableRows, height>>

\* refreshCmd: by key, or because the status shows something newer.
RefreshRows ==
  /\ awaited = "none"
  /\ awaited' = "again"
  /\ UNCHANGED <<tableRows, activeTab, height, focus, offset>>

\* restoreRowFocus
Restored(rows) ==
  LET named == IF focus \in DOMAIN tableRows
               THEN {i \in DOMAIN rows : rows[i].name = tableRows[focus].name} ELSE {}
  IN IF named = {} THEN focus ELSE Least(named)

RowsArrive ==
  /\ awaited # "none"
  /\ \E rows \in BoundedSeq([name : RowNames, lines : RowLines], MaxRows) :
       /\ tableRows' = rows
       /\ IF awaited = "fresh" THEN ResetRowPosition
          ELSE Place(EnsureCursorVisible([Window EXCEPT !.rows = rows], Restored(rows), offset))
  /\ awaited' = "none"
  /\ UNCHANGED <<activeTab, height>>

ReadOfRowsFails ==
  /\ awaited # "none"
  /\ awaited' = "none"
  /\ UNCHANGED <<tableRows, activeTab, height, focus, offset>>

RowWindowNext ==
  \/ \E h \in Heights : Resize(h)
  \/ \E delta \in {-1, 1, MaxVisibleRows(Window), -MaxVisibleRows(Window)} : MoveFocus(delta)
  \/ \E t \in Views : SelectView(t)
  \/ RefreshRows \/ RowsArrive \/ ReadOfRowsFails

RowWindowSpec == RowWindowInit /\ [][RowWindowNext]_windowVars

-----------------------------------------------------------------------------
(* Properties *)

\* "The focused row has selected fill and a leading `>`" (packages/cli/DESIGN.md:266):
\* whatever was resized, moved, selected and read anew in between, the focused row is on
\* the screen, the rows shown have room, unless it is one that is taller than the table,
\* and no row above is hidden that had room as well.
FocusShown ==
  height > 0 /\ tableRows # << >> =>
    LET visible == VisibleRowsFrom(Window, offset)
        Fit(from, to) == LinesOf(Window, from, to) <= MaxVisibleRows(Window)
    IN /\ focus \in visible
       /\ visible = {offset} \/ Fit(offset, offset + Cardinality(visible) - 1)
       /\ \A i \in 1..offset - 1 : ~Fit(i, Len(tableRows))
=============================================================================
