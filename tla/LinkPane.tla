------------------------------ MODULE LinkPane -------------------------------
(***************************************************************************)
(* The rows of the link pane (internal/tui/linkpane.go) and where the      *)
(* cursor comes to rest among them (model.go).  Rows are numbered from 1   *)
(* here and from 0 in the code, so the code's noCursor, -1, is 0.          *)
(***************************************************************************)
EXTENDS Integers, Sequences

CONSTANTS
    Resource,   \* strings that name a resource
    Blank,      \* the empty string
    Bare        \* a resource without its trailing slashes: [Resource -> anything]

\* A row: the ".." row, a group heading, a link or an action with the ActionInfo
\* it advertises, Blank for none.
Row == [kind : {"parent", "header", "link", "action"},
        target : Resource, info : Resource, disabled : BOOLEAN]

parentRow(atRoot) ==
    [kind |-> "parent", target |-> Blank, info |-> Blank, disabled |-> atRoot]

\* Mutant of buildRows: the mark that New sets on ".." is never taken back.
buildRows_KeepsMark(groups, atRoot) == <<parentRow(TRUE)>> \o groups

\* groups is the flattened list of headings and links of a response.
buildRows(groups, atRoot) == <<parentRow(atRoot)>> \o groups

selectable(rows, i) == rows[i].kind # "header"

noCursor == 0

\* Where the cursor should come to rest once a fetch lands.
Landing == [cursor : Nat, target : Resource]

landFirst == [cursor |-> noCursor, target |-> Blank]
landRow(cursor) == [cursor |-> cursor, target |-> Blank]
landChild(resource) == [cursor |-> noCursor, target |-> resource]

-----------------------------------------------------------------------------
IsFirst(i, S) == i \in S /\ \A j \in S : i <= j
IsLast(i, S) == i \in S /\ \A j \in S : j <= i

linkRows(rows) == {i \in DOMAIN rows : rows[i].kind \in {"link", "action"}}

\* rowForTarget: the rows that lead to target, none if there is no target.
rowsForTarget(rows, target) ==
    {i \in linkRows(rows) : target # Blank /\ Bare[rows[i].target] = Bare[target]}

\* Mutant of remembers: only the range of a remembered row is checked.
remembers_InRange(rows, where) == where.cursor \in DOMAIN rows

remembers(rows, where) ==
    where.cursor \in DOMAIN rows /\ selectable(rows, where.cursor)

\* The cursor may be restored to c: the remembered row if there is one to rest
\* on, else the first row for the target, else the first link, else "..".
restoreCursor(rows, where, c) ==
    \/ /\ remembers(rows, where)
       /\ c = where.cursor
    \/ /\ ~remembers(rows, where)
       /\ IsFirst(c, rowsForTarget(rows, where.target))
    \/ /\ ~remembers(rows, where)
       /\ rowsForTarget(rows, where.target) = {}
       /\ IsFirst(c, linkRows(rows))
    \/ /\ ~remembers(rows, where)
       /\ linkRows(rows) = {}
       /\ c = 1

\* The rows moveUp and moveDown can reach from cursor; each goes to the nearest.
rowsAbove(rows, cursor) == {i \in DOMAIN rows : i < cursor /\ selectable(rows, i)}
rowsBelow(rows, cursor) == {i \in DOMAIN rows : i > cursor /\ selectable(rows, i)}
=============================================================================
