------------------------------- MODULE Screen --------------------------------
(***************************************************************************)
(* What is drawn of the explorer's state (internal/tui: header.go, the     *)
(* layout of model.go, linkpane.go), as far as it tells the user where a   *)
(* key leads.  It has no state of its own.  Widths, styles and wording are *)
(* left out.  Rows are numbered from 1.                                    *)
(***************************************************************************)
EXTENDS Explorer

CONSTANTS
    Curl,     \* the URL the curl command for a resource asks: [Resource -> anything]
    Heights   \* terminal heights

ASSUME ScreenAssumption ==
    /\ Heights \subseteq Int
    /\ Parent[RootPath] = RootPath

\* The curl command for this resource asks for the URL that a fetch of it asks for.
curlAgrees(resource) == Resolve[resource] # Refused => Curl[resource] = Resolve[resource]

\* It does for a typed URL less the endpoint, one level up, and what a page links to
\* unless the service put blanks around that.
ASSUME CurlAssumption ==
    /\ \A u \in Url : curlAgrees(PathOf[u])
    /\ \A r \in Resource : curlAgrees(Parent[r])
    /\ \A page \in Page : \A i \in DOMAIN Links[page] :
           Links[page][i].kind # "header" =>
               /\ curlAgrees(Links[page][i].target)
               /\ Links[page][i].info # Blank => curlAgrees(Links[page][i].info)

\* The curl command in the header is for the resource that failed after a failure,
\* else for the location.
curlResource == IF failed /\ errResource # Blank THEN errResource ELSE current

\* footerLeft: what following the highlighted row would do.
footerLeft ==
    CASE showHelp -> <<"any key to close">>
      [] ~showHelp /\ notice # "" -> <<"notice", notice>>
      [] ~showHelp /\ notice = "" /\ selectedRow.kind = "parent" ->
             IF selectedRow.disabled THEN <<"already at the service root">>
             ELSE <<"leads to", Parent[current]>>
      [] OTHER -> <<"leads to", selectedRow.target>>

-----------------------------------------------------------------------------
headerHeight == 4
footerHeight == 1
frameHeight == 2
minHeight == 15

paneHeight(height) == height - headerHeight - footerHeight
paneContentHeight(height) == paneHeight(height) - frameHeight

\* Both panes spend their first line on a title.
linkPaneHeight(height) == paneContentHeight(height) - 1

atMost(a, b) == IF a > b THEN b ELSE a
atLeast(a, b) == IF a < b THEN b ELSE a

\* Mutant of linkScroll: the row below the cursor is taken for the cursor's.
linkScroll_OffByOne(height) ==
    IF height <= 0 \/ cursor - 1 < height THEN 0
    ELSE atLeast(atMost(cursor - 1 - height, Len(rows) - height), 0)

\* linkScroll: how many rows are scrolled away above the first one drawn.
linkScroll(height) ==
    IF height <= 0 \/ cursor - 1 < height THEN 0
    ELSE atLeast(atMost(cursor - height, Len(rows) - height), 0)

\* renderLinkPane: of a page without links, or one whose links could not be read,
\* the ".." row is drawn, above a line that says so.
renderLinkPane(height) ==
    IF linkRows(rows) = {} THEN {1}
    ELSE {i \in DOMAIN rows : linkScroll(height) < i /\ i <= linkScroll(height) + height}

\* The rows on screen: none on a terminal that is too small, and none behind the
\* help panel, which takes the place of both panes.
rowsDrawn(height) ==
    IF height < minHeight \/ showHelp THEN {} ELSE renderLinkPane(linkPaneHeight(height))
=============================================================================
