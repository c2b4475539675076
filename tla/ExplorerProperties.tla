------------------------- MODULE ExplorerProperties --------------------------
(***************************************************************************)
(* What the explorer promises its user, over every interleaving of key     *)
(* presses, fetches, cache expiry and clipboard commands.                  *)
(***************************************************************************)
EXTENDS Screen

\* Every variable holds what its field can hold, the trail never outgrows
\* maxHistory (history.go:60) and every visit has a row number in it.
TypeOK ==
    /\ FetchTypeOK
    /\ running \in BOOLEAN /\ showHelp \in BOOLEAN /\ showHeaders \in BOOLEAN
    /\ mode \in {"normal", "edit"} /\ focus \in {"links", "body"}
    /\ current \in Resource
    /\ resp \in Response \cup {NoResponse}
    /\ fromCache \in BOOLEAN
    /\ rows \in Seq(Row) /\ cursor \in Nat
    /\ history \in Seq(Visit) /\ Len(history) <= maxHistory
    /\ pending \in Resource /\ asked \in Resource
    /\ pendingNav \in {"forward", "back", "stay"}
    /\ pendingLanding \in Landing
    /\ loading \in BOOLEAN /\ failed \in BOOLEAN
    /\ errResource \in Resource
    /\ notice \in {"", "post", "copy"}
    /\ top \in BOOLEAN
    /\ typed \in Resource
    /\ editErr \in {"", "refused", "clipboard"}
    /\ copying \in 0..MaxCommands /\ pasting \in 0..MaxCommands

\* The ".." row comes first, so that there always is a row to rest on.
ParentFirst == rows # <<>> /\ rows[1].kind = "parent"

-----------------------------------------------------------------------------
\* While the spinner turns there is a fetch under way for what the model waits
\* for: no chain of key presses, stale answers and failures leaves it waiting
\* for an answer that cannot come (fetch.go:63-106).
PendingInFlight ==
    loading => \E s \in Slot : Active(s) /\ fetches[s].resource = pending

\* Once nothing is loading, the screen is about the last thing asked for: its
\* answer if one came, its failure if none did, and the curl command offered for
\* a retry addresses it (fetch.go:65-69, header.go:50-59).
ScreenAnswersLastRequest ==
    ~loading => curlResource = asked

\* What is drawn under a location came from that location's own URL, and the rows
\* are those of the response on screen, whatever order the answers of several
\* fetches arrived in (model.go:206-237, fetch.go:65).
RowsBelongToLocation ==
    resp # NoResponse =>
        /\ resp.url = Resolve[current]
        /\ rows = buildRows(Links[resp.page], current = RootPath)

\* The cursor stands on a row, and never on a heading, across answers that change
\* the rows under a remembered position (model.go:582-597).  follow, moveUp and
\* renderLinkPane index the rows with it.
CursorRests ==
    /\ cursor \in DOMAIN rows
    /\ selectable(rows, cursor)

\* A request under way still fits the place it was made from, however many keys
\* were pressed and answers thrown away since: a reload is of the location, a step
\* up is from it, and a step back heads for the end of the trail, so the visit its
\* landing drops is the one it lands on (history.go:78-88, model.go:507-530).
RequestFitsPlace ==
    loading =>
        /\ pendingNav = "stay" => pending = current
        /\ pendingNav = "back" => /\ history # <<>>
                                  /\ history[Len(history)].resource = pending
        /\ pendingLanding.target # Blank => /\ pendingLanding.target = current
                                            /\ pending = Parent[current]

\* The POST notice describes the action under the cursor: moving, leaving and an
\* answer that replaces the rows all retire it (model.go:543-544, 477-488).
NoticeDescribesRow ==
    notice = "post" => selectedRow.kind = "action" /\ selectedRow.info = Blank

\* What the response pane holds is what the model would render now, from the
\* first answer or resize on: each change of response, error or header folding
\* is followed by a SetContent (model.go:233, 292, 453; fetch.go:88).
BodyIsCurrent ==
    content \in {shown, unset}

\* A refusal is about the entry in the open editor: leaving it, by any way out and
\* with a clipboard read still under way, leaves nothing behind (model.go:256-271,
\* 343-350).
RefusalNeedsEditor ==
    editErr # "" => mode = "edit"

\* The row the next key acts on is on screen, on every terminal the layout is meant
\* for, whatever page, move or remembered row brought the cursor there
\* (linkpane.go:92-135, model.go:582-597, 673-681).
CursorOnScreen ==
    \A height \in Heights :
        height >= minHeight /\ ~showHelp => cursor \in rowsDrawn(height)

\* The curl command shown and copied asks for the URL that rfx asks for, whichever
\* way the user came to the place: by a link, up, back, by a typed URL or through a
\* failure (curl.go:10-11, README.md:13, model.go:372-384).  What every fetch
\* refuses has no URL.
CurlAsksTheSame ==
    curlAgrees(curlResource)

\* Once an answer is on screen, Enter asks for what the footer says it leads to, and
\* the row that says "already at the service root" leads nowhere (header.go:149-178,
\* model.go:221, 456-475).  Actions have a footer of their own kind: it names what
\* cannot be followed.
FooterForetellsEnter ==
    [][(goUp \/ follow) /\ resp # NoResponse =>
           footerLeft[1] = "notice" \/ footerLeft = <<"leads to", asked'>>]_vars

\* A disabled cache never answers a fetch: nothing on screen or on its way to it
\* is marked as cached (cache.go:19-21).
DisabledCacheIsSilent ==
    ttl <= 0 => ~fromCache /\ \A s \in Slot : ~fetches[s].cached

\* A response in the cache, in flight or on screen is filed under its own URL.
FiledUnderOwnUrl ==
    /\ \A u \in Held : entries[u].response.url = u
    /\ \A s \in Slot : fetches[s].response # NoResponse =>
                           fetches[s].response.url = Key(fetches[s])

\* What the types of the next state rest on: the row under the cursor is there.
TypeInv == TypeOK /\ ParentFirst /\ CursorRests

-----------------------------------------------------------------------------
\* The places of the history, without the cursors.
placesVisited == [i \in DOMAIN history |-> history[i].resource]

Navigation ==
    INSTANCE Trail WITH Place <- Resource, MaxTrail <- maxHistory,
                        place <- current, trail <- placesVisited

\* The explorer implements the trail: only an answer that lands moves the user; a
\* forward step adds the place left, a step back undoes exactly one, and a
\* reload, a failure, a late answer or a key pressed meanwhile touches neither
\* (model.go:206-221, history.go:42-88).
NavigatesTrail == Navigation!Spec

\* A place is never its own predecessor on the trail: a step back always moves.
StepsMove ==
    /\ \A i \in 1..(Len(history) - 1) : history[i].resource # history[i + 1].resource
    /\ history # <<>> => history[Len(history)].resource # current

-----------------------------------------------------------------------------
\* Whatever is being loaded, lands, fails or is given up for something else, even
\* if the user keeps pressing reload: answers are matched by resource, so any of
\* the fetches will do (fetch.go:63-79).
LoadingEnds ==
    \A r \in Resource :
        (loading /\ pending = r) ~> (~loading \/ pending # r \/ ~running)

\* A fetch the user has turned away from does not stay around either: its slot is
\* freed, its answer taken and thrown away.
FetchesFinish ==
    \A s \in Slot : Active(s) ~> (~Active(s) \/ ~running)
=============================================================================
