------------------------------ MODULE Explorer -------------------------------
(***************************************************************************)
(* The explorer's update loop (internal/tui): model.go, fetch.go,          *)
(* history.go and clipboard.go, over the fetch commands of Fetching and    *)
(* the cache they share.  Update handles one message at a time, so each    *)
(* message is one action; the fetches and clipboard commands it starts run *)
(* beside it.                                                              *)
(***************************************************************************)
EXTENDS Fetching, Sequences

CONSTANTS
    Start,       \* the resource rfx was started on
    RootPath,
    Parent,      \* redfish.Parent: [Resource -> Resource]
    Bare,        \* a resource without its trailing slashes
    Trim,        \* strings.TrimSpace: [Resource -> Resource]
    PathOf,      \* the path a URL leaves once the endpoint is cut off
    Links,       \* ExtractLinks, flattened: [Page -> sequence of rows]
    maxHistory,
    Keys,        \* the key bindings in use
    MaxCommands  \* BOUND: clipboard commands in flight

INSTANCE LinkPane

ASSUME ExplorerAssumption ==
    /\ Start \in Resource
    /\ RootPath \in Resource \ {Blank}
    /\ Parent \in [Resource -> Resource \ {Blank}]
    /\ Trim \in [Resource -> Resource]
    /\ PathOf \in [Url -> Resource \ {Blank}]
    /\ Links \in [Page -> Seq(Row)]
    /\ maxHistory \in Nat \ {0}
    /\ MaxCommands \in Nat

\* A page lists headings and rows with a target; only the model adds "..".
ASSUME LinksAssumption ==
    \A page \in Page : \A i \in DOMAIN Links[page] :
        /\ Links[page][i].kind \in {"header", "link", "action"}
        /\ Links[page][i].kind # "header" => Links[page][i].target # Blank

VARIABLES
    running,         \* the program has not quit
    mode, showHelp, focus, showHeaders,
    current, resp, rows, cursor, fromCache,
    history,
    pending, pendingNav, pendingLanding, loading,
    failed,          \* Model.err # nil
    errResource,
    notice,          \* "", or what it is about
    typed, editErr,  \* the editor's text, and what the hint below it refuses
    content, top,    \* the viewport: what was set last, and if it is at the top
    copying, pasting,  \* clipboard commands in flight
    asked            \* history variable: the resource of the latest startFetch

place == <<current, resp, rows, fromCache, failed, errResource>>
request == <<pending, pendingNav, pendingLanding, loading, asked>>
editor == <<mode, typed, editErr>>
clipboard == <<copying, pasting>>
panes == <<focus, showHelp>>
body == <<content, top>>

vars == <<cacheVars, fetches, running, place, cursor, history, request, notice,
          editor, clipboard, panes, showHeaders, body>>

Visit == [resource : Resource, cursor : Nat]

\* renderBody: what the response pane shows.
renderBody(isErr, what, response, headers) ==
    IF isErr THEN <<"error", what>>
    ELSE IF response = NoResponse THEN <<"no response yet">>
    ELSE <<"response", response, headers>>

shown == renderBody(failed, errResource, resp, showHeaders)

unset == <<"unset">>

\* SetContent and GotoTop.
setBody(c) == content' = c /\ top' = TRUE

-----------------------------------------------------------------------------
\* New, and Init's fetch of the starting resource.
Init ==
    /\ CacheInit
    /\ \E s \in Slot :
           fetches = [t \in Slot |-> IF t = s THEN fetchCmd(Start, "useCache") ELSE Idle]
    /\ running = TRUE
    /\ mode = "normal" /\ showHelp = FALSE /\ focus = "links" /\ showHeaders = FALSE
    /\ current = Start /\ resp = NoResponse /\ fromCache = FALSE
    /\ rows = buildRows(<<>>, TRUE) /\ cursor = 1
    /\ history = <<>>
    /\ pending = Start /\ pendingNav = "stay" /\ pendingLanding = landFirst
    /\ loading = TRUE
    /\ failed = FALSE /\ errResource = Blank
    /\ notice = "" /\ typed = Blank /\ editErr = ""
    /\ content = unset /\ top = TRUE
    /\ copying = 0 /\ pasting = 0
    /\ asked = Start

-----------------------------------------------------------------------------
(* Fetches: starting one, and folding its outcome into the model.          *)

startFetch(s, resource, policy, nav, where) ==
    /\ ~Active(s)
    /\ Step(s, fetchCmd(resource, policy))
    /\ pending' = resource
    /\ pendingNav' = nav
    /\ pendingLanding' = where
    /\ loading' = TRUE
    /\ notice' = ""
    /\ asked' = resource
    /\ UNCHANGED <<cacheVars, place, cursor, history, showHeaders, body>>

\* Mutant of pushVisit: the trail is never trimmed.
pushVisit_Unbounded(visit) == Append(history, visit)

pushVisit(visit) ==
    LET longer == Append(history, visit)
        excess == Len(longer) - maxHistory
    IN  IF excess > 0 THEN SubSeq(longer, excess + 1, Len(longer)) ELSE longer

\* Mutant of dropVisit: the wrong end of the trail goes.
dropVisit_Oldest == Tail(history)

dropVisit == SubSeq(history, 1, Len(history) - 1)

\* Mutant of historyAt: a step that does not move is recorded.
historyAt_InPlace(resource) ==
    CASE pendingNav = "forward" -> pushVisit([resource |-> current, cursor |-> cursor])
      [] pendingNav = "back" /\ history # <<>> -> dropVisit
      [] OTHER -> history

\* What landing on resource makes of the history.
historyAt(resource) ==
    CASE pendingNav = "forward" /\ resource # current ->
             pushVisit([resource |-> current, cursor |-> cursor])
      [] pendingNav = "back" /\ history # <<>> -> dropVisit
      [] OTHER -> history

WithResponse(resource, response, cached) ==
    /\ history' = historyAt(resource)
    /\ current' = resource
    /\ resp' = response
    /\ fromCache' = cached
    /\ notice' = ""
    /\ failed' = FALSE
    /\ errResource' = Blank
    /\ rows' = buildRows(Links[response.page], resource = RootPath)
    /\ \E c \in DOMAIN rows' : restoreCursor(rows', pendingLanding, c) /\ cursor' = c
    /\ setBody(renderBody(FALSE, Blank, response, showHeaders))

\* Mutant of withFetchError: the pane is rendered before the error is set.
withFetchError_RendersFirst(resource) ==
    /\ failed' = TRUE
    /\ errResource' = resource
    /\ notice' = ""
    /\ setBody(shown)
    /\ UNCHANGED <<current, resp, rows, fromCache, cursor, history>>

withFetchError(resource) ==
    /\ failed' = TRUE
    /\ errResource' = resource
    /\ notice' = ""
    /\ setBody(renderBody(TRUE, resource, resp, showHeaders))
    /\ UNCHANGED <<current, resp, rows, fromCache, cursor, history>>

\* Mutant of late: an answer is only compared while something is loading.
late_WhileLoading(f) == loading /\ f.resource # pending

\* A late answer: the model is waiting for something else, or for nothing.
late(f) == f.resource # pending

\* The outcome of the fetch in slot s reaches the update loop.
handleFetched(s) ==
    LET f == fetches[s] IN
    /\ running
    /\ f.stage = "posted"
    /\ Step(s, Idle)
    /\ UNCHANGED <<cacheVars, running, editor, clipboard, panes, showHeaders,
                   pendingNav, pendingLanding, asked>>
    /\ \/ /\ late(f)
          /\ UNCHANGED <<pending, loading, place, cursor, history, notice, body>>
       \/ /\ ~late(f)
          /\ pending' = Blank
          /\ loading' = FALSE
          /\ IF f.response = NoResponse
             THEN withFetchError(f.resource)
             ELSE WithResponse(f.resource, f.response, f.cached)

\* A fetch command takes its next action.
Progress(s) ==
    /\ running
    /\ FetchStep(s)
    /\ UNCHANGED <<running, place, cursor, history, request, notice, editor,
                   clipboard, panes, showHeaders, body>>

\* Time passes.
Pass ==
    /\ running
    /\ Tick
    /\ UNCHANGED <<fetches, running, place, cursor, history, request, notice,
                   editor, clipboard, panes, showHeaders, body>>

-----------------------------------------------------------------------------
(* Keys in normal mode.  With the help panel open any of them closes it.   *)

Pressed(key) == running /\ mode = "normal" /\ ~showHelp /\ key \in Keys

\* What an action that only touches the chrome leaves alone.
fetchesAlone == UNCHANGED <<cacheVars, fetches, place, history, request>>

Quit ==
    /\ running
    /\ \/ mode = "normal" /\ "quit" \in Keys
       \/ mode = "edit" /\ "interrupt" \in Keys
    /\ running' = FALSE
    /\ fetchesAlone
    /\ UNCHANGED <<cursor, notice, editor, clipboard, panes, showHeaders, body>>

OpenHelp ==
    /\ Pressed("help")
    /\ showHelp' = TRUE
    /\ fetchesAlone
    /\ UNCHANGED <<running, cursor, notice, editor, clipboard, focus, showHeaders, body>>

CloseHelp ==
    /\ running
    /\ showHelp
    /\ mode = "normal"
    /\ showHelp' = FALSE
    /\ fetchesAlone
    /\ UNCHANGED <<running, cursor, notice, editor, clipboard, focus, showHeaders, body>>

otherFocus == IF focus = "links" THEN "body" ELSE "links"

SwitchFocus ==
    /\ Pressed("tab")
    /\ focus' = otherFocus
    /\ fetchesAlone
    /\ UNCHANGED <<running, cursor, notice, editor, clipboard, showHelp, showHeaders, body>>

\* Paging scrolls the response pane whichever pane has focus, moving line by
\* line only when it has focus.  Where it ends depends on the content.
Scroll ==
    /\ \/ Pressed("page")
       \/ focus = "body" /\ (Pressed("up") \/ Pressed("down"))
    /\ top' \in BOOLEAN
    /\ UNCHANGED content
    /\ fetchesAlone
    /\ UNCHANGED <<running, cursor, notice, editor, clipboard, panes, showHeaders>>

\* Mutant of moveTo: the notice stays.
moveTo_KeepsNotice(row) ==
    /\ focus = "links"
    /\ cursor' = row
    /\ fetchesAlone
    /\ UNCHANGED <<running, notice, editor, clipboard, panes, showHeaders, body>>

\* The cursor goes to the nearest row it can rest on, and a notice about the row
\* it leaves goes with it.
moveTo(row) ==
    /\ focus = "links"
    /\ cursor' = row
    /\ notice' = ""
    /\ fetchesAlone
    /\ UNCHANGED <<running, editor, clipboard, panes, showHeaders, body>>

moveUp ==
    /\ Pressed("up")
    /\ \E i \in DOMAIN rows : IsLast(i, rowsAbove(rows, cursor)) /\ moveTo(i)

moveDown ==
    /\ Pressed("down")
    /\ \E i \in DOMAIN rows : IsFirst(i, rowsBelow(rows, cursor)) /\ moveTo(i)

\* toggleHeaders
toggleHeaders ==
    /\ Pressed("headers")
    /\ showHeaders' = ~showHeaders
    /\ setBody(renderBody(failed, errResource, resp, ~showHeaders))
    /\ fetchesAlone
    /\ UNCHANGED <<running, cursor, notice, editor, clipboard, panes>>

\* A fetch started by a key in normal mode.
fetchOnKey(resource, policy, nav, where) ==
    /\ \E s \in Slot : startFetch(s, resource, policy, nav, where)
    /\ UNCHANGED <<running, editor, clipboard, panes>>

selectedRow == rows[cursor]

\* Enter on "..": at the service root there is nowhere to go.
goUp ==
    /\ Pressed("enter")
    /\ selectedRow.kind = "parent"
    /\ Parent[current] # current
    /\ fetchOnKey(Parent[current], "useCache", "forward", landChild(current))

\* Enter on a link.
follow ==
    /\ Pressed("enter")
    /\ selectedRow.kind = "link"
    /\ fetchOnKey(selectedRow.target, "useCache", "forward", landFirst)

\* Enter on an action that advertises an ActionInfo, the only part of it a GET
\* can reach.
followAction ==
    /\ Pressed("enter")
    /\ selectedRow.kind = "action"
    /\ selectedRow.info # Blank
    /\ fetchOnKey(selectedRow.info, "useCache", "forward", landFirst)

\* Enter on an action that does not.
refuseAction ==
    /\ Pressed("enter")
    /\ selectedRow.kind = "action"
    /\ selectedRow.info = Blank
    /\ notice' = "post"
    /\ fetchesAlone
    /\ UNCHANGED <<running, cursor, editor, clipboard, panes, showHeaders, body>>

\* Mutant of goBack: the first visit instead of the last.
goBack_First ==
    /\ Pressed("back")
    /\ history # <<>>
    /\ fetchOnKey(history[1].resource, "useCache", "back", landRow(history[1].cursor))

\* The visit stays on the trail until the fetch lands.
goBack ==
    /\ Pressed("back")
    /\ history # <<>>
    /\ LET previous == history[Len(history)]
       IN  fetchOnKey(previous.resource, "useCache", "back", landRow(previous.cursor))

reload ==
    /\ Pressed("reload")
    /\ fetchOnKey(current, "skipCache", "stay", landRow(cursor))

copyCurl ==
    /\ Pressed("copy")
    /\ copying < MaxCommands
    /\ copying' = copying + 1
    /\ fetchesAlone
    /\ UNCHANGED <<running, cursor, notice, editor, pasting, panes, showHeaders, body>>

startEditing ==
    /\ Pressed("location")
    /\ mode' = "edit"
    /\ editErr' = ""
    /\ typed' = current
    /\ fetchesAlone
    /\ UNCHANGED <<running, cursor, notice, clipboard, panes, showHeaders, body>>

-----------------------------------------------------------------------------
(* The location editor.  Every other binding is suspended while it is open. *)

Editing == running /\ mode = "edit"

fetchOnSubmit(resource) ==
    /\ \E s \in Slot : startFetch(s, resource, "useCache", "forward", landFirst)
    /\ mode' = "normal"
    /\ editErr' = ""
    /\ UNCHANGED <<running, typed, clipboard, panes>>

\* Only the editor changes.
editorOnly ==
    /\ fetchesAlone
    /\ UNCHANGED <<running, cursor, notice, panes, showHeaders, body>>

stopEditing ==
    /\ Editing
    /\ mode' = "normal"
    /\ editErr' = ""
    /\ editorOnly
    /\ UNCHANGED <<typed, clipboard>>

\* editedResource: an entry of blanks only and one that does not resolve are refused.
refused(text) == Trim[text] = Blank \/ Resolve[Trim[text]] = Refused

editedResource(text) == PathOf[Resolve[Trim[text]]]

\* Mutant of submitEditedLocation: what was typed is fetched as it was typed.
submitEditedLocation_AsTyped ==
    /\ Editing
    /\ \/ /\ refused(typed)
          /\ editErr' = "refused"
          /\ editorOnly
          /\ UNCHANGED <<mode, typed, clipboard>>
       \/ /\ ~refused(typed)
          /\ fetchOnSubmit(typed)

submitEditedLocation ==
    /\ Editing
    /\ \/ /\ refused(typed)
          /\ editErr' = "refused"
          /\ editorOnly
          /\ UNCHANGED <<mode, typed, clipboard>>
       \/ /\ ~refused(typed)
          /\ fetchOnSubmit(editedResource(typed))

\* A key the editor takes, or a terminal paste: the text may change, or only the
\* caret may move.
forwardToEditor ==
    /\ Editing
    /\ typed' \in Resource
    /\ editErr' = ""
    /\ editorOnly
    /\ UNCHANGED <<mode, clipboard>>

paste ==
    /\ Editing
    /\ pasting < MaxCommands
    /\ pasting' = pasting + 1
    /\ editorOnly
    /\ UNCHANGED <<editor, copying>>

\* Mutant of handlePasted: a failed read is reported whatever the mode.
handlePasted_AnyMode ==
    /\ running
    /\ pasting > 0
    /\ pasting' = pasting - 1
    /\ editErr' = "clipboard"
    /\ editorOnly
    /\ UNCHANGED <<mode, typed, copying>>

\* The clipboard has been read, or could not be.  The editor may have been
\* closed in the meantime, or closed and opened again.
handlePasted ==
    /\ running
    /\ pasting > 0
    /\ pasting' = pasting - 1
    /\ editorOnly
    /\ UNCHANGED <<mode, copying>>
    /\ \/ mode # "edit" /\ UNCHANGED <<typed, editErr>>
       \/ mode = "edit" /\ editErr' = "clipboard" /\ UNCHANGED typed
       \/ mode = "edit" /\ typed' \in Resource /\ editErr' = ""

\* The clipboard has been written, or could not be: either way there is a notice.
handleCopied ==
    /\ running
    /\ copying > 0
    /\ copying' = copying - 1
    /\ notice' = "copy"
    /\ fetchesAlone
    /\ UNCHANGED <<running, cursor, editor, pasting, panes, showHeaders, body>>

\* A new terminal size renders the body again, without moving it.
handleResize ==
    /\ running
    /\ "resize" \in Keys
    /\ content' = shown
    /\ UNCHANGED top
    /\ fetchesAlone
    /\ UNCHANGED <<running, cursor, notice, editor, clipboard, panes, showHeaders>>

-----------------------------------------------------------------------------
Navigate == goUp \/ follow \/ followAction \/ goBack \/ reload

Chrome ==
    \/ Quit \/ OpenHelp \/ CloseHelp \/ SwitchFocus \/ Scroll
    \/ moveUp \/ moveDown \/ toggleHeaders \/ refuseAction
    \/ copyCurl \/ handleCopied \/ handleResize

Edit ==
    \/ startEditing \/ stopEditing \/ submitEditedLocation
    \/ forwardToEditor \/ paste \/ handlePasted

Next ==
    \/ \E s \in Slot : Progress(s) \/ handleFetched(s)
    \/ Navigate \/ Chrome \/ Edit
    \/ Pass

Spec == Init /\ [][Next]_vars

\* The runtime runs every command to its end - a request is cut off by the
\* client's timeout - and the update loop takes every message posted to it.
\* Nothing obliges the user to press a key.
FairSpec ==
    /\ Spec
    /\ \A s \in Slot : WF_vars(Progress(s)) /\ WF_vars(handleFetched(s))
=============================================================================
