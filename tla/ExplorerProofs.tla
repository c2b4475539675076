---------------------------- MODULE ExplorerProofs ----------------------------
(***************************************************************************)
(* The explorer's invariants for every service, set of pages, bound on the *)
(* history and number of fetches in flight.  First its types; then requests *)
(* and what becomes of them: why the explorer never waits for nothing, why *)
(* what it shows at rest is what it was asked for last, and why a step back *)
(* undoes a step.  All of that rests on the empty string naming no resource *)
(* but the one a blank start would: pending is empty exactly when nothing is *)
(* awaited, which is how the code tells.                                   *)
(***************************************************************************)
EXTENDS ExplorerProperties, SequenceTheorems, TLAPS

-----------------------------------------------------------------------------
(* The fetches.                                                            *)

\* A fetch that starts, and one that is free, is well formed.
LEMMA FetchesStartWellFormed ==
  /\ Idle \in Fetch
  /\ \A r \in Resource, p \in Policy : fetchCmd(r, p) \in Fetch
  BY FetchAssumption DEF Idle, fetchCmd, Fetch, FetchRecord, WellFormed, Stage, Policy

\* Replacing one fetch by a well formed one, and no more.
LEMMA StepKeepsFetches ==
  ASSUME fetches \in [Slot -> Fetch], NEW s \in Slot, NEW f \in Fetch, Step(s, f)
  PROVE  fetches' \in [Slot -> Fetch]
  BY DEF Step

\* Every action of a fetch keeps the cache and the fetches well formed.
LEMMA FetchStepTypeOK ==
  ASSUME FetchTypeOK, NEW s \in Slot, FetchStep(s)
  PROVE  FetchTypeOK'
<1> DEFINE f == fetches[s]
<1>1. f \in Fetch /\ f \in FetchRecord /\ WellFormed(f)
  BY DEF FetchTypeOK, Fetch
<1>2. ASSUME NEW g \in Fetch, Step(s, g) PROVE fetches' \in [Slot -> Fetch]
  BY <1>2, StepKeepsFetches DEF FetchTypeOK
<1>3. UNCHANGED cacheVars => /\ ttl' \in Ttls /\ now' \in Nat /\ Held' \subseteq Url
                             /\ (\A u \in Held : entries[u] \in Entry(Response))'
  BY DEF FetchTypeOK, cacheVars, Held
<1> USE DEF Fetch, FetchRecord, WellFormed, Stage, Policy
<1>4. Error(f) \in Fetch /\ (Key(f) \in Url => [f EXCEPT !.stage = "request"] \in Fetch)
  BY <1>1, NoResponseAssumption DEF Error, Key
<1>5. CASE Refuse(s) \/ SkipCache(s) \/ Fail(s)
  BY <1>1, <1>2, <1>3, <1>4, <1>5, FetchAssumption
     DEF Refuse, SkipCache, Fail, Key, FetchTypeOK
<1>6. CASE LookUp(s)
  <2>1. Key(f) \in Url /\ ttl' = ttl /\ now' = now /\ entries' = AfterGet(Key(f))
    BY <1>1, <1>6, FetchAssumption DEF LookUp, Key
  <2>2. Hit(Key(f)) => FromCache(f) \in Fetch
    BY <1>1, <2>1 DEF Hit, FromCache, FetchTypeOK, Entry, Held
  <2>3. fetches' \in [Slot -> Fetch]
    BY <1>2, <1>4, <1>6, <2>1, <2>2 DEF LookUp
  <2>4. Held' \subseteq Url /\ (\A u \in Held : entries[u] \in Entry(Response))'
    BY <2>1 DEF AfterGet, Without, Held, FetchTypeOK
  <2> QED
    BY <2>1, <2>3, <2>4 DEF FetchTypeOK
<1>7. CASE Respond(s)
  <2>1. Key(f) \in Url /\ UNCHANGED cacheVars
    BY <1>1, <1>7 DEF Respond, Key
  <2>2. PICK page \in Pages[Key(f)] :
           Step(s, [f EXCEPT !.stage = "store",
                             !.response = [url |-> Key(f), page |-> page, at |-> now]])
    BY <1>7 DEF Respond
  <2>3. [url |-> Key(f), page |-> page, at |-> now] \in Response
    BY <2>1, FetchAssumption DEF Response, FetchTypeOK
  <2>4. [f EXCEPT !.stage = "store",
                  !.response = [url |-> Key(f), page |-> page, at |-> now]] \in Fetch
    BY <1>1, <2>1, <2>3 DEF Key
  <2> QED
    BY <1>2, <1>3, <2>1, <2>2, <2>4 DEF FetchTypeOK
<1>8. CASE Store(s)
  <2>1. /\ Key(f) \in Url /\ f.response \in Response
        /\ ttl' = ttl /\ now' = now /\ entries' = AfterSet(Key(f), f.response)
    BY <1>1, <1>8 DEF Store, Key
  <2>2. Answered(f, f.response) \in Fetch
    BY <1>1, <2>1 DEF Answered
  <2>3. fetches' \in [Slot -> Fetch]
    BY <1>2, <1>8, <2>2 DEF Store
  <2>4. Held' \subseteq Url /\ (\A u \in Held : entries[u] \in Entry(Response))'
    BY <2>1 DEF AfterSet, Held, FetchTypeOK, Entry
  <2> QED
    BY <2>1, <2>3, <2>4 DEF FetchTypeOK
<1> QED
  BY <1>5, <1>6, <1>7, <1>8 DEF FetchStep

-----------------------------------------------------------------------------
(* Rows, landings and the history.                                         *)

\* What a sequence holds.
LEMMA ElementTyped ==
  ASSUME NEW S, NEW q \in Seq(S), NEW i \in DOMAIN q
  PROVE  q[i] \in S
  OBVIOUS

\* The last element of a sequence that is not empty.
LEMMA LastTyped ==
  ASSUME NEW S, NEW q \in Seq(S), q # <<>>
  PROVE  Len(q) \in DOMAIN q /\ Len(q) >= 1 /\ q[Len(q)] \in S
  OBVIOUS

\* The rows built from any headings and links are rows, start with "..", and
\* those that are links lead somewhere if the links do.
LEMMA BuiltRows ==
  ASSUME NEW groups \in Seq(Row), NEW atRoot \in BOOLEAN
  PROVE  LET built == buildRows(groups, atRoot)
         IN  /\ built \in Seq(Row)
             /\ built # <<>> /\ 1 \in DOMAIN built /\ built[1] = parentRow(atRoot)
             /\ \A i \in linkRows(built) : i - 1 \in DOMAIN groups /\ built[i] = groups[i - 1]
<1> DEFINE built == buildRows(groups, atRoot)
<1>1. parentRow(atRoot) \in Row /\ parentRow(atRoot).kind = "parent"
  BY FetchAssumption DEF parentRow, Row
<1>2. built = <<parentRow(atRoot)>> \o groups /\ built \in Seq(Row)
  BY <1>1 DEF buildRows
<1>3. /\ Len(built) = 1 + Len(groups)
      /\ built[1] = parentRow(atRoot)
      /\ \A i \in 2..Len(built) : i - 1 \in DOMAIN groups /\ built[i] = groups[i - 1]
  BY <1>1, <1>2
<1>4. built # <<>> /\ 1 \in DOMAIN built
  BY <1>2, <1>3
<1>5. \A i \in linkRows(built) : i \in 2..Len(built)
  BY <1>1, <1>2, <1>3 DEF linkRows
<1> QED
  BY <1>2, <1>3, <1>4, <1>5

\* The rows of a response.
LEMMA PageRows ==
  ASSUME NEW page \in Page, NEW atRoot \in BOOLEAN
  PROVE  LET built == buildRows(Links[page], atRoot)
         IN  /\ built \in Seq(Row)
             /\ built # <<>> /\ built[1].kind = "parent"
             /\ \A i \in linkRows(built) : built[i].target # Blank
<1>1. Links[page] \in Seq(Row)
  BY ExplorerAssumption
<1>2. \A i \in DOMAIN Links[page] : Links[page][i].kind # "header" => Links[page][i].target # Blank
  BY LinksAssumption
<1> DEFINE built == buildRows(Links[page], atRoot)
<1>3. /\ built \in Seq(Row) /\ built # <<>> /\ built[1] = parentRow(atRoot)
      /\ \A i \in linkRows(built) : i - 1 \in DOMAIN Links[page]
                                    /\ built[i] = Links[page][i - 1]
  BY <1>1, BuiltRows
<1>4. \A i \in linkRows(built) : built[i].kind # "header"
  BY DEF linkRows
<1>5. \A i \in linkRows(built) : built[i].target # Blank
  BY <1>2, <1>3, <1>4, Zenon
<1>6. built[1].kind = "parent"
  BY <1>3 DEF parentRow
<1> QED
  BY <1>3, <1>5, <1>6

\* Wherever the cursor is restored to, it can rest there.
LEMMA RestoredCursorRests ==
  ASSUME NEW built \in Seq(Row), built # <<>>, built[1].kind = "parent",
         NEW where \in Landing, NEW c \in DOMAIN built, restoreCursor(built, where, c)
  PROVE  selectable(built, c)
  BY DEF restoreCursor, remembers, selectable, IsFirst, linkRows, rowsForTarget

\* A visit joins the trail at its end, and the trail keeps to its bound by losing
\* its oldest visit.
LEMMA PushedVisit ==
  ASSUME history \in Seq(Visit), Len(history) <= maxHistory, NEW visit \in Visit
  PROVE  LET longer == Append(history, visit) IN
         /\ pushVisit(visit) = IF Len(history) < maxHistory THEN longer ELSE Tail(longer)
         /\ pushVisit(visit) \in Seq(Visit)
         /\ Len(pushVisit(visit)) \in 1..maxHistory
         /\ pushVisit(visit)[Len(pushVisit(visit))] = visit
         /\ \E k \in {0, 1} :
                /\ Len(pushVisit(visit)) = Len(history) + 1 - k
                /\ \A i \in 1..(Len(pushVisit(visit)) - 1) :
                       pushVisit(visit)[i] = history[i + k]
<1> DEFINE longer == Append(history, visit)
<1>1. /\ longer \in Seq(Visit) /\ Len(longer) = Len(history) + 1
      /\ longer[Len(longer)] = visit
      /\ \A i \in 1..Len(history) : longer[i] = history[i]
  OBVIOUS
<1>2. maxHistory \in Nat /\ maxHistory >= 1
  BY ExplorerAssumption
<1>3. CASE Len(history) < maxHistory
  <2>1. pushVisit(visit) = longer
    BY <1>1, <1>2, <1>3 DEF pushVisit
  <2> QED
    BY <1>1, <1>2, <1>3, <2>1
<1>4. CASE ~(Len(history) < maxHistory)
  <2>1. Len(history) = maxHistory
    BY <1>2, <1>4
  <2>2. pushVisit(visit) = SubSeq(longer, 2, Len(longer))
    BY <1>1, <1>2, <2>1 DEF pushVisit
  <2>3. /\ SubSeq(longer, 2, Len(longer)) \in Seq(Visit)
        /\ Len(SubSeq(longer, 2, Len(longer))) = maxHistory
        /\ \A i \in 1..maxHistory : SubSeq(longer, 2, Len(longer))[i] = longer[i + 1]
    BY <1>1, <1>2, <2>1
  <2>4. Tail(longer) = SubSeq(longer, 2, Len(longer))
    BY <1>1, <1>2, <2>1, <2>3
  <2> QED
    BY <1>1, <1>2, <2>1, <2>2, <2>3, <2>4
<1> QED
  BY <1>3, <1>4

\* Dropping the last visit leaves the others where they are.
LEMMA DroppedVisit ==
  ASSUME history \in Seq(Visit), history # <<>>
  PROVE  /\ dropVisit \in Seq(Visit)
         /\ Len(dropVisit) = Len(history) - 1
         /\ \A i \in 1..(Len(history) - 1) : dropVisit[i] = history[i]
<1>1. Len(history) \in Nat /\ Len(history) >= 1
  OBVIOUS
<1>2. \A i \in 1..(Len(history) - 1) : history[i] \in Visit
  BY <1>1
<1> DEFINE n == Len(history) - 1
<1>3. n \in Nat
  BY <1>1
<1> HIDE DEF n
<1>4. /\ SubSeq(history, 1, n) \in Seq(Visit)
      /\ Len(SubSeq(history, 1, n)) = IF 1 <= n THEN n - 1 + 1 ELSE 0
      /\ \A i \in 1..(n - 1 + 1) : SubSeq(history, 1, n)[i] = history[i + 1 - 1]
  BY <1>2, <1>3, SubSeqProperties DEF n
<1>5. Len(SubSeq(history, 1, n)) = n /\ \A i \in 1..n : SubSeq(history, 1, n)[i] = history[i]
  BY <1>3, <1>4
<1> QED
  BY <1>4, <1>5 DEF dropVisit, n

-----------------------------------------------------------------------------
(* Types, and a cursor that rests on a row.  These hold wherever the       *)
(* explorer starts.                                                        *)

\* What every landing is made of.
LEMMA LandingsTyped ==
  /\ landFirst \in Landing
  /\ \A c \in Nat : landRow(c) \in Landing
  /\ \A r \in Resource : landChild(r) \in Landing
  BY FetchAssumption DEF landFirst, landRow, landChild, Landing, noCursor

\* The types hold at the start.
LEMMA InitTypeInv == Init => TypeInv
<1> SUFFICES ASSUME Init PROVE TypeInv
  OBVIOUS
<1>1. fetches \in [Slot -> Fetch]
  BY FetchesStartWellFormed, ExplorerAssumption DEF Init, Policy
<1>2. FetchTypeOK
  BY <1>1, TtlsAssumption DEF Init, CacheInit, FetchTypeOK, Held
<1>3. /\ rows = buildRows(<<>>, TRUE) /\ cursor = 1
      /\ history = <<>> /\ pendingLanding = landFirst /\ copying = 0 /\ pasting = 0
      /\ current = Start /\ pending = Start /\ asked = Start
      /\ errResource = Blank /\ typed = Blank
      /\ running \in BOOLEAN /\ showHelp \in BOOLEAN /\ showHeaders \in BOOLEAN
      /\ fromCache \in BOOLEAN /\ loading \in BOOLEAN /\ failed \in BOOLEAN
      /\ top \in BOOLEAN /\ mode = "normal" /\ focus = "links"
      /\ resp = NoResponse /\ pendingNav = "stay" /\ notice = "" /\ editErr = ""
  BY Zenon DEF Init
<1>4. rows \in Seq(Row) /\ rows # <<>> /\ 1 \in DOMAIN rows /\ rows[1] = parentRow(TRUE)
  <2>1. <<>> \in Seq(Row) /\ TRUE \in BOOLEAN
    OBVIOUS
  <2> QED
    BY <1>3, <2>1, BuiltRows, Zenon
<1>5. ParentFirst /\ CursorRests
  <2>1. parentRow(TRUE).kind = "parent"
    BY DEF parentRow
  <2> QED
    BY <1>3, <1>4, <2>1 DEF ParentFirst, CursorRests, selectable
<1>6. history \in Seq(Visit) /\ Len(history) <= maxHistory
  <2>1. history = <<>> /\ maxHistory \in Nat
    BY <1>3, ExplorerAssumption, Zenon
  <2> QED
    BY <2>1
<1>7. pendingLanding \in Landing
  BY <1>3, LandingsTyped
<1>8. /\ copying \in 0..MaxCommands /\ pasting \in 0..MaxCommands /\ cursor \in Nat
      /\ Start \in Resource /\ Blank \in Resource
  <2>1. copying = 0 /\ pasting = 0 /\ cursor = 1
    BY <1>3
  <2> QED
    BY <2>1, ExplorerAssumption, FetchAssumption
<1>9. TypeOK
  BY <1>2, <1>3, <1>4, <1>6, <1>7, <1>8, Zenon DEF TypeOK
<1> QED
  BY <1>5, <1>9 DEF TypeInv

\* Starting a fetch, from the panes or from the editor.
LEMMA StartTypeInv ==
  ASSUME TypeInv, NEW s \in Slot, NEW resource \in Resource, NEW policy \in Policy,
         NEW nav \in {"forward", "back", "stay"}, NEW where \in Landing,
         startFetch(s, resource, policy, nav, where),
         UNCHANGED <<running, typed, clipboard, panes>>,
         mode' \in {"normal", "edit"}, editErr' \in {"", "refused", "clipboard"}
  PROVE  TypeInv'
<1>1. fetches' \in [Slot -> Fetch]
  BY FetchesStartWellFormed, StepKeepsFetches DEF startFetch, TypeInv, TypeOK, FetchTypeOK
<1>2. FetchTypeOK'
  BY <1>1 DEF startFetch, TypeInv, TypeOK, FetchTypeOK, cacheVars, Held
<1>3. TypeOK'
  BY <1>2 DEF startFetch, TypeInv, TypeOK, place, body, clipboard, panes
<1>4. (ParentFirst /\ CursorRests)'
  BY DEF startFetch, TypeInv, place, ParentFirst, CursorRests, selectable
<1> QED
  BY <1>3, <1>4 DEF TypeInv

\* What the keys start is a fetch of some resource.
LEMMA NavigateStarts ==
  ASSUME TypeInv, Navigate
  PROVE  \E s \in Slot, resource \in Resource, policy \in Policy,
            nav \in {"forward", "back", "stay"}, where \in Landing :
              /\ startFetch(s, resource, policy, nav, where)
              /\ UNCHANGED <<running, editor, clipboard, panes>>
<1>0. /\ rows \in Seq(Row) /\ cursor \in DOMAIN rows /\ cursor \in Nat
      /\ current \in Resource /\ history \in Seq(Visit)
  BY DEF TypeInv, TypeOK, CursorRests
<1>r. selectedRow.target \in Resource /\ selectedRow.info \in Resource
  <2>1. selectedRow \in Row
    BY <1>0, ElementTyped DEF selectedRow
  <2> QED
    BY <2>1 DEF Row
<1>1. CASE goUp
  BY <1>0, <1>1, LandingsTyped, ExplorerAssumption DEF goUp, fetchOnKey, Policy
<1>2. CASE follow
  BY <1>r, <1>2, LandingsTyped DEF follow, fetchOnKey, Policy
<1>3. CASE followAction
  BY <1>r, <1>3, LandingsTyped DEF followAction, fetchOnKey, Policy
<1>4. CASE goBack
  <2>1. history[Len(history)] \in Visit
    BY <1>0, <1>4, LastTyped DEF goBack
  <2>2. history[Len(history)].resource \in Resource /\ history[Len(history)].cursor \in Nat
    BY <2>1 DEF Visit
  <2> QED
    BY <1>4, <2>2, LandingsTyped DEF goBack, fetchOnKey, Policy
<1>5. CASE reload
  BY <1>0, <1>5, LandingsTyped DEF reload, fetchOnKey, Policy
<1> QED
  BY <1>1, <1>2, <1>3, <1>4, <1>5 DEF Navigate

\* The types of what is not about a place or a request.
ChromeTypeOK ==
    /\ running \in BOOLEAN /\ showHelp \in BOOLEAN /\ showHeaders \in BOOLEAN
    /\ top \in BOOLEAN
    /\ mode \in {"normal", "edit"} /\ focus \in {"links", "body"}
    /\ notice \in {"", "post", "copy"}
    /\ typed \in Resource /\ editErr \in {"", "refused", "clipboard"}
    /\ copying \in 0..MaxCommands /\ pasting \in 0..MaxCommands

\* What TypeInv says of the present.
LEMMA Present ==
  ASSUME TypeInv
  PROVE  /\ FetchTypeOK /\ ChromeTypeOK
         /\ rows \in Seq(Row) /\ cursor \in DOMAIN rows /\ selectable(rows, cursor)
         /\ copying \in 0..MaxCommands /\ pasting \in 0..MaxCommands /\ MaxCommands \in Nat
<1>1. ChromeTypeOK
  BY Zenon DEF TypeInv, TypeOK, ChromeTypeOK
<1>2. MaxCommands \in Nat
  BY ExplorerAssumption, Zenon
<1> QED
  BY <1>1, <1>2, Zenon DEF TypeInv, TypeOK, CursorRests

\* While place and request stay as they are, the cursor may only go to a row.
LEMMA PlaceKept ==
  ASSUME TypeInv, FetchTypeOK', ChromeTypeOK', UNCHANGED <<place, history, request>>,
         cursor' \in DOMAIN rows, selectable(rows, cursor')
  PROVE  TypeInv'
<1>1. fromCache' = fromCache /\ failed' = failed /\ loading' = loading
  BY Zenon DEF place, request
<1>2. /\ current' = current /\ resp' = resp /\ rows' = rows /\ history' = history
      /\ errResource' = errResource /\ pending' = pending /\ asked' = asked
      /\ pendingNav' = pendingNav /\ pendingLanding' = pendingLanding
  BY Zenon DEF place, request
<1>3. fromCache' \in BOOLEAN /\ failed' \in BOOLEAN /\ loading' \in BOOLEAN
  BY <1>1, Zenon DEF TypeInv, TypeOK
<1>4. cursor' \in Nat
  BY Present
<1>5. TypeOK'
  BY <1>2, <1>3, <1>4 DEF TypeInv, TypeOK, ChromeTypeOK
<1>6. ParentFirst' /\ CursorRests'
  BY <1>2 DEF TypeInv, ParentFirst, CursorRests, selectable
<1> QED
  BY <1>5, <1>6 DEF TypeInv

\* A command of a fetch, and time.
LEMMA ProgressTypeInv ==
  ASSUME TypeInv, NEW s \in Slot, Progress(s)
  PROVE  TypeInv'
<1>1. FetchTypeOK'
  BY Present, FetchStepTypeOK DEF Progress
<1>2. UNCHANGED <<place, history, request>> /\ cursor' = cursor
  BY DEF Progress
<1>3. ChromeTypeOK'
  BY Present, Zenon DEF Progress, editor, clipboard, panes, body, ChromeTypeOK
<1> QED
  BY <1>1, <1>2, <1>3, Present, PlaceKept

\* They are kept while a fetch is under way.
LEMMA PassTypeInv ==
  ASSUME TypeInv, Pass
  PROVE  TypeInv'
<1>1. FetchTypeOK'
  BY Present DEF Pass, Tick, FetchTypeOK, Held
<1>2. UNCHANGED <<place, history, request>> /\ cursor' = cursor
  BY DEF Pass
<1>3. ChromeTypeOK'
  BY Present, Zenon DEF Pass, editor, clipboard, panes, body, ChromeTypeOK
<1> QED
  BY <1>1, <1>2, <1>3, Present, PlaceKept

\* An outcome that is thrown away or lands.
LEMMA HandleTypeInv ==
  ASSUME TypeInv, NEW s \in Slot, handleFetched(s)
  PROVE  TypeInv'
<1> DEFINE f == fetches[s]
<1>1. f \in Fetch /\ f.resource \in Resource /\ f.cached \in BOOLEAN
      /\ f.response \in Response \cup {NoResponse}
  BY DEF TypeInv, TypeOK, FetchTypeOK, Fetch, FetchRecord
<1>2. FetchTypeOK'
  BY FetchesStartWellFormed, StepKeepsFetches
     DEF handleFetched, TypeInv, TypeOK, FetchTypeOK, cacheVars, Held
<1>3. CASE late(f)
  <2>1. UNCHANGED <<place, history, request>> /\ cursor' = cursor
    BY <1>3 DEF handleFetched, request
  <2>2. ChromeTypeOK'
    BY <1>3, Present, Zenon
       DEF handleFetched, editor, clipboard, panes, body, ChromeTypeOK
  <2> QED
    BY <1>2, <2>1, <2>2, Present, PlaceKept
<1>4. CASE ~late(f) /\ f.response = NoResponse
  <2>1. TypeOK'
    BY <1>1, <1>2, <1>4, FetchAssumption
       DEF handleFetched, withFetchError, setBody, TypeInv, TypeOK, editor, clipboard, panes
  <2> QED
    BY <1>4, <2>1
       DEF handleFetched, withFetchError, TypeInv, ParentFirst, CursorRests, selectable
<1>5. CASE ~late(f) /\ f.response # NoResponse
  <2>0. WithResponse(f.resource, f.response, f.cached) /\ f.response.page \in Page
    BY <1>1, <1>5 DEF handleFetched, Response
  <2>1. /\ rows' = buildRows(Links[f.response.page], f.resource = RootPath)
        /\ rows' \in Seq(Row) /\ rows' # <<>> /\ rows'[1].kind = "parent"
    BY <2>0, PageRows DEF WithResponse
  <2>2. PICK c \in DOMAIN rows' : restoreCursor(rows', pendingLanding, c) /\ cursor' = c
    BY <2>0 DEF WithResponse
  <2>3. selectable(rows', cursor') /\ cursor' \in DOMAIN rows' /\ cursor' \in Nat
    <3>1. pendingLanding \in Landing
      BY DEF TypeInv, TypeOK
    <3> QED
      BY <2>1, <2>2, <3>1, RestoredCursorRests
  <2>4. history' \in Seq(Visit) /\ Len(history') <= maxHistory
    <3>1. /\ [resource |-> current, cursor |-> cursor] \in Visit
          /\ history \in Seq(Visit) /\ Len(history) <= maxHistory
      BY DEF TypeInv, TypeOK, Visit
    <3>2. \/ history' = history
          \/ history' = dropVisit /\ history # <<>>
          \/ history' = pushVisit([resource |-> current, cursor |-> cursor])
      BY <2>0 DEF WithResponse, historyAt
    <3>3. CASE history' = dropVisit /\ history # <<>>
      BY <3>1, <3>3, DroppedVisit, ExplorerAssumption
    <3>4. CASE history' = pushVisit([resource |-> current, cursor |-> cursor])
      BY <3>1, <3>4, PushedVisit, ExplorerAssumption
    <3> QED
      BY <3>1, <3>2, <3>3, <3>4
  <2>5. TypeOK'
    BY <1>1, <1>2, <1>5, <2>0, <2>1, <2>3, <2>4, FetchAssumption
       DEF handleFetched, WithResponse, setBody, TypeInv, TypeOK, editor, clipboard, panes
  <2> QED
    BY <2>1, <2>3, <2>5 DEF TypeInv, ParentFirst, CursorRests
<1> QED
  BY <1>3, <1>4, <1>5

\* Keys and messages that start no fetch.
LEMMA FetchesAloneKeepTypes ==
  ASSUME TypeInv, fetchesAlone
  PROVE  FetchTypeOK' /\ UNCHANGED <<place, history, request>>
<1>1. UNCHANGED <<cacheVars, fetches>>
  BY DEF fetchesAlone
<1>2. FetchTypeOK'
  BY <1>1, Present DEF FetchTypeOK, cacheVars, Held
<1> QED
  BY <1>2 DEF fetchesAlone

\* They are kept by the keys and messages that ask for nothing.
LEMMA ChromeTypeInv ==
  ASSUME TypeInv, Chrome
  PROVE  TypeInv'
<1> USE DEF ChromeTypeOK, editor, clipboard, panes, body
<1>1. fetchesAlone
  BY DEF Chrome, Quit, OpenHelp, CloseHelp, SwitchFocus, Scroll, moveUp, moveDown,
         moveTo, toggleHeaders, refuseAction, copyCurl, handleCopied, handleResize
<1>2. CASE moveUp \/ moveDown
  <2>1. PICK i \in DOMAIN rows : selectable(rows, i) /\ moveTo(i)
    BY <1>2 DEF moveUp, moveDown, rowsAbove, rowsBelow, IsFirst, IsLast
  <2>2. ChromeTypeOK'
    BY <2>1, Present, Zenon DEF moveTo
  <2> QED
    BY <1>1, <2>1, <2>2, FetchesAloneKeepTypes, PlaceKept DEF moveTo
<1>3. ASSUME ChromeTypeOK', cursor' = cursor PROVE TypeInv'
  BY <1>1, <1>3, FetchesAloneKeepTypes, Present, PlaceKept
<1>4. CASE Quit
  BY <1>3, <1>4, Present, Zenon DEF Quit
<1>5. CASE OpenHelp
  BY <1>3, <1>5, Present, Zenon DEF OpenHelp
<1>6. CASE CloseHelp
  BY <1>3, <1>6, Present, Zenon DEF CloseHelp
<1>7. CASE SwitchFocus
  BY <1>3, <1>7, Present, Zenon DEF SwitchFocus, otherFocus
<1>8. CASE Scroll
  BY <1>3, <1>8, Present, Zenon DEF Scroll
<1>9. CASE toggleHeaders
  BY <1>3, <1>9, Present, Zenon DEF toggleHeaders, setBody
<1>10. CASE refuseAction
  BY <1>3, <1>10, Present, Zenon DEF refuseAction
<1>11. CASE copyCurl
  <2>1. copying < MaxCommands /\ copying' = copying + 1 /\ pasting' = pasting
    BY <1>11, Zenon DEF copyCurl
  <2>2. /\ copying \in 0..MaxCommands /\ pasting \in 0..MaxCommands /\ MaxCommands \in Nat
    BY Present, Zenon
  <2>3. copying' \in 0..MaxCommands /\ pasting' \in 0..MaxCommands
    BY <2>1, <2>2
  <2> QED
    BY <1>3, <1>11, <2>3, Present, Zenon DEF copyCurl
<1>12. CASE handleCopied
  <2>1. copying > 0 /\ copying' = copying - 1 /\ pasting' = pasting
    BY <1>12, Zenon DEF handleCopied
  <2>2. /\ copying \in 0..MaxCommands /\ pasting \in 0..MaxCommands /\ MaxCommands \in Nat
    BY Present, Zenon
  <2>3. copying' \in 0..MaxCommands /\ pasting' \in 0..MaxCommands
    BY <2>1, <2>2
  <2> QED
    BY <1>3, <1>12, <2>3, Present, Zenon DEF handleCopied
<1>13. CASE handleResize
  BY <1>3, <1>13, Present, Zenon DEF handleResize
<1> QED
  BY <1>2, <1>4, <1>5, <1>6, <1>7, <1>8, <1>9, <1>10, <1>11, <1>12, <1>13 DEF Chrome

\* They are kept by the location editor.
LEMMA EditTypeInv ==
  ASSUME TypeInv, Edit
  PROVE  TypeInv'
<1> USE DEF ChromeTypeOK, editor, clipboard, panes, body
<1>1. CASE submitEditedLocation /\ ~refused(typed)
  <2>1. editedResource(typed) \in Resource
    BY <1>1, Present, ExplorerAssumption, FetchAssumption
       DEF submitEditedLocation, refused, editedResource
  <2>2. PICK s \in Slot :
           startFetch(s, editedResource(typed), "useCache", "forward", landFirst)
    BY <1>1 DEF submitEditedLocation, fetchOnSubmit
  <2> QED
    BY <1>1, <2>1, <2>2, LandingsTyped, StartTypeInv
       DEF submitEditedLocation, fetchOnSubmit, Policy
<1>2. ASSUME fetchesAlone, ChromeTypeOK', cursor' = cursor PROVE TypeInv'
  BY <1>2, FetchesAloneKeepTypes, Present, PlaceKept
<1>3. CASE submitEditedLocation /\ refused(typed)
  BY <1>2, <1>3, Present, Zenon DEF submitEditedLocation, editorOnly
<1>4. CASE startEditing
  BY <1>2, <1>4, Present DEF startEditing, TypeInv, TypeOK
<1>5. CASE stopEditing
  BY <1>2, <1>5, Present, Zenon DEF stopEditing, editorOnly
<1>6. CASE forwardToEditor
  BY <1>2, <1>6, Present, Zenon DEF forwardToEditor, editorOnly
<1>7. CASE paste
  <2>1. pasting < MaxCommands /\ pasting' = pasting + 1 /\ copying' = copying
    BY <1>7, Zenon DEF paste
  <2>2. /\ copying \in 0..MaxCommands /\ pasting \in 0..MaxCommands /\ MaxCommands \in Nat
    BY Present, Zenon
  <2>3. copying' \in 0..MaxCommands /\ pasting' \in 0..MaxCommands
    BY <2>1, <2>2
  <2> QED
    BY <1>2, <1>7, <2>3, Present, Zenon DEF paste, editorOnly
<1>8. CASE handlePasted
  <2>1. pasting > 0 /\ pasting' = pasting - 1 /\ copying' = copying
    BY <1>8, Zenon DEF handlePasted
  <2>2. /\ copying \in 0..MaxCommands /\ pasting \in 0..MaxCommands /\ MaxCommands \in Nat
    BY Present, Zenon
  <2>3. copying' \in 0..MaxCommands /\ pasting' \in 0..MaxCommands
    BY <2>1, <2>2
  <2> QED
    BY <1>2, <1>8, <2>3, Present, Zenon DEF handlePasted, editorOnly
<1> QED
  BY <1>1, <1>3, <1>4, <1>5, <1>6, <1>7, <1>8 DEF Edit

\* Every step keeps the types.
LEMMA NextTypeInv == TypeInv /\ [Next]_vars => TypeInv'
<1> SUFFICES ASSUME TypeInv, [Next]_vars PROVE TypeInv'
  OBVIOUS
<1>1. CASE Navigate
  <2>1. PICK s \in Slot, resource \in Resource, policy \in Policy,
             nav \in {"forward", "back", "stay"}, where \in Landing :
               /\ startFetch(s, resource, policy, nav, where)
               /\ UNCHANGED <<running, editor, clipboard, panes>>
    BY <1>1, NavigateStarts
  <2>2. mode' \in {"normal", "edit"} /\ editErr' \in {"", "refused", "clipboard"}
    BY <2>1, Present DEF editor, ChromeTypeOK
  <2> QED
    BY <2>1, <2>2, StartTypeInv DEF editor
<1>2. CASE UNCHANGED vars
  <2>1. fetchesAlone /\ cursor' = cursor
    BY <1>2 DEF vars, fetchesAlone
  <2>2. ChromeTypeOK'
    BY <1>2, Present, Zenon DEF vars, ChromeTypeOK, editor, clipboard, panes, body
  <2> QED
    BY <2>1, <2>2, FetchesAloneKeepTypes, Present, PlaceKept
<1> QED
  BY <1>1, <1>2, ProgressTypeInv, HandleTypeInv, ChromeTypeInv, EditTypeInv, PassTypeInv
     DEF Next

\* Every variable keeps its type, the history keeps to its bound and the cursor
\* rests on a row that is there and is not a heading, whatever the service
\* answers, in whatever order, and wherever the explorer starts.
THEOREM ExplorerTypes == Spec => []TypeInv
  BY InitTypeInv, NextTypeInv, PTL DEF Spec

\* The two halves of it that the runs check.
THEOREM VariablesKeepTheirTypes == Spec => []TypeOK
<1>1. TypeInv => TypeOK
  BY DEF TypeInv
<1> QED
  BY <1>1, ExplorerTypes, PTL

\* follow, followAction, moveUp and moveDown index the rows with the cursor.
THEOREM CursorNeverStrays == Spec => []CursorRests
<1>1. TypeInv => CursorRests
  BY DEF TypeInv
<1> QED
  BY <1>1, ExplorerTypes, PTL

-----------------------------------------------------------------------------
(* Requests, and what becomes of them.                                     *)

\* Nothing the explorer can be at, go to, or have asked for is the empty string.
NamesNotBlank ==
    /\ current # Blank
    /\ \A i \in DOMAIN history : history[i].resource # Blank
    /\ \A i \in linkRows(rows) : rows[i].target # Blank
    /\ \A s \in Slot : Active(s) => fetches[s].resource # Blank

\* pending names the last thing asked for while it is awaited, and nothing else.
AwaitedIsAsked ==
    IF loading THEN pending = asked /\ pending # Blank ELSE pending = Blank

\* The inductive invariant.
RequestInv ==
    /\ TypeInv
    /\ NamesNotBlank
    /\ AwaitedIsAsked
    /\ PendingInFlight
    /\ ScreenAnswersLastRequest
    /\ RequestFitsPlace
    /\ StepsMove

-----------------------------------------------------------------------------
\* What one fetch's move leaves of the others.
LEMMA StepMoves ==
  ASSUME fetches \in [Slot -> Fetch], NEW s \in Slot, NEW f, Step(s, f)
  PROVE  fetches'[s] = f /\ \A t \in Slot \ {s} : fetches'[t] = fetches[t]
  BY DEF Step

\* A fetch that takes its next action is still that fetch, and was active.
LEMMA FetchStepKeepsResource ==
  ASSUME FetchTypeOK, NEW s \in Slot, FetchStep(s)
  PROVE  \A t \in Slot : /\ fetches'[t].resource = fetches[t].resource
                         /\ (fetches'[t].stage # "idle") = (fetches[t].stage # "idle")
<1> DEFINE f == fetches[s]
<1>1. f \in FetchRecord /\ fetches \in [Slot -> Fetch]
  BY DEF FetchTypeOK, Fetch
<1>2. f.stage # "idle"
  BY DEF FetchStep, Refuse, LookUp, SkipCache, Respond, Fail, Store
<1>3. /\ FromCache(f).resource = f.resource /\ FromCache(f).stage = "posted"
      /\ Error(f).resource = f.resource /\ Error(f).stage = "posted"
  BY <1>1 DEF FetchRecord, Error, FromCache
<1>4. \A r : /\ Answered(f, r).resource = f.resource /\ Answered(f, r).stage = "posted"
             /\ [f EXCEPT !.stage = "store", !.response = r].resource = f.resource
             /\ [f EXCEPT !.stage = "store", !.response = r].stage = "store"
  BY <1>1 DEF FetchRecord, Answered
<1>5. [f EXCEPT !.stage = "request"].resource = f.resource
      /\ [f EXCEPT !.stage = "request"].stage = "request"
  BY <1>1 DEF FetchRecord
<1>6. \E g : Step(s, g) /\ g.resource = f.resource /\ g.stage # "idle"
  <2>1. CASE Refuse(s) \/ SkipCache(s) \/ Fail(s)
    BY <1>3, <1>5, <2>1 DEF Refuse, SkipCache, Fail
  <2>2. CASE LookUp(s)
    <3>1. Step(s, FromCache(f)) \/ Step(s, [f EXCEPT !.stage = "request"])
      BY <2>2, Zenon DEF LookUp
    <3> QED
      BY <1>3, <1>5, <3>1
  <2>3. CASE Respond(s)
    <3>1. \E r : Step(s, [f EXCEPT !.stage = "store", !.response = r])
      BY <2>3, Zenon DEF Respond
    <3> QED
      BY <1>4, <3>1
  <2>4. CASE Store(s)
    BY <1>4, <2>4 DEF Store
  <2> QED
    BY <2>1, <2>2, <2>3, <2>4 DEF FetchStep
<1> QED
  BY <1>1, <1>2, <1>6, StepMoves

\* It holds at the start, if there is anything to start from.
LEMMA InitRequestInv ==
  ASSUME Start # Blank
  PROVE  Init => RequestInv
<1> SUFFICES ASSUME Init PROVE RequestInv
  OBVIOUS
<1>1. TypeInv
  BY InitTypeInv
<1>2. /\ rows = buildRows(<<>>, TRUE) /\ history = <<>> /\ pendingLanding = landFirst
      /\ current = Start /\ pending = Start /\ asked = Start /\ loading = TRUE
      /\ pendingNav = "stay"
  BY Zenon DEF Init
<1>3. linkRows(rows) = {}
  BY <1>2 DEF buildRows, linkRows, parentRow
<1>4. PICK s \in Slot :
         fetches = [t \in Slot |-> IF t = s THEN fetchCmd(Start, "useCache") ELSE Idle]
  BY Zenon DEF Init
<1>5. \A t \in Slot : Active(t) = (t = s)
  BY <1>4 DEF Active, Idle, fetchCmd
<1>6. fetches[s].resource = Start
  BY <1>4 DEF Idle, fetchCmd
<1>a. NamesNotBlank
  <2>1. DOMAIN history = {} /\ current # Blank
    BY <1>2
  <2>2. \A t \in Slot : Active(t) => fetches[t].resource # Blank
    BY <1>5, <1>6
  <2> QED
    BY <1>3, <2>1, <2>2, Zenon DEF NamesNotBlank
<1>b. AwaitedIsAsked /\ ScreenAnswersLastRequest
  BY <1>2, Zenon DEF AwaitedIsAsked, ScreenAnswersLastRequest
<1>c. PendingInFlight
  BY <1>2, <1>5, <1>6 DEF PendingInFlight
<1>7. RequestFitsPlace /\ StepsMove
  BY <1>2 DEF RequestFitsPlace, StepsMove, landFirst
<1> QED
  BY <1>1, <1>7, <1>a, <1>b, <1>c DEF RequestInv

\* Whatever leaves place, history, request and who is fetching what alone.
LEMMA RequestKept ==
  ASSUME RequestInv, TypeInv', UNCHANGED <<place, history, request>>,
         \A t \in Slot : /\ fetches'[t].resource = fetches[t].resource
                         /\ (fetches'[t].stage # "idle") = (fetches[t].stage # "idle")
  PROVE  RequestInv'
<1>1. /\ current' = current /\ rows' = rows /\ history' = history
      /\ pending' = pending /\ asked' = asked /\ errResource' = errResource
      /\ pendingNav' = pendingNav /\ pendingLanding' = pendingLanding
      /\ loading' = loading /\ failed' = failed
  BY Zenon DEF place, request
<1>2. NamesNotBlank'
  BY <1>1 DEF RequestInv, NamesNotBlank, Active
<1>3. PendingInFlight'
  BY <1>1 DEF RequestInv, PendingInFlight, Active
<1>4. AwaitedIsAsked' /\ ScreenAnswersLastRequest' /\ RequestFitsPlace' /\ StepsMove'
  BY <1>1 DEF RequestInv, AwaitedIsAsked, ScreenAnswersLastRequest, curlResource,
              RequestFitsPlace, StepsMove
<1> QED
  BY <1>2, <1>3, <1>4 DEF RequestInv

\* A fetch that starts and fits the place it starts from.
LEMMA StartRequestInv ==
  ASSUME RequestInv, TypeInv', NEW s \in Slot, NEW resource \in Resource \ {Blank},
         NEW policy \in Policy, NEW nav, NEW where,
         startFetch(s, resource, policy, nav, where),
         nav = "stay" => resource = current,
         nav = "back" => history # <<>> /\ history[Len(history)].resource = resource,
         where.target # Blank => where.target = current /\ resource = Parent[current]
  PROVE  RequestInv'
<1>1. /\ current' = current /\ rows' = rows /\ history' = history
      /\ pending' = resource /\ asked' = resource /\ loading' = TRUE
      /\ pendingNav' = nav /\ pendingLanding' = where
  BY Zenon DEF startFetch, place
<1>2. /\ fetches'[s] = fetchCmd(resource, policy)
      /\ \A t \in Slot \ {s} : fetches'[t] = fetches[t]
  <2>1. fetches \in [Slot -> Fetch] /\ Step(s, fetchCmd(resource, policy))
    BY Zenon DEF startFetch, RequestInv, TypeInv, TypeOK, FetchTypeOK
  <2> QED
    BY <2>1, StepMoves
<1>3. fetches'[s].resource = resource /\ fetches'[s].stage = "lookup"
  BY <1>2 DEF fetchCmd, Idle
<1>4. NamesNotBlank'
  BY <1>1, <1>2, <1>3 DEF RequestInv, NamesNotBlank, Active
<1>5. PendingInFlight'
  BY <1>1, <1>3 DEF PendingInFlight, Active
<1>6. AwaitedIsAsked' /\ ScreenAnswersLastRequest'
  BY <1>1, Zenon DEF AwaitedIsAsked, ScreenAnswersLastRequest
<1>7. RequestFitsPlace' /\ StepsMove'
  BY <1>1 DEF RequestInv, RequestFitsPlace, StepsMove
<1> QED
  BY <1>4, <1>5, <1>6, <1>7 DEF RequestInv

\* Every key that starts a fetch fits the place it is pressed in.
LEMMA NavigateRequestInv ==
  ASSUME RequestInv, TypeInv', Navigate
  PROVE  RequestInv'
<1>0. /\ rows \in Seq(Row) /\ cursor \in DOMAIN rows /\ cursor \in Nat
      /\ current \in Resource /\ history \in Seq(Visit)
      /\ current # Blank
  BY DEF RequestInv, TypeInv, TypeOK, CursorRests, NamesNotBlank
<1>r. selectedRow \in Row
  BY <1>0, ElementTyped DEF selectedRow
<1>1. landFirst.target = Blank /\ (\A c : landRow(c).target = Blank)
      /\ (\A r : landChild(r).target = r)
  BY DEF landFirst, landRow, landChild
<1>2. CASE goUp
  <2>1. Parent[current] \in Resource \ {Blank}
    BY <1>0, ExplorerAssumption
  <2> QED
    BY <1>0, <1>1, <1>2, <2>1, StartRequestInv DEF goUp, fetchOnKey, Policy
<1>3. CASE follow
  <2>1. selectedRow.target \in Resource /\ selectedRow.target # Blank
    BY <1>0, <1>r, <1>3 DEF follow, selectedRow, linkRows, RequestInv, NamesNotBlank, Row
  <2> QED
    BY <1>1, <1>3, <2>1, StartRequestInv DEF follow, fetchOnKey, Policy
<1>4. CASE followAction
  <2>1. selectedRow.info \in Resource /\ selectedRow.info # Blank
    BY <1>r, <1>4 DEF followAction, Row
  <2> QED
    BY <1>1, <1>4, <2>1, StartRequestInv DEF followAction, fetchOnKey, Policy
<1>5. CASE goBack
  <2>1. history # <<>> /\ history[Len(history)] \in Visit /\ Len(history) \in DOMAIN history
    BY <1>0, <1>5, LastTyped DEF goBack
  <2>2. history[Len(history)].resource \in Resource \ {Blank}
    BY <2>1 DEF Visit, RequestInv, NamesNotBlank
  <2> QED
    BY <1>1, <1>5, <2>1, <2>2, StartRequestInv DEF goBack, fetchOnKey, Policy
<1>6. CASE reload
  BY <1>0, <1>1, <1>6, StartRequestInv DEF reload, fetchOnKey, Policy
<1> QED
  BY <1>2, <1>3, <1>4, <1>5, <1>6 DEF Navigate

\* A landing that moves puts no place next to itself on the trail.
LEMMA HistoryMoves ==
  ASSUME RequestInv, loading, NEW resource \in Resource, resource = pending,
         resource # Blank
  PROVE  LET after == historyAt(resource)
         IN  /\ \A i \in DOMAIN after : after[i].resource # Blank
             /\ \A i \in 1..(Len(after) - 1) : after[i].resource # after[i + 1].resource
             /\ after # <<>> => after[Len(after)].resource # resource
<1> DEFINE visit == [resource |-> current, cursor |-> cursor]
<1>1. /\ history \in Seq(Visit) /\ Len(history) <= maxHistory /\ visit \in Visit
      /\ current \in Resource /\ cursor \in Nat
  BY DEF RequestInv, TypeInv, TypeOK, Visit
<1>2. /\ current # Blank
      /\ \A i \in 1..Len(history) : history[i].resource # Blank
      /\ \A i \in 1..(Len(history) - 1) : history[i].resource # history[i + 1].resource
      /\ history # <<>> => history[Len(history)].resource # current
  BY <1>1 DEF RequestInv, NamesNotBlank, StepsMove
<1>3. CASE pendingNav = "forward" /\ resource # current
  <2>1. historyAt(resource) = pushVisit(visit)
    BY <1>3 DEF historyAt
  <2>2. PICK k \in {0, 1} :
           /\ Len(pushVisit(visit)) = Len(history) + 1 - k
           /\ \A i \in 1..(Len(pushVisit(visit)) - 1) : pushVisit(visit)[i] = history[i + k]
    BY <1>1, PushedVisit
  <2>3. /\ pushVisit(visit) \in Seq(Visit) /\ Len(pushVisit(visit)) \in 1..maxHistory
        /\ pushVisit(visit)[Len(pushVisit(visit))] = visit
    BY <1>1, PushedVisit
  <2> DEFINE after == pushVisit(visit)
  <2> HIDE DEF after
  <2>4. /\ after \in Seq(Visit) /\ Len(after) \in Nat /\ Len(after) >= 1
        /\ Len(after) = Len(history) + 1 - k /\ Len(history) \in Nat
        /\ \A i \in 1..(Len(after) - 1) : after[i] = history[i + k]
        /\ after[Len(after)].resource = current
    BY <1>1, <2>2, <2>3, ExplorerAssumption DEF after
  <2>5. \A i \in 1..(Len(after) - 1) : after[i].resource # Blank
    BY <1>2, <2>4
  <2>6. ASSUME NEW i \in 1..(Len(after) - 2)
        PROVE  after[i].resource # after[i + 1].resource
    <3>1. i + k \in 1..(Len(history) - 1) /\ i \in 1..(Len(after) - 1)
          /\ i + 1 \in 1..(Len(after) - 1) /\ (i + 1) + k = (i + k) + 1
      BY <2>4
    <3>2. after[i] = history[i + k] /\ after[i + 1] = history[(i + 1) + k]
      BY <2>4, <3>1, Zenon
    <3> QED
      BY <1>2, <3>1, <3>2
  <2>7. Len(after) >= 2 => after[Len(after) - 1].resource # after[Len(after)].resource
    <3>1. Len(after) >= 2 => after[Len(after) - 1] = history[Len(history)] /\ history # <<>>
      BY <1>1, <2>4
    <3> QED
      BY <1>2, <2>4, <3>1
  <2>8. \A i \in 1..(Len(after) - 1) : after[i].resource # after[i + 1].resource
    <3>1. ASSUME NEW i \in 1..(Len(after) - 1)
          PROVE  i \in 1..(Len(after) - 2) \/ (Len(after) >= 2 /\ i = Len(after) - 1
                                               /\ i + 1 = Len(after))
      BY <2>4
    <3> QED
      BY <2>6, <2>7, <3>1
  <2>9. \A i \in DOMAIN after : after[i].resource # Blank
    BY <1>2, <2>4, <2>5
  <2> QED
    BY <1>3, <2>1, <2>4, <2>8, <2>9 DEF after
<1>4. CASE pendingNav = "back" /\ history # <<>>
  <2>1. historyAt(resource) = dropVisit
    BY <1>4 DEF historyAt
  <2>2. /\ dropVisit \in Seq(Visit) /\ Len(dropVisit) = Len(history) - 1
        /\ \A i \in 1..(Len(history) - 1) : dropVisit[i] = history[i]
    BY <1>1, <1>4, DroppedVisit
  <2>3. history[Len(history)].resource = resource
    BY <1>4 DEF RequestInv, RequestFitsPlace
  <2> DEFINE after == dropVisit
  <2> HIDE DEF after
  <2>4. /\ after \in Seq(Visit) /\ Len(after) = Len(history) - 1 /\ Len(history) \in Nat
        /\ Len(history) >= 1 /\ \A i \in 1..Len(after) : after[i] = history[i]
    BY <1>1, <1>4, <2>2 DEF after
  <2>5. \A i \in DOMAIN after : after[i].resource # Blank
    BY <1>2, <2>4
  <2>6. \A i \in 1..(Len(after) - 1) : after[i].resource # after[i + 1].resource
    BY <1>2, <2>4
  <2>7. after # <<>> => after[Len(after)].resource # resource
    BY <1>2, <2>3, <2>4
  <2> QED
    BY <2>1, <2>5, <2>6, <2>7 DEF after
<1>5. CASE ~(pendingNav = "forward" /\ resource # current)
           /\ ~(pendingNav = "back" /\ history # <<>>)
  <2>1. historyAt(resource) = history
    BY <1>5 DEF historyAt
  <2>2. history # <<>> => resource = current
    BY <1>1, <1>5 DEF RequestInv, RequestFitsPlace, TypeInv, TypeOK
  <2> QED
    BY <1>1, <1>2, <2>1, <2>2
<1> QED
  BY <1>3, <1>4, <1>5

\* It is kept by an answer, an error and an answer nobody waits for any more.
LEMMA HandleRequestInv ==
  ASSUME RequestInv, TypeInv', NEW s \in Slot, handleFetched(s)
  PROVE  RequestInv'
<1> DEFINE f == fetches[s]
<1>1. /\ f \in Fetch /\ f.resource \in Resource /\ f.response \in Response \cup {NoResponse}
      /\ fetches \in [Slot -> Fetch] /\ f.stage = "posted"
  BY DEF handleFetched, RequestInv, TypeInv, TypeOK, FetchTypeOK, Fetch, FetchRecord
<1>2. f.resource # Blank
  BY <1>1 DEF RequestInv, NamesNotBlank, Active
<1>3. /\ fetches'[s].stage = "idle"
      /\ \A t \in Slot \ {s} : fetches'[t] = fetches[t]
  <2>1. Step(s, Idle)
    BY Zenon DEF handleFetched
  <2> QED
    BY <1>1, <2>1, StepMoves DEF Idle
<1>4. CASE late(f)
  <2>1. UNCHANGED <<place, cursor, history, request>>
    BY <1>4 DEF handleFetched, request
  <2>2. /\ current' = current /\ rows' = rows /\ history' = history
        /\ pending' = pending /\ asked' = asked /\ errResource' = errResource
        /\ pendingNav' = pendingNav /\ pendingLanding' = pendingLanding
        /\ loading' = loading /\ failed' = failed
    BY <2>1, Zenon DEF place, request
  <2>3. NamesNotBlank'
    BY <1>3, <2>2 DEF RequestInv, NamesNotBlank, Active
  <2>4. PendingInFlight'
    BY <1>3, <1>4, <2>2 DEF RequestInv, PendingInFlight, Active, late
  <2>5. AwaitedIsAsked' /\ ScreenAnswersLastRequest' /\ RequestFitsPlace' /\ StepsMove'
    BY <2>2 DEF RequestInv, AwaitedIsAsked, ScreenAnswersLastRequest, curlResource,
                RequestFitsPlace, StepsMove
  <2> QED
    BY <2>3, <2>4, <2>5 DEF RequestInv
<1>5. CASE ~late(f)
  <2>1. /\ pending' = Blank /\ loading' = FALSE /\ asked' = asked
        /\ f.response = NoResponse => withFetchError(f.resource)
        /\ f.response # NoResponse => WithResponse(f.resource, f.response, f.cached)
    BY <1>5, Zenon DEF handleFetched
  <2>2. loading /\ f.resource = pending /\ f.resource = asked
    BY <1>2, <1>5 DEF RequestInv, AwaitedIsAsked, late
  <2>3. AwaitedIsAsked' /\ PendingInFlight' /\ RequestFitsPlace'
    BY <2>1, Zenon DEF AwaitedIsAsked, PendingInFlight, RequestFitsPlace
  <2>4. \A t \in Slot : Active(t)' => fetches'[t].resource # Blank
    BY <1>3 DEF RequestInv, NamesNotBlank, Active
  <2>5. CASE f.response = NoResponse
    <3>1. /\ failed' = TRUE /\ errResource' = f.resource /\ current' = current
          /\ rows' = rows /\ history' = history
      BY <2>1, <2>5, Zenon DEF withFetchError
    <3>2. ScreenAnswersLastRequest'
      BY <1>2, <2>1, <2>2, <3>1, Zenon DEF ScreenAnswersLastRequest, curlResource
    <3>3. NamesNotBlank' /\ StepsMove'
      BY <2>4, <3>1 DEF RequestInv, NamesNotBlank, StepsMove, Active
    <3> QED
      BY <2>3, <3>2, <3>3 DEF RequestInv
  <2>6. CASE f.response # NoResponse
    <3>1. /\ failed' = FALSE /\ current' = f.resource /\ history' = historyAt(f.resource)
          /\ rows' = buildRows(Links[f.response.page], f.resource = RootPath)
      BY <2>1, <2>6, Zenon DEF WithResponse
    <3>2. ScreenAnswersLastRequest'
      BY <2>1, <2>2, <3>1, Zenon DEF ScreenAnswersLastRequest, curlResource
    <3>3. \A i \in linkRows(rows') : rows'[i].target # Blank
      <4>1. f.response.page \in Page
        BY <1>1, <2>6 DEF Response
      <4> QED
        BY <3>1, <4>1, PageRows
    <3>4. /\ \A i \in DOMAIN history' : history'[i].resource # Blank
          /\ StepsMove'
      BY <1>1, <1>2, <2>2, <3>1, HistoryMoves DEF StepsMove
    <3>5. NamesNotBlank'
      BY <1>2, <2>4, <3>1, <3>3, <3>4 DEF NamesNotBlank, Active
    <3> QED
      BY <2>3, <3>2, <3>4, <3>5 DEF RequestInv
  <2> QED
    BY <2>5, <2>6
<1> QED
  BY <1>4, <1>5

\* Every key, message and edit that starts no fetch.
LEMMA FetchesAloneRequestInv ==
  ASSUME RequestInv, TypeInv', fetchesAlone
  PROVE  RequestInv'
  BY RequestKept DEF fetchesAlone

\* Every step keeps what is said of requests.
LEMMA NextRequestInv == RequestInv /\ [Next]_vars => RequestInv'
<1> SUFFICES ASSUME RequestInv, [Next]_vars PROVE RequestInv'
  OBVIOUS
<1>1. TypeInv'
  BY NextTypeInv DEF RequestInv
<1>2. ASSUME NEW s \in Slot, Progress(s) PROVE RequestInv'
  <2>1. FetchTypeOK
    BY DEF RequestInv, TypeInv, TypeOK
  <2> QED
    BY <1>1, <1>2, <2>1, FetchStepKeepsResource, RequestKept DEF Progress
<1>3. CASE Chrome
  <2>1. fetchesAlone
    BY <1>3 DEF Chrome, Quit, OpenHelp, CloseHelp, SwitchFocus, Scroll, moveUp, moveDown,
           moveTo, toggleHeaders, refuseAction, copyCurl, handleCopied, handleResize
  <2> QED
    BY <1>1, <2>1, FetchesAloneRequestInv
<1>4. CASE Edit
  <2>1. CASE submitEditedLocation /\ ~refused(typed)
    <3>1. editedResource(typed) \in Resource \ {Blank}
      BY <2>1, ExplorerAssumption, FetchAssumption
         DEF refused, editedResource, RequestInv, TypeInv, TypeOK
    <3>2. PICK s \in Slot :
             startFetch(s, editedResource(typed), "useCache", "forward", landFirst)
      BY <2>1 DEF submitEditedLocation, fetchOnSubmit
    <3>3. landFirst.target = Blank
      BY DEF landFirst
    <3> QED
      BY <1>1, <3>1, <3>2, <3>3, StartRequestInv DEF Policy
  <2>2. CASE fetchesAlone
    BY <1>1, <2>2, FetchesAloneRequestInv
  <2> QED
    BY <1>4, <2>1, <2>2
       DEF Edit, submitEditedLocation, editorOnly, startEditing, stopEditing,
           forwardToEditor, paste, handlePasted
<1>5. CASE Pass \/ UNCHANGED vars
  <2>1. UNCHANGED <<fetches, place, history, request>>
    BY <1>5 DEF Pass, vars
  <2> QED
    BY <1>1, <2>1, RequestKept
<1> QED
  BY <1>1, <1>2, <1>3, <1>4, <1>5, NavigateRequestInv, HandleRequestInv DEF Next, RequestInv

\* The invariant behind all of the theorems below.
THEOREM RequestInvariant ==
  ASSUME Start # Blank
  PROVE  Spec => []RequestInv
  BY InitRequestInv, NextRequestInv, PTL DEF Spec

\* Started on a resource that is named, the explorer never waits for an answer
\* nobody is fetching, for any service and any number of fetches in flight.
THEOREM NeverWaitsForNothing ==
  ASSUME Start # Blank
  PROVE  Spec => []PendingInFlight
<1>1. RequestInv => PendingInFlight
  BY DEF RequestInv
<1> QED
  BY <1>1, RequestInvariant, PTL

\* Once nothing is loading, what is on screen is what was asked for last.
THEOREM ScreenIsCurrent ==
  ASSUME Start # Blank
  PROVE  Spec => []ScreenAnswersLastRequest
<1>1. RequestInv => ScreenAnswersLastRequest
  BY DEF RequestInv
<1> QED
  BY <1>1, RequestInvariant, PTL

\* A key press in between never leaves a request that no longer fits the place it was
\* made from: a reload is of the location, a step back heads for the end of the trail.
THEOREM TrailIsSound ==
  ASSUME Start # Blank
  PROVE  Spec => []RequestFitsPlace
<1>1. RequestInv => RequestFitsPlace
  BY DEF RequestInv
<1> QED
  BY <1>1, RequestInvariant, PTL

\* A step back always moves: no answer, however late, records a place on top of itself.
THEOREM StepsAlwaysMove ==
  ASSUME Start # Blank
  PROVE  Spec => []StepsMove
<1>1. RequestInv => StepsMove
  BY DEF RequestInv
<1> QED
  BY <1>1, RequestInvariant, PTL
=============================================================================
