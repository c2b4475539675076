----------------------------- MODULE ScreenProofs -----------------------------
(***************************************************************************)
(* What the user sees.  Whose response is whose: why a response stays with *)
(* its URL on its way from the service through the cache to the screen, past *)
(* other fetches.  Where he is: the explorer implements the trail of places; *)
(* seen without its cursors, its history is the trail, and every step of the *)
(* update loop moves along it or leaves it alone.  And that the row a key  *)
(* acts on is drawn on a terminal of any height the layout admits, that    *)
(* notices, refusals and the response pane follow what they are about, that *)
(* the curl command offered is the request rfx makes, and that Enter does  *)
(* what the footer says.                                                   *)
(***************************************************************************)
EXTENDS ExplorerProofs

-----------------------------------------------------------------------------
(* Whose response is whose.                                                *)

\* No fetch was answered by a disabled cache.
NoneCached == ttl <= 0 => \A s \in Slot : ~fetches[s].cached

\* The inductive invariant.
ResponseInv ==
    /\ TypeInv
    /\ FiledUnderOwnUrl
    /\ RowsBelongToLocation
    /\ DisabledCacheIsSilent

\* What a fetch holds is filed under the URL it asks for.
Filed(f) == f.response # NoResponse => f.response.url = Key(f)

EntriesFiled == \A u \in Held : entries[u].response.url = u

-----------------------------------------------------------------------------
\* A step of one fetch leaves the others' responses filed.
LEMMA StepFiles ==
  ASSUME fetches \in [Slot -> Fetch], \A t \in Slot : Filed(fetches[t]), NoneCached,
         NEW s \in Slot, NEW f, Step(s, f), Filed(f), UNCHANGED ttl,
         ttl <= 0 => ~f.cached
  PROVE  (\A t \in Slot : Filed(fetches[t]))' /\ NoneCached'
<1>1. fetches'[s] = f /\ \A t \in Slot \ {s} : fetches'[t] = fetches[t]
  BY DEF Step
<1> QED
  BY <1>1 DEF Filed, NoneCached, Key

\* A fetch gets what is filed under its URL, and files what it gets under it.
LEMMA FetchStepFiles ==
  ASSUME FetchTypeOK, EntriesFiled, \A t \in Slot : Filed(fetches[t]), NoneCached,
         NEW s \in Slot, FetchStep(s)
  PROVE  EntriesFiled' /\ (\A t \in Slot : Filed(fetches[t]))' /\ NoneCached'
<1> DEFINE f == fetches[s]
<1>1. /\ f \in FetchRecord /\ WellFormed(f) /\ Filed(f) /\ f.cached \in BOOLEAN
      /\ ttl <= 0 => ~f.cached
  BY DEF FetchTypeOK, Fetch, FetchRecord, NoneCached
<1>2. ttl' = ttl
  BY DEF FetchStep, Refuse, LookUp, SkipCache, Respond, Fail, Store, cacheVars
<1>3. ASSUME NEW g, Step(s, g), Filed(g), ttl <= 0 => ~g.cached
      PROVE  (\A t \in Slot : Filed(fetches[t]))' /\ NoneCached'
  BY <1>2, <1>3, StepFiles DEF FetchTypeOK
<1>4. UNCHANGED entries => EntriesFiled'
  BY DEF EntriesFiled, Held
<1>5. CASE Refuse(s) \/ Fail(s)
  <2>1. Step(s, Error(f)) /\ UNCHANGED entries
    BY <1>5 DEF Refuse, Fail, cacheVars
  <2>2. Filed(Error(f)) /\ Error(f).cached = f.cached
    BY <1>1 DEF Error, Filed, Key, FetchRecord
  <2> QED
    BY <1>1, <1>3, <1>4, <2>1, <2>2
<1>6. CASE SkipCache(s)
  <2>1. Step(s, [f EXCEPT !.stage = "request"]) /\ UNCHANGED entries
    BY <1>6 DEF SkipCache, cacheVars
  <2>2. Filed([f EXCEPT !.stage = "request"]) /\ [f EXCEPT !.stage = "request"].cached = f.cached
    BY <1>1 DEF Filed, Key, FetchRecord
  <2> QED
    BY <1>1, <1>3, <1>4, <2>1, <2>2
<1>7. CASE LookUp(s)
  <2>1. entries' = AfterGet(Key(f))
    BY <1>7 DEF LookUp
  <2>2. EntriesFiled'
    BY <2>1 DEF EntriesFiled, AfterGet, Without, Held
  <2>3. CASE Hit(Key(f))
    <3>1. Step(s, FromCache(f)) /\ ttl > 0
      BY <1>7, <2>3 DEF LookUp, Hit, enabled
    <3>2. FromCache(f).response = entries[Key(f)].response /\ Key(FromCache(f)) = Key(f)
      BY <1>1 DEF FromCache, Key, FetchRecord
    <3>3. entries[Key(f)].response.url = Key(f)
      BY <2>3 DEF EntriesFiled, Hit
    <3>4. ttl \in Int
      BY TtlsAssumption DEF FetchTypeOK
    <3>5. Filed(FromCache(f)) /\ ~(ttl <= 0)
      BY <3>1, <3>2, <3>3, <3>4 DEF Filed
    <3> QED
      BY <1>3, <2>2, <3>1, <3>5
  <2>4. CASE ~Hit(Key(f))
    <3>1. Step(s, [f EXCEPT !.stage = "request"])
      BY <1>7, <2>4 DEF LookUp
    <3>2. Filed([f EXCEPT !.stage = "request"])
          /\ [f EXCEPT !.stage = "request"].cached = f.cached
      BY <1>1 DEF Filed, Key, FetchRecord
    <3> QED
      BY <1>1, <1>3, <2>2, <3>1, <3>2
  <2> QED
    BY <2>3, <2>4
<1>8. CASE Respond(s)
  <2> DEFINE answer(page) == [url |-> Key(f), page |-> page, at |-> now]
             next(page) == [f EXCEPT !.stage = "store", !.response = answer(page)]
  <2>1. PICK page \in Pages[Key(f)] : Step(s, next(page)) /\ UNCHANGED entries
    BY <1>8 DEF Respond, cacheVars
  <2>2. /\ next(page).response = answer(page) /\ next(page).cached = f.cached
        /\ Key(next(page)) = Key(f) /\ answer(page).url = Key(f)
    BY <1>1 DEF Key, FetchRecord
  <2>3. Filed(next(page))
    BY <2>2 DEF Filed
  <2> QED
    BY <1>1, <1>3, <1>4, <2>1, <2>2, <2>3
<1>9. CASE Store(s)
  <2>1. /\ f.stage = "store" /\ Step(s, Answered(f, f.response))
        /\ entries' = AfterSet(Key(f), f.response)
    BY <1>9 DEF Store
  <2>2. f.response \in Response /\ f.response # NoResponse
    BY <1>1, <2>1, NoResponseAssumption DEF WellFormed
  <2>3. f.response.url = Key(f)
    BY <1>1, <2>2 DEF Filed
  <2>4. EntriesFiled'
    BY <2>1, <2>3 DEF EntriesFiled, AfterSet, Held
  <2>5. Filed(Answered(f, f.response)) /\ Answered(f, f.response).cached = f.cached
    BY <1>1 DEF Filed, Answered, Key, FetchRecord
  <2> QED
    BY <1>1, <1>3, <2>1, <2>4, <2>5
<1> QED
  BY <1>5, <1>6, <1>7, <1>8, <1>9 DEF FetchStep

-----------------------------------------------------------------------------
\* The invariant in the terms of the lemmas above.
LEMMA Parts ==
  ResponseInv <=> /\ TypeInv /\ EntriesFiled /\ (\A s \in Slot : Filed(fetches[s]))
                  /\ NoneCached /\ RowsBelongToLocation /\ (ttl <= 0 => ~fromCache)
  BY DEF ResponseInv, FiledUnderOwnUrl, EntriesFiled, Filed, NoneCached,
         DisabledCacheIsSilent

\* It holds at the start, with nothing cached and nothing shown.
LEMMA InitResponseInv == Init => ResponseInv
<1> SUFFICES ASSUME Init PROVE ResponseInv
  OBVIOUS
<1>1. TypeInv
  BY InitTypeInv
<1>2. resp = NoResponse /\ fromCache = FALSE /\ entries = [u \in {} |-> u]
  BY Zenon DEF Init, CacheInit
<1>3. \A t \in Slot : fetches[t].response = NoResponse /\ fetches[t].cached = FALSE
  BY DEF Init, fetchCmd, Idle
<1>4. EntriesFiled /\ (\A s \in Slot : Filed(fetches[s])) /\ NoneCached
  BY <1>2, <1>3 DEF EntriesFiled, Held, Filed, NoneCached
<1>5. RowsBelongToLocation /\ (ttl <= 0 => ~fromCache)
  BY <1>2, Zenon DEF RowsBelongToLocation
<1> QED
  BY <1>1, <1>4, <1>5, Parts

\* Whatever leaves the place and the cache's contents alone, and at most starts a
\* fetch.
LEMMA ResponseKept ==
  ASSUME ResponseInv, TypeInv', UNCHANGED <<place, ttl, entries>>,
         \/ UNCHANGED fetches
         \/ \E s \in Slot : \E resource, policy : Step(s, fetchCmd(resource, policy))
  PROVE  ResponseInv'
<1>1. resp' = resp /\ current' = current /\ rows' = rows /\ fromCache' = fromCache
      /\ ttl' = ttl /\ entries' = entries
  BY Zenon DEF place
<1>2. RowsBelongToLocation' /\ (ttl <= 0 => ~fromCache)' /\ EntriesFiled'
  BY <1>1, Parts DEF RowsBelongToLocation, EntriesFiled, Held
<1>3. (\A t \in Slot : Filed(fetches[t]))' /\ NoneCached'
  <2>1. CASE UNCHANGED fetches
    BY <1>1, <2>1, Parts DEF Filed, NoneCached, Key
  <2>2. CASE \E s \in Slot : \E resource, policy : Step(s, fetchCmd(resource, policy))
    <3>1. PICK s \in Slot : \E resource, policy : Step(s, fetchCmd(resource, policy))
      BY <2>2
    <3>2. PICK resource, policy : Step(s, fetchCmd(resource, policy))
      BY <3>1
    <3>3. /\ fetchCmd(resource, policy).response = NoResponse
          /\ fetchCmd(resource, policy).cached = FALSE
      BY DEF fetchCmd, Idle
    <3>4. fetches \in [Slot -> Fetch]
      BY DEF ResponseInv, TypeInv, TypeOK, FetchTypeOK
    <3> QED
      BY <1>1, <3>2, <3>3, <3>4, Parts, StepFiles DEF Filed
  <2> QED
    BY <2>1, <2>2
<1> QED
  BY <1>2, <1>3 DEF ResponseInv, FiledUnderOwnUrl, EntriesFiled, Filed,
       NoneCached, DisabledCacheIsSilent

\* It is kept by an answer, which shows the response of its own fetch.
LEMMA HandleResponseInv ==
  ASSUME ResponseInv, TypeInv', NEW s \in Slot, handleFetched(s)
  PROVE  ResponseInv'
<1> DEFINE f == fetches[s]
<1>1. /\ fetches \in [Slot -> Fetch] /\ Step(s, Idle) /\ ttl' = ttl /\ entries' = entries
      /\ Filed(f) /\ (ttl <= 0 => ~f.cached)
  BY Parts DEF handleFetched, ResponseInv, TypeInv, TypeOK, FetchTypeOK, cacheVars, NoneCached
<1>2. Idle.response = NoResponse /\ Idle.cached = FALSE
  BY DEF Idle
<1>3. (\A t \in Slot : Filed(fetches[t]))' /\ NoneCached'
  BY <1>1, <1>2, Parts, StepFiles DEF Filed
<1>4. EntriesFiled'
  BY <1>1, Parts DEF EntriesFiled, Held
<1>5. RowsBelongToLocation' /\ (ttl <= 0 => ~fromCache)'
  <2>1. CASE /\ current' = current /\ resp' = resp /\ rows' = rows
             /\ fromCache' = fromCache
    BY <1>1, <2>1, Parts DEF RowsBelongToLocation
  <2>2. CASE f.response # NoResponse /\ WithResponse(f.resource, f.response, f.cached)
    <3>1. /\ current' = f.resource /\ resp' = f.response /\ fromCache' = f.cached
          /\ rows' = buildRows(Links[f.response.page], f.resource = RootPath)
      BY <2>2, Zenon DEF WithResponse
    <3>2. f.response.url = Resolve[f.resource]
      BY <1>1, <2>2 DEF Filed, Key
    <3> QED
      BY <1>1, <3>1, <3>2 DEF RowsBelongToLocation
  <2>3. CASE withFetchError(f.resource)
    BY <2>1, <2>3 DEF withFetchError
  <2>4. CASE UNCHANGED place
    BY <2>1, <2>4 DEF place
  <2> QED
    BY <2>2, <2>3, <2>4 DEF handleFetched
<1> QED
  BY <1>3, <1>4, <1>5 DEF ResponseInv, FiledUnderOwnUrl, EntriesFiled, Filed,
       NoneCached, DisabledCacheIsSilent

\* Every step keeps what is said of responses.
LEMMA NextResponseInv == ResponseInv /\ [Next]_vars => ResponseInv'
<1> SUFFICES ASSUME ResponseInv, [Next]_vars PROVE ResponseInv'
  OBVIOUS
<1>1. TypeInv /\ TypeInv'
  BY NextTypeInv DEF ResponseInv
<1>2. ASSUME NEW s \in Slot, Progress(s) PROVE ResponseInv'
  <2>1. FetchTypeOK /\ FetchStep(s) /\ UNCHANGED place
    BY <1>1, <1>2 DEF Progress, TypeInv, TypeOK
  <2>2. EntriesFiled' /\ (\A t \in Slot : Filed(fetches[t]))' /\ NoneCached'
    BY <2>1, Parts, FetchStepFiles
  <2>3. ttl' = ttl
    BY <2>1 DEF FetchStep, Refuse, LookUp, SkipCache, Respond, Fail, Store, cacheVars
  <2>4. RowsBelongToLocation' /\ (ttl <= 0 => ~fromCache)'
    BY <2>1, <2>3, Parts DEF place, RowsBelongToLocation
  <2> QED
    BY <1>1, <2>2, <2>4 DEF ResponseInv, FiledUnderOwnUrl, EntriesFiled, Filed,
         NoneCached, DisabledCacheIsSilent
<1>3. ASSUME NEW s \in Slot, NEW resource, NEW policy, NEW nav, NEW where,
             startFetch(s, resource, policy, nav, where)
      PROVE  ResponseInv'
  <2>1. Step(s, fetchCmd(resource, policy)) /\ UNCHANGED <<place, ttl, entries>>
    BY <1>3 DEF startFetch, cacheVars
  <2> QED
    BY <1>1, <2>1, ResponseKept
<1>4. CASE Navigate
  BY <1>1, <1>3, <1>4, NavigateStarts
<1>5. ASSUME fetchesAlone PROVE ResponseInv'
  BY <1>1, <1>5, ResponseKept DEF fetchesAlone, cacheVars
<1>6. CASE Chrome
  BY <1>5, <1>6 DEF Chrome, Quit, OpenHelp, CloseHelp, SwitchFocus, Scroll, moveUp,
         moveDown, moveTo, toggleHeaders, refuseAction, copyCurl, handleCopied,
         handleResize
<1>7. CASE Edit
  BY <1>3, <1>5, <1>7 DEF Edit, submitEditedLocation, fetchOnSubmit, editorOnly,
         startEditing, stopEditing, forwardToEditor, paste, handlePasted
<1>8. CASE Pass \/ UNCHANGED vars
  <2>1. UNCHANGED <<fetches, place, ttl, entries>>
    BY <1>8 DEF Pass, Tick, vars, cacheVars
  <2> QED
    BY <1>1, <2>1, ResponseKept
<1> QED
  BY <1>2, <1>4, <1>6, <1>7, <1>8, HandleResponseInv, <1>1 DEF Next

-----------------------------------------------------------------------------
\* The invariant behind the theorems below.
THEOREM ResponseInvariant == Spec => []ResponseInv
  BY InitResponseInv, NextResponseInv, PTL DEF Spec

\* Whatever is cached, under way or on screen came from the URL it is taken for,
\* for any number of fetches, any service and any resolution of names.
THEOREM ResponsesAreFiled == Spec => []FiledUnderOwnUrl
<1>1. ResponseInv => FiledUnderOwnUrl
  BY DEF ResponseInv
<1> QED
  BY <1>1, ResponseInvariant, PTL

\* What is drawn under a location came from it, whatever answers overtook which.
THEOREM LocationsOwnTheirRows == Spec => []RowsBelongToLocation
<1>1. ResponseInv => RowsBelongToLocation
  BY DEF ResponseInv
<1> QED
  BY <1>1, ResponseInvariant, PTL

\* A ttl of zero or less turns the cache off for everything the user sees.
THEOREM DisabledCacheStaysSilent == Spec => []DisabledCacheIsSilent
<1>1. ResponseInv => DisabledCacheIsSilent
  BY DEF ResponseInv
<1> QED
  BY <1>1, ResponseInvariant, PTL

-----------------------------------------------------------------------------
(* The trail.                                                              *)

\* The places of a sequence of visits.
Places(visits) == [i \in DOMAIN visits |-> visits[i].resource]

-----------------------------------------------------------------------------
\* The places of a history are as many as its visits, each that of its visit.
LEMMA PlacesTyped ==
  ASSUME NEW visits \in Seq(Visit)
  PROVE  /\ Places(visits) \in Seq(Resource)
         /\ Len(Places(visits)) = Len(visits)
         /\ \A i \in 1..Len(visits) : Places(visits)[i] = visits[i].resource
         /\ (Places(visits) = <<>>) = (visits = <<>>)
<1>1. \A i \in 1..Len(visits) : visits[i].resource \in Resource
  <2>1. \A i \in 1..Len(visits) : visits[i] \in Visit
    OBVIOUS
  <2> QED
    BY <2>1, Zenon DEF Visit
<1>2. Places(visits) = [i \in 1..Len(visits) |-> visits[i].resource]
  BY DEF Places
<1>3. Places(visits) \in Seq(Resource) /\ Len(Places(visits)) = Len(visits)
  BY <1>1, <1>2
<1> QED
  BY <1>2, <1>3

\* Two sequences of resources with the same elements.
LEMMA SamePlaces ==
  ASSUME NEW a \in Seq(Resource), NEW b \in Seq(Resource), Len(a) = Len(b),
         \A i \in 1..Len(a) : a[i] = b[i]
  PROVE  a = b
  BY SeqEqual

\* Appending, trimming and dropping visits does so to their places.
LEMMA PlacesOfAppend ==
  ASSUME NEW visits \in Seq(Visit), NEW visit \in Visit
  PROVE  Places(Append(visits, visit)) = Append(Places(visits), visit.resource)
<1> DEFINE longer == Append(visits, visit)
<1>1. /\ longer \in Seq(Visit) /\ visit.resource \in Resource
      /\ Len(longer) = Len(visits) + 1
  BY DEF Visit
<1> HIDE DEF longer
<1>2. /\ Places(longer) \in Seq(Resource)
      /\ Len(Places(longer)) = Len(visits) + 1
      /\ \A i \in 1..(Len(visits) + 1) : Places(longer)[i] = longer[i].resource
  BY <1>1, PlacesTyped
<1>3. /\ Append(Places(visits), visit.resource) \in Seq(Resource)
      /\ Len(Append(Places(visits), visit.resource)) = Len(visits) + 1
      /\ \A i \in 1..(Len(visits) + 1) :
             Append(Places(visits), visit.resource)[i] = longer[i].resource
  BY <1>1, PlacesTyped DEF longer
<1> QED
  BY <1>2, <1>3, SamePlaces DEF longer

\* Forgetting the oldest visit forgets the oldest place.
LEMMA PlacesOfTail ==
  ASSUME NEW visits \in Seq(Visit), visits # <<>>
  PROVE  Places(Tail(visits)) = Tail(Places(visits))
<1> DEFINE shorter == Tail(visits)
<1>1. /\ shorter \in Seq(Visit) /\ Len(shorter) = Len(visits) - 1
      /\ \A i \in 1..(Len(visits) - 1) : shorter[i] = visits[i + 1]
  OBVIOUS
<1> HIDE DEF shorter
<1>2. /\ Places(visits) \in Seq(Resource) /\ Places(visits) # <<>>
      /\ Len(Places(visits)) = Len(visits)
      /\ \A i \in 1..Len(visits) : Places(visits)[i] = visits[i].resource
  BY PlacesTyped
<1>3. /\ Tail(Places(visits)) \in Seq(Resource)
      /\ Len(Tail(Places(visits))) = Len(visits) - 1
      /\ \A i \in 1..(Len(visits) - 1) : Tail(Places(visits))[i] = visits[i + 1].resource
  BY <1>2
<1>4. /\ Places(shorter) \in Seq(Resource)
      /\ Len(Places(shorter)) = Len(visits) - 1
      /\ \A i \in 1..(Len(visits) - 1) : Places(shorter)[i] = visits[i + 1].resource
  BY <1>1, PlacesTyped
<1> QED
  BY <1>3, <1>4, SamePlaces DEF shorter

\* Going back to a visit goes back to its place.
LEMMA PlacesOfDrop ==
  ASSUME history \in Seq(Visit), history # <<>>
  PROVE  Places(dropVisit) = SubSeq(Places(history), 1, Len(Places(history)) - 1)
<1>1. /\ dropVisit \in Seq(Visit) /\ Len(dropVisit) = Len(history) - 1
      /\ \A i \in 1..(Len(history) - 1) : dropVisit[i] = history[i]
  BY DroppedVisit
<1>2. /\ Places(history) \in Seq(Resource) /\ Len(Places(history)) = Len(history)
      /\ \A i \in 1..Len(history) : Places(history)[i] = history[i].resource
  BY PlacesTyped
<1>3. /\ Places(dropVisit) \in Seq(Resource)
      /\ Len(Places(dropVisit)) = Len(history) - 1
      /\ \A i \in 1..(Len(history) - 1) : Places(dropVisit)[i] = history[i].resource
  BY <1>1, PlacesTyped
<1> DEFINE n == Len(history) - 1
<1>4. n \in Nat /\ n + 1 = Len(history)
  OBVIOUS
<1> HIDE DEF n
<1>5. \A i \in 1..n : Places(history)[i] \in Resource
  BY <1>2, <1>4
<1>6. /\ SubSeq(Places(history), 1, n) \in Seq(Resource)
      /\ Len(SubSeq(Places(history), 1, n)) = IF 1 <= n THEN n - 1 + 1 ELSE 0
      /\ \A i \in 1..(n - 1 + 1) :
             SubSeq(Places(history), 1, n)[i] = Places(history)[i + 1 - 1]
  BY <1>4, <1>5, SubSeqProperties
<1>7. /\ Len(SubSeq(Places(history), 1, n)) = n
      /\ \A i \in 1..n : SubSeq(Places(history), 1, n)[i] = history[i].resource
  BY <1>2, <1>4, <1>6
<1>8. Len(Places(dropVisit)) = n /\ \A i \in 1..n : Places(dropVisit)[i] = history[i].resource
  BY <1>3, <1>4 DEF n
<1>9. Places(dropVisit) = SubSeq(Places(history), 1, n)
  BY <1>3, <1>6, <1>7, <1>8, SamePlaces
<1> QED
  BY <1>2, <1>9 DEF n

-----------------------------------------------------------------------------
\* Trimming at the same length is the abstract trail's Tail.
LEMMA PlacesOfPush ==
  ASSUME history \in Seq(Visit), Len(history) <= maxHistory, NEW visit \in Visit
  PROVE  LET longer == Append(Places(history), visit.resource)
         IN  Places(pushVisit(visit)) =
                 IF Len(longer) > maxHistory THEN Tail(longer) ELSE longer
<1> DEFINE pushed == Append(history, visit)
<1>1. pushed \in Seq(Visit) /\ pushed # <<>> /\ Len(pushed) = Len(history) + 1
  OBVIOUS
<1>m. maxHistory \in Nat
  BY ExplorerAssumption
<1>2. pushVisit(visit) = IF Len(history) < maxHistory THEN pushed ELSE Tail(pushed)
  BY PushedVisit
<1> HIDE DEF pushed
<1>3. Places(pushed) = Append(Places(history), visit.resource)
  BY PlacesOfAppend DEF pushed
<1>4. Places(Tail(pushed)) = Tail(Places(pushed)) /\ Len(Places(pushed)) = Len(history) + 1
  BY <1>1, PlacesOfTail, PlacesTyped
<1>5. Len(history) \in Nat
  OBVIOUS
<1>6. CASE Len(history) < maxHistory
  BY <1>1, <1>2, <1>3, <1>4, <1>5, <1>6, <1>m
<1>7. CASE ~(Len(history) < maxHistory)
  BY <1>1, <1>2, <1>3, <1>4, <1>5, <1>7, <1>m
<1> QED
  BY <1>6, <1>7

\* The explorer starts as a trail does.
LEMMA InitIsATrail == Init => Navigation!Init
<1> SUFFICES ASSUME Init PROVE current = Start /\ placesVisited = <<>>
  BY DEF Navigation!Init
<1>1. current = Start /\ history = <<>>
  BY Zenon DEF Init
<1>2. <<>> \in Seq(Visit)
  OBVIOUS
<1>3. placesVisited = Places(history)
  BY DEF placesVisited, Places
<1> QED
  BY <1>1, <1>2, <1>3, PlacesTyped

\* An answer that lands is a step along the trail, or none.
LEMMA LandingIsAStep ==
  ASSUME RequestInv, loading, NEW resource \in Resource, resource = pending,
         current' = resource, history' = historyAt(resource)
  PROVE  [Navigation!Next]_Navigation!vars
<1> DEFINE visit == [resource |-> current, cursor |-> cursor]
<1>1. /\ history \in Seq(Visit) /\ Len(history) <= maxHistory /\ visit \in Visit
      /\ visit.resource = current
  BY DEF RequestInv, TypeInv, TypeOK, Visit
<1>2. placesVisited = Places(history) /\ placesVisited' = Places(history')
  BY DEF placesVisited, Places
<1>3. CASE pendingNav = "forward" /\ resource # current
  <2>1. history' = pushVisit(visit)
    BY <1>3 DEF historyAt
  <2>2. Navigation!Forward(resource)
    BY <1>1, <1>2, <1>3, <2>1, PlacesOfPush DEF Navigation!Forward
  <2> QED
    BY <2>2 DEF Navigation!Next
<1>4. CASE pendingNav = "back" /\ history # <<>>
  <2>1. history' = dropVisit
    BY <1>4 DEF historyAt
  <2>2. history[Len(history)].resource = resource
    BY <1>4 DEF RequestInv, RequestFitsPlace
  <2>3. Places(history) # <<>> /\ Places(history)[Len(Places(history))] = resource
    BY <1>1, <1>4, <2>2, PlacesTyped
  <2>4. Navigation!Back
    BY <1>1, <1>2, <1>4, <2>1, <2>3, PlacesOfDrop DEF Navigation!Back
  <2> QED
    BY <2>4 DEF Navigation!Next
<1>5. CASE ~(pendingNav = "forward" /\ resource # current)
           /\ ~(pendingNav = "back" /\ history # <<>>)
  <2>1. history' = history
    BY <1>5 DEF historyAt
  <2>2. pendingNav = "forward" \/ pendingNav = "stay" \/ (pendingNav = "back" /\ history = <<>>)
    BY <1>5 DEF RequestInv, TypeInv, TypeOK
  <2>3. current' = current
    BY <1>5, <2>2 DEF RequestInv, RequestFitsPlace
  <2> QED
    BY <1>2, <2>1, <2>3 DEF Navigation!vars
<1> QED
  BY <1>3, <1>4, <1>5

\* Every step of the explorer is one along the trail, or leaves it alone.
LEMMA NextIsAStep == RequestInv /\ [Next]_vars => [Navigation!Next]_Navigation!vars
<1> SUFFICES ASSUME RequestInv, [Next]_vars
             PROVE  [Navigation!Next]_Navigation!vars
  OBVIOUS
<1>1. CASE UNCHANGED <<current, history>>
  BY <1>1 DEF Navigation!vars, placesVisited
<1>2. ASSUME NEW s \in Slot, handleFetched(s)
      PROVE  [Navigation!Next]_Navigation!vars
  <2> DEFINE f == fetches[s]
  <2>1. f.resource \in Resource /\ f.stage = "posted"
    BY <1>2 DEF handleFetched, RequestInv, TypeInv, TypeOK, FetchTypeOK, Fetch, FetchRecord
  <2>2. f.resource # Blank
    BY <2>1 DEF RequestInv, NamesNotBlank, Active
  <2>3. CASE late(f) \/ f.response = NoResponse
    BY <1>1, <1>2, <2>3 DEF handleFetched, withFetchError, place
  <2>4. CASE ~late(f) /\ f.response # NoResponse
    <3>1. loading /\ f.resource = pending
      BY <2>2, <2>4 DEF RequestInv, AwaitedIsAsked, late
    <3>2. current' = f.resource /\ history' = historyAt(f.resource)
      BY <1>2, <2>4, Zenon DEF handleFetched, WithResponse
    <3> QED
      BY <2>1, <3>1, <3>2, LandingIsAStep
  <2> QED
    BY <2>3, <2>4
<1>3. CASE Navigate
  BY <1>1, <1>3 DEF Navigate, goUp, follow, followAction, goBack, reload, fetchOnKey,
                    startFetch, place
<1>4. CASE Chrome
  BY <1>1, <1>4 DEF Chrome, Quit, OpenHelp, CloseHelp, SwitchFocus, Scroll, moveUp,
         moveDown, moveTo, toggleHeaders, refuseAction, copyCurl, handleCopied,
         handleResize, fetchesAlone, place
<1>5. CASE Edit
  BY <1>1, <1>5 DEF Edit, startEditing, stopEditing, submitEditedLocation, fetchOnSubmit,
         startFetch, forwardToEditor, paste, handlePasted, editorOnly, fetchesAlone, place
<1>6. CASE Pass \/ UNCHANGED vars \/ \E s \in Slot : Progress(s)
  BY <1>1, <1>6 DEF Pass, Progress, vars, place
<1> QED
  BY <1>2, <1>3, <1>4, <1>5, <1>6 DEF Next

\* The explorer's navigation implements the bounded trail: only an answer that
\* lands moves the user, a forward step remembers the place left and a step back
\* undoes exactly one step, whatever is in flight.
THEOREM ExplorerNavigatesTrail ==
  ASSUME Start # Blank
  PROVE  Spec => NavigatesTrail
  BY RequestInvariant, InitIsATrail, NextIsAStep, PTL DEF Spec, NavigatesTrail, Navigation!Spec

-----------------------------------------------------------------------------
(* What is on screen.                                                      *)

\* What the parts of a place are, once it is kept.
LEMMA KeptPlace ==
  ASSUME UNCHANGED place
  PROVE  /\ current' = current /\ resp' = resp /\ rows' = rows
         /\ failed' = failed /\ errResource' = errResource
  BY Zenon DEF place

\* A fetch that starts touches nothing on screen but the notice.
LEMMA StartedFetch ==
  ASSUME NEW s, NEW resource, NEW policy, NEW nav, NEW where,
         startFetch(s, resource, policy, nav, where)
  PROVE  /\ UNCHANGED <<place, cursor, history, showHeaders, content>>
         /\ notice' = "" /\ pending' = resource /\ asked' = resource
  BY Zenon DEF startFetch, body

\* A key that navigates changes nothing on screen but the notice, until it is
\* answered.
LEMMA NavigateSeen ==
  ASSUME Navigate
  PROVE  /\ UNCHANGED <<place, cursor, history, showHeaders, content, editor>>
         /\ notice' = ""
<1>1. \E s \in Slot : \E resource, policy, nav, where :
          startFetch(s, resource, policy, nav, where) /\ UNCHANGED editor
  BY Zenon DEF Navigate, goUp, follow, followAction, goBack, reload, fetchOnKey
<1> QED
  BY <1>1, StartedFetch, Zenon

\* Progress of a fetch and of time is not seen.
LEMMA Unseen ==
  ASSUME (\E s \in Slot : Progress(s)) \/ Pass \/ UNCHANGED vars
  PROVE  UNCHANGED <<place, cursor, history, pending, notice, showHeaders, content, editor>>
  BY Zenon DEF Progress, Pass, vars, request, body

\* What an answer makes of the screen: nothing if it is late.
LEMMA AnswerSeen ==
  ASSUME NEW s \in Slot, handleFetched(s)
  PROVE  /\ UNCHANGED <<editor, showHeaders>>
         /\ \/ UNCHANGED <<place, cursor, history, pending, notice, content>>
            \/ /\ ~late(fetches[s]) /\ fetches[s].response = NoResponse
               /\ pending' = Blank
               /\ withFetchError(fetches[s].resource)
            \/ /\ ~late(fetches[s]) /\ fetches[s].response # NoResponse
               /\ pending' = Blank
               /\ WithResponse(fetches[s].resource, fetches[s].response, fetches[s].cached)
  BY Zenon DEF handleFetched, body

\* A submitted location starts a fetch; the rest of editing is seen in the editor only.
LEMMA EditSeen ==
  ASSUME Edit
  PROVE  \/ /\ ~refused(typed) /\ submitEditedLocation
            /\ editErr' = ""
            /\ \E s \in Slot : startFetch(s, editedResource(typed), "useCache",
                                          "forward", landFirst)
         \/ UNCHANGED <<place, cursor, history, request, notice, showHeaders, content>>
  BY Zenon DEF Edit, startEditing, stopEditing, submitEditedLocation, fetchOnSubmit,
               forwardToEditor, paste, handlePasted, editorOnly, fetchesAlone, body

-----------------------------------------------------------------------------
(* The editor's refusals, the response pane and the notice.                *)

\* Every step keeps a refusal with the editor it was made in.
LEMMA RefusalKept == RefusalNeedsEditor /\ [Next]_vars => RefusalNeedsEditor'
<1> SUFFICES ASSUME RefusalNeedsEditor, [Next]_vars PROVE RefusalNeedsEditor'
  OBVIOUS
<1>1. CASE UNCHANGED editor
  BY <1>1 DEF editor, RefusalNeedsEditor
<1>2. CASE Edit
  BY <1>2 DEF Edit, startEditing, stopEditing, submitEditedLocation, fetchOnSubmit,
              forwardToEditor, paste, handlePasted, Editing, editor, RefusalNeedsEditor
<1>3. CASE Chrome
  <2>1. UNCHANGED editor
    BY <1>3, Zenon DEF Chrome, Quit, OpenHelp, CloseHelp, SwitchFocus, Scroll, moveUp,
           moveDown, moveTo, toggleHeaders, refuseAction, copyCurl, handleCopied,
           handleResize
  <2> QED
    BY <1>1, <2>1
<1> QED
  BY <1>1, <1>2, <1>3, Unseen, NavigateSeen, AnswerSeen DEF Next

\* A refusal never outlives the editing session it is about.
THEOREM RefusalsStayInTheEditor == Spec => []RefusalNeedsEditor
<1>1. Init => RefusalNeedsEditor
  BY Zenon DEF Init, RefusalNeedsEditor
<1> QED
  BY <1>1, RefusalKept, PTL DEF Spec

\* Every step keeps what the pane shows with the page.
LEMMA BodyKept == BodyIsCurrent /\ [Next]_vars => BodyIsCurrent'
<1> SUFFICES ASSUME BodyIsCurrent, [Next]_vars PROVE BodyIsCurrent'
  OBVIOUS
<1>1. ASSUME UNCHANGED <<place, showHeaders, content>> PROVE BodyIsCurrent'
  BY <1>1, KeptPlace, Zenon DEF BodyIsCurrent, shown
<1>2. ASSUME NEW s \in Slot, handleFetched(s) PROVE BodyIsCurrent'
  BY <1>1, <1>2, AnswerSeen, Zenon
     DEF withFetchError, WithResponse, setBody, BodyIsCurrent, shown
<1>3. CASE Chrome
  <2>1. CASE toggleHeaders
    BY <2>1, KeptPlace, Zenon
       DEF toggleHeaders, setBody, fetchesAlone, BodyIsCurrent, shown
  <2>2. CASE handleResize
    BY <2>2, KeptPlace, Zenon DEF handleResize, fetchesAlone, BodyIsCurrent, shown
  <2>3. CASE ~toggleHeaders /\ ~handleResize
    <3>1. UNCHANGED <<place, showHeaders, content>>
      BY <1>3, <2>3, Zenon
         DEF Chrome, Quit, OpenHelp, CloseHelp, SwitchFocus, Scroll, moveUp, moveDown,
             moveTo, refuseAction, copyCurl, handleCopied, fetchesAlone, body
    <3> QED
      BY <1>1, <3>1
  <2> QED
    BY <2>1, <2>2, <2>3
<1>4. CASE Edit
  <2>1. UNCHANGED <<place, showHeaders, content>>
    BY <1>4, EditSeen, StartedFetch, Zenon
  <2> QED
    BY <1>1, <2>1
<1> QED
  BY <1>1, <1>2, <1>3, <1>4, Unseen, NavigateSeen DEF Next

\* The response pane never shows what the model has moved on from.
THEOREM BodyStaysCurrent == Spec => []BodyIsCurrent
<1>1. Init => BodyIsCurrent
  BY Zenon DEF Init, BodyIsCurrent
<1> QED
  BY <1>1, BodyKept, PTL DEF Spec

\* Every step keeps the notice with the row it is about.
LEMMA NoticeKept == NoticeDescribesRow /\ [Next]_vars => NoticeDescribesRow'
<1> SUFFICES ASSUME NoticeDescribesRow, [Next]_vars PROVE NoticeDescribesRow'
  OBVIOUS
<1>1. ASSUME UNCHANGED <<place, cursor, notice>> PROVE NoticeDescribesRow'
  BY <1>1, KeptPlace, Zenon DEF NoticeDescribesRow, selectedRow
<1>2. ASSUME notice' # "post" PROVE NoticeDescribesRow'
  BY <1>2 DEF NoticeDescribesRow
<1>3. ASSUME NEW s \in Slot, handleFetched(s) PROVE NoticeDescribesRow'
  <2>1. UNCHANGED <<place, cursor, notice>> \/ notice' = ""
    BY <1>3, AnswerSeen, Zenon DEF withFetchError, WithResponse
  <2> QED
    BY <1>1, <1>2, <2>1
<1>4. CASE Chrome
  <2>1. CASE refuseAction
    BY <2>1, KeptPlace, Zenon
       DEF refuseAction, fetchesAlone, NoticeDescribesRow, selectedRow
  <2>2. CASE moveUp \/ moveDown \/ handleCopied
    <3>1. notice' = "" \/ notice' = "copy"
      BY <2>2, Zenon DEF moveUp, moveDown, moveTo, handleCopied
    <3> QED
      BY <1>2, <3>1
  <2>3. CASE ~refuseAction /\ ~moveUp /\ ~moveDown /\ ~handleCopied
    <3>1. UNCHANGED <<place, cursor, notice>>
      BY <1>4, <2>3, Zenon
         DEF Chrome, Quit, OpenHelp, CloseHelp, SwitchFocus, Scroll, toggleHeaders,
             copyCurl, handleResize, fetchesAlone
    <3> QED
      BY <1>1, <3>1
  <2> QED
    BY <2>1, <2>2, <2>3
<1>5. CASE Edit
  <2>1. UNCHANGED <<place, cursor, notice>> \/ notice' = ""
    BY <1>5, EditSeen, StartedFetch, Zenon
  <2> QED
    BY <1>1, <1>2, <2>1
<1> QED
  BY <1>1, <1>2, <1>3, <1>4, <1>5, Unseen, NavigateSeen DEF Next

\* The POST notice is never read next to a row it is not about.
THEOREM NoticesDescribeTheirRow == Spec => []NoticeDescribesRow
<1>1. Init => NoticeDescribesRow
  BY DEF Init, NoticeDescribesRow
<1> QED
  BY <1>1, NoticeKept, PTL DEF Spec

-----------------------------------------------------------------------------
(* The row under the cursor is drawn.                                      *)

\* The row of ".." is the first, and no other.
OneParent == \A i \in DOMAIN rows : rows[i].kind = "parent" => i = 1

\* The rows of a page start with the parent's, and have no other.
LEMMA BuiltOneParent ==
  ASSUME NEW groups \in Seq(Row), NEW atRoot \in BOOLEAN,
         \A i \in DOMAIN groups : groups[i].kind # "parent"
  PROVE  LET built == buildRows(groups, atRoot)
         IN  \A i \in DOMAIN built : built[i].kind = "parent" => i = 1
<1> DEFINE built == buildRows(groups, atRoot)
<1>1. built = <<parentRow(atRoot)>> \o groups
  BY DEF buildRows
<1>2. \A i \in DOMAIN built : i # 1 => i - 1 \in DOMAIN groups /\ built[i] = groups[i - 1]
  BY <1>1
<1> QED
  BY <1>2

\* It holds at the start.
LEMMA InitOneParent == Init => OneParent
<1>1. Init => rows = buildRows(<<>>, TRUE)
  BY Zenon DEF Init
<1>2. <<>> \in Seq(Row) /\ TRUE \in BOOLEAN /\ DOMAIN <<>> = {}
  OBVIOUS
<1> QED
  BY <1>1, <1>2, BuiltOneParent, Zenon DEF OneParent

\* Every step keeps the rows so.
LEMMA OneParentKept == TypeInv /\ OneParent /\ [Next]_vars => OneParent'
<1> SUFFICES ASSUME TypeInv, OneParent, [Next]_vars PROVE OneParent'
  OBVIOUS
<1>1. ASSUME rows' = rows PROVE OneParent'
  BY <1>1 DEF OneParent
<1>2. ASSUME NEW s \in Slot, handleFetched(s) PROVE OneParent'
  <2> DEFINE f == fetches[s]
  <2>1. CASE UNCHANGED place \/ withFetchError(f.resource)
    BY <1>1, <2>1, KeptPlace DEF withFetchError
  <2>2. CASE f.response # NoResponse /\ WithResponse(f.resource, f.response, f.cached)
    <3>1. rows' = buildRows(Links[f.response.page], f.resource = RootPath)
      BY <2>2, Zenon DEF WithResponse
    <3>2. f.response.page \in Page
      BY <2>2 DEF TypeInv, TypeOK, FetchTypeOK, Fetch, FetchRecord, Response
    <3>3. /\ Links[f.response.page] \in Seq(Row)
          /\ \A i \in DOMAIN Links[f.response.page] :
                 Links[f.response.page][i].kind # "parent"
      BY <3>2, ExplorerAssumption, LinksAssumption
    <3> QED
      BY <3>1, <3>3, BuiltOneParent, Zenon DEF OneParent
  <2> QED
    BY <1>2, <2>1, <2>2, AnswerSeen, Zenon
<1>3. CASE Chrome
  <2>1. UNCHANGED place
    BY <1>3, Zenon DEF Chrome, Quit, OpenHelp, CloseHelp, SwitchFocus, Scroll, moveUp,
           moveDown, moveTo, toggleHeaders, refuseAction, copyCurl, handleCopied,
           handleResize, fetchesAlone
  <2> QED
    BY <1>1, <2>1, KeptPlace
<1>4. CASE Edit
  <2>1. UNCHANGED place
    BY <1>4, EditSeen, StartedFetch, Zenon
  <2> QED
    BY <1>1, <2>1, KeptPlace
<1> QED
  BY <1>1, <1>2, <1>3, <1>4, KeptPlace, Unseen, NavigateSeen DEF Next

\* On every height the layout admits the window of rows holds the cursor's.
LEMMA CursorDrawn ==
  ASSUME TypeInv, OneParent, NEW height \in Heights, height >= minHeight, ~showHelp
  PROVE  cursor \in rowsDrawn(height)
<1> DEFINE room == linkPaneHeight(height)
<1>1. /\ cursor \in DOMAIN rows /\ selectable(rows, cursor)
      /\ rows \in Seq(Row) /\ Len(rows) \in Nat /\ cursor \in 1..Len(rows)
      /\ rows[cursor] \in Row
  BY Present, ElementTyped
<1>2. height \in Int /\ room \in Int /\ room > 0
  BY ScreenAssumption DEF minHeight, linkPaneHeight, paneContentHeight, paneHeight,
                          headerHeight, footerHeight, frameHeight
<1>3. rowsDrawn(height) = renderLinkPane(room)
  BY <1>2, ScreenAssumption DEF rowsDrawn, minHeight
<1>4. CASE linkRows(rows) = {}
  <2>1. rows[cursor].kind = "parent"
    BY <1>1, <1>4 DEF linkRows, selectable, Row
  <2>2. cursor = 1
    BY <1>1, <2>1 DEF OneParent
  <2> QED
    BY <1>3, <1>4, <2>2 DEF renderLinkPane
<1>5. CASE linkRows(rows) # {}
  <2>1. /\ linkScroll(room) \in Int
        /\ linkScroll(room) < cursor /\ cursor <= linkScroll(room) + room
    <3> DEFINE n == Len(rows)
    <3>1. n \in Nat /\ cursor \in 1..n
      BY <1>1
    <3> HIDE DEF n, room
    <3>2. CASE cursor - 1 < room
      BY <1>2, <3>1, <3>2 DEF linkScroll
    <3>3. CASE ~(cursor - 1 < room)
      <4>1. linkScroll(room) = atLeast(atMost(cursor - room, n - room), 0)
        BY <1>2, <3>1, <3>3 DEF linkScroll, n
      <4>2. linkScroll(room) = cursor - room
        BY <1>2, <3>1, <3>3, <4>1 DEF atLeast, atMost
      <4> QED
        BY <1>2, <3>1, <4>2
    <3> QED
      BY <3>2, <3>3
  <2> QED
    BY <1>1, <1>3, <1>5, <2>1 DEF renderLinkPane
<1> QED
  BY <1>4, <1>5

\* On every terminal the layout admits, of any height and for pages of any length,
\* the row the next key acts on is drawn.
THEOREM CursorStaysOnScreen == Spec => []CursorOnScreen
<1>1. TypeInv /\ OneParent => CursorOnScreen
  BY CursorDrawn DEF CursorOnScreen
<1> QED
  BY <1>1, InitOneParent, OneParentKept, ExplorerTypes, PTL DEF Spec

-----------------------------------------------------------------------------
(* The curl command.                                                       *)

\* Whatever the explorer is at, was at, waits for or could go to, the curl command
\* for it asks for what a fetch of it would ask for.
PlacesAgree ==
    /\ curlAgrees(current)
    /\ errResource # Blank => curlAgrees(errResource)
    /\ pending # Blank => curlAgrees(pending)
    /\ \A i \in DOMAIN history : curlAgrees(history[i].resource)
    /\ \A i \in linkRows(rows) : /\ curlAgrees(rows[i].target)
                                 /\ rows[i].info # Blank => curlAgrees(rows[i].info)

\* What is not asked for does not disturb it.
LEMMA AgreementKept ==
  ASSUME PlacesAgree, UNCHANGED <<place, history>>,
         pending' = pending \/ curlAgrees(pending')
  PROVE  PlacesAgree'
<1>1. /\ current' = current /\ errResource' = errResource /\ rows' = rows
      /\ history' = history
  BY KeptPlace
<1> QED
  BY <1>1 DEF PlacesAgree, curlAgrees

\* It is kept by the keys that navigate, which take places from the rows.
LEMMA NavigateAgrees ==
  ASSUME TypeInv, PlacesAgree, Navigate
  PROVE  PlacesAgree'
<1>0. /\ rows \in Seq(Row) /\ cursor \in DOMAIN rows /\ current \in Resource
      /\ history \in Seq(Visit)
  BY DEF TypeInv, TypeOK, CursorRests
<1>1. ASSUME NEW resource, curlAgrees(resource),
             \E s \in Slot : \E policy, nav, where :
                 startFetch(s, resource, policy, nav, where)
      PROVE  PlacesAgree'
  <2>1. UNCHANGED <<place, history>> /\ pending' = resource
    BY <1>1, StartedFetch, Zenon
  <2> QED
    BY <1>1, <2>1, AgreementKept
<1>2. CASE goUp
  <2>1. curlAgrees(Parent[current])
    BY <1>0, CurlAssumption
  <2> QED
    BY <1>1, <1>2, <2>1 DEF goUp, fetchOnKey
<1>3. CASE follow
  <2>1. curlAgrees(selectedRow.target)
    BY <1>0, <1>3 DEF follow, selectedRow, linkRows, PlacesAgree
  <2> QED
    BY <1>1, <1>3, <2>1 DEF follow, fetchOnKey
<1>4. CASE followAction
  <2>1. curlAgrees(selectedRow.info)
    BY <1>0, <1>4 DEF followAction, selectedRow, linkRows, PlacesAgree
  <2> QED
    BY <1>1, <1>4, <2>1 DEF followAction, fetchOnKey
<1>5. CASE goBack
  <2>1. curlAgrees(history[Len(history)].resource)
    BY <1>0, <1>5, LastTyped DEF goBack, PlacesAgree
  <2> QED
    BY <1>1, <1>5, <2>1 DEF goBack, fetchOnKey
<1>6. CASE reload
  BY <1>1, <1>6 DEF reload, fetchOnKey, PlacesAgree
<1> QED
  BY <1>2, <1>3, <1>4, <1>5, <1>6 DEF Navigate

\* The trail only ever takes up the place that is left.
LEMMA TrailAgrees ==
  ASSUME TypeInv, PlacesAgree, NEW resource
  PROVE  \A i \in DOMAIN historyAt(resource) : curlAgrees(historyAt(resource)[i].resource)
<1> DEFINE visit == [resource |-> current, cursor |-> cursor]
           after == historyAt(resource)
<1>1. history \in Seq(Visit) /\ Len(history) <= maxHistory /\ visit \in Visit
  BY DEF TypeInv, TypeOK, Visit
<1>2. visit.resource = current
  OBVIOUS
<1>3. CASE after = history
  BY <1>3 DEF PlacesAgree
<1>4. CASE after = dropVisit /\ history # <<>>
  <2>1. /\ after \in Seq(Visit) /\ Len(after) = Len(history) - 1
        /\ \A i \in 1..(Len(history) - 1) : after[i] = history[i]
    BY <1>1, <1>4, DroppedVisit
  <2> HIDE DEF after
  <2>2. \A i \in DOMAIN after : i \in DOMAIN history /\ after[i] = history[i]
    BY <1>1, <2>1
  <2>3. \A i \in DOMAIN after : curlAgrees(after[i].resource)
    BY <2>2 DEF PlacesAgree
  <2> QED
    BY <2>3 DEF after
<1>5. CASE after = pushVisit(visit)
  <2> HIDE DEF after, visit
  <2>1. PICK k \in {0, 1} :
           /\ Len(after) = Len(history) + 1 - k
           /\ \A i \in 1..(Len(after) - 1) : after[i] = history[i + k]
    BY <1>1, <1>5, PushedVisit, Zenon
  <2>2. after \in Seq(Visit) /\ after[Len(after)] = visit
    BY <1>1, <1>5, PushedVisit, Zenon
  <2>3. \A i \in DOMAIN after : \/ after[i] = visit
                               \/ \E j \in DOMAIN history : after[i] = history[j]
    <3>1. ASSUME NEW i \in DOMAIN after, i # Len(after)
          PROVE  i + k \in DOMAIN history /\ after[i] = history[i + k]
      BY <1>1, <2>1, <2>2, <3>1
    <3> QED
      BY <2>2, <3>1
  <2>4. \A i \in DOMAIN after : curlAgrees(after[i].resource)
    BY <1>2, <2>3 DEF PlacesAgree
  <2> QED
    BY <2>4 DEF after
<1> QED
  BY <1>3, <1>4, <1>5 DEF historyAt

\* It is kept by an answer, which brings the rows of its links.
LEMMA AnswerAgrees ==
  ASSUME RequestInv, PlacesAgree, NEW s \in Slot, handleFetched(s)
  PROVE  PlacesAgree'
<1> DEFINE f == fetches[s]
<1>1. f \in FetchRecord /\ f.resource # Blank
  BY DEF handleFetched, RequestInv, TypeInv, TypeOK, FetchTypeOK, Fetch, NamesNotBlank,
         Active
<1>2. CASE UNCHANGED <<place, history, pending>>
  BY <1>2, AgreementKept
<1>3. CASE ~late(f) /\ withFetchError(f.resource) /\ pending' = Blank
  <2>1. curlAgrees(f.resource)
    BY <1>1, <1>3 DEF late, PlacesAgree
  <2>2. /\ current' = current /\ errResource' = f.resource /\ rows' = rows
        /\ history' = history
    BY <1>3, Zenon DEF withFetchError
  <2> QED
    BY <1>3, <2>1, <2>2 DEF PlacesAgree, curlAgrees
<1>4. CASE /\ ~late(f) /\ f.response # NoResponse /\ pending' = Blank
           /\ WithResponse(f.resource, f.response, f.cached)
  <2>1. curlAgrees(f.resource)
    BY <1>1, <1>4 DEF late, PlacesAgree
  <2>2. /\ current' = f.resource /\ errResource' = Blank
        /\ history' = historyAt(f.resource)
        /\ rows' = buildRows(Links[f.response.page], f.resource = RootPath)
    BY <1>4, Zenon DEF WithResponse
  <2>3. f.response.page \in Page
    BY <1>1, <1>4 DEF FetchRecord, Response
  <2>4. \A i \in linkRows(rows') :
            /\ i - 1 \in DOMAIN Links[f.response.page]
            /\ rows'[i] = Links[f.response.page][i - 1]
    BY <2>2, <2>3, BuiltRows, ExplorerAssumption
  <2>5. \A i \in linkRows(rows') : rows'[i].kind # "header"
    BY DEF linkRows
  <2>6. \A i \in linkRows(rows') :
            /\ curlAgrees(rows'[i].target)
            /\ rows'[i].info # Blank => curlAgrees(rows'[i].info)
    BY <2>3, <2>4, <2>5, CurlAssumption, Zenon
  <2>7. \A i \in DOMAIN history' : curlAgrees(history'[i].resource)
    BY <2>2, TrailAgrees DEF RequestInv
  <2> QED
    BY <1>4, <2>1, <2>2, <2>6, <2>7 DEF PlacesAgree, curlAgrees
<1> QED
  BY <1>2, <1>3, <1>4, AnswerSeen, Zenon

\* Every step keeps the places so.
LEMMA NextAgrees == RequestInv /\ PlacesAgree /\ [Next]_vars => PlacesAgree'
<1> SUFFICES ASSUME RequestInv, PlacesAgree, [Next]_vars PROVE PlacesAgree'
  OBVIOUS
<1>1. CASE Chrome
  <2>1. UNCHANGED <<place, history, pending>>
    BY <1>1, Zenon DEF Chrome, Quit, OpenHelp, CloseHelp, SwitchFocus, Scroll, moveUp,
           moveDown, moveTo, toggleHeaders, refuseAction, copyCurl, handleCopied,
           handleResize, fetchesAlone, request
  <2> QED
    BY <2>1, AgreementKept
<1>2. CASE Edit
  <2>1. CASE UNCHANGED <<place, history, request>>
    BY <2>1, AgreementKept DEF request
  <2>2. CASE /\ ~refused(typed)
             /\ \E s \in Slot : startFetch(s, editedResource(typed), "useCache",
                                           "forward", landFirst)
    <3>1. Resolve[Trim[typed]] \in Url
      BY <2>2, FetchAssumption, ExplorerAssumption DEF refused, RequestInv, TypeInv, TypeOK
    <3>2. curlAgrees(editedResource(typed))
      BY <3>1, CurlAssumption DEF editedResource
    <3>3. UNCHANGED <<place, history>> /\ pending' = editedResource(typed)
      BY <2>2, StartedFetch, Zenon
    <3> QED
      BY <3>2, <3>3, AgreementKept
  <2> QED
    BY <1>2, <2>1, <2>2, EditSeen
<1>3. CASE (\E s \in Slot : Progress(s)) \/ Pass \/ UNCHANGED vars
  BY <1>3, Unseen, AgreementKept
<1> QED
  BY <1>1, <1>2, <1>3, NavigateAgrees, AnswerAgrees DEF Next, RequestInv

\* Started on a path, rfx never offers a curl command for another URL than the one it
\* asks for itself, whatever was followed, typed or refused since.
THEOREM CurlStaysTrue ==
  ASSUME Start # Blank, curlAgrees(Start)
  PROVE  Spec => []CurlAsksTheSame
<1>1. Init => PlacesAgree
  <2> SUFFICES ASSUME Init PROVE PlacesAgree
    OBVIOUS
  <2>1. /\ current = Start /\ errResource = Blank /\ pending = Start /\ history = <<>>
        /\ rows = buildRows(<<>>, TRUE)
    BY Zenon DEF Init
  <2>2. <<>> \in Seq(Row) /\ TRUE \in BOOLEAN /\ DOMAIN <<>> = {}
    OBVIOUS
  <2>3. linkRows(rows) = {}
    BY <2>1, <2>2, BuiltRows, Zenon
  <2> QED
    BY <2>1, <2>2, <2>3 DEF PlacesAgree
<1>2. PlacesAgree => CurlAsksTheSame
  BY DEF PlacesAgree, CurlAsksTheSame, curlResource
<1> QED
  BY <1>1, <1>2, NextAgrees, RequestInvariant, PTL DEF Spec

-----------------------------------------------------------------------------
(* The footer.                                                             *)

\* The parent's row is disabled at the root.
LEMMA MarkedParent ==
  ASSUME NEW atRoot \in BOOLEAN
  PROVE  parentRow(atRoot).disabled = atRoot
  BY Zenon DEF parentRow

\* What Enter on ".." or a link asks for is what the footer named before.
LEMMA EnterAsForetold ==
  ASSUME TypeInv, OneParent, RowsBelongToLocation, resp # NoResponse, goUp \/ follow
  PROVE  footerLeft[1] = "notice" \/ footerLeft = <<"leads to", asked'>>
<1>1. ~showHelp
  BY DEF goUp, follow, Pressed
<1>2. CASE notice # ""
  <2>1. footerLeft = <<"notice", notice>>
    BY <1>1, <1>2, Zenon DEF footerLeft
  <2> QED
    BY <2>1
<1>3. CASE notice = "" /\ follow
  <2>1. asked' = selectedRow.target /\ selectedRow.kind = "link"
    <3>1. PICK s \in Slot :
             startFetch(s, selectedRow.target, "useCache", "forward", landFirst)
      BY <1>3 DEF follow, fetchOnKey
    <3>2. asked' = selectedRow.target
      BY <3>1, Zenon DEF startFetch
    <3>3. selectedRow.kind = "link"
      BY <1>3, Zenon DEF follow
    <3> QED
      BY <3>2, <3>3, Zenon
  <2>2. selectedRow.kind # "parent"
    BY <2>1
  <2> QED
    BY <1>1, <1>3, <2>1, <2>2, Zenon DEF footerLeft
<1>4. CASE notice = "" /\ goUp
  <2>1. asked' = Parent[current] /\ selectedRow.kind = "parent" /\ Parent[current] # current
    <3>1. PICK s \in Slot :
             startFetch(s, Parent[current], "useCache", "forward", landChild(current))
      BY <1>4 DEF goUp, fetchOnKey
    <3>2. asked' = Parent[current]
      BY <3>1, Zenon DEF startFetch
    <3>3. selectedRow.kind = "parent" /\ Parent[current] # current
      BY <1>4, Zenon DEF goUp
    <3> QED
      BY <3>2, <3>3, Zenon
  <2>2. cursor \in DOMAIN rows
    BY Present
  <2>3. cursor = 1
    BY <2>1, <2>2 DEF OneParent, selectedRow
  <2>4. current # RootPath
    BY <2>1, ScreenAssumption
  <2>5. ~selectedRow.disabled
    <3>1. rows = buildRows(Links[resp.page], current = RootPath) /\ resp.page \in Page
      BY DEF RowsBelongToLocation, TypeInv, TypeOK, Response
    <3>2. rows[1] = parentRow(current = RootPath)
      BY <3>1, BuiltRows, ExplorerAssumption
    <3>3. rows[1].disabled = (current = RootPath)
      BY <3>2, MarkedParent, Zenon
    <3> QED
      BY <2>3, <2>4, <3>3, Zenon DEF selectedRow
  <2> QED
    BY <1>1, <1>4, <2>1, <2>5, Zenon DEF footerLeft
<1> QED
  BY <1>2, <1>3, <1>4

\* From the first answer on, Enter keeps what the footer promised, for every page.
THEOREM FooterKeepsItsWord == Spec => FooterForetellsEnter
<1>1. TypeInv /\ OneParent /\ RowsBelongToLocation
      => [(goUp \/ follow) /\ resp # NoResponse =>
             footerLeft[1] = "notice" \/ footerLeft = <<"leads to", asked'>>]_vars
  BY EnterAsForetold
<1> QED
  BY <1>1, InitOneParent, OneParentKept, ExplorerTypes, LocationsOwnTheirRows, PTL
     DEF Spec, FooterForetellsEnter
=============================================================================
