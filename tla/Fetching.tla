------------------------------ MODULE Fetching -------------------------------
(***************************************************************************)
(* The fetch commands of internal/tui/fetch.go.  Each runs in a goroutine  *)
(* of its own, next to the update loop and to every other fetch: it looks  *)
(* into the cache, makes the request, stores the answer and posts its      *)
(* outcome, with other goroutines and key presses in between.  Outcomes    *)
(* reach the update loop in any order.                                     *)
(***************************************************************************)
EXTENDS ResponseCache

CONSTANTS
    Resource,     \* strings that name a resource; Blank, the empty one, included
    Blank,
    Resolve,      \* Client.Resolve: [Resource -> Url or Refused]
    Refused,
    Page,         \* contents a service may answer with, error statuses included
    Pages,        \* [Url -> the pages the service may answer that URL with]
    NoResponse,   \* the nil response
    Slot          \* BOUND: at most this many fetches are in flight at once

ASSUME FetchAssumption ==
    /\ Blank \in Resource
    /\ Resolve \in [Resource -> Url \cup {Refused}]
    /\ Refused \notin Url
    /\ Pages \in [Url -> SUBSET Page]

VARIABLE fetches  \* the fetch each slot runs

\* An answer of the service: whose it is, what it holds and when it was fetched.
Response == [url : Url, page : Page, at : Nat]

ASSUME NoResponseAssumption == NoResponse \notin Response

Policy == {"useCache", "skipCache"}

\* Where a fetch is: at its next action, or with its outcome posted.
Stage == {"idle", "lookup", "request", "store", "posted"}

\* A fetch, and once it is posted the fetchedMsg it posted: a posted fetch
\* without a response is one with an error.
FetchRecord == [stage : Stage, resource : Resource, policy : Policy,
                response : Response \cup {NoResponse}, cached : BOOLEAN]

\* A fetch has what its stage needs: a URL to request, an answer to store.
WellFormed(f) ==
    /\ f.stage \in {"request", "store"} => Resolve[f.resource] \in Url
    /\ f.stage = "store" => f.response \in Response

Fetch == {f \in FetchRecord : WellFormed(f)}

Idle == [stage |-> "idle", resource |-> Blank, policy |-> "useCache",
         response |-> NoResponse, cached |-> FALSE]

\* The command fetchCmd returns, as the runtime starts it.
fetchCmd(resource, policy) ==
    [Idle EXCEPT !.stage = "lookup", !.resource = resource, !.policy = policy]

Active(s) == fetches[s].stage # "idle"

\* Mutant of Key: the resource is dropped on the way to Resolve.
Key_Default(f) == Resolve[Blank]

\* The cache key of a fetch.
Key(f) == Resolve[f.resource]

\* Mutants of the outcomes: an error returns without a message; an error is tried
\* again; an answer from the service is marked as cached; the cache is read under
\* the wrong key.
Error_Silent(f) == Idle
Error_Retries(f) == [f EXCEPT !.stage = "lookup"]
Answered_MarksCached(f, response) ==
    [f EXCEPT !.stage = "posted", !.response = response, !.cached = TRUE]
FromCache_AnyEntry(f) ==
    [f EXCEPT !.stage = "posted", !.cached = TRUE,
              !.response = entries[CHOOSE u \in Held : TRUE].response]

\* The outcomes a fetch can post.
Error(f) == [f EXCEPT !.stage = "posted"]
Answered(f, response) == [f EXCEPT !.stage = "posted", !.response = response]
FromCache(f) ==
    [f EXCEPT !.stage = "posted", !.response = entries[Key(f)].response, !.cached = TRUE]

Step(s, f) == fetches' = [fetches EXCEPT ![s] = f]

-----------------------------------------------------------------------------
\* A resource that does not resolve is an error, and no cache is consulted.
Refuse(s) ==
    LET f == fetches[s] IN
    /\ f.stage = "lookup"
    /\ Key(f) = Refused
    /\ Step(s, Error(f))
    /\ UNCHANGED cacheVars

\* The cache is consulted first, unless the fetch is to skip it.
LookUp(s) ==
    LET f == fetches[s] IN
    /\ f.stage = "lookup"
    /\ Key(f) # Refused
    /\ f.policy = "useCache"
    /\ Step(s, IF Hit(Key(f)) THEN FromCache(f) ELSE [f EXCEPT !.stage = "request"])
    /\ entries' = AfterGet(Key(f))
    /\ UNCHANGED <<ttl, now>>

SkipCache(s) ==
    LET f == fetches[s] IN
    /\ f.stage = "lookup"
    /\ Key(f) # Refused
    /\ f.policy = "skipCache"
    /\ Step(s, [f EXCEPT !.stage = "request"])
    /\ UNCHANGED cacheVars

\* The service answers, with any page it may hold at this moment.
Respond(s) ==
    LET f == fetches[s] IN
    /\ f.stage = "request"
    /\ \E page \in Pages[Key(f)] :
           Step(s, [f EXCEPT !.stage = "store",
                             !.response = [url |-> Key(f), page |-> page, at |-> now]])
    /\ UNCHANGED cacheVars

\* The request cannot be made, or its time runs out.
Fail(s) ==
    /\ fetches[s].stage = "request"
    /\ Step(s, Error(fetches[s]))
    /\ UNCHANGED cacheVars

\* The answer is cached, whatever its status, and posted.
Store(s) ==
    LET f == fetches[s] IN
    /\ f.stage = "store"
    /\ Step(s, Answered(f, f.response))
    /\ entries' = AfterSet(Key(f), f.response)
    /\ UNCHANGED <<ttl, now>>

FetchStep(s) ==
    Refuse(s) \/ LookUp(s) \/ SkipCache(s) \/ Respond(s) \/ Fail(s) \/ Store(s)

-----------------------------------------------------------------------------
\* The cache and the fetches hold what their fields can hold.
FetchTypeOK ==
    /\ ttl \in Ttls
    /\ now \in Nat
    /\ Held \subseteq Url
    /\ \A u \in Held : entries[u] \in Entry(Response)
    /\ fetches \in [Slot -> Fetch]
=============================================================================
