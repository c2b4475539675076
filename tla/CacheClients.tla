---------------------------- MODULE CacheClients -----------------------------
(***************************************************************************)
(* The response cache driven by any number of goroutines.  The mutex makes *)
(* every call atomic, so their interleavings are the sequences of calls.   *)
(***************************************************************************)
EXTENDS ResponseCache

CONSTANTS
    Response,   \* what is stored
    Nil         \* the nil response: a miss, or a call of Set that has nothing

ASSUME NilAssumption == Nil \notin Response

VARIABLE got    \* what the last Get reported

vars == <<ttl, now, entries, got>>

Init == CacheInit /\ got = Nil

Get(key) ==
    /\ got' = IF Hit(key) THEN entries[key].response ELSE Nil
    /\ entries' = AfterGet(key)
    /\ UNCHANGED <<ttl, now>>

\* A nil response is ignored.
Set(key, response) ==
    /\ response # Nil
    /\ entries' = AfterSet(key, response)
    /\ UNCHANGED <<ttl, now, got>>

Invalidate(key) ==
    /\ entries' = AfterInvalidate(key)
    /\ UNCHANGED <<ttl, now, got>>

Pass == Tick /\ UNCHANGED got

Next ==
    \/ \E key \in Url : Get(key) \/ Invalidate(key)
    \/ \E key \in Url, response \in Response \cup {Nil} : Set(key, response)
    \/ Pass

Spec == Init /\ [][Next]_vars

-----------------------------------------------------------------------------
\* The state of the cache has the shape of the fields of cache.Cache, and only
\* real responses are held: Set (cache.go:75) keeps nil out of the map.
TypeOK ==
    /\ ttl \in Ttls
    /\ now \in Nat
    /\ Held \subseteq Url
    /\ \A u \in Held : entries[u] \in Entry(Response)
    /\ got \in Response \cup {Nil}

\* A disabled cache holds nothing and no entry is stamped ahead of the clock, so
\* that the age Get computes (cache.go:63) is never negative and an entry cannot
\* outlive its ttl.
StampsAreSound ==
    \A u \in Held : ttl > 0 /\ entries[u].storedAt <= now

\* The inductive invariant.
CacheInv == TypeOK /\ StampsAreSound

\* The part of the store that is still served, each entry with the time it has
\* left.  Stated from the stamps, not from Get's own test.
Served == {u \in Held : entries[u].storedAt + ttl > now}

Leased ==
    [u \in Served |-> [response |-> entries[u].response,
                       left |-> entries[u].storedAt + ttl - now]]

Lease == INSTANCE LeaseStore
             WITH Nothing <- Nil, length <- ttl, leases <- Leased

\* The cache implements the lease store: a Get answers with the last response
\* stored under the URL for exactly ttl, misses from then on, and dropping an
\* expired entry (cache.go:63-67) is invisible.
ImplementsLease == Lease!Spec
=============================================================================
