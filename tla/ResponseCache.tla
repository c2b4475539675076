---------------------------- MODULE ResponseCache ----------------------------
(***************************************************************************)
(* The response cache of internal/cache: a map from absolute URL to a      *)
(* response and the time it was stored.  An entry is served until it is    *)
(* ttl old; a ttl of zero or less turns the cache off.  Every method runs  *)
(* under the cache's mutex, so each is one step of whoever calls it: this  *)
(* module gives the store after each method and leaves the callers to the  *)
(* modules that extend it.                                                 *)
(***************************************************************************)
EXTENDS Integers

CONSTANTS
    Url,     \* the keys: absolute URLs on the connected endpoint
    Ttls,    \* the times to live a cache may be created with, in ticks
    MaxNow   \* BOUND: the clock stops here

ASSUME TtlsAssumption == Ttls \subseteq Int

VARIABLES
    ttl,     \* Cache.ttl, fixed by New
    now,     \* the clock Cache.now reads
    entries  \* Cache.entries, a partial function on Url

cacheVars == <<ttl, now, entries>>

\* An entry holds a response and the time it was stored.
Entry(Responses) == [response : Responses, storedAt : Nat]

\* New: an empty store with the given time to live.
CacheInit ==
    /\ ttl \in Ttls
    /\ now = 0
    /\ entries = [u \in {} |-> u]

enabled == ttl > 0

Held == DOMAIN entries

\* Mutant of Expired: the boundary belongs to the entry.
Expired_Late(key) == now - entries[key].storedAt > ttl

Expired(key) == now - entries[key].storedAt >= ttl

\* Get reports a response exactly when this holds, and it is entries[key].response.
Hit(key) == enabled /\ key \in Held /\ ~Expired(key)

Without(key) == [u \in Held \ {key} |-> entries[u]]

\* The store after Get(key): an expired entry is dropped, nothing else changes.
AfterGet(key) ==
    IF enabled /\ key \in Held /\ Expired(key) THEN Without(key) ELSE entries

\* Mutant of AfterSet: a disabled cache stores.
AfterSet_Always(key, response) ==
    [u \in Held \cup {key} |->
        IF u = key THEN [response |-> response, storedAt |-> now] ELSE entries[u]]

\* The store after Set(key, response).
AfterSet(key, response) ==
    IF enabled
    THEN [u \in Held \cup {key} |->
             IF u = key THEN [response |-> response, storedAt |-> now]
                        ELSE entries[u]]
    ELSE entries

\* The store after Invalidate(key).
AfterInvalidate(key) == Without(key)

\* Time passes.
Tick ==
    /\ now < MaxNow
    /\ now' = now + 1
    /\ UNCHANGED <<ttl, entries>>
=============================================================================
