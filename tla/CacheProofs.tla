----------------------------- MODULE CacheProofs -----------------------------
(***************************************************************************)
(* For every set of URLs, responses and times to live: the inductive       *)
(* invariant of the cache, and that the cache implements the lease store.  *)
(***************************************************************************)
EXTENDS CacheClients, TLAPS

\* New returns a cache that satisfies the invariant.
LEMMA InitCacheInv == Init => CacheInv
  BY TtlsAssumption DEF Init, CacheInit, CacheInv, TypeOK, StampsAreSound, Held

\* Every call, and the passing of time, keeps it.
LEMMA NextCacheInv == CacheInv /\ [Next]_vars => CacheInv'
<1> SUFFICES ASSUME CacheInv, [Next]_vars PROVE CacheInv'
  OBVIOUS
<1> USE TtlsAssumption DEF CacheInv, TypeOK, StampsAreSound, Held, Entry
<1>1. ASSUME NEW key \in Url, Get(key) PROVE CacheInv'
  <2>1. \/ entries' = entries
        \/ entries' = [u \in DOMAIN entries \ {key} |-> entries[u]]
    BY <1>1 DEF Get, AfterGet, Without
  <2>2. got' \in Response \cup {Nil}
    BY <1>1 DEF Get, Hit
  <2> QED
    BY <1>1, <2>1, <2>2 DEF Get
<1>2. ASSUME NEW key \in Url, Invalidate(key) PROVE CacheInv'
  BY <1>2 DEF Invalidate, AfterInvalidate, Without
<1>3. ASSUME NEW key \in Url, NEW response \in Response \cup {Nil}, Set(key, response)
      PROVE  CacheInv'
  BY <1>3 DEF Set, AfterSet, enabled
<1>4. CASE Pass
  BY <1>4 DEF Pass, Tick
<1>5. CASE UNCHANGED vars
  BY <1>5 DEF vars
<1> QED
  BY <1>1, <1>2, <1>3, <1>4, <1>5 DEF Next

\* No run of the cache holds an entry when it is disabled, an entry stamped
\* ahead of its clock, or a nil response (cache.go:45-83).
THEOREM CacheInvariant == Spec => []CacheInv
<1>1. CacheInv /\ [Next]_vars => CacheInv'
  BY NextCacheInv
<1> QED
  BY InitCacheInv, <1>1, PTL DEF Spec

-----------------------------------------------------------------------------
\* Get's test for a hit is being on lease: the age it computes from the stamp is
\* below ttl exactly while the lease has time left.
LEMMA HitIsServed ==
  ASSUME CacheInv, NEW key \in Url
  PROVE  Hit(key) <=> key \in Served
  BY TtlsAssumption
     DEF Hit, Served, Expired, enabled, Held, CacheInv, TypeOK, StampsAreSound, Entry

\* The initial store has no lease.
LEMMA InitImplementsLease == Init => Lease!Init
  BY DEF Init, CacheInit, Lease!Init, Leased, Served, Held

\* Every step of the cache is a step of the lease store or leaves it alone.
LEMMA NextImplementsLease == CacheInv /\ [Next]_vars => [Lease!Next]_(Lease!vars)
<1> SUFFICES ASSUME CacheInv, [Next]_vars PROVE [Lease!Next]_(Lease!vars)
  OBVIOUS
<1> USE TtlsAssumption, NilAssumption
<1>0. /\ ttl \in Int /\ now \in Nat
      /\ \A u \in Held : entries[u].storedAt \in Nat /\ entries[u].storedAt <= now
      /\ \A u \in Served : u \in Held /\ u \in Url
  BY DEF CacheInv, TypeOK, StampsAreSound, Entry, Served
<1>1. ASSUME NEW key \in Url, Get(key) PROVE [Lease!Next]_(Lease!vars)
  <2>1. Served' = Served
    BY <1>0, <1>1 DEF Get, AfterGet, Without, Served, Held, Expired
  <2>2. \A u \in Served : entries'[u] = entries[u]
    BY <1>0, <1>1 DEF Get, AfterGet, Without, Served, Held, Expired
  <2>3. Leased' = Leased
    BY <1>1, <2>1, <2>2 DEF Leased, Get
  <2>4. got' = IF key \in DOMAIN Leased THEN Leased[key].response ELSE Nil
    BY <1>1, HitIsServed DEF Get, Leased
  <2>5. Lease!Read(key)
    BY <1>1, <2>3, <2>4 DEF Lease!Read, Get
  <2> QED
    BY <2>5 DEF Lease!Next
<1>2. ASSUME NEW key \in Url, Invalidate(key) PROVE [Lease!Next]_(Lease!vars)
  <2>1. Served' = Served \ {key}
    BY <1>2 DEF Invalidate, AfterInvalidate, Without, Served, Held
  <2>2. \A u \in Served' : entries'[u] = entries[u]
    BY <1>2 DEF Invalidate, AfterInvalidate, Without, Served, Held
  <2>3. Leased' = [u \in DOMAIN Leased \ {key} |-> Leased[u]]
    BY <1>2, <2>1, <2>2 DEF Leased, Invalidate
  <2>4. Lease!Drop(key)
    BY <1>2, <2>3 DEF Lease!Drop, Invalidate
  <2> QED
    BY <2>4 DEF Lease!Next
<1>3. ASSUME NEW key \in Url, NEW response \in Response \cup {Nil}, Set(key, response)
      PROVE  [Lease!Next]_(Lease!vars)
  <2>1. CASE ~enabled
    <3>1. entries' = entries /\ ttl' = ttl /\ now' = now /\ got' = got
      BY <1>3, <2>1 DEF Set, AfterSet
    <3>2. Leased' = Leased
      BY <3>1 DEF Leased, Served, Held
    <3> QED
      BY <3>1, <3>2 DEF Lease!vars
  <2>2. CASE enabled
    <3>1. Served' = Served \cup {key}
      BY <1>0, <1>3, <2>2 DEF Set, AfterSet, enabled, Served, Held
    <3>2. \A u \in Served' : entries'[u] = IF u = key
                                           THEN [response |-> response, storedAt |-> now]
                                           ELSE entries[u]
      BY <1>3, <2>2, <3>1 DEF Set, AfterSet, Served, Held
    <3>3. Leased' = [u \in DOMAIN Leased \cup {key} |->
                        IF u = key THEN [response |-> response, left |-> ttl]
                                   ELSE Leased[u]]
      BY <1>0, <1>3, <3>1, <3>2 DEF Leased, Set
    <3>4. Lease!Put(key, response)
      BY <1>3, <2>2, <3>3 DEF Lease!Put, Set, enabled
    <3>5. response \in Response
      BY <1>3 DEF Set
    <3> QED
      BY <3>4, <3>5 DEF Lease!Next
  <2> QED
    BY <2>1, <2>2
<1>4. ASSUME Pass PROVE [Lease!Next]_(Lease!vars)
  <2>1. Served' = {u \in DOMAIN Leased : Leased[u].left > 1}
    BY <1>0, <1>4 DEF Pass, Tick, Leased, Served, Held
  <2>2. \A u \in Served' : entries'[u] = entries[u] /\ u \in Served
    BY <1>4, <2>1 DEF Pass, Tick, Leased
  <2>3. \A u \in Served' : [Leased[u] EXCEPT !.left = @ - 1]
                              = [response |-> entries[u].response,
                                 left |-> entries[u].storedAt + ttl - now']
    BY <1>0, <1>4, <2>2 DEF Leased, Pass, Tick
  <2>4. Leased' = [u \in Served' |-> [Leased[u] EXCEPT !.left = @ - 1]]
    BY <1>4, <2>2, <2>3 DEF Leased, Pass, Tick
  <2>5. Lease!Elapse
    BY <1>4, <2>1, <2>4 DEF Lease!Elapse, Pass, Tick
  <2> QED
    BY <2>5 DEF Lease!Next
<1>5. CASE UNCHANGED vars
  BY <1>5 DEF vars, Lease!vars, Leased, Served, Held
<1> QED
  BY <1>1, <1>2, <1>3, <1>4, <1>5 DEF Next

\* Every behaviour of the cache is one of the lease store: what a Get answers is
\* what was last stored under the URL less than ttl ago, whatever expired
\* entries still sit in the map (cache.go:45-83).
THEOREM CacheImplementsLease == Spec => ImplementsLease
<1>1. CacheInv /\ [Next]_vars => [Lease!Next]_(Lease!vars)
  BY NextImplementsLease
<1> QED
  BY InitImplementsLease, CacheInvariant, <1>1, PTL DEF Spec, ImplementsLease, Lease!Spec
=============================================================================
