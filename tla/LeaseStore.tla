----------------------------- MODULE LeaseStore ------------------------------
(***************************************************************************)
(* What the cache promises, without timestamps: a stored response is held  *)
(* on a lease that counts down with the clock and is gone the moment it    *)
(* reaches zero, and a read reports exactly what is on lease.  The lease   *)
(* of a disabled store is never granted.                                   *)
(***************************************************************************)
EXTENDS Integers

CONSTANTS
    Url,        \* what responses are stored under
    Response,   \* what is stored
    Nothing,    \* what a read of an unleased URL reports
    Ttls        \* the lengths a lease may have

VARIABLES
    length,     \* the length every lease is granted for
    leases,     \* [URL on lease -> [response, left]]
    got         \* what the last read reported

vars == <<length, leases, got>>

Init ==
    /\ length \in Ttls
    /\ leases = [u \in {} |-> u]
    /\ got = Nothing

Put(u, r) ==
    /\ length > 0
    /\ leases' = [v \in DOMAIN leases \cup {u} |->
                     IF v = u THEN [response |-> r, left |-> length]
                              ELSE leases[v]]
    /\ UNCHANGED <<length, got>>

Drop(u) ==
    /\ leases' = [v \in DOMAIN leases \ {u} |-> leases[v]]
    /\ UNCHANGED <<length, got>>

Read(u) ==
    /\ got' = IF u \in DOMAIN leases THEN leases[u].response ELSE Nothing
    /\ UNCHANGED <<length, leases>>

\* One unit of time: leases in their last unit lapse, the others shorten.
Elapse ==
    /\ leases' = [v \in {u \in DOMAIN leases : leases[u].left > 1} |->
                     [leases[v] EXCEPT !.left = @ - 1]]
    /\ UNCHANGED <<length, got>>

Next ==
    \/ \E u \in Url : Read(u) \/ Drop(u)
    \/ \E u \in Url, r \in Response : Put(u, r)
    \/ Elapse

Spec == Init /\ [][Next]_vars
=============================================================================
