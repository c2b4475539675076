CONSTANTS
    Url = {u1, u2}
    Ttls <- MCTtls
    MaxNow = 5
    Response = {r1, r2}
    Nil = Nil
SPECIFICATION Spec
INVARIANTS CacheInv
PROPERTIES ImplementsLease
