--------------------------- MODULE MCCacheClients ----------------------------
(* Two URLs, two responses, an enabled cache and both forms of a disabled   *)
(* one, over enough time for an entry to be stored late, refreshed and      *)
(* expire.                                                                  *)
EXTENDS CacheClients

MCTtls == {-1, 0, 2}
=============================================================================
