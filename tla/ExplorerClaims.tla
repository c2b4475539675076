--------------------------- MODULE ExplorerClaims ----------------------------
(***************************************************************************)
(* Statements the repository makes about the explorer that its code does   *)
(* not keep in every interleaving.  Each is refuted by a run of its own.   *)
(***************************************************************************)
EXTENDS ExplorerProperties

\* The fetch that landed last was asked for with the reload key: only a reload
\* stays where it is and remembers a row.
landedReload ==
    /\ ~loading
    /\ pendingNav = "stay"
    /\ pendingLanding.cursor # noCursor
    /\ ~failed

\* "r forces a fresh request" (README.md:197): a reload does not come to rest on a
\* cached view while the request it forced is still to be made or answered.
\* Answers are matched by resource alone, so a cached answer to an earlier fetch
\* of the location lands in the reload's place, and the fresh one is thrown away
\* when it comes (fetch.go:67).
ReloadIsFresh ==
    landedReload /\ fromCache =>
        ~\E s \in Slot : /\ fetches[s].resource = current
                        /\ fetches[s].policy = "skipCache"
                        /\ fetches[s].stage \in {"lookup", "request"}

\* "skipCache forces a request and replaces the cached entry" (fetch.go:19): once
\* a reload has landed, the cache holds nothing older than what it showed.  A
\* request for the same URL that was answered earlier may be stored later, over
\* the reload's entry (fetch.go:50-57).
ReloadReplacesEntry ==
    landedReload /\ ~fromCache /\ resp.url \in Held =>
        entries[resp.url].response.at >= resp.at
=============================================================================
