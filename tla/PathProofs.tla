------------------------------ MODULE PathProofs ------------------------------
(***************************************************************************)
(* What the explorer takes for granted of the strings that name resources: *)
(* where ".." leads from anywhere, that a URL typed or linked is the same  *)
(* request as the path it is cut down to, and when the curl command asks   *)
(* for it too.  Proved for strings of any length, blanks around them       *)
(* included.                                                               *)
(***************************************************************************)
EXTENDS RedfishPath, DataTheorems

\* The CHOOSE in lastNamed has something to choose: the first index behind which
\* there is no name.
LEMMA LastNamed ==
    ASSUME NEW Segment, NEW s \in Seq(Segment)
    PROVE  /\ lastNamed(s) \in 0..Len(s)
           /\ lastNamed(s) > 0 => s[lastNamed(s)] # noName
           /\ \A i \in (lastNamed(s) + 1)..Len(s) : s[i] = noName
<1> DEFINE Behind == {n \in 0..Len(s) : \A i \in (n + 1)..Len(s) : s[i] = noName}
<1>1. Len(s) \in Behind
  OBVIOUS
<1>2. Behind \in SUBSET Nat
  OBVIOUS
<1>3. PICK m \in Behind : \A k \in Behind : m <= k
  <2> HIDE DEF Behind
  <2> QED
    BY <1>1, <1>2, LeastElement
<1>4. m > 0 => s[m] # noName
  <2>1. SUFFICES ASSUME m > 0, s[m] = noName PROVE FALSE
    OBVIOUS
  <2>2. m \in Nat /\ m - 1 \in Behind
    BY <2>1
  <2> HIDE DEF Behind
  <2>3. m <= m - 1
    BY <1>3, <2>2
  <2> QED
    BY <2>2, <2>3
<1> QED
  BY <1>3, <1>4 DEF lastNamed

\* What is trimmed of its trailing empty segments ends with a named one.
LEMMA TrimRight ==
    ASSUME NEW Segment, NEW s \in Seq(Segment)
    PROVE  /\ trimRight(s) \in Seq(Segment)
           /\ Len(trimRight(s)) = lastNamed(s)
           /\ Len(trimRight(s)) <= Len(s)
           /\ \A i \in 1..lastNamed(s) : trimRight(s)[i] = s[i]
  BY LastNamed DEF trimRight

\* The parts of a text, and no others.
LEMMA TextParts ==
    ASSUME NEW Segment, NEW t \in Text(Segment)
    PROVE  /\ t = [host |-> t.host, path |-> t.path, blank |-> t.blank]
           /\ t.host \in {"/", "own", "other", "none"}
           /\ t.path \in Seq(Segment)
           /\ t.blank \in {"none", "before", "behind", "escaped"}
           /\ t.host = "none" => t.blank = "none"
           /\ t.path = <<>> => t.blank # "escaped" /\ (t.host = "/" => t.blank # "behind")
  BY DEF Text

\* What is cut off at the end are slashes.
LEMMA BareBegins ==
    ASSUME NEW Segment, NEW t \in Text(Segment)
    PROVE  /\ bare(t) \in Seq(Segment)
           /\ Len(bare(t)) <= Len(t.path)
           /\ \A i \in 1..Len(bare(t)) : bare(t)[i] = t.path[i]
<1>1. t.path \in Seq(Segment)
  BY TextParts
<1> QED
  BY <1>1, TrimRight DEF bare

\* The service root's path is a path.
LEMMA RootPathType ==
    ASSUME NEW Segment, {"redfish", "v1"} \subseteq Segment
    PROVE  rootPath \in Text(Segment) /\ rootPath # NoText
<1>1. <<"redfish", "v1">> \in Seq(Segment) /\ Len(<<"redfish", "v1">>) = 2
  OBVIOUS
<1> QED
  BY <1>1 DEF rootPath, NoText, Text, text

\* The cases of resolveTrimmed exclude each other.
LEMMA ResolveCases ==
    ASSUME NEW t
    PROVE  /\ t = NoText => resolveTrimmed(t) = text("own", rootPath.path)
           /\ isPath(t) => t # NoText /\ resolveTrimmed(t) = [t EXCEPT !.host = "own"]
           /\ isURL(t) /\ t.host = "own" =>
                  /\ t # NoText /\ ~isPath(t)
                  /\ resolveTrimmed(t) = [requestURI(t) EXCEPT !.host = "own"]
           /\ t # NoText /\ ~isPath(t) /\ ~(isURL(t) /\ t.host = "own") =>
                  resolveTrimmed(t) = refusal
<1>1. /\ isPath(t) => t # NoText
      /\ isURL(t) => ~isPath(t) /\ t # NoText
  BY DEF isPath, isURL, NoText, text
<1> QED
  BY <1>1 DEF resolveTrimmed

\* A path without blanks is fetched as it is, and the curl command says so.
LEMMA PlainPath ==
    ASSUME NEW path, path # <<>>
    PROVE  /\ resolve(text("/", path)) = text("own", path)
           /\ renderCurl(text("/", path)) = text("own", path)
  BY DEF resolve, resolveTrimmed, trimSpace, padded, isPath, renderCurl, NoText, text

-----------------------------------------------------------------------------
\* Wherever ".." leads, there is a place to ask for, and it is a path on the connected
\* service, so a fetch never refuses it (path.go:50-64, model.go:507-515).
THEOREM ParentIsAPlace ==
    ASSUME NEW Segment, {"redfish", "v1"} \subseteq Segment, NEW t \in Text(Segment)
    PROVE  /\ parent(t) \in Text(Segment)
           /\ parent(t) # NoText
           /\ resolve(parent(t)) = renderCurl(parent(t))
           /\ resolve(parent(t)) # refusal
<1>1. bare(t) \in Seq(Segment)
  BY BareBegins
<1>2. PICK path \in Seq(Segment) : path # <<>> /\ parent(t) = text("/", path)
  <2>1. CASE parent(t) = rootPath
    <3>1. <<"redfish", "v1">> \in Seq(Segment) /\ <<"redfish", "v1">> # <<>>
      OBVIOUS
    <3> QED
      BY <2>1, <3>1 DEF rootPath
  <2>2. CASE parent(t) # rootPath
    <3>1. Len(bare(t)) > 2 /\ parent(t) = text("/", above(bare(t)))
      BY <2>2 DEF parent
    <3>2. above(bare(t)) \in Seq(Segment) /\ Len(above(bare(t))) > 1
      BY <1>1, <3>1 DEF above
    <3>3. above(bare(t)) # <<>>
      BY <3>2
    <3> QED
      BY <3>1, <3>2, <3>3
  <2> QED
    BY <2>1, <2>2
<1>3. text("/", path) \in Text(Segment) /\ text("/", path) # NoText
  BY <1>2 DEF Text, text, NoText
<1>4. text("own", path) # refusal
  BY DEF refusal, text
<1> QED
  BY <1>2, <1>3, <1>4, PlainPath

\* ".." always moves, except at the service root: no place is its own parent, with
\* or without a trailing slash, so a session cannot go up on the spot.
THEOREM ParentMoves ==
    ASSUME NEW Segment, NEW t \in Text(Segment)
    PROVE  parent(t) = t <=> t = rootPath
<1>1. t.path \in Seq(Segment)
  BY TextParts
<1>2. bare(t) \in Seq(Segment) /\ Len(bare(t)) <= Len(t.path)
  BY BareBegins
<1>3. ASSUME t = rootPath PROVE parent(t) = t
  <2>1. t.path = <<"redfish", "v1">>
    BY <1>3 DEF rootPath, text
  <2>2. Len(bare(t)) <= 2
    BY <1>2, <2>1, Len(<<"redfish", "v1">>) = 2
  <2> QED
    BY <1>3, <2>2, <1>2 DEF parent
<1>4. ASSUME parent(t) = t, t # rootPath PROVE FALSE
  <2>1. Len(bare(t)) > 2 /\ t = text("/", above(bare(t)))
    BY <1>4 DEF parent
  <2>2. Len(above(bare(t))) < Len(bare(t))
    BY <1>2, <2>1 DEF above
  <2>3. t.path = above(bare(t))
    BY <2>1 DEF text
  <2> QED
    BY <1>2, <2>2, <2>3, <1>1
<1> QED
  BY <1>3, <1>4

\* Going up strictly shortens the path, and what is left of it is how the place began,
\* so that going up often enough ends at the root and nowhere else.
THEOREM ParentShortens ==
    ASSUME NEW Segment, NEW t \in Text(Segment), parent(t) # rootPath
    PROVE  /\ Len(parent(t).path) < Len(t.path)
           /\ Len(parent(t).path) >= 2
           /\ \A i \in 1..Len(parent(t).path) : parent(t).path[i] = t.path[i]
<1>1. t.path \in Seq(Segment)
  BY TextParts
<1>2. /\ bare(t) \in Seq(Segment)
      /\ Len(bare(t)) <= Len(t.path)
      /\ \A i \in 1..Len(bare(t)) : bare(t)[i] = t.path[i]
  BY BareBegins
<1>3. Len(bare(t)) > 2 /\ parent(t) = text("/", above(bare(t)))
  BY DEF parent
<1>4. /\ Len(above(bare(t))) = Len(bare(t)) - 1
      /\ \A i \in 1..(Len(bare(t)) - 1) : above(bare(t))[i] = bare(t)[i]
  BY <1>2, <1>3 DEF above
<1>5. parent(t).path = above(bare(t))
  BY <1>3 DEF text
<1>6. Len(t.path) \in Nat /\ Len(bare(t)) \in Nat
  BY <1>1, <1>2
<1> QED
  BY <1>2, <1>3, <1>4, <1>5, <1>6

-----------------------------------------------------------------------------
\* What a fetch does not refuse is a text on the connected host, without a blank that
\* is not escaped.
LEMMA Resolved ==
    ASSUME NEW Segment, NEW t \in Text(Segment), resolve(t) # refusal
    PROVE  /\ resolve(t) = [host |-> "own", path |-> resolve(t).path, blank |-> resolve(t).blank]
           /\ resolve(t).path # <<>>
           /\ ~padded(resolve(t))
<1>1. /\ t = [host |-> t.host, path |-> t.path, blank |-> t.blank]
      /\ t.path = <<>> => t.blank # "escaped"
  BY TextParts
<1> DEFINE s == trimSpace(t)
<1>2. /\ s = [host |-> t.host, path |-> t.path, blank |-> s.blank]
      /\ ~padded(s)
  BY <1>1 DEF trimSpace, padded
<1>3. resolve(t) = resolveTrimmed(s)
  BY DEF resolve
<1> HIDE DEF s
<1>4. CASE s = NoText
  <2>1. resolve(t) = text("own", <<"redfish", "v1">>)
    BY <1>3, <1>4, ResolveCases DEF rootPath, text
  <2>2. <<"redfish", "v1">> # <<>>
    OBVIOUS
  <2> QED
    BY <2>1, <2>2 DEF text, padded
<1>5. CASE s # NoText /\ isPath(s)
  <2>1. resolve(t) = [host |-> "own", path |-> t.path, blank |-> s.blank] /\ t.path # <<>>
    BY <1>2, <1>3, <1>5, ResolveCases DEF isPath
  <2> QED
    BY <1>2, <2>1 DEF padded
<1>6. CASE s # NoText /\ ~isPath(s) /\ isURL(s) /\ s.host = "own"
  <2>1. requestURI(s) = [host |-> "/", path |-> requestURI(s).path, blank |-> s.blank]
    BY <1>2 DEF requestURI, padded
  <2>2. requestURI(s).path # <<>>
    BY <1>2 DEF requestURI
  <2>3. resolve(t) = [requestURI(s) EXCEPT !.host = "own"]
    BY <1>3, <1>6, ResolveCases
  <2> QED
    BY <1>2, <2>1, <2>2, <2>3 DEF padded
<1> QED
  BY <1>3, <1>4, <1>5, <1>6, ResolveCases

\* No string sends a request, and with it the credentials, to another host than the
\* one rfx was connected to (client.go:265-296).
THEOREM ResolveStaysHome ==
    ASSUME NEW Segment, NEW t \in Text(Segment)
    PROVE  resolve(t) = refusal \/ resolve(t).host = "own"
  BY Resolved

\* What the endpoint is cut off from, a fetch and a curl command put behind it again.
LEMMA BehindTheEndpoint ==
    ASSUME NEW Segment, NEW t \in Text(Segment), resolve(t) # refusal
    PROVE  /\ resolve(editedResource(resolve(t))) = resolve(t)
           /\ renderCurl(editedResource(resolve(t))) = resolve(t)
<1> DEFINE u == resolve(t)
<1>1. /\ u = [host |-> "own", path |-> u.path, blank |-> u.blank]
      /\ u.path # <<>> /\ ~padded(u)
  BY Resolved
<1> HIDE DEF u
<1> DEFINE e == editedResource(u)
<1>2. e = [host |-> "/", path |-> u.path, blank |-> u.blank]
  BY <1>1 DEF editedResource
<1>3. ~padded(e) /\ isPath(e) /\ e # NoText
  BY <1>1, <1>2 DEF padded, isPath, NoText, text
<1>4. [e EXCEPT !.host = "own"] = u
  BY <1>1, <1>2
<1> HIDE DEF e
<1>5. resolve(e) = u /\ renderCurl(e) = u
  BY <1>3, <1>4, ResolveCases DEF resolve, trimSpace, renderCurl
<1> QED
  BY <1>5 DEF u, e

\* A typed URL, or one in a response, is the same request as the path it is cut down
\* to: what the location editor and a link store is what was meant.  Only a blank
\* behind a URL in a response, which a fetch of it leaves out, becomes part of the
\* path (model.go:372-384, links.go:165-186, client.go:242).
THEOREM PathMeansTheSame ==
    ASSUME NEW Segment, NEW t \in Text(Segment)
    PROVE  /\ resolve(resourceTarget(t)) =
                  IF isURL(t) /\ t.host = "own" /\ t.blank = "behind"
                  THEN [resolve(t) EXCEPT !.blank = "escaped"] ELSE resolve(t)
           /\ resolve(t) # refusal => resolve(editedResource(resolve(t))) = resolve(t)
<1>1. CASE ~(isURL(t) /\ t.host = "own")
  BY <1>1, BehindTheEndpoint DEF resourceTarget
<1>2. CASE isURL(t) /\ t.host = "own"
  <2> DEFINE path == requestURI(t).path
  <2>1. /\ t = [host |-> "own", path |-> t.path, blank |-> t.blank]
        /\ t.blank \in {"none", "behind", "escaped"}
    BY <1>2, TextParts DEF isURL
  <2>2. requestURI(t) = [host |-> "/", path |-> path,
                         blank |-> IF t.blank = "behind" THEN "escaped" ELSE t.blank]
    BY <2>1 DEF requestURI
  <2>3. path # <<>>
    BY <2>1 DEF requestURI
  <2>4. /\ ~padded(requestURI(t)) /\ isPath(requestURI(t)) /\ requestURI(t) # NoText
    BY <2>1, <2>2, <2>3 DEF padded, isPath, NoText, text
  <2>5. resolve(requestURI(t)) = [requestURI(t) EXCEPT !.host = "own"]
    BY <2>4, ResolveCases DEF resolve, trimSpace
  <2> DEFINE s == trimSpace(t)
  <2>6. s = [host |-> "own", path |-> t.path,
             blank |-> IF t.blank = "behind" THEN "none" ELSE t.blank]
    BY <2>1 DEF trimSpace, padded
  <2>7. s # NoText /\ ~isPath(s) /\ isURL(s) /\ s.host = "own"
    BY <2>1, <2>6 DEF NoText, text, isPath, isURL
  <2>8. requestURI(s) = [host |-> "/", path |-> path, blank |-> s.blank]
    BY <2>1, <2>6 DEF requestURI
  <2>9. resolve(t) = [requestURI(s) EXCEPT !.host = "own"]
    <3> HIDE DEF s
    <3>1. resolve(t) = resolveTrimmed(s)
      BY DEF resolve, s
    <3> QED
      BY <2>7, <3>1, ResolveCases
  <2>10. /\ resolve(t) = [host |-> "own", path |-> path, blank |-> s.blank]
         /\ resolve(requestURI(t)) =
                [host |-> "own", path |-> path,
                 blank |-> IF t.blank = "behind" THEN "escaped" ELSE t.blank]
    <3> HIDE DEF s, path
    <3> QED
      BY <2>2, <2>5, <2>8, <2>9
  <2>11. resourceTarget(t) = requestURI(t)
    BY <1>2 DEF resourceTarget
  <2> QED
    BY <1>2, <2>1, <2>6, <2>10, <2>11, BehindTheEndpoint
<1> QED
  BY <1>1, <1>2

\* Of a text that is not a URL of the own host, and that a fetch does not refuse, the
\* curl command asks for what the fetch asks for exactly if it has no blanks around it.
LEMMA CurlAsFetched ==
    ASSUME NEW Segment, NEW t \in Text(Segment), t # NoText, resolve(t) # refusal,
           ~(isURL(t) /\ t.host = "own")
    PROVE  renderCurl(t) = resolve(t) <=> ~padded(t)
<1>1. ASSUME ~padded(t) PROVE renderCurl(t) = resolve(t)
  <2>1. trimSpace(t) = t
    BY <1>1 DEF trimSpace
  <2>2. isPath(t)
    BY <2>1, ResolveCases DEF resolve
  <2> QED
    BY <2>1, <2>2, ResolveCases DEF resolve, renderCurl
<1>2. ASSUME padded(t) PROVE renderCurl(t) # resolve(t)
  <2>1. renderCurl(t).blank = t.blank
    BY TextParts DEF renderCurl
  <2>2. renderCurl(t).blank \in {"before", "behind"}
    BY <1>2, <2>1 DEF padded
  <2>3. ~padded(resolve(t))
    BY Resolved
  <2> QED
    BY <2>2, <2>3 DEF padded
<1> QED
  BY <1>1, <1>2

\* What a URL of the own host is reduced to is a path, without blanks around it.
LEMMA RequestURIPath ==
    ASSUME NEW Segment, NEW t \in Text(Segment), isURL(t)
    PROVE  /\ requestURI(t) = [host |-> "/", path |-> requestURI(t).path,
                               blank |-> IF t.blank = "behind" THEN "escaped" ELSE t.blank]
           /\ requestURI(t).path # <<>>
           /\ isPath(requestURI(t)) /\ ~isURL(requestURI(t))
           /\ ~padded(requestURI(t))
           /\ requestURI(t) # NoText
<1>1. /\ t = [host |-> t.host, path |-> t.path, blank |-> t.blank]
      /\ t.blank \in {"none", "behind", "escaped"}
  BY TextParts DEF isURL
<1>2. /\ requestURI(t) = [host |-> "/", path |-> requestURI(t).path,
                          blank |-> IF t.blank = "behind" THEN "escaped" ELSE t.blank]
      /\ requestURI(t).path # <<>>
  BY <1>1 DEF requestURI
<1> QED
  BY <1>1, <1>2 DEF padded, isPath, isURL, NoText, text

\* Whatever a response calls a resource, the link made of it is one that a fetch does
\* not refuse unless it refuses the name, and the link's curl command asks for what
\* following it asks for exactly if there are no blanks around it.  It has some if
\* the name has, unless that is a URL with a blank behind it: the fetch leaves them
\* out and the command does not (client.go:242, curl.go:42-54, links.go:165-186).
THEOREM LinksCurlTheSame ==
    ASSUME NEW Segment, NEW t \in Text(Segment), t # NoText, resolve(t) # refusal
    PROVE  /\ resolve(resourceTarget(t)) # refusal
           /\ renderCurl(resourceTarget(t)) = resolve(resourceTarget(t))
                  <=> ~padded(resourceTarget(t))
           /\ padded(resourceTarget(t)) <=> padded(t) /\ ~(isURL(t) /\ t.host = "own")
<1>1. CASE isURL(t) /\ t.host = "own"
  <2> DEFINE r == requestURI(t)
  <2>1. /\ r.host = "/"
        /\ r = [host |-> r.host, path |-> r.path, blank |-> r.blank]
        /\ isPath(r) /\ ~padded(r) /\ r # NoText
    BY <1>1, RequestURIPath
  <2> HIDE DEF r
  <2>2. resolve(r) = [r EXCEPT !.host = "own"] /\ renderCurl(r) = [r EXCEPT !.host = "own"]
    BY <2>1, ResolveCases DEF resolve, trimSpace, renderCurl
  <2>3. [r EXCEPT !.host = "own"] # refusal
    BY <2>1 DEF refusal, text
  <2>4. resourceTarget(t) = r
    BY <1>1 DEF resourceTarget, r
  <2> QED
    BY <1>1, <2>1, <2>2, <2>3, <2>4
<1>2. CASE ~(isURL(t) /\ t.host = "own")
  BY <1>2, CurlAsFetched DEF resourceTarget
<1> QED
  BY <1>1, <1>2

\* What the location editor makes of an accepted text has a curl command for exactly
\* the URL that was accepted.
THEOREM TypedCurlsTheSame ==
    ASSUME NEW Segment, NEW t \in Text(Segment), resolve(t) # refusal
    PROVE  renderCurl(editedResource(resolve(t))) = resolve(t)
  BY BehindTheEndpoint
=============================================================================
