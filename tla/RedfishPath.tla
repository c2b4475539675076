----------------------------- MODULE RedfishPath -----------------------------
(***************************************************************************)
(* The strings that name a resource, and what the code makes of them       *)
(* (internal/redfish: path.go, Client.Resolve, resourceTarget and          *)
(* headerTarget of links.go, curl.go).  A string is a record of            *)
(*   host  - "/" for a path, which starts with one, "own" for a URL of the *)
(*           connected service, "other" for one of another host, and       *)
(*           "none" for anything else;                                     *)
(*   path  - its segments: "/a/b/" is <<"a", "b", "">>, "/" is <<"">>;     *)
(*   blank - where it has a space: before or behind the rest, or escaped,  *)
(*           as %20, at the end of its last segment.                       *)
(* Blanks on both sides are left out, as they do what one in front does;   *)
(* so are other escapes, queries, fragments and URLs without a scheme.     *)
(* Names start with a small letter where the explorer has the same         *)
(* function as a constant.                                                 *)
(***************************************************************************)
EXTENDS Naturals, Sequences

text(host, path) == [host |-> host, path |-> path, blank |-> "none"]

\* Each string once: what is neither a path nor a URL has its blanks in its name,
\* and of blanks alone none is behind.
Text(Segment) ==
    {t \in [host : {"/", "own", "other", "none"}, path : Seq(Segment),
             blank : {"none", "before", "behind", "escaped"}] :
        /\ t.host = "none" => t.blank = "none"
        /\ t.path = <<>> => t.blank # "escaped" /\ (t.host = "/" => t.blank # "behind")}

\* The segment between two slashes, or behind the last.
noName == ""

\* The empty string.
NoText == text("/", <<>>)

rootPath == text("/", <<"redfish", "v1">>)

padded(t) == t.blank \in {"before", "behind"}

\* strings.TrimSpace
trimSpace(t) == IF padded(t) THEN [t EXCEPT !.blank = "none"] ELSE t

\* strings.HasPrefix(resource, "/")
isPath(t) == t.host = "/" /\ t.path # <<>> /\ t.blank # "before"

\* url.Parse takes it, and it has a scheme: no scheme starts with a blank, and no
\* host has one.
isURL(t) ==
    /\ t.host \in {"own", "other"}
    /\ t.blank # "before"
    /\ t.blank = "behind" => t.path # <<>>

-----------------------------------------------------------------------------
\* The last segment with a name, 0 for none.
lastNamed(segments) ==
    CHOOSE n \in 0..Len(segments) :
        /\ n > 0 => segments[n] # noName
        /\ \A i \in (n + 1)..Len(segments) : segments[i] = noName

trimRight(segments) == SubSeq(segments, 1, lastNamed(segments))

\* strings.TrimRight(resource, "/"): a blank at the end keeps the slashes before it.
bare(t) == IF t.blank \in {"behind", "escaped"} THEN t.path ELSE trimRight(t.path)

trimmed(t) == [t EXCEPT !.path = bare(t)]

\* strings.HasPrefix(resource, RootPath) compares characters, so "/redfish/v10"
\* counts; "v1x" stands for the longer names that begin like the version.
hasRootPrefix(segments) ==
    /\ Len(segments) >= 2
    /\ segments[1] = "redfish"
    /\ segments[2] \in {"v1", "v1x"}

above(segments) == SubSeq(segments, 1, Len(segments) - 1)

\* One level up, never above the service root.
parent(t) ==
    IF isPath(t) /\ hasRootPrefix(bare(t)) /\ Len(bare(t)) > 2
    THEN text("/", above(bare(t)))
    ELSE rootPath

-----------------------------------------------------------------------------
\* URL.RequestURI: a URL without a path asks for "/", and a blank is escaped.
requestURI(t) ==
    [host  |-> "/",
     path  |-> IF t.path = <<>> THEN <<noName>> ELSE t.path,
     blank |-> IF t.blank = "behind" THEN "escaped" ELSE t.blank]

\* What Client.Resolve returns instead of a URL.
refusal == text("none", <<>>)

\* Where Client.Resolve leads a string without blanks around it.
resolveTrimmed(t) ==
    CASE t = NoText -> text("own", rootPath.path)
      [] isPath(t) -> [t EXCEPT !.host = "own"]
      [] isURL(t) /\ t.host = "own" -> [requestURI(t) EXCEPT !.host = "own"]
      [] OTHER -> refusal

\* Client.Resolve: the URL on the connected endpoint, always of the own host.
resolve(t) == resolveTrimmed(trimSpace(t))

\* editedResource: a URL on the endpoint, less the endpoint.
editedResource(url) == [url EXCEPT !.host = "/"]

\* The URL of the rendered curl command, the endpoint with the resource behind it as
\* it is: behind the endpoint's host a blank, a word or a second URL makes the name
\* of another.
renderCurl(t) ==
    [t EXCEPT !.host = IF isPath(t) \/ t = NoText THEN "own" ELSE "other"]

-----------------------------------------------------------------------------
\* IsResourcePath
IsResourcePath(t) ==
    /\ isPath(t)
    /\ Len(t.path) >= 3
    /\ t.path[1] = "redfish"
    /\ t.path[2] \in {"v1", "V1"}

\* Mutant of resourceTarget: any absolute URL loses its host.
resourceTarget_AnyHost(t) ==
    IF isURL(t) THEN requestURI(t) ELSE t

\* Mutant of resourceTarget: a URL of the own host is left as it is.
resourceTarget_AsWritten(t) == t

\* resourceTarget: a URL of the service the response came from becomes a path.
resourceTarget(t) == IF isURL(t) /\ t.host = "own" THEN requestURI(t) ELSE t

\* Parsing a URL leaves its path, without escapes.
parsedPath(t) ==
    [host  |-> "/",
     path  |-> t.path,
     blank |-> IF t.blank = "escaped" THEN "behind" ELSE t.blank]

\* headerTarget, NoText for none: of a URL only the path counts, whatever its host.
headerTarget(t) ==
    CASE IsResourcePath(t) -> t
      [] isURL(t) /\ IsResourcePath(parsedPath(t)) -> parsedPath(t)
      [] OTHER -> NoText
=============================================================================
