------------------------- MODULE ExtractionProperties -------------------------
(***************************************************************************)
(* What a user can rely on when the links of a response are listed and its *)
(* body is drawn.  The walks and the scanner are compared with definitions *)
(* that do not walk: the set of all values of a document, each with the    *)
(* path it is at, and conditions on single values and paths.               *)
(***************************************************************************)
EXTENDS BodyColors

CONSTANT
    turned    \* the document with the members of its objects the other way round

ASSUME TurnedAssumption ==
    /\ turned \in [Json -> Json]
    /\ \A value \in Json :
           turned[value] =
               CASE value.type = "object" ->
                        object(Reverse([i \in DOMAIN value.members |->
                            member(value.members[i].key, turned[value.members[i].value])]))
                 [] value.type = "array" ->
                        array([i \in DOMAIN value.elements |-> turned[value.elements[i]]])
                 [] OTHER -> value

\* Every value of a document, with its path.
Values[value \in Json] ==
    [path \in Path |->
        {[at |-> path, value |-> value]} \cup
        CASE value.type = "object" ->
                 UNION {Values[value.members[i].value][Append(path, value.members[i].key)] :
                            i \in DOMAIN value.members}
          [] value.type = "array" ->
                 UNION {Values[value.elements[i]][Append(path, Index[i])] :
                            i \in DOMAIN value.elements}
          [] OTHER -> {}]

\* The path of the container that the value at this path is in.
enclosing(path) == SubSeq(path, 1, Len(path) - 1)

\* Paths the walk is not meant to see as links: actions, and references to schemas.
AsideKeys == {"Actions", "@odata.id", "@odata.context", "@odata.type"}

Aside(path) == crosses(path, AsideKeys)

\* Below an Actions key that is not itself aside, past plain keys only.
AmongActions(path) ==
    \E i \in DOMAIN path :
        /\ path[i] = "Actions"
        /\ \A j \in 1..(i - 1) : path[j] \notin AsideKeys
        /\ \A j \in (i + 1)..Len(path) : path[j] \notin ActionKeys /\ ~isIndex(path[j])

\* What a document offers to follow: an object that names itself, an action, and a
\* string that looks like a resource.
IsResource(v) ==
    /\ v.at # <<>> /\ ~Aside(v.at)
    /\ v.value.type = "object" /\ first(v.value.members, "@odata.id") # NoText

IsAction(v) ==
    /\ v.at # <<>> /\ Last(v.at) \in ActionKeys /\ AmongActions(enclosing(v.at))
    /\ v.value.type = "object" /\ last(v.value.members, "target") # NoText

IsURI(v) ==
    /\ ~Aside(v.at)
    /\ v.value.type = "string" /\ IsResourcePath(v.value.text)

\* Where it does, and what the service wrote there.
mention(v, kind, t) == [at |-> v.at, kind |-> kind, text |-> t]

Advertised(body) ==
    LET values == Values[body][<<>>]
    IN  {mention(v, "resource", first(v.value.members, "@odata.id")) :
             v \in {w \in values : IsResource(w)}}
        \cup {mention(v, "action", last(v.value.members, "target")) :
                  v \in {w \in values : IsAction(w)}}
        \cup {mention(v, "uri", v.value.text) : v \in {w \in values : IsURI(w)}}

\* A path-like string may go unlisted if it repeats the self link or a link.
Repeats(a, body) ==
    a.kind = "uri" /\ (a.text = self(body)
                       \/ \E b \in Advertised(body) :
                              b.kind = "resource" /\ resourceTarget(b.text) = a.text)

Offered(body) ==
    IF body.type = "broken" THEN {} ELSE {a \in Advertised(body) : ~Repeats(a, body)}

\* What is listed, each link with its group.
Listed ==
    UNION {{[group |-> g.group, link |-> l] : l \in ToSet(g.links)} : g \in ToSet(listing)}

fromBody == {l \in Listed : l.group[1] # "Headers"}

-----------------------------------------------------------------------------
\* Nothing that a document offers at any depth is missing from the group it belongs
\* to, and nothing is listed that it does not offer: not a schema, not a string
\* inside an action (links.go:205-313).
ListsWhatIsOffered ==
    listed =>
        {<<l.group, l.link.target>> : l \in fromBody} =
        {<<groupFor(a.at), resourceTarget(a.text)>> : a \in Offered(resp.body)}

\* A URL of the service's own with a blank behind it, which reducing it to a path
\* makes part of its name while a fetch of it as written leaves it out.
BlankJoinsName(t) == isURL(t) /\ t.host = "own" /\ t.blank = "behind"

\* Following a listed link asks for the resource the service wrote down, also when
\* it was written as a URL or with blanks around it, and is refused when that is on
\* another host, "rather than quietly redirected to the connected machine"
\* (links.go:165-186, client.go:242).
LinksKeepTheirMeaning ==
    listed =>
        \A a \in {b \in Offered(resp.body) : ~BlankJoinsName(b.text)} :
            \E l \in fromBody : /\ l.group = groupFor(a.at)
                                /\ resolve(l.link.target) = resolve(a.text)

\* A resource is listed once in a group, and a string that only repeats the self
\* link or a link of any group not at all (links.go:402-423, 436-440).
NothingTwice ==
    /\ \A n, m \in DOMAIN listing : listing[n].group = listing[m].group => n = m
    /\ \A n \in DOMAIN listing :
           LET links == listing[n].links
           IN  \A i, j \in DOMAIN links : links[i].target = links[j].target => i = j
    /\ \A l \in Listed : l.link.kind = "uri" =>
           /\ l.link.target # self(resp.body)
           /\ \A k \in Listed : k.link.target = l.link.target => k.link.kind # "resource"

\* What is found below an Oem key, in Links or Actions too, is in the group of its
\* vendor and of no other, and nothing else is (links.go:485-534).
OEMStaysApart ==
    listed =>
        /\ \A a \in Offered(resp.body) : crosses(a.at, {"Oem"}) =>
               \E l \in Listed : l.group = oemGroup(a.at)
                                  /\ l.link.target = resourceTarget(a.text)
        /\ \A l \in fromBody : \E a \in Offered(resp.body) :
               /\ l.link.target = resourceTarget(a.text)
               /\ crosses(a.at, {"Oem"}) <=> l.group[1] = "Oem"

\* Every row, and every ActionInfo, names something to ask for: the explorer takes
\* an empty pending resource for none (fetch.go:67).  What a fetch does not refuse
\* has the same URL in the curl command, which is the endpoint with the resource
\* behind it, unless the service put blanks around it: the fetch leaves those out
\* and the command does not (client.go:242, curl.go:50, links.go:171-186).
RowsLeadSomewhere ==
    \A l \in Listed :
        /\ l.link.target # NoText
        /\ \A t \in {l.link.target, l.link.info} \ {NoText} :
               resolve(t) # refusal => (renderCurl(t) = resolve(t) <=> ~padded(t))

\* The body mentions a resource at most once in each group.
SaysItOnce(body) ==
    \A a, b \in Offered(body) :
        groupFor(a.at) = groupFor(b.at) /\ resourceTarget(a.text) = resourceTarget(b.text)
            => a = b

\* No object of the body has a key twice.  (Of several members with a key, one walk
\* reads the first and the other the last; links.go:250-258, 322-335.)
KeysDiffer(value) ==
    value.type = "object" =>
        \A i, j \in DOMAIN value.members :
            value.members[i].key = value.members[j].key => i = j

WrittenOnce(body) == \A v \in Values[body][<<>>] : KeysDiffer(v.value)

\* A row number means the same link whenever the same links are offered: rows are
\* in an order of their own, not in the one the service happens to write its
\* documents in.  Back and reload return to a row by its number.  (Of several
\* mentions the first gives the label, so a service that repeats itself may still
\* move a row; links.go:430-433, 472-483; model.go:582-597.)
RowsKeepTheirPlace ==
    listed /\ WrittenOnce(resp.body) /\ SaysItOnce(resp.body) =>
        ExtractLinks([resp EXCEPT !.body = turned[@]]) = listing

-----------------------------------------------------------------------------
Strings(body) == {v \in Values[body][<<>>] : v.value.type = "string"}

\* The body shows what is the vendor's where the link pane files it as the vendor's:
\* a key is in the OEM colour if it is Oem or below it, a string if it is in a
\* container below it, and a resource path is in the colour of links everywhere,
\* however deep the scanner has been into other branches by then (jsonfmt.go:44-67).
BodyShowsOEM ==
    listed /\ resp.body.type \notin {"none", "broken"} =>
        {<<d.token, d.style>> : d \in ToSet(Colorize(resp.body))} =
        {<<Token("string", "", v.value.text, v.at),
           CASE IsResourcePath(v.value.text) -> "link"
             [] ~IsResourcePath(v.value.text) /\ crosses(enclosing(v.at), {"Oem"}) -> "oem"
             [] OTHER -> "string">> : v \in Strings(resp.body)}
        \cup {<<Token("string", Last(v.at), NoText, v.at),
                IF crosses(v.at, {"Oem"}) THEN "oem" ELSE "key">> :
                  v \in {w \in Values[resp.body][<<>>] : w.at # <<>> /\ ~isIndex(Last(w.at))}}

\* Below the outermost Oem, where a type is named; what hangs from an @odata.type is
\* no object.
NamesVendorType(path) ==
    \E i \in 1..(Len(path) - 1) :
        /\ path[i] = "Oem" /\ Last(path) = "@odata.type"
        /\ \A j \in 1..(i - 1) : path[j] # "Oem"
        /\ \A j \in (i + 1)..(Len(path) - 1) : path[j] # "@odata.type"

\* Every vendor schema a response uses is found by the rule that makes a link an
\* OEM link, below Oem at whatever depth, and none of the standard's (oem.go:8-16).
VendorTypesAreFound ==
    listed =>
        OEMTypes(resp.body) =
            {v.value.text : v \in {w \in Strings(resp.body) : NamesVendorType(w.at)}}
            \ {NoText}

-----------------------------------------------------------------------------
\* "The self link is never among the groups" (links.go:112): a nested object or a
\* Content-Location header that names the resource itself puts it there.
SelfStaysOut ==
    \A l \in Listed : l.link.target # self(resp.body)
=============================================================================
