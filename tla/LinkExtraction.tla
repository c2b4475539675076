---------------------------- MODULE LinkExtraction ----------------------------
(***************************************************************************)
(* ExtractLinks of internal/redfish/links.go: from a response to the links *)
(* a user can follow, by group.  A body is a tree of objects, arrays and   *)
(* strings that the code walks once, in document order; what depends on    *)
(* the order is which of several mentions of a resource in a group is kept.*)
(* A label is the sequence of the steps it is made of, and the alphabet is *)
(* a rank of the names in the documents.                                   *)
(***************************************************************************)
EXTENDS JsonValues, SequencesExt

CONSTANTS
    Json,         \* the values that documents consist of
    depth,        \* how deep each of them nests: [Json -> Nat]
    Index,        \* what a path says of an element of an array, by its position
    Responses,    \* the responses a service may give
    Annotations,  \* annotationKeys
    Vendor,       \* of an action key, "" for none: [keys with a '#' -> names]
    Lower,        \* strings.ToLower: [names -> names]
    Rank          \* strings.Compare, as a rank: [names -> Nat]

Names == DOMAIN Rank
ActionKeys == DOMAIN Vendor

\* A path into a document: its keys, and an index for an element of an array.
Path == Seq(Names)

isIndex(step) == step \in ToSet(Index)

\* No two names and no two indices are spelled the same, and no key is taken for an
\* index: a step of a jsonPath says which of the two it is.
ASSUME NamesAssumption ==
    /\ Rank \in [Names -> Nat]
    /\ \A n, m \in Names : Rank[n] = Rank[m] => n = m
    /\ Lower \in [Names -> Names]
    /\ Vendor \in [ActionKeys -> Names]
    /\ Index \in Seq(Names)
    /\ \A i, j \in DOMAIN Index : Index[i] = Index[j] => i = j
    /\ {"", "unnamed", "Location", "Content-Location", "/", "own", "other", "none",
        " ", "%20", "<end>"} \subseteq Names
    /\ \A step \in {"Oem", "Actions", "@odata.id", "@odata.context", "@odata.type"}
                   \cup ActionKeys : ~isIndex(step)

\* Documents are finite.  BOUND: as many elements in an array as there are indices.
ASSUME JsonAssumption ==
    /\ depth \in [Json -> Nat]
    /\ \A value \in Json :
           /\ value.type = "string" => value.text \in Text(Names)
           /\ value.type = "object" =>
                  /\ value.members \in Seq([key : Names, value : Json])
                  /\ \A i \in DOMAIN value.members :
                         /\ depth[value.members[i].value] < depth[value]
                         /\ ~isIndex(value.members[i].key)
           /\ value.type = "array" =>
                  /\ value.elements \in Seq(Json)
                  /\ Len(value.elements) <= Len(Index)
                  /\ \A i \in DOMAIN value.elements :
                         depth[value.elements[i]] < depth[value]

ASSUME ResponsesAssumption ==
    \A r \in Responses : /\ r.body \in Json
                         /\ r.headers \in Seq([name : Names, text : Text(Names)])

-----------------------------------------------------------------------------
crosses(path, keys) == \E i \in DOMAIN path : path[i] \in keys

\* The first key behind a position, "" for none.
nameAfter(path, at) ==
    LET behind == {i \in DOMAIN path : i > at /\ ~isIndex(path[i])}
    IN  IF behind = {} THEN "" ELSE path[Min(behind)]

\* The key after the outermost Oem, which names the vendor, or an action that does.
oemVendor(path) ==
    LET key == nameAfter(path, Min({i \in DOMAIN path : path[i] = "Oem"}))
    IN  IF key \in ActionKeys THEN Vendor[key] ELSE key

oemGroup(path) ==
    <<"Oem", IF oemVendor(path) = "" THEN "unnamed" ELSE oemVendor(path)>>

byFirstName(path) ==
    IF nameAfter(path, 0) \in {"Actions", "Links", "Members"} THEN nameAfter(path, 0)
                                                              ELSE "Resource"

\* Mutant of groupFor: an OEM action is an action like any other.
groupFor_ActionsFirst(path) ==
    IF byFirstName(path) # "Actions" /\ crosses(path, {"Oem"}) THEN oemGroup(path)
    ELSE IF byFirstName(path) # "Actions" /\ crosses(path, Annotations)
         THEN <<"Annotations", "">>
    ELSE <<byFirstName(path), "">>

\* The group of a link, with the vendor of an OEM group.
groupFor(path) ==
    IF crosses(path, {"Oem"}) THEN oemGroup(path)
    ELSE IF crosses(path, Annotations) THEN <<"Annotations", "">>
    ELSE <<byFirstName(path), "">>

-----------------------------------------------------------------------------
\* The last key of a path with the indices behind it.
label(path) ==
    LET keys == {i \in DOMAIN path : ~isIndex(path[i])}
    IN  IF keys = {} THEN path ELSE SubSeq(path, Max(keys), Len(path))

\* lastSegment, decoded: the name behind the last slash, and a blank behind that.
\* Blanks alone have no slash to cut at.
lastSegment(target) ==
    LET pieces == (IF target.host \in {"own", "other"} THEN <<target.host>> ELSE <<>>)
                      \o bare(target)
        blank == target.blank \in {"behind", "escaped"} \/ (pieces = <<>> /\ padded(target))
    IN  <<IF pieces = <<>> THEN "" ELSE Last(pieces)>> \o (IF blank THEN <<" ">> ELSE <<>>)

\* Members go by what their target ends in.
linkLabel(path, target) ==
    IF byFirstName(path) = "Members" /\ lastSegment(target) # <<"">>
    THEN lastSegment(target) ELSE label(path)

\* A link: its label, the resource it leads to, and the ActionInfo of an action.
link(name, kind, target) ==
    [label |-> name, kind |-> kind, target |-> target, info |-> NoText]

\* A link, filed under its group; the walk's result is a sequence of them.
found(group, l) == [group |-> group, link |-> l]

add(l, path) == <<found(groupFor(path), l)>>

under(members, key) == {i \in DOMAIN members : members[i].key = key}

\* The text of an object's first member with this key, and of its last.
first(members, key) ==
    IF under(members, key) = {} THEN NoText
    ELSE stringValue(members[Min(under(members, key))].value)

last(members, key) ==
    IF under(members, key) = {} THEN NoText
    ELSE stringValue(members[Max(under(members, key))].value)

\* The @odata.id of an object, unless the object is the document itself.
selfOrLink(members, path) ==
    LET target == first(members, "@odata.id")
    IN  IF target = NoText \/ path = <<>> THEN <<>>
        ELSE add(link(linkLabel(path, resourceTarget(target)), "resource",
                      resourceTarget(target)), path)

pathLikeString(t, path) ==
    IF IsResourcePath(t) THEN add(link(label(path), "uri", t), path) ELSE <<>>

\* An action's target, with its ActionInfo.
action(value, path) ==
    IF value.type # "object" \/ last(value.members, "target") = NoText THEN <<>>
    ELSE LET info == last(value.members, "@Redfish.ActionInfo")
             target == last(value.members, "target")
         IN  add([link(label(path), "action", resourceTarget(target))
                     EXCEPT !.info = resourceTarget(info)], path)

\* Mutant of actionsUnder: actions below a vendor's key are missed.
actionsUnder_Flat(m, path, furtherDown) ==
    IF m.key \in ActionKeys THEN action(m.value, Append(path, m.key)) ELSE <<>>

\* A member of Actions, or of an object that nests in it.
actionsUnder(m, path, furtherDown) ==
    IF m.key \in ActionKeys THEN action(m.value, Append(path, m.key)) ELSE furtherDown

actions[value \in Json] ==
    [path \in Path |->
        IF value.type # "object" THEN <<>>
        ELSE FlattenSeq([i \in DOMAIN value.members |->
                 LET m == value.members[i]
                 IN  actionsUnder(m, path, actions[m.value][Append(path, m.key)])])]

\* walk and object.
walk[value \in Json] ==
    [path \in Path |->
        CASE value.type = "object" ->
                 selfOrLink(value.members, path) \o
                 FlattenSeq([i \in DOMAIN value.members |->
                     LET m == value.members[i]
                     IN  CASE m.key \in {"@odata.id", "@odata.context", "@odata.type"} -> <<>>
                           [] m.key = "Actions" -> actions[m.value][Append(path, m.key)]
                           [] OTHER -> walk[m.value][Append(path, m.key)]])
          [] value.type = "array" ->
                 FlattenSeq([i \in DOMAIN value.elements |->
                     walk[value.elements[i]][Append(path, Index[i])]])
          [] value.type = "string" -> pathLikeString(value.text, path)
          [] OTHER -> <<>>]

\* The links of the Location and Content-Location headers, each a name and a text.
headerLinks(headers) ==
    FlattenSeq([i \in DOMAIN headers |->
        LET target == headerTarget(headers[i].text)
        IN  IF target = NoText THEN <<>>
            ELSE <<found(<<"Headers", "">>, link(<<headers[i].name>>, "header", target))>>])

self(body) ==
    IF body.type = "object" THEN resourceTarget(first(body.members, "@odata.id"))
                            ELSE NoText

\* Mutant of shadows: only proper links shadow.
shadows_NotSelf(body, links) ==
    {links[i].link.target : i \in {j \in DOMAIN links : links[j].link.kind = "resource"}}

\* What a path-like string need not repeat: the self link, and proper links.
shadows(body, links) ==
    ({self(body)} \ {NoText}) \cup
    {links[i].link.target : i \in {j \in DOMAIN links : links[j].link.kind = "resource"}}

\* The positions of the links that dropShadowedURIs leaves.
dropShadowedURIs(body, links) ==
    {i \in DOMAIN links :
        ~(links[i].link.kind = "uri" /\ links[i].link.target \in shadows(body, links))}

\* A finite set as a sequence, sorted by a relation on it.
inOrder(S, before) ==
    [n \in 1..Cardinality(S) |->
        CHOOSE x \in S : Cardinality({y \in S : <<y, x>> \in before}) = n - 1]

\* strings.Compare, on what is made of several names.
precedes(one, two) ==
    \E n \in 1..Len(two) :
        /\ \A i \in 1..(n - 1) : i <= Len(one) /\ one[i] = two[i]
        /\ n > Len(one) \/ Rank[one[n]] < Rank[two[n]]

lowered(name) == [i \in DOMAIN name |-> Lower[name[i]]]

\* A text in the order of its characters, with an end that goes before any of them.
spelled(target) ==
    <<IF target.blank = "before" THEN " " ELSE target.host, target.host>> \o target.path
    \o <<CASE target.blank = "behind" -> " "
           [] target.blank = "escaped" -> "%20"
           [] OTHER -> "<end>">>

\* Mutant of compareLinks: links with the same label stay in document order.
compareLinks_ByLabel(l, k) == precedes(lowered(l.label), lowered(k.label))

\* compareLinks: l comes before k.
compareLinks(l, k) ==
    \/ precedes(lowered(l.label), lowered(k.label))
    \/ lowered(l.label) = lowered(k.label) /\ precedes(spelled(l.target), spelled(k.target))

\* The titles of groups in their order, and the vendors of OEM groups by name.
Titles == <<"Resource", "Members", "Links", "Actions", "Annotations", "Oem", "Headers">>

groupRank(group) == CHOOSE i \in DOMAIN Titles : Titles[i] = group[1]

groupBefore(g, h) ==
    \/ groupRank(g) < groupRank(h)
    \/ groupRank(g) = groupRank(h) /\ Rank[g[2]] < Rank[h[2]]

\* SortStableFunc with compareLinks, on positions.
sortsBefore(links, i, j) ==
    \/ compareLinks(links[i].link, links[j].link)
    \/ ~compareLinks(links[j].link, links[i].link) /\ i < j

\* Of several links to a target in a group, the first stays.
kept(links, left) ==
    {i \in left : ~\E j \in left : /\ j < i
                                  /\ links[j].group = links[i].group
                                  /\ links[j].link.target = links[i].link.target}

\* A group, from the positions of its links.
groupOf(links, title, rows) ==
    LET sorted == inOrder(rows, {ij \in rows \X rows : sortsBefore(links, ij[1], ij[2])})
    IN  [group |-> title, links |-> [m \in DOMAIN sorted |-> links[sorted[m]].link]]

\* groups: from the links at the positions left, in their order.
groups(links, left) ==
    LET rows == kept(links, left)
        used == {links[i].group : i \in rows}
        titles == inOrder(used, {gh \in used \X used : groupBefore(gh[1], gh[2])})
    IN  [n \in DOMAIN titles |->
            groupOf(links, titles[n], {i \in rows : links[i].group = titles[n]})]

\* ExtractLinks: the groups a response is listed in.
ExtractLinks(r) ==
    IF r.body.type = "broken" THEN <<>>
    ELSE LET links == walk[r.body][<<>>] \o headerLinks(r.headers)
         IN  groups(links, dropShadowedURIs(r.body, links))

-----------------------------------------------------------------------------
VARIABLES
    resp,      \* the response at hand
    listing,   \* its links, by group
    listed     \* they have been extracted

vars == <<resp, listing, listed>>

Init == resp \in Responses /\ listing = <<>> /\ listed = FALSE

\* WithResponse extracts the links of the response that has landed.
Extract ==
    /\ ~listed
    /\ listing' = ExtractLinks(resp)
    /\ listed' = TRUE
    /\ UNCHANGED resp

Spec == Init /\ [][Extract]_vars
=============================================================================
