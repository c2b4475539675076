---------------------------- MODULE DocumentProofs ----------------------------
(***************************************************************************)
(* What the walks over a document find, for documents of any depth and     *)
(* width.  The recursive functions of the model are shown to be what their *)
(* equations say (the domain goes down), and then, by induction over the   *)
(* depth of documents, to find what the definitions that do not walk say is *)
(* there: the links that the places of a document call for, the vendor schemas *)
(* that it names, and the strings that the scanner of a body draws, each in *)
(* its colour.                                                             *)
(***************************************************************************)
EXTENDS ExtractionProperties, PathProofs, SequenceTheorems

Target == Text(Names)
Link == [label : Path, kind : {"resource", "uri", "action", "header"},
         target : Target, info : Target]
Group == ToSet(Titles) \X Names
Found == [group : Group, link : Link]

\* A sequence, for the provers.
LEMMA Elements ==
    ASSUME NEW S, NEW s \in Seq(S)
    PROVE  Len(s) \in Nat /\ DOMAIN s = 1..Len(s) /\ \A i \in DOMAIN s : s[i] \in S
OBVIOUS

\* The text of nothing.
LEMMA NoTextType == NoText \in Target
BY DEF NoText, Target, Text, text

\* What a text is reduced to.
LEMMA TargetType ==
    ASSUME NEW t \in Target
    PROVE  resourceTarget(t) \in Target /\ headerTarget(t) \in Target
<1>1. "" \in Names
  BY NamesAssumption
<1>0. /\ t = [host |-> t.host, path |-> t.path, blank |-> t.blank]
      /\ t.path \in Seq(Names)
      /\ t.blank \in {"none", "before", "behind", "escaped"}
  BY TextParts DEF Target
<1>2. requestURI(t) \in Target
  <2>1. noName \in Names
    BY <1>1 DEF noName
  <2>2. <<noName>> \in Seq(Names) /\ <<noName>> # <<>>
    BY <2>1
  <2> QED
    BY <1>0, <2>2 DEF requestURI, Target, Text
<1>3. ASSUME isURL(t), IsResourcePath(parsedPath(t)) PROVE parsedPath(t) \in Target
  <2>1. parsedPath(t) = [host |-> "/", path |-> t.path,
                         blank |-> IF t.blank = "escaped" THEN "behind" ELSE t.blank]
    BY DEF parsedPath
  <2>2. t.path # <<>>
    BY <1>3, <2>1 DEF IsResourcePath, isPath
  <2> QED
    BY <1>0, <1>3, <2>1, <2>2 DEF Target, Text, isURL
<1>4. headerTarget(t) \in {t, parsedPath(t), NoText}
      /\ (headerTarget(t) = parsedPath(t) =>
              \/ parsedPath(t) \in {t, NoText}
              \/ isURL(t) /\ IsResourcePath(parsedPath(t)))
  BY DEF headerTarget
<1> QED
  BY <1>2, <1>3, <1>4, NoTextType DEF resourceTarget

\* A name found on a path.
LEMMA NameAfterType ==
    ASSUME NEW path \in Path, NEW at
    PROVE  nameAfter(path, at) \in Names
<1> DEFINE behind == {i \in DOMAIN path : i > at /\ ~isIndex(path[i])}
<1>1. CASE behind = {}
  <2>1. "" \in Names
    BY NamesAssumption
  <2> QED
    BY <1>1, <2>1 DEF nameAfter
<1>2. CASE behind # {}
  <2>1. Len(path) \in Nat /\ behind \in SUBSET (1..Len(path))
    BY DEF Path
  <2>2. Min(behind) \in behind
    <3> HIDE DEF behind
    <3> QED
      BY <1>2, <2>1, MinMax
  <2>3. path[Min(behind)] \in Names
    <3>1. \A i \in behind : path[i] \in Names
      BY DEF Path
    <3> HIDE DEF behind
    <3> QED
      BY <2>2, <3>1
  <2> QED
    BY <1>2, <2>3 DEF nameAfter
<1> QED
  BY <1>1, <1>2

\* The titles, listed.
LEMMA Titled ==
    /\ DOMAIN Titles = 1..7
    /\ ToSet(Titles) = {"Resource", "Members", "Links", "Actions", "Annotations", "Oem",
                        "Headers"}
<1>2. DOMAIN Titles = 1..7
  BY DEF Titles
<1>3. /\ Titles[1] = "Resource" /\ Titles[2] = "Members" /\ Titles[3] = "Links"
      /\ Titles[4] = "Actions" /\ Titles[5] = "Annotations" /\ Titles[6] = "Oem"
      /\ Titles[7] = "Headers"
  BY DEF Titles
<1>4. 1..7 = {1, 2, 3, 4, 5, 6, 7}
  OBVIOUS
<1>5. ToSet(Titles) = {Titles[i] : i \in 1..7}
  BY <1>2 DEF ToSet
<1> HIDE DEF Titles
<1>6. {Titles[i] : i \in 1..7} = {Titles[1], Titles[2], Titles[3], Titles[4], Titles[5],
                                 Titles[6], Titles[7]}
  BY <1>4, Zenon
<1> QED
  BY <1>2, <1>3, <1>5, <1>6

\* A place in a body has a group: that of its vendor if it is below Oem, and only
\* then.
LEMMA GroupType ==
    ASSUME NEW path \in Path
    PROVE  /\ groupFor(path) \in Group
           /\ groupFor(path)[1] # "Headers"
           /\ groupFor(path)[1] = "Oem" <=> crosses(path, {"Oem"})
           /\ crosses(path, {"Oem"}) => groupFor(path) = oemGroup(path)
<1>1. "" \in Names /\ "unnamed" \in Names /\ \A k \in ActionKeys : Vendor[k] \in Names
  BY NamesAssumption
<1>2. oemVendor(path) \in Names
  BY <1>1, NameAfterType DEF oemVendor
<1>3. oemGroup(path) \in Group /\ oemGroup(path)[1] = "Oem"
  BY <1>1, <1>2, Titled DEF oemGroup, Group
<1>4. byFirstName(path) \in {"Actions", "Links", "Members", "Resource"}
  BY DEF byFirstName
<1>5. <<byFirstName(path), "">> \in Group /\ <<"Annotations", "">> \in Group
  BY <1>1, <1>4, Titled DEF Group
<1>6. /\ <<byFirstName(path), "">>[1] \notin {"Headers", "Oem"}
      /\ <<"Annotations", "">>[1] \notin {"Headers", "Oem"}
  BY <1>4
<1>7. CASE crosses(path, {"Oem"})
  <2>1. groupFor(path) = oemGroup(path)
    BY <1>7 DEF groupFor
  <2> QED
    BY <1>3, <1>7, <2>1
<1>8. CASE ~crosses(path, {"Oem"})
  BY <1>5, <1>6, <1>8 DEF groupFor
<1> QED
  BY <1>7, <1>8

\* Labels are made of names.
LEMMA LabelType ==
    ASSUME NEW path \in Path, NEW t \in Target
    PROVE  label(path) \in Path /\ linkLabel(path, t) \in Path
<1> DEFINE keys == {i \in DOMAIN path : ~isIndex(path[i])}
<1>1. label(path) \in Path
  <2>1. CASE keys = {}
    BY <2>1 DEF label
  <2>2. CASE keys # {}
    <3>1. Len(path) \in Nat /\ keys \in SUBSET (1..Len(path))
      BY DEF Path
    <3>2. Max(keys) \in 1..Len(path)
      <4> HIDE DEF keys
      <4> QED
        BY <2>2, <3>1, MinMax
    <3>3. SubSeq(path, Max(keys), Len(path)) \in Path
      <4> HIDE DEF keys
      <4> QED
        BY <3>2 DEF Path
    <3> QED
      BY <2>2, <3>3 DEF label
  <2> QED
    BY <2>1, <2>2
<1>2. lastSegment(t) \in Path
  <2> DEFINE pieces == (IF t.host \in {"own", "other"} THEN <<t.host>> ELSE <<>>) \o bare(t)
  <2>1. "" \in Names /\ " " \in Names /\ "own" \in Names /\ "other" \in Names
    BY NamesAssumption
  <2>2. bare(t) \in Seq(Names)
    BY BareBegins DEF Target
  <2>3. (IF t.host \in {"own", "other"} THEN <<t.host>> ELSE <<>>) \in Seq(Names)
    <3>1. <<>> \in Seq(Names) /\ <<"own">> \in Seq(Names) /\ <<"other">> \in Seq(Names)
      <4>1. "own" \in Names /\ "other" \in Names
        BY <2>1
      <4> QED
        BY <4>1
    <3> QED
      BY <3>1, Zenon
  <2>4. pieces \in Seq(Names)
    BY <2>2, <2>3
  <2> HIDE DEF pieces
  <2>5. pieces # <<>> => Last(pieces) \in Names
    BY <2>4 DEF Last
  <2> DEFINE name == IF pieces = <<>> THEN "" ELSE Last(pieces)
             blank == t.blank \in {"behind", "escaped"} \/ (pieces = <<>> /\ padded(t))
  <2>6. name \in Names
    BY <2>1, <2>5, Zenon
  <2>7. lastSegment(t) = <<name>> \o (IF blank THEN <<" ">> ELSE <<>>)
    BY DEF lastSegment, pieces
  <2> HIDE DEF name, blank
  <2>8. ASSUME NEW n \in Names, NEW m \in Names
        PROVE  <<n>> \in Seq(Names) /\ <<n>> \o <<m>> \in Seq(Names)
                                    /\ <<n>> \o <<>> \in Seq(Names)
    OBVIOUS
  <2>9. <<name>> \o <<" ">> \in Seq(Names) /\ <<name>> \o <<>> \in Seq(Names)
    BY <2>1, <2>6, <2>8, Zenon
  <2> QED
    BY <2>7, <2>9, Zenon DEF Path
<1> QED
  BY <1>1, <1>2 DEF linkLabel

\* The text of a value.
LEMMA StringType ==
    ASSUME NEW value \in Json
    PROVE  stringValue(value) \in Target
BY NoTextType, JsonAssumption DEF stringValue, Target

\* A member is less deep than its object, and its key no index.
LEMMA MemberType ==
    ASSUME NEW value \in Json, value.type = "object"
    PROVE  /\ Len(value.members) \in Nat /\ DOMAIN value.members = 1..Len(value.members)
           /\ \A i \in DOMAIN value.members :
                  /\ value.members[i].key \in Names
                  /\ ~isIndex(value.members[i].key)
                  /\ value.members[i].value \in Json
                  /\ depth[value.members[i].value] < depth[value]
<1>1. value.members \in Seq([key : Names, value : Json])
  BY JsonAssumption
<1>2. \A i \in DOMAIN value.members : value.members[i] \in [key : Names, value : Json]
  BY <1>1, Elements
<1>3. \A i \in DOMAIN value.members : 
           /\ ~isIndex(value.members[i].key)
           /\ depth[value.members[i].value] < depth[value]
  BY JsonAssumption
<1> QED
  BY <1>1, <1>2, <1>3

\* An element is less deep than its array, and has an index.
LEMMA ElementType ==
    ASSUME NEW value \in Json, value.type = "array"
    PROVE  /\ Len(value.elements) \in Nat /\ DOMAIN value.elements = 1..Len(value.elements)
           /\ \A i \in DOMAIN value.elements :
                  /\ value.elements[i] \in Json
                  /\ depth[value.elements[i]] < depth[value]
                  /\ Index[i] \in Names
                  /\ isIndex(Index[i])
<1>1. /\ value.elements \in Seq(Json) /\ Len(value.elements) <= Len(Index)
      /\ \A i \in DOMAIN value.elements : depth[value.elements[i]] < depth[value]
  BY JsonAssumption
<1>2. Index \in Seq(Names)
  BY NamesAssumption
<1>3. \A i \in DOMAIN value.elements : i \in DOMAIN Index
  BY <1>1, <1>2
<1> QED
  BY <1>1, <1>2, <1>3 DEF isIndex, ToSet

\* The text of a member.
LEMMA FirstLast ==
    ASSUME NEW value \in Json, value.type = "object", NEW key
    PROVE  first(value.members, key) \in Target /\ last(value.members, key) \in Target
<1> DEFINE at == under(value.members, key)
<1>1. CASE at = {}
  BY <1>1, NoTextType DEF first, last
<1>2. CASE at # {}
  <2>1. Len(value.members) \in Nat /\ DOMAIN value.members = 1..Len(value.members)
    BY MemberType
  <2>2. at \in SUBSET (1..Len(value.members))
    BY <2>1 DEF under
  <2>3. Min(at) \in DOMAIN value.members /\ Max(at) \in DOMAIN value.members
    <3> HIDE DEF at
    <3> QED
      BY <1>2, <2>1, <2>2, MinMax
  <2>4. /\ stringValue(value.members[Min(at)].value) \in Target
        /\ stringValue(value.members[Max(at)].value) \in Target
    <3> HIDE DEF at
    <3> QED
      BY <2>3, MemberType, StringType
  <2> QED
    BY <1>2, <2>4 DEF first, last
<1> QED
  BY <1>1, <1>2

\* A target that a fetch and the curl command mean the same by, blanks around it aside.
LeadsThere(t) == resolve(t) # refusal => (renderCurl(t) = resolve(t) <=> ~padded(t))

Leads(l) ==
    /\ l.target # NoText /\ LeadsThere(l.target)
    /\ l.info = NoText \/ LeadsThere(l.info)

\* What is found in a body, and in headers.
Finds == {f \in Found : Leads(f.link)}
InBody == {f \in Finds : f.group[1] # "Headers" /\ f.link.kind # "header"}
InHeaders == {f \in Finds : f.group = <<"Headers", "">> /\ f.link.kind = "header"}

\* What a link leads to names something, and is no URL of the own host any more.
LEMMA Reduced ==
    ASSUME NEW t \in Target
    PROVE  /\ t # NoText => resourceTarget(t) # NoText /\ LeadsThere(resourceTarget(t))
           /\ resourceTarget(NoText) = NoText
<1>1. resourceTarget(NoText) = NoText
  BY DEF resourceTarget, isURL, NoText, text
<1>2. ASSUME t # NoText PROVE resourceTarget(t) # NoText
  BY <1>2, RequestURIPath DEF resourceTarget, Target
<1>3. ~(isURL(resourceTarget(t)) /\ resourceTarget(t).host = "own")
  BY RequestURIPath DEF resourceTarget, Target
<1>4. resourceTarget(t) \in Text(Names)
  BY TargetType DEF Target
<1> QED
  BY <1>1, <1>2, <1>3, <1>4, CurlAsFetched DEF LeadsThere

\* What looks like a resource path needs no reduction.
LEMMA ResourcePathLeads ==
    ASSUME NEW t \in Target, IsResourcePath(t)
    PROVE  t # NoText /\ LeadsThere(t) /\ resourceTarget(t) = t
<1>1. t # NoText /\ ~isURL(t)
  BY DEF IsResourcePath, isPath, isURL, NoText, text
<1> QED
  BY <1>1, CurlAsFetched DEF LeadsThere, resourceTarget, Target

\* One link, filed under the group of its place.
LEMMA AddType ==
    ASSUME NEW path \in Path, NEW l \in Link, Leads(l), l.kind # "header"
    PROVE  /\ add(l, path) \in Seq(InBody)
           /\ ToSet(add(l, path)) = {[group |-> groupFor(path), link |-> l]}
<1>1. found(groupFor(path), l) \in InBody
  BY GroupType DEF found, InBody, Finds, Found
<1>2. add(l, path) = <<found(groupFor(path), l)>>
  BY DEF add
<1>3. ToSet(<<found(groupFor(path), l)>>) = {found(groupFor(path), l)}
  BY DEF ToSet
<1> QED
  BY <1>1, <1>2, <1>3 DEF found

\* No link.
LEMMA NothingFound == \A S : <<>> \in Seq(S) /\ ToSet(<<>>) = {}
BY DEF ToSet

\* The link of an object that names itself, of an action, and of a string.
resourceLink(value, path) ==
    LET target == resourceTarget(first(value.members, "@odata.id"))
    IN  found(groupFor(path), link(linkLabel(path, target), "resource", target))

actionLink(value, path) ==
    found(groupFor(path),
          [link(label(path), "action", resourceTarget(last(value.members, "target")))
              EXCEPT !.info = resourceTarget(last(value.members, "@Redfish.ActionInfo"))])

uriLink(value, path) == found(groupFor(path), link(label(path), "uri", value.text))

\* A link, as far as it matters which resource is listed where.
filed(f) == [group |-> f.group, kind |-> f.link.kind, target |-> f.link.target]
entry(path, kind, t) ==
    [group |-> groupFor(path), kind |-> kind, target |-> resourceTarget(t)]

\* What the walk finds of an object itself.
LEMMA SelfOrLink ==
    ASSUME NEW value \in Json, value.type = "object", NEW path \in Path
    PROVE  /\ selfOrLink(value.members, path) \in Seq(InBody)
           /\ ToSet(selfOrLink(value.members, path)) =
                  IF path # <<>> /\ first(value.members, "@odata.id") # NoText
                  THEN {resourceLink(value, path)} ELSE {}
<1> DEFINE target == first(value.members, "@odata.id")
           l == link(linkLabel(path, resourceTarget(target)), "resource",
                     resourceTarget(target))
<1>1. target \in Target
  BY FirstLast
<1>2. CASE target = NoText \/ path = <<>>
  <2>1. selfOrLink(value.members, path) = <<>>
    BY <1>2 DEF selfOrLink
  <2> QED
    BY <1>2, <2>1, NothingFound
<1>3. CASE ~(target = NoText \/ path = <<>>)
  <2> HIDE DEF target
  <2>1. /\ resourceTarget(target) \in Target
        /\ linkLabel(path, resourceTarget(target)) \in Path
    BY <1>1, TargetType, LabelType
  <2>2. /\ l \in Link /\ Leads(l) /\ l.kind = "resource"
        /\ l.target = resourceTarget(target)
    BY <1>1, <1>3, <2>1, Reduced, NoTextType DEF link, Link, Leads
  <2> USE DEF target
  <2>3. selfOrLink(value.members, path) = add(l, path)
    BY <1>3 DEF selfOrLink
  <2> HIDE DEF target, l
  <2>4. /\ add(l, path) \in Seq(InBody)
        /\ ToSet(add(l, path)) = {[group |-> groupFor(path), link |-> l]}
    BY <2>2, AddType
  <2> QED
    BY <1>3, <2>3, <2>4 DEF resourceLink, found, target, l
<1> QED
  BY <1>2, <1>3

\* What it finds of a string.
LEMMA PathLikeString ==
    ASSUME NEW value \in Json, value.type = "string", NEW path \in Path
    PROVE  /\ pathLikeString(value.text, path) \in Seq(InBody)
           /\ ToSet(pathLikeString(value.text, path)) =
                  IF IsResourcePath(value.text) THEN {uriLink(value, path)} ELSE {}
<1> DEFINE t == value.text
           l == link(label(path), "uri", t)
<1>0. t \in Target
  BY JsonAssumption DEF Target
<1>1. CASE ~IsResourcePath(t)
  <2>1. pathLikeString(t, path) = <<>>
    BY <1>1 DEF pathLikeString
  <2> QED
    BY <1>1, <2>1, NothingFound
<1>2. CASE IsResourcePath(t)
  <2>1. label(path) \in Path
    BY <1>0, LabelType
  <2>2. l \in Link /\ Leads(l) /\ l.kind = "uri"
    BY <1>0, <1>2, <2>1, ResourcePathLeads, NoTextType DEF link, Link, Leads
  <2>3. pathLikeString(t, path) = add(l, path)
    BY <1>2 DEF pathLikeString
  <2> HIDE DEF l
  <2>4. /\ add(l, path) \in Seq(InBody)
        /\ ToSet(add(l, path)) = {[group |-> groupFor(path), link |-> l]}
    BY <2>2, AddType
  <2> QED
    BY <1>2, <2>3, <2>4 DEF uriLink, found, l
<1> QED
  BY <1>1, <1>2

\* What it finds of an action.
LEMMA ActionFound ==
    ASSUME NEW value \in Json, NEW path \in Path
    PROVE  /\ action(value, path) \in Seq(InBody)
           /\ ToSet(action(value, path)) =
                  IF value.type = "object" /\ last(value.members, "target") # NoText
                  THEN {actionLink(value, path)} ELSE {}
<1> DEFINE target == last(value.members, "target")
           info == last(value.members, "@Redfish.ActionInfo")
           l == [link(label(path), "action", resourceTarget(target))
                     EXCEPT !.info = resourceTarget(info)]
<1>1. CASE value.type # "object" \/ target = NoText
  <2>1. action(value, path) = <<>>
    BY <1>1 DEF action
  <2> QED
    BY <1>1, <2>1, NothingFound
<1>2. CASE ~(value.type # "object" \/ target = NoText)
  <2>0. target \in Target /\ info \in Target
    BY <1>2, FirstLast
  <2> HIDE DEF target, info
  <2>1. label(path) \in Path /\ resourceTarget(target) \in Target /\ resourceTarget(info) \in Target
    BY <2>0, LabelType, TargetType
  <2>2. /\ l \in Link /\ Leads(l) /\ l.kind = "action"
        /\ l.target = resourceTarget(target)
    BY <1>2, <2>0, <2>1, Reduced DEF link, Link, Leads
  <2> USE DEF target, info
  <2>3. action(value, path) = add(l, path)
    BY <1>2 DEF action
  <2> HIDE DEF target, info, l
  <2>4. /\ add(l, path) \in Seq(InBody)
        /\ ToSet(add(l, path)) = {[group |-> groupFor(path), link |-> l]}
    BY <2>2, AddType
  <2> QED
    BY <1>2, <2>3, <2>4 DEF actionLink, found, target, info, l
<1> QED
  BY <1>1, <1>2

\* Where those are filed, and where they lead.
LEMMA FiledAs ==
    ASSUME NEW value, NEW path
    PROVE  /\ filed(resourceLink(value, path)) =
                  entry(path, "resource", first(value.members, "@odata.id"))
           /\ filed(actionLink(value, path)) =
                  entry(path, "action", last(value.members, "target"))
BY DEF filed, entry, resourceLink, actionLink, found, link

-----------------------------------------------------------------------------
(* The walks are what their equations say.                                 *)

\* Induction over documents.
LEMMA JsonInduction ==
    ASSUME NEW G, G \subseteq Json,
           \A x \in Json : (\A y \in Json : depth[y] < depth[x] => y \in G) => x \in G
    PROVE  G = Json
<1>1. depth \in [Json -> Nat] /\ G \in SUBSET Json
  BY JsonAssumption
<1> QED
  BY <1>1, DepthInduction

\* FlattenSeq of a sequence that is given by its elements.
LEMMA FlattenOver ==
    ASSUME NEW S, NEW n \in Nat, NEW ss, DOMAIN ss = 1..n, ss = [i \in 1..n |-> ss[i]],
           \A i \in 1..n : ss[i] \in Seq(S)
    PROVE  /\ FlattenSeq(ss) \in Seq(S)
           /\ ToSet(FlattenSeq(ss)) = UNION {ToSet(ss[i]) : i \in 1..n}
<1>1. ss \in Seq(Seq(S))
  <2>1. ss \in [1..n -> Seq(S)]
    OBVIOUS
  <2> QED
    BY <2>1, SeqDef
<1> QED
  BY <1>1, FlattenSeqRange

\* One step of actions, from what it finds further down.
actionsStep(g, value) ==
    [path \in Path |->
        IF value.type # "object" THEN <<>>
        ELSE FlattenSeq([i \in DOMAIN value.members |->
                 LET m == value.members[i]
                 IN  actionsUnder(m, path, g[m.value][Append(path, m.key)])])]

\* What one step of actions makes of an object.
LEMMA ActionsStepType ==
    ASSUME NEW g \in [Json -> [Path -> Seq(InBody)]], NEW value \in Json, NEW path \in Path,
           value.type = "object"
    PROVE  /\ actionsStep(g, value)[path] \in Seq(InBody)
           /\ \A i \in DOMAIN value.members :
                  actionsUnder(value.members[i], path,
                      g[value.members[i].value][Append(path, value.members[i].key)])
                  \in Seq(InBody)
           /\ \A f : f \in ToSet(actionsStep(g, value)[path]) <=>
                  \E i \in DOMAIN value.members :
                      f \in ToSet(actionsUnder(value.members[i], path,
                               g[value.members[i].value][Append(path, value.members[i].key)]))
<1> DEFINE n == Len(value.members)
           ss == [i \in DOMAIN value.members |->
                     actionsUnder(value.members[i], path,
                         g[value.members[i].value][Append(path, value.members[i].key)])]
<1>1. n \in Nat /\ DOMAIN value.members = 1..n
  BY MemberType
<1>2. ASSUME NEW i \in 1..n PROVE ss[i] \in Seq(InBody)
  <2> DEFINE m == value.members[i]
             inner == Append(path, m.key)
  <2>1. m.key \in Names /\ m.value \in Json
    BY <1>1, MemberType
  <2>2. inner \in Path
    BY <2>1 DEF Path
  <2> HIDE DEF m, inner
  <2>3. action(m.value, inner) \in Seq(InBody) /\ g[m.value][inner] \in Seq(InBody)
    BY <2>1, <2>2, ActionFound
  <2>4. actionsUnder(m, path, g[m.value][inner]) \in Seq(InBody)
    BY <2>3 DEF actionsUnder, inner
  <2> QED
    BY <1>1, <2>4 DEF m, inner
<1>3. actionsStep(g, value)[path] = FlattenSeq(ss)
  BY DEF actionsStep
<1>4. DOMAIN ss = 1..n /\ ss = [i \in 1..n |-> ss[i]]
  BY <1>1
<1>5. /\ FlattenSeq(ss) \in Seq(InBody)
      /\ ToSet(FlattenSeq(ss)) = UNION {ToSet(ss[i]) : i \in 1..n}
  <2> HIDE DEF ss, n
  <2> QED
    BY <1>1, <1>2, <1>4, FlattenOver
<1>6. ASSUME NEW f
      PROVE  f \in UNION {ToSet(ss[i]) : i \in 1..n} <=>
                 \E i \in DOMAIN value.members :
                     f \in ToSet(actionsUnder(value.members[i], path,
                              g[value.members[i].value][Append(path, value.members[i].key)]))
  BY <1>1
<1>7. \A i \in DOMAIN value.members :
        actionsUnder(value.members[i], path,
            g[value.members[i].value][Append(path, value.members[i].key)]) \in Seq(InBody)
  BY <1>1, <1>2
<1> QED
  BY <1>3, <1>5, <1>6, <1>7

\* actions is what its equation says.
LEMMA ActionsDefined ==
    /\ actions \in [Json -> [Path -> Seq(InBody)]]
    /\ \A value \in Json : actions[value] = actionsStep(actions, value)
<1> DEFINE V == [Path -> Seq(InBody)]
           F == [g \in [Json -> V] |-> [value \in Json |-> actionsStep(g, value)]]
<1>1. ASSUME NEW g \in [Json -> V], NEW value \in Json PROVE actionsStep(g, value) \in V
  <2>1. ASSUME NEW path \in Path PROVE actionsStep(g, value)[path] \in Seq(InBody)
    <3>1. CASE value.type = "object"
      BY <3>1, ActionsStepType
    <3>2. CASE value.type # "object"
      <4>1. actionsStep(g, value)[path] = <<>>
        BY <3>2 DEF actionsStep
      <4> QED
        BY <4>1, NothingFound
    <3> QED
      BY <3>1, <3>2
  <2> QED
    BY <2>1 DEF actionsStep
<1>2. ASSUME NEW g, NEW h, NEW value \in Json,
             \A y \in Json : depth[y] < depth[value] => g[y] = h[y]
      PROVE  actionsStep(g, value) = actionsStep(h, value)
  <2>1. CASE value.type # "object"
    BY <2>1 DEF actionsStep
  <2>2. CASE value.type = "object"
    <3>1. \A i \in DOMAIN value.members : g[value.members[i].value] = h[value.members[i].value]
      BY <1>2, <2>2, MemberType
    <3> QED
      BY <3>1 DEF actionsStep
  <2> QED
    BY <2>1, <2>2
<1>3. F \in [[Json -> V] -> [Json -> V]]
  <2> HIDE DEF V
  <2> QED
    BY <1>1
<1>4. GoesDown(F, Json, V, depth)
  <2>1. depth \in [Json -> Nat]
    BY JsonAssumption
  <2>2. \A g, h \in [Json -> V] : \A x \in Json :
           (\A y \in Json : depth[y] < depth[x] => g[y] = h[y]) => F[g][x] = F[h][x]
    <3> HIDE DEF V
    <3> QED
      BY <1>2
  <2> HIDE DEF V, F
  <2> QED
    BY <1>3, <2>1, <2>2 DEF GoesDown
<1>5. V # {}
  <2>1. [path \in Path |-> <<>>] \in V
    BY NothingFound
  <2> QED
    BY <2>1
<1>6. PICK f \in [Json -> V] : F[f] = f
  <2> HIDE DEF V, F
  <2> QED
    BY <1>4, <1>5, Recursion
<1>7. f = [value \in Json |-> actionsStep(f, value)]
  <2> HIDE DEF V
  <2> QED
    BY <1>6
<1>8. actions = CHOOSE g : g = [value \in Json |-> actionsStep(g, value)]
  BY DEF actions, actionsStep
<1>9. actions = [value \in Json |-> actionsStep(actions, value)]
  <2> HIDE DEF V, F
  <2> QED
    BY <1>7, <1>8
<1> DEFINE a == actions
<1>10. a = [value \in Json |-> actionsStep(a, value)]
  BY <1>9
<1> HIDE DEF a
<1>11. \A value \in Json : a[value] = actionsStep(a, value)
  BY <1>10
<1>12. a = f
  <2> DEFINE Same == {value \in Json : a[value] = f[value]}
  <2>1. ASSUME NEW value \in Json, \A y \in Json : depth[y] < depth[value] => y \in Same
        PROVE  value \in Same
    <3>1. actionsStep(a, value) = actionsStep(f, value)
      BY <1>2, <2>1
    <3>2. f[value] = actionsStep(f, value)
      BY <1>7
    <3> QED
      BY <1>11, <3>1, <3>2
  <2>2. Same \in SUBSET Json 
    OBVIOUS
  <2>3. Same = Json
    <3>1. \A value \in Json :
            (\A y \in Json : depth[y] < depth[value] => y \in Same) => value \in Same
      BY <2>1
    <3> HIDE DEF Same, V, F
    <3> QED
      BY <3>1, <2>2, JsonInduction
  <2>4. \A value \in Json : a[value] = f[value]
    BY <2>3
  <2> HIDE DEF Same, V
  <2> QED
    BY <1>6, <1>10, <2>4
<1> QED
  BY <1>6, <1>11, <1>12 DEF a

\* A key that the walk does not look below.
Passed == {"@odata.id", "@odata.context", "@odata.type"}

\* What the walk finds below a member, with a solution for what is further down.
memberStep(g, m, path) ==
    CASE m.key \in Passed -> <<>>
      [] m.key = "Actions" -> actions[m.value][Append(path, m.key)]
      [] OTHER -> g[m.value][Append(path, m.key)]

\* One step of walk.
walkStep(g, value) ==
    [path \in Path |->
        CASE value.type = "object" ->
                 selfOrLink(value.members, path) \o
                 FlattenSeq([i \in DOMAIN value.members |->
                                 memberStep(g, value.members[i], path)])
          [] value.type = "array" ->
                 FlattenSeq([i \in DOMAIN value.elements |->
                     g[value.elements[i]][Append(path, Index[i])]])
          [] value.type = "string" -> pathLikeString(value.text, path)
          [] OTHER -> <<>>]

\* What one step of walk makes of an object: its own link, and what is below each of
\* its members.
LEMMA WalkObject ==
    ASSUME NEW g \in [Json -> [Path -> Seq(InBody)]], NEW value \in Json, NEW path \in Path,
           value.type = "object"
    PROVE  /\ walkStep(g, value)[path] \in Seq(InBody)
           /\ \A i \in DOMAIN value.members :
                  memberStep(g, value.members[i], path) \in Seq(InBody)
           /\ \A f : f \in ToSet(walkStep(g, value)[path]) <=>
                  \/ f \in ToSet(selfOrLink(value.members, path))
                  \/ \E i \in DOMAIN value.members :
                         f \in ToSet(memberStep(g, value.members[i], path))
<1> DEFINE n == Len(value.members)
           ss == [i \in DOMAIN value.members |-> memberStep(g, value.members[i], path)]
<1>1. n \in Nat /\ DOMAIN value.members = 1..n
  BY MemberType
<1>2. ASSUME NEW i \in 1..n PROVE ss[i] \in Seq(InBody)
  <2> DEFINE m == value.members[i]
             inner == Append(path, m.key)
  <2>1. m.key \in Names /\ m.value \in Json
    BY <1>1, MemberType
  <2>2. inner \in Path
    BY <2>1 DEF Path
  <2> HIDE DEF m, inner
  <2>3. /\ actions[m.value][inner] \in Seq(InBody) /\ g[m.value][inner] \in Seq(InBody)
        /\ <<>> \in Seq(InBody)
    BY <2>1, <2>2, ActionsDefined
  <2>4. memberStep(g, m, path) \in Seq(InBody)
    BY <2>3 DEF memberStep, inner
  <2> QED
    BY <1>1, <2>4 DEF m, inner
<1>3. walkStep(g, value)[path] = selfOrLink(value.members, path) \o FlattenSeq(ss)
  BY DEF walkStep
<1>4. DOMAIN ss = 1..n /\ ss = [i \in 1..n |-> ss[i]]
  BY <1>1
<1>5. /\ FlattenSeq(ss) \in Seq(InBody)
      /\ ToSet(FlattenSeq(ss)) = UNION {ToSet(ss[i]) : i \in 1..n}
  <2> HIDE DEF ss, n
  <2> QED
    BY <1>1, <1>2, <1>4, FlattenOver
<1>6. ASSUME NEW f
      PROVE  f \in UNION {ToSet(ss[i]) : i \in 1..n} <=>
                 \E i \in DOMAIN value.members :
                     f \in ToSet(memberStep(g, value.members[i], path))
  BY <1>1
<1>7. \A i \in DOMAIN value.members : memberStep(g, value.members[i], path) \in Seq(InBody)
  BY <1>1, <1>2
<1>8. selfOrLink(value.members, path) \in Seq(InBody)
  BY SelfOrLink
<1> HIDE DEF ss
<1>9. /\ selfOrLink(value.members, path) \o FlattenSeq(ss) \in Seq(InBody)
      /\ ToSet(selfOrLink(value.members, path) \o FlattenSeq(ss)) =
             ToSet(selfOrLink(value.members, path)) \cup ToSet(FlattenSeq(ss))
  BY <1>5, <1>8, RangeOfConcat
<1> QED
  BY <1>3, <1>5, <1>6, <1>7, <1>9

\* And of an array.
LEMMA WalkArray ==
    ASSUME NEW g \in [Json -> [Path -> Seq(InBody)]], NEW value \in Json, NEW path \in Path,
           value.type = "array"
    PROVE  /\ walkStep(g, value)[path] \in Seq(InBody)
           /\ \A f : f \in ToSet(walkStep(g, value)[path]) <=>
                  \E i \in DOMAIN value.elements :
                      f \in ToSet(g[value.elements[i]][Append(path, Index[i])])
<1> DEFINE n == Len(value.elements)
           ss == [i \in DOMAIN value.elements |->
                      g[value.elements[i]][Append(path, Index[i])]]
<1>1. n \in Nat /\ DOMAIN value.elements = 1..n
  BY ElementType
<1>2. ASSUME NEW i \in 1..n PROVE ss[i] \in Seq(InBody)
  <2>1. value.elements[i] \in Json /\ Index[i] \in Names
    BY <1>1, ElementType
  <2>2. Append(path, Index[i]) \in Path
    BY <2>1 DEF Path
  <2> QED
    BY <1>1, <2>1, <2>2
<1>3. walkStep(g, value)[path] = FlattenSeq(ss)
  BY DEF walkStep
<1>4. DOMAIN ss = 1..n /\ ss = [i \in 1..n |-> ss[i]]
  BY <1>1
<1>5. /\ FlattenSeq(ss) \in Seq(InBody)
      /\ ToSet(FlattenSeq(ss)) = UNION {ToSet(ss[i]) : i \in 1..n}
  <2> HIDE DEF ss, n
  <2> QED
    BY <1>1, <1>2, <1>4, FlattenOver
<1>6. ASSUME NEW f
      PROVE  f \in UNION {ToSet(ss[i]) : i \in 1..n} <=>
                 \E i \in DOMAIN value.elements :
                     f \in ToSet(g[value.elements[i]][Append(path, Index[i])])
  BY <1>1
<1> QED
  BY <1>3, <1>5, <1>6

\* walk is what its equation says.
LEMMA WalkDefined ==
    /\ walk \in [Json -> [Path -> Seq(InBody)]]
    /\ \A value \in Json : walk[value] = walkStep(walk, value)
<1> DEFINE V == [Path -> Seq(InBody)]
           F == [g \in [Json -> V] |-> [value \in Json |-> walkStep(g, value)]]
<1>1. ASSUME NEW g \in [Json -> V], NEW value \in Json PROVE walkStep(g, value) \in V
  <2>1. ASSUME NEW path \in Path PROVE walkStep(g, value)[path] \in Seq(InBody)
    <3>1. CASE value.type = "object"
      BY <3>1, WalkObject
    <3>2. CASE value.type = "array"
      BY <3>2, WalkArray
    <3>3. CASE value.type = "string"
      <4>1. walkStep(g, value)[path] = pathLikeString(value.text, path)
        BY <3>3 DEF walkStep
      <4> QED
        BY <3>3, <4>1, PathLikeString
    <3>4. CASE value.type \notin {"object", "array", "string"}
      <4>1. walkStep(g, value)[path] = <<>>
        BY <3>4 DEF walkStep
      <4> QED
        BY <4>1, NothingFound
    <3> QED
      BY <3>1, <3>2, <3>3, <3>4
  <2> QED
    BY <2>1 DEF walkStep
<1>2. ASSUME NEW g, NEW h, NEW value \in Json,
             \A y \in Json : depth[y] < depth[value] => g[y] = h[y]
      PROVE  walkStep(g, value) = walkStep(h, value)
  <2>1. CASE value.type \notin {"object", "array"}
    BY <2>1 DEF walkStep
  <2>2. CASE value.type = "object"
    <3>1. \A i \in DOMAIN value.members : g[value.members[i].value] = h[value.members[i].value]
      BY <1>2, <2>2, MemberType
    <3>2. \A i \in DOMAIN value.members : \A path \in Path :
              memberStep(g, value.members[i], path) = memberStep(h, value.members[i], path)
      BY <3>1 DEF memberStep
    <3> QED
      BY <2>2, <3>2 DEF walkStep
  <2>3. CASE value.type = "array"
    <3>1. \A i \in DOMAIN value.elements : g[value.elements[i]] = h[value.elements[i]]
      BY <1>2, <2>3, ElementType
    <3> QED
      BY <2>3, <3>1 DEF walkStep
  <2> QED
    BY <2>1, <2>2, <2>3
<1>3. F \in [[Json -> V] -> [Json -> V]]
  <2> HIDE DEF V
  <2> QED
    BY <1>1
<1>4. GoesDown(F, Json, V, depth)
  <2>1. depth \in [Json -> Nat]
    BY JsonAssumption
  <2>2. \A g, h \in [Json -> V] : \A x \in Json :
           (\A y \in Json : depth[y] < depth[x] => g[y] = h[y]) => F[g][x] = F[h][x]
    <3> HIDE DEF V
    <3> QED
      BY <1>2
  <2> HIDE DEF V, F
  <2> QED
    BY <1>3, <2>1, <2>2 DEF GoesDown
<1>5. V # {}
  <2>1. [path \in Path |-> <<>>] \in V
    BY NothingFound
  <2> QED
    BY <2>1
<1>6. PICK f \in [Json -> V] : F[f] = f
  <2> HIDE DEF V, F
  <2> QED
    BY <1>4, <1>5, Recursion
<1>7. f = [value \in Json |-> walkStep(f, value)]
  <2> HIDE DEF V
  <2> QED
    BY <1>6
<1>8. walk = CHOOSE g : g = [value \in Json |-> walkStep(g, value)]
  BY DEF walk, walkStep, memberStep, Passed
<1>9. walk = [value \in Json |-> walkStep(walk, value)]
  <2> HIDE DEF V, F
  <2> QED
    BY <1>7, <1>8
<1> DEFINE a == walk
<1>10. a = [value \in Json |-> walkStep(a, value)]
  BY <1>9
<1> HIDE DEF a
<1>11. \A value \in Json : a[value] = walkStep(a, value)
  BY <1>10
<1>12. a = f
  <2> DEFINE Same == {value \in Json : a[value] = f[value]}
  <2>1. ASSUME NEW value \in Json, \A y \in Json : depth[y] < depth[value] => y \in Same
        PROVE  value \in Same
    <3>1. walkStep(a, value) = walkStep(f, value)
      BY <1>2, <2>1
    <3>2. f[value] = walkStep(f, value)
      BY <1>7
    <3> QED
      BY <1>11, <3>1, <3>2
  <2>2. Same \in SUBSET Json
    OBVIOUS
  <2>3. Same = Json
    <3>1. \A value \in Json :
            (\A y \in Json : depth[y] < depth[value] => y \in Same) => value \in Same
      BY <2>1
    <3> HIDE DEF Same, V, F
    <3> QED
      BY <3>1, <2>2, JsonInduction
  <2>4. \A value \in Json : a[value] = f[value]
    BY <2>3
  <2> HIDE DEF Same, V
  <2> QED
    BY <1>6, <1>10, <2>4
<1> QED
  BY <1>6, <1>11, <1>12 DEF a

\* A value at its place.
Place == [at : Path, value : Json]

beneath(g, value, path) ==
    CASE value.type = "object" ->
             UNION {g[value.members[i].value][Append(path, value.members[i].key)] :
                        i \in DOMAIN value.members}
      [] value.type = "array" ->
             UNION {g[value.elements[i]][Append(path, Index[i])] :
                        i \in DOMAIN value.elements}
      [] OTHER -> {}

\* One step of Values.
valuesStep(g, value) ==
    [path \in Path |-> {[at |-> path, value |-> value]} \cup beneath(g, value, path)]

\* Places below a place.
LEMMA BelowType ==
    ASSUME NEW g \in [Json -> [Path -> SUBSET Place]], NEW value \in Json, NEW path \in Path
    PROVE  beneath(g, value, path) \in SUBSET Place
<1>1. CASE value.type = "object"
  <2>1. ASSUME NEW i \in DOMAIN value.members
        PROVE  g[value.members[i].value][Append(path, value.members[i].key)] \in SUBSET Place
    <3>1. value.members[i].key \in Names /\ value.members[i].value \in Json
      BY <1>1, MemberType
    <3>2. Append(path, value.members[i].key) \in Path
      BY <3>1 DEF Path
    <3> QED
      BY <3>1, <3>2
  <2> QED
    BY <1>1, <2>1 DEF beneath
<1>2. CASE value.type = "array"
  <2>1. ASSUME NEW i \in DOMAIN value.elements
        PROVE  g[value.elements[i]][Append(path, Index[i])] \in SUBSET Place
    <3>1. value.elements[i] \in Json /\ Index[i] \in Names
      BY <1>2, ElementType
    <3>2. Append(path, Index[i]) \in Path
      BY <3>1 DEF Path
    <3> QED
      BY <3>1, <3>2
  <2> QED
    BY <1>2, <2>1 DEF beneath
<1>3. CASE value.type \notin {"object", "array"}
  BY <1>3 DEF beneath
<1> QED
  BY <1>1, <1>2, <1>3

\* They depend on what is less deep, and on nothing else.
LEMMA BelowGoesDown ==
    ASSUME NEW g, NEW h, NEW value \in Json, NEW path \in Path,
           \A y \in Json : depth[y] < depth[value] => g[y] = h[y]
    PROVE  beneath(g, value, path) = beneath(h, value, path)
<1>1. CASE value.type = "object"
  <2>1. \A i \in DOMAIN value.members : g[value.members[i].value] = h[value.members[i].value]
    BY <1>1, MemberType
  <2> QED
    BY <1>1, <2>1 DEF beneath
<1>2. CASE value.type = "array"
  <2>1. \A i \in DOMAIN value.elements : g[value.elements[i]] = h[value.elements[i]]
    BY <1>2, ElementType
  <2> QED
    BY <1>2, <2>1 DEF beneath
<1>3. CASE value.type \notin {"object", "array"}
  BY <1>3 DEF beneath
<1> QED
  BY <1>1, <1>2, <1>3

\* Values is what its equation says.
LEMMA ValuesDefined ==
    /\ Values \in [Json -> [Path -> SUBSET Place]]
    /\ \A value \in Json : \A path \in Path :
           Values[value][path] =
               {[at |-> path, value |-> value]} \cup beneath(Values, value, path)
<1> DEFINE V == [Path -> SUBSET Place]
           F == [g \in [Json -> V] |-> [value \in Json |-> valuesStep(g, value)]]
<1>1. ASSUME NEW g \in [Json -> V], NEW value \in Json PROVE valuesStep(g, value) \in V
  BY BelowType DEF valuesStep, Place
<1>2. ASSUME NEW g, NEW h, NEW value \in Json,
             \A y \in Json : depth[y] < depth[value] => g[y] = h[y]
      PROVE  valuesStep(g, value) = valuesStep(h, value)
  BY <1>2, BelowGoesDown DEF valuesStep
<1>3. F \in [[Json -> V] -> [Json -> V]]
  <2> HIDE DEF V
  <2> QED
    BY <1>1
<1>4. GoesDown(F, Json, V, depth)
  <2>1. depth \in [Json -> Nat]
    BY JsonAssumption
  <2>2. \A g, h \in [Json -> V] : \A x \in Json :
           (\A y \in Json : depth[y] < depth[x] => g[y] = h[y]) => F[g][x] = F[h][x]
    <3> HIDE DEF V
    <3> QED
      BY <1>2
  <2> HIDE DEF V, F
  <2> QED
    BY <1>3, <2>1, <2>2 DEF GoesDown
<1>5. V # {}
  <2>1. [path \in Path |-> {}] \in V
    OBVIOUS
  <2> QED
    BY <2>1
<1>6. PICK f \in [Json -> V] : F[f] = f
  <2> HIDE DEF V, F
  <2> QED
    BY <1>4, <1>5, Recursion
<1>7. f = [value \in Json |-> valuesStep(f, value)]
  <2> HIDE DEF V
  <2> QED
    BY <1>6
<1>8. Values = CHOOSE g : g = [value \in Json |-> valuesStep(g, value)]
  BY DEF Values, valuesStep, beneath
<1>9. Values = [value \in Json |-> valuesStep(Values, value)]
  <2> HIDE DEF V, F
  <2> QED
    BY <1>7, <1>8
<1> DEFINE a == Values
<1>10. a = [value \in Json |-> valuesStep(a, value)]
  BY <1>9
<1> HIDE DEF a
<1>11. \A value \in Json : a[value] = valuesStep(a, value)
  BY <1>10
<1>12. a = f
  <2> DEFINE Same == {value \in Json : a[value] = f[value]}
  <2>1. ASSUME NEW value \in Json, \A y \in Json : depth[y] < depth[value] => y \in Same
        PROVE  value \in Same
    <3>1. valuesStep(a, value) = valuesStep(f, value)
      BY <1>2, <2>1
    <3>2. f[value] = valuesStep(f, value)
      BY <1>7
    <3> QED
      BY <1>11, <3>1, <3>2
  <2>2. Same \in SUBSET Json
    OBVIOUS
  <2>3. Same = Json
    <3>1. \A value \in Json :
            (\A y \in Json : depth[y] < depth[value] => y \in Same) => value \in Same
      BY <2>1
    <3> HIDE DEF Same, V, F
    <3> QED
      BY <3>1, <2>2, JsonInduction
  <2>4. \A value \in Json : a[value] = f[value]
    BY <2>3
  <2> HIDE DEF Same, V
  <2> QED
    BY <1>6, <1>10, <2>4
<1>13. \A value \in Json : \A path \in Path :
           a[value][path] = {[at |-> path, value |-> value]} \cup beneath(a, value, path)
  BY <1>11 DEF valuesStep
<1> QED
  BY <1>6, <1>12, <1>13 DEF a

-----------------------------------------------------------------------------
(* What the walk for links finds.                                          *)

\* One step further down a path.
LEMMA Below ==
    ASSUME NEW path \in Path, NEW k \in Names
    PROVE  /\ Append(path, k) \in Path /\ Append(path, k) # <<>>
           /\ enclosing(Append(path, k)) = path
           /\ Last(Append(path, k)) = k
           /\ \A K : crosses(Append(path, k), K) <=> crosses(path, K) \/ k \in K
<1> DEFINE q == Append(path, k)
<1>1. /\ path \in Seq(Names) /\ Len(path) \in Nat /\ q \in Seq(Names)
      /\ DOMAIN path = 1..Len(path) /\ DOMAIN q = 1..(Len(path) + 1)
      /\ Len(q) = Len(path) + 1 /\ q[Len(q)] = k
      /\ \A i \in 1..Len(path) : q[i] = path[i]
  BY DEF Path
<1>2. enclosing(q) = path
  <2>1. (Len(path) + 1) - 1 = Len(path)
    BY <1>1
  <2>2. SubSeq(Append(path, k), 1, Len(path)) = path
    BY <1>1
  <2> QED
    BY <1>1, <2>1, <2>2 DEF enclosing
<1>3. Last(q) = k
  BY <1>1 DEF Last
<1>4. ASSUME NEW K PROVE crosses(q, K) <=> crosses(path, K) \/ k \in K
  <2> HIDE DEF q
  <2>1. 1..(Len(path) + 1) = 1..Len(path) \cup {Len(path) + 1}
    BY <1>1
  <2> QED
    BY <1>1, <2>1 DEF crosses
<1>5. q # <<>>
  BY <1>1
<1> QED
  BY <1>1, <1>2, <1>3, <1>4, <1>5 DEF Path

\* Actions are looked for where links are not.
LEMMA AmongIsAside ==
    ASSUME NEW path, AmongActions(path)
    PROVE  Aside(path)
BY DEF AmongActions, Aside, crosses, AsideKeys

\* What is set aside, and where actions are looked for, one step further down.
LEMMA AsideBelow ==
    ASSUME NEW path \in Path, NEW k \in Names
    PROVE  /\ Aside(Append(path, k)) <=> Aside(path) \/ k \in AsideKeys
           /\ AmongActions(Append(path, k)) <=>
                  \/ ~Aside(path) /\ k = "Actions"
                  \/ AmongActions(path) /\ k \notin ActionKeys /\ ~isIndex(k)
<1> DEFINE q == Append(path, k)
           N == Len(path)
<1>1. /\ N \in Nat
      /\ DOMAIN path = 1..N /\ DOMAIN q = 1..(N + 1)
      /\ Len(q) = N + 1 /\ q[N + 1] = k
      /\ \A i \in 1..N : q[i] = path[i]
  BY DEF Path
<1>2. Aside(q) <=> Aside(path) \/ k \in AsideKeys
  BY Below DEF Aside
<1> HIDE DEF q
<1>3. ASSUME AmongActions(q)
      PROVE  \/ ~Aside(path) /\ k = "Actions"
             \/ AmongActions(path) /\ k \notin ActionKeys /\ ~isIndex(k)
  <2>1. PICK i \in 1..(N + 1) :
            /\ q[i] = "Actions"
            /\ \A j \in 1..(i - 1) : q[j] \notin AsideKeys
            /\ \A j \in (i + 1)..(N + 1) : q[j] \notin ActionKeys /\ ~isIndex(q[j])
    BY <1>1, <1>3 DEF AmongActions
  <2>2. CASE i = N + 1
    <3>1. \A j \in 1..N : path[j] \notin AsideKeys
      BY <1>1, <2>1, <2>2
    <3> QED
      BY <1>1, <2>1, <2>2, <3>1 DEF Aside, crosses
  <2>3. CASE i # N + 1
    <3>1. i \in 1..N /\ N + 1 \in (i + 1)..(N + 1)
      BY <1>1, <2>3
    <3>2. k \notin ActionKeys /\ ~isIndex(k)
      BY <1>1, <2>1, <3>1
    <3>3. \A j \in 1..(i - 1) : j \in 1..N
      BY <1>1, <3>1
    <3>4. \A j \in (i + 1)..N : j \in 1..N /\ j \in (i + 1)..(N + 1)
      BY <1>1, <3>1
    <3>5. /\ path[i] = "Actions"
          /\ \A j \in 1..(i - 1) : path[j] \notin AsideKeys
          /\ \A j \in (i + 1)..N : path[j] \notin ActionKeys /\ ~isIndex(path[j])
      BY <1>1, <2>1, <3>1, <3>3, <3>4
    <3>6. AmongActions(path)
      BY <1>1, <3>1, <3>5 DEF AmongActions
    <3> QED
      BY <3>2, <3>6
  <2> QED
    BY <2>2, <2>3
<1>4. ASSUME ~Aside(path), k = "Actions" PROVE AmongActions(q)
  <2>1. N + 1 \in DOMAIN q /\ q[N + 1] = "Actions"
    BY <1>1, <1>4
  <2>2. \A j \in 1..((N + 1) - 1) : q[j] \notin AsideKeys
    BY <1>1, <1>4 DEF Aside, crosses
  <2>3. \A j \in ((N + 1) + 1)..Len(q) : FALSE
    BY <1>1
  <2> QED
    BY <2>1, <2>2, <2>3 DEF AmongActions
<1>5. ASSUME AmongActions(path), k \notin ActionKeys, ~isIndex(k) PROVE AmongActions(q)
  <2>1. PICK i \in 1..N :
            /\ path[i] = "Actions"
            /\ \A j \in 1..(i - 1) : path[j] \notin AsideKeys
            /\ \A j \in (i + 1)..N : path[j] \notin ActionKeys /\ ~isIndex(path[j])
    BY <1>1, <1>5 DEF AmongActions
  <2>2. \A j \in 1..(i - 1) : j \in 1..N
    BY <1>1
  <2>3. \A j \in (i + 1)..(N + 1) : (j \in (i + 1)..N /\ j \in 1..N) \/ j = N + 1
    BY <1>1
  <2>4. /\ q[i] = "Actions"
        /\ \A j \in 1..(i - 1) : q[j] \notin AsideKeys
        /\ \A j \in (i + 1)..(N + 1) : q[j] \notin ActionKeys /\ ~isIndex(q[j])
    BY <1>1, <1>5, <2>1, <2>2, <2>3
  <2>5. i \in DOMAIN q
    BY <1>1
  <2> QED
    BY <1>1, <2>4, <2>5 DEF AmongActions
<1> QED
  BY <1>2, <1>3, <1>4, <1>5 DEF q

-----------------------------------------------------------------------------
\* The links that a place calls for, and those called for at and below it.
says(v) ==
    (IF IsResource(v) THEN {resourceLink(v.value, v.at)} ELSE {}) \cup
    (IF IsAction(v) THEN {actionLink(v.value, v.at)} ELSE {}) \cup
    (IF IsURI(v) THEN {uriLink(v.value, v.at)} ELSE {})

place(value, path) == [at |-> path, value |-> value]

said(value, path) == UNION {says(v) : v \in Values[value][path]}
saidBelow(value, path) == UNION {says(v) : v \in beneath(Values, value, path)}

\* What is said at and below a place, by its parts.
LEMMA SaidSplits ==
    ASSUME NEW value \in Json, NEW path \in Path
    PROVE  /\ said(value, path) = says(place(value, path)) \cup saidBelow(value, path)
           /\ value.type = "object" =>
                  saidBelow(value, path) =
                      UNION {said(value.members[i].value, Append(path, value.members[i].key)) :
                                 i \in DOMAIN value.members}
           /\ value.type = "array" =>
                  saidBelow(value, path) =
                      UNION {said(value.elements[i], Append(path, Index[i])) :
                                 i \in DOMAIN value.elements}
           /\ value.type \notin {"object", "array"} => saidBelow(value, path) = {}
<1>1. Values[value][path] = {place(value, path)} \cup beneath(Values, value, path)
  BY ValuesDefined DEF place
<1>2. said(value, path) = says(place(value, path)) \cup saidBelow(value, path)
  BY <1>1 DEF said, saidBelow
<1>3. ASSUME value.type = "object"
      PROVE  saidBelow(value, path) =
                 UNION {said(value.members[i].value, Append(path, value.members[i].key)) :
                            i \in DOMAIN value.members}
  BY <1>3 DEF saidBelow, said, beneath
<1>4. ASSUME value.type = "array"
      PROVE  saidBelow(value, path) =
                 UNION {said(value.elements[i], Append(path, Index[i])) :
                            i \in DOMAIN value.elements}
  BY <1>4 DEF saidBelow, said, beneath
<1>5. ASSUME value.type \notin {"object", "array"} PROVE saidBelow(value, path) = {}
  BY <1>5 DEF saidBelow, beneath
<1> QED
  BY <1>2, <1>3, <1>4, <1>5

\* Below what is set aside, where no actions are looked for, nothing is said.
Quiet(path) == Aside(path) /\ ~AmongActions(path)

\* A place that is set aside says nothing, unless it is an action's.
LEMMA SaysBelow ==
    ASSUME NEW path \in Path, NEW k \in Names, NEW value \in Json, Aside(Append(path, k)),
           ~AmongActions(path) \/ k \notin ActionKeys
    PROVE  says(place(value, Append(path, k))) = {}
<1>1. /\ enclosing(Append(path, k)) = path /\ Last(Append(path, k)) = k
  BY Below
<1> QED
  BY <1>1 DEF says, place, IsResource, IsAction, IsURI

\* Nor does anything below it.
LEMMA Silent ==
    ASSUME NEW value \in Json, NEW path \in Path, Quiet(path)
    PROVE  saidBelow(value, path) = {}
<1> DEFINE G == {v \in Json : \A p \in Path : Quiet(p) => saidBelow(v, p) = {}}
<1>1. ASSUME NEW v \in Json, \A y \in Json : depth[y] < depth[v] => y \in G
      PROVE  v \in G
  <2> SUFFICES ASSUME NEW p \in Path, Quiet(p) PROVE saidBelow(v, p) = {}
    OBVIOUS
  <2>1. ASSUME NEW y \in Json, depth[y] < depth[v], NEW k \in Names
        PROVE  said(y, Append(p, k)) = {}
    <3>1. Append(p, k) \in Path
      BY Below
    <3>2. Quiet(Append(p, k))
      BY AsideBelow DEF Quiet
    <3>3. saidBelow(y, Append(p, k)) = {}
      BY <1>1, <2>1, <3>1, <3>2
    <3>4. says(place(y, Append(p, k))) = {}
      BY <3>2, SaysBelow DEF Quiet
    <3> QED
      BY <3>1, <3>3, <3>4, SaidSplits
  <2>2. CASE v.type = "object"
    <3>1. \A i \in DOMAIN v.members :
              said(v.members[i].value, Append(p, v.members[i].key)) = {}
      BY <2>1, <2>2, MemberType
    <3> QED
      BY <2>2, <3>1, SaidSplits
  <2>3. CASE v.type = "array"
    <3>1. \A i \in DOMAIN v.elements : said(v.elements[i], Append(p, Index[i])) = {}
      BY <2>1, <2>3, ElementType
    <3> QED
      BY <2>3, <3>1, SaidSplits
  <2>4. CASE v.type \notin {"object", "array"}
    BY <2>4, SaidSplits
  <2> QED
    BY <2>2, <2>3, <2>4
<1>2. G \subseteq Json
  OBVIOUS
<1>3. G = Json
  <2> HIDE DEF G
  <2> QED
    BY <1>1, <1>2, JsonInduction
<1>4. value \in G
  BY <1>3
<1> QED
  BY <1>4

\* The walk for actions finds what is said below an Actions key, at every depth.
LEMMA ActionsSay ==
    ASSUME NEW value \in Json, NEW path \in Path, AmongActions(path)
    PROVE  ToSet(actions[value][path]) = saidBelow(value, path)
<1> DEFINE G == {v \in Json : \A p \in Path :
                     AmongActions(p) => ToSet(actions[v][p]) = saidBelow(v, p)}
<1>1. ASSUME NEW v \in Json, \A y \in Json : depth[y] < depth[v] => y \in G
      PROVE  v \in G
  <2> SUFFICES ASSUME NEW p \in Path, AmongActions(p)
               PROVE  ToSet(actions[v][p]) = saidBelow(v, p)
    OBVIOUS
  <2>0. Aside(p)
    BY AmongIsAside
  <2>1. actions[v][p] = actionsStep(actions, v)[p]
    BY ActionsDefined
  <2>2. CASE v.type = "object"
    <3> DEFINE links(i) == actionsUnder(v.members[i], p,
                               actions[v.members[i].value][Append(p, v.members[i].key)])
    <3>1. \A f : f \in ToSet(actions[v][p]) <=> \E i \in DOMAIN v.members : f \in ToSet(links(i))
      <4>1. actions \in [Json -> [Path -> Seq(InBody)]]
        BY ActionsDefined
      <4>2. \A f : f \in ToSet(actionsStep(actions, v)[p]) <=>
                     \E i \in DOMAIN v.members : f \in ToSet(links(i))
        BY <2>2, <4>1, ActionsStepType
      <4> HIDE DEF links
      <4> QED
        BY <2>1, <4>2
    <3>2. ToSet(actions[v][p]) = UNION {ToSet(links(i)) : i \in DOMAIN v.members}
      <4> HIDE DEF links
      <4> QED
        BY <3>1
    <3>3. ASSUME NEW i \in DOMAIN v.members
          PROVE  ToSet(links(i)) = said(v.members[i].value, Append(p, v.members[i].key))
      <4> DEFINE m == v.members[i]
                 q == Append(p, m.key)
      <4>1. /\ m.key \in Names /\ ~isIndex(m.key) /\ m.value \in Json
            /\ depth[m.value] < depth[v]
        BY <2>2, MemberType
      <4> HIDE DEF m
      <4>2. q \in Path /\ Aside(q) /\ enclosing(q) = p /\ Last(q) = m.key /\ q # <<>>
        BY <2>0, <4>1, Below, AsideBelow
      <4>3. said(m.value, q) = says(place(m.value, q)) \cup saidBelow(m.value, q)
        BY <4>1, <4>2, SaidSplits
      <4>4. CASE m.key \in ActionKeys
        <5>1. saidBelow(m.value, q) = {}
          BY <2>0, <4>1, <4>2, <4>4, AsideBelow, Silent DEF Quiet
        <5>2. ToSet(action(m.value, q)) = says(place(m.value, q))
          <6>1. ToSet(action(m.value, q)) =
                  IF m.value.type = "object" /\ last(m.value.members, "target") # NoText
                  THEN {actionLink(m.value, q)} ELSE {}
            BY <4>1, <4>2, ActionFound
          <6>2. says(place(m.value, q)) =
                  IF m.value.type = "object" /\ last(m.value.members, "target") # NoText
                  THEN {actionLink(m.value, q)} ELSE {}
            <7> HIDE DEF q
            <7> QED
              BY <4>2, <4>4 DEF says, place, IsResource, IsAction, IsURI
          <6> QED
            BY <6>1, <6>2
        <5>3. links(i) = action(m.value, q)
          BY <4>4 DEF actionsUnder, m
        <5> HIDE DEF links, q
        <5> QED
          BY <4>3, <5>1, <5>2, <5>3 DEF m, q
      <4>5. CASE m.key \notin ActionKeys
        <5>1. AmongActions(q)
          BY <4>1, <4>5, AsideBelow
        <5>2. ToSet(actions[m.value][q]) = saidBelow(m.value, q)
          BY <1>1, <4>1, <4>2, <5>1
        <5>3. says(place(m.value, q)) = {}
          BY <4>1, <4>2, <4>5, SaysBelow
        <5>4. links(i) = actions[m.value][q]
          BY <4>5 DEF actionsUnder, m
        <5> HIDE DEF links, q
        <5> QED
          BY <4>3, <5>2, <5>3, <5>4 DEF m, q
      <4> QED
        BY <4>4, <4>5
    <3> HIDE DEF links
    <3> QED
      BY <2>2, <3>2, <3>3, SaidSplits
  <2>3. CASE v.type = "array"
    <3>1. actions[v][p] = <<>>
      BY <2>1, <2>3 DEF actionsStep
    <3>2. ASSUME NEW i \in DOMAIN v.elements
          PROVE  said(v.elements[i], Append(p, Index[i])) = {}
      <4> DEFINE q == Append(p, Index[i])
      <4>1. v.elements[i] \in Json /\ Index[i] \in Names /\ isIndex(Index[i])
        BY <2>3, ElementType
      <4>2. Index[i] \notin ActionKeys
        BY <4>1, NamesAssumption
      <4>3. q \in Path /\ Aside(q) /\ Quiet(q)
        BY <2>0, <4>1, Below, AsideBelow DEF Quiet
      <4>4. says(place(v.elements[i], q)) = {}
        BY <4>1, <4>2, <4>3, SaysBelow
      <4> HIDE DEF q
      <4>5. said(v.elements[i], q) = {}
        BY <4>1, <4>3, <4>4, Silent, SaidSplits
      <4> QED
        BY <4>5 DEF q
    <3>3. saidBelow(v, p) = {}
      BY <2>3, <3>2, SaidSplits
    <3> QED
      BY <3>1, <3>3, NothingFound
  <2>4. CASE v.type \notin {"object", "array"}
    <3>1. actions[v][p] = <<>>
      BY <2>1, <2>4 DEF actionsStep
    <3> QED
      BY <2>4, <3>1, SaidSplits, NothingFound
  <2> QED
    BY <2>2, <2>3, <2>4
<1>2. G \subseteq Json
  OBVIOUS
<1>3. G = Json
  <2> HIDE DEF G
  <2> QED
    BY <1>1, <1>2, JsonInduction
<1>4. value \in G
  BY <1>3
<1> QED
  BY <1>4

\* The walk finds what is said at and below a place, filed where the place is.
LEMMA WalkSays ==
    ASSUME NEW value \in Json, NEW path \in Path, ~Aside(path)
    PROVE  ToSet(walk[value][path]) = said(value, path)
<1> DEFINE G == {v \in Json : \A p \in Path :
                     ~Aside(p) => ToSet(walk[v][p]) = said(v, p)}
<1>1. ASSUME NEW v \in Json, \A y \in Json : depth[y] < depth[v] => y \in G
      PROVE  v \in G
  <2> SUFFICES ASSUME NEW p \in Path, ~Aside(p)
               PROVE  ToSet(walk[v][p]) = said(v, p)
    OBVIOUS
  <2>0. ~AmongActions(p)
    BY AmongIsAside
  <2>1. walk[v][p] = walkStep(walk, v)[p]
    BY WalkDefined
  <2>2. p # <<>> => ~AmongActions(enclosing(p))
    <3> SUFFICES ASSUME p # <<>>, Aside(enclosing(p)) PROVE FALSE
      BY AmongIsAside
    <3>1. Len(p) \in Nat /\ DOMAIN p = 1..Len(p) /\ Len(p) > 0
      BY DEF Path
    <3>2. PICK j \in DOMAIN enclosing(p) : enclosing(p)[j] \in AsideKeys
      BY DEF Aside, crosses
    <3>3. j \in DOMAIN p /\ p[j] = enclosing(p)[j]
      BY <3>1, <3>2 DEF enclosing, Path
    <3> QED
      BY <3>2, <3>3 DEF Aside, crosses
  <2>3. CASE v.type = "object"
    <3> DEFINE links(i) == memberStep(walk, v.members[i], p)
    <3>1. \A f : f \in ToSet(walk[v][p]) <=>
              \/ f \in ToSet(selfOrLink(v.members, p))
              \/ \E i \in DOMAIN v.members : f \in ToSet(links(i))
      <4>1. walk \in [Json -> [Path -> Seq(InBody)]]
        BY WalkDefined
      <4>2. \A f : f \in ToSet(walkStep(walk, v)[p]) <=>
                \/ f \in ToSet(selfOrLink(v.members, p))
                \/ \E i \in DOMAIN v.members : f \in ToSet(links(i))
        BY <2>3, <4>1, WalkObject
      <4> HIDE DEF links
      <4> QED
        BY <2>1, <4>2
    <3>2. ToSet(walk[v][p]) =
              ToSet(selfOrLink(v.members, p)) \cup
              UNION {ToSet(links(i)) : i \in DOMAIN v.members}
      <4> HIDE DEF links
      <4> QED
        BY <3>1
    <3>3. ASSUME NEW i \in DOMAIN v.members
          PROVE  ToSet(links(i)) = said(v.members[i].value, Append(p, v.members[i].key))
      <4> DEFINE m == v.members[i]
                 q == Append(p, m.key)
      <4>1. m.key \in Names /\ m.value \in Json /\ depth[m.value] < depth[v]
        BY <2>3, MemberType
      <4> HIDE DEF m
      <4>2. q \in Path
        BY <4>1, Below
      <4>3. said(m.value, q) = says(place(m.value, q)) \cup saidBelow(m.value, q)
        BY <4>1, <4>2, SaidSplits
      <4>4. CASE m.key \in Passed
        <5>1. Aside(q) /\ Quiet(q)
          BY <2>0, <4>1, <4>4, AsideBelow DEF Quiet, Passed, AsideKeys
        <5>2. says(place(m.value, q)) = {}
          BY <2>0, <4>1, <5>1, SaysBelow
        <5>3. saidBelow(m.value, q) = {}
          BY <4>1, <4>2, <5>1, Silent
        <5>4. links(i) = <<>>
          BY <4>4 DEF memberStep, m, Passed
        <5> HIDE DEF links, q
        <5> QED
          BY <4>3, <5>2, <5>3, <5>4, NothingFound DEF m, q
      <4>5. CASE m.key = "Actions"
        <5>1. Aside(q) /\ AmongActions(q)
          BY <4>1, <4>5, AsideBelow DEF AsideKeys
        <5>2. ToSet(actions[m.value][q]) = saidBelow(m.value, q)
          BY <4>1, <4>2, <5>1, ActionsSay
        <5>3. says(place(m.value, q)) = {}
          BY <2>0, <4>1, <5>1, SaysBelow
        <5>4. links(i) = actions[m.value][q]
          BY <4>5 DEF memberStep, m, Passed
        <5> HIDE DEF links, q
        <5> QED
          BY <4>3, <5>2, <5>3, <5>4 DEF m, q
      <4>6. CASE m.key \notin Passed /\ m.key # "Actions"
        <5>1. ~Aside(q)
          BY <4>1, <4>6, AsideBelow DEF AsideKeys, Passed
        <5>2. ToSet(walk[m.value][q]) = said(m.value, q)
          BY <1>1, <4>1, <4>2, <5>1
        <5>3. links(i) = walk[m.value][q]
          BY <4>6 DEF memberStep, m
        <5> HIDE DEF links, q
        <5> QED
          BY <5>2, <5>3 DEF m, q
      <4> QED
        BY <4>4, <4>5, <4>6
    <3>4. ToSet(selfOrLink(v.members, p)) = says(place(v, p))
      <4>1. ToSet(selfOrLink(v.members, p)) =
                  IF p # <<>> /\ first(v.members, "@odata.id") # NoText
                  THEN {resourceLink(v, p)} ELSE {}
        BY <2>3, SelfOrLink
      <4>2. says(place(v, p)) =
                  IF p # <<>> /\ first(v.members, "@odata.id") # NoText
                  THEN {resourceLink(v, p)} ELSE {}
        BY <2>2, <2>3 DEF says, place, IsResource, IsAction, IsURI
      <4> QED
        BY <4>1, <4>2
    <3> HIDE DEF links
    <3> QED
      BY <2>3, <3>2, <3>3, <3>4, SaidSplits
  <2>4. CASE v.type = "array"
    <3> DEFINE links(i) == walk[v.elements[i]][Append(p, Index[i])]
    <3>1. \A f : f \in ToSet(walk[v][p]) <=>
              \E i \in DOMAIN v.elements : f \in ToSet(links(i))
      <4>1. walk \in [Json -> [Path -> Seq(InBody)]]
        BY WalkDefined
      <4>2. \A f : f \in ToSet(walkStep(walk, v)[p]) <=>
                \E i \in DOMAIN v.elements : f \in ToSet(links(i))
        BY <2>4, <4>1, WalkArray
      <4> HIDE DEF links
      <4> QED
        BY <2>1, <4>2
    <3>2. ToSet(walk[v][p]) = UNION {ToSet(links(i)) : i \in DOMAIN v.elements}
      <4> HIDE DEF links
      <4> QED
        BY <3>1
    <3>3. ASSUME NEW i \in DOMAIN v.elements
          PROVE  ToSet(links(i)) = said(v.elements[i], Append(p, Index[i]))
      <4>1. /\ v.elements[i] \in Json /\ Index[i] \in Names /\ isIndex(Index[i])
            /\ depth[v.elements[i]] < depth[v]
        BY <2>4, ElementType
      <4>2. Index[i] \notin AsideKeys
        BY <4>1, NamesAssumption DEF AsideKeys
      <4>3. Append(p, Index[i]) \in Path /\ ~Aside(Append(p, Index[i]))
        BY <4>1, <4>2, Below, AsideBelow
      <4> QED
        BY <1>1, <4>1, <4>3
    <3>4. says(place(v, p)) = {}
      BY <2>2, <2>4 DEF says, place, IsResource, IsAction, IsURI
    <3> HIDE DEF links
    <3> QED
      BY <2>4, <3>2, <3>3, <3>4, SaidSplits
  <2>5. CASE v.type = "string"
    <3>1. walk[v][p] = pathLikeString(v.text, p)
      BY <2>1, <2>5 DEF walkStep
    <3>3. ToSet(walk[v][p]) = IF IsResourcePath(v.text) THEN {uriLink(v, p)} ELSE {}
      BY <2>5, <3>1, PathLikeString
    <3>4. says(place(v, p)) = IF IsResourcePath(v.text) THEN {uriLink(v, p)} ELSE {}
      BY <2>2, <2>5 DEF says, place, IsResource, IsAction, IsURI
    <3> QED
      BY <2>5, <3>3, <3>4, SaidSplits
  <2>6. CASE v.type \notin {"object", "array", "string"}
    <3>1. walk[v][p] = <<>>
      BY <2>1, <2>6 DEF walkStep
    <3>2. says(place(v, p)) = {}
      BY <2>2, <2>6 DEF says, place, IsResource, IsAction, IsURI
    <3> QED
      BY <2>6, <3>1, <3>2, SaidSplits, NothingFound
  <2> QED
    BY <2>3, <2>4, <2>5, <2>6
<1>2. G \subseteq Json
  OBVIOUS
<1>3. G = Json
  <2> HIDE DEF G
  <2> QED
    BY <1>1, <1>2, JsonInduction
<1>4. value \in G
  BY <1>3
<1> QED
  BY <1>4

-----------------------------------------------------------------------------
(* The document turned around.                                             *)

\* A value below a place is below one of its members or elements.
LEMMA ValuesSplit ==
    ASSUME NEW value \in Json, NEW path \in Path, NEW v
    PROVE  v \in Values[value][path] <=>
               \/ v = place(value, path)
               \/ /\ value.type = "object"
                  /\ \E i \in DOMAIN value.members :
                         v \in Values[value.members[i].value]
                                     [Append(path, value.members[i].key)]
               \/ /\ value.type = "array"
                  /\ \E i \in DOMAIN value.elements :
                         v \in Values[value.elements[i]][Append(path, Index[i])]
<1>1. v \in Values[value][path] <=> v = place(value, path) \/ v \in beneath(Values, value, path)
  BY ValuesDefined DEF place
<1>2. CASE value.type = "object"
  BY <1>1, <1>2 DEF beneath
<1>3. CASE value.type = "array"
  BY <1>1, <1>3 DEF beneath
<1>4. CASE value.type \notin {"object", "array"}
  BY <1>1, <1>4 DEF beneath
<1> QED
  BY <1>2, <1>3, <1>4

\* One path leads through another.
PassesThrough(path, q) == Len(path) <= Len(q) /\ \A i \in 1..Len(path) : q[i] = path[i]

\* A path that leads through a longer one leads through it, and on.
LEMMA LeadsOn ==
    ASSUME NEW path \in Path, NEW k \in Names, NEW q \in Path, PassesThrough(Append(path, k), q)
    PROVE  PassesThrough(path, q) /\ Len(path) < Len(q) /\ q[Len(path) + 1] = k
<1> DEFINE p == Append(path, k)
           N == Len(path)
<1>1. /\ N \in Nat /\ Len(p) = N + 1 /\ p[N + 1] = k
      /\ \A i \in 1..N : p[i] = path[i]
  BY DEF Path
<1>2. Len(q) \in Nat
  BY DEF Path
<1> HIDE DEF p
<1> QED
  BY <1>1, <1>2 DEF PassesThrough, p

\* The path of what is below a place leads through it.
LEMMA ValuesLead ==
    ASSUME NEW value \in Json, NEW path \in Path, NEW v \in Values[value][path]
    PROVE  v.at \in Path /\ v.value \in Json /\ PassesThrough(path, v.at)
<1> DEFINE G == {x \in Json : \A p \in Path : \A w \in Values[x][p] : PassesThrough(p, w.at)}
<1>0. \A x \in Json : \A p \in Path : \A w \in Values[x][p] : w.at \in Path /\ w.value \in Json
  BY ValuesDefined DEF Place
<1>1. ASSUME NEW x \in Json, \A y \in Json : depth[y] < depth[x] => y \in G
      PROVE  x \in G
  <2> SUFFICES ASSUME NEW p \in Path, NEW w \in Values[x][p] PROVE PassesThrough(p, w.at)
    OBVIOUS
  <2>1. ASSUME NEW y \in Json, depth[y] < depth[x], NEW k \in Names,
               w \in Values[y][Append(p, k)]
        PROVE  PassesThrough(p, w.at)
    <3>1. Append(p, k) \in Path
      BY Below
    <3>2. PassesThrough(Append(p, k), w.at)
      BY <1>1, <2>1, <3>1
    <3>3. w.at \in Path
      BY <1>0
    <3> QED
      BY <3>2, <3>3, LeadsOn
  <2>2. CASE w = place(x, p)
    <3>1. Len(p) \in Nat
      BY DEF Path
    <3> QED
      BY <2>2, <3>1 DEF place, PassesThrough
  <2>3. CASE x.type = "object" /\ \E i \in DOMAIN x.members :
                 w \in Values[x.members[i].value][Append(p, x.members[i].key)]
    BY <2>1, <2>3, MemberType
  <2>4. CASE x.type = "array" /\ \E i \in DOMAIN x.elements :
                 w \in Values[x.elements[i]][Append(p, Index[i])]
    BY <2>1, <2>4, ElementType
  <2> QED
    BY <2>2, <2>3, <2>4, ValuesSplit
<1>2. G \subseteq Json
  OBVIOUS
<1>3. G = Json
  <2> HIDE DEF G
  <2> QED
    BY <1>1, <1>2, JsonInduction
<1> QED
  BY <1>0, <1>3

\* A path leads to one value, if no object has a key twice.
LEMMA PlacesApart ==
    ASSUME NEW value \in Json, NEW path \in Path,
           \A v \in Values[value][path] : KeysDiffer(v.value),
           NEW v \in Values[value][path], NEW w \in Values[value][path], v.at = w.at
    PROVE  v = w
<1> DEFINE Clear(x, p) == \A u \in Values[x][p] : KeysDiffer(u.value)
           Single(x, p) == \A t, u \in Values[x][p] : t.at = u.at => t = u
           G == {x \in Json : \A p \in Path : Clear(x, p) => Single(x, p)}
<1>1. ASSUME NEW x \in Json, \A y \in Json : depth[y] < depth[x] => y \in G
      PROVE  x \in G
  <2> SUFFICES ASSUME NEW p \in Path, Clear(x, p), NEW t \in Values[x][p],
                      NEW u \in Values[x][p], t.at = u.at
               PROVE  t = u
    OBVIOUS
  <2>0. Len(p) \in Nat /\ t.at \in Path /\ u.at \in Path
    BY ValuesLead DEF Path
  <2>1. ASSUME NEW y \in Json, NEW k \in Names, NEW s \in Values[y][Append(p, k)]
        PROVE  Len(p) < Len(s.at) /\ s.at[Len(p) + 1] = k
    <3>1. Append(p, k) \in Path
      BY Below
    <3>2. s.at \in Path /\ PassesThrough(Append(p, k), s.at)
      BY <3>1, ValuesLead
    <3> QED
      BY <3>2, LeadsOn
  <2>2. ASSUME NEW y \in Json, depth[y] < depth[x], NEW k \in Names,
               t \in Values[y][Append(p, k)], u \in Values[y][Append(p, k)],
               \A s \in Values[y][Append(p, k)] : s \in Values[x][p]
        PROVE  t = u
    <3>1. Append(p, k) \in Path
      BY Below
    <3>2. Clear(y, Append(p, k))
      BY <2>2
    <3> QED
      BY <1>1, <2>2, <3>1, <3>2
  <2>3. CASE x.type = "object"
    <3> DEFINE In(s, i) == s \in Values[x.members[i].value][Append(p, x.members[i].key)]
    <3>1. \A s : s \in Values[x][p] <=> s = place(x, p) \/ \E i \in DOMAIN x.members : In(s, i)
      BY <2>3, ValuesSplit
    <3>2. KeysDiffer(x)
      <4>1. place(x, p) \in Values[x][p]
        BY <3>1
      <4>2. KeysDiffer(place(x, p).value)
        BY <4>1
      <4> QED
        BY <4>2 DEF place
    <3>3. ASSUME NEW s \in Values[x][p], NEW i \in DOMAIN x.members, In(s, i)
          PROVE  Len(p) < Len(s.at) /\ s.at[Len(p) + 1] = x.members[i].key
      BY <2>1, <2>3, <3>3, MemberType
    <3>4. ASSUME NEW i \in DOMAIN x.members, NEW j \in DOMAIN x.members, In(t, i), In(u, j)
          PROVE  t = u
      <4>1. x.members[i].key = x.members[j].key
        BY <3>3, <3>4
      <4>2. i = j
        BY <2>3, <3>2, <4>1 DEF KeysDiffer
      <4>3. /\ x.members[i].key \in Names /\ x.members[i].value \in Json
            /\ depth[x.members[i].value] < depth[x]
        BY <2>3, MemberType
      <4>4. \A s \in Values[x.members[i].value][Append(p, x.members[i].key)] : s \in Values[x][p]
        BY <3>1
      <4> QED
        BY <2>2, <3>4, <4>2, <4>3, <4>4
    <3>5. ASSUME NEW s \in Values[x][p], NEW i \in DOMAIN x.members, In(s, i), s.at = p
          PROVE  FALSE
      BY <2>0, <3>3, <3>5
    <3>6. place(x, p).at = p
      BY DEF place
    <3> HIDE DEF In
    <3> QED
      BY <3>1, <3>4, <3>5, <3>6
  <2>4. CASE x.type = "array"
    <3> DEFINE In(s, i) == s \in Values[x.elements[i]][Append(p, Index[i])]
    <3>1. \A s : s \in Values[x][p] <=> s = place(x, p) \/ \E i \in DOMAIN x.elements : In(s, i)
      BY <2>4, ValuesSplit
    <3>3. ASSUME NEW s \in Values[x][p], NEW i \in DOMAIN x.elements, In(s, i)
          PROVE  Len(p) < Len(s.at) /\ s.at[Len(p) + 1] = Index[i]
      BY <2>1, <2>4, <3>3, ElementType
    <3>4. ASSUME NEW i \in DOMAIN x.elements, NEW j \in DOMAIN x.elements, In(t, i), In(u, j)
          PROVE  t = u
      <4>1. Index[i] = Index[j]
        BY <3>3, <3>4
      <4>2. i = j
        <5>1. /\ Len(x.elements) \in Nat /\ DOMAIN x.elements = 1..Len(x.elements)
              /\ Len(x.elements) <= Len(Index)
          BY <2>4, ElementType, JsonAssumption
        <5>2. Len(Index) \in Nat /\ DOMAIN Index = 1..Len(Index)
          BY NamesAssumption, Elements
        <5>3. i \in DOMAIN Index /\ j \in DOMAIN Index
          BY <5>1, <5>2
        <5> QED
          BY <4>1, <5>3, NamesAssumption
      <4>3. /\ Index[i] \in Names /\ x.elements[i] \in Json
            /\ depth[x.elements[i]] < depth[x]
        BY <2>4, ElementType
      <4>4. \A s \in Values[x.elements[i]][Append(p, Index[i])] : s \in Values[x][p]
        BY <3>1
      <4> QED
        BY <2>2, <3>4, <4>2, <4>3, <4>4
    <3>5. ASSUME NEW s \in Values[x][p], NEW i \in DOMAIN x.elements, In(s, i), s.at = p
          PROVE  FALSE
      BY <2>0, <3>3, <3>5
    <3>6. place(x, p).at = p
      BY DEF place
    <3> HIDE DEF In
    <3> QED
      BY <3>1, <3>4, <3>5, <3>6
  <2>5. CASE x.type \notin {"object", "array"}
    BY <2>5, ValuesSplit
  <2> QED
    BY <2>3, <2>4, <2>5
<1>2. G \subseteq Json
  OBVIOUS
<1>3. G = Json
  <2> HIDE DEF G
  <2> QED
    BY <1>1, <1>2, JsonInduction
<1>4. Clear(value, path) => Single(value, path)
  BY <1>3
<1> QED
  BY <1>4

\* The turned document, by its type.
LEMMA Turned ==
    ASSUME NEW value \in Json
    PROVE  /\ turned[value] \in Json /\ turned[value].type = value.type
           /\ value.type = "object" =>
                  LET N == Len(value.members)
                      ms == turned[value].members
                  IN  /\ DOMAIN ms = 1..N
                      /\ \A i \in 1..N :
                             /\ N - i + 1 \in 1..N
                             /\ ms[i].key = value.members[N - i + 1].key
                             /\ ms[i].value = turned[value.members[N - i + 1].value]
           /\ value.type = "array" =>
                  /\ DOMAIN turned[value].elements = DOMAIN value.elements
                  /\ \A i \in DOMAIN value.elements :
                         turned[value].elements[i] = turned[value.elements[i]]
           /\ value.type \notin {"object", "array"} => turned[value] = value
<1>1. turned[value] \in Json
  BY TurnedAssumption
<1>2. CASE value.type = "object"
  <2> DEFINE N == Len(value.members)
             s == [i \in DOMAIN value.members |->
                       member(value.members[i].key, turned[value.members[i].value])]
  <2>1. N \in Nat /\ DOMAIN value.members = 1..N
    BY <1>2, MemberType
  <2>2. turned[value] = object(Reverse(s))
    BY <1>2, TurnedAssumption
  <2>3. DOMAIN s = 1..N /\ Len(s) = N
    BY <2>1
  <2>4. \A i \in 1..N : /\ s[i].key = value.members[i].key
                        /\ s[i].value = turned[value.members[i].value]
    BY <2>1 DEF member
  <2> HIDE DEF s, N
  <2>5. \A i \in 1..N : N - i + 1 \in 1..N
    BY <2>1
  <2>6. turned[value].type = "object" /\ turned[value].members = [i \in 1..N |-> s[(N - i) + 1]]
    BY <2>2, <2>3 DEF object, Reverse
  <2>7. \A i \in 1..N : /\ N - i + 1 \in 1..N
                        /\ turned[value].members[i].key = value.members[N - i + 1].key
                        /\ turned[value].members[i].value = turned[value.members[N - i + 1].value]
    BY <2>4, <2>5, <2>6
  <2> QED
    BY <1>1, <1>2, <2>6, <2>7 DEF N
<1>3. CASE value.type = "array"
  <2>1. turned[value] = array([i \in DOMAIN value.elements |-> turned[value.elements[i]]])
    BY <1>3, TurnedAssumption
  <2> QED
    BY <1>1, <1>3, <2>1 DEF array
<1>4. CASE value.type \notin {"object", "array"}
  <2>1. turned[value] = value
    BY <1>4, TurnedAssumption
  <2> QED
    BY <1>1, <1>4, <2>1
<1> QED
  BY <1>2, <1>3, <1>4

\* A string says the same turned around.
LEMMA TurnedString ==
    ASSUME NEW value \in Json
    PROVE  stringValue(turned[value]) = stringValue(value)
BY Turned DEF stringValue

\* Where no key is written twice, the first with a key and the last are the same.
LEMMA TurnedMember ==
    ASSUME NEW value \in Json, value.type = "object", KeysDiffer(value), NEW key
    PROVE  /\ first(turned[value].members, key) = first(value.members, key)
           /\ last(turned[value].members, key) = last(value.members, key)
<1> DEFINE N == Len(value.members)
           ms == value.members
           ts == turned[value].members
<1>1. N \in Nat /\ DOMAIN ms = 1..N /\ DOMAIN ts = 1..N
  BY MemberType, Turned
<1>2. \A i \in 1..N : /\ N - i + 1 \in 1..N
                      /\ ts[i].key = ms[N - i + 1].key
                      /\ ts[i].value = turned[ms[N - i + 1].value]
                      /\ ms[i].value \in Json
  BY MemberType, Turned
<1>3. \A i, j \in 1..N : ms[i].key = ms[j].key => i = j
  BY <1>1 DEF KeysDiffer
<1> HIDE DEF N, ms, ts
<1>4. ASSUME NEW x \in 1..N PROVE Min({x}) = x /\ Max({x}) = x
  <2>1. {x} \in SUBSET (1..N) /\ {x} # {}
    OBVIOUS
  <2>2. Min({x}) \in {x} /\ Max({x}) \in {x}
    BY <1>1, <2>1, MinMax
  <2> QED
    BY <2>2
<1>5. CASE \E x \in 1..N : ms[x].key = key
  <2>1. PICK x \in 1..N : ms[x].key = key
    BY <1>5
  <2> DEFINE y == N - x + 1
  <2>2. y \in 1..N /\ N - y + 1 = x
    BY <1>1
  <2> HIDE DEF y
  <2>3. under(ms, key) = {x}
    BY <1>1, <1>3, <2>1 DEF under
  <2>4. ts[y].key = key /\ ts[y].value = turned[ms[x].value]
    BY <1>2, <2>1, <2>2
  <2>5. ASSUME NEW j \in 1..N, ts[j].key = key PROVE j = y
    <3>1. N - j + 1 = x
      BY <1>2, <1>3, <2>1, <2>5
    <3> QED
      BY <1>1, <3>1 DEF y
  <2>6. under(ts, key) = {y}
    BY <1>1, <2>2, <2>4, <2>5 DEF under
  <2>7. /\ first(ms, key) = stringValue(ms[x].value) /\ last(ms, key) = stringValue(ms[x].value)
        /\ first(ts, key) = stringValue(ts[y].value) /\ last(ts, key) = stringValue(ts[y].value)
    BY <1>4, <2>2, <2>3, <2>6 DEF first, last
  <2>8. stringValue(ts[y].value) = stringValue(ms[x].value)
    BY <1>2, <2>4, TurnedString
  <2> QED
    BY <2>7, <2>8 DEF ms, ts
<1>6. CASE \A x \in 1..N : ms[x].key # key
  <2>1. under(ms, key) = {} /\ under(ts, key) = {}
    BY <1>1, <1>2, <1>6 DEF under
  <2> QED
    BY <2>1 DEF first, last, ms, ts
<1> QED
  BY <1>5, <1>6

\* A place says the same, whichever way its document is written.
LEMMA TurnedSays ==
    ASSUME NEW value \in Json, KeysDiffer(value), NEW path \in Path
    PROVE  says(place(turned[value], path)) = says(place(value, path))
<1>1. turned[value].type = value.type
  BY Turned
<1>2. CASE value.type = "object"
  <2> DEFINE v == place(value, path)
             t == place(turned[value], path)
  <2>1. \A key : /\ first(t.value.members, key) = first(v.value.members, key)
                 /\ last(t.value.members, key) = last(v.value.members, key)
    BY <1>2, TurnedMember DEF place
  <2>2. /\ v.value.type = "object" /\ t.value.type = "object"
        /\ v.at = path /\ t.at = path
    BY <1>1, <1>2 DEF place
  <2> HIDE DEF v, t
  <2>3. /\ IsResource(t) <=> IsResource(v)
        /\ IsAction(t) <=> IsAction(v)
        /\ ~IsURI(t) /\ ~IsURI(v)
    BY <2>1, <2>2 DEF IsResource, IsAction, IsURI
  <2>4. /\ resourceLink(t.value, t.at) = resourceLink(v.value, v.at)
        /\ actionLink(t.value, t.at) = actionLink(v.value, v.at)
    BY <2>1, <2>2 DEF resourceLink, actionLink
  <2>5. says(t) = says(v)
    BY <2>3, <2>4 DEF says
  <2> QED
    BY <2>5 DEF t, v
<1>3. CASE value.type = "array"
  BY <1>1, <1>3 DEF says, place, IsResource, IsAction, IsURI
<1>4. CASE value.type \notin {"object", "array"}
  BY <1>4, Turned
<1> QED
  BY <1>2, <1>3, <1>4

\* So does the document.
LEMMA TurnedSaid ==
    ASSUME NEW value \in Json, NEW path \in Path,
           \A v \in Values[value][path] : KeysDiffer(v.value)
    PROVE  said(turned[value], path) = said(value, path)
<1> DEFINE Clear(x, p) == \A u \in Values[x][p] : KeysDiffer(u.value)
           G == {x \in Json : \A p \in Path :
                     Clear(x, p) => said(turned[x], p) = said(x, p)}
<1>1. ASSUME NEW x \in Json, \A y \in Json : depth[y] < depth[x] => y \in G
      PROVE  x \in G
  <2> SUFFICES ASSUME NEW p \in Path, Clear(x, p) PROVE said(turned[x], p) = said(x, p)
    OBVIOUS
  <2>1. KeysDiffer(x)
    <3>1. place(x, p) \in Values[x][p]
      BY ValuesSplit
    <3>2. KeysDiffer(place(x, p).value)
      BY <3>1
    <3> QED
      BY <3>2 DEF place
  <2>2. turned[x] \in Json /\ turned[x].type = x.type
    BY Turned
  <2>3. says(place(turned[x], p)) = says(place(x, p))
    BY <2>1, TurnedSays
  <2>4. ASSUME NEW y \in Json, depth[y] < depth[x], NEW k \in Names,
               \A s \in Values[y][Append(p, k)] : s \in Values[x][p]
        PROVE  said(turned[y], Append(p, k)) = said(y, Append(p, k))
    <3>1. Append(p, k) \in Path
      BY Below
    <3>2. Clear(y, Append(p, k))
      BY <2>4
    <3> QED
      BY <1>1, <2>4, <3>1, <3>2
  <2>5. CASE x.type = "object"
    <3> DEFINE N == Len(x.members)
               ms == x.members
               ts == turned[x].members
               of(i) == said(ms[i].value, Append(p, ms[i].key))
               turnedOf(i) == said(ts[i].value, Append(p, ts[i].key))
    <3>1. N \in Nat /\ DOMAIN ms = 1..N /\ DOMAIN ts = 1..N
      BY <2>5, MemberType, Turned
    <3>2. \A i \in 1..N : /\ N - i + 1 \in 1..N
                          /\ ts[i].key = ms[N - i + 1].key
                          /\ ts[i].value = turned[ms[N - i + 1].value]
      BY <2>5, Turned
    <3>3. saidBelow(x, p) = UNION {of(i) : i \in 1..N}
      BY <2>5, <3>1, SaidSplits
    <3>4. saidBelow(turned[x], p) = UNION {turnedOf(i) : i \in 1..N}
      BY <2>2, <2>5, <3>1, SaidSplits
    <3>5. ASSUME NEW i \in 1..N
          PROVE  said(turned[ms[i].value], Append(p, ms[i].key)) = of(i)
      <4>1. /\ ms[i].key \in Names /\ ms[i].value \in Json /\ depth[ms[i].value] < depth[x]
        BY <2>5, <3>1, MemberType
      <4>2. \A s \in Values[ms[i].value][Append(p, ms[i].key)] : s \in Values[x][p]
        BY <2>5, <3>1, ValuesSplit
      <4> QED
        BY <2>4, <4>1, <4>2
    <3>6. \A i \in 1..N : turnedOf(i) = of(N - i + 1)
      BY <3>2, <3>5
    <3>7. \A i \in 1..N : N - (N - i + 1) + 1 = i
      BY <3>1
    <3> HIDE DEF of, turnedOf, N, ms, ts
    <3>8. UNION {turnedOf(i) : i \in 1..N} = UNION {of(i) : i \in 1..N}
      <4>1. ASSUME NEW i \in 1..N PROVE turnedOf(i) \subseteq UNION {of(j) : j \in 1..N}
        BY <3>2, <3>6
      <4>2. ASSUME NEW i \in 1..N PROVE of(i) \subseteq UNION {turnedOf(j) : j \in 1..N}
        <5>1. N - i + 1 \in 1..N /\ turnedOf(N - i + 1) = of(i)
          BY <3>2, <3>6, <3>7
        <5> QED
          BY <5>1
      <4> QED
        BY <4>1, <4>2
    <3>9. saidBelow(turned[x], p) = saidBelow(x, p)
      BY <3>3, <3>4, <3>8
    <3> QED
      BY <2>2, <2>3, <3>9, SaidSplits
  <2>6. CASE x.type = "array"
    <3> DEFINE es == x.elements
               ts == turned[x].elements
               of(i) == said(es[i], Append(p, Index[i]))
               turnedOf(i) == said(ts[i], Append(p, Index[i]))
    <3>1. DOMAIN ts = DOMAIN es /\ \A i \in DOMAIN es : ts[i] = turned[es[i]]
      BY <2>6, Turned
    <3>2. saidBelow(x, p) = UNION {of(i) : i \in DOMAIN es}
      BY <2>6, SaidSplits
    <3>3. saidBelow(turned[x], p) = UNION {turnedOf(i) : i \in DOMAIN es}
      BY <2>2, <2>6, <3>1, SaidSplits
    <3>4. ASSUME NEW i \in DOMAIN es PROVE turnedOf(i) = of(i)
      <4>1. /\ Index[i] \in Names /\ es[i] \in Json /\ depth[es[i]] < depth[x]
        BY <2>6, ElementType
      <4>2. \A s \in Values[es[i]][Append(p, Index[i])] : s \in Values[x][p]
        BY <2>6, ValuesSplit
      <4> QED
        BY <2>4, <3>1, <4>1, <4>2
    <3> HIDE DEF of, turnedOf, es, ts
    <3>5. saidBelow(turned[x], p) = saidBelow(x, p)
      BY <3>2, <3>3, <3>4
    <3> QED
      BY <2>2, <2>3, <3>5, SaidSplits
  <2>7. CASE x.type \notin {"object", "array"}
    BY <2>7, Turned
  <2> QED
    BY <2>5, <2>6, <2>7
<1>2. G \subseteq Json
  OBVIOUS
<1>3. G = Json
  <2> HIDE DEF G
  <2> QED
    BY <1>1, <1>2, JsonInduction
<1>4. Clear(value, path) => said(turned[value], path) = said(value, path)
  BY <1>3
<1> QED
  BY <1>4

-----------------------------------------------------------------------------
(* What the walk for vendor schemas finds.                                 *)

\* One step of collectOEMTypes.
typesStep(g, value) ==
    [where \in BOOLEAN |->
        CASE value.type = "object" ->
                 UNION {LET m == value.members[i]
                        IN  IF m.key = "@odata.type" /\ where
                            THEN {stringValue(m.value)} \ {NoText}
                            ELSE g[m.value][below(where, m.key)] :
                            i \in DOMAIN value.members}
          [] value.type = "array" ->
                 UNION {g[value.elements[i]][where] : i \in DOMAIN value.elements}
          [] OTHER -> {}]

\* collectOEMTypes is what its equation says.
LEMMA TypesDefined ==
    \A value \in Json : collectOEMTypes[value] = typesStep(collectOEMTypes, value)
<1> DEFINE V == [BOOLEAN -> SUBSET Target]
           F == [g \in [Json -> V] |-> [value \in Json |-> typesStep(g, value)]]
<1>1. ASSUME NEW g \in [Json -> V], NEW value \in Json PROVE typesStep(g, value) \in V
  <2>1. ASSUME NEW where \in BOOLEAN PROVE typesStep(g, value)[where] \in SUBSET Target
    <3>1. CASE value.type = "object"
      <4>1. ASSUME NEW i \in DOMAIN value.members
            PROVE  /\ stringValue(value.members[i].value) \in Target
                   /\ g[value.members[i].value][below(where, value.members[i].key)]
                          \in SUBSET Target
        <5>1. value.members[i].value \in Json /\ below(where, value.members[i].key) \in BOOLEAN
          BY <3>1, MemberType DEF below
        <5> QED
          BY <5>1, StringType
      <4> QED
        BY <3>1, <4>1 DEF typesStep
    <3>2. CASE value.type = "array"
      BY <3>2, ElementType DEF typesStep
    <3>3. CASE value.type \notin {"object", "array"}
      BY <3>3 DEF typesStep
    <3> QED
      BY <3>1, <3>2, <3>3
  <2> QED
    BY <2>1 DEF typesStep
<1>2. ASSUME NEW g, NEW h, NEW value \in Json,
             \A y \in Json : depth[y] < depth[value] => g[y] = h[y]
      PROVE  typesStep(g, value) = typesStep(h, value)
  <2>1. CASE value.type = "object"
    <3>1. \A i \in DOMAIN value.members : g[value.members[i].value] = h[value.members[i].value]
      BY <1>2, <2>1, MemberType
    <3> QED
      BY <2>1, <3>1 DEF typesStep
  <2>2. CASE value.type = "array"
    <3>1. \A i \in DOMAIN value.elements : g[value.elements[i]] = h[value.elements[i]]
      BY <1>2, <2>2, ElementType
    <3> QED
      BY <2>2, <3>1 DEF typesStep
  <2>3. CASE value.type \notin {"object", "array"}
    BY <2>3 DEF typesStep
  <2> QED
    BY <2>1, <2>2, <2>3
<1>3. F \in [[Json -> V] -> [Json -> V]]
  <2> HIDE DEF V
  <2> QED
    BY <1>1
<1>4. GoesDown(F, Json, V, depth)
  <2>1. depth \in [Json -> Nat]
    BY JsonAssumption
  <2>2. \A g, h \in [Json -> V] : \A x \in Json :
           (\A y \in Json : depth[y] < depth[x] => g[y] = h[y]) => F[g][x] = F[h][x]
    <3> HIDE DEF V
    <3> QED
      BY <1>2
  <2> HIDE DEF V, F
  <2> QED
    BY <1>3, <2>1, <2>2 DEF GoesDown
<1>5. V # {}
  <2>1. [where \in BOOLEAN |-> {}] \in V
    OBVIOUS
  <2> QED
    BY <2>1
<1>6. PICK f \in [Json -> V] : F[f] = f
  <2> HIDE DEF V, F
  <2> QED
    BY <1>4, <1>5, Recursion
<1>7. f = [value \in Json |-> typesStep(f, value)]
  <2> HIDE DEF V
  <2> QED
    BY <1>6
<1>8. collectOEMTypes = CHOOSE g : g = [value \in Json |-> typesStep(g, value)]
  BY DEF collectOEMTypes, typesStep
<1>9. collectOEMTypes = [value \in Json |-> typesStep(collectOEMTypes, value)]
  <2> HIDE DEF V, F
  <2> QED
    BY <1>7, <1>8
<1> DEFINE a == collectOEMTypes
<1>10. a = [value \in Json |-> typesStep(a, value)]
  BY <1>9
<1> HIDE DEF a
<1>11. \A value \in Json : a[value] = typesStep(a, value)
  BY <1>10
<1> QED
  BY <1>11 DEF a

-----------------------------------------------------------------------------
\* Nothing of a vendor's yet; and below the outermost Oem, past no @odata.type since.
Outside(path) == ~crosses(path, {"Oem"})

InVendor(path) ==
    \E i \in 1..Len(path) :
        /\ path[i] = "Oem"
        /\ \A j \in 1..(i - 1) : path[j] # "Oem"
        /\ \A j \in (i + 1)..Len(path) : path[j] # "@odata.type"

\* What is the vendor's, one step further down.
LEMMA VendorBelow ==
    ASSUME NEW path \in Path, NEW k \in Names
    PROVE  /\ Outside(Append(path, k)) <=> Outside(path) /\ k # "Oem"
           /\ InVendor(Append(path, k)) <=>
                  \/ Outside(path) /\ k = "Oem"
                  \/ InVendor(path) /\ k # "@odata.type"
           /\ NamesVendorType(Append(path, k)) <=> InVendor(path) /\ k = "@odata.type"
<1> DEFINE q == Append(path, k)
           N == Len(path)
<1>1. /\ N \in Nat
      /\ DOMAIN path = 1..N /\ DOMAIN q = 1..(N + 1)
      /\ Len(q) = N + 1 /\ q[N + 1] = k
      /\ \A i \in 1..N : q[i] = path[i]
  BY DEF Path
<1>2. Outside(q) <=> Outside(path) /\ k # "Oem"
  BY Below DEF Outside
<1>3. Last(q) = k
  BY Below
<1> HIDE DEF q
<1>4. NamesVendorType(q) <=> InVendor(path) /\ k = "@odata.type"
  <2>1. Len(q) - 1 = N
    BY <1>1
  <2>2. \A i \in 1..N : (\A j \in 1..(i - 1) : q[j] = path[j]) /\ \A j \in (i + 1)..N : q[j] = path[j]
    BY <1>1
  <2> QED
    BY <1>1, <1>3, <2>1, <2>2 DEF NamesVendorType, InVendor
<1>5. ASSUME InVendor(q)
      PROVE  \/ Outside(path) /\ k = "Oem"
             \/ InVendor(path) /\ k # "@odata.type"
  <2>1. PICK i \in 1..(N + 1) :
            /\ q[i] = "Oem"
            /\ \A j \in 1..(i - 1) : q[j] # "Oem"
            /\ \A j \in (i + 1)..(N + 1) : q[j] # "@odata.type"
    BY <1>1, <1>5 DEF InVendor
  <2>2. CASE i = N + 1
    <3>1. \A j \in 1..N : path[j] # "Oem"
      BY <1>1, <2>1, <2>2
    <3> QED
      BY <1>1, <2>1, <2>2, <3>1 DEF Outside, crosses
  <2>3. CASE i # N + 1
    <3>1. i \in 1..N /\ N + 1 \in (i + 1)..(N + 1)
      BY <1>1, <2>3
    <3>2. k # "@odata.type"
      BY <1>1, <2>1, <3>1
    <3>3. /\ \A j \in 1..(i - 1) : j \in 1..N
          /\ \A j \in (i + 1)..N : j \in 1..N /\ j \in (i + 1)..(N + 1)
      BY <1>1, <3>1
    <3>4. /\ path[i] = "Oem"
          /\ \A j \in 1..(i - 1) : path[j] # "Oem"
          /\ \A j \in (i + 1)..N : path[j] # "@odata.type"
      BY <1>1, <2>1, <3>1, <3>3
    <3> QED
      BY <3>1, <3>2, <3>4 DEF InVendor
  <2> QED
    BY <2>2, <2>3
<1>6. ASSUME Outside(path), k = "Oem" PROVE InVendor(q)
  <2>1. N + 1 \in 1..Len(q) /\ q[N + 1] = "Oem"
    BY <1>1, <1>6
  <2>2. \A j \in 1..((N + 1) - 1) : q[j] # "Oem"
    BY <1>1, <1>6 DEF Outside, crosses
  <2>3. \A j \in ((N + 1) + 1)..Len(q) : FALSE
    BY <1>1
  <2> QED
    BY <2>1, <2>2, <2>3 DEF InVendor
<1>7. ASSUME InVendor(path), k # "@odata.type" PROVE InVendor(q)
  <2>1. PICK i \in 1..N :
            /\ path[i] = "Oem"
            /\ \A j \in 1..(i - 1) : path[j] # "Oem"
            /\ \A j \in (i + 1)..N : path[j] # "@odata.type"
    BY <1>7 DEF InVendor
  <2>2. \A j \in 1..(i - 1) : j \in 1..N
    BY <1>1
  <2>3. \A j \in (i + 1)..(N + 1) : (j \in (i + 1)..N /\ j \in 1..N) \/ j = N + 1
    BY <1>1
  <2>4. /\ q[i] = "Oem"
        /\ \A j \in 1..(i - 1) : q[j] # "Oem"
        /\ \A j \in (i + 1)..(N + 1) : q[j] # "@odata.type"
    BY <1>1, <1>7, <2>1, <2>2, <2>3
  <2>5. i \in 1..Len(q)
    BY <1>1
  <2> QED
    BY <1>1, <2>4, <2>5 DEF InVendor
<1> QED
  BY <1>2, <1>4, <1>5, <1>6, <1>7 DEF q

\* The vendor schema that a place names, and those that are named below it.
named(v) ==
    (IF v.value.type = "string" /\ NamesVendorType(v.at) THEN {v.value.text} ELSE {})
    \ {NoText}

namedIn(value, path) == UNION {named(v) : v \in Values[value][path]}
namedBelow(value, path) == UNION {named(v) : v \in beneath(Values, value, path)}

\* The schemas named at and below a place, by its parts.
LEMMA NamedSplits ==
    ASSUME NEW value \in Json, NEW path \in Path
    PROVE  /\ namedIn(value, path) = named(place(value, path)) \cup namedBelow(value, path)
           /\ value.type = "object" =>
                  namedBelow(value, path) =
                      UNION {namedIn(value.members[i].value,
                                     Append(path, value.members[i].key)) :
                                 i \in DOMAIN value.members}
           /\ value.type = "array" =>
                  namedBelow(value, path) =
                      UNION {namedIn(value.elements[i], Append(path, Index[i])) :
                                 i \in DOMAIN value.elements}
           /\ value.type \notin {"object", "array"} => namedBelow(value, path) = {}
<1>1. Values[value][path] = {place(value, path)} \cup beneath(Values, value, path)
  BY ValuesDefined DEF place
<1>2. namedIn(value, path) = named(place(value, path)) \cup namedBelow(value, path)
  BY <1>1 DEF namedIn, namedBelow
<1>3. ASSUME value.type = "object"
      PROVE  namedBelow(value, path) =
                 UNION {namedIn(value.members[i].value, Append(path, value.members[i].key)) :
                            i \in DOMAIN value.members}
  BY <1>3 DEF namedBelow, namedIn, beneath
<1>4. ASSUME value.type = "array"
      PROVE  namedBelow(value, path) =
                 UNION {namedIn(value.elements[i], Append(path, Index[i])) :
                            i \in DOMAIN value.elements}
  BY <1>4 DEF namedBelow, namedIn, beneath
<1>5. ASSUME value.type \notin {"object", "array"} PROVE namedBelow(value, path) = {}
  BY <1>5 DEF namedBelow, beneath
<1> QED
  BY <1>2, <1>3, <1>4, <1>5

\* A member names a schema if it is an @odata.type of the vendor's.
LEMMA NamedBelow ==
    ASSUME NEW value \in Json, NEW path \in Path, NEW k \in Names
    PROVE  named(place(value, Append(path, k))) =
               IF InVendor(path) /\ k = "@odata.type" THEN {stringValue(value)} \ {NoText}
                                                      ELSE {}
<1>1. NamesVendorType(Append(path, k)) <=> InVendor(path) /\ k = "@odata.type"
  BY VendorBelow
<1> QED
  BY <1>1 DEF named, place, stringValue

\* What hangs from an @odata.type below Oem names no schema.
LEMMA NothingNamed ==
    ASSUME NEW value \in Json, NEW path \in Path, ~Outside(path), ~InVendor(path)
    PROVE  namedBelow(value, path) = {}
<1> DEFINE G == {v \in Json : \A p \in Path :
                     ~Outside(p) /\ ~InVendor(p) => namedBelow(v, p) = {}}
<1>1. ASSUME NEW v \in Json, \A y \in Json : depth[y] < depth[v] => y \in G
      PROVE  v \in G
  <2> SUFFICES ASSUME NEW p \in Path, ~Outside(p), ~InVendor(p) PROVE namedBelow(v, p) = {}
    OBVIOUS
  <2>1. ASSUME NEW y \in Json, depth[y] < depth[v], NEW k \in Names
        PROVE  namedIn(y, Append(p, k)) = {}
    <3>1. Append(p, k) \in Path
      BY Below
    <3>2. ~Outside(Append(p, k)) /\ ~InVendor(Append(p, k))
      BY VendorBelow
    <3>3. namedBelow(y, Append(p, k)) = {}
      BY <1>1, <2>1, <3>1, <3>2
    <3>4. named(place(y, Append(p, k))) = {}
      BY NamedBelow
    <3> QED
      BY <3>1, <3>3, <3>4, NamedSplits
  <2>2. CASE v.type = "object"
    <3>1. \A i \in DOMAIN v.members :
              namedIn(v.members[i].value, Append(p, v.members[i].key)) = {}
      BY <2>1, <2>2, MemberType
    <3> QED
      BY <2>2, <3>1, NamedSplits
  <2>3. CASE v.type = "array"
    <3>1. \A i \in DOMAIN v.elements : namedIn(v.elements[i], Append(p, Index[i])) = {}
      BY <2>1, <2>3, ElementType
    <3> QED
      BY <2>3, <3>1, NamedSplits
  <2>4. CASE v.type \notin {"object", "array"}
    BY <2>4, NamedSplits
  <2> QED
    BY <2>2, <2>3, <2>4
<1>2. G \subseteq Json
  OBVIOUS
<1>3. G = Json
  <2> HIDE DEF G
  <2> QED
    BY <1>1, <1>2, JsonInduction
<1>4. value \in G
  BY <1>3
<1> QED
  BY <1>4

\* The walk for vendor schemas is at the right one of its two states everywhere.
Follows(path, where) == IF where THEN InVendor(path) ELSE Outside(path)

\* It finds what is named below a place.
LEMMA TypesNamed ==
    ASSUME NEW value \in Json, NEW path \in Path, NEW where \in BOOLEAN, Follows(path, where)
    PROVE  collectOEMTypes[value][where] = namedBelow(value, path)
<1> DEFINE G == {v \in Json : \A p \in Path : \A w \in BOOLEAN :
                     Follows(p, w) => collectOEMTypes[v][w] = namedBelow(v, p)}
<1>1. ASSUME NEW v \in Json, \A y \in Json : depth[y] < depth[v] => y \in G
      PROVE  v \in G
  <2> SUFFICES ASSUME NEW p \in Path, NEW w \in BOOLEAN, Follows(p, w)
               PROVE  collectOEMTypes[v][w] = namedBelow(v, p)
    OBVIOUS
  <2>0. collectOEMTypes[v][w] = typesStep(collectOEMTypes, v)[w]
    BY TypesDefined
  <2>1. CASE v.type = "object"
    <3> DEFINE types(i) == IF v.members[i].key = "@odata.type" /\ w
                           THEN {stringValue(v.members[i].value)} \ {NoText}
                           ELSE collectOEMTypes[v.members[i].value]
                                               [below(w, v.members[i].key)]
    <3>1. collectOEMTypes[v][w] = UNION {types(i) : i \in DOMAIN v.members}
      BY <2>0, <2>1 DEF typesStep
    <3>2. ASSUME NEW i \in DOMAIN v.members
          PROVE  types(i) = namedIn(v.members[i].value, Append(p, v.members[i].key))
      <4> DEFINE m == v.members[i]
                 q == Append(p, m.key)
      <4>1. m.key \in Names /\ m.value \in Json /\ depth[m.value] < depth[v]
        BY <2>1, MemberType
      <4> HIDE DEF m
      <4>2. q \in Path
        BY <4>1, Below
      <4>3. namedIn(m.value, q) = named(place(m.value, q)) \cup namedBelow(m.value, q)
        BY <4>1, <4>2, NamedSplits
      <4>4. CASE m.key = "@odata.type" /\ w
        <5>1. InVendor(p)
          BY <4>4 DEF Follows
        <5>2. named(place(m.value, q)) = {stringValue(m.value)} \ {NoText}
          BY <4>1, <4>4, <5>1, NamedBelow
        <5>3. ~Outside(p)
          BY <5>1 DEF InVendor, Outside, crosses, Path
        <5>4. ~Outside(q) /\ ~InVendor(q)
          BY <4>1, <4>4, <5>3, VendorBelow
        <5>5. namedBelow(m.value, q) = {}
          BY <4>1, <4>2, <5>4, NothingNamed
        <5>6. types(i) = {stringValue(m.value)} \ {NoText}
          BY <4>4 DEF m
        <5> HIDE DEF types, q
        <5> QED
          BY <4>3, <5>2, <5>5, <5>6 DEF m, q
      <4>5. CASE ~(m.key = "@odata.type" /\ w)
        <5>1. named(place(m.value, q)) = {}
          <6>1. InVendor(p) => w
            BY DEF Follows, InVendor, Outside, crosses, Path
          <6> QED
            BY <4>1, <4>5, <6>1, NamedBelow
        <5>2. Follows(q, below(w, m.key)) /\ below(w, m.key) \in BOOLEAN
          BY <4>1, <4>5, VendorBelow DEF Follows, below
        <5>3. collectOEMTypes[m.value][below(w, m.key)] = namedBelow(m.value, q)
          BY <1>1, <4>1, <4>2, <5>2
        <5>4. types(i) = collectOEMTypes[m.value][below(w, m.key)]
          BY <4>5 DEF m
        <5> HIDE DEF types, q
        <5> QED
          BY <4>3, <5>1, <5>3, <5>4 DEF m, q
      <4> QED
        BY <4>4, <4>5
    <3>3. namedBelow(v, p) =
              UNION {namedIn(v.members[i].value, Append(p, v.members[i].key)) :
                         i \in DOMAIN v.members}
      BY <2>1, NamedSplits
    <3> HIDE DEF types
    <3> QED
      BY <3>1, <3>2, <3>3
  <2>2. CASE v.type = "array"
    <3>1. collectOEMTypes[v][w] = UNION {collectOEMTypes[v.elements[i]][w] : i \in DOMAIN v.elements}
      BY <2>0, <2>2 DEF typesStep
    <3>2. ASSUME NEW i \in DOMAIN v.elements
          PROVE  collectOEMTypes[v.elements[i]][w] = namedIn(v.elements[i], Append(p, Index[i]))
      <4> DEFINE q == Append(p, Index[i])
      <4>1. /\ v.elements[i] \in Json /\ Index[i] \in Names /\ isIndex(Index[i])
            /\ depth[v.elements[i]] < depth[v]
        BY <2>2, ElementType
      <4>2. Index[i] # "@odata.type" /\ Index[i] # "Oem"
        BY <4>1, NamesAssumption
      <4>3. q \in Path /\ named(place(v.elements[i], q)) = {} /\ Follows(q, w)
        BY <4>1, <4>2, Below, NamedBelow, VendorBelow DEF Follows
      <4> HIDE DEF q
      <4>4. collectOEMTypes[v.elements[i]][w] = namedBelow(v.elements[i], q)
        BY <1>1, <4>1, <4>3
      <4>5. collectOEMTypes[v.elements[i]][w] = namedIn(v.elements[i], q)
        <5>1. namedIn(v.elements[i], q) =
                  named(place(v.elements[i], q)) \cup namedBelow(v.elements[i], q)
          BY <4>1, <4>3, NamedSplits
        <5> QED
          BY <4>3, <4>4, <5>1
      <4> QED
        BY <4>5 DEF q
    <3>3. namedBelow(v, p) =
              UNION {namedIn(v.elements[i], Append(p, Index[i])) : i \in DOMAIN v.elements}
      BY <2>2, NamedSplits
    <3> QED
      BY <3>1, <3>2, <3>3
  <2>3. CASE v.type \notin {"object", "array"}
    <3>1. collectOEMTypes[v][w] = {}
      BY <2>0, <2>3 DEF typesStep
    <3> QED
      BY <2>3, <3>1, NamedSplits
  <2> QED
    BY <2>1, <2>2, <2>3
<1>2. G \subseteq Json
  OBVIOUS
<1>3. G = Json
  <2> HIDE DEF G
  <2> QED
    BY <1>1, <1>2, JsonInduction
<1>4. value \in G
  BY <1>3
<1> QED
  BY <1>4

-----------------------------------------------------------------------------
(* What the scanner of a body draws.                                       *)

\* A sequence stands in another one, behind the first o of its elements.
Standing(doc, o, s) ==
    /\ o \in Nat /\ o + Len(s) <= Len(doc)
    /\ \A i \in 1..Len(s) : doc[o + i] = s[i]

\* Where a sequence of two stands, both do.
LEMMA StandApart ==
    ASSUME NEW S, NEW doc \in Seq(S), NEW s \in Seq(S), NEW t \in Seq(S), NEW o,
           Standing(doc, o, s \o t)
    PROVE  Standing(doc, o, s) /\ Standing(doc, o + Len(s), t)
<1>1. /\ Len(s) \in Nat /\ Len(t) \in Nat /\ Len(doc) \in Nat /\ Len(s \o t) = Len(s) + Len(t)
      /\ \A i \in 1..Len(s) : (s \o t)[i] = s[i]
      /\ \A i \in 1..Len(t) : (s \o t)[Len(s) + i] = t[i]
  OBVIOUS
<1>2. /\ o \in Nat /\ o + (Len(s) + Len(t)) <= Len(doc)
      /\ \A i \in 1..(Len(s) + Len(t)) : doc[o + i] = (s \o t)[i]
  BY <1>1 DEF Standing
<1>3. Standing(doc, o, s)
  <2>1. \A i \in 1..Len(s) : i \in 1..(Len(s) + Len(t))
    BY <1>1
  <2> QED
    BY <1>1, <1>2, <2>1 DEF Standing
<1>4. Standing(doc, o + Len(s), t)
  <2>1. \A i \in 1..Len(t) : Len(s) + i \in 1..(Len(s) + Len(t)) /\ o + (Len(s) + i) = (o + Len(s)) + i
    BY <1>1, <1>2
  <2>2. \A i \in 1..Len(t) : doc[(o + Len(s)) + i] = t[i]
    BY <1>1, <1>2, <2>1
  <2> QED
    BY <1>1, <1>2, <2>2 DEF Standing
<1> QED
  BY <1>3, <1>4

\* And where a sequence of many stands, its parts do.
LEMMA StandInParts ==
    ASSUME NEW S, NEW doc \in Seq(S), NEW n \in Nat, NEW ss, NEW flat \in [0..n -> Seq(S)],
           \A i \in 1..n : ss[i] \in Seq(S) /\ flat[i] = flat[i - 1] \o ss[i],
           NEW o, Standing(doc, o, flat[n])
    PROVE  \A i \in 1..n : Standing(doc, o + Len(flat[i - 1]), ss[i])
<1>1. ASSUME NEW i \in 1..n, Standing(doc, o, flat[i])
      PROVE  Standing(doc, o, flat[i - 1]) /\ Standing(doc, o + Len(flat[i - 1]), ss[i])
  <2>1. i - 1 \in 0..n
    OBVIOUS
  <2>2. flat[i - 1] \in Seq(S) /\ ss[i] \in Seq(S) /\ flat[i] = flat[i - 1] \o ss[i]
    BY <2>1
  <2> QED
    BY <1>1, <2>2, StandApart
<1> DEFINE Done == {i \in Nat : i <= n => Standing(doc, o, flat[n - i])}
<1>2. 0 \in Done
  <2>1. n - 0 = n
    OBVIOUS
  <2> QED
    BY <2>1
<1>3. ASSUME NEW i \in Done PROVE i + 1 \in Done
  <2>1. i \in Nat /\ (i <= n => Standing(doc, o, flat[n - i]))
    OBVIOUS
  <2> SUFFICES ASSUME i + 1 <= n PROVE Standing(doc, o, flat[n - (i + 1)])
    BY <2>1
  <2>2. n - i \in 1..n /\ (n - i) - 1 = n - (i + 1) /\ i <= n
    BY <2>1
  <2> HIDE DEF Done
  <2>3. Standing(doc, o, flat[(n - i) - 1])
    BY <1>1, <2>1, <2>2
  <2> QED
    BY <2>2, <2>3
<1>4. Done \in SUBSET Nat
  OBVIOUS
<1>5. Done = Nat
  <2> HIDE DEF Done
  <2> QED
    BY <1>2, <1>3, <1>4, SimpleInduction
<1>6. ASSUME NEW i \in 1..n PROVE Standing(doc, o, flat[i])
  <2>1. n - i \in Nat /\ n - i <= n /\ n - (n - i) = i
    OBVIOUS
  <2>2. Standing(doc, o, flat[n - (n - i)])
    BY <1>5, <2>1
  <2> QED
    BY <2>1, <2>2
<1> QED
  BY <1>1, <1>6

-----------------------------------------------------------------------------
\* A token, and a value's tokens: some, and the first no colon.
Tok == [type : {"open", "close", "colon", "string", "other"},
        name : Names, text : Target, at : Path]
Begun == {s \in Seq(Tok) : s # <<>> /\ s[1].type # "colon"}

\* The tokens of a member: its key, a colon and its value.
keyToken(key, path) == Token("string", key, NoText, Append(path, key))

memberTokens(g, m, path) ==
    <<keyToken(m.key, path), mark("colon", Append(path, m.key))>>
        \o g[m.value][Append(path, m.key)]

\* One step of tokens.
tokensStep(g, value) ==
    [path \in Path |->
        CASE value.type = "object" ->
                 <<mark("open", path)>>
                 \o FlattenSeq([i \in DOMAIN value.members |->
                                    memberTokens(g, value.members[i], path)])
                 \o <<mark("close", path)>>
          [] value.type = "array" ->
                 <<mark("open", path)>>
                 \o FlattenSeq([i \in DOMAIN value.elements |->
                        g[value.elements[i]][Append(path, Index[i])]])
                 \o <<mark("close", path)>>
          [] value.type = "string" -> <<Token("string", "", value.text, path)>>
          [] OTHER -> <<mark("other", path)>>]

\* Tokens are tokens.
LEMMA TokenType ==
    ASSUME NEW path \in Path
    PROVE  /\ \A type \in {"open", "close", "colon", "other"} : mark(type, path) \in Tok
           /\ \A name \in Names : \A t \in Target : Token("string", name, t, path) \in Tok
           /\ \A type : mark(type, path).type = type
<1>1. "" \in Names
  BY NamesAssumption
<1> QED
  BY <1>1, NoTextType DEF mark, Token, Tok

\* A container's tokens, from those of its parts.
LEMMA ContainerTokens ==
    ASSUME NEW path \in Path, NEW n \in Nat, NEW ss, DOMAIN ss = 1..n,
           ss = [i \in 1..n |-> ss[i]], \A i \in 1..n : ss[i] \in Seq(Tok)
    PROVE  <<mark("open", path)>> \o FlattenSeq(ss) \o <<mark("close", path)>> \in Begun
<1>1. FlattenSeq(ss) \in Seq(Tok)
  BY FlattenOver
<1>2. mark("open", path) \in Tok /\ mark("close", path) \in Tok /\ mark("open", path).type = "open"
  BY TokenType
<1> DEFINE a == mark("open", path)
           b == mark("close", path)
           s == FlattenSeq(ss)
           all == <<a>> \o s \o <<b>>
<1> HIDE DEF a, b, s
<1>3. s \in Seq(Tok) /\ a \in Tok /\ b \in Tok /\ a.type = "open"
  BY <1>1, <1>2 DEF a, b, s
<1>4. all \in Seq(Tok) /\ all # <<>> /\ all[1] = a
  BY <1>3
<1> HIDE DEF all
<1>5. all \in Begun
  BY <1>3, <1>4 DEF Begun
<1> QED
  BY <1>5 DEF all, a, b, s

\* What one step of tokens makes of a value.
LEMMA TokensStepType ==
    ASSUME NEW g \in [Json -> [Path -> Begun]], NEW value \in Json, NEW path \in Path
    PROVE  /\ tokensStep(g, value)[path] \in Begun
           /\ value.type = "object" => \A i \in DOMAIN value.members :
                  /\ memberTokens(g, value.members[i], path) \in Begun
                  /\ g[value.members[i].value][Append(path, value.members[i].key)] \in Begun
           /\ value.type = "array" => \A i \in DOMAIN value.elements :
                  g[value.elements[i]][Append(path, Index[i])] \in Begun
<1>1. ASSUME value.type = "object", NEW i \in DOMAIN value.members
      PROVE  /\ memberTokens(g, value.members[i], path) \in Begun
             /\ g[value.members[i].value][Append(path, value.members[i].key)] \in Begun
  <2> DEFINE m == value.members[i]
             q == Append(path, m.key)
             k == keyToken(m.key, path)
             c == mark("colon", q)
             s == g[m.value][q]
  <2>1. m.key \in Names /\ m.value \in Json
    BY <1>1, MemberType
  <2>2. q \in Path
    BY <2>1, Below
  <2>3. s \in Begun
    BY <2>1, <2>2
  <2>4. k \in Tok /\ c \in Tok /\ k.type = "string"
    BY <2>1, <2>2, TokenType, NoTextType DEF keyToken, Token
  <2> HIDE DEF m, q, k, c, s
  <2>5. s \in Seq(Tok)
    BY <2>3 DEF Begun
  <2>6. <<k, c>> \o s \in Seq(Tok) /\ <<k, c>> \o s # <<>> /\ (<<k, c>> \o s)[1] = k
    BY <2>4, <2>5
  <2>7. <<k, c>> \o s \in Begun
    BY <2>4, <2>6 DEF Begun
  <2> QED
    BY <2>3, <2>7 DEF memberTokens, m, q, k, c, s
<1>2. ASSUME value.type = "array", NEW i \in DOMAIN value.elements
      PROVE  g[value.elements[i]][Append(path, Index[i])] \in Begun
  <2>1. value.elements[i] \in Json /\ Index[i] \in Names
    BY <1>2, ElementType
  <2> QED
    BY <2>1, Below
<1>3. tokensStep(g, value)[path] \in Begun
  <2>1. CASE value.type = "object"
    <3> DEFINE n == Len(value.members)
               ss == [i \in DOMAIN value.members |-> memberTokens(g, value.members[i], path)]
    <3>1. n \in Nat /\ DOMAIN value.members = 1..n
      BY <2>1, MemberType
    <3>2. DOMAIN ss = 1..n /\ ss = [i \in 1..n |-> ss[i]] /\ \A i \in 1..n : ss[i] \in Seq(Tok)
      BY <1>1, <2>1, <3>1 DEF Begun
    <3>3. tokensStep(g, value)[path] =
              <<mark("open", path)>> \o FlattenSeq(ss) \o <<mark("close", path)>>
      BY <2>1 DEF tokensStep
    <3> HIDE DEF n, ss
    <3> QED
      BY <3>1, <3>2, <3>3, ContainerTokens
  <2>2. CASE value.type = "array"
    <3> DEFINE n == Len(value.elements)
               ss == [i \in DOMAIN value.elements |->
                          g[value.elements[i]][Append(path, Index[i])]]
    <3>1. n \in Nat /\ DOMAIN value.elements = 1..n
      BY <2>2, ElementType
    <3>2. DOMAIN ss = 1..n /\ ss = [i \in 1..n |-> ss[i]] /\ \A i \in 1..n : ss[i] \in Seq(Tok)
      BY <1>2, <2>2, <3>1 DEF Begun
    <3>3. tokensStep(g, value)[path] =
              <<mark("open", path)>> \o FlattenSeq(ss) \o <<mark("close", path)>>
      BY <2>2 DEF tokensStep
    <3> HIDE DEF n, ss
    <3> QED
      BY <3>1, <3>2, <3>3, ContainerTokens
  <2>3. \A t \in Tok : t.type # "colon" => <<t>> \in Begun
    BY DEF Begun
  <2>4. CASE value.type = "string"
    <3>1. Token("string", "", value.text, path) \in Tok
      BY <2>4, TokenType, NamesAssumption, JsonAssumption DEF Target
    <3>2. Token("string", "", value.text, path).type = "string"
      BY DEF Token
    <3>3. tokensStep(g, value)[path] = <<Token("string", "", value.text, path)>>
      BY <2>4 DEF tokensStep
    <3> QED
      BY <2>3, <3>1, <3>2, <3>3
  <2>5. CASE value.type \notin {"object", "array", "string"}
    <3>1. tokensStep(g, value)[path] = <<mark("other", path)>>
      BY <2>5 DEF tokensStep
    <3> QED
      BY <2>3, <3>1, TokenType
  <2> QED
    BY <2>1, <2>2, <2>4, <2>5
<1> QED
  BY <1>1, <1>2, <1>3

\* tokens is what its equation says.
LEMMA TokensDefined ==
    /\ tokens \in [Json -> [Path -> Begun]]
    /\ \A value \in Json : tokens[value] = tokensStep(tokens, value)
<1> DEFINE V == [Path -> Begun]
           F == [g \in [Json -> V] |-> [value \in Json |-> tokensStep(g, value)]]
<1>1. ASSUME NEW g \in [Json -> V], NEW value \in Json PROVE tokensStep(g, value) \in V
  <2>1. \A path \in Path : tokensStep(g, value)[path] \in Begun
    BY TokensStepType
  <2> QED
    BY <2>1 DEF tokensStep
<1>2. ASSUME NEW g, NEW h, NEW value \in Json,
             \A y \in Json : depth[y] < depth[value] => g[y] = h[y]
      PROVE  tokensStep(g, value) = tokensStep(h, value)
  <2>1. CASE value.type \notin {"object", "array"}
    BY <2>1 DEF tokensStep
  <2>2. CASE value.type = "object"
    <3>1. \A i \in DOMAIN value.members : g[value.members[i].value] = h[value.members[i].value]
      BY <1>2, <2>2, MemberType
    <3>2. \A i \in DOMAIN value.members : \A path \in Path :
              memberTokens(g, value.members[i], path) = memberTokens(h, value.members[i], path)
      BY <3>1 DEF memberTokens
    <3> QED
      BY <2>2, <3>2 DEF tokensStep
  <2>3. CASE value.type = "array"
    <3>1. \A i \in DOMAIN value.elements : g[value.elements[i]] = h[value.elements[i]]
      BY <1>2, <2>3, ElementType
    <3> QED
      BY <2>3, <3>1 DEF tokensStep
  <2> QED
    BY <2>1, <2>2, <2>3
<1>3. F \in [[Json -> V] -> [Json -> V]]
  <2> HIDE DEF V
  <2> QED
    BY <1>1
<1>4. GoesDown(F, Json, V, depth)
  <2>1. depth \in [Json -> Nat]
    BY JsonAssumption
  <2>2. \A g, h \in [Json -> V] : \A x \in Json :
           (\A y \in Json : depth[y] < depth[x] => g[y] = h[y]) => F[g][x] = F[h][x]
    <3> HIDE DEF V
    <3> QED
      BY <1>2
  <2> HIDE DEF V, F
  <2> QED
    BY <1>3, <2>1, <2>2 DEF GoesDown
<1>5. V # {}
  <2>1. \A path \in Path : <<mark("other", path)>> \in Begun
    <3>1. \A path \in Path : mark("other", path) \in Tok /\ mark("other", path).type = "other"
      BY TokenType
    <3>2. \A t \in Tok : t.type # "colon" => <<t>> \in Begun
      BY DEF Begun
    <3> QED
      BY <3>1, <3>2
  <2>2. [path \in Path |-> <<mark("other", path)>>] \in V
    BY <2>1
  <2> QED
    BY <2>2
<1>6. PICK f \in [Json -> V] : F[f] = f
  <2> HIDE DEF V, F
  <2> QED
    BY <1>4, <1>5, Recursion
<1>7. f = [value \in Json |-> tokensStep(f, value)]
  <2> HIDE DEF V
  <2> QED
    BY <1>6
<1>8. tokens = CHOOSE g : g = [value \in Json |-> tokensStep(g, value)]
  BY DEF tokens, tokensStep, memberTokens, keyToken
<1>9. tokens = [value \in Json |-> tokensStep(tokens, value)]
  <2> HIDE DEF V, F
  <2> QED
    BY <1>7, <1>8
<1> DEFINE a == tokens
<1>10. a = [value \in Json |-> tokensStep(a, value)]
  BY <1>9
<1> HIDE DEF a
<1>11. \A value \in Json : a[value] = tokensStep(a, value)
  BY <1>10
<1>12. a = f
  <2> DEFINE Same == {value \in Json : a[value] = f[value]}
  <2>1. ASSUME NEW value \in Json, \A y \in Json : depth[y] < depth[value] => y \in Same
        PROVE  value \in Same
    <3>1. tokensStep(a, value) = tokensStep(f, value)
      BY <1>2, <2>1
    <3>2. f[value] = tokensStep(f, value)
      BY <1>7
    <3> QED
      BY <1>11, <3>1, <3>2
  <2>2. Same \in SUBSET Json
    OBVIOUS
  <2>3. Same = Json
    <3>1. \A value \in Json :
            (\A y \in Json : depth[y] < depth[value] => y \in Same) => value \in Same
      BY <2>1
    <3> HIDE DEF Same, V, F
    <3> QED
      BY <3>1, <2>2, JsonInduction
  <2>4. \A value \in Json : a[value] = f[value]
    BY <2>3
  <2> HIDE DEF Same, V
  <2> QED
    BY <1>6, <1>10, <2>4
<1> QED
  BY <1>6, <1>11, <1>12 DEF a

\* What is drawn, and a scanner.
Drawn == [token : Tok, style : {"oem", "key", "link", "string"}]
Scanner == [containers : Seq(Names), key : Names, drawn : Seq(Drawn)]

\* One step of the scanner, by the token it is at.
LEMMA ScanSteps ==
    ASSUME NEW doc \in Seq(Tok), NEW i \in 1..Len(doc), NEW s \in Scanner
    PROVE  /\ doc[i].type = "open" => scan(doc, s, i) = openContainer(s)
           /\ doc[i].type = "close" => scan(doc, s, i) = closeContainer(s)
           /\ doc[i].type = "string" /\ isKey(doc, i) =>
                  scan(doc, s, i) = draw([s EXCEPT !.key = doc[i].name], doc[i],
                                         keyStyle(s, doc[i].name))
           /\ doc[i].type = "string" /\ ~isKey(doc, i) =>
                  scan(doc, s, i) = draw(s, doc[i], valueStyle(s, doc[i].text))
           /\ doc[i].type \in {"colon", "other"} => scan(doc, s, i) = s
BY Zenon DEF scan

\* A scanner, and what becomes of it, by its fields.
LEMMA Fields ==
    ASSUME NEW s \in Scanner
    PROVE  /\ s.containers \in Seq(Names) /\ s.key \in Names /\ s.drawn \in Seq(Drawn)
           /\ s = [containers |-> s.containers, key |-> s.key, drawn |-> s.drawn]
           /\ \A c, k : [s EXCEPT !.containers = c, !.key = k] =
                            [containers |-> c, key |-> k, drawn |-> s.drawn]
           /\ \A d : [s EXCEPT !.drawn = d] =
                         [containers |-> s.containers, key |-> s.key, drawn |-> d]
<1>1. /\ s.containers \in Seq(Names) /\ s.key \in Names /\ s.drawn \in Seq(Drawn)
      /\ s = [containers |-> s.containers, key |-> s.key, drawn |-> s.drawn]
  BY DEF Scanner
<1>2. ASSUME NEW c, NEW k
      PROVE  [s EXCEPT !.containers = c, !.key = k] =
                 [containers |-> c, key |-> k, drawn |-> s.drawn]
  <2> DEFINE u == [s EXCEPT !.containers = c]
  <2>1. [s EXCEPT !.containers = c, !.key = k] = [u EXCEPT !.key = k]
    OBVIOUS
  <2>2. u = [containers |-> c, key |-> s.key, drawn |-> s.drawn]
    BY <1>1
  <2> HIDE DEF u
  <2>3. [u EXCEPT !.key = k] = [containers |-> c, key |-> k, drawn |-> s.drawn]
    BY <2>2
  <2> QED
    BY <2>1, <2>3
<1>3. ASSUME NEW d
      PROVE  [s EXCEPT !.drawn = d] =
                 [containers |-> s.containers, key |-> s.key, drawn |-> d]
  BY <1>1
<1> QED
  BY <1>1, <1>2, <1>3

\* Entering a container and leaving it again.
LEMMA OpenClose ==
    ASSUME NEW s \in Scanner, NEW t \in Scanner
    PROVE  /\ openContainer(s) \in Scanner
           /\ openContainer(s) = [containers |-> Append(s.containers, s.key),
                                  key |-> scanner.key, drawn |-> s.drawn]
           /\ insideOEM(openContainer(s)) <=> insideOEM(s) \/ s.key = "Oem"
           /\ closeContainer(t) \in Scanner
           /\ t.containers = Append(s.containers, s.key) =>
                  closeContainer(t) = [containers |-> s.containers, key |-> s.key,
                                       drawn |-> t.drawn]
<1>0. /\ s.containers \in Seq(Names) /\ s.key \in Names /\ s.drawn \in Seq(Drawn)
      /\ s = [containers |-> s.containers, key |-> s.key, drawn |-> s.drawn]
      /\ t.containers \in Seq(Names) /\ t.key \in Names /\ t.drawn \in Seq(Drawn)
      /\ t = [containers |-> t.containers, key |-> t.key, drawn |-> t.drawn]
      /\ "" \in Names
  BY NamesAssumption DEF Scanner
<1>7. scanner.key = ""
  BY DEF scanner
<1> DEFINE c == s.containers
           k == s.key
<1>1. /\ Append(c, k) \in Seq(Names) /\ Append(c, k) # <<>>
      /\ Last(Append(c, k)) = k /\ SubSeq(Append(c, k), 1, Len(Append(c, k)) - 1) = c
      /\ ToSet(Append(c, k)) = ToSet(c) \cup {k}
  <2>1. c \in Path /\ k \in Names
    BY <1>0 DEF Path
  <2> HIDE DEF c, k
  <2>2. /\ Append(c, k) \in Path /\ Append(c, k) # <<>>
        /\ Last(Append(c, k)) = k /\ enclosing(Append(c, k)) = c
    BY <2>1, Below
  <2>3. Append(c, k) = c \o <<k>> /\ c \in Seq(Names) /\ <<k>> \in Seq(Names)
    BY <2>1 DEF Path
  <2>4. ToSet(<<k>>) = {k}
    BY DEF ToSet
  <2>5. ToSet(c \o <<k>>) = ToSet(c) \cup ToSet(<<k>>)
    BY <2>3, RangeOfConcat
  <2> QED
    BY <2>2, <2>3, <2>4, <2>5 DEF enclosing, Path
<1>2. openContainer(s) = [containers |-> Append(c, k), key |-> "", drawn |-> s.drawn]
  <2>1. openContainer(s) = [s EXCEPT !.containers = Append(c, k), !.key = ""]
    BY DEF openContainer
  <2> QED
    BY <2>1, Fields
<1>3. openContainer(s) \in Scanner
  <2> HIDE DEF c, k
  <2>1. [containers |-> Append(c, k), key |-> "", drawn |-> s.drawn] \in Scanner
    BY <1>0, <1>1 DEF Scanner
  <2> QED
    BY <1>2, <2>1
<1>4. insideOEM(openContainer(s)) <=> insideOEM(s) \/ s.key = "Oem"
  <2> DEFINE u == openContainer(s)
  <2>1. u.containers = Append(c, k)
    <3>1. u = [containers |-> Append(c, k), key |-> "", drawn |-> s.drawn]
      BY <1>2
    <3> HIDE DEF u, c, k
    <3> QED
      BY <3>1
  <2> HIDE DEF u, c, k
  <2>2. "Oem" \in ToSet(u.containers) <=> "Oem" \in ToSet(c) \/ k = "Oem"
    BY <1>1, <2>1
  <2> QED
    BY <2>2 DEF insideOEM, u, c, k
<1>5. closeContainer(t) \in Scanner
  <2>1. CASE t.containers = <<>>
    BY <2>1 DEF closeContainer
  <2>2. CASE t.containers # <<>>
    <3>1. /\ Last(t.containers) \in Names
          /\ SubSeq(t.containers, 1, Len(t.containers) - 1) \in Seq(Names)
      <4> DEFINE d == t.containers
      <4>1. d \in Seq(Names) /\ d # <<>>
        BY <1>0, <2>2
      <4> HIDE DEF d
      <4>2. Len(d) \in DOMAIN d /\ Len(d) - 1 \in Nat /\ Len(d) - 1 <= Len(d)
        BY <4>1
      <4>3. d[Len(d)] \in Names
        BY <4>1, <4>2
      <4>4. SubSeq(d, 1, Len(d) - 1) \in Seq(Names)
        BY <4>1, <4>2
      <4> QED
        BY <4>3, <4>4 DEF Last, d
    <3>2. closeContainer(t) =
              [containers |-> SubSeq(t.containers, 1, Len(t.containers) - 1),
               key |-> Last(t.containers), drawn |-> t.drawn]
      BY <1>0, <2>2 DEF closeContainer
    <3>3. [containers |-> SubSeq(t.containers, 1, Len(t.containers) - 1),
           key |-> Last(t.containers), drawn |-> t.drawn] \in Scanner
      BY <1>0, <3>1 DEF Scanner
    <3> QED
      BY <3>2, <3>3
  <2> QED
    BY <2>1, <2>2
<1>6. ASSUME t.containers = Append(c, k)
      PROVE  closeContainer(t) = [containers |-> c, key |-> k, drawn |-> t.drawn]
  <2>1. closeContainer(t) =
            [containers |-> SubSeq(t.containers, 1, Len(t.containers) - 1),
             key |-> Last(t.containers), drawn |-> t.drawn]
    BY <1>0, <1>1, <1>6 DEF closeContainer
  <2> QED
    BY <1>1, <1>6, <2>1
<1> QED
  BY <1>2, <1>3, <1>4, <1>5, <1>6, <1>7, Zenon

\* Drawing one more.
LEMMA Draws ==
    ASSUME NEW s \in Scanner, NEW token \in Tok, NEW style \in {"oem", "key", "link", "string"}
    PROVE  /\ draw(s, token, style) \in Scanner
           /\ draw(s, token, style).containers = s.containers
           /\ draw(s, token, style).key = s.key
           /\ ToSet(draw(s, token, style).drawn) =
                  ToSet(s.drawn) \cup {[token |-> token, style |-> style]}
<1> DEFINE d == [token |-> token, style |-> style]
<1>1. d \in Drawn
  BY DEF Drawn
<1> HIDE DEF d
<1>2. /\ s.containers \in Seq(Names) /\ s.key \in Names /\ s.drawn \in Seq(Drawn)
      /\ s = [containers |-> s.containers, key |-> s.key, drawn |-> s.drawn]
  BY DEF Scanner
<1>3. draw(s, token, style) =
          [containers |-> s.containers, key |-> s.key, drawn |-> Append(s.drawn, d)]
  <2>1. draw(s, token, style) = [s EXCEPT !.drawn = Append(s.drawn, d)]
    BY DEF draw, d
  <2> QED
    BY <2>1, Fields
<1>4. Append(s.drawn, d) \in Seq(Drawn) /\ Append(s.drawn, d) = s.drawn \o <<d>>
  BY <1>1, <1>2
<1>5. ToSet(s.drawn \o <<d>>) = ToSet(s.drawn) \cup ToSet(<<d>>)
  <2>1. <<d>> \in Seq(Drawn) /\ s.drawn \in Seq(Drawn)
    BY <1>1, <1>2
  <2> QED
    BY <2>1, RangeOfConcat
<1>6. ToSet(<<d>>) = {d}
  BY DEF ToSet
<1>7. [containers |-> s.containers, key |-> s.key, drawn |-> Append(s.drawn, d)] \in Scanner
  BY <1>2, <1>4 DEF Scanner
<1>8. ToSet(Append(s.drawn, d)) = ToSet(s.drawn) \cup {d}
  BY <1>4, <1>5, <1>6
<1> QED
  BY <1>3, <1>7, <1>8 DEF d

\* The styles.
LEMMA Styles ==
    ASSUME NEW s, NEW name, NEW t
    PROVE  /\ keyStyle(s, name) \in {"oem", "key", "link", "string"}
           /\ valueStyle(s, t) \in {"oem", "key", "link", "string"}
BY DEF keyStyle, valueStyle

\* The scanner stays one.
LEMMA ScanType ==
    ASSUME NEW doc \in Seq(Tok), NEW i \in 1..Len(doc), NEW s \in Scanner
    PROVE  scan(doc, s, i) \in Scanner
<1>1. doc[i] \in Tok
  OBVIOUS
<1>2. CASE doc[i].type = "open"
  BY <1>2, ScanSteps, OpenClose
<1>3. CASE doc[i].type = "close"
  BY <1>3, ScanSteps, OpenClose
<1>4. CASE doc[i].type = "string" /\ isKey(doc, i)
  <2> DEFINE u == [s EXCEPT !.key = doc[i].name]
  <2>1. u \in Scanner
    BY <1>1 DEF Scanner, Tok
  <2> HIDE DEF u
  <2>2. draw(u, doc[i], keyStyle(s, doc[i].name)) \in Scanner
    BY <1>1, <2>1, Draws, Styles
  <2> QED
    BY <1>4, <2>2, ScanSteps DEF u
<1>5. CASE doc[i].type = "string" /\ ~isKey(doc, i)
  <2>1. draw(s, doc[i], valueStyle(s, doc[i].text)) \in Scanner
    BY <1>1, Draws, Styles
  <2> QED
    BY <1>5, <2>1, ScanSteps
<1>6. CASE doc[i].type \in {"colon", "other"}
  BY <1>6, ScanSteps
<1> QED
  BY <1>1, <1>2, <1>3, <1>4, <1>5, <1>6 DEF Tok

\* The scanner's way over a document.
Runs(doc, run) ==
    /\ doc \in Seq(Tok) /\ run \in [0..Len(doc) -> Scanner]
    /\ \A i \in 1..Len(doc) : run[i] = scan(doc, run[i - 1], i)

\* It is in this container, and the latest key is one of these.
Inside(s, containers, keys) == s.containers = containers /\ s.key \in keys

\* It has drawn these, and is otherwise where it was.
Grows(s, t, new) ==
    /\ t.containers = s.containers /\ t.key = s.key
    /\ ToSet(t.drawn) = ToSet(s.drawn) \cup new

\* Wherever tokens stand in a container, it draws these of them and stays in it.
Passes(doc, run, s, containers, keys, new) ==
    \A p \in Nat :
        Standing(doc, p, s) /\ ~isKey(doc, p + Len(s)) /\ Inside(run[p], containers, keys) =>
            /\ Inside(run[p + Len(s)], containers, keys)
            /\ ToSet(run[p + Len(s)].drawn) = ToSet(run[p].drawn) \cup new

\* Its way over one token.
LEMMA OneToken ==
    ASSUME NEW doc, NEW run, Runs(doc, run), NEW o \in Nat, o + 1 <= Len(doc)
    PROVE  /\ doc \in Seq(Tok) /\ o \in 0..Len(doc) /\ o + 1 \in 1..Len(doc)
           /\ run[o] \in Scanner /\ run[o + 1] \in Scanner /\ doc[o + 1] \in Tok
           /\ run[o + 1] = scan(doc, run[o], o + 1)
<1>1. doc \in Seq(Tok) /\ Len(doc) \in Nat
  BY DEF Runs
<1>2. o \in 0..Len(doc) /\ o + 1 \in 1..Len(doc) /\ o + 1 \in 0..Len(doc) /\ (o + 1) - 1 = o
  BY <1>1
<1>3. run[o + 1] = scan(doc, run[(o + 1) - 1], o + 1)
  BY <1>2 DEF Runs
<1>4. run[o] \in Scanner /\ run[o + 1] \in Scanner
  BY <1>2 DEF Runs
<1>5. doc[o + 1] \in Tok
  BY <1>1, <1>2
<1> QED
  BY <1>1, <1>2, <1>3, <1>4, <1>5

\* The tokens of a container, from those of its parts, and what is drawn of them all.
containerTokens(path, ss) ==
    <<mark("open", path)>> \o FlattenSeq(ss) \o <<mark("close", path)>>

allOf(news, n) == UNION {news[i] : i \in 1..n}

\* Its way over a container: into it, over each of its parts, and out of it.
LEMMA ContainerDraws ==
    ASSUME NEW doc, NEW run, Runs(doc, run), NEW path \in Path, NEW n \in Nat,
           NEW ss \in [1..n -> Begun],
           NEW keys, scanner.key \in keys, NEW news, NEW o,
           Standing(doc, o, containerTokens(path, ss)),
           \A i \in 1..n : Passes(doc, run, ss[i], Append(run[o].containers, run[o].key), keys,
                                  news[i])
    PROVE  Grows(run[o], run[o + Len(containerTokens(path, ss))], allOf(news, n))
<1> DEFINE a == mark("open", path)
           b == mark("close", path)
           C == Append(run[o].containers, run[o].key)
<1>1. ss \in Seq(Seq(Tok)) /\ Len(ss) = n
  <2>1. \A i \in 1..n : ss[i] \in Seq(Tok)
    BY DEF Begun
  <2>2. ss \in [1..n -> Seq(Tok)]
    BY <2>1
  <2>3. ss \in Seq(Seq(Tok))
    BY <2>2, SeqDef
  <2>4. DOMAIN ss = 1..n
    OBVIOUS
  <2> QED
    BY <2>3, <2>4
<1>2. PICK flat \in [0..n -> Seq(Tok)] : /\ flat[0] = <<>>
                                         /\ \A i \in 1..n : flat[i] = flat[i - 1] \o ss[i]
                                         /\ FlattenSeq(ss) = flat[n]
  BY <1>1, FlattenSteps
<1> DEFINE at(i) == (o + 1) + Len(flat[i])
<1>3. a \in Tok /\ b \in Tok /\ a.type = "open" /\ b.type = "close"
  BY TokenType
<1>4. doc \in Seq(Tok) /\ Len(doc) \in Nat
  BY DEF Runs
<1> HIDE DEF a, b
<1>5. flat[n] \in Seq(Tok) /\ \A i \in 0..n : flat[i] \in Seq(Tok) /\ Len(flat[i]) \in Nat
  <2>1. \A i \in 0..n : flat[i] \in Seq(Tok)
    OBVIOUS
  <2> QED
    BY <2>1
<1>6. \A i \in 1..n : /\ ss[i] \in Seq(Tok) /\ Len(ss[i]) \in Nat /\ ss[i] # <<>>
                      /\ ss[i][1].type # "colon" /\ 1 \in 1..Len(ss[i])
                      /\ i - 1 \in 0..n /\ i \in 0..n
                      /\ Len(flat[i]) = Len(flat[i - 1]) + Len(ss[i])
  <2> TAKE i \in 1..n
  <2>1. ss[i] \in Seq(Tok) /\ ss[i] # <<>> /\ ss[i][1].type # "colon"
    BY DEF Begun
  <2>2. i - 1 \in 0..n /\ i \in 0..n
    OBVIOUS
  <2>3. flat[i] = flat[i - 1] \o ss[i] /\ flat[i - 1] \in Seq(Tok)
    BY <1>2, <1>5, <2>2
  <2>4. Len(flat[i]) = Len(flat[i - 1]) + Len(ss[i])
    BY <2>1, <2>3
  <2>5. Len(ss[i]) \in Nat /\ 1 \in 1..Len(ss[i])
    BY <2>1
  <2> QED
    BY <2>1, <2>2, <2>4, <2>5
<1>7. /\ Standing(doc, o, <<a>>) /\ Standing(doc, o + 1, flat[n])
      /\ Standing(doc, at(n), <<b>>)
      /\ o + Len(<<a>> \o FlattenSeq(ss) \o <<b>>) = at(n) + 1
      /\ o \in Nat
  <2>1. /\ <<a>> \in Seq(Tok) /\ <<b>> \in Seq(Tok) /\ Len(<<a>>) = 1
        /\ <<a>> \o flat[n] \in Seq(Tok) /\ Len(<<a>> \o flat[n]) = 1 + Len(flat[n])
        /\ Len((<<a>> \o flat[n]) \o <<b>>) = (1 + Len(flat[n])) + 1
    BY <1>3, <1>5
  <2>2. Standing(doc, o, (<<a>> \o flat[n]) \o <<b>>)
    BY <1>2 DEF a, b, containerTokens
  <2>3. Standing(doc, o, <<a>> \o flat[n]) /\ Standing(doc, o + Len(<<a>> \o flat[n]), <<b>>)
    BY <1>4, <2>1, <2>2, StandApart
  <2>4. Standing(doc, o, <<a>>) /\ Standing(doc, o + Len(<<a>>), flat[n])
    BY <1>4, <1>5, <2>1, <2>3, StandApart
  <2>5. o \in Nat /\ Len(flat[n]) \in Nat
    BY <1>5, <2>4 DEF Standing
  <2>6. o + Len(<<a>> \o flat[n]) = at(n)
    BY <2>1, <2>5
  <2>7. o + Len((<<a>> \o flat[n]) \o <<b>>) = at(n) + 1
    BY <2>1, <2>5
  <2> HIDE DEF at
  <2> QED
    BY <1>2, <2>1, <2>3, <2>4, <2>5, <2>6, <2>7
<1>8. \A i \in 1..n : Standing(doc, at(i - 1), ss[i])
  <2>1. \A i \in 1..n : ss[i] \in Seq(Tok) /\ flat[i] = flat[i - 1] \o ss[i]
    BY <1>2, <1>6
  <2> QED
    BY <1>4, <1>7, <2>1, StandInParts
<1>9. \A i \in 0..n : at(i) \in Nat
  BY <1>5, <1>7
<1>10. \A i \in 1..n : at(i - 1) + Len(ss[i]) = at(i)
  <2> TAKE i \in 1..n
  <2>1. Len(flat[i - 1]) \in Nat /\ Len(ss[i]) \in Nat /\ Len(flat[i]) \in Nat
    BY <1>5, <1>6
  <2>2. Len(flat[i]) = Len(flat[i - 1]) + Len(ss[i]) /\ o \in Nat
    BY <1>6, <1>7
  <2> DEFINE x == Len(flat[i - 1])
             y == Len(ss[i])
             z == Len(flat[i])
  <2>3. x \in Nat /\ y \in Nat /\ z = x + y /\ o \in Nat
    BY <2>1, <2>2
  <2> HIDE DEF at, x, y, z
  <2>4. ((o + 1) + x) + y = (o + 1) + z
    BY <2>3
  <2> QED
    BY <2>4 DEF at, x, y, z
<1>11. at(0) = o + 1 /\ at(n) + 1 <= Len(doc) /\ o + 1 <= Len(doc)
       /\ doc[o + 1] = a /\ doc[at(n) + 1] = b
  <2>1. at(0) = o + 1
    BY <1>2, <1>7
  <2>2. Len(<<a>>) = 1 /\ Len(<<b>>) = 1 /\ <<a>>[1] = a /\ <<b>>[1] = b /\ 1 \in 1..1
    OBVIOUS
  <2> HIDE DEF at
  <2> QED
    BY <1>7, <2>1, <2>2 DEF Standing
<1> HIDE DEF at
<1>12. \A i \in 0..n : ~isKey(doc, at(i))
  <2> TAKE i \in 0..n
  <2>1. CASE i = n
    BY <1>3, <1>11, <2>1 DEF isKey
  <2>2. CASE i # n
    <3>1. i + 1 \in 1..n /\ (i + 1) - 1 = i
      BY <2>2
    <3>2. Standing(doc, at(i), ss[i + 1])
      BY <1>8, <3>1
    <3>3. doc[at(i) + 1] = ss[i + 1][1]
      BY <1>6, <3>1, <3>2 DEF Standing
    <3> QED
      BY <1>6, <3>1, <3>3 DEF isKey
  <2> QED
    BY <2>1, <2>2
<1>13. /\ run[o] \in Scanner /\ run[o + 1] \in Scanner
       /\ run[o + 1] = openContainer(run[o])
  <2>1. /\ doc \in Seq(Tok) /\ o + 1 \in 1..Len(doc) /\ run[o] \in Scanner
        /\ run[o + 1] \in Scanner /\ run[o + 1] = scan(doc, run[o], o + 1)
    BY <1>7, <1>11, OneToken
  <2> QED
    BY <1>3, <1>11, <2>1, ScanSteps
<1>14. Inside(run[at(0)], C, keys) /\ run[at(0)].drawn = run[o].drawn
  <2>1. run[o + 1] = [containers |-> C, key |-> scanner.key, drawn |-> run[o].drawn]
    BY <1>13, OpenClose
  <2> HIDE DEF C
  <2>2. run[o + 1].containers = C /\ run[o + 1].key = scanner.key /\ run[o + 1].drawn = run[o].drawn
    BY <2>1
  <2> QED
    BY <1>11, <2>2 DEF Inside
<1>15. \A i \in 1..n : Passes(doc, run, ss[i], C, keys, news[i])
  OBVIOUS
<1> HIDE DEF C
<1> DEFINE upTo(i) == UNION {news[j] : j \in 1..i}
           passed(i) == /\ Inside(run[at(i)], C, keys)
                        /\ ToSet(run[at(i)].drawn) = ToSet(run[o].drawn) \cup upTo(i)
           Done == {i \in Nat : i <= n => passed(i)}
<1>16. 0 \in Done
  <2>1. upTo(0) = {}
    <3>1. 1..0 = {}
      OBVIOUS
    <3> QED
      BY <3>1
  <2> QED
    BY <1>14, <2>1
<1>17. ASSUME NEW i \in Nat, i <= n => passed(i), i + 1 <= n
       PROVE  passed(i + 1)
  <2>1. i + 1 \in 1..n /\ (i + 1) - 1 = i /\ i \in 0..n /\ i + 1 \in 0..n /\ passed(i)
    BY <1>17
  <2>2. /\ at(i) \in Nat /\ Standing(doc, at(i), ss[i + 1]) /\ at(i) + Len(ss[i + 1]) = at(i + 1)
        /\ ~isKey(doc, at(i + 1)) /\ Passes(doc, run, ss[i + 1], C, keys, news[i + 1])
    BY <1>8, <1>9, <1>10, <1>12, <1>15, <2>1
  <2>3. upTo(i + 1) = upTo(i) \cup news[i + 1]
    <3>1. 1..(i + 1) = 1..i \cup {i + 1}
      OBVIOUS
    <3> QED
      BY <3>1
  <2> HIDE DEF upTo
  <2>4. Inside(run[at(i + 1)], C, keys)
        /\ ToSet(run[at(i + 1)].drawn) = ToSet(run[at(i)].drawn) \cup news[i + 1]
    BY <2>1, <2>2 DEF Passes
  <2> QED
    BY <2>1, <2>3, <2>4
<1>18. Done = Nat
  <2> HIDE DEF passed
  <2>1. \A i \in Done : i + 1 \in Done
    BY <1>17
  <2>2. Done \in SUBSET Nat
    OBVIOUS
  <2> HIDE DEF Done
  <2> QED
    BY <1>16, <2>1, <2>2, SimpleInduction
<1>19. passed(n)
  <2>1. n \in Done
    BY <1>18
  <2> HIDE DEF passed
  <2> QED
    BY <2>1
<1>20. /\ run[at(n)] \in Scanner /\ run[at(n) + 1] = closeContainer(run[at(n)])
  <2>1. at(n) \in Nat
    BY <1>9
  <2>2. /\ doc \in Seq(Tok) /\ at(n) + 1 \in 1..Len(doc) /\ run[at(n)] \in Scanner
        /\ run[at(n) + 1] = scan(doc, run[at(n)], at(n) + 1)
    BY <1>11, <2>1, OneToken
  <2> QED
    BY <1>3, <1>11, <2>2, ScanSteps
<1>21. run[at(n) + 1] = [containers |-> run[o].containers, key |-> run[o].key,
                         drawn |-> run[at(n)].drawn]
  <2>1. run[at(n)].containers = Append(run[o].containers, run[o].key)
    BY <1>19 DEF Inside, C
  <2> QED
    BY <1>13, <1>20, <2>1, OpenClose
<1> DEFINE t == run[at(n) + 1]
<1>22. t.containers = run[o].containers /\ t.key = run[o].key /\ t.drawn = run[at(n)].drawn
  <2>1. t = [containers |-> run[o].containers, key |-> run[o].key, drawn |-> run[at(n)].drawn]
    BY <1>21
  <2> HIDE DEF t
  <2> QED
    BY <2>1
<1>23. Grows(run[o], t, upTo(n))
  <2> HIDE DEF t, upTo
  <2> QED
    BY <1>19, <1>22 DEF Grows
<1> QED
  BY <1>7, <1>23 DEF a, b, containerTokens, allOf

\* What is drawn of a value, if it is a string, and of its key.
stringShown(v) ==
    {d \in {[token |-> Token("string", "", v.value.text, v.at),
             style |-> CASE IsResourcePath(v.value.text) -> "link"
                         [] ~IsResourcePath(v.value.text) /\ crosses(enclosing(v.at), {"Oem"}) ->
                                "oem"
                         [] OTHER -> "string"]} : v.value.type = "string"}

keyShown(v) ==
    {d \in {[token |-> Token("string", Last(v.at), NoText, v.at),
             style |-> IF crosses(v.at, {"Oem"}) THEN "oem" ELSE "key"]} :
        v.at # <<>> /\ ~isIndex(Last(v.at))}

\* What is drawn from a place on, and of what is in it.
shownIn(value, path) == UNION {keyShown(v) \cup stringShown(v) : v \in Values[value][path]}
shownBelow(value, path) ==
    UNION {keyShown(v) \cup stringShown(v) : v \in beneath(Values, value, path)}

drawnIn(value, path) == stringShown(place(value, path)) \cup shownBelow(value, path)

\* What is drawn, by the parts of a value.
LEMMA ShownSplits ==
    ASSUME NEW value \in Json, NEW path \in Path
    PROVE  /\ shownIn(value, path) = keyShown(place(value, path)) \cup drawnIn(value, path)
           /\ value.type = "object" =>
                  drawnIn(value, path) =
                      UNION {shownIn(value.members[i].value,
                                     Append(path, value.members[i].key)) :
                                 i \in DOMAIN value.members}
           /\ value.type = "array" =>
                  drawnIn(value, path) =
                      UNION {shownIn(value.elements[i], Append(path, Index[i])) :
                                 i \in DOMAIN value.elements}
           /\ value.type \notin {"object", "array"} =>
                  drawnIn(value, path) = stringShown(place(value, path))
<1>1. Values[value][path] = {place(value, path)} \cup beneath(Values, value, path)
  BY ValuesDefined DEF place
<1>2. shownIn(value, path) = keyShown(place(value, path)) \cup drawnIn(value, path)
  BY <1>1 DEF shownIn, drawnIn, shownBelow
<1>3. value.type # "string" => stringShown(place(value, path)) = {}
  BY DEF stringShown, place
<1>4. ASSUME value.type = "object"
      PROVE  drawnIn(value, path) =
                 UNION {shownIn(value.members[i].value, Append(path, value.members[i].key)) :
                            i \in DOMAIN value.members}
  <2>1. shownBelow(value, path) =
            UNION {shownIn(value.members[i].value, Append(path, value.members[i].key)) :
                       i \in DOMAIN value.members}
    BY <1>4 DEF shownBelow, shownIn, beneath
  <2> QED
    BY <1>3, <1>4, <2>1 DEF drawnIn
<1>5. ASSUME value.type = "array"
      PROVE  drawnIn(value, path) =
                 UNION {shownIn(value.elements[i], Append(path, Index[i])) :
                            i \in DOMAIN value.elements}
  <2>1. shownBelow(value, path) =
            UNION {shownIn(value.elements[i], Append(path, Index[i])) :
                       i \in DOMAIN value.elements}
    BY <1>5 DEF shownBelow, shownIn, beneath
  <2> QED
    BY <1>3, <1>5, <2>1 DEF drawnIn
<1>6. ASSUME value.type \notin {"object", "array"}
      PROVE  drawnIn(value, path) = stringShown(place(value, path))
  BY <1>6 DEF drawnIn, shownBelow, beneath
<1> QED
  BY <1>2, <1>4, <1>5, <1>6

\* The scanner is at a place: it knows whether it is below Oem.
AtPlace(s, path) ==
    /\ insideOEM(s) <=> crosses(enclosing(path), {"Oem"})
    /\ insideOEM(s) \/ s.key = "Oem" <=> crosses(path, {"Oem"})

\* Wherever the tokens of a value stand, it draws what there is of the value.
DrawsAll(doc, run, value) ==
    \A path \in Path : \A o \in Nat :
        LET n == Len(tokens[value][path])
        IN  /\ Standing(doc, o, tokens[value][path])
            /\ ~isKey(doc, o + n) /\ AtPlace(run[o], path)
            => Grows(run[o], run[o + n], drawnIn(value, path))

\* A container tells whether what is in it is below Oem.
Tells(containers, path) == "Oem" \in ToSet(containers) <=> crosses(path, {"Oem"})

\* Its way over an element of an array.
LEMMA ElementPasses ==
    ASSUME NEW doc, NEW run, NEW value \in Json, NEW k \in Names, isIndex(k),
           NEW path \in Path, NEW C, Tells(C, path), DrawsAll(doc, run, value)
    PROVE  Passes(doc, run, tokens[value][Append(path, k)], C, {scanner.key},
                  shownIn(value, Append(path, k)))
<1> DEFINE q == Append(path, k)
           s == tokens[value][q]
<1>1. /\ q \in Path /\ q # <<>> /\ Last(q) = k /\ enclosing(q) = path
      /\ crosses(q, {"Oem"}) <=> crosses(path, {"Oem"}) \/ k = "Oem"
  BY Below
<1>2. k # "Oem" /\ scanner.key # "Oem"
  <2>1. k # "Oem"
    BY NamesAssumption
  <2>2. scanner.key = ""
    BY DEF scanner
  <2> QED
    BY <2>1, <2>2, Zenon
<1>3. keyShown(place(value, q)) = {}
  BY <1>1 DEF keyShown, place
<1> HIDE DEF q
<1>4. shownIn(value, q) = drawnIn(value, q)
  <2>1. shownIn(value, q) = keyShown(place(value, q)) \cup drawnIn(value, q)
    BY <1>1, ShownSplits
  <2> QED
    BY <1>3, <2>1
<1>5. ASSUME NEW p \in Nat, Standing(doc, p, s), ~isKey(doc, p + Len(s)),
             Inside(run[p], C, {scanner.key})
      PROVE  /\ Inside(run[p + Len(s)], C, {scanner.key})
             /\ ToSet(run[p + Len(s)].drawn) = ToSet(run[p].drawn) \cup shownIn(value, q)
  <2>1. run[p].containers = C /\ run[p].key = scanner.key
    BY <1>5 DEF Inside
  <2>2. AtPlace(run[p], q)
    BY <1>1, <1>2, <2>1 DEF AtPlace, insideOEM, Tells
  <2>3. Grows(run[p], run[p + Len(s)], drawnIn(value, q))
    BY <1>1, <1>5, <2>2 DEF DrawsAll
  <2> QED
    BY <1>4, <2>1, <2>3 DEF Grows, Inside
<1> QED
  BY <1>5 DEF Passes, q

\* And over a member of an object: its key, the colon and its value.
LEMMA MemberPasses ==
    ASSUME NEW doc, NEW run, Runs(doc, run), NEW m, m.value \in Json, m.key \in Names,
           ~isIndex(m.key), NEW path \in Path, NEW C, Tells(C, path),
           DrawsAll(doc, run, m.value)
    PROVE  Passes(doc, run, memberTokens(tokens, m, path), C, Names,
                  shownIn(m.value, Append(path, m.key)))
<1> DEFINE q == Append(path, m.key)
           k == keyToken(m.key, path)
           c == mark("colon", q)
           s == tokens[m.value][q]
           all == <<k, c>> \o s
           style == IF crosses(q, {"Oem"}) THEN "oem" ELSE "key"
<1>1. /\ q \in Path /\ q # <<>> /\ Last(q) = m.key /\ enclosing(q) = path
      /\ crosses(q, {"Oem"}) <=> crosses(path, {"Oem"}) \/ m.key = "Oem"
  BY Below
<1>2. /\ k \in Tok /\ c \in Tok /\ c.type = "colon"
      /\ k.type = "string" /\ k.name = m.key
  BY <1>1, TokenType, NoTextType DEF keyToken, Token
<1>3. keyShown(place(m.value, q)) = {[token |-> k, style |-> style]}
  BY <1>1 DEF keyShown, place, keyToken
<1>4. shownIn(m.value, q) = {[token |-> k, style |-> style]} \cup drawnIn(m.value, q)
  BY <1>1, <1>3, ShownSplits
<1>5. s \in Seq(Tok)
  BY <1>1, TokensDefined DEF Begun
<1>6. doc \in Seq(Tok) /\ Len(doc) \in Nat
  BY DEF Runs
<1>7. style \in {"oem", "key", "link", "string"}
  OBVIOUS
<1>8. style = IF crosses(path, {"Oem"}) \/ m.key = "Oem" THEN "oem" ELSE "key"
  BY <1>1
<1> HIDE DEF q, k, c, s, style
<1>9. ASSUME NEW p \in Nat, Standing(doc, p, all), ~isKey(doc, p + Len(all)),
             Inside(run[p], C, Names)
      PROVE  /\ Inside(run[p + Len(all)], C, Names)
             /\ ToSet(run[p + Len(all)].drawn) = ToSet(run[p].drawn) \cup shownIn(m.value, q)
  <2>1. /\ <<k, c>> \in Seq(Tok) /\ Len(<<k, c>>) = 2 /\ Len(s) \in Nat
        /\ <<k, c>>[1] = k /\ <<k, c>>[2] = c
        /\ Len(all) = 2 + Len(s)
    BY <1>2, <1>5
  <2>2. Standing(doc, p, <<k, c>>) /\ Standing(doc, p + 2, s)
    BY <1>5, <1>6, <1>9, <2>1, StandApart
  <2> HIDE DEF all
  <2>3. /\ p + 2 <= Len(doc) /\ doc[p + 1] = k /\ doc[p + 2] = c
    BY <2>1, <2>2 DEF Standing
  <2>4. /\ p + 1 \in Nat /\ p + 1 <= Len(doc) /\ (p + 1) + 1 = p + 2 /\ p + 2 \in Nat
        /\ (p + 2) + Len(s) = p + Len(all)
    BY <1>6, <2>1, <2>3
  <2>5. isKey(doc, p + 1)
    BY <1>2, <1>6, <2>3, <2>4 DEF isKey
  <2>6. /\ p + 1 \in 1..Len(doc) /\ run[p] \in Scanner /\ run[p + 1] \in Scanner
        /\ run[p + 1] = scan(doc, run[p], p + 1)
    BY <2>4, OneToken
  <2>7. /\ p + 2 \in 1..Len(doc)
        /\ run[p + 2] = scan(doc, run[p + 1], p + 2)
    BY <2>3, <2>4, OneToken
  <2>8. run[p + 2] = run[p + 1]
    BY <1>2, <1>6, <2>3, <2>6, <2>7, ScanSteps
  <2> DEFINE u == [run[p] EXCEPT !.key = m.key]
  <2>9. u \in Scanner /\ u.containers = C /\ u.key = m.key /\ u.drawn = run[p].drawn
    BY <1>9, <2>6 DEF Scanner, Inside
  <2> HIDE DEF u
  <2>10. keyStyle(run[p], m.key) = style
    <3>1. insideOEM(run[p]) <=> crosses(path, {"Oem"})
      BY <1>9 DEF insideOEM, Inside, Tells
    <3> QED
      BY <1>8, <3>1 DEF keyStyle
  <2>11. run[p + 1] = draw(u, k, style)
    <3>1. run[p + 1] = draw([run[p] EXCEPT !.key = doc[p + 1].name], doc[p + 1],
                            keyStyle(run[p], doc[p + 1].name))
      BY <1>2, <1>6, <2>3, <2>5, <2>6, ScanSteps
    <3> QED
      BY <1>2, <2>3, <2>10, <3>1 DEF u
  <2>12. /\ run[p + 2].containers = C /\ run[p + 2].key = m.key
         /\ ToSet(run[p + 2].drawn) = ToSet(run[p].drawn) \cup {[token |-> k, style |-> style]}
    <3> DEFINE t == draw(u, k, style)
    <3>1. /\ t.containers = u.containers /\ t.key = u.key
          /\ ToSet(t.drawn) = ToSet(u.drawn) \cup {[token |-> k, style |-> style]}
      BY <1>2, <1>7, <2>9, Draws
    <3>2. run[p + 2] = t
      BY <2>8, <2>11
    <3> HIDE DEF t
    <3> QED
      BY <2>9, <3>1, <3>2
  <2>13. AtPlace(run[p + 2], q)
    BY <1>1, <2>12 DEF AtPlace, insideOEM, Tells
  <2>14. Grows(run[p + 2], run[(p + 2) + Len(s)], drawnIn(m.value, q))
    BY <1>1, <1>9, <2>2, <2>4, <2>13 DEF DrawsAll, s
  <2>15. /\ run[p + Len(all)].containers = C /\ run[p + Len(all)].key = m.key
         /\ ToSet(run[p + Len(all)].drawn) =
                ToSet(run[p + 2].drawn) \cup drawnIn(m.value, q)
    BY <2>4, <2>12, <2>14 DEF Grows
  <2> QED
    BY <1>4, <2>12, <2>15 DEF Inside
<1> QED
  BY <1>9 DEF Passes, memberTokens, q, k, c, s

\* Drawing one more changes nothing else.
LEMMA DrawsGrows ==
    ASSUME NEW s \in Scanner, NEW token \in Tok, NEW style \in {"oem", "key", "link", "string"}
    PROVE  Grows(s, draw(s, token, style), {[token |-> token, style |-> style]})
BY Draws DEF Grows

\* The scanner draws what there is of a value, for values of any depth and width.
LEMMA ScannerDraws ==
    ASSUME NEW doc, NEW run, Runs(doc, run), NEW value \in Json
    PROVE  DrawsAll(doc, run, value)
<1> DEFINE G == {v \in Json : DrawsAll(doc, run, v)}
<1>1. ASSUME NEW v \in Json, \A y \in Json : depth[y] < depth[v] => DrawsAll(doc, run, y),
             NEW path \in Path, NEW o \in Nat, Standing(doc, o, tokens[v][path]),
             ~isKey(doc, o + Len(tokens[v][path])), AtPlace(run[o], path)
      PROVE  Grows(run[o], run[o + Len(tokens[v][path])], drawnIn(v, path))
  <2> DEFINE s == tokens[v][path]
             C == Append(run[o].containers, run[o].key)
  <2>1. /\ s = tokensStep(tokens, v)[path] /\ s \in Seq(Tok) /\ Len(s) \in Nat
        /\ s # <<>> /\ doc \in Seq(Tok) /\ Len(doc) \in Nat
    <3>1. s \in Begun /\ tokens[v] = tokensStep(tokens, v)
      BY TokensDefined
    <3>2. s \in Seq(Tok) /\ s # <<>>
      BY <3>1 DEF Begun
    <3> HIDE DEF s
    <3>3. Len(s) \in Nat
      BY <3>2
    <3>4. doc \in Seq(Tok) /\ Len(doc) \in Nat
      BY DEF Runs
    <3> QED
      BY <3>1, <3>2, <3>3, <3>4 DEF s
  <2>2. Len(s) >= 1 /\ Standing(doc, o, s) /\ ~isKey(doc, o + Len(s))
    <3>1. Standing(doc, o, s) /\ ~isKey(doc, o + Len(s))
      BY <1>1
    <3> HIDE DEF s
    <3> QED
      BY <2>1, <3>1
  <2> HIDE DEF s
  <2>3. o + 1 <= Len(doc) /\ doc[o + 1] = s[1]
    BY <2>1, <2>2 DEF Standing
  <2>4. /\ run[o] \in Scanner /\ run[o + 1] \in Scanner /\ o + 1 \in 1..Len(doc)
        /\ run[o + 1] = scan(doc, run[o], o + 1)
    BY <2>3, OneToken
  <2>5. Tells(C, path)
    <3>1. openContainer(run[o]) \in Scanner
          /\ openContainer(run[o]).containers = C
          /\ (insideOEM(openContainer(run[o])) <=> insideOEM(run[o]) \/ run[o].key = "Oem")
      <4> DEFINE u == openContainer(run[o])
      <4>1. /\ u = [containers |-> C, key |-> scanner.key, drawn |-> run[o].drawn]
            /\ u \in Scanner
            /\ (insideOEM(u) <=> insideOEM(run[o]) \/ run[o].key = "Oem")
        BY <2>4, OpenClose
      <4> HIDE DEF u, C
      <4>2. u.containers = C
        BY <4>1
      <4> QED
        BY <4>1, <4>2 DEF u
    <3> HIDE DEF C
    <3> QED
      BY <1>1, <3>1 DEF Tells, AtPlace, insideOEM
  <2>6. CASE v.type = "object"
    <3> DEFINE n == Len(v.members)
               ss == [i \in DOMAIN v.members |-> memberTokens(tokens, v.members[i], path)]
               news == [i \in DOMAIN v.members |->
                            shownIn(v.members[i].value, Append(path, v.members[i].key))]
    <3>1. n \in Nat /\ DOMAIN v.members = 1..n
      BY <2>6, MemberType
    <3>2. s = containerTokens(path, ss)
      BY <2>1, <2>6 DEF tokensStep, containerTokens
    <3>3. ss \in [1..n -> Begun]
      BY <2>6, <3>1, TokensDefined, TokensStepType
    <3>4. ASSUME NEW i \in 1..n PROVE Passes(doc, run, ss[i], C, Names, news[i])
      <4> DEFINE m == v.members[i]
      <4>1. /\ m.value \in Json /\ m.key \in Names /\ ~isIndex(m.key)
            /\ depth[m.value] < depth[v]
        BY <2>6, <3>1, MemberType
      <4>2. DrawsAll(doc, run, m.value)
        BY <1>1, <4>1
      <4>3. ss[i] = memberTokens(tokens, m, path) /\ news[i] = shownIn(m.value, Append(path, m.key))
        BY <3>1
      <4> HIDE DEF m, C, ss, news
      <4> QED
        BY <2>5, <4>1, <4>2, <4>3, MemberPasses
    <3>5. drawnIn(v, path) = allOf(news, n)
      <4>1. drawnIn(v, path) =
                UNION {shownIn(v.members[i].value, Append(path, v.members[i].key)) :
                           i \in DOMAIN v.members}
        BY <2>6, ShownSplits
      <4> QED
        BY <3>1, <4>1 DEF allOf
    <3>6. scanner.key \in Names
      BY NamesAssumption DEF scanner
    <3> HIDE DEF n, ss, news
    <3>7. Grows(run[o], run[o + Len(s)], allOf(news, n))
      <4> DEFINE all == containerTokens(path, ss)
      <4>1. Standing(doc, o, all)
        BY <2>2, <3>2
      <4> HIDE DEF all
      <4>2. \A i \in 1..n : Passes(doc, run, ss[i], Append(run[o].containers, run[o].key),
                                    Names, news[i])
        BY <3>4
      <4>3. Grows(run[o], run[o + Len(all)], allOf(news, n))
        BY <3>1, <3>3, <3>6, <4>1, <4>2, ContainerDraws DEF all
      <4> QED
        BY <3>2, <4>3 DEF all
    <3> QED
      BY <3>5, <3>7 DEF s
  <2>7. CASE v.type = "array"
    <3> DEFINE n == Len(v.elements)
               ss == [i \in DOMAIN v.elements |-> tokens[v.elements[i]][Append(path, Index[i])]]
               news == [i \in DOMAIN v.elements |-> shownIn(v.elements[i], Append(path, Index[i]))]
    <3>1. n \in Nat /\ DOMAIN v.elements = 1..n
      BY <2>7, ElementType
    <3>2. s = containerTokens(path, ss)
      BY <2>1, <2>7 DEF tokensStep, containerTokens
    <3>3. ss \in [1..n -> Begun]
      BY <2>7, <3>1, TokensDefined, TokensStepType
    <3>4. ASSUME NEW i \in 1..n PROVE Passes(doc, run, ss[i], C, {scanner.key}, news[i])
      <4> DEFINE e == v.elements[i]
      <4>1. /\ e \in Json /\ Index[i] \in Names /\ isIndex(Index[i])
            /\ depth[e] < depth[v]
        BY <2>7, <3>1, ElementType
      <4>2. DrawsAll(doc, run, e)
        BY <1>1, <4>1
      <4>3. ss[i] = tokens[e][Append(path, Index[i])] /\ news[i] = shownIn(e, Append(path, Index[i]))
        BY <3>1
      <4> HIDE DEF e, C, ss, news
      <4> QED
        BY <2>5, <4>1, <4>2, <4>3, ElementPasses
    <3>5. drawnIn(v, path) = allOf(news, n)
      <4>1. drawnIn(v, path) =
                UNION {shownIn(v.elements[i], Append(path, Index[i])) : i \in DOMAIN v.elements}
        BY <2>7, ShownSplits
      <4> QED
        BY <3>1, <4>1 DEF allOf
    <3> HIDE DEF n, ss, news
    <3>7. Grows(run[o], run[o + Len(s)], allOf(news, n))
      <4> DEFINE all == containerTokens(path, ss)
      <4>1. Standing(doc, o, all)
        BY <2>2, <3>2
      <4> HIDE DEF all
      <4>2. \A i \in 1..n : Passes(doc, run, ss[i], Append(run[o].containers, run[o].key),
                                    {scanner.key}, news[i])
        BY <3>4
      <4>3. Grows(run[o], run[o + Len(all)], allOf(news, n))
        BY <3>1, <3>3, <4>1, <4>2, ContainerDraws DEF all
      <4> QED
        BY <3>2, <4>3 DEF all
    <3> QED
      BY <3>5, <3>7 DEF s
  <2>8. CASE v.type = "string"
    <3> DEFINE token == Token("string", "", v.text, path)
               style == valueStyle(run[o], v.text)
    <3>1. s = <<token>> /\ token.type = "string" /\ token.text = v.text
      <4>1. s = <<token>>
        BY <2>1, <2>8 DEF tokensStep
      <4> QED
        BY <4>1 DEF Token
    <3> HIDE DEF token
    <3>2. Len(s) = 1 /\ doc[o + 1] = token /\ ~isKey(doc, o + 1) /\ token \in Tok
      <4>1. Len(s) = 1 /\ s[1] = token
        BY <3>1
      <4>2. token \in Tok
        BY <2>1, <3>1, <4>1
      <4> QED
        BY <2>2, <2>3, <4>1, <4>2
    <3>3. run[o + 1] = draw(run[o], token, style)
      BY <2>1, <2>4, <3>1, <3>2, ScanSteps
    <3>4. style \in {"oem", "key", "link", "string"}
      BY Styles
    <3>5. drawnIn(v, path) = {[token |-> token, style |-> style]}
      <4>1. drawnIn(v, path) = stringShown(place(v, path))
        BY <2>8, ShownSplits
      <4>2. style = CASE IsResourcePath(v.text) -> "link"
                      [] ~IsResourcePath(v.text) /\ crosses(enclosing(path), {"Oem"}) -> "oem"
                      [] OTHER -> "string"
        BY <1>1 DEF valueStyle, AtPlace
      <4> HIDE DEF style
      <4>3. stringShown(place(v, path)) = {[token |-> token, style |-> style]}
        BY <2>8, <4>2 DEF stringShown, place, token
      <4> QED
        BY <4>1, <4>3
    <3> HIDE DEF style
    <3>6. Grows(run[o], run[o + 1], {[token |-> token, style |-> style]})
      <4>1. run[o] \in Scanner /\ token \in Tok
        BY <2>4, <3>2
      <4>2. Grows(run[o], draw(run[o], token, style), {[token |-> token, style |-> style]})
        BY <3>4, <4>1, DrawsGrows, Zenon
      <4> QED
        BY <3>3, <4>2
    <3> QED
      BY <3>2, <3>5, <3>6 DEF s
  <2>9. CASE v.type \notin {"object", "array", "string"}
    <3>1. s = <<mark("other", path)>>
      BY <2>1, <2>9 DEF tokensStep
    <3>2. mark("other", path).type = "other"
      BY TokenType
    <3>3. Len(s) = 1 /\ doc[o + 1] = mark("other", path)
      BY <2>3, <3>1
    <3>4. run[o + 1] = run[o]
      <4>1. doc[o + 1].type \in {"colon", "other"}
        BY <3>2, <3>3
      <4>2. scan(doc, run[o], o + 1) = run[o]
        BY <2>1, <2>4, <4>1, ScanSteps
      <4> QED
        BY <2>4, <4>2
    <3>5. drawnIn(v, path) = {}
      <4>1. drawnIn(v, path) = stringShown(place(v, path))
        BY <2>9, ShownSplits
      <4> QED
        BY <2>9, <4>1 DEF stringShown, place
    <3> QED
      BY <3>3, <3>4, <3>5 DEF s, Grows
  <2> QED
    BY <2>6, <2>7, <2>8, <2>9
<1>2. ASSUME NEW v \in Json, \A y \in Json : depth[y] < depth[v] => y \in G PROVE v \in G
  <2>1. \A y \in Json : depth[y] < depth[v] => DrawsAll(doc, run, y)
    BY <1>2
  <2>2. DrawsAll(doc, run, v)
    BY <1>1, <2>1 DEF DrawsAll
  <2> QED
    BY <2>2
<1>3. G \subseteq Json
  OBVIOUS
<1>4. G = Json
  <2>1. \A v \in Json : (\A y \in Json : depth[y] < depth[v] => y \in G) => v \in G
    BY <1>2
  <2> HIDE DEF G
  <2> QED
    BY <1>3, <2>1, JsonInduction
<1> QED
  BY <1>4

\* One step of the scanner's way over a document.
runStep(doc, run) ==
    [n \in 0..Len(doc) |-> IF n = 0 THEN scanner ELSE scan(doc, run[n - 1], n)]

\* The scanner has a way over every document.
LEMMA ScannerRuns ==
    ASSUME NEW doc \in Seq(Tok), NEW run, run = CHOOSE r : r = runStep(doc, r)
    PROVE  Runs(doc, run) /\ run[0] = scanner
<1> DEFINE D == 0..Len(doc)
           F == [r \in [D -> Scanner] |-> runStep(doc, r)]
           down == [n \in D |-> n]
<1>0. Len(doc) \in Nat
  OBVIOUS
<1>1. scanner \in Scanner
  <2>1. scanner = [containers |-> <<>>, key |-> scanner.key, drawn |-> <<>>]
    BY DEF scanner
  <2>2. scanner.key \in Names
    BY NamesAssumption DEF scanner
  <2>3. <<>> \in Seq(Names) /\ <<>> \in Seq(Drawn)
    OBVIOUS
  <2>4. [containers |-> <<>>, key |-> scanner.key, drawn |-> <<>>] \in Scanner
    BY <2>2, <2>3 DEF Scanner
  <2> QED
    BY <2>1, <2>4
<1>2. ASSUME NEW r \in [D -> Scanner] PROVE runStep(doc, r) \in [D -> Scanner]
  <2>1. ASSUME NEW n \in D, n # 0 PROVE scan(doc, r[n - 1], n) \in Scanner
    <3>1. n \in 1..Len(doc) /\ n - 1 \in D
      BY <1>0, <2>1
    <3>2. r[n - 1] \in Scanner
      BY <3>1
    <3> QED
      BY <3>1, <3>2, ScanType
  <2> QED
    BY <1>1, <2>1 DEF runStep
<1>3. GoesDown(F, D, Scanner, down)
  <2>1. F \in [[D -> Scanner] -> [D -> Scanner]]
    <3> HIDE DEF D
    <3> QED
      BY <1>2
  <2>2. down \in [D -> Nat]
    BY <1>0
  <2>3. ASSUME NEW g \in [D -> Scanner], NEW h \in [D -> Scanner], NEW n \in D,
               \A m \in D : down[m] < down[n] => g[m] = h[m]
        PROVE  runStep(doc, g)[n] = runStep(doc, h)[n]
    <3>1. n # 0 => n - 1 \in D /\ down[n - 1] < down[n]
      BY <1>0
    <3>2. n # 0 => g[n - 1] = h[n - 1]
      BY <2>3, <3>1
    <3> QED
      BY <3>2 DEF runStep
  <2>4. \A g, h \in [D -> Scanner] : \A n \in D :
           (\A m \in D : down[m] < down[n] => g[m] = h[m]) => F[g][n] = F[h][n]
    <3> HIDE DEF D, down
    <3> QED
      BY <2>3
  <2> HIDE DEF D, F, down
  <2> QED
    BY <2>1, <2>2, <2>4 DEF GoesDown
<1>4. PICK f \in [D -> Scanner] : F[f] = f
  <2> HIDE DEF D, F, down
  <2> QED
    BY <1>1, <1>3, Recursion
<1>5. f = runStep(doc, f)
  BY <1>4
<1>6. run = runStep(doc, run)
  BY <1>5
<1>7. run = f
  <2> DEFINE Same == {n \in D : run[n] = f[n]}
  <2>1. ASSUME NEW n \in D, \A m \in D : down[m] < down[n] => m \in Same
        PROVE  n \in Same
    <3>1. n # 0 => n - 1 \in D /\ down[n - 1] < down[n]
      BY <1>0
    <3>2. n # 0 => run[n - 1] = f[n - 1]
      BY <2>1, <3>1
    <3>3. /\ runStep(doc, run)[n] = IF n = 0 THEN scanner ELSE scan(doc, run[n - 1], n)
          /\ runStep(doc, f)[n] = IF n = 0 THEN scanner ELSE scan(doc, f[n - 1], n)
      BY DEF runStep
    <3>4. runStep(doc, run)[n] = runStep(doc, f)[n]
      BY <3>2, <3>3
    <3> QED
      BY <1>5, <1>6, <3>4
  <2>2. Same = D
    <3>1. \A n \in D : (\A m \in D : down[m] < down[n] => m \in Same) => n \in Same
      BY <2>1
    <3>2. Same \in SUBSET D
      OBVIOUS
    <3>3. down \in [D -> Nat]
      BY <1>0
    <3> HIDE DEF Same, D, down
    <3> QED
      BY <3>1, <3>2, <3>3, DepthInduction
  <2>3. \A n \in D : run[n] = f[n]
    BY <2>2
  <2>4. DOMAIN run = D /\ run = [n \in D |-> run[n]]
    <3>1. DOMAIN runStep(doc, run) = D /\ runStep(doc, run) = [n \in D |-> runStep(doc, run)[n]]
      BY DEF runStep
    <3> QED
      BY <1>6, <3>1
  <2> HIDE DEF D
  <2> QED
    BY <2>3, <2>4
<1>8. run[0] = scanner
  <2>1. runStep(doc, run)[0] = scanner
    BY <1>0 DEF runStep
  <2> QED
    BY <1>6, <2>1
<1>9. \A i \in 1..Len(doc) : run[i] = scan(doc, run[i - 1], i)
  <2> TAKE i \in 1..Len(doc)
  <2>1. i \in 0..Len(doc) /\ i # 0
    OBVIOUS
  <2>2. runStep(doc, run)[i] = scan(doc, run[i - 1], i)
    BY <2>1 DEF runStep
  <2> QED
    BY <1>6, <2>2
<1>10. run \in [0..Len(doc) -> Scanner]
  BY <1>4, <1>7
<1> QED
  BY <1>8, <1>9, <1>10 DEF Runs

\* What is drawn of a body.
LEMMA BodyDrawn ==
    ASSUME NEW body \in Json, body.type \notin {"none", "broken"}
    PROVE  ToSet(Colorize(body)) = drawnIn(body, <<>>)
<1> DEFINE doc == tokens[body][<<>>]
           run == CHOOSE r : r = runStep(doc, r)
<1>1. Colorize(body) = run[Len(doc)].drawn
  BY DEF Colorize, runStep
<1>2. <<>> \in Path
  BY DEF Path
<1>3. doc \in Seq(Tok)
  BY <1>2, TokensDefined DEF Begun
<1>4. Runs(doc, run) /\ run[0] = scanner
  <2> HIDE DEF doc
  <2> QED
    BY <1>3, ScannerRuns
<1> HIDE DEF run
<1>5. DrawsAll(doc, run, body)
  <2> HIDE DEF doc
  <2> QED
    BY <1>4, ScannerDraws
<1>6. /\ Standing(doc, 0, doc) /\ ~isKey(doc, 0 + Len(doc)) /\ 0 + Len(doc) = Len(doc)
  <2> HIDE DEF doc
  <2> QED
    BY <1>3 DEF Standing, isKey
<1>7. AtPlace(scanner, <<>>) /\ ToSet(scanner.drawn) = {}
  <2>1. scanner.containers = <<>> /\ scanner.drawn = <<>> /\ scanner.key # "Oem"
    BY Zenon DEF scanner
  <2>2. enclosing(<<>>) = <<>> /\ ToSet(<<>>) = {} /\ ~crosses(<<>>, {"Oem"})
    BY DEF enclosing, ToSet, crosses
  <2> QED
    BY <2>1, <2>2 DEF AtPlace, insideOEM
<1>8. Grows(run[0], run[0 + Len(doc)], drawnIn(body, <<>>))
  BY <1>2, <1>4, <1>5, <1>6, <1>7 DEF DrawsAll
<1> QED
  BY <1>1, <1>4, <1>6, <1>7, <1>8 DEF Grows
=============================================================================
