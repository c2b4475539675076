----------------------------- MODULE MCExplorer ------------------------------
(***************************************************************************)
(* Small services for TLC.  The first has the root, a collection that is   *)
(* linked with a trailing slash and walked up to without one, and a member *)
(* of it.  The second, for the runs with more keys, clocks or fairness,    *)
(* has the root and one collection.  The third is the second with a page   *)
(* that does not fit on the smallest screen, a link that leaves the        *)
(* endpoint, and a URL and blanks to type.  A resource goes by a name in   *)
(* the runs, and what the code makes of it is computed from what the name  *)
(* spells.                                                                 *)
(***************************************************************************)
EXTENDS ExplorerClaims, TLC

P == INSTANCE RedfishPath
J == INSTANCE MCJson

root == "/redfish/v1"
systems == "/redfish/v1/Systems"
slashed == "/redfish/v1/Systems/"
one == "/redfish/v1/Systems/1"
ownRoot == "https://bmc/redfish/v1"
ownSystems == "https://bmc/redfish/v1/Systems"
ownSlashed == "https://bmc/redfish/v1/Systems/"
ownOne == "https://bmc/redfish/v1/Systems/1"
offHost == "https://elsewhere/"
blanks == " "
glued == "another host"

Spelling ==
    LET paths == ("" :> <<>>) @@ (root :> <<"redfish", "v1">>)
                 @@ (systems :> <<"redfish", "v1", "Systems">>)
                 @@ (slashed :> <<"redfish", "v1", "Systems", "">>)
                 @@ (one :> <<"redfish", "v1", "Systems", "1">>)
        urls == (ownRoot :> paths[root]) @@ (ownSystems :> paths[systems])
                @@ (ownSlashed :> paths[slashed]) @@ (ownOne :> paths[one])
    IN  [n \in DOMAIN paths |-> P!text("/", paths[n])]
        @@ [n \in DOMAIN urls |-> P!text("own", urls[n])]
        @@ (offHost :> P!text("other", <<"">>))
        @@ (blanks :> [P!NoText EXCEPT !.blank = "before"])

\* The name of a string, glued if it is none of those above.
Name(t) ==
    IF \E n \in DOMAIN Spelling : Spelling[n] = t
    THEN CHOOSE n \in DOMAIN Spelling : Spelling[n] = t
    ELSE glued

ResolveOver(S) ==
    [r \in S |-> LET u == P!resolve(Spelling[r]) IN IF u = P!refusal THEN Refused ELSE Name(u)]
PathOfOver(S) == [u \in S |-> Name(P!editedResource(Spelling[u]))]
ParentOver(S) == [r \in S |-> Name(P!parent(Spelling[r]))]
BareOver(S) == [r \in S |-> P!trimmed(Spelling[r])]
TrimOver(S) == [r \in S |-> Name(P!trimSpace(Spelling[r]))]
CurlOver(S) == [r \in S |-> Name(P!renderCurl(Spelling[r]))]

-----------------------------------------------------------------------------
(* Pages stand for documents.  Their rows are given as tables, which TLC looks up  *)
(* faster than it extracts them, and compares with what the documents yield.       *)

\* The names in the documents, in an order that is the same in either case.
Alphabet ==
    <<"<end>", " ", "%20", "", "#Contoso.Reset", "#Reset", "/", "1", "@Redfish.ActionInfo",
      "@odata.id", "[0]", "[1]", "Actions", "Contoso", "other", "Link", "Members", "Oem",
      "redfish", "Systems", "target", "unnamed", "v1">>

Places == [n \in {Alphabet[i] : i \in DOMAIN Alphabet} |->
              CHOOSE i \in DOMAIN Alphabet : Alphabet[i] = n]

header == [kind |-> "header", target |-> "", info |-> "", disabled |-> FALSE]

link(r) == [header EXCEPT !.kind = "link", !.target = r]
action(r, i) == [header EXCEPT !.kind = "action", !.target = r, !.info = i]

only(key, value) == J!object(<<J!member(key, value)>>)
id(r) == only("@odata.id", J!string(Spelling[r]))
target(r) == only("target", J!string(Spelling[r]))
ofVendor(key, value) == J!member("Oem", only("Contoso", only(key, value)))

-----------------------------------------------------------------------------
MCResource == {"", root, systems, slashed, one}
MCUrl == {ownRoot, ownSystems, ownSlashed, ownOne}
MCResolve == ResolveOver(MCResource)
MCPathOf == PathOfOver(MCUrl)
MCParent == ParentOver(MCResource)
MCBare == BareOver(MCResource)
MCTrim == TrimOver(MCResource)
MCCurl == CurlOver(MCResource)

\* Without the slash the list also names itself.  It names its member as its first
\* row or, once an action has appeared, as its third: a remembered row can point at
\* something else by the time it is used, even at a heading.
MCPage == {"rootPage", "memberPage", "listPage", "actionPage", "onePage"}
MCPages ==
    (ownRoot :> {"rootPage"}) @@ (ownSystems :> {"listPage", "actionPage"})
    @@ (ownSlashed :> {"memberPage"}) @@ (ownOne :> {"onePage"})
MCLinks ==
    ("rootPage" :> <<header, link(slashed)>>)
    @@ ("memberPage" :> <<header, link(one)>>)
    @@ ("listPage" :> <<header, link(one), link(systems)>>)
    @@ ("actionPage" :> <<header, action(systems, ""), header, link(one)>>)
    @@ ("onePage" :> <<>>)

MCDocument ==
    ("rootPage" :> only("Systems", id(slashed)))
    @@ ("memberPage" :> only("Members", J!array(<<id(one)>>)))
    @@ ("listPage" :> only("Members", J!array(<<id(systems), id(one)>>)))
    @@ ("actionPage" :> J!object(
            <<ofVendor("Link", id(one)), J!member("Actions", only("#Reset", target(systems)))>>))
    @@ ("onePage" :> J!object(<<>>))

-----------------------------------------------------------------------------
SmallResource == {"", root, systems}
SmallUrl == {ownRoot, ownSystems}
SmallResolve == ResolveOver(SmallResource)
SmallPathOf == PathOfOver(SmallUrl)
SmallParent == ParentOver(SmallResource)
SmallBare == BareOver(SmallResource)
SmallTrim == TrimOver(SmallResource)
SmallCurl == CurlOver(SmallResource)

\* The service's action, which has no ActionInfo, and the vendor's, which has.
actions ==
    J!member("Actions", J!object(
        <<J!member("Oem", only("#Contoso.Reset", J!object(
              <<J!member("target", J!string(Spelling[systems])),
                J!member("@Redfish.ActionInfo", J!string(Spelling[ownRoot]))>>))),
          J!member("#Reset", target(systems))>>))

SmallPage == {"rootPage", "actionPage", "errorPage"}
SmallPages == (ownRoot :> {"rootPage"}) @@ (ownSystems :> {"actionPage", "errorPage"})
SmallLinks ==
    ("rootPage" :> <<header, link(systems)>>)
    @@ ("actionPage" :> <<header, action(systems, ""), header, action(systems, root)>>)
    @@ ("errorPage" :> <<>>)

SmallDocument ==
    ("rootPage" :> only("Systems", id(systems)))
    @@ ("actionPage" :> J!object(<<actions>>))
    @@ ("errorPage" :> J!Broken)

-----------------------------------------------------------------------------
\* The last row of the long page is the eighth; on the smallest screen there is
\* room for seven.
UIResource == SmallResource \cup {ownSystems, offHost, blanks}
UIResolve == ResolveOver(UIResource)
UIParent == ParentOver(UIResource)
UIBare == BareOver(UIResource)
UITrim == TrimOver(UIResource)
UICurl == CurlOver(UIResource)
UILinks ==
    [SmallLinks EXCEPT !["actionPage"] =
        <<header, link(offHost), link(root), header, action(systems, ""),
          header, action(systems, root)>>]

UIDocument ==
    [SmallDocument EXCEPT !["actionPage"] =
        J!object(<<J!member("Members", J!array(<<id(offHost), id(root)>>)), actions>>)]

-----------------------------------------------------------------------------
AllValues ==
    UNION {J!parts(d) : d \in {MCDocument[p] : p \in MCPage}
                            \cup {SmallDocument[p] : p \in SmallPage}
                            \cup {UIDocument[p] : p \in SmallPage}}

X == INSTANCE LinkExtraction WITH
         Json <- AllValues, depth <- [v \in AllValues |-> J!nesting(v)],
         Index <- <<"[0]", "[1]">>, Responses <- {}, Annotations <- {},
         listing <- <<>>, listed <- FALSE,
         Vendor <- ("#Contoso.Reset" :> "Contoso") @@ ("#Reset" :> ""),
         Lower <- [n \in DOMAIN Places |-> n], Rank <- Places

\* The headings and links of a document, without the ".." row.
flatten(document) ==
    LET groups == X!ExtractLinks([body |-> document, headers |-> <<>>])
        row(l) == [header EXCEPT !.kind = IF l.kind = "action" THEN "action" ELSE "link",
                                 !.target = Name(l.target), !.info = Name(l.info)]
    IN  J!FlattenSeq([g \in DOMAIN groups |->
            <<header>> \o [i \in DOMAIN groups[g].links |-> row(groups[g].links[i])]])

\* ExtractLinks yields the rows that the runs start from.
ASSUME RowsAreExtracted ==
    /\ MCLinks = [page \in MCPage |-> flatten(MCDocument[page])]
    /\ SmallLinks = [page \in SmallPage |-> flatten(SmallDocument[page])]
    /\ UILinks = [page \in SmallPage |-> flatten(UIDocument[page])]

\* What the keys and properties of the screen run can tell apart: not what a closed
\* editor still holds, nor the trail, as there is no key to go back, nor where the
\* viewport is and what was asked for before.
InSight ==
    <<cacheVars, fetches, running, place, cursor, pending, pendingNav, pendingLanding,
      loading, notice, mode, IF mode = "edit" THEN typed ELSE Blank, editErr,
      clipboard, panes, showHeaders, content>>

Slots == Permutations(Slot)
=============================================================================
