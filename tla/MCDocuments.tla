----------------------------- MODULE MCDocuments ------------------------------
(***************************************************************************)
(* Documents for TLC: of one branch through up to three keys or array      *)
(* elements, or of two, one through up to two and the other from a short   *)
(* list, in either order.  Both may name the same resource, so that every  *)
(* rule about mentioning something twice gets its cases.  TLC evaluates    *)
(* what it finds here once, before the modules that use it.                *)
(***************************************************************************)
EXTENDS MCJson

\* What is in the documents, in alphabetical order, and in lower case where that
\* differs; a URL of another host begins with its scheme.  Where a segment ends goes
\* before a slash, and so does a blank.
Alphabet ==
    <<"<end>", " ", "%20", "", "#Contoso.Reset", "#Reset", "#contoso.reset", "#reset", "/",
      "@Redfish.ActionInfo", "@Redfish.Settings", "@odata.context", "@odata.id",
      "@odata.type", "@redfish.settings", "Actions", "Bios", "Content-Location",
      "Contoso", "Link", "Links", "Location", "Members", "Oem", "Thermal", "Uri", "V1",
      "[0]", "[1]", "[2]", "a", "actions", "b", "bios", "content-location", "contoso",
      "other", "own", "link", "links", "location", "members", "none", "oem", "redfish",
      "self", "target", "thermal", "unnamed", "uri", "v1", "words">>

LowerCase ==
    ("#Contoso.Reset" :> "#contoso.reset") @@ ("#Reset" :> "#reset")
    @@ ("@Redfish.Settings" :> "@redfish.settings") @@ ("Actions" :> "actions")
    @@ ("Bios" :> "bios") @@ ("Content-Location" :> "content-location")
    @@ ("Contoso" :> "contoso") @@ ("Link" :> "link") @@ ("Links" :> "links")
    @@ ("Location" :> "location") @@ ("Members" :> "members") @@ ("Oem" :> "oem")
    @@ ("Thermal" :> "thermal") @@ ("Uri" :> "uri") @@ ("V1" :> "v1")

Places == [n \in ToSet(Alphabet) |-> CHOOSE i \in DOMAIN Alphabet : Alphabet[i] = n]
Lowered == LowerCase @@ [n \in ToSet(Alphabet) |-> n]

-----------------------------------------------------------------------------
\* A path below the service root, as a path or as a URL.
at(host, name) == text(host, <<"redfish", "v1", name>>)
a == at("/", "a")
b == at("/", "b")
me == at("/", "self")

spaced(where, t) == [t EXCEPT !.blank = where]
words == text("none", <<"words">>)

only(key, value) == object(<<member(key, value)>>)
id(t) == only("@odata.id", string(t))

Ends ==
    {string(a), string(me), string(words), number,
     id(a), id(me), id(at("own", "a")), id(at("other", "a")), id(rootPath),
     only("@odata.id", number), only("@odata.context", string(a)),
     only("target", string(at("own", "a"))),
     object(<<member("@odata.id", string(rootPath)), member("Uri", string(a))>>),
     object(<<member("target", string(a)),
              member("@Redfish.ActionInfo", string(at("own", "self")))>>),
     id(text("own", <<>>)), string(text("/", <<"redfish", "V1", "a">>)),
     id(spaced("before", a)), id(spaced("behind", a)), id(spaced("before", NoText)),
     id(spaced("before", at("own", "a"))), id(spaced("behind", at("own", "a"))),
     string(spaced("behind", a)),
     object(<<member("target", string(spaced("before", a))),
              member("@Redfish.ActionInfo", string(spaced("behind", me)))>>),
     only("@odata.type", string(words)),
     only("@odata.type", only("@odata.type", string(words))),
     array(<<only("Oem", number), only("Uri", string(words))>>)}

\* The keys a branch starts with, and those further down.
Inner == {"Bios", "Oem", "Actions", "#Contoso.Reset", "[0]"}
Outer == {"Bios", "Oem", "Actions", "Links", "Members", "@Redfish.Settings"}

wrap(key, value) == IF key = "[0]" THEN array(<<value>>) ELSE only(key, value)

Below(values) == {wrap(k, v) : k \in Inner, v \in values}

Under(values) == {member(k, v) : k \in Outer, v \in values}

Shallow == Under(Ends \cup Below(Ends))
Deep == Under(Below(Below(Ends)))

Seconds ==
    {member("Link", id(a)), member("Uri", string(a)),
     member("Link", only("uri", string(b))),
     member("Oem", only("Contoso", only("Thermal", id(a)))),
     member("Actions", only("Oem", only("#Contoso.Reset", only("target", string(a))))),
     member("Actions", only("Oem", only("#Reset", only("target", string(a))))),
     member("Actions", only("#Reset", only("target", string(a))))}

\* Keys of an object are unique.
Firsts == {f \in Shallow : \A s \in Seconds : f.key # s.key}

Own == <<member("@odata.id", string(at("own", "self")))>>

Documents ==
    {object(Own \o ms) :
        ms \in {<<f>> : f \in Shallow \cup Deep}
               \cup {<<f, s>> : f \in Firsts, s \in Seconds}
               \cup {<<s, f>> : f \in Firsts, s \in Seconds}}
    \cup {object(<<f>>) : f \in Shallow \cup Deep}
    \cup {array(<<id(a), string(me)>>), string(a), number, Bodiless, Broken}

-----------------------------------------------------------------------------
\* What they consist of, both ways round.
Upright == UNION {parts(d) : d \in Documents}
AllValues == Upright \cup {reversed(v) : v \in Upright}
=============================================================================
