------------------------------ MODULE BodyColors ------------------------------
(***************************************************************************)
(* How a body is drawn (internal/tui/jsonfmt.go): a scanner goes over the  *)
(* tokens of the indented document, with the keys of the containers it is  *)
(* in on a stack, and picks a colour for each string.  Also OEMTypes of    *)
(* internal/redfish/oem.go, which walks the same document for the schemas  *)
(* of vendors.  The colours of punctuation and numbers, and the one of     *)
(* annotations, are left out.                                              *)
(***************************************************************************)
EXTENDS LinkExtraction

\* A token.  A string has a name if it is a key and a text if it is a value; at, the
\* path of the value it belongs to, is not known to the scanner.
Token(type, name, t, path) == [type |-> type, name |-> name, text |-> t, at |-> path]

mark(type, path) == Token(type, "", NoText, path)

\* Pretty: the tokens of a document, in its own order.  Commas separate nothing the
\* scanner tells apart.
tokens[value \in Json] ==
    [path \in Path |->
        CASE value.type = "object" ->
                 <<mark("open", path)>>
                 \o FlattenSeq([i \in DOMAIN value.members |->
                        LET m == value.members[i]
                            inner == Append(path, m.key)
                        IN  <<Token("string", m.key, NoText, inner), mark("colon", inner)>>
                            \o tokens[m.value][inner]])
                 \o <<mark("close", path)>>
          [] value.type = "array" ->
                 <<mark("open", path)>>
                 \o FlattenSeq([i \in DOMAIN value.elements |->
                        tokens[value.elements[i]][Append(path, Index[i])]])
                 \o <<mark("close", path)>>
          [] value.type = "string" -> <<Token("string", "", value.text, path)>>
          [] OTHER -> <<mark("other", path)>>]

-----------------------------------------------------------------------------
\* The scanner: the keys that introduced the open containers, the latest key, and
\* what it has drawn.
scanner == [containers |-> <<>>, key |-> "", drawn |-> <<>>]

insideOEM(s) == "Oem" \in ToSet(s.containers)

\* isKey looks ahead for a colon.
isKey(document, i) == i < Len(document) /\ document[i + 1].type = "colon"

keyStyle(s, name) == IF insideOEM(s) \/ name = "Oem" THEN "oem" ELSE "key"

valueStyle(s, t) ==
    IF IsResourcePath(t) THEN "link" ELSE IF insideOEM(s) THEN "oem" ELSE "string"

draw(s, token, style) ==
    [s EXCEPT !.drawn = Append(@, [token |-> token, style |-> style])]

openContainer(s) == [s EXCEPT !.containers = Append(@, s.key), !.key = ""]

\* Mutant of closeContainer: the key of the container is not the latest one again.
closeContainer_KeepsKey(s) ==
    [s EXCEPT !.containers = SubSeq(@, 1, Len(@) - 1)]

closeContainer(s) ==
    IF s.containers = <<>> THEN s
    ELSE [s EXCEPT !.key = Last(s.containers),
                   !.containers = SubSeq(@, 1, Len(@) - 1)]

\* One token, the one at i.
scan(document, s, i) ==
    LET token == document[i] IN
    CASE token.type = "open" -> openContainer(s)
      [] token.type = "close" -> closeContainer(s)
      [] token.type = "string" /\ isKey(document, i) ->
             draw([s EXCEPT !.key = token.name], token, keyStyle(s, token.name))
      [] token.type = "string" /\ ~isKey(document, i) ->
             draw(s, token, valueStyle(s, token.text))
      [] OTHER -> s

\* Colorize: every string of the document with the colour it is drawn in.  A body
\* that is empty or no JSON is not coloured.
Colorize(body) ==
    IF body.type \in {"none", "broken"} THEN <<>>
    ELSE LET document == tokens[body][<<>>]
             run[n \in 0..Len(document)] ==
                 IF n = 0 THEN scanner ELSE scan(document, run[n - 1], n)
         IN  run[Len(document)].drawn

-----------------------------------------------------------------------------
\* Mutant of below: an Oem key inside Oem ends the vendor's part.
below_Toggles(where, key) == IF key = "Oem" THEN ~where ELSE where

\* Where a walk is past a key: below Oem once it has passed one.
below(where, key) == where \/ key = "Oem"

\* collectOEMTypes: the @odata.type strings found below an Oem key.
collectOEMTypes[value \in Json] ==
    [where \in BOOLEAN |->
        CASE value.type = "object" ->
                 UNION {LET m == value.members[i]
                        IN  IF m.key = "@odata.type" /\ where
                            THEN {stringValue(m.value)} \ {NoText}
                            ELSE collectOEMTypes[m.value][below(where, m.key)] :
                            i \in DOMAIN value.members}
          [] value.type = "array" ->
                 UNION {collectOEMTypes[value.elements[i]][where] :
                            i \in DOMAIN value.elements}
          [] OTHER -> {}]

\* OEMTypes, without the order.
OEMTypes(body) == collectOEMTypes[body][FALSE]
=============================================================================
