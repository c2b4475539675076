-------------------------------- MODULE MCJson --------------------------------
(***************************************************************************)
(* For TLC, which needs the JSON values of a run as a finite set.          *)
(***************************************************************************)
EXTENDS JsonValues, SequencesExt

RECURSIVE parts(_), nesting(_), reversed(_)

inside(value) ==
    CASE value.type = "object" -> {value.members[i].value : i \in DOMAIN value.members}
      [] value.type = "array" -> ToSet(value.elements)
      [] OTHER -> {}

\* What a document consists of, and how deep it nests.
parts(value) == {value} \cup UNION {parts(v) : v \in inside(value)}

nesting(value) == Max({0} \cup {nesting(v) + 1 : v \in inside(value)})

\* It with its members in the opposite order.  <<>> \o has TLC tabulate a sequence.
reversed(value) ==
    CASE value.type = "object" ->
             object(<<>> \o [i \in DOMAIN value.members |->
                 LET m == value.members[Len(value.members) + 1 - i]
                 IN  member(m.key, reversed(m.value))])
      [] value.type = "array" ->
             array(<<>> \o [i \in DOMAIN value.elements |-> reversed(value.elements[i])])
      [] OTHER -> value
=============================================================================
