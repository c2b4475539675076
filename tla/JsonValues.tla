------------------------------ MODULE JsonValues ------------------------------
(***************************************************************************)
(* JSON as the walks of internal/redfish/jsonpath.go see it: objects with  *)
(* their members in document order, arrays, strings, and everything else,  *)
(* which they pass over.                                                   *)
(***************************************************************************)
EXTENDS RedfishPath

string(t) == [type |-> "string", text |-> t]
member(key, value) == [key |-> key, value |-> value]
object(members) == [type |-> "object", members |-> members]
array(elements) == [type |-> "array", elements |-> elements]
number == [type |-> "number"]

\* The empty body, and one that is not JSON.
Bodiless == [type |-> "none"]
Broken == [type |-> "broken"]

stringValue(value) == IF value.type = "string" THEN value.text ELSE NoText
=============================================================================
