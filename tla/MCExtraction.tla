----------------------------- MODULE MCExtraction -----------------------------
(***************************************************************************)
(* Link extraction on the documents of MCDocuments, with or without        *)
(* headers.                                                                *)
(***************************************************************************)
EXTENDS MCDocuments, ExtractionProperties

MCJson == AllValues
MCDepth == [v \in AllValues |-> nesting(v)]
MCTurned == [v \in AllValues |-> reversed(v)]
MCRank == Places
MCLower == Lowered

\* BOUND: three elements.
MCIndex == <<"[0]", "[1]", "[2]">>
MCAnnotations == {"@Redfish.Settings"}
MCVendor == [k \in {"#Contoso.Reset", "#Reset"} |->
                IF k = "#Contoso.Reset" THEN "Contoso" ELSE ""]

MCHeaders ==
    {<<>>, <<[name |-> "Location", text |-> spaced("escaped", at("other", "a"))],
             [name |-> "Content-Location", text |-> me]>>}

MCResponses == {[body |-> d, headers |-> h] : d \in Documents, h \in MCHeaders}
=============================================================================
