CONSTANTS
    Json <- MCJson
    depth <- MCDepth
    turned <- MCTurned
    Index <- MCIndex
    Responses <- MCResponses
    Annotations <- MCAnnotations
    Vendor <- MCVendor
    Lower <- MCLower
    Rank <- MCRank
SPECIFICATION Spec
INVARIANTS
    ListsWhatIsOffered
    LinksKeepTheirMeaning
    NothingTwice
    OEMStaysApart
    RowsLeadSomewhere
    RowsKeepTheirPlace
    BodyShowsOEM
    VendorTypesAreFound
CHECK_DEADLOCK FALSE
