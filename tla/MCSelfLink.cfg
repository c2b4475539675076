CONSTANTS
    Json <- MCJson
    depth <- MCDepth
    turned <- MCTurned
    Index <- MCIndex
    Responses <- MCResponses
    Annotations <- MCAnnotations
    Vendor <- MCVendor
    Lower <- MCLower
    Rank <- MCRank
SPECIFICATION Spec
INVARIANTS SelfStaysOut
CHECK_DEADLOCK FALSE
