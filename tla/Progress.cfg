SPECIFICATION FairSpec
CONSTANTS
    Users = {cara}
    Creator = cara
    ItemIds = {i1}
    None = None
    Requests = {r1, r2}
    Kinds = {"mutate", "claim", "uiclaim", "suspend", "early", "members"}
    Grouped = TRUE
    AnyReorder = TRUE
    cara = cara
INVARIANTS
    WaitsAreShort
    TrailMatchesList
PROPERTIES
    RequestsEnd
