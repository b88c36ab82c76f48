SPECIFICATION Spec
CONSTANTS
    Users = {cara, alan}
    Creator = cara
    ItemIds = {i1}
    None = None
    Requests = {r1, r2}
    Kinds = {"mutate", "claim", "suspend", "early"}
    Grouped = TRUE
    AnyReorder = FALSE
    cara = cara
    alan = alan
SYMMETRY Symmetry
INVARIANT
    TrailMatchesRow
PROPERTIES
    ApproverStaysActive
    ClaimsFromExpected
    ImplementsWorkflow
