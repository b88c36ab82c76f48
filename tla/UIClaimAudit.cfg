SPECIFICATION Spec
CONSTANTS
    Users = {cara, alan}
    Creator = cara
    ItemIds = {i1}
    None = None
    Requests = {r1, r2}
    Kinds = {"uiclaim"}
    Grouped = TRUE
    AnyReorder = FALSE
    cara = cara
    alan = alan
INVARIANT
    TrailMatchesRowAtRest
