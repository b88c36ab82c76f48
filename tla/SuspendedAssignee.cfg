SPECIFICATION Spec
CONSTANTS
    Users = {cara, alan}
    Creator = cara
    ItemIds = {i1}
    None = None
    Requests = {r1, r2}
    Kinds = {"claim", "suspend"}
    Grouped = TRUE
    AnyReorder = FALSE
    cara = cara
    alan = alan
PROPERTY
    AssigneeStaysActive
