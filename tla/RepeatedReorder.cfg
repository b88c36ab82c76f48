SPECIFICATION Spec
CONSTANTS
    Users = {cara}
    Creator = cara
    ItemIds = {i1, i2}
    None = None
    Requests = {r1}
    Kinds = {"mutate"}
    Grouped = FALSE
    AnyReorder = TRUE
    cara = cara
PROPERTY
    ItemsLeaveByRemoval
