SPECIFICATION Spec
CONSTANTS
    Users = {cara, alan}
    Creator = cara
    ItemIds = {i1, i2}
    None = None
    Requests = {r1, r2}
    Kinds = {"mutate", "suspend", "early"}
    Grouped = FALSE
    AnyReorder = FALSE
    cara = cara
    alan = alan
SYMMETRY Symmetry
INVARIANTS
    TypeOK
    DoneMeansAllChecked
    ApprovalOnRecord
    TrailMatchesRow
    ApproverTold
    PositionsDense
PROPERTIES
    ApproverStaysActive
    AssigneeStaysActive
    ItemsLeaveByRemoval
    DecisionsAreSigned
    ImplementsWorkflow
