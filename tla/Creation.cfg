SPECIFICATION FairSpec
CONSTANTS
    Users = {ann}
    Admins = {}
    Groups = {g1}
    Creators = {c1}
    Editors = {e1, e2}
    MaxVersions = 3
    MaxLists = 1
    None = None
INVARIANTS
    TypeOK
    VersionsInOrder
    CreatorWasAllowed
    WaitersBlockNobody
PROPERTIES
    ImplementsCatalogue
    RequestsEnd
