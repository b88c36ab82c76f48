SPECIFICATION FairSpec
CONSTANTS
    Notes = {n1, n2}
    Streams = {s1, s2}
    None = None
INVARIANTS
    TypeOK
    NoWakeLost
PROPERTIES
    TransactionsEnd
    BadgeFresh
