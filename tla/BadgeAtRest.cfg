SPECIFICATION BetweenPolls
CONSTANTS
    Notes = {n1, n2}
    Streams = {s1}
    None = None
PROPERTY
    RestsBetweenPolls
