SPECIFICATION FairSpec
CONSTANTS
    Ids = {1, 2, 3}
    Users = {ann}
    Addressed = {ann}
    EmailBatchSize = 2
    MaxEmailAttempts = 2
INVARIANTS
    TypeOK
    StatusTrue
    MailedTwiceOnlyIfLost
PROPERTIES
    SettledForGood
    ImplementsDelivery
    EverySettled
    ShutdownEnds
