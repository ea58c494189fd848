SPECIFICATION FairSpec
CONSTANTS
    ann = ann
    prop = prop
    prep = prep
    hand = hand
    Nobody = Nobody
    NoBucket = NoBucket
    Users = {ann}
    Buckets = {prop, prep, hand}
    Automatic = {prop, prep}
    Affiliated = {ann}
    InCsv = {ann}
    StartRights <- StartingRights
    Logins = {l1}
    Refreshers = {f1}
    Uploaders = {c1}
    ChangeBudget = 1
    FaultBudget = 1
INVARIANTS
    TypeOK
    NothingInvented
PROPERTIES
    CalmRefreshMirrors
    CalmLoginShows
    SyncConverges
