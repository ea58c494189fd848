SPECIFICATION FairSpec
CONSTANTS
    ann = ann
    bob = bob
    cat = cat
    n1 = n1
    n2 = n2
    i1 = i1
    i2 = i2
    i3 = i3
    i4 = i4
    Nobody = Nobody
    NoName = NoName
    NoRow = NoRow
    Users = {ann}
    Names = {n1}
    Ids = {i1, i2, i3}
    Reqs = {r1, r2}
    Refreshers = {f1}
    Ops = {"create", "admin_destroy"}
    CanName <- AnnOnly
    InitialRole <- AllWrite
    InitialRgwUsers = {}
    Volatile = {ann}
    FaultBudget = 1
PROPERTIES
    NothingStranded
