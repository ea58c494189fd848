SPECIFICATION Spec
CONSTANTS
    ann = ann
    bob = bob
    cat = cat
    n1 = n1
    n2 = n2
    i1 = i1
    i2 = i2
    i3 = i3
    i4 = i4
    Nobody = Nobody
    NoName = NoName
    NoRow = NoRow
    Users = {ann, bob, cat}
    Names = {n1}
    Ids = {i1, i2}
    Reqs = {r1}
    Refreshers = {f1}
    Ops = {"create", "destroy", "share", "unshare", "leave"}
    CanName <- AnnOnly
    InitialRole <- CatReads
    InitialRgwUsers = {ann}
    Volatile = {}
    FaultBudget = 3
SYMMETRY IdSymmetry
INVARIANTS
    DriftAtMostOne
