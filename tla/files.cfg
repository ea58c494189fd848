SPECIFICATION FairSpec
CONSTANTS
    ann = ann
    bob = bob
    b1 = b1
    b2 = b2
    Nobody = Nobody
    NoBody = NoBody
    Users = {ann, bob}
    Owner = ann
    Units = {"none"}
    UnitOf <- SameUnit
    Files = {x}
    Bodies = {b1, b2}
    Reqs = {r1, r2}
    Scans = {f1}
    Uploads <- OneBodyEach
    Direct = {ann}
    Volatile = {ann, bob}
    FaultBudget = 1
INVARIANTS
    TypeOK
    AttributionIsTrue
PROPERTIES
    CalmScanSettles
    RecordsConverge
