SPECIFICATION Spec
CONSTANTS
    Nobody = Nobody
    NoTenant = NoTenant
    Users = {ann}
    Groups = {g1, g2}
    Tenants = {lab, mill}
    Synced = {}
    Logins = {l1, l2}
    Refreshers = {}
    InitialUpstream <- NobodyUpstream
    Moving = {}
    FaultBudget = 1
SYMMETRY Symmetry
INVARIANTS
    AccessNeedsClaim
PROPERTIES
    LoginSettles
