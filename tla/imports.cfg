SPECIFICATION Spec
CONSTANTS
    Nobody = Nobody
    NoTenant = NoTenant
    Users = {ann}
    Groups = {g1, g2}
    Tenants = {lab, beam}
    Synced = {beam}
    Logins = {l1}
    Refreshers = {f1}
    InitialUpstream <- NobodyUpstream
    Moving = {ann}
    FaultBudget = 1
SYMMETRY Symmetry
INVARIANTS
    TypeOK
PROPERTIES
    OnlyOwnLoginAdmits
