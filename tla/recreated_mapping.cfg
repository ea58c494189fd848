SPECIFICATION Spec
CONSTANTS
    Nobody = Nobody
    NoTenant = NoTenant
    Users = {ann}
    Groups = {g1, g2}
    Tenants = {lab}
    Synced = {}
    Logins = {l1}
    Refreshers = {}
    InitialUpstream <- NobodyUpstream
    Moving = {}
    FaultBudget = 0
PROPERTIES
    ClearedThroughMapping
