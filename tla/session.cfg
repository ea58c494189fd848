SPECIFICATION FairSpec
CONSTANTS
    ann = ann
    bob = bob
    lab = lab
    mill = mill
    t1 = t1
    a1 = a1
    Nobody = Nobody
    NoTenant = NoTenant
    Users = {ann, bob}
    Staff = {bob}
    Tenants = {lab, mill}
    Usable <- TwoAndOne
    Tabs = {t1, a1}
    AdminTabs = {a1}
    Calls = {1, 2, 3}
    TabOf <- TwoAndOneCall
    Volatile = {ann}
    TroubleBudget = 2
INVARIANTS
    TypeOK
    TenantIsOwn
PROPERTIES
    SessionsLast
    CallsEnd
