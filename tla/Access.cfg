SPECIFICATION Spec

CONSTANTS
    a1 = a1
    a2 = a2
    r1 = r1
    r2 = r2
    k1 = k1
    Admins = {a1, a2}
    SeedAdmin = a1
    NoAdmin = NoAdmin
    LowerRoles = {"editor"}
    Requests = {r1, r2}
    Payloads <- SomePayloads
    Clients = {k1}
    Limit = 1

SYMMETRY RequestSymmetry

INVARIANTS
    TypeOK
    NoEndlessBlock
PROPERTIES
    LastSuperAdminStays
