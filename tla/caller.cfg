CONSTANTS
    k1 = k1
    k2 = k2
    u1 = u1
    u2 = u2
    use = use
    adm = adm
    s1 = s1
    s2 = s2
    Kids = {k1, k2}
    NoKid = NoKid
    Forged = Forged
    NoKey = NoKey
    Subjects = {u1, u2}
    Scopes = {use, adm}
    AdminScope = adm
    Required = {use}
    Servers = {s1, s2}
    ScopeOf <- MCScopeOf
    NoScope = NoScope
    Admin = Admin
    Anonymous = Anonymous
    Never = Never
    NoToken = NoToken
    Calls <- MCCalls
    Requests = {r1, r2}
    Interval = 1
    Modes = {"none", "basic", "jwt"}
SPECIFICATION Spec
INVARIANTS
    ServedEntitled
PROPERTIES
    FetchesRateLimited
    OutageKeepsKeys
    RotationPickedUp
