SPECIFICATION Spec
CONSTANTS
    a1 = a1
    a2 = a2
    Calls = {c1, c2}
    Users = {u1, u2}
    Nobody = nobody
    Refused = {nobody}
    Auds = {a1, a2}
    Confs <- MCConfs
    None = none
    Service = service
    Lifetimes = {2}
    Sessions = {1, 3}
    Margin = 1
    MaxEntries = 1
    MaxTime = 1
SYMMETRY Symmetry
INVARIANTS OwnTokenOnly RetrySendsAnother CacheBounded
PROPERTIES ReusedTokenLive
