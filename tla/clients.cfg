CONSTANTS
    Servers = {s1}
    NoRecord = NoRecord
    NoToken = NoToken
    NoHint = NoHint
    Skew = 1
    Transit = 1
    Lives = {2}
    MaxLife = 2
    MaxHint = 1
    MaxRegistrations = 2
    MaxBusy = 2
    MaxRefreshes = 1
SPECIFICATION FairSpec
CHECK_DEADLOCK FALSE
INVARIANTS
    OneConnection
    ReusableTokensAlive
PROPERTIES
    OldCredentialsFade
    PolledAgain
