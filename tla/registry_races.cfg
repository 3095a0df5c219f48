SPECIFICATION Spec
CONSTANTS
  s1 = s1
  Servers = {s1}
  Stdio = {}
  UserOnly = {}
  Mortal = {}
  NoRecord = NoRecord
  FailureThreshold = 2
  AutoUnregister = TRUE
  PersistMayFail = FALSE
  MaxRegistrations = 2
  MaxFails = 2
  MaxCrashes = 0
INVARIANTS TypeOK HealthNeverReverted DeletedStaysDeleted
PROPERTIES CapabilitiesKept
CHECK_DEADLOCK FALSE
