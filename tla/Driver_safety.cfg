SPECIFICATION Spec
CONSTANTS
  Messages = {m1, m2}
  Senders = {s1, s2}
  Cancelers = {c1, c2}
  KeepInbox = {TRUE, FALSE}
  MaxCancels = 2
  MaxMaintenance = 1
  MaxFaults = 1
  MaxResends = 1
SYMMETRY DriverSymmetry
INVARIANTS TypeOK OneActivity TurnsClosed PendingOnce NoParkedWake Conserved
CHECK_DEADLOCK FALSE
