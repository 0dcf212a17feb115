SPECIFICATION FairSpec
CONSTANTS
  Messages = {m1, m2}
  Senders = {s1, s2}
  Cancelers = {c1}
  KeepInbox = {TRUE, FALSE}
  MaxCancels = 1
  MaxMaintenance = 1
  MaxFaults = 1
  MaxResends = 0
PROPERTIES WakeServed AgentRests
CHECK_DEADLOCK FALSE
