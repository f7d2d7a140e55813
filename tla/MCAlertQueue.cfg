SPECIFICATION FairQueueSpec
CONSTANTS
  e1 = e1  e2 = e2  n1 = n1  n2 = n2  n3 = n3
  k1 = k1  k2 = k2
  p1 = p1  p2 = p2  pump = pump
  Alerts = {e1, e2, n1, n2, n3}
  Emergency = {e1, e2}
  Keys = {k1, k2}
  KeyOf <- MCKeyOf
  Producers = {p1, p2}
  Poppers = {pump}
  EmergencyCapacity = 1
  NormalCapacity = 1
  NoAlert = NoAlert
  NoThread = NoThread
INVARIANTS
  AdmissionSound
  EmergencyNotOvertakenTwice
PROPERTY
  AlertsSettle
CHECK_DEADLOCK FALSE
