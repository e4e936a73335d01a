SPECIFICATION Spec
CONSTANTS
  o = o
  n1 = n1
  n2 = n2
  n3 = n3
  x = x
  y = y
  t1 = t1
  t2 = t2
  Slots = {1, 2}
  Requests <- TeardownRequests
  Names = {n1, n2, n3}
  Users = {o}
  OwnerOf <- MCOwnerOf
  Labels = {x, y}
  Tariffs = {t1, t2}
  Sizes <- MCSizes
  PlanOf <- MCPlanOf
  NoVolumeIn = {t2}
  Imported = {n3}
  LiveAtStart <- MCOne
  Faults = TRUE
  NoTariff = NoTariff
  NoRequest = NoRequest
  Absent = Absent
  Gone = Gone
  Unwritten = Unwritten
  Unset = Unset
INVARIANTS DeletedIsTornDown
