SPECIFICATION Spec
CONSTANTS
  o = o
  a = a
  b = b
  n1 = n1
  n2 = n2
  g = g
  Users <- MCUsers
  Namespaces = {n1}
  Groups = {g}
  NoGroup = NoGroup
  NoRow = NoRow
  Slots = {1, 2}
  Requests <- DirectRequests
  OwnerOf <- MCOwner1
  Members <- MCOtherMembers
  LiveAtStart = {}
  Faults = TRUE
  NoRequest = NoRequest
  NoUser = NoUser
  Unwritten = Unwritten
INVARIANTS TypeOK OneOwner DeletesLive CurrentWithinInitial
PROPERTY LimitTakesHold
