SPECIFICATION Spec
CONSTANTS
  o = o
  a = a
  b = b
  n1 = n1
  n2 = n2
  g = g
  Users <- MCUsers
  Namespaces = {n1}
  Groups = {g}
  NoGroup = NoGroup
  NoRow = NoRow
  Slots = {1, 2}
  Requests <- TwoOwnersRequests
  OwnerOf <- MCOwner1
  Members <- MCMembers
  LiveAtStart = {n1}
  Faults = FALSE
  NoRequest = NoRequest
  NoUser = NoUser
  Unwritten = Unwritten
INVARIANT AtMostOneOwner
