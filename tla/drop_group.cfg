SPECIFICATION Spec
CONSTANTS
  o = o
  a = a
  b = b
  n1 = n1
  n2 = n2
  g = g
  Users <- MCUsers
  Namespaces = {n1, n2}
  Groups = {g}
  NoGroup = NoGroup
  NoRow = NoRow
  Slots = {1}
  Requests <- DropGroupRequests
  OwnerOf <- MCOwner2
  Members <- MCMembers
  LiveAtStart = {n1, n2}
  Faults = FALSE
  NoRequest = NoRequest
  NoUser = NoUser
  Unwritten = Unwritten
PROPERTY OtherNamespacesKept
