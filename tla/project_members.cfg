SPECIFICATION Spec
CONSTANTS
  owner = owner
  member = member
  n1 = n1
  g1 = g1
  p1 = p1
  p2 = p2
  l1 = l1
  Users = {owner, member}
  Namespaces = {n1}
  Groups = {g1}
  NoGroup = NoGroup
  NoRow = NoRow
  Slots = {1}
  ProjectIDs = {p1, p2}
  Labels = {l1}
  InProject <- MCInProject
  Members <- MCMembers
  Requests <- MCRequests
  Idle = Idle
PROPERTY
  MembersAdded
