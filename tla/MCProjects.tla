----------------------------- MODULE MCProjects -----------------------------
(* A small instance of Projects: one owner, one member, one namespace.     *)
EXTENDS Projects

CONSTANTS owner, member, n1, g1, p1, p2, l1

MCInProject == [n \in Namespaces |-> {p1}]

MCMembers == [g \in Groups |-> {<<member, Write>>}]

MCRequests ==
  {[op |-> "create", user |-> owner, label |-> l1],
   [op |-> "add_group", project |-> p1, group |-> g1],
   [op |-> "groups", project |-> p1],
   [op |-> "set_member", project |-> p1, user |-> member, level |-> Write],
   [op |-> "add_member", project |-> p1, user |-> member, level |-> Write],
   [op |-> "drop_group", project |-> p1, group |-> g1]}
=============================================================================
