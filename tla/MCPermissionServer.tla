------------------------- MODULE MCPermissionServer -------------------------
(***************************************************************************)
(* Small instances of PermissionServer: o owns namespaces n1 (and n2), a   *)
(* and b are other users, g is a group with members of three kinds.        *)
(***************************************************************************)
EXTENDS PermissionServer, TLC

CONSTANTS o, a, b, n1, n2, g

MCUsers  == {o, a, b}
MCOwner1 == [n \in {n1} |-> o]
MCOwner2 == [n \in {n1, n2} |-> o]

\* The group's owner is also the owner of the namespaces.
MCMembers == [x \in {g} |-> [u \in MCUsers |-> CASE u = o -> Owner
                                                 [] u = a -> Write
                                                 [] OTHER -> Read]]
\* The group's owner is somebody else.
MCOtherMembers == [x \in {g} |-> [u \in MCUsers |-> CASE u = o -> NoAccess
                                                      [] u = a -> Owner
                                                      [] OTHER -> Read]]

\* The third kind of member has the level read-delete.
MCReadDeleteMembers == [x \in {g} |-> [u \in MCUsers |-> CASE u = o -> Owner
                                                      [] u = a -> Write
                                                      [] OTHER -> ReadDelete]]

Req(op, caller, admin, n, target, level) ==
  [op |-> op, caller |-> caller, admin |-> admin, ns |-> n,
   target |-> target, level |-> level, group |-> g]

Grant(n, u, l)  == Req("SetNamespaceAccess", o, FALSE, n, u, l)
Revoke(n, u)    == Req("DeleteNamespaceAccess", o, FALSE, n, u, None)
Limit(l)        == Req("SetUserAccesses", o, TRUE, n1, o, l)
Create(n)       == Req("CreateNamespace", o, FALSE, n, o, None)
Delete(n)       == Req("DeleteNamespace", o, FALSE, n, o, None)
Relabel(n)      == Req("RenameNamespace", o, FALSE, n, o, None)
DeleteAll       == Req("DeleteAllUserNamespaces", o, FALSE, n1, o, None)
AddGroup(n)     == Req("AddGroupNamespace", o, TRUE, n, o, None)
Member(c, n, u, l) == Req("SetGroupMemberNamespaceAccess", c, FALSE, n, u, l)
DropGroup(n)    == Req("DeleteGroupFromNamespace", o, FALSE, n, o, None)

\* Grants, an attempt to revoke the owner's row, limits and their release, a
\* group with an owner of its own that comes and goes (the namespace's owner is
\* not a member), and the life of n1.
DirectRequests ==
  {Grant(n1, a, Write), Grant(n1, b, Owner), Revoke(n1, o), Limit(None),
   Limit(Owner), Create(n1), Delete(n1), Relabel(n1), AddGroup(n1),
   DropGroup(n1)}

\* Grants to two users of one namespace.
GrantRequests ==
  {Grant(n1, a, Read), Grant(n1, a, Write), Grant(n1, a, None),
   Grant(n1, b, Write), Grant(n1, b, ReadDelete)}

\* Everything, for requests that come one at a time.
AllRequests ==
  {AddGroup(n1), DropGroup(n1), Limit(Read), Grant(n1, a, Owner),
   Member(o, n2, a, Write), Revoke(n1, a), Create(n2), Delete(n1), Delete(n2),
   DeleteAll, Relabel(n1)}

\* Every operation on a namespace that exists, for the refinement and for
\* statements that wait for the rows of each other's transactions.  DeleteAll
\* has no step that Delete does not have.
StoreRequests ==
  {Grant(n1, a, Write), Revoke(n1, a), Limit(Read), Delete(n1),
   Relabel(n1), Member(o, n1, a, Write), AddGroup(n1), DropGroup(n1)}

\* The owner lowers himself through the group route, then grants twice.
TwoOwnersRequests ==
  {Member(o, n1, o, Write), Grant(n1, a, Owner), Grant(n1, b, Owner)}

\* A group with two namespaces leaves one of them.
DropGroupRequests == {AddGroup(n1), AddGroup(n2), DropGroup(n1)}

\* The two ways a level the enum does not know gets to a statement.
ReadDeleteRequests == {AddGroup(n1), Grant(n1, a, ReadDelete)}
=============================================================================
