------------------------ MODULE MCNamespaceLifecycle ------------------------
(***************************************************************************)
(* Small instances of NamespaceLifecycle: o owns n1 (and n2); t1 comes     *)
(* with a volume, t2 is larger and comes without.                          *)
(***************************************************************************)
EXTENDS NamespaceLifecycle, TLC

CONSTANTS o, n1, n2, n3, x, y, t1, t2

MCSizes   == 1..2
MCOwnerOf == [n \in Names |-> o]
MCPlanOf  == t1 :> [size |-> 1, ext |-> 1] @@ t2 :> [size |-> 2, ext |-> 2]

Start(l, t) == [live |-> TRUE, label |-> l, tariff |-> t, quota |-> MCPlanOf[t]]
MCOne  == n1 :> Start(x, t1)
MCTwo  == n1 :> Start(x, t1) @@ n2 :> Start(y, t2)

Req(op, n, l, t, size, ext) ==
  [op |-> op, caller |-> o, ns |-> n, label |-> l, tariff |-> t,
   size |-> size, ext |-> ext]

Create(n, l, t)        == Req("CreateNamespace", n, l, t, Unset, Unset)
AdminCreate(n, l)      == Req("AdminCreateNamespace", n, l, t1, 1, 2)
Import(n, l)           == Req("ImportNamespaces", n, l, t1, 1, 2)
RenameTo(n, l)         == Req("RenameNamespace", n, l, t1, Unset, Unset)
ResizeTo(n, t)         == Req("ResizeNamespace", n, x, t, Unset, Unset)
AdminResize(n, sz, ex) == Req("AdminResizeNamespace", n, x, t1, sz, ex)
Delete(n)              == Req("DeleteNamespace", n, x, t1, Unset, Unset)
DeleteAll              == Req("DeleteAllUserNamespaces", n1, x, t1, Unset, Unset)

\* n1 is resized by tariff and renamed, n2 is resized by an admin, n3 is new.
LifecycleRequests ==
  {RenameTo(n1, y), RenameTo(n1, x), ResizeTo(n1, t1), ResizeTo(n1, t2),
   Delete(n1), AdminResize(n2, Unset, 2), AdminResize(n2, 2, Unset),
   RenameTo(n2, x), Delete(n2), Create(n3, x, t2), AdminCreate(n3, y)}

\* Deletions against everything that could bring something back.
TeardownRequests ==
  {Delete(n1), DeleteAll, ResizeTo(n1, t2), RenameTo(n1, y),
   Create(n2, x, t1), Import(n3, y)}

AdminResizeRequests == {ResizeTo(n1, t2), AdminResize(n1, Unset, 2)}
=============================================================================
