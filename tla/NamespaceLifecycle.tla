------------------------- MODULE NamespaceLifecycle -------------------------
(***************************************************************************)
(* A namespace in the table "namespaces" and what other services hold for  *)
(* it: a quota in kube, a subscription in billing, and solutions, resources *)
(* and volumes.  A handler changes the table in a transaction, calls the   *)
(* services one after the other while the transaction is open, and commits *)
(* at its end; when a call fails it rolls the transaction back, and what   *)
(* the calls before it did stays done.                                     *)
(*                                                                         *)
(* Who may send a request, the permission rows and the auth service are    *)
(* PermissionServer's matter.                                              *)
(***************************************************************************)
EXTENDS Integers

CONSTANTS Slots,        \* requests in progress at once
          Requests,     \* the requests clients may send
          Names,        \* kube names, the key of a namespace everywhere
          Users, OwnerOf,
          Labels, Tariffs, Sizes,
          PlanOf,       \* the quota of each tariff
          NoVolumeIn,   \* tariffs that come without a volume
          Imported,     \* namespaces that were in kube before the service
          LiveAtStart,  \* namespaces already in the table, with their row
          Faults,       \* whether calls, commits and the process may fail
          NoTariff, NoRequest, Absent, Gone, Unwritten, Unset

(* cpu, ram, internal services and traffic are one size: every operation   *)
(* but ResizeNamespace treats all five alike, and it sets these four.      *)
Quotas   == [size : Sizes, ext : Sizes]
Row      == [live : BOOLEAN, label : Labels, tariff : Tariffs \union {NoTariff},
             quota : Quotas]
Contents == {"solutions", "resources", "volumes", "defaultVolumes"}

Ops == {"CreateNamespace", "AdminCreateNamespace", "ImportNamespaces",
        "RenameNamespace", "ResizeNamespace", "AdminResizeNamespace",
        "DeleteNamespace", "DeleteAllUserNamespaces"}

Request == [op : Ops, caller : Users, ns : Names, label : Labels,
            tariff : Tariffs, size : Sizes \union {Unset},
            ext : Sizes \union {Unset}]

ASSUME LifecycleAssumption ==
  /\ Requests \subseteq Request
  /\ \A r \in Requests : r.op \in {"AdminCreateNamespace", "ImportNamespaces"}
       => r.size # Unset /\ r.ext # Unset
  /\ OwnerOf \in [Names -> Users]
  /\ PlanOf \in [Tariffs -> Quotas]
  /\ NoVolumeIn \subseteq Tariffs
  /\ Imported \subseteq Names
  /\ DOMAIN LiveAtStart \subseteq Names \ Imported
  /\ \A n \in DOMAIN LiveAtStart : LiveAtStart[n] \in Row /\ LiveAtStart[n].live
  /\ \A m, n \in DOMAIN LiveAtStart :
       OwnerOf[m] = OwnerOf[n] /\ LiveAtStart[m].label = LiveAtStart[n].label => m = n
  /\ Faults \in BOOLEAN
  /\ NoTariff \notin Tariffs
  /\ Unset \notin Sizes
  /\ Gone \notin Quotas \union [label : Labels, tariff : Tariffs]
  /\ Absent \notin Row
  /\ Unwritten \notin Row \union {Absent}
  /\ NoRequest \notin Request

VARIABLES
  rows,   \* table namespaces, committed
  pend,   \* the rows each slot's transaction has written
  kube,   \* the quota kube holds for a namespace, or Gone
  sub,    \* the subscription billing holds for it, or Gone
  inside, \* what the other services hold for it
  pc,     \* the step each request takes next
  req,    \* the request of each slot
  ns,     \* the handler's copy of its namespace (the Go struct)
  found   \* names found for deletion

Steps == {"idle", "insert", "lookup", "find", "rename", "usage", "resize",
          "mark", "markAll", "kubeCreate", "subscribe", "billingRename",
          "setQuota", "volumes", "updateSubscription", "solutions",
          "resources", "nsVolumes", "unsubscribe", "kubeDelete",
          "userSolutions", "userResources", "userKube", "userVolumes", "commit"}

services == <<kube, sub, inside>>
locals   == <<pc, req, ns, found>>
vars     == <<rows, pend, services, locals>>

-----------------------------------------------------------------------------
(* Variants with a slip in them, for the mutation checks.                  *)

QuotaBeforeRow(op, p) ==
  CASE p = "lookup" -> "usage"
    [] p = "usage" -> "setQuota"
    [] p = "setQuota" -> "resize"
    [] p = "resize" /\ op = "ResizeNamespace" -> "volumes"
    [] p = "volumes" -> "updateSubscription"
    [] OTHER -> "commit"

VolumesForgotten(p) ==
  CASE p = "lookup" -> "mark"
    [] p = "mark" -> "solutions"
    [] p = "solutions" -> "resources"
    [] p = "resources" -> "unsubscribe"
    [] p = "unsubscribe" -> "kubeDelete"
    [] OTHER -> "commit"

QuotaFromRequest(r) ==
  [live |-> TRUE, label |-> r.label,
   tariff |-> IF r.op = "CreateNamespace" THEN r.tariff ELSE NoTariff,
   quota |-> [size |-> r.size, ext |-> r.ext]]
-----------------------------------------------------------------------------

(* The step each handler takes after step p.                               *)

AfterCreateStep(op, p) ==
  CASE p = "insert" /\ op # "ImportNamespaces" -> "kubeCreate"
    [] p = "kubeCreate" /\ op = "CreateNamespace" -> "subscribe"
    [] OTHER -> "commit"

AfterRenameStep(p) ==
  CASE p = "lookup" -> "rename"
    [] p = "rename" -> "billingRename"
    [] OTHER -> "commit"

AfterResizeStep(op, p) ==
  CASE p = "lookup" -> "usage"
    [] p = "usage" -> "resize"
    [] p = "resize" -> "setQuota"
    [] p = "setQuota" /\ op = "ResizeNamespace" -> "volumes"
    [] p = "volumes" -> "updateSubscription"
    [] OTHER -> "commit"

AfterDeleteStep(p) ==
  CASE p = "lookup" -> "mark"
    [] p = "mark" -> "solutions"
    [] p = "solutions" -> "resources"
    [] p = "resources" -> "nsVolumes"
    [] p = "nsVolumes" -> "unsubscribe"
    [] p = "unsubscribe" -> "kubeDelete"
    [] OTHER -> "commit"

AfterDeleteAllStep(p) ==
  CASE p = "find" -> "markAll"
    [] p = "markAll" -> "unsubscribe"
    [] p = "unsubscribe" -> "userSolutions"
    [] p = "userSolutions" -> "userResources"
    [] p = "userResources" -> "userKube"
    [] p = "userKube" -> "userVolumes"
    [] OTHER -> "commit"

AfterStep(op, p) ==
  CASE op = "RenameNamespace" -> AfterRenameStep(p)
    [] op \in {"ResizeNamespace", "AdminResizeNamespace"} -> AfterResizeStep(op, p)
    [] op = "DeleteNamespace" -> AfterDeleteStep(p)
    [] op = "DeleteAllUserNamespaces" -> AfterDeleteAllStep(p)
    [] OTHER -> AfterCreateStep(op, p)

FirstStep(op) ==
  CASE op \in {"CreateNamespace", "AdminCreateNamespace", "ImportNamespaces"} -> "insert"
    [] op = "DeleteAllUserNamespaces" -> "find"
    [] OTHER -> "lookup"

At(s, step) == pc[s] = step
Idle(s)     == pc[s] = "idle"
Advance(s)  == pc' = [pc EXCEPT ![s] = AfterStep(req[s].op, pc[s])]

View(s) == [n \in Names |-> IF pend[s][n] = Unwritten THEN rows[n] ELSE pend[s][n]]

Unlocked(s, n) == \A t \in Slots \ {s} : pend[t][n] = Unwritten

IsLive(row) == row \in Row /\ row.live

Nothing == [n \in Names |-> Unwritten]

Init ==
  /\ rows = [n \in Names |-> IF n \in DOMAIN LiveAtStart THEN LiveAtStart[n] ELSE Absent]
  /\ pend = [s \in Slots |-> Nothing]
  /\ kube \in [Names -> Quotas \union {Gone}]
  /\ \A n \in Names :
       CASE n \in DOMAIN LiveAtStart -> kube[n] = LiveAtStart[n].quota
         [] n \in Imported -> kube[n] # Gone
         [] OTHER -> kube[n] = Gone
  /\ sub = [n \in Names |->
              IF n \in DOMAIN LiveAtStart /\ LiveAtStart[n].tariff # NoTariff
              THEN [label |-> LiveAtStart[n].label, tariff |-> LiveAtStart[n].tariff]
              ELSE Gone]
  /\ inside = [n \in Names |-> IF n \in DOMAIN LiveAtStart \union Imported
                               THEN Contents ELSE {}]
  /\ pc = [s \in Slots |-> "idle"]
  /\ req = [s \in Slots |-> NoRequest]
  /\ ns = [s \in Slots |-> Absent]
  /\ found = [s \in Slots |-> {}]

-----------------------------------------------------------------------------
(* Requests begin and end.                                                 *)

Creations == {"CreateNamespace", "AdminCreateNamespace"}

(* The uuid of a namespace about to be created is one nobody has used.     *)
FreshId(n) ==
  /\ rows[n] = Absent /\ n \notin Imported
  /\ kube[n] = Gone /\ sub[n] = Gone
  /\ \A t \in Slots : ~Idle(t) /\ req[t].op \in Creations => req[t].ns # n

Begin(s, r) ==
  /\ Idle(s)
  /\ r.op \in Creations => FreshId(r.ns)
  /\ r.op = "ImportNamespaces" => r.ns \in Imported
  /\ pc' = [pc EXCEPT ![s] = FirstStep(r.op)]
  /\ req' = [req EXCEPT ![s] = r]
  /\ UNCHANGED <<rows, pend, services, ns, found>>

Finish(s) ==
  /\ pend' = [pend EXCEPT ![s] = Nothing]
  /\ pc' = [pc EXCEPT ![s] = "idle"]
  /\ req' = [req EXCEPT ![s] = NoRequest]
  /\ ns' = [ns EXCEPT ![s] = Absent]
  /\ found' = [found EXCEPT ![s] = {}]

Rollback(s) == Finish(s) /\ UNCHANGED <<rows, services>>

Commit(s) ==
  /\ At(s, "commit")
  /\ rows' = View(s)
  /\ Finish(s)
  /\ UNCHANGED services

-----------------------------------------------------------------------------
(* Statements on the table.                                                *)

(* The quota the request asks for, over the one the namespace has.         *)
Given(value, old) == IF value = Unset THEN old ELSE value

NewRow(r) ==
  [live |-> TRUE, label |-> r.label,
   tariff |-> IF r.op = "CreateNamespace" THEN r.tariff ELSE NoTariff,
   quota |-> IF r.op = "CreateNamespace" THEN PlanOf[r.tariff]
             ELSE [size |-> r.size, ext |-> r.ext]]

(* ResizeNamespace assigns MaxIntServices twice and MaxExtServices never.  *)
Resized(r, row) ==
  IF r.op = "ResizeNamespace"
  THEN [row EXCEPT !.tariff = r.tariff, !.quota.size = PlanOf[r.tariff].size]
  ELSE [row EXCEPT !.quota = [size |-> Given(r.size, row.quota.size),
                              ext |-> Given(r.ext, row.quota.ext)]]

(* NamespaceByName (on s.db or on tx: nothing is written yet), then what   *)
(* the handler does with its copy.                                         *)
Lookup(s) ==
  LET r == req[s] IN
  /\ At(s, "lookup")
  /\ IsLive(rows[r.ns])
  /\ ns' = [ns EXCEPT ![s] =
              IF r.op \in {"ResizeNamespace", "AdminResizeNamespace"}
              THEN Resized(r, rows[r.ns]) ELSE rows[r.ns]]
  /\ Advance(s)
  /\ UNCHANGED <<rows, pend, services, req, found>>

NotFound(s) ==
  /\ At(s, "lookup")
  /\ ~IsLive(rows[req[s].ns])
  /\ Rollback(s)

(* The label is taken: a count finds it, or else the unique index on       *)
(* (owner, label) of live rows, which makes the statement wait for a       *)
(* transaction that is about to take the label.                            *)
SameOwnerLabel(n, l, m, row) ==
  IsLive(row) /\ OwnerOf[m] = OwnerOf[n] /\ row.label = l

LabelTaken(n, l) == \E m \in Names : SameOwnerLabel(n, l, m, rows[m])

\* Variant with a slip: no index, only the count.
NobodyAsked(s, n, l) == TRUE

LabelUnclaimed(s, n, l) ==
  \A t \in Slots \ {s}, m \in Names : ~SameOwnerLabel(n, l, m, pend[t][m])

Write(s, n, row) ==
  /\ pend' = [pend EXCEPT ![s][n] = row]
  /\ ns' = [ns EXCEPT ![s] = row]
  /\ Advance(s)
  /\ UNCHANGED <<rows, services, req, found>>

(* The second refusal is the unique index on kube_name.                    *)
Insert(s) ==
  LET r == req[s] IN
  /\ At(s, "insert")
  /\ ~LabelTaken(r.ns, r.label)
  /\ rows[r.ns] = Absent
  /\ Unlocked(s, r.ns)
  /\ LabelUnclaimed(s, r.ns, r.label)
  /\ Write(s, r.ns, NewRow(r))

InsertRefused(s) ==
  /\ At(s, "insert")
  /\ LabelTaken(req[s].ns, req[s].label) \/ rows[req[s].ns] # Absent
  /\ Rollback(s)

(* The three updates below find their row by primary key, wait for its     *)
(* lock, and change the row as it is then; two of them also if it is       *)
(* deleted by then.  A rename that finds it deleted removes permissions    *)
(* too (Resource.AfterUpdate): that is in PermissionServer.                *)
Rename(s) ==
  LET r == req[s] IN
  /\ At(s, "rename")
  /\ ~LabelTaken(r.ns, r.label)
  /\ Unlocked(s, r.ns)
  /\ IsLive(rows[r.ns]) => LabelUnclaimed(s, r.ns, r.label)
  /\ Write(s, r.ns, [rows[r.ns] EXCEPT !.label = r.label])

RenameRefused(s) ==
  /\ At(s, "rename")
  /\ LabelTaken(req[s].ns, req[s].label)
  /\ Rollback(s)

\* Variant with a slip: the whole copy is written, its label included.
WholeCopy(s, row) == ns[s]

\* The columns ResizeNamespace sets, from the handler's copy.
ResizedRow(s, row) ==
  [row EXCEPT !.quota = ns[s].quota, !.tariff = ns[s].tariff]

Resize(s) ==
  LET n == req[s].ns IN
  /\ At(s, "resize")
  /\ Unlocked(s, n)
  /\ pend' = [pend EXCEPT ![s][n] = ResizedRow(s, rows[n])]
  /\ Advance(s)
  /\ UNCHANGED <<rows, services, req, ns, found>>

MarkDeleted(s) ==
  LET n == req[s].ns IN
  /\ At(s, "mark")
  /\ Unlocked(s, n)
  /\ IsLive(rows[n])
  /\ pend' = [pend EXCEPT ![s][n] = [rows[n] EXCEPT !.live = FALSE]]
  /\ ns' = [ns EXCEPT ![s] = [rows[n] EXCEPT !.live = FALSE]]
  /\ found' = [found EXCEPT ![s] = {n}]
  /\ Advance(s)
  /\ UNCHANGED <<rows, services, req>>

MarkRefused(s) ==
  /\ At(s, "mark")
  /\ Unlocked(s, req[s].ns)
  /\ ~IsLive(rows[req[s].ns])
  /\ Rollback(s)

(* DeleteAllUserNamespaces finds the rows, waits for them and marks those  *)
(* that are still live.                                                    *)
Find(s) ==
  /\ At(s, "find")
  /\ found' = [found EXCEPT ![s] =
       {n \in Names : IsLive(rows[n]) /\ OwnerOf[n] = req[s].caller}]
  /\ Advance(s)
  /\ UNCHANGED <<rows, pend, services, req, ns>>

StillLive(s) == {n \in found[s] : IsLive(rows[n])}

MarkAll(s) ==
  /\ At(s, "markAll")
  /\ \A n \in found[s] : Unlocked(s, n)
  /\ StillLive(s) # {}
  /\ pend' = [pend EXCEPT ![s] =
       [n \in Names |-> IF n \in StillLive(s) THEN [rows[n] EXCEPT !.live = FALSE]
                        ELSE Unwritten]]
  /\ found' = [found EXCEPT ![s] = StillLive(s)]
  /\ Advance(s)
  /\ UNCHANGED <<rows, services, req, ns>>

NothingFound(s) ==
  /\ At(s, "markAll")
  /\ \A n \in found[s] : Unlocked(s, n)
  /\ StillLive(s) = {}
  /\ Rollback(s)

-----------------------------------------------------------------------------
(* Calls to other services, while the transaction is open.                 *)

Called(s) == Advance(s) /\ UNCHANGED <<rows, pend, req, ns, found>>

(* kube.GetNamespace and checkResizeNSQuota.  What a namespace uses is      *)
(* kube's to know, so the check passes or not (UsageExceeded).             *)
CheckUsage(s) ==
  /\ At(s, "usage")
  /\ kube[req[s].ns] # Gone
  /\ Called(s)
  /\ UNCHANGED services

UsageExceeded(s) ==
  /\ At(s, "usage")
  /\ kube[req[s].ns] # Gone
  /\ Rollback(s)

KubeCreate(s) ==
  /\ At(s, "kubeCreate")
  /\ kube' = [kube EXCEPT ![req[s].ns] = ns[s].quota]
  /\ Called(s)
  /\ UNCHANGED <<sub, inside>>

SetQuota(s) ==
  /\ At(s, "setQuota")
  /\ kube[req[s].ns] # Gone
  /\ kube' = [kube EXCEPT ![req[s].ns] = ns[s].quota]
  /\ Called(s)
  /\ UNCHANGED <<sub, inside>>

KubeDelete(s) ==
  /\ At(s, "kubeDelete")
  /\ kube' = [kube EXCEPT ![req[s].ns] = Gone]
  /\ Called(s)
  /\ UNCHANGED <<sub, inside>>

Subscribe(s) ==
  /\ At(s, "subscribe")
  /\ sub' = [sub EXCEPT ![req[s].ns] = [label |-> ns[s].label, tariff |-> ns[s].tariff]]
  /\ Called(s)
  /\ UNCHANGED <<kube, inside>>

(* Billing changes the subscription it has; of one it does not have it     *)
(* knows nothing, and answers that it is done or that it is not there.     *)
BillingRename(s) ==
  LET n == req[s].ns IN
  /\ At(s, "billingRename")
  /\ sub' = IF sub[n] = Gone THEN sub ELSE [sub EXCEPT ![n].label = req[s].label]
  /\ Called(s)
  /\ UNCHANGED <<kube, inside>>

UpdateSubscription(s) ==
  LET n == req[s].ns IN
  /\ At(s, "updateSubscription")
  /\ sub' = IF sub[n] = Gone THEN sub ELSE [sub EXCEPT ![n].tariff = req[s].tariff]
  /\ Called(s)
  /\ UNCHANGED <<kube, inside>>

(* DeleteNamespace passes kube names; DeleteAllUserNamespaces passes ids,  *)
(* and the id of an imported namespace is not its kube name.               *)
Billed(s) ==
  IF req[s].op = "DeleteNamespace" THEN found[s] ELSE found[s] \ Imported

MassiveUnsubscribe(s) ==
  /\ At(s, "unsubscribe")
  /\ sub' = [n \in Names |-> IF n \in Billed(s) THEN Gone ELSE sub[n]]
  /\ Called(s)
  /\ UNCHANGED <<kube, inside>>

(* The thing a call is about is not there, and the service says so.        *)
NotThere(s) ==
  /\ \/ At(s, "usage") /\ kube[req[s].ns] = Gone
     \/ At(s, "setQuota") /\ kube[req[s].ns] = Gone
     \/ At(s, "kubeDelete") /\ kube[req[s].ns] = Gone
     \/ At(s, "billingRename") /\ sub[req[s].ns] = Gone
     \/ At(s, "updateSubscription") /\ sub[req[s].ns] = Gone
     \/ At(s, "unsubscribe") /\ \E n \in found[s] : sub[n] = Gone \/ n \notin Billed(s)
  /\ Rollback(s)

OfUser(s) == {n \in Names : OwnerOf[n] = req[s].caller}

Empty(s, which, what) ==
  /\ inside' = [n \in Names |-> IF n \in which THEN inside[n] \ what ELSE inside[n]]
  /\ Called(s)
  /\ UNCHANGED <<kube, sub>>

AllVolumes == {"volumes", "defaultVolumes"}

(* The volumes a tariff came with go when the new tariff has none.         *)
ResizeVolumes(s) ==
  /\ At(s, "volumes")
  /\ Empty(s, {req[s].ns}, IF req[s].tariff \in NoVolumeIn THEN {"defaultVolumes"} ELSE {})

DeleteNamespaceSolutions(s) == At(s, "solutions") /\ Empty(s, {req[s].ns}, {"solutions"})
DeleteNamespaceResources(s) == At(s, "resources") /\ Empty(s, {req[s].ns}, {"resources"})
DeleteNamespaceVolumes(s)   == At(s, "nsVolumes") /\ Empty(s, {req[s].ns}, AllVolumes)

DeleteUserSolutions(s)  == At(s, "userSolutions") /\ Empty(s, OfUser(s), {"solutions"})
DeleteUserResources(s)  == At(s, "userResources") /\ Empty(s, OfUser(s), {"resources"})
DeleteAllUserVolumes(s) == At(s, "userVolumes") /\ Empty(s, OfUser(s), AllVolumes)

(* Kube deletes what the user has there now, not what was found above.     *)
DeleteUserNamespaces(s) ==
  /\ At(s, "userKube")
  /\ kube' = [n \in Names |-> IF n \in OfUser(s) THEN Gone ELSE kube[n]]
  /\ Called(s)
  /\ UNCHANGED <<sub, inside>>

-----------------------------------------------------------------------------
(* A call, a statement or the commit fails; a call whose answer is lost has *)
(* had its effect, which is a failure just after it.                       *)
Fail(s) == Faults /\ ~Idle(s) /\ Rollback(s)

Crash ==
  /\ Faults
  /\ pend' = [s \in Slots |-> Nothing]
  /\ pc' = [s \in Slots |-> "idle"]
  /\ req' = [s \in Slots |-> NoRequest]
  /\ ns' = [s \in Slots |-> Absent]
  /\ found' = [s \in Slots |-> {}]
  /\ UNCHANGED <<rows, services>>

Statement(s) ==
  \/ Lookup(s) \/ NotFound(s)
  \/ Insert(s) \/ InsertRefused(s)
  \/ Rename(s) \/ RenameRefused(s)
  \/ Resize(s)
  \/ MarkDeleted(s) \/ MarkRefused(s)
  \/ Find(s) \/ MarkAll(s) \/ NothingFound(s)
  \/ Commit(s)

Call(s) ==
  \/ CheckUsage(s) \/ UsageExceeded(s)
  \/ KubeCreate(s) \/ SetQuota(s) \/ KubeDelete(s)
  \/ Subscribe(s) \/ BillingRename(s) \/ UpdateSubscription(s) \/ MassiveUnsubscribe(s)
  \/ ResizeVolumes(s)
  \/ DeleteNamespaceSolutions(s) \/ DeleteNamespaceResources(s) \/ DeleteNamespaceVolumes(s)
  \/ DeleteUserSolutions(s) \/ DeleteUserResources(s) \/ DeleteAllUserVolumes(s)
  \/ DeleteUserNamespaces(s)
  \/ NotThere(s)

Next ==
  \/ \E s \in Slots : Statement(s) \/ Call(s) \/ Fail(s)
                      \/ \E r \in Requests : Begin(s, r)
  \/ Crash

Spec == Init /\ [][Next]_vars

-----------------------------------------------------------------------------
(* Properties.                                                             *)

(* Every variable stays within its type.                                   *)
TypeOK ==
  /\ rows \in [Names -> Row \union {Absent}]
  /\ pend \in [Slots -> [Names -> Row \union {Unwritten}]]
  /\ kube \in [Names -> Quotas \union {Gone}]
  /\ sub \in [Names -> [label : Labels, tariff : Tariffs] \union {Gone}]
  /\ inside \in [Names -> SUBSET Contents]
  /\ pc \in [Slots -> Steps]
  /\ req \in [Slots -> Requests \union {NoRequest}]
  /\ ns \in [Slots -> Row \union {Absent}]
  /\ found \in [Slots -> SUBSET Names]

Quiet == \A s \in Slots : Idle(s)

(* When nothing fails and no request is in progress, kube holds exactly    *)
(* the live namespaces, each with the quota of its row, whatever creations, *)
(* resizes by tariff or by an admin, and deletions ran together: the quota *)
(* is sent under the lock of the row, so the last row written is the last  *)
(* quota sent.  (An imported namespace is in kube first, with a quota of   *)
(* its own; a creation must not overlap DeleteAllUserNamespaces of its     *)
(* user.)                                                                  *)
KubeFollows ==
  Quiet => \A n \in Names \ Imported :
             kube[n] = IF IsLive(rows[n]) THEN rows[n].quota ELSE Gone

(* A resize by tariff is for a namespace that billing knows: no admin      *)
(* created it without a tariff.  (Of another one billing says, after kube  *)
(* has the new quota, that it is not there.)                               *)
TariffNeedsSubscription ==
  \A r \in Requests : r.op = "ResizeNamespace" =>
    /\ r.ns \in DOMAIN LiveAtStart => LiveAtStart[r.ns].tariff # NoTariff
    /\ \A q \in Requests : q.op = "AdminCreateNamespace" => q.ns # r.ns

(* No user whose namespaces may all be deleted creates one.                *)
CreationsSpared ==
  \A d, c \in Requests : d.op = "DeleteAllUserNamespaces" /\ c.op \in Creations
    => OwnerOf[c.ns] # d.caller

(* When nothing fails and no request is in progress, every subscription is *)
(* that of a live namespace and has its label and its tariff, whatever     *)
(* creations, renames, resizes by tariff and deletions ran together.       *)
SubscriptionFollows ==
  Quiet => \A n \in Names : sub[n] # Gone =>
             /\ IsLive(rows[n])
             /\ sub[n] = [label |-> rows[n].label, tariff |-> rows[n].tariff]

(* No namespace is resized both by tariff and by an admin, whose copy may  *)
(* hold a tariff from before.                                              *)
TariffOrAdmin ==
  \A r, q \in Requests : r.op = "ResizeNamespace" /\ q.op = "AdminResizeNamespace"
    => r.ns # q.ns

(* Two live namespaces of one owner never have the same label, though      *)
(* creations and renames look for it before they write.                    *)
LabelsUnique ==
  \A m, n \in Names :
    IsLive(rows[m]) /\ IsLive(rows[n]) /\ OwnerOf[m] = OwnerOf[n]
      /\ rows[m].label = rows[n].label => m = n

(* Whatever fails, and whatever resizes and renames found the namespace    *)
(* live before it went: once a namespace is deleted for good, no service   *)
(* holds anything for it, and none ever does again.                        *)
DeletedIsTornDown ==
  \A n \in Names : rows[n] # Absent /\ ~IsLive(rows[n]) =>
    kube[n] = Gone /\ sub[n] = Gone /\ inside[n] = {}

(* router/namespace.go, PUT /admin/namespaces/{id}: "Resize namespace      *)
(* without billing (admin only)": it leaves the tariff as it finds it.     *)
AdminResizeKeepsTariff ==
  [][\A s \in Slots :
       At(s, "commit") /\ req[s].op = "AdminResizeNamespace" /\ rows' # rows
         => rows'[req[s].ns].tariff = rows[req[s].ns].tariff]_vars
=============================================================================
