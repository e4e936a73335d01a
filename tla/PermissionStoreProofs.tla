------------------------ MODULE PermissionStoreProofs -----------------------
(***************************************************************************)
(* The handlers implement PermissionStore: whatever transactions, locks,   *)
(* failures and crashes do, each commit is one whole operation applied to  *)
(* the rows as they are.  From the same invariant, a live namespace keeps  *)
(* its one owner.  For every set of users, namespaces, groups, slots and   *)
(* requests.                                                               *)
(***************************************************************************)
EXTENDS PermissionServerProofs

\* A step leaves what the transaction of slot s goes by as it is; a statement
\* of its own that waits may lose rows that are gone.
Untouched(s) ==
  /\ pc'[s] = pc[s] /\ req'[s] = req[s]
  /\ targets'[s] = targets[s] \/ (pc[s] = "apply" /\ targets'[s] \subseteq targets[s])
  /\ grants'[s] = grants[s] /\ nss'[s] = nss[s] /\ user'[s] = user[s]
  /\ users'[s] = users[s] /\ pend'[s] = pend[s] /\ nsPend'[s] = nsPend[s]

Acts(s) == Step(s) \/ Break(s) \/ \E r \in Requests : Begin(s, r)

\* A step of one slot leaves the transactions of the others alone.
LEMMA OthersUntouched ==
  ASSUME TypeInv, NEW t \in Slots, NEW s \in Slots, t # s, Acts(t)
  PROVE  Untouched(s)
<1> USE DEF TypeInv, TypeOK, Untouched, Goto, tables, writes
<1>1. CASE \/ Refused(t) \/ Fail(t)
  <2>1. Rollback(t)
    BY <1>1 DEF Refused, LookupRefused, Unstorable, CreateRefused,
       NothingToDelete, RenameRefused, Fail
  <2>2. QED
    BY <2>1 DEF Rollback, Release, Return
<1>2. CASE CommitMember(t) \/ MemberFails(t)
  <2>1. NextMember(t)
    BY <1>2 DEF CommitMember, MemberFails
  <2>2. QED
    BY <2>1 DEF NextMember, Release
<1>3. CASE OwnerExists(t)
  BY <1>3 DEF OwnerExists, Rollback, Release, Return
<1>4. CASE Lookup(t) \/ PickMember(t) \/ NoMoreOwners(t) \/ CountOwners(t)
  BY <1>4 DEF Lookup, PickMember, NoMoreOwners, CountOwners
<1>5. CASE Upsert(t) \/ UpsertList(t) \/ InsertNamespace(t) \/ Apply(t)
  BY <1>5 DEF Upsert, UpsertList, InsertNamespace, Apply
<1>6. CASE \/ ScanNamespaces(t) \/ MarkDeleted(t) \/ Rename(t) \/ Scan(t)
           \/ External(t) \/ ReadAccesses(t)
  BY <1>6 DEF ScanNamespaces, MarkDeleted, Rename, Scan, External, ReadAccesses
<1>7. CASE PushAccesses(t) \/ PushIgnored(t)
  BY <1>7 DEF PushAccesses, PushIgnored, PushDone
<1>8. CASE Commit(t)
  BY <1>8 DEF Commit, Release, Return, PassedOver
<1>9. CASE \E r \in Requests : Begin(t, r)
  BY <1>9 DEF Begin
<1>10. QED
  BY <1>1, <1>2, <1>3, <1>4, <1>5, <1>6, <1>7, <1>8, <1>9 DEF Acts, Step, Break, Refused

-----------------------------------------------------------------------------
(* What a transaction has written, at each step of its operation.          *)

\* Nothing of permissions, of namespaces is written.
NoRows(s) == \A k \in Keys : pend[s][k] = Unwritten

NoNs(s) == \A n \in Namespaces : nsPend[s][n] = Unwritten

\* One row is written, of one user in the namespace of the request.
OnlyRow(s, u, row) ==
  \A k \in Keys : pend[s][k] = IF k = <<u, req[s].ns>> THEN row ELSE Unwritten

\* The rows found are gone.
Removed(s) ==
  \A k \in Keys : pend[s][k] = IF k \in targets[s] THEN NoRow ELSE Unwritten

\* The rows found have the limit.
Limited(s) ==
  \A k \in Keys : pend[s][k] = IF k \in targets[s]
                               THEN LimitedRow(perm[k], req[s].level)
                               ELSE Unwritten

\* The members of the group other than owners have their rows.
GroupRows(s) ==
  LET others == OtherMembers(req[s].group) IN
  \A k \in Keys : pend[s][k] =
    IF NsOf(k) = req[s].ns /\ others[UserOf(k)] # NoAccess
    THEN ListedRow(others[UserOf(k)], req[s].group) ELSE Unwritten

\* The namespace of the request is written.
OneNs(s, v) ==
  \A n \in Namespaces : nsPend[s][n] = IF n = req[s].ns THEN v ELSE Unwritten

\* The namespaces the transaction has written as deleted.
Marked(s) == {n \in Namespaces : nsPend[s][n] = "deleted"}

\* The rows written are gone, all of them rows of such namespaces.
GoneRows(s) ==
  \A k \in Keys : pend[s][k] # Unwritten => pend[s][k] = NoRow /\ NsOf(k) \in Marked(s)

\* Steps before the first write, and those that lead to the commit.
Before == {"idle", "lookup", "member", "count", "upsert", "upsertList",
           "nsInsert", "nsScan", "nsApply", "rename"}
Late   == {"authRead", "authPush", "commit"}

\* Those at which a transaction that writes namespaces has written them.
Sweeping == {"scan", "apply", "external"} \union Late

Is(s, op) == pc[s] # "idle" /\ req[s].op = op

(* The steps of each operation.                                            *)
Path(op) ==
  CASE op = "SetNamespaceAccess" -> {"lookup", "count", "upsert"} \union Late
    [] op = "SetGroupMemberNamespaceAccess" ->
         {"lookup", "count", "upsertList"} \union Late
    [] op = "AddGroupNamespace" ->
         {"lookup", "member", "count", "upsert", "commitMember", "upsertList",
          "commit"}
    [] op = "DeleteNamespaceAccess" -> {"lookup", "scan", "apply"} \union Late
    [] op \in {"SetUserAccesses", "DeleteGroupFromNamespace"} ->
         {"scan", "apply"} \union Late
    [] op = "CreateNamespace" -> {"nsInsert", "external"} \union Late
    [] op = "DeleteNamespace" ->
         {"lookup", "nsScan", "nsApply", "scan", "apply", "external"} \union Late
    [] op = "DeleteAllUserNamespaces" ->
         {"nsScan", "nsApply", "scan", "apply", "external"} \union Late
    [] op = "RenameNamespace" ->
         {"lookup", "rename", "scan", "apply", "external"} \union Late

\* The plan of each operation: what it has written at each of its steps.
GrantTx(s) ==
  LET r == req[s] IN
  Is(s, "SetNamespaceAccess") =>
    /\ NoNs(s)
    /\ pc[s] \in {"count", "upsert"} => grants[s] = OneGrant(r.target, r.level)
    /\ pc[s] \in Late =>
         /\ Storable(r.level)
         /\ OnlyRow(s, r.target, GrantedRow(perm[<<r.target, r.ns>>], r.level))

MemberTx(s) ==
  LET r == req[s] IN
  Is(s, "SetGroupMemberNamespaceAccess") =>
    /\ NoNs(s)
    /\ pc[s] \in {"count", "upsertList"} => grants[s] = OneGrant(r.target, r.level)
    /\ pc[s] \in Late =>
         /\ Storable(r.level)
         /\ OnlyRow(s, r.target, ListedRow(r.level, NoGroup))

GroupTx(s) ==
  Is(s, "AddGroupNamespace") =>
    /\ NoNs(s)
    /\ pc[s] \in {"count", "upsert"} =>
         user[s] \in Users /\ \E l \in Levels : grants[s] = OneGrant(user[s], l)
    /\ pc[s] = "commitMember" =>
         /\ user[s] \in Users
         /\ \E l \in Levels :
              /\ Storable(l)
              /\ OnlyRow(s, user[s], GrantedRow(perm[<<user[s], req[s].ns>>], l))
    /\ pc[s] = "upsertList" => grants[s] = OtherMembers(req[s].group)
    /\ pc[s] = "commit" => NoRows(s) \/ GroupRows(s)

RevokeTx(s) ==
  LET r == req[s] IN
  Is(s, "DeleteNamespaceAccess") =>
    /\ NoNs(s)
    /\ pc[s] \in Late =>
         /\ Removed(s)
         /\ \A k \in targets[s] :
              k = <<r.target, r.ns>> /\ perm[k] # NoRow /\ Deletable(perm[k])

LimitTx(s) ==
  Is(s, "SetUserAccesses") =>
    /\ NoNs(s)
    /\ pc[s] # "scan" => Storable(req[s].level)
    /\ pc[s] \in Late =>
         /\ Limited(s)
         /\ \A k \in targets[s] :
              perm[k] # NoRow /\ OwnerOf[NsOf(k)] = req[s].caller

DropTx(s) ==
  Is(s, "DeleteGroupFromNamespace") =>
    /\ NoNs(s)
    /\ pc[s] \in Late =>
         /\ Removed(s)
         /\ \A k \in targets[s] : perm[k] # NoRow /\ perm[k].group = req[s].group

CreateTx(s) ==
  Is(s, "CreateNamespace") =>
    /\ pc[s] # "nsInsert" =>
         OneNs(s, "live") /\ OnlyRow(s, OwnerOf[req[s].ns], OwnerRow)

DeleteTx(s) ==
  (Is(s, "DeleteNamespace") \/ Is(s, "DeleteAllUserNamespaces")) =>
    /\ pc[s] = "nsApply" => \A n \in nss[s] : NsMatches(req[s], n)
    /\ pc[s] \in Sweeping =>
         /\ GoneRows(s)
         /\ Marked(s) # {}
         /\ \A n \in Marked(s) : NsMatches(req[s], n)
         /\ \A n \in Namespaces \ Marked(s) : nsPend[s][n] = Unwritten

RenameTx(s) ==
  Is(s, "RenameNamespace") =>
    /\ pc[s] \in Sweeping =>
         /\ GoneRows(s)
         /\ \E v \in {"live", "deleted"} : OneNs(s, v)

TxInv(s) ==
  /\ pc[s] # "idle" => pc[s] \in Path(req[s].op)
  /\ pc[s] \in Before => NoRows(s) /\ NoNs(s)
  /\ pc[s] \in {"scan", "apply"} /\ ~Sweeps(req[s]) => NoRows(s)
  /\ GrantTx(s) /\ MemberTx(s) /\ GroupTx(s) /\ RevokeTx(s)
  /\ LimitTx(s) /\ DropTx(s) /\ CreateTx(s) /\ DeleteTx(s) /\ RenameTx(s)

(* Two transactions never hold the same row.                               *)
RowLocks ==
  \A s, t \in Slots, k \in Keys :
    s # t => pend[s][k] = Unwritten \/ pend[t][k] = Unwritten

(* A namespace that is not there has no rows but those of its creation.    *)
AbsentInv ==
  \A k \in Keys : ns[NsOf(k)] = "absent" =>
    /\ perm[k] = NoRow
    /\ \A s \in Slots : pend[s][k] # Unwritten => Creates(s, NsOf(k))

(* A request past its lookup is about a namespace that was there.          *)
LookedUp ==
  \A s \in Slots :
    pc[s] \in {"member", "count", "upsert", "upsertList", "commitMember"}
      => ns[req[s].ns] # "absent"

\* The invariant of the refinement.
StoreInv ==
  /\ NsInv
  /\ \A s \in Slots : TxInv(s)
  /\ RowLocks
  /\ AbsentInv
  /\ LookedUp

-----------------------------------------------------------------------------
(* The steps of one request leave the transactions of the others alone.    *)

RowsKept(t) == \A k \in Keys : pend[t][k] # Unwritten => perm'[k] = perm[k]

\* A commit leaves the rows that other transactions hold alone.
LEMMA OtherRowsKept ==
  ASSUME TypeInv, RowLocks, NEW s \in Slots, NEW t \in Slots, t # s,
         perm' = perm \/ perm' = PermView(s)
  PROVE  RowsKept(t)
BY DEF RowsKept, RowLocks, PermView

\* What the written rows are made from does not change before they are
\* committed.
LEMMA TxStays ==
  ASSUME TypeInv, NEW t \in Slots, TxInv(t), Untouched(t), RowsKept(t)
  PROVE  TxInv(t)'
<1> USE DEF TxInv, Untouched, RowsKept, NoRows, NoNs, Is
<1>1. ASSUME NEW u \in Users, pc[t] # "idle"
      PROVE  <<u, req[t].ns>> \in Keys
  BY <1>1, RequestTypes DEF Keys
<1>2. Unwritten \notin RowOrNone
  BY ServerAssumption
<1>3. /\ \A l \in Levels, old \in RowOrNone : GrantedRow(old, l) # Unwritten
      /\ \A l \in Levels, row \in Row : LimitedRow(row, l) # Unwritten
      /\ NoRow # Unwritten
  BY <1>2, RowTypes DEF RowOrNone
<1>4. perm \in [Keys -> RowOrNone] /\ targets[t] \subseteq Keys
  BY DEF TypeInv, TypeOK
<1>5. GrantTx(t)'
  <2>1. CASE Is(t, "SetNamespaceAccess") /\ pc[t] \in Late
    <3> DEFINE k == <<req[t].target, req[t].ns>>
    <3>1. k \in Keys /\ req[t].level \in Levels
      BY <1>1, <2>1, RequestTypes
    <3>2. pend[t][k] # Unwritten
      BY <1>3, <1>4, <2>1, <3>1 DEF GrantTx, OnlyRow
    <3>3. perm'[k] = perm[k]
      BY <3>1, <3>2
    <3>4. QED
      BY <2>1, <3>3 DEF GrantTx, OnlyRow
  <2>2. CASE ~(Is(t, "SetNamespaceAccess") /\ pc[t] \in Late)
    BY <2>2 DEF GrantTx
  <2>3. QED
    BY <2>1, <2>2
<1>6. MemberTx(t)'
  BY DEF MemberTx, OnlyRow
<1>7. GroupTx(t)'
  <2>1. CASE Is(t, "AddGroupNamespace") /\ pc[t] = "commitMember"
    <3> DEFINE k == <<user[t], req[t].ns>>
    <3>1. user[t] \in Users /\ k \in Keys
      BY <1>1, <2>1 DEF GroupTx
    <3>2. PICK l \in Levels : Storable(l) /\ OnlyRow(t, user[t], GrantedRow(perm[k], l))
      BY <2>1 DEF GroupTx
    <3>3. pend[t][k] # Unwritten
      BY <1>3, <1>4, <3>1, <3>2 DEF OnlyRow
    <3>4. perm'[k] = perm[k]
      BY <3>1, <3>3
    <3>5. OnlyRow(t, user[t], GrantedRow(perm[k], l))'
      BY <3>2, <3>4 DEF OnlyRow
    <3>6. QED
      BY <2>1, <3>1, <3>2, <3>5 DEF GroupTx
  <2>2. CASE ~(Is(t, "AddGroupNamespace") /\ pc[t] = "commitMember")
    BY <2>2 DEF GroupTx, GroupRows
  <2>3. QED
    BY <2>1, <2>2
<1>8. pc[t] \in Late => targets'[t] = targets[t]
  BY DEF Late
<1>9. Removed(t) => \A k \in targets[t] : perm'[k] = perm[k]
  BY <1>3, <1>4 DEF Removed
<1>10. RevokeTx(t)'
  BY <1>8, <1>9 DEF RevokeTx, Removed
<1>11. LimitTx(t)'
  <2>1. CASE Is(t, "SetUserAccesses") /\ pc[t] \in Late
    <3>1. req[t].level \in Levels
      BY <2>1, RequestTypes
    <3>2. ASSUME NEW k \in targets[t] PROVE perm'[k] = perm[k]
      <4>1. k \in Keys /\ perm[k] \in Row
        BY <1>4, <2>1 DEF LimitTx, RowOrNone
      <4>2. pend[t][k] = LimitedRow(perm[k], req[t].level)
        BY <2>1, <4>1 DEF LimitTx, Limited
      <4>3. QED
        BY <1>3, <3>1, <4>1, <4>2
    <3>3. QED
      BY <1>8, <2>1, <3>2 DEF LimitTx, Limited
  <2>2. CASE ~(Is(t, "SetUserAccesses") /\ pc[t] \in Late)
    BY <2>2 DEF LimitTx
  <2>3. QED
    BY <2>1, <2>2
<1>12. DropTx(t)'
  BY <1>8, <1>9 DEF DropTx, Removed
<1>13. CreateTx(t)'
  BY DEF CreateTx, OneNs, OnlyRow
<1>14. GoneRows(t) => GoneRows(t)'
  BY DEF GoneRows, Marked
<1>15. DeleteTx(t)'
  BY <1>14 DEF DeleteTx, Marked
<1>16. RenameTx(t)'
  BY <1>14 DEF RenameTx, OneNs
<1>17. QED
  BY <1>5, <1>6, <1>7, <1>10, <1>11, <1>12, <1>13, <1>15, <1>16

\* The mark of a user without a grant is not a level.
LEMMA NoAccessOutside == NoAccess \notin Levels
BY DEF NoAccess, Levels, None, Owner

\* Which operations have a step.
LEMMA StepOps ==
  ASSUME NEW op \in Ops, NEW p \in Path(op)
  PROVE  /\ p = "lookup" => op \in {"SetNamespaceAccess", "DeleteNamespaceAccess",
                                    "DeleteNamespace", "RenameNamespace",
                                    "AddGroupNamespace",
                                    "SetGroupMemberNamespaceAccess"}
         /\ p \in {"member", "commitMember"} => op = "AddGroupNamespace"
         /\ p = "count" => op \in {"SetNamespaceAccess", "AddGroupNamespace",
                                   "SetGroupMemberNamespaceAccess"}
         /\ p = "upsert" => op \in {"SetNamespaceAccess", "AddGroupNamespace"}
         /\ p = "upsertList" => op \in {"SetGroupMemberNamespaceAccess",
                                        "AddGroupNamespace"}
         /\ p = "nsInsert" => op = "CreateNamespace"
         /\ p = "rename" => op = "RenameNamespace"
         /\ p \in {"nsScan", "nsApply"} =>
              op \in {"DeleteNamespace", "DeleteAllUserNamespaces"}
         /\ p \in {"scan", "apply"} =>
              op \in {"DeleteNamespaceAccess", "SetUserAccesses",
                      "DeleteGroupFromNamespace", "DeleteNamespace",
                      "DeleteAllUserNamespaces", "RenameNamespace"}
         /\ p = "external" => op \in {"CreateNamespace", "DeleteNamespace",
                                      "DeleteAllUserNamespaces", "RenameNamespace"}
         /\ p \in {"authRead", "authPush"} => op # "AddGroupNamespace"
         /\ op # "AddGroupNamespace" => Late \subseteq Path(op)
BY DEF Path, Late, Ops

\* A request at work is at a step of its operation.
LEMMA SlotOps ==
  ASSUME TypeInv, NEW s \in Slots, TxInv(s), pc[s] # "idle"
  PROVE  req[s].op \in Ops /\ pc[s] \in Path(req[s].op)
BY RequestTypes DEF TxInv

-----------------------------------------------------------------------------
(* Each step of a request keeps what its transaction has written to plan.  *)

\* A request ends.
LEMMA EndTx ==
  ASSUME TypeInv, NEW s \in Slots, Release(s), Return(s)
  PROVE  TxInv(s)'
<1>1. pc'[s] = "idle"
  BY DEF Return, Goto, TypeInv, TypeOK
<1>2. NoRows(s)' /\ NoNs(s)'
  BY DEF Release, NoRows, NoNs, TypeInv, TypeOK
<1>3. QED
  BY <1>1, <1>2 DEF TxInv, Is, GrantTx, MemberTx, GroupTx, RevokeTx, LimitTx, DropTx,
     CreateTx, DeleteTx, RenameTx

\* A transaction that is rolled back has written nothing.
LEMMA RollbackTx ==
  ASSUME TypeInv, NEW s \in Slots, Rollback(s)
  PROVE  TxInv(s)'
BY EndTx DEF Rollback

\* The transaction of one owner member ends before the next begins.
LEMMA NextMemberTx ==
  ASSUME TypeInv, NEW s \in Slots, NextMember(s), req[s].op = "AddGroupNamespace"
  PROVE  TxInv(s)'
<1>1. /\ pc'[s] = "member" /\ req' = req
  BY DEF NextMember, Goto, TypeInv, TypeOK
<1>2. NoRows(s)' /\ NoNs(s)'
  BY DEF NextMember, Release, NoRows, NoNs, TypeInv, TypeOK
<1>3. pc'[s] \in Path(req'[s].op)
  BY <1>1 DEF Path
<1>4. QED
  BY <1>1, <1>2, <1>3 DEF TxInv, Is, GrantTx, MemberTx, GroupTx, RevokeTx, LimitTx,
     DropTx, CreateTx, DeleteTx, RenameTx

\* A request starts with nothing written.
LEMMA BeginTx ==
  ASSUME TypeInv, NEW s \in Slots, NEW r \in Requests, TxInv(s), Begin(s, r)
  PROVE  TxInv(s)'
<1>1. /\ pc[s] = "idle" /\ pc'[s] = FirstStep(r.op) /\ req'[s] = r
      /\ pend' = pend /\ nsPend' = nsPend
  BY DEF Begin, Goto, writes, TypeInv, TypeOK
<1>2. NoRows(s)' /\ NoNs(s)'
  BY <1>1 DEF TxInv, Before, NoRows, NoNs
<1>3. r.op \in Ops
  BY ServerAssumption DEF Request
<1>4. /\ FirstStep(r.op) \in Path(r.op)
      /\ FirstStep(r.op) \in {"nsInsert", "nsScan", "scan", "lookup"}
      /\ r.op \in {"DeleteNamespace", "DeleteAllUserNamespaces", "RenameNamespace"} =>
           FirstStep(r.op) \in {"lookup", "nsScan"}
      /\ r.op = "CreateNamespace" => FirstStep(r.op) = "nsInsert"
      /\ r.op = "SetUserAccesses" => FirstStep(r.op) = "scan"
  BY <1>3 DEF FirstStep, Path, Ops
<1>5. QED
  BY <1>1, <1>2, <1>4 DEF TxInv, Is, GrantTx, MemberTx, GroupTx, RevokeTx, LimitTx,
     DropTx, CreateTx, DeleteTx, RenameTx, Late, Sweeping

\* Steps before the first write of a transaction.
LEMMA EarlyTx ==
  ASSUME TypeInv, NEW s \in Slots, TxInv(s),
         \/ Lookup(s) \/ PickMember(s) \/ NoMoreOwners(s) \/ CountOwners(s)
         \/ OwnerExists(s) /\ req[s].op = "AddGroupNamespace"
         \/ ScanNamespaces(s)
  PROVE  TxInv(s)'
<1> USE DEF Goto, writes, tables, TypeInv, TypeOK
<1>1. /\ pc[s] \in Before /\ pc[s] # "idle" /\ req' = req /\ pend' = pend
      /\ nsPend' = nsPend /\ pc'[s] # "idle"
  BY DEF Lookup, PickMember, NoMoreOwners, CountOwners, OwnerExists, InsertStep,
     ScanNamespaces, Before
<1>2. NoRows(s)' /\ NoNs(s)'
  BY <1>1 DEF TxInv, NoRows, NoNs
<1>3. req[s].op \in Ops /\ pc[s] \in Path(req[s].op)
  BY <1>1, SlotOps
<1>4. CASE Lookup(s)
  <2>1. pc[s] = "lookup"
    BY <1>4 DEF Lookup
  <2>2. req[s].op \in {"SetNamespaceAccess", "DeleteNamespaceAccess",
                       "DeleteNamespace", "RenameNamespace",
                       "AddGroupNamespace", "SetGroupMemberNamespaceAccess"}
    BY <1>3, <2>1, StepOps
  <2>3. pc'[s] \in Path(req[s].op) \ Late
    BY <1>4 DEF Lookup, Path, Late
  <2>4. /\ pc'[s] \in {"count", "scan", "nsScan", "member", "rename"}
        /\ pc'[s] = "count" => grants'[s] = OneGrant(req[s].target, req[s].level)
        /\ req[s].op = "AddGroupNamespace" => pc'[s] = "member"
        /\ req[s].op = "DeleteNamespace" => pc'[s] = "nsScan"
        /\ req[s].op = "RenameNamespace" => pc'[s] = "rename"
    BY <1>4 DEF Lookup
  <2>5. DeleteTx(s)' /\ RenameTx(s)'
    BY <1>1, <2>2, <2>4 DEF Is, DeleteTx, RenameTx, Sweeping, Late
  <2>6. QED
    BY <1>1, <1>2, <2>2, <2>3, <2>4, <2>5 DEF TxInv, Is, GrantTx, MemberTx, GroupTx,
       RevokeTx, LimitTx, DropTx, CreateTx, Late
<1>5. CASE PickMember(s) \/ NoMoreOwners(s)
  <2>1. req[s].op = "AddGroupNamespace"
    BY <1>3, <1>5, StepOps DEF PickMember, NoMoreOwners
  <2>2. GroupTx(s)'
    <3>1. CASE PickMember(s)
      <4>1. PICK u \in users[s] : /\ user' = [user EXCEPT ![s] = u]
                                  /\ grants' = [grants EXCEPT ![s] = OneGrant(u, Owner)]
        BY <3>1 DEF PickMember
      <4>2. u \in Users /\ Owner \in Levels
        BY <4>1 DEF Levels, Owner, None
      <4>3. user'[s] = u /\ grants'[s] = OneGrant(u, Owner) /\ pc'[s] = "count"
        BY <3>1, <4>1 DEF PickMember
      <4>4. QED
        BY <1>1, <1>2, <4>2, <4>3 DEF GroupTx
    <3>2. CASE NoMoreOwners(s)
      BY <1>1, <1>2, <3>2 DEF NoMoreOwners, GroupTx
    <3>3. QED
      BY <1>5, <3>1, <3>2
  <2>3. pc'[s] \in Path(req[s].op)
    BY <1>5, <2>1 DEF PickMember, NoMoreOwners, Path
  <2>4. QED
    BY <1>1, <1>2, <2>1, <2>2, <2>3 DEF TxInv, Is, GrantTx, MemberTx, RevokeTx, LimitTx,
       DropTx, CreateTx, DeleteTx, RenameTx
<1>6. CASE CountOwners(s)
  <2>1. /\ pc[s] = "count" /\ pc'[s] = InsertStep(req[s].op)
        /\ grants' = grants /\ user' = user
    BY <1>6 DEF CountOwners
  <2>2. req[s].op \in {"SetNamespaceAccess", "AddGroupNamespace",
                       "SetGroupMemberNamespaceAccess"}
    BY <1>3, <2>1, StepOps
  <2>3. /\ pc'[s] \in Path(req[s].op)
        /\ pc'[s] = "upsertList" <=> req[s].op = "SetGroupMemberNamespaceAccess"
        /\ pc'[s] \in {"upsert", "upsertList"}
    BY <2>1, <2>2 DEF InsertStep, Path
  <2>4. QED
    BY <1>1, <1>2, <2>1, <2>2, <2>3 DEF TxInv, Is, GrantTx, MemberTx, GroupTx, RevokeTx,
       LimitTx, DropTx, CreateTx, DeleteTx, RenameTx, Late
<1>7. CASE OwnerExists(s) /\ req[s].op = "AddGroupNamespace"
  <2>1. /\ pc[s] = "count" /\ pc'[s] = "upsert" /\ user' = user
        /\ grants'[s] = OneGrant(user[s], Write)
    BY <1>7 DEF OwnerExists
  <2>2. user[s] \in Users /\ Write \in Levels
    BY <1>1, <1>7, <2>1 DEF TxInv, Is, GroupTx, Levels, None, Owner, Write
  <2>3. GroupTx(s)'
    BY <1>1, <1>2, <2>1, <2>2 DEF GroupTx
  <2>4. pc'[s] \in Path(req[s].op)
    BY <1>7, <2>1 DEF Path
  <2>5. QED
    BY <1>1, <1>2, <1>7, <2>3, <2>4 DEF TxInv, Is, GrantTx, MemberTx, RevokeTx, LimitTx,
       DropTx, CreateTx, DeleteTx, RenameTx
<1>8. CASE ScanNamespaces(s)
  <2>1. /\ pc[s] = "nsScan" /\ pc'[s] = "nsApply"
        /\ \A n \in nss'[s] : NsMatches(req[s], n)
    BY <1>8 DEF ScanNamespaces
  <2>2. \A n \in nss'[s] : NsMatches(req'[s], n)
    BY <1>1, <2>1
  <2>3. DeleteTx(s)'
    BY <1>1, <2>1, <2>2 DEF DeleteTx, Sweeping, Late
  <2>4. req[s].op \in {"DeleteNamespace", "DeleteAllUserNamespaces"}
    BY <1>3, <2>1, StepOps
  <2>5. pc'[s] \in Path(req[s].op)
    BY <2>1, <2>4 DEF Path
  <2>6. QED
    BY <1>1, <1>2, <2>1, <2>3, <2>4, <2>5 DEF TxInv, Is, GrantTx, MemberTx, GroupTx,
       RevokeTx, LimitTx, DropTx, CreateTx, RenameTx
<1>9. QED
  BY <1>4, <1>5, <1>6, <1>7, <1>8

\* One grant is written on the row the statement sees, which is the committed one.
LEMMA UpsertTx ==
  ASSUME TypeInv, NEW s \in Slots, TxInv(s), Upsert(s)
  PROVE  TxInv(s)'
<1> USE DEF Goto, tables, TypeInv, TypeOK
<1>1. /\ pc[s] = "upsert" /\ req' = req /\ user' = user /\ perm' = perm
      /\ NoRows(s) /\ NoNs(s) /\ NoNs(s)'
      /\ pc'[s] = IF req[s].op = "AddGroupNamespace" THEN "commitMember" ELSE "authRead"
  BY DEF Upsert, TxInv, Before, NoNs
<1>2. req[s].op \in Ops /\ pc[s] \in Path(req[s].op) /\ req[s].ns \in Namespaces
  BY <1>1, SlotOps, RequestTypes
<1>3. req[s].op \in {"SetNamespaceAccess", "AddGroupNamespace"}
  BY <1>1, <1>2, StepOps
<1>4. PermView(s) = perm
  BY <1>1 DEF PermView, NoRows
<1>5. ASSUME NEW u \in Users, NEW l \in Levels, grants[s] = OneGrant(u, l)
      PROVE  Storable(l) /\ OnlyRow(s, u, GrantedRow(perm[<<u, req[s].ns>>], l))'
  <2>1. l # NoAccess /\ grants[s][u] = l /\ \A v \in Users : v # u => grants[s][v] = NoAccess
    BY <1>5, NoAccessOutside DEF OneGrant, NobodyGranted
  <2>2. Written(s) = {<<u, req[s].ns>>}
    BY <2>1 DEF Written
  <2>3. \A k \in Keys : pend'[s][k] =
          IF k = <<u, req[s].ns>> THEN GrantedRow(perm[k], grants[s][UserOf(k)])
          ELSE Unwritten
    BY <1>1, <1>4, <2>2 DEF Upsert, NoRows
  <2>4. UserOf(<<u, req[s].ns>>) = u
    BY DEF UserOf
  <2>5. OnlyRow(s, u, GrantedRow(perm[<<u, req[s].ns>>], l))'
    BY <1>1, <2>1, <2>3, <2>4 DEF OnlyRow
  <2>6. QED
    BY <2>1, <2>5 DEF Upsert, CanWrite
<1>6. CASE req[s].op = "SetNamespaceAccess"
  <2>1. /\ grants[s] = OneGrant(req[s].target, req[s].level)
        /\ req[s].target \in Users /\ req[s].level \in Levels
    BY <1>1, <1>6, RequestTypes DEF TxInv, Is, GrantTx
  <2>2. GrantTx(s)'
    BY <1>1, <1>5, <1>6, <2>1 DEF GrantTx, OnlyRow, Late
  <2>3. pc'[s] \in Path(req[s].op)
    BY <1>1, <1>6 DEF Path, Late
  <2>4. QED
    BY <1>1, <1>6, <2>2, <2>3 DEF TxInv, Is, MemberTx, GroupTx, RevokeTx, LimitTx, DropTx,
       CreateTx, DeleteTx, RenameTx, Before
<1>7. CASE req[s].op = "AddGroupNamespace"
  <2>1. /\ user[s] \in Users /\ \E l \in Levels : grants[s] = OneGrant(user[s], l)
    BY <1>1, <1>7 DEF TxInv, Is, GroupTx
  <2>2. GroupTx(s)'
    BY <1>1, <1>5, <1>7, <2>1 DEF GroupTx, OnlyRow
  <2>3. pc'[s] \in Path(req[s].op)
    BY <1>1, <1>7 DEF Path
  <2>4. QED
    BY <1>1, <1>7, <2>2, <2>3 DEF TxInv, Is, MemberTx, GrantTx, RevokeTx, LimitTx, DropTx,
       CreateTx, DeleteTx, RenameTx, Before
<1>8. QED
  BY <1>3, <1>6, <1>7

\* The list of grants replaces the rows of its users.
LEMMA UpsertListTx ==
  ASSUME TypeInv, NEW s \in Slots, TxInv(s), UpsertList(s)
  PROVE  TxInv(s)'
<1> USE DEF Goto, tables, TypeInv, TypeOK
<1>1. /\ pc[s] = "upsertList" /\ req' = req /\ user' = user /\ perm' = perm
      /\ NoRows(s) /\ NoNs(s) /\ NoNs(s)'
      /\ pc'[s] = IF req[s].op = "AddGroupNamespace" THEN "commit" ELSE "authRead"
  BY DEF UpsertList, TxInv, Before, NoNs
<1>2. req[s].op \in Ops /\ pc[s] \in Path(req[s].op) /\ req[s].ns \in Namespaces
  BY <1>1, SlotOps, RequestTypes
<1>3. req[s].op \in {"SetGroupMemberNamespaceAccess", "AddGroupNamespace"}
  BY <1>1, <1>2, StepOps
<1>4. \A k \in Keys : pend'[s][k] =
        IF k \in Written(s) THEN ListedRow(grants[s][UserOf(k)], ListGroup(req[s]))
        ELSE Unwritten
  BY <1>1 DEF UpsertList, NoRows
<1>5. CASE req[s].op = "SetGroupMemberNamespaceAccess"
  <2> DEFINE u == req[s].target
             l == req[s].level
  <2>1. grants[s] = OneGrant(u, l) /\ u \in Users /\ l \in Levels
    BY <1>1, <1>5, RequestTypes DEF TxInv, Is, MemberTx
  <2>2. l # NoAccess /\ grants[s][u] = l /\ \A v \in Users : v # u => grants[s][v] = NoAccess
    BY <2>1, NoAccessOutside DEF OneGrant, NobodyGranted
  <2>3. Written(s) = {<<u, req[s].ns>>} /\ UserOf(<<u, req[s].ns>>) = u
    BY <2>1, <2>2 DEF Written, UserOf
  <2>4. Storable(l) /\ ListGroup(req[s]) = NoGroup
    BY <1>5, <2>1, <2>2 DEF UpsertList, CanWrite, ListGroup
  <2>5. OnlyRow(s, u, ListedRow(l, NoGroup))'
    BY <1>1, <1>4, <2>2, <2>3, <2>4 DEF OnlyRow
  <2>6. MemberTx(s)'
    BY <1>1, <1>5, <2>4, <2>5 DEF MemberTx, OnlyRow, Late
  <2>7. pc'[s] \in Path(req[s].op)
    BY <1>1, <1>5 DEF Path, Late
  <2>8. QED
    BY <1>1, <1>5, <2>6, <2>7 DEF TxInv, Is, GrantTx, GroupTx, RevokeTx, LimitTx, DropTx,
       CreateTx, DeleteTx, RenameTx, Before
<1>6. CASE req[s].op = "AddGroupNamespace"
  <2>1. grants[s] = OtherMembers(req[s].group) /\ ListGroup(req[s]) = req[s].group
    BY <1>1, <1>6 DEF TxInv, Is, GroupTx, ListGroup
  <2>2. \A k \in Keys : k \in Written(s) <=>
          NsOf(k) = req[s].ns /\ grants[s][UserOf(k)] # NoAccess
    BY DEF Written, Keys, NsOf, UserOf
  <2>3. GroupRows(s)'
    BY <1>1, <1>4, <2>1, <2>2 DEF GroupRows
  <2>4. GroupTx(s)'
    BY <1>1, <1>6, <2>3 DEF GroupTx
  <2>5. pc'[s] \in Path(req[s].op)
    BY <1>1, <1>6 DEF Path
  <2>6. QED
    BY <1>1, <1>6, <2>4, <2>5 DEF TxInv, Is, GrantTx, MemberTx, RevokeTx, LimitTx, DropTx,
       CreateTx, DeleteTx, RenameTx, Before
<1>7. QED
  BY <1>3, <1>5, <1>6

\* A creation writes the namespace and the row of its owner.
LEMMA InsertNamespaceTx ==
  ASSUME TypeInv, NEW s \in Slots, TxInv(s), InsertNamespace(s)
  PROVE  TxInv(s)'
<1> USE DEF Goto, tables, TypeInv, TypeOK
<1>1. /\ pc[s] = "nsInsert" /\ pc'[s] = "external" /\ req' = req
      /\ NoRows(s) /\ NoNs(s)
  BY DEF InsertNamespace, TxInv, Before
<1>2. req[s].op = "CreateNamespace" /\ req[s].ns \in Namespaces
  BY <1>1, SlotOps, StepOps, RequestTypes
<1>3. OneNs(s, "live")' /\ OnlyRow(s, OwnerOf[req[s].ns], OwnerRow)'
  BY <1>1, <1>2 DEF InsertNamespace, NoRows, NoNs, OneNs, OnlyRow
<1>4. pc'[s] \in Path(req[s].op)
  BY <1>1, <1>2 DEF Path
<1>5. CreateTx(s)'
  BY <1>1, <1>3 DEF CreateTx, OnlyRow
<1>6. QED
  BY <1>1, <1>2, <1>4, <1>5 DEF TxInv, Is, GrantTx, MemberTx, GroupTx, RevokeTx, LimitTx,
     DropTx, DeleteTx, RenameTx, Before

\* A deletion marks the namespaces its statement found.
LEMMA MarkDeletedTx ==
  ASSUME TypeInv, NEW s \in Slots, TxInv(s), MarkDeleted(s)
  PROVE  TxInv(s)'
<1> USE DEF Goto, tables, TypeInv, TypeOK
<1>1. /\ pc[s] = "nsApply" /\ pc'[s] = "scan" /\ req' = req
      /\ NoRows(s)' /\ NoNs(s)
  BY DEF MarkDeleted, TxInv, Before, NoRows
<1>2. req[s].op \in {"DeleteNamespace", "DeleteAllUserNamespaces"}
  <2>1. req[s].op \in Ops /\ pc[s] \in Path(req[s].op)
    BY <1>1, SlotOps
  <2>2. QED
    BY <1>1, <2>1, StepOps
<1>3. /\ StillThere(s) # {} /\ StillThere(s) \subseteq nss[s]
      /\ nsPend'[s] = [n \in Namespaces |-> IF n \in StillThere(s) THEN "deleted"
                                             ELSE nsPend[s][n]]
  BY <1>1 DEF MarkDeleted, StillThere
<1>4. /\ Marked(s)' = StillThere(s)
      /\ \A n \in Namespaces \ StillThere(s) : nsPend'[s][n] = Unwritten
  BY <1>1, <1>3, ServerAssumption DEF Marked, NoNs
<1>5. \A n \in nss[s] : NsMatches(req[s], n)
  BY <1>1, <1>2 DEF TxInv, DeleteTx, Is
<1>6. DeleteTx(s)'
  <2>1. \A n \in Marked(s)' : NsMatches(req'[s], n)
    BY <1>1, <1>3, <1>4, <1>5
  <2>2. GoneRows(s)'
    BY <1>1 DEF GoneRows, NoRows
  <2>3. QED
    BY <1>1, <1>3, <1>4, <2>1, <2>2 DEF DeleteTx
<1>7. pc'[s] \in Path(req[s].op)
  BY <1>1, <1>2 DEF Path
<1>8. QED
  BY <1>1, <1>2, <1>6, <1>7 DEF TxInv, Is, GrantTx, MemberTx, GroupTx, RevokeTx, LimitTx,
     DropTx, CreateTx, RenameTx, Before, Sweeps

\* A rename writes its namespace as it is, and goes on to sweep it when it is
\* deleted.
LEMMA RenameRowTx ==
  ASSUME TypeInv, NEW s \in Slots, TxInv(s), Rename(s)
  PROVE  TxInv(s)'
<1> USE DEF Goto, tables, TypeInv, TypeOK
<1>1. /\ pc[s] = "rename" /\ pc'[s] \in {"scan", "external"} /\ req' = req
      /\ ns' = ns /\ NoRows(s)' /\ NoNs(s)
  BY DEF Rename, TxInv, Before, NoRows
<1>2. req[s].op = "RenameNamespace" /\ req[s].ns \in Namespaces
  BY <1>1, SlotOps, StepOps, RequestTypes
<1>3. ns[req[s].ns] \in {"live", "deleted"}
  BY <1>2 DEF Rename
<1>4. OneNs(s, ns[req[s].ns])'
  BY <1>1, <1>2 DEF Rename, NoNs, OneNs
<1>5. RenameTx(s)'
  <2>1. GoneRows(s)'
    BY <1>1 DEF GoneRows, NoRows
  <2>2. \E v \in {"live", "deleted"} : OneNs(s, v)'
    BY <1>1, <1>3, <1>4 DEF OneNs
  <2>3. QED
    BY <2>1, <2>2 DEF RenameTx
<1>6. pc'[s] \in Path(req[s].op)
  BY <1>1, <1>2 DEF Path
<1>7. QED
  BY <1>1, <1>2, <1>5, <1>6 DEF TxInv, Is, GrantTx, MemberTx, GroupTx, RevokeTx, LimitTx,
     DropTx, CreateTx, DeleteTx, Before, Sweeps

\* Finding the rows of a statement writes nothing.
LEMMA ScanTx ==
  ASSUME TypeInv, NEW s \in Slots, TxInv(s), Scan(s)
  PROVE  TxInv(s)'
<1> USE DEF Goto, tables, writes, TypeInv, TypeOK
<1>1. /\ pc[s] = "scan" /\ pc'[s] = "apply" /\ req' = req /\ pend' = pend
      /\ nsPend' = nsPend
      /\ req[s].op = "SetUserAccesses" => Storable(req[s].level)
  BY DEF Scan
<1>2. req[s].op \in {"DeleteNamespaceAccess", "SetUserAccesses",
                     "DeleteGroupFromNamespace", "DeleteNamespace",
                     "DeleteAllUserNamespaces", "RenameNamespace"}
  <2>1. req[s].op \in Ops /\ pc[s] \in Path(req[s].op)
    BY <1>1, SlotOps
  <2>2. QED
    BY <1>1, <2>1, StepOps
<1>3. pc'[s] \in Path(req[s].op)
  BY <1>1, <1>2 DEF Path
<1>4. RevokeTx(s)' /\ LimitTx(s)' /\ DropTx(s)'
  BY <1>1 DEF TxInv, Is, RevokeTx, LimitTx, DropTx, NoNs, Late
<1>5. DeleteTx(s)' /\ RenameTx(s)'
  BY <1>1 DEF TxInv, Is, DeleteTx, RenameTx, GoneRows, Marked, OneNs, Sweeping
<1>6. ~Sweeps(req'[s]) => NoRows(s)'
  BY <1>1 DEF TxInv, NoRows
<1>7. QED
  BY <1>1, <1>2, <1>3, <1>4, <1>5, <1>6 DEF TxInv, Is, GrantTx, MemberTx, GroupTx,
     CreateTx, Before

\* What a statement changes matches it still, once it has the rows.
LEMMA ApplyTx ==
  ASSUME TypeInv, NEW s \in Slots, TxInv(s), Apply(s)
  PROVE  TxInv(s)'
<1> USE DEF Goto, tables, TypeInv, TypeOK
<1>1. /\ pc[s] = "apply" /\ req' = req /\ nss' = nss /\ perm' = perm
      /\ nsPend' = nsPend /\ pc'[s] = AfterApply(s) /\ targets'[s] = Affected(s)
  BY DEF Apply
<1>2. req[s].op \in {"DeleteNamespaceAccess", "SetUserAccesses",
                     "DeleteGroupFromNamespace", "DeleteNamespace",
                     "DeleteAllUserNamespaces", "RenameNamespace"}
  <2>1. req[s].op \in Ops /\ pc[s] \in Path(req[s].op)
    BY <1>1, SlotOps
  <2>2. QED
    BY <1>1, <2>1, StepOps
<1>3. ~Sweeps(req[s]) => NoRows(s) /\ PermView(s) = perm
  BY <1>1 DEF TxInv, PermView, NoRows
<1>4. ~Sweeps(req[s]) =>
        /\ \A k \in Keys : pend'[s][k] = IF k \in targets'[s]
                                         THEN Changed(req[s], perm[k]) ELSE Unwritten
        /\ \A k \in targets'[s] : k \in Keys /\ Matches(s, k, perm[k])
  BY <1>1, <1>3 DEF Apply, NoRows, Affected
<1>5. /\ pc'[s] \in Path(req[s].op)
      /\ ~Sweeps(req[s]) => pc'[s] \in Late
      /\ Sweeps(req[s]) => pc'[s] \in {"external", "scan"}
  <2>1. CASE Sweeps(req[s])
    <3>1. pc'[s] \in {"external", "scan"}
      BY <1>1, <2>1 DEF AfterApply
    <3>2. QED
      BY <2>1, <3>1 DEF Sweeps, Path
  <2>2. CASE ~Sweeps(req[s])
    <3>1. pc'[s] \in {"commit", "authRead"}
      BY <1>1, <2>2 DEF AfterApply
    <3>2. QED
      BY <1>2, <2>2, <3>1 DEF Sweeps, Path, Late
  <2>3. QED
    BY <2>1, <2>2
<1>6. /\ pc'[s] \notin Before
      /\ ~Sweeps(req[s]) => pc'[s] \notin {"scan", "apply"}
  BY <1>5 DEF Before, Late
<1> USE DEF Sweeps
<1>7. CASE req[s].op = "DeleteNamespaceAccess"
  <2>1. Removed(s)'
    BY <1>4, <1>7 DEF Changed, Removed
  <2>2. \A k \in targets'[s] : /\ k = <<req[s].target, req[s].ns>>
                               /\ perm[k] # NoRow /\ Deletable(perm[k])
    BY <1>4, <1>7 DEF Matches
  <2>3. RevokeTx(s)'
    BY <1>1, <1>7, <2>1, <2>2 DEF TxInv, Is, RevokeTx, NoNs
  <2>4. QED
    BY <1>1, <1>5, <1>6, <1>7, <2>3 DEF TxInv, Is, GrantTx, MemberTx, GroupTx, LimitTx,
       DropTx, CreateTx, DeleteTx, RenameTx
<1>8. CASE req[s].op = "SetUserAccesses"
  <2>1. Limited(s)'
    BY <1>1, <1>4, <1>8 DEF Changed, Limited
  <2>2. \A k \in targets'[s] : perm[k] # NoRow /\ OwnerOf[NsOf(k)] = req[s].caller
    BY <1>4, <1>8 DEF Matches
  <2>3. LimitTx(s)'
    BY <1>1, <1>8, <2>1, <2>2 DEF TxInv, Is, LimitTx, NoNs
  <2>4. QED
    BY <1>1, <1>5, <1>6, <1>8, <2>3 DEF TxInv, Is, GrantTx, MemberTx, GroupTx, RevokeTx,
       DropTx, CreateTx, DeleteTx, RenameTx
<1>9. CASE req[s].op = "DeleteGroupFromNamespace"
  <2>1. Removed(s)'
    BY <1>4, <1>9 DEF Changed, Removed
  <2>2. \A k \in targets'[s] : perm[k] # NoRow /\ perm[k].group = req[s].group
    BY <1>4, <1>9 DEF Matches
  <2>3. DropTx(s)'
    BY <1>1, <1>9, <2>1, <2>2 DEF TxInv, Is, DropTx, NoNs
  <2>4. QED
    BY <1>1, <1>5, <1>6, <1>9, <2>3 DEF TxInv, Is, GrantTx, MemberTx, GroupTx, RevokeTx,
       LimitTx, CreateTx, DeleteTx, RenameTx
<1>10. CASE req[s].op \in {"DeleteNamespace", "DeleteAllUserNamespaces",
                           "RenameNamespace"}
  <2>1. \A k \in Affected(s) : NsOf(k) \in Marked(s)
    <3> SUFFICES ASSUME NEW k \in Affected(s) PROVE NsOf(k) \in Marked(s)
      OBVIOUS
    <3>1. k \in Keys /\ Matches(s, k, PermView(s)[k])
      BY DEF Affected
    <3>2. OfDeleted(s, k) /\ NsOf(k) \in Namespaces
      BY <1>10, <3>1 DEF Matches, Keys, NsOf
    <3>3. QED
      BY <3>2 DEF OfDeleted, Marked
  <2>2. pc[s] \in Sweeping /\ pc'[s] \in Sweeping /\ pc'[s] # "nsApply"
    BY <1>1, <1>5, <1>10 DEF Sweeping
  <2>3. GoneRows(s)
    BY <1>1, <1>10, <2>2 DEF TxInv, Is, DeleteTx, RenameTx
  <2>4. Marked(s)' = Marked(s)
    BY <1>1 DEF Marked
  <2>5. \A k \in Keys : pend'[s][k] = IF k \in Affected(s) THEN NoRow ELSE pend[s][k]
    BY <1>10 DEF Apply, Changed
  <2>6. GoneRows(s)'
    BY <2>1, <2>3, <2>4, <2>5 DEF GoneRows
  <2>7. DeleteTx(s)'
    BY <1>1, <2>2, <2>4, <2>6 DEF TxInv, Is, DeleteTx
  <2>8. RenameTx(s)'
    BY <1>1, <2>2, <2>6 DEF TxInv, Is, RenameTx, OneNs
  <2>9. QED
    BY <1>1, <1>5, <1>6, <1>10, <2>7, <2>8 DEF TxInv, Is, GrantTx, MemberTx, GroupTx,
       RevokeTx, LimitTx, DropTx, CreateTx
<1>11. QED
  BY <1>2, <1>7, <1>8, <1>9, <1>10

\* After the last write.
LEMMA LateTx ==
  ASSUME TypeInv, NEW s \in Slots, TxInv(s),
         External(s) \/ ReadAccesses(s) \/ PushAccesses(s) \/ PushIgnored(s)
  PROVE  TxInv(s)'
<1> USE DEF Goto, tables, writes, TypeInv, TypeOK
<1>1. /\ pc[s] \in {"external", "authRead", "authPush"} /\ pc'[s] \in Late
      /\ req' = req /\ nss' = nss /\ perm' = perm /\ targets' = targets
      /\ pend' = pend /\ nsPend' = nsPend
  BY DEF External, ReadAccesses, PushAccesses, PushIgnored, PushDone, Late
<1>2. req[s].op # "AddGroupNamespace" /\ pc'[s] \in Path(req[s].op)
  <2>1. req[s].op \in Ops /\ pc[s] \in Path(req[s].op)
    BY <1>1, SlotOps
  <2>2. QED
    BY <1>1, <2>1, StepOps
<1>3. pc[s] = "external" => req[s].op \in {"CreateNamespace", "DeleteNamespace",
                                           "DeleteAllUserNamespaces", "RenameNamespace"}
  <2>1. req[s].op \in Ops /\ pc[s] \in Path(req[s].op)
    BY <1>1, SlotOps
  <2>2. QED
    BY <1>1, <2>1, StepOps
<1>4. pc[s] # "external" => pc[s] \in Late
  BY <1>1 DEF Late
<1>5. pc'[s] \notin Before \union {"scan", "apply", "external"}
  BY <1>1 DEF Before, Late
<1>6. GrantTx(s)' /\ MemberTx(s)'
  BY <1>1, <1>3, <1>4, <1>5 DEF TxInv, Is, GrantTx, MemberTx, NoNs, OnlyRow, Before
<1>7. RevokeTx(s)' /\ DropTx(s)'
  BY <1>1, <1>3, <1>4, <1>5 DEF TxInv, Is, RevokeTx, DropTx, NoNs, Removed
<1>8. LimitTx(s)'
  BY <1>1, <1>3, <1>4, <1>5 DEF TxInv, Is, LimitTx, NoNs, Limited, Late
<1>9. CreateTx(s)'
  BY <1>1, <1>5 DEF TxInv, Is, CreateTx, OneNs, OnlyRow, Before
<1>10. DeleteTx(s)' /\ RenameTx(s)'
  <2>1. pc[s] \in Sweeping /\ pc'[s] \in Sweeping /\ pc'[s] # "nsApply"
    BY <1>1, <1>4 DEF Sweeping, Late
  <2>2. Marked(s)' = Marked(s) /\ (GoneRows(s) => GoneRows(s)')
    BY <1>1 DEF Marked, GoneRows
  <2>3. QED
    BY <1>1, <2>1, <2>2 DEF TxInv, Is, DeleteTx, RenameTx, OneNs
<1>11. QED
  BY <1>1, <1>2, <1>5, <1>6, <1>7, <1>8, <1>9, <1>10 DEF TxInv, Is, GroupTx

\* Each step of a request keeps to the plan of its operation.
LEMMA OwnTx ==
  ASSUME TypeInv, NEW s \in Slots, TxInv(s), Acts(s)
  PROVE  TxInv(s)'
<1>1. CASE \/ Refused(s) \/ Fail(s)
  BY <1>1, RollbackTx DEF Refused, LookupRefused, Unstorable, CreateRefused,
       NothingToDelete, RenameRefused, Fail
<1>2. CASE Commit(s)
  BY <1>2, EndTx DEF Commit
<1>3. CASE CommitMember(s)
  <2>1. pc[s] = "commitMember"
    BY <1>3 DEF CommitMember
  <2>2. req[s].op = "AddGroupNamespace"
    BY <2>1, SlotOps, StepOps
  <2>3. QED
    BY <1>3, <2>2, NextMemberTx DEF CommitMember
<1>4. CASE MemberFails(s)
  BY <1>4, NextMemberTx DEF MemberFails, OwnerMemberStep
<1>5. CASE OwnerExists(s)
  <2>1. CASE req[s].op = "AddGroupNamespace"
    BY <1>5, <2>1, EarlyTx
  <2>2. CASE req[s].op # "AddGroupNamespace"
    BY <1>5, <2>2, RollbackTx DEF OwnerExists
  <2>3. QED
    BY <2>1, <2>2
<1>6. QED
  BY <1>1, <1>2, <1>3, <1>4, <1>5, EarlyTx, UpsertTx, UpsertListTx, InsertNamespaceTx,
     MarkDeletedTx, RenameRowTx, ScanTx, ApplyTx, LateTx, BeginTx
     DEF Acts, Step, Break, Refused

-----------------------------------------------------------------------------
(* The locks, the rows of namespaces that are not there, and the           *)
(* namespaces that requests have looked up.                                *)

\* Committed tables change when a transaction commits.
LEMMA TablesStep ==
  ASSUME NEW s \in Slots, Acts(s)
  PROVE  /\ perm' = perm \/ (perm' = PermView(s) /\ (Commit(s) \/ CommitMember(s)))
         /\ ns' = ns \/ (ns' = NsView(s) /\ Commit(s))
<1> USE DEF tables
<1>1. CASE \/ Refused(s) \/ Fail(s)
  BY <1>1 DEF Refused, LookupRefused, Unstorable, CreateRefused,
       NothingToDelete, RenameRefused, Fail, Rollback
<1>2. CASE Commit(s) \/ CommitMember(s) \/ MemberFails(s)
  BY <1>2 DEF Commit, CommitMember, MemberFails, NextMember
<1>3. CASE \/ Lookup(s) \/ PickMember(s) \/ NoMoreOwners(s) \/ CountOwners(s)
           \/ OwnerExists(s)
  BY <1>3 DEF Lookup, PickMember, NoMoreOwners, CountOwners, OwnerExists, Rollback
<1>4. CASE \/ Upsert(s) \/ UpsertList(s) \/ InsertNamespace(s) \/ ScanNamespaces(s)
           \/ MarkDeleted(s) \/ Rename(s) \/ Scan(s) \/ Apply(s) \/ External(s)
  BY <1>4 DEF Upsert, UpsertList, InsertNamespace, ScanNamespaces, MarkDeleted, Rename,
     Scan, Apply, External
<1>5. CASE ReadAccesses(s) \/ PushAccesses(s) \/ PushIgnored(s)
  BY <1>5 DEF ReadAccesses, PushAccesses, PushIgnored, PushDone
<1>6. CASE \E r \in Requests : Begin(s, r)
  BY <1>6 DEF Begin
<1>7. QED
  BY <1>1, <1>2, <1>3, <1>4, <1>5, <1>6 DEF Acts, Step, Break, Refused

\* A namespace that is there, live or deleted, never becomes absent again.
LEMMA NamespacesStay ==
  ASSUME TypeInv, NEW s \in Slots, Acts(s), NEW n \in Namespaces, ns'[n] = "absent"
  PROVE  ns[n] = "absent"
<1>1. CASE ns' = ns
  BY <1>1
<1>2. CASE ns' = NsView(s)
  <2>1. nsPend[s][n] \in {"live", "deleted", Unwritten}
    BY DEF TypeInv, TypeOK
  <2>2. ns'[n] = IF nsPend[s][n] = Unwritten THEN ns[n] ELSE nsPend[s][n]
    BY <1>2 DEF NsView
  <2>3. QED
    BY <2>1, <2>2
<1>3. QED
  BY <1>1, <1>2, TablesStep

\* A row is written by one that holds no other transaction's lock, in a
\* namespace that is there or that its request creates.
LEMMA NewRow ==
  ASSUME StoreInv, NEW s \in Slots, Acts(s), NEW k \in Keys,
         pend[s][k] = Unwritten, pend'[s][k] # Unwritten
  PROVE  /\ Unlocked(s, k)
         /\ ns[NsOf(k)] # "absent" \/ Creates(s, NsOf(k))
         /\ pc'[s] # "idle" /\ req'[s] = req[s] /\ pc[s] # "idle"
<1> USE DEF StoreInv, NsInv, Goto, tables, writes
<1>1. CASE \/ Refused(s) \/ Fail(s) \/ Commit(s) \/ CommitMember(s)
           \/ MemberFails(s)
  <2>1. Release(s)
    BY <1>1 DEF Refused, LookupRefused, Unstorable, CreateRefused,
       NothingToDelete, RenameRefused, Fail, Commit,
       CommitMember, MemberFails, NextMember, Rollback
  <2>2. QED
    BY <2>1 DEF Release, TypeInv, TypeOK
<1>2. CASE OwnerExists(s)
  BY <1>2 DEF OwnerExists, Rollback, Release, TypeInv, TypeOK
<1>3. CASE \/ Lookup(s) \/ PickMember(s) \/ NoMoreOwners(s) \/ CountOwners(s)
           \/ ScanNamespaces(s) \/ MarkDeleted(s) \/ Rename(s) \/ Scan(s)
           \/ External(s) \/ ReadAccesses(s) \/ PushAccesses(s) \/ PushIgnored(s)
           \/ \E r \in Requests : Begin(s, r)
  BY <1>3 DEF Lookup, PickMember, NoMoreOwners, CountOwners, ScanNamespaces, MarkDeleted,
     Rename, Scan, External, ReadAccesses, PushAccesses, PushIgnored, PushDone, Begin
<1>4. CASE Upsert(s) \/ UpsertList(s)
  <2>1. /\ pc[s] \in {"upsert", "upsertList"} /\ req' = req
        /\ pc'[s] \in {"commitMember", "commit", "authRead"}
        /\ k \in Written(s) /\ \A j \in Written(s) : Unlocked(s, j)
    BY <1>4 DEF Upsert, UpsertList, CanWrite, TypeInv, TypeOK
  <2>2. NsOf(k) = req[s].ns
    BY <2>1 DEF Written, NsOf
  <2>3. QED
    BY <2>1, <2>2 DEF LookedUp
<1>5. CASE Apply(s)
  <2>1. /\ pc[s] = "apply" /\ req' = req /\ pc'[s] = AfterApply(s)
        /\ k \in Affected(s) /\ \A j \in targets[s] : Unlocked(s, j)
    BY <1>5 DEF Apply, TypeInv, TypeOK
  <2>2. k \in targets[s] /\ perm[k] # NoRow
    BY <2>1 DEF Affected, Matches, PermView
  <2>3. AfterApply(s) # "idle"
    BY DEF AfterApply
  <2>4. QED
    BY <2>1, <2>2, <2>3 DEF AbsentInv
<1>6. CASE InsertNamespace(s)
  <2>1. /\ pc[s] = "nsInsert" /\ req' = req /\ pc'[s] = "external"
        /\ k = <<OwnerOf[req[s].ns], req[s].ns>>
    BY <1>6 DEF InsertNamespace, TypeInv, TypeOK
  <2>2. NsOf(k) = req[s].ns /\ req[s].ns \in Namespaces
    BY <2>1, RequestTypes DEF NsOf
  <2>3. Creates(s, NsOf(k)) /\ ns[NsOf(k)] = "absent"
    BY <2>1, <2>2 DEF NamespaceLocks
  <2>4. ASSUME NEW t \in Slots, t # s PROVE pend[t][k] = Unwritten
    BY <2>2, <2>3, <2>4 DEF NamespaceLocks, AbsentInv
  <2>5. QED
    BY <2>1, <2>3, <2>4 DEF Unlocked
<1>7. QED
  BY <1>1, <1>2, <1>3, <1>4, <1>5, <1>6 DEF Acts, Step, Break, Refused

\* Two transactions never hold the same row.
LEMMA RowLocksStay ==
  ASSUME StoreInv, NEW s \in Slots, Acts(s)
  PROVE  RowLocks'
<1>1. \A t \in Slots : t # s => pend'[t] = pend[t]
  BY OthersUntouched DEF StoreInv, NsInv, Untouched
<1>2. ASSUME NEW t \in Slots, t # s, NEW k \in Keys
      PROVE  pend'[s][k] = Unwritten \/ pend'[t][k] = Unwritten
  BY <1>1, <1>2, NewRow DEF Unlocked, StoreInv, RowLocks
<1>3. QED
  BY <1>1, <1>2 DEF StoreInv, RowLocks

\* While a transaction has rows its request goes on.
LEMMA RequestStays ==
  ASSUME StoreInv, NEW s \in Slots, Acts(s), NEW k \in Keys,
         pend[s][k] # Unwritten, pend'[s][k] # Unwritten
  PROVE  pc[s] # "idle" /\ pc'[s] # "idle" /\ req'[s] = req[s]
<1> USE DEF StoreInv, NsInv, Goto, tables, writes
<1>1. pc[s] # "idle"
  BY DEF TxInv, Before, NoRows
<1>2. CASE \/ Refused(s) \/ Fail(s) \/ Commit(s) \/ CommitMember(s)
           \/ MemberFails(s)
  <2>1. Release(s)
    BY <1>2 DEF Refused, LookupRefused, Unstorable, CreateRefused,
       NothingToDelete, RenameRefused, Fail, Commit,
       CommitMember, MemberFails, NextMember, Rollback
  <2>2. QED
    BY <2>1 DEF Release, TypeInv, TypeOK
<1>3. CASE OwnerExists(s)
  BY <1>1, <1>3 DEF OwnerExists, Rollback, Release, TypeInv, TypeOK
<1>4. CASE \/ Lookup(s) \/ PickMember(s) \/ NoMoreOwners(s) \/ CountOwners(s)
           \/ ScanNamespaces(s) \/ MarkDeleted(s) \/ Rename(s) \/ Scan(s)
           \/ External(s) \/ ReadAccesses(s) \/ PushAccesses(s) \/ PushIgnored(s)
  BY <1>1, <1>4 DEF Lookup, PickMember, NoMoreOwners, CountOwners, InsertStep,
     ScanNamespaces, MarkDeleted, Rename, Scan, External, ReadAccesses, PushAccesses,
     PushIgnored, PushDone, TypeInv, TypeOK
<1>5. CASE Upsert(s) \/ UpsertList(s) \/ InsertNamespace(s) \/ Apply(s)
  BY <1>1, <1>5 DEF Upsert, UpsertList, InsertNamespace, Apply, AfterApply, TypeInv, TypeOK
<1>6. QED
  BY <1>1, <1>2, <1>3, <1>4, <1>5 DEF Acts, Step, Break, Refused, Begin

\* Only the creation of a namespace writes rows for it before it is there.
LEMMA AbsentStays ==
  ASSUME StoreInv, NEW s \in Slots, Acts(s)
  PROVE  AbsentInv'
<1> SUFFICES ASSUME NEW k \in Keys, ns'[NsOf(k)] = "absent"
             PROVE  /\ perm'[k] = NoRow
                    /\ \A t \in Slots : pend'[t][k] # Unwritten => Creates(t, NsOf(k))'
  BY DEF AbsentInv
<1> DEFINE n == NsOf(k)
<1>1. n \in Namespaces /\ ns[n] = "absent"
  BY NamespacesStay DEF NsOf, Keys, StoreInv, NsInv
<1>2. /\ perm[k] = NoRow
      /\ \A t \in Slots : pend[t][k] # Unwritten => Creates(t, n)
  BY <1>1 DEF StoreInv, AbsentInv
<1>3. perm'[k] = NoRow
  <2>1. CASE perm' = perm
    BY <1>2, <2>1
  <2>2. CASE perm' = PermView(s) /\ pend[s][k] = Unwritten
    BY <1>2, <2>2 DEF PermView
  <2>3. CASE (Commit(s) \/ CommitMember(s)) /\ pend[s][k] # Unwritten
    <3>1. Creates(s, n)
      BY <1>2, <2>3
    <3>2. Commit(s)
      <4>1. CASE CommitMember(s)
        <5>1. pc[s] = "commitMember"
          BY <4>1 DEF CommitMember
        <5>2. req[s].op = "AddGroupNamespace"
          BY <5>1, SlotOps, StepOps DEF StoreInv, NsInv
        <5>3. QED
          BY <3>1, <5>2 DEF Creates
      <4>2. QED
        BY <2>3, <4>1
    <3>3. nsPend[s][n] = "live"
      BY <1>1, <3>1, <3>2 DEF Commit, Creates, StoreInv, TxInv, CreateTx, Is, OneNs
    <3>4. ns'[n] = "live"
      BY <1>1, <3>2, <3>3, ServerAssumption DEF Commit, NsView
    <3>5. QED
      BY <3>4
  <2>4. QED
    BY <2>1, <2>2, <2>3, TablesStep
<1>4. ASSUME NEW t \in Slots, pend'[t][k] # Unwritten PROVE Creates(t, n)'
  <2>1. CASE t # s
    BY <1>2, <1>4, <2>1, OthersUntouched DEF StoreInv, NsInv, Untouched, Creates
  <2>2. CASE t = s /\ pend[s][k] # Unwritten
    BY <1>2, <1>4, <2>2, RequestStays DEF Creates
  <2>3. CASE t = s /\ pend[s][k] = Unwritten
    BY <1>1, <1>4, <2>3, NewRow DEF Creates
  <2>4. QED
    BY <2>1, <2>2, <2>3
<1>5. QED
  BY <1>3, <1>4

\* The namespace a request has looked up stays in the table.
LEMMA LookedUpStays ==
  ASSUME StoreInv, NEW s \in Slots, Acts(s)
  PROVE  LookedUp'
<1> DEFINE Past == {"member", "count", "upsert", "upsertList", "commitMember"}
<1> SUFFICES ASSUME NEW t \in Slots, pc'[t] \in Past
             PROVE  ns'[req'[t].ns] # "absent"
  BY DEF LookedUp
<1>1. TypeInv /\ LookedUp
  BY DEF StoreInv, NsInv
<1>2. pc[t] \in Past \union {"lookup"} /\ req'[t] = req[t]
        /\ (pc[t] = "lookup" => ns[req[t].ns] = "live")
  <2>1. CASE t # s
    BY <1>1, <2>1, OthersUntouched DEF Untouched
  <2>2. CASE t = s
    <3> USE <1>1, <2>2 DEF TypeInv, TypeOK, Goto
    <3>1. CASE \/ Refused(s) \/ Fail(s) \/ Commit(s)
      BY <3>1 DEF Refused, LookupRefused, Unstorable, CreateRefused,
       NothingToDelete, RenameRefused, Fail, Commit,
         Rollback, Return
    <3>2. CASE CommitMember(s) \/ MemberFails(s)
      BY <3>2 DEF CommitMember, MemberFails, OwnerMemberStep, NextMember
    <3>3. CASE Lookup(s)
      BY <3>3 DEF Lookup, NamespaceByName
    <3>4. CASE OwnerExists(s)
      BY <3>4 DEF OwnerExists, Rollback, Return
    <3>5. CASE PickMember(s) \/ NoMoreOwners(s) \/ CountOwners(s) \/ Upsert(s)
               \/ UpsertList(s)
      BY <3>5 DEF PickMember, NoMoreOwners, CountOwners, Upsert, UpsertList
    <3>6. CASE \/ InsertNamespace(s) \/ ScanNamespaces(s) \/ MarkDeleted(s) \/ Rename(s)
               \/ Scan(s) \/ Apply(s) \/ External(s)
      BY <3>6 DEF InsertNamespace, ScanNamespaces, MarkDeleted, Rename, Scan, Apply,
         AfterApply, External
    <3>7. CASE ReadAccesses(s) \/ PushAccesses(s) \/ PushIgnored(s)
      BY <3>7 DEF ReadAccesses, PushAccesses, PushIgnored, PushDone
    <3>8. CASE \E r \in Requests : Begin(s, r)
      BY <3>8 DEF Begin, FirstStep
    <3>9. QED
      BY <3>1, <3>2, <3>3, <3>4, <3>5, <3>6, <3>7, <3>8 DEF Acts, Step, Break, Refused
  <2>3. QED
    BY <2>1, <2>2
<1>3. ns[req[t].ns] # "absent" /\ req[t].ns \in Namespaces
  BY <1>1, <1>2, RequestTypes DEF LookedUp
<1>4. QED
  BY <1>1, <1>2, <1>3, NamespacesStay

\* The invariant holds at the start.
LEMMA StoreInvInit == Init => StoreInv
<1> SUFFICES ASSUME Init PROVE StoreInv
  OBVIOUS
<1>1. NsInv
  BY NsInvInit
<1>2. \A s \in Slots : pc[s] = "idle" /\ NoRows(s) /\ NoNs(s)
  BY DEF Init, NoRows, NoNs
<1>3. \A s \in Slots : TxInv(s)
  BY <1>2 DEF TxInv, Is, GrantTx, MemberTx, GroupTx, RevokeTx, LimitTx, DropTx, CreateTx,
     DeleteTx, RenameTx
<1>4. RowLocks /\ LookedUp
  BY <1>2 DEF RowLocks, NoRows, LookedUp
<1>5. AbsentInv
  <2>1. ASSUME NEW k \in Keys, ns[NsOf(k)] = "absent" PROVE perm[k] = NoRow
    BY <2>1 DEF Init, Keys, NsOf
  <2>2. QED
    BY <1>2, <2>1 DEF AbsentInv, NoRows
<1>6. QED
  BY <1>1, <1>3, <1>4, <1>5 DEF StoreInv

\* A crash rolls every transaction back.
LEMMA StoreInvCrash ==
  ASSUME StoreInv, Crash
  PROVE  (\A s \in Slots : TxInv(s)') /\ RowLocks' /\ AbsentInv' /\ LookedUp'
<1>1. \A s \in Slots : pc'[s] = "idle" /\ NoRows(s)' /\ NoNs(s)'
  BY DEF Crash, NoRows, NoNs
<1>2. perm' = perm /\ ns' = ns
  BY DEF Crash, tables
<1>3. \A s \in Slots : TxInv(s)'
  BY <1>1 DEF TxInv, Is, GrantTx, MemberTx, GroupTx, RevokeTx, LimitTx, DropTx, CreateTx,
     DeleteTx, RenameTx
<1>4. RowLocks' /\ LookedUp'
  BY <1>1 DEF RowLocks, NoRows, LookedUp
<1>5. AbsentInv'
  BY <1>1, <1>2 DEF StoreInv, AbsentInv, NoRows
<1>6. QED
  BY <1>3, <1>4, <1>5

\* The steps of requests keep the invariant.
LEMMA StoreInvActs ==
  ASSUME StoreInv, NEW s \in Slots, Acts(s)
  PROVE  (\A t \in Slots : TxInv(t)') /\ RowLocks' /\ AbsentInv' /\ LookedUp'
<1>1. TypeInv /\ RowLocks /\ \A t \in Slots : TxInv(t)
  BY DEF StoreInv, NsInv
<1>2. ASSUME NEW t \in Slots, t # s PROVE TxInv(t)'
  <2>1. Untouched(t) /\ RowsKept(t)
    BY <1>1, <1>2, OthersUntouched, OtherRowsKept, TablesStep
  <2>2. QED
    BY <1>1, <2>1, TxStays
<1>3. TxInv(s)'
  BY <1>1, OwnTx
<1>4. QED
  BY <1>2, <1>3, RowLocksStay, AbsentStays, LookedUpStays

\* Steps that change nothing keep the invariant.
LEMMA StoreInvStill ==
  ASSUME StoreInv, UNCHANGED vars
  PROVE  (\A t \in Slots : TxInv(t)') /\ RowLocks' /\ AbsentInv' /\ LookedUp'
<1> USE DEF vars
<1>1. ASSUME NEW t \in Slots PROVE TxInv(t)'
  <2>1. Untouched(t) /\ RowsKept(t)
    BY DEF Untouched, RowsKept
  <2>2. QED
    BY <2>1, TxStays DEF StoreInv, NsInv
<1>2. QED
  BY <1>1 DEF StoreInv, RowLocks, AbsentInv, LookedUp, Creates

\* StoreInv is inductive.
LEMMA StoreInvNext == StoreInv /\ [Next]_vars => StoreInv'
<1> SUFFICES ASSUME StoreInv, [Next]_vars PROVE StoreInv'
  OBVIOUS
<1>1. NsInv'
  BY NsInvNext DEF StoreInv
<1>2. (\A t \in Slots : TxInv(t)') /\ RowLocks' /\ AbsentInv' /\ LookedUp'
  BY StoreInvActs, StoreInvCrash, StoreInvStill DEF Next, Acts
<1>3. QED
  BY <1>1, <1>2 DEF StoreInv

-----------------------------------------------------------------------------
(* What commits is an operation of PermissionStore.                        *)

\* The abstract module reads the table with the same operators.
LEMMA SameTable ==
  /\ Store!Keys = Keys
  /\ \A k : Store!UserOf(k) = UserOf(k) /\ Store!NsOf(k) = NsOf(k)
  /\ \A old, l : Store!GrantedRow(old, l) = GrantedRow(old, l)
  /\ \A l, g : Store!ListedRow(l, g) = ListedRow(l, g)
  /\ \A row, l : Store!LimitedRow(row, l) = LimitedRow(row, l)
  /\ Store!OwnerRow = OwnerRow
  /\ \A row : Store!Deletable(row) = Deletable(row)
  /\ \A l : Store!Storable(l) = Storable(l)
  /\ Store!Levels = Levels
  /\ Store!Owner = Owner
<1>1. Store!Keys = Keys
  BY DEF Store!Keys, Keys
<1>2. \A k : Store!UserOf(k) = UserOf(k) /\ Store!NsOf(k) = NsOf(k)
  BY DEF Store!UserOf, UserOf, Store!NsOf, NsOf
<1>3. Store!Levels = Levels /\ Store!Owner = Owner
  BY DEF Store!Levels, Levels, Store!Owner, Owner, Store!None, None
<1>4. /\ \A old, l : Store!GrantedRow(old, l) = GrantedRow(old, l)
      /\ \A l, g : Store!ListedRow(l, g) = ListedRow(l, g)
  BY DEF Store!GrantedRow, GrantedRow, Store!ListedRow, ListedRow, Store!Least, Least
<1>5. \A row, l : Store!LimitedRow(row, l) = LimitedRow(row, l)
  BY DEF Store!LimitedRow, LimitedRow, Store!LimitedLevel, LimitedLevel
<1>6. Store!OwnerRow = OwnerRow
  BY <1>3 DEF Store!OwnerRow, OwnerRow
<1>7. \A row : Store!Deletable(row) = Deletable(row)
  BY <1>3 DEF Store!Deletable, Deletable
<1>8. \A l : Store!Storable(l) = Storable(l)
  BY DEF Store!Storable, Storable, Store!EnumLabels, EnumLabels, Store!GoConstants,
     GoConstants
<1>9. QED
  BY <1>1, <1>2, <1>3, <1>4, <1>5, <1>6, <1>7, <1>8

\* A commit writes what the transaction wrote and nothing else.
LEMMA CommitView ==
  ASSUME TypeInv, NEW s \in Slots, perm' = PermView(s)
  PROVE  /\ perm' = [k \in Keys |-> IF pend[s][k] = Unwritten THEN perm[k] ELSE pend[s][k]]
         /\ perm = [k \in Keys |-> perm[k]]
         /\ NoRows(s) => perm' = perm
         /\ Removed(s) => perm' = [k \in Keys |-> IF k \in targets[s] THEN NoRow
                                                  ELSE perm[k]]
BY ServerAssumption DEF PermView, NoRows, Removed, TypeInv, TypeOK, RowOrNone

\* Which rows a transaction that removes rows of deleted namespaces commits.
LEMMA GoneRowsCommit ==
  ASSUME TypeInv, NEW s \in Slots, perm' = PermView(s), GoneRows(s)
  PROVE  \E found \in SUBSET Keys :
           /\ \A k \in found : NsOf(k) \in Marked(s)
           /\ perm' = [k \in Keys |-> IF k \in found THEN NoRow ELSE perm[k]]
<1> DEFINE found == {k \in Keys : pend[s][k] # Unwritten}
<1>1. \A k \in found : NsOf(k) \in Marked(s)
  BY DEF GoneRows
<1>2. perm' = [k \in Keys |-> IF k \in found THEN NoRow ELSE perm[k]]
  BY CommitView DEF GoneRows
<1>3. QED
  BY <1>1, <1>2

\* A transaction that has written no namespace commits none.
LEMMA NsCommitView ==
  ASSUME TypeInv, NEW s \in Slots, ns' = NsView(s), NoNs(s)
  PROVE  ns' = ns
BY DEF NsView, NoNs, TypeInv, TypeOK

\* A transaction that has written one row commits that row alone.
LEMMA OneRowCommits ==
  ASSUME TypeInv, NEW s \in Slots, perm' = PermView(s), NEW u \in Users,
         NEW row \in RowOrNone, OnlyRow(s, u, row), req[s].ns \in Namespaces
  PROVE  perm' = [perm EXCEPT ![<<u, req[s].ns>>] = row]
<1>1. row # Unwritten
  BY ServerAssumption
<1>2. perm' = [k \in Keys |-> IF k = <<u, req[s].ns>> THEN row ELSE perm[k]]
  BY <1>1, CommitView DEF OnlyRow
<1>3. perm \in [Keys -> RowOrNone]
  BY DEF TypeInv, TypeOK
<1>4. QED
  BY <1>2, <1>3

\* The commit of one owner member is one Grant.
LEMMA CommitMemberStep ==
  ASSUME StoreInv, NEW s \in Slots, CommitMember(s)
  PROVE  Store!Next
<1>1. TypeInv /\ TxInv(s) /\ pc[s] = "commitMember"
  BY DEF StoreInv, NsInv, CommitMember
<1>2. req[s].op = "AddGroupNamespace" /\ req[s].ns \in Namespaces
  BY <1>1, SlotOps, StepOps, RequestTypes
<1>3. user[s] \in Users
  BY <1>1, <1>2 DEF TxInv, GroupTx, Is
<1> DEFINE k == <<user[s], req[s].ns>>
<1>4. PICK l \in Levels : Storable(l) /\ OnlyRow(s, user[s], GrantedRow(perm[k], l))
  BY <1>1, <1>2 DEF TxInv, GroupTx, Is
<1>5. GrantedRow(perm[k], l) \in RowOrNone
  BY <1>1, <1>2, <1>3, RowTypes DEF TypeInv, TypeOK, Keys, RowOrNone
<1>6. perm' = [perm EXCEPT ![k] = GrantedRow(perm[k], l)] /\ ns' = ns
  BY <1>1, <1>2, <1>3, <1>4, <1>5, OneRowCommits DEF CommitMember, NextMember
<1>7. Store!Grant(user[s], req[s].ns, l)
  BY <1>4, <1>6, SameTable DEF Store!Grant
<1>8. QED
  BY <1>2, <1>3, <1>4, <1>7, SameTable DEF Store!Next

\* Each commit is one operation of PermissionStore.
LEMMA CommitStep ==
  ASSUME StoreInv, NEW s \in Slots, Commit(s)
  PROVE  Store!Next \/ (perm' = perm /\ ns' = ns)
<1> DEFINE r == req[s]
<1>1. /\ TypeInv /\ TxInv(s) /\ pc[s] = "commit" /\ perm' = PermView(s)
      /\ ns' = NsView(s)
  BY DEF StoreInv, NsInv, Commit
<1>2. /\ r.op \in Ops /\ r.ns \in Namespaces /\ r.target \in Users /\ r.level \in Levels
      /\ r.group \in Groups /\ r.caller \in Users
  BY <1>1, RequestTypes
<1>3. /\ perm \in [Keys -> RowOrNone] /\ targets[s] \in SUBSET Keys
      /\ nss[s] \in SUBSET Namespaces
  BY <1>1 DEF TypeInv, TypeOK
<1>4. NoNs(s) => ns' = ns
  BY <1>1, NsCommitView
<1>5. CASE r.op = "SetNamespaceAccess"
  <2> DEFINE row == GrantedRow(perm[<<r.target, r.ns>>], r.level)
  <2>1. NoNs(s) /\ Storable(r.level) /\ OnlyRow(s, r.target, row)
    BY <1>1, <1>5 DEF TxInv, GrantTx, Is, Late
  <2>2. row \in RowOrNone
    BY <1>2, <1>3, RowTypes DEF Keys, RowOrNone
  <2>3. perm' = [perm EXCEPT ![<<r.target, r.ns>>] = row]
    BY <1>1, <1>2, <2>1, <2>2, OneRowCommits
  <2>4. Store!Grant(r.target, r.ns, r.level)
    BY <1>4, <2>1, <2>3, SameTable DEF Store!Grant
  <2>5. QED
    BY <1>2, <2>4, SameTable DEF Store!Next
<1>6. CASE r.op = "SetGroupMemberNamespaceAccess"
  <2> DEFINE row == ListedRow(r.level, NoGroup)
  <2>1. NoNs(s) /\ Storable(r.level) /\ OnlyRow(s, r.target, row)
    BY <1>1, <1>6 DEF TxInv, MemberTx, Is, Late
  <2>2. row \in RowOrNone
    BY <1>2, RowTypes DEF RowOrNone
  <2>3. perm' = [perm EXCEPT ![<<r.target, r.ns>>] = row]
    BY <1>1, <1>2, <2>1, <2>2, OneRowCommits
  <2>4. Store!GrantMember(r.target, r.ns, r.level)
    BY <1>4, <2>1, <2>3, SameTable DEF Store!GrantMember
  <2>5. QED
    BY <1>2, <2>4, SameTable DEF Store!Next
<1>7. CASE r.op = "AddGroupNamespace"
  <2>1. NoNs(s) /\ (NoRows(s) \/ GroupRows(s))
    BY <1>1, <1>7 DEF TxInv, GroupTx, Is
  <2>2. CASE NoRows(s)
    BY <1>1, <1>4, <2>1, <2>2, CommitView
  <2>3. CASE GroupRows(s)
    <3> DEFINE others == OtherMembers(r.group)
    <3>1. \A u \in Users : /\ others[u] # NoAccess <=> u \in Store!Ordinary(r.group)
                           /\ others[u] # NoAccess => others[u] = Members[r.group][u]
      BY <1>2, NoAccessOutside, SameTable, ServerAssumption
         DEF OtherMembers, Store!Ordinary, Grants
    <3>2. ASSUME NEW u \in Users, others[u] # NoAccess
          PROVE  ListedRow(others[u], r.group) # Unwritten
      <4>1. others[u] \in Levels
        BY <1>2, <3>2, LocalTypes DEF Grants
      <4>2. ListedRow(others[u], r.group) \in RowOrNone
        BY <1>2, <4>1, RowTypes DEF RowOrNone
      <4>3. QED
        BY <4>2, ServerAssumption
    <3>3. \A k \in Keys : UserOf(k) \in Users
      BY DEF Keys, UserOf
    <3>4. perm' = [k \in Keys |->
            IF NsOf(k) = r.ns /\ others[UserOf(k)] # NoAccess
            THEN ListedRow(others[UserOf(k)], r.group) ELSE perm[k]]
      BY <1>1, <2>3, <3>2, <3>3, CommitView DEF GroupRows
    <3>5. perm' = [k \in Keys |->
            IF NsOf(k) = r.ns /\ UserOf(k) \in Store!Ordinary(r.group)
            THEN ListedRow(Members[r.group][UserOf(k)], r.group) ELSE perm[k]]
      BY <3>1, <3>3, <3>4
    <3>6. Store!GrantGroup(r.group, r.ns)
      BY <1>4, <2>1, <3>5, SameTable DEF Store!GrantGroup
    <3>7. QED
      BY <1>2, <3>6 DEF Store!Next
  <2>4. QED
    BY <2>1, <2>2, <2>3
<1>8. CASE r.op = "DeleteNamespaceAccess"
  <2> DEFINE k == <<r.target, r.ns>>
  <2>1. /\ NoNs(s) /\ Removed(s)
        /\ \A j \in targets[s] : j = k /\ perm[j] # NoRow /\ Deletable(perm[j])
    BY <1>1, <1>8 DEF TxInv, RevokeTx, Is, Late
  <2>2. perm' = [j \in Keys |-> IF j \in targets[s] THEN NoRow ELSE perm[j]]
    BY <1>1, <2>1, CommitView
  <2>3. CASE targets[s] = {}
    BY <1>1, <1>4, <2>1, <2>2, <2>3, CommitView
  <2>4. CASE targets[s] # {}
    <3>1. targets[s] = {k} /\ k \in Keys
      BY <1>2, <2>1, <2>4 DEF Keys
    <3>2. perm' = [perm EXCEPT ![k] = NoRow]
      BY <1>3, <2>2, <3>1
    <3>3. Store!Revoke(k)
      BY <1>4, <2>1, <3>1, <3>2, SameTable DEF Store!Revoke
    <3>4. QED
      BY <3>1, <3>3, SameTable DEF Store!Next
  <2>5. QED
    BY <2>3, <2>4
<1>9. CASE r.op = "SetUserAccesses"
  <2>1. /\ NoNs(s) /\ Storable(r.level) /\ Limited(s)
        /\ \A k \in targets[s] : perm[k] # NoRow /\ OwnerOf[NsOf(k)] = r.caller
    BY <1>1, <1>9 DEF TxInv, LimitTx, Is, Late
  <2>2. ASSUME NEW k \in targets[s] PROVE LimitedRow(perm[k], r.level) # Unwritten
    <3>1. perm[k] \in Row
      BY <1>3, <2>1 DEF RowOrNone
    <3>2. LimitedRow(perm[k], r.level) \in RowOrNone
      BY <1>2, <3>1, RowTypes DEF RowOrNone
    <3>3. QED
      BY <3>2, ServerAssumption
  <2>3. perm' = [k \in Keys |-> IF k \in targets[s] THEN LimitedRow(perm[k], r.level)
                                ELSE perm[k]]
    BY <1>1, <2>1, <2>2, CommitView DEF Limited
  <2>4. Store!Limit(targets[s], r.level)
    BY <1>4, <2>1, <2>3, SameTable DEF Store!Limit
  <2>5. QED
    BY <1>2, <1>3, <2>4, SameTable DEF Store!Next
<1>10. CASE r.op = "DeleteGroupFromNamespace"
  <2>1. /\ NoNs(s) /\ Removed(s)
        /\ \A k \in targets[s] : perm[k] # NoRow /\ perm[k].group = r.group
    BY <1>1, <1>10 DEF TxInv, DropTx, Is, Late
  <2>2. perm' = [k \in Keys |-> IF k \in targets[s] THEN NoRow ELSE perm[k]]
    BY <1>1, <2>1, CommitView
  <2>3. Store!DropGroup(targets[s], r.group)
    BY <1>4, <2>1, <2>2, SameTable DEF Store!DropGroup
  <2>4. QED
    BY <1>2, <1>3, <2>3, SameTable DEF Store!Next
<1>11. CASE r.op = "CreateNamespace"
  <2>1. OneNs(s, "live") /\ OnlyRow(s, OwnerOf[r.ns], OwnerRow)
    BY <1>1, <1>11 DEF TxInv, CreateTx, Is
  <2>2. Unwritten # "live" /\ OwnerOf[r.ns] \in Users /\ OwnerRow \in RowOrNone
    BY <1>2, RowTypes, ServerAssumption DEF RowOrNone
  <2>3. nsPend[s][r.ns] = "live" /\ ns[r.ns] = "absent"
    BY <1>2, <1>11, <2>1
       DEF OneNs, StoreInv, NsInv, NamespaceLocks, WritesLive, Renames
  <2>4. ns' = [ns EXCEPT ![r.ns] = "live"]
    BY <1>1, <1>2, <2>1, <2>2 DEF OneNs, NsView, TypeInv, TypeOK
  <2>5. perm' = [perm EXCEPT ![<<OwnerOf[r.ns], r.ns>>] = OwnerRow]
    BY <1>1, <1>2, <2>1, <2>2, OneRowCommits
  <2>6. Store!Create(r.ns)
    BY <2>3, <2>4, <2>5, SameTable DEF Store!Create
  <2>7. QED
    BY <1>2, <2>6 DEF Store!Next
<1>12. CASE r.op \in {"DeleteNamespace", "DeleteAllUserNamespaces"}
  <2> DEFINE gone == Marked(s)
  <2>1. /\ gone # {} /\ GoneRows(s) /\ \A n \in gone : NsMatches(r, n)
        /\ \A n \in Namespaces \ gone : nsPend[s][n] = Unwritten
    BY <1>1, <1>12 DEF TxInv, DeleteTx, Is, Sweeping, Late
  <2>2. Unwritten # "deleted" /\ gone \in SUBSET Namespaces
    BY ServerAssumption DEF Marked
  <2>3. \A n \in gone : ns[n] = "live"
    BY <1>12 DEF Marked, StoreInv, NsInv, DeletesLive
  <2>4. \A m, n \in gone : OwnerOf[m] = OwnerOf[n]
    BY <2>1 DEF NsMatches
  <2>5. ns' = [n \in Namespaces |-> IF n \in gone THEN "deleted" ELSE ns[n]]
    BY <1>1, <2>1, <2>2 DEF Marked, NsView
  <2>6. PICK found \in SUBSET Keys :
          /\ \A k \in found : NsOf(k) \in gone
          /\ perm' = [k \in Keys |-> IF k \in found THEN NoRow ELSE perm[k]]
    BY <1>1, <2>1, GoneRowsCommit
  <2>7. Store!Delete(gone, found)
    BY <2>1, <2>3, <2>4, <2>5, <2>6, SameTable DEF Store!Delete
  <2>8. QED
    BY <2>2, <2>7, SameTable DEF Store!Next
<1>13. CASE r.op = "RenameNamespace"
  <2>1. GoneRows(s) /\ \E v \in {"live", "deleted"} : OneNs(s, v)
    BY <1>1, <1>13 DEF TxInv, RenameTx, Is, Sweeping, Late
  <2>2. PICK v \in {"live", "deleted"} : OneNs(s, v)
    BY <2>1
  <2>3. Unwritten \notin {"live", "deleted"}
    BY ServerAssumption
  <2>4. ns[r.ns] = v
    <3>1. nsPend[s][r.ns] = v
      BY <1>2, <2>2 DEF OneNs
    <3>2. CASE v = "deleted"
      BY <1>2, <1>13, <3>1, <3>2 DEF StoreInv, NsInv, DeletesLive
    <3>3. CASE v = "live"
      BY <1>2, <1>13, <3>1, <3>3
         DEF StoreInv, NsInv, NamespaceLocks, WritesLive, Creates, Renames
    <3>4. QED
      BY <2>2, <3>2, <3>3
  <2>5. ns' = ns
    BY <1>1, <2>2, <2>4 DEF OneNs, NsView, TypeInv, TypeOK
  <2>6. PICK found \in SUBSET Keys :
          /\ \A k \in found : NsOf(k) \in Marked(s)
          /\ perm' = [k \in Keys |-> IF k \in found THEN NoRow ELSE perm[k]]
    BY <1>1, <2>1, GoneRowsCommit
  <2>7. Marked(s) = IF v = "deleted" THEN {r.ns} ELSE {}
    BY <1>2, <2>2, <2>3 DEF Marked, OneNs
  <2>8. CASE v = "deleted"
    <3>1. Store!Sweep(r.ns, found)
      BY <2>4, <2>5, <2>6, <2>7, <2>8, SameTable DEF Store!Sweep
    <3>2. QED
      BY <1>2, <3>1, SameTable DEF Store!Next
  <2>9. CASE v = "live"
    BY <1>1, <2>5, <2>6, <2>7, <2>9, CommitView
  <2>10. QED
    BY <2>2, <2>8, <2>9
<1>14. QED
  BY <1>2, <1>5, <1>6, <1>7, <1>8, <1>9, <1>10, <1>11, <1>12, <1>13 DEF Ops

\* Every step is an operation of PermissionStore or leaves its tables alone.
LEMMA StoreStep == StoreInv /\ [Next]_vars => [Store!Next]_<<perm, ns>>
<1> SUFFICES ASSUME StoreInv, [Next]_vars PROVE Store!Next \/ (perm' = perm /\ ns' = ns)
  OBVIOUS
<1>1. CASE UNCHANGED vars
  BY <1>1 DEF vars
<1>2. CASE Crash
  BY <1>2 DEF Crash, tables
<1>3. ASSUME NEW s \in Slots, Acts(s)
      PROVE  Store!Next \/ (perm' = perm /\ ns' = ns)
  <2>1. CASE Commit(s)
    BY <2>1, CommitStep
  <2>2. CASE CommitMember(s)
    BY <2>2, CommitMemberStep
  <2>3. CASE ~Commit(s) /\ ~CommitMember(s)
    BY <1>3, <2>3, TablesStep
  <2>4. QED
    BY <2>1, <2>2, <2>3
<1>4. QED
  BY <1>1, <1>2, <1>3 DEF Next, Acts

\* The tables start as PermissionStore has them.
LEMMA StoreInit == Init => Store!Init
<1> SUFFICES ASSUME Init PROVE Store!Init
  OBVIOUS
<1>1. LiveAtStart \in SUBSET Namespaces
  BY ServerAssumption
<1>2. ns = [n \in Namespaces |-> IF n \in LiveAtStart THEN "live" ELSE "absent"]
  BY DEF Init
<1>3. perm = [k \in Keys |->
               IF NsOf(k) \in LiveAtStart /\ UserOf(k) = OwnerOf[NsOf(k)]
               THEN OwnerRow ELSE NoRow]
  BY DEF Init
<1>4. perm = [k \in Store!Keys |->
               IF Store!NsOf(k) \in LiveAtStart /\ Store!UserOf(k) = OwnerOf[Store!NsOf(k)]
               THEN Store!OwnerRow ELSE NoRow]
  BY <1>3 DEF Keys, UserOf, NsOf, OwnerRow, Owner, Store!Keys, Store!UserOf, Store!NsOf,
              Store!OwnerRow, Store!Owner
<1>5. QED
  BY <1>1, <1>2, <1>4 DEF Store!Init

(* The handlers, with their transactions, statements that wait, locks,     *)
(* failures and crashes, change the committed tables only by one whole     *)
(* operation of PermissionStore at a time, on the rows as they are.        *)
THEOREM ImplementsPermissionStore == Spec => ImplementsStore
<1>1. Spec => []StoreInv
  BY StoreInvInit, StoreInvNext, PTL DEF Spec
<1>2. QED
  BY <1>1, StoreInit, StoreStep, PTL DEF Spec, ImplementsStore, Store!Spec

-----------------------------------------------------------------------------
(* A live namespace keeps its owner as its only owner.                     *)

IsOwners(k) == UserOf(k) = OwnerOf[NsOf(k)]

\* What a row of a live namespace is: its owner's, with the level owner and no
\* group, or somebody else's, with another level.
Fits(k, row) ==
  IF IsOwners(k)
  THEN row \in Row /\ row.init = Owner /\ row.group = NoGroup
  ELSE row \in Row => row.init # Owner

Owned ==
  \A k \in Keys : ns[NsOf(k)] = "live" => Fits(k, perm[k])

\* What a transaction has written in a live namespace fits as well, unless the
\* namespace goes with it.
KeepsOwned(s) ==
  \A k \in Keys : ns[NsOf(k)] = "live" /\ pend[s][k] # Unwritten =>
    Fits(k, pend[s][k]) \/ nsPend[s][NsOf(k)] = "deleted"

\* What a request is about to write is not for the owner of the namespace, and
\* not the level owner once the owners have been counted.
GrantsToOthers(s) ==
  LET n == req[s].ns IN
  /\ pc[s] \in {"member", "count", "upsert", "commitMember"}
       /\ req[s].op = "AddGroupNamespace" => OwnerOf[n] \notin users[s]
  /\ pc[s] \in {"count", "upsert", "upsertList"} =>
       grants[s][OwnerOf[n]] = NoAccess
  /\ pc[s] \in {"upsert", "upsertList"} /\ ns[n] = "live" =>
       \A u \in Users : grants[s][u] # Owner

\* The invariant of OwnerStays.
OwnerInv ==
  /\ StoreInv
  /\ Owned
  /\ \A s \in Slots : KeepsOwned(s) /\ GrantsToOthers(s)

\* Only the creation of a namespace makes it live.
LEMMA NewlyLive ==
  ASSUME StoreInv, NEW s \in Slots, Acts(s), NEW n \in Namespaces,
         ns'[n] = "live", ns[n] # "live"
  PROVE  ns[n] = "absent" /\ Creates(s, n) /\ Commit(s)
<1>1. Commit(s) /\ ns' = NsView(s)
  BY TablesStep
<1>2. nsPend[s][n] = "live"
  BY <1>1 DEF NsView
<1>3. QED
  BY <1>1, <1>2 DEF StoreInv, NsInv, NamespaceLocks, WritesLive

\* Rows that fit.
LEMMA FittingRows ==
  ASSUME NEW n \in Namespaces
  PROVE  /\ Fits(<<OwnerOf[n], n>>, OwnerRow)
         /\ \A u \in Users : u # OwnerOf[n] => Fits(<<u, n>>, NoRow)
         /\ \A u \in Users, l \in Levels, old \in RowOrNone :
              u # OwnerOf[n] /\ l # Owner => Fits(<<u, n>>, GrantedRow(old, l))
         /\ \A u \in Users, l \in Levels, g \in Groups \union {NoGroup} :
              u # OwnerOf[n] /\ l # Owner => Fits(<<u, n>>, ListedRow(l, g))
<1>1. Fits(<<OwnerOf[n], n>>, OwnerRow)
  BY RowTypes DEF Fits, IsOwners, UserOf, NsOf, OwnerRow
<1>2. \A u \in Users : u # OwnerOf[n] => Fits(<<u, n>>, NoRow)
  BY NoRowAssumption DEF Fits, IsOwners, UserOf, NsOf
<1>3. ASSUME NEW u \in Users, NEW l \in Levels, u # OwnerOf[n], l # Owner
      PROVE  /\ \A old \in RowOrNone : Fits(<<u, n>>, GrantedRow(old, l))
             /\ \A g \in Groups \union {NoGroup} : Fits(<<u, n>>, ListedRow(l, g))
  BY <1>3 DEF Fits, IsOwners, UserOf, NsOf, GrantedRow, ListedRow
<1>4. QED
  BY <1>1, <1>2, <1>3

\* A commit leaves every live namespace with its owner.
LEMMA OwnedStays ==
  ASSUME OwnerInv, NEW s \in Slots, Acts(s)
  PROVE  Owned'
<1> SUFFICES ASSUME NEW k \in Keys, ns'[NsOf(k)] = "live"
             PROVE  Fits(k, perm'[k])
  BY DEF Owned, Fits, IsOwners
<1> DEFINE n == NsOf(k)
<1>1. n \in Namespaces /\ StoreInv /\ TypeInv /\ Owned /\ KeepsOwned(s) /\ TxInv(s)
  BY DEF OwnerInv, StoreInv, NsInv, Keys, NsOf
<1>2. CASE ns[n] = "live" /\ (perm' = perm \/ pend[s][k] = Unwritten)
  BY <1>1, <1>2, TablesStep DEF Owned, PermView
<1>3. CASE ns[n] = "live" /\ perm' = PermView(s) /\ pend[s][k] # Unwritten
           /\ (Commit(s) \/ CommitMember(s))
  <2>1. perm'[k] = pend[s][k] /\ (Fits(k, pend[s][k]) \/ nsPend[s][n] = "deleted")
    BY <1>1, <1>3 DEF PermView, KeepsOwned
  <2>2. nsPend[s][n] # "deleted"
    <3>1. CASE Commit(s)
      BY <1>1, <3>1, ServerAssumption DEF Commit, NsView
    <3>2. CASE CommitMember(s)
      <4>1. pc[s] = "commitMember"
        BY <3>2 DEF CommitMember
      <4>2. Is(s, "AddGroupNamespace")
        BY <1>1, <4>1, SlotOps, StepOps DEF Is
      <4>3. nsPend[s][n] = Unwritten
        BY <1>1, <4>2 DEF TxInv, GroupTx, NoNs
      <4>4. QED
        BY <4>3, ServerAssumption
    <3>3. QED
      BY <1>3, <3>1, <3>2
  <2>3. QED
    BY <2>1, <2>2
<1>4. CASE ns[n] # "live"
  <2>1. ns[n] = "absent" /\ Creates(s, n) /\ Commit(s)
    BY <1>1, <1>4, NewlyLive
  <2>2. OnlyRow(s, OwnerOf[n], OwnerRow) /\ req[s].ns = n
    BY <1>1, <2>1 DEF Commit, Creates, TxInv, CreateTx, Is
  <2>3. perm[k] = NoRow
    BY <1>1, <2>1 DEF StoreInv, AbsentInv
  <2>4. OwnerRow # Unwritten
    BY RowTypes, ServerAssumption DEF RowOrNone
  <2>5. perm'[k] = IF k = <<OwnerOf[n], n>> THEN OwnerRow ELSE NoRow
    BY <2>1, <2>2, <2>3, <2>4 DEF Commit, PermView, OnlyRow
  <2>6. k = <<UserOf(k), n>> /\ UserOf(k) \in Users
    BY DEF Keys, UserOf, NsOf
  <2>7. QED
    BY <1>1, <2>5, <2>6, FittingRows
<1>5. QED
  BY <1>2, <1>3, <1>4, TablesStep

\* What other transactions have written still fits.
LEMMA OthersKeepOwned ==
  ASSUME OwnerInv, NEW s \in Slots, Acts(s), NEW t \in Slots, t # s
  PROVE  KeepsOwned(t)' /\ GrantsToOthers(t)'
<1>1. Untouched(t) /\ StoreInv /\ KeepsOwned(t) /\ GrantsToOthers(t)
  BY OthersUntouched DEF OwnerInv, StoreInv, NsInv
<1>2. ASSUME NEW k \in Keys, ns'[NsOf(k)] = "live", pend[t][k] # Unwritten
      PROVE  ns[NsOf(k)] = "live"
  <2> SUFFICES ASSUME ns[NsOf(k)] # "live" PROVE FALSE
    OBVIOUS
  <2>1. NsOf(k) \in Namespaces
    BY DEF Keys, NsOf
  <2>2. ns[NsOf(k)] = "absent" /\ Creates(s, NsOf(k))
    BY <1>1, <1>2, <2>1, NewlyLive
  <2>3. Creates(t, NsOf(k))
    BY <1>1, <1>2, <2>2 DEF StoreInv, AbsentInv
  <2>4. QED
    BY <1>1, <2>1, <2>2, <2>3 DEF StoreInv, NsInv, NamespaceLocks
<1>3. KeepsOwned(t)'
  BY <1>1, <1>2 DEF KeepsOwned, Untouched, Fits, IsOwners
<1>4. ASSUME pc[t] \in {"upsert", "upsertList"}, ns'[req[t].ns] = "live"
      PROVE  ns[req[t].ns] = "live"
  <2>1. req[t].ns \in Namespaces /\ ns[req[t].ns] # "absent"
    BY <1>1, <1>4, RequestTypes DEF StoreInv, NsInv, LookedUp
  <2>2. QED
    BY <1>1, <1>4, <2>1, NewlyLive
<1>5. GrantsToOthers(t)'
  BY <1>1, <1>4 DEF GrantsToOthers, Untouched
<1>6. QED
  BY <1>3, <1>5

\* A grant is written for others than the owner, with another level.
LEMMA WriteOwned ==
  ASSUME OwnerInv, NEW s \in Slots, Upsert(s) \/ UpsertList(s)
  PROVE  KeepsOwned(s)'
<1>1. /\ pc[s] \in {"upsert", "upsertList"} /\ ns' = ns /\ nsPend' = nsPend
      /\ TypeInv /\ TxInv(s) /\ GrantsToOthers(s) /\ NoRows(s)
  BY DEF Upsert, UpsertList, tables, OwnerInv, StoreInv, NsInv, TxInv, Before
<1> SUFFICES ASSUME NEW k \in Keys, ns[NsOf(k)] = "live", pend'[s][k] # Unwritten
             PROVE  Fits(k, pend'[s][k])
  BY <1>1 DEF KeepsOwned, Fits, IsOwners
<1>2. k \in Written(s)
  BY <1>1 DEF Upsert, UpsertList, NoRows, TypeInv, TypeOK
<1>3. PICK u \in Users : k = <<u, req[s].ns>> /\ grants[s][u] # NoAccess
  BY <1>2 DEF Written
<1>4. req[s].ns \in Namespaces /\ req[s].group \in Groups /\ NsOf(k) = req[s].ns
      /\ UserOf(k) = u
  BY <1>1, <1>3, RequestTypes DEF NsOf, UserOf
<1>5. u # OwnerOf[req[s].ns] /\ grants[s][u] # Owner /\ grants[s][u] \in Levels
  BY <1>1, <1>3, <1>4 DEF GrantsToOthers, TypeInv, TypeOK, Grants
<1>6. CASE Upsert(s)
  <2>1. pend'[s][k] = GrantedRow(PermView(s)[k], grants[s][u])
    BY <1>2, <1>4, <1>6 DEF Upsert, TypeInv, TypeOK, OwnerInv, StoreInv, NsInv
  <2>2. PermView(s)[k] \in RowOrNone
    BY <1>1, ViewTypes DEF TypeInv
  <2>3. QED
    BY <1>3, <1>4, <1>5, <2>1, <2>2, FittingRows
<1>7. CASE UpsertList(s)
  <2>1. pend'[s][k] = ListedRow(grants[s][u], ListGroup(req[s]))
    BY <1>2, <1>4, <1>7 DEF UpsertList, TypeInv, TypeOK, OwnerInv, StoreInv, NsInv
  <2>2. ListGroup(req[s]) \in Groups \union {NoGroup}
    BY <1>4 DEF ListGroup
  <2>3. QED
    BY <1>3, <1>4, <1>5, <2>1, <2>2, FittingRows
<1>8. QED
  BY <1>6, <1>7

\* A limit leaves the level granted and the group of a row alone; revocation
\* and the removal of a group do not find the owner's row.
LEMMA ApplyOwned ==
  ASSUME OwnerInv, NEW s \in Slots, Apply(s)
  PROVE  KeepsOwned(s)'
<1>1. /\ pc[s] = "apply" /\ ns' = ns /\ nsPend' = nsPend /\ perm' = perm /\ nss' = nss
      /\ req' = req /\ TypeInv /\ TxInv(s) /\ Owned /\ KeepsOwned(s)
  BY DEF Apply, tables, OwnerInv, StoreInv, NsInv
<1> SUFFICES ASSUME NEW k \in Keys, ns[NsOf(k)] = "live", pend'[s][k] # Unwritten
             PROVE  Fits(k, pend'[s][k]) \/ nsPend[s][NsOf(k)] = "deleted"
  BY <1>1 DEF KeepsOwned, Fits, IsOwners
<1>2. CASE k \notin Affected(s)
  <2>1. pend'[s][k] = pend[s][k]
    BY <1>1, <1>2 DEF Apply, TypeInv, TypeOK
  <2>2. QED
    BY <1>1, <2>1 DEF KeepsOwned
<1>3. CASE k \in Affected(s) /\ Sweeps(req[s])
  <2>1. Matches(s, k, PermView(s)[k])
    BY <1>3 DEF Affected
  <2>2. QED
    BY <1>3, <2>1 DEF Matches, Sweeps, OfDeleted
<1>4. CASE k \in Affected(s) /\ ~Sweeps(req[s])
  <2>1. NoRows(s)
    BY <1>1, <1>4 DEF TxInv
  <2>2. PermView(s) = perm
    BY <1>1, <2>1 DEF PermView, NoRows, TypeInv, TypeOK
  <2>3. pend'[s][k] = Changed(req[s], perm[k]) /\ Matches(s, k, perm[k])
    BY <1>1, <1>4, <2>2 DEF Apply, Affected, TypeInv, TypeOK
  <2>4. perm[k] \in Row /\ Fits(k, perm[k]) /\ NsOf(k) \in Namespaces
        /\ NoRow \notin Row
    BY <1>1, <2>3, NoRowAssumption
       DEF Owned, Matches, TypeInv, TypeOK, RowOrNone, Keys, NsOf
  <2>5. req[s].op \in {"DeleteNamespaceAccess", "SetUserAccesses",
                       "DeleteGroupFromNamespace"}
        /\ req[s].level \in Levels /\ req[s].group \in Groups
    BY <1>1, <1>4, SlotOps, StepOps, RequestTypes DEF Sweeps
  <2>6. CASE req[s].op = "SetUserAccesses"
    <3>1. pend'[s][k] = LimitedRow(perm[k], req[s].level)
      BY <2>3, <2>6 DEF Changed
    <3>2. /\ LimitedRow(perm[k], req[s].level).init = perm[k].init
          /\ LimitedRow(perm[k], req[s].level).group = perm[k].group
          /\ LimitedRow(perm[k], req[s].level) \in Row
      BY <2>4, <2>5, RowTypes DEF LimitedRow, Row
    <3>3. QED
      BY <2>4, <3>1, <3>2 DEF Fits
  <2>7. CASE req[s].op \in {"DeleteNamespaceAccess", "DeleteGroupFromNamespace"}
    <3>1. pend'[s][k] = NoRow
      BY <2>3, <2>7 DEF Changed
    <3>2. ~IsOwners(k)
      <4>1. CASE req[s].op = "DeleteNamespaceAccess"
        <5>1. perm[k].init < Owner
          BY <2>3, <4>1 DEF Matches, Deletable
        <5>2. QED
          BY <2>4, <5>1 DEF Fits, Owner
      <4>2. CASE req[s].op = "DeleteGroupFromNamespace"
        <5>1. perm[k].group = req[s].group
          BY <2>3, <4>2 DEF Matches
        <5>2. QED
          BY <2>4, <2>5, <5>1, NoGroupAssumption DEF Fits
      <4>3. QED
        BY <2>7, <4>1, <4>2
    <3>3. QED
      BY <2>4, <3>1, <3>2 DEF Fits
  <2>8. QED
    BY <2>5, <2>6, <2>7
<1>5. QED
  BY <1>2, <1>3, <1>4

\* What a request writes in a live namespace fits.
LEMMA OwnKeepsOwned ==
  ASSUME OwnerInv, NEW s \in Slots, Acts(s)
  PROVE  KeepsOwned(s)'
<1>1. StoreInv /\ TypeInv /\ TxInv(s) /\ KeepsOwned(s)
  BY DEF OwnerInv, StoreInv, NsInv
<1> USE DEF Goto, tables, writes
<1>2. CASE \/ Refused(s) \/ Fail(s) \/ Commit(s) \/ CommitMember(s)
           \/ MemberFails(s)
  <2>1. Release(s)
    BY <1>2 DEF Refused, LookupRefused, Unstorable, CreateRefused,
       NothingToDelete, RenameRefused, Fail, Commit,
       CommitMember, MemberFails, NextMember, Rollback
  <2>2. QED
    BY <1>1, <2>1 DEF Release, KeepsOwned, TypeInv, TypeOK
<1>3. CASE Upsert(s) \/ UpsertList(s)
  BY <1>3, WriteOwned
<1>4. CASE Apply(s)
  BY <1>4, ApplyOwned
<1>5. CASE InsertNamespace(s)
  <2>1. NoRows(s) /\ req[s].ns \in Namespaces /\ pc[s] = "nsInsert"
    BY <1>1, <1>5, RequestTypes DEF InsertNamespace, TxInv, Before
  <2>2. \A k \in Keys : pend'[s][k] # Unwritten
          => k = <<OwnerOf[req[s].ns], req[s].ns>> /\ pend'[s][k] = OwnerRow
    BY <1>1, <1>5, <2>1 DEF InsertNamespace, NoRows, TypeInv, TypeOK
  <2>3. QED
    BY <2>1, <2>2, FittingRows DEF KeepsOwned, Fits, IsOwners
<1>6. CASE MarkDeleted(s) \/ Rename(s)
  <2>1. NoRows(s) /\ pend' = pend
    BY <1>1, <1>6 DEF MarkDeleted, Rename, TxInv, Before
  <2>2. QED
    BY <2>1 DEF KeepsOwned, NoRows
<1>7. CASE OwnerExists(s) /\ req[s].op # "AddGroupNamespace"
  <2>1. Release(s)
    BY <1>7 DEF OwnerExists, Rollback
  <2>2. QED
    BY <1>1, <2>1 DEF Release, KeepsOwned, TypeInv, TypeOK
<1>8. CASE \/ Lookup(s) \/ PickMember(s) \/ NoMoreOwners(s) \/ CountOwners(s)
           \/ (OwnerExists(s) /\ req[s].op = "AddGroupNamespace")
           \/ ScanNamespaces(s) \/ Scan(s) \/ External(s)
           \/ ReadAccesses(s) \/ PushAccesses(s) \/ PushIgnored(s)
           \/ \E r \in Requests : Begin(s, r)
  <2>1. pend' = pend /\ nsPend' = nsPend /\ ns' = ns
    BY <1>8 DEF Lookup, PickMember, NoMoreOwners, CountOwners, OwnerExists, ScanNamespaces,
       Scan, External, ReadAccesses, PushAccesses, PushIgnored, PushDone, Begin
  <2>2. QED
    BY <1>1, <2>1 DEF KeepsOwned, Fits, IsOwners
<1>9. QED
  BY <1>2, <1>3, <1>4, <1>5, <1>6, <1>7, <1>8 DEF Acts, Step, Break, Refused

\* What a request is about to write is for others than the owner, and not
\* owner in a namespace whose owners it has counted.
LEMMA OwnGrantsToOthers ==
  ASSUME OwnersSpared, OwnerInv, NEW s \in Slots, Acts(s)
  PROVE  GrantsToOthers(s)'
<1>1. StoreInv /\ TypeInv /\ TxInv(s) /\ GrantsToOthers(s) /\ Owned
  BY DEF OwnerInv, StoreInv, NsInv
<1> DEFINE Past == {"member", "count", "upsert", "upsertList", "commitMember"}
<1>2. pc[s] # "idle" => req[s] \in Requests /\ req[s].ns \in Namespaces
                        /\ req[s].group \in Groups /\ req[s].target \in Users
                        /\ OwnerOf[req[s].ns] \in Users
  BY <1>1, RequestTypes, ServerAssumption
<1>3. NoAccess # Owner
  BY DEF NoAccess, Owner
<1> USE DEF Goto, tables, writes
<1>4. CASE \/ Refused(s) \/ Fail(s) \/ Commit(s)
           \/ OwnerExists(s) /\ req[s].op # "AddGroupNamespace"
  <2>1. Return(s)
    BY <1>4 DEF Refused, LookupRefused, Unstorable, CreateRefused,
       NothingToDelete, RenameRefused, Fail, Commit,
       OwnerExists, Rollback
  <2>2. pc'[s] = "idle"
    BY <1>1, <2>1 DEF Return, TypeInv, TypeOK
  <2>3. QED
    BY <2>2 DEF GrantsToOthers
<1>5. CASE CommitMember(s) \/ MemberFails(s)
  <2>1. /\ pc[s] \in {"count", "upsert", "commitMember"} /\ pc'[s] = "member"
        /\ req' = req /\ users' = users /\ req[s].op = "AddGroupNamespace"
    <3>1. NextMember(s) /\ pc[s] \in {"count", "upsert", "commitMember"}
      BY <1>5 DEF CommitMember, MemberFails, OwnerMemberStep
    <3>2. req[s].op = "AddGroupNamespace"
      <4>1. CASE CommitMember(s)
        BY <1>1, <4>1, SlotOps, StepOps DEF CommitMember
      <4>2. CASE MemberFails(s)
        BY <4>2 DEF MemberFails, OwnerMemberStep
      <4>3. QED
        BY <1>5, <4>1, <4>2
    <3>3. QED
      BY <1>1, <3>1, <3>2 DEF NextMember, TypeInv, TypeOK
  <2>2. QED
    BY <1>1, <2>1 DEF GrantsToOthers
<1>6. CASE Lookup(s)
  <2>1. pc[s] = "lookup" /\ req' = req /\ NamespaceByName(req[s]) /\ Permitted(req[s])
        /\ SparesOwner(req[s])
    BY <1>2, <1>6 DEF Lookup, OwnersSpared
  <2>2. CASE /\ req[s].op \in {"SetNamespaceAccess", "SetGroupMemberNamespaceAccess"}
             /\ pc'[s] = "count" /\ grants'[s] = OneGrant(req[s].target, req[s].level)
    <3>1. req[s].target # OwnerOf[req[s].ns]
      BY <2>1, <2>2 DEF Permitted, SparesOwner
    <3>2. grants'[s][OwnerOf[req[s].ns]] = NoAccess
      BY <1>2, <2>1, <2>2, <3>1 DEF OneGrant, NobodyGranted
    <3>3. QED
      BY <2>1, <2>2, <3>2 DEF GrantsToOthers
  <2>3. CASE /\ req[s].op = "AddGroupNamespace" /\ pc'[s] = "member"
             /\ users'[s] = OwnerMembers(req[s].group)
    <3>1. OwnerOf[req[s].ns] \notin users'[s]
      BY <1>3, <2>1, <2>3 DEF SparesOwner, OwnerMembers
    <3>2. QED
      BY <2>1, <2>3, <3>1 DEF GrantsToOthers
  <2>4. CASE pc'[s] \in {"scan", "nsScan", "rename"}
    BY <2>4 DEF GrantsToOthers
  <2>5. QED
    BY <1>1, <1>6, <2>2, <2>3, <2>4 DEF Lookup, TypeInv, TypeOK
<1>7. CASE PickMember(s)
  <2>1. PICK u \in users[s] : /\ users'[s] = users[s] \ {u}
                              /\ grants'[s] = OneGrant(u, Owner)
    BY <1>1, <1>7 DEF PickMember, TypeInv, TypeOK
  <2>2. pc[s] = "member" /\ pc'[s] = "count" /\ req' = req
    BY <1>1, <1>7 DEF PickMember, TypeInv, TypeOK
  <2>3. req[s].op = "AddGroupNamespace"
    BY <1>1, <2>2, SlotOps, StepOps
  <2>4. OwnerOf[req[s].ns] \notin users[s]
    BY <1>1, <2>2, <2>3 DEF GrantsToOthers
  <2>5. grants'[s][OwnerOf[req[s].ns]] = NoAccess
    BY <1>2, <2>1, <2>2, <2>4 DEF OneGrant, NobodyGranted
  <2>6. QED
    BY <2>1, <2>2, <2>4, <2>5 DEF GrantsToOthers
<1>8. CASE NoMoreOwners(s)
  <2>1. /\ pc[s] = "member" /\ pc'[s] \in {"commit", "upsertList"} /\ req' = req
        /\ grants'[s] = OtherMembers(req[s].group)
    BY <1>1, <1>8 DEF NoMoreOwners, TypeInv, TypeOK
  <2>2. SparesOwner(req[s]) /\ req[s].op = "AddGroupNamespace"
    BY <1>1, <1>2, <2>1, SlotOps, StepOps DEF OwnersSpared
  <2>3. /\ grants'[s][OwnerOf[req[s].ns]] = NoAccess
        /\ \A u \in Users : grants'[s][u] # Owner
    BY <1>2, <1>3, <2>1, <2>2 DEF SparesOwner, OtherMembers
  <2>4. QED
    BY <2>1, <2>3 DEF GrantsToOthers
<1>9. CASE CountOwners(s)
  <2>1. /\ pc[s] = "count" /\ pc'[s] \in {"upsert", "upsertList"} /\ req' = req
        /\ grants' = grants /\ users' = users /\ ns' = ns /\ BeforeInsert(s)
    BY <1>1, <1>9 DEF CountOwners, InsertStep, TypeInv, TypeOK
  <2>2. ASSUME ns[req[s].ns] = "live" PROVE \A u \in Users : grants[s][u] # Owner
    <3> DEFINE k == <<OwnerOf[req[s].ns], req[s].ns>>
    <3>1. k \in Keys /\ NsOf(k) = req[s].ns /\ IsOwners(k)
      BY <1>2, <2>1 DEF Keys, NsOf, UserOf, IsOwners
    <3>2. perm[k] \in Row /\ perm[k].init = Owner
      BY <1>1, <2>2, <3>1 DEF Owned, Fits
    <3>3. PermView(s)[k] = perm[k]
      BY <1>1, <2>1, <3>1 DEF PermView, TxInv, Before, NoRows
    <3>4. OwnerOf[req[s].ns] \in OwnersOf(PermView(s), req[s].ns)
      BY <1>2, <2>1, <3>2, <3>3, NoRowAssumption DEF OwnersOf
    <3>5. QED
      BY <2>1, <3>4 DEF BeforeInsert
  <2>3. QED
    BY <1>1, <2>1, <2>2 DEF GrantsToOthers
<1>10. CASE OwnerExists(s) /\ req[s].op = "AddGroupNamespace"
  <2>1. /\ pc[s] = "count" /\ pc'[s] = "upsert" /\ req' = req /\ users' = users
        /\ ns' = ns /\ grants'[s] = OneGrant(user[s], Write)
    BY <1>1, <1>10 DEF OwnerExists, TypeInv, TypeOK
  <2>2. user[s] \in Users /\ \E l \in Levels : grants[s] = OneGrant(user[s], l)
    BY <1>1, <1>10, <2>1 DEF TxInv, GroupTx, Is
  <2>3. grants[s][user[s]] # NoAccess
    BY <2>2, NoAccessOutside DEF OneGrant, NobodyGranted
  <2>4. user[s] # OwnerOf[req[s].ns]
    BY <1>1, <2>1, <2>3 DEF GrantsToOthers
  <2>5. /\ grants'[s][OwnerOf[req[s].ns]] = NoAccess
        /\ \A u \in Users : grants'[s][u] # Owner
    BY <1>2, <1>3, <2>1, <2>4 DEF OneGrant, NobodyGranted, Write, Owner
  <2>6. QED
    BY <1>1, <1>10, <2>1, <2>5 DEF GrantsToOthers
<1>11. CASE Upsert(s) \/ UpsertList(s)
  <2>1. /\ pc[s] \in {"upsert", "upsertList"} /\ req' = req /\ users' = users
        /\ pc'[s] = "commitMember" => pc[s] = "upsert"
        /\ pc'[s] \in {"commitMember", "commit", "authRead"}
    BY <1>1, <1>11 DEF Upsert, UpsertList, TypeInv, TypeOK
  <2>2. QED
    BY <1>1, <2>1 DEF GrantsToOthers
<1>12. CASE \/ InsertNamespace(s) \/ ScanNamespaces(s) \/ MarkDeleted(s)
            \/ Rename(s) \/ Scan(s) \/ Apply(s) \/ External(s) \/ ReadAccesses(s)
            \/ PushAccesses(s) \/ PushIgnored(s) \/ \E r \in Requests : Begin(s, r)
  <2>1. pc'[s] \notin Past
    BY <1>1, <1>12 DEF InsertNamespace, ScanNamespaces, MarkDeleted, Rename, Scan,
       Apply, AfterApply, External, ReadAccesses, PushAccesses, PushIgnored, PushDone, Begin,
       FirstStep, TypeInv, TypeOK
  <2>2. QED
    BY <2>1 DEF GrantsToOthers
<1>13. QED
  BY <1>4, <1>5, <1>6, <1>7, <1>8, <1>9, <1>10, <1>11, <1>12 DEF Acts, Step, Break, Refused

\* OwnerInv holds at the start.
LEMMA OwnerInvInit == Init => OwnerInv
<1> SUFFICES ASSUME Init PROVE OwnerInv
  OBVIOUS
<1>1. StoreInv
  BY StoreInvInit
<1>2. Owned
  <2> SUFFICES ASSUME NEW k \in Keys, ns[NsOf(k)] = "live" PROVE Fits(k, perm[k])
    BY DEF Owned
  <2>1. NsOf(k) \in Namespaces /\ UserOf(k) \in Users /\ k = <<UserOf(k), NsOf(k)>>
    BY DEF Keys, NsOf, UserOf
  <2>2. perm[k] = IF UserOf(k) = OwnerOf[NsOf(k)] THEN OwnerRow ELSE NoRow
    BY <2>1 DEF Init
  <2>3. QED
    BY <2>1, <2>2, FittingRows
<1>3. \A s \in Slots : KeepsOwned(s) /\ GrantsToOthers(s)
  BY DEF Init, KeepsOwned, GrantsToOthers
<1>4. QED
  BY <1>1, <1>2, <1>3 DEF OwnerInv

\* OwnerInv is inductive when the owners are spared.
LEMMA OwnerInvNext ==
  ASSUME OwnersSpared
  PROVE  OwnerInv /\ [Next]_vars => OwnerInv'
<1> SUFFICES ASSUME OwnerInv, [Next]_vars PROVE OwnerInv'
  OBVIOUS
<1>1. StoreInv'
  BY StoreInvNext DEF OwnerInv
<1>2. CASE UNCHANGED vars
  BY <1>1, <1>2 DEF OwnerInv, Owned, KeepsOwned, GrantsToOthers, Fits, IsOwners, vars
<1>3. CASE Crash
  BY <1>1, <1>3 DEF OwnerInv, Owned, KeepsOwned, GrantsToOthers, Fits, IsOwners, Crash,
     tables
<1>4. ASSUME NEW s \in Slots, Acts(s) PROVE OwnerInv'
  <2>1. Owned'
    BY <1>4, OwnedStays
  <2>2. ASSUME NEW t \in Slots PROVE KeepsOwned(t)' /\ GrantsToOthers(t)'
    BY <1>4, OthersKeepOwned, OwnKeepsOwned, OwnGrantsToOthers
  <2>3. QED
    BY <1>1, <2>1, <2>2 DEF OwnerInv
<1>5. QED
  BY <1>2, <1>3, <1>4 DEF Next, Acts

(* A live namespace has exactly one row with the level owner, its owner's, *)
(* as long as the group operations spare the owner: no order of grants,    *)
(* group grants, revocations, limits, creations, deletions, failures and   *)
(* crashes adds an owner or loses one.                                     *)
THEOREM OwnerStays ==
  ASSUME OwnersSpared
  PROVE  Spec => []OneOwner
<1>1. OwnerInv => OneOwner
  <2> SUFFICES ASSUME OwnerInv, NEW n \in Namespaces, ns[n] = "live"
               PROVE  OwnersOf(perm, n) = {OwnerOf[n]}
    BY DEF OneOwner
  <2>1. TypeInv /\ Owned
    BY DEF OwnerInv, StoreInv, NsInv
  <2>2. OwnerOf[n] \in Users
    BY ServerAssumption
  <2>3. ASSUME NEW u \in Users
        PROVE  perm[<<u, n>>] # NoRow /\ perm[<<u, n>>].init = Owner <=> u = OwnerOf[n]
    <3>1. <<u, n>> \in Keys /\ NsOf(<<u, n>>) = n /\ UserOf(<<u, n>>) = u
      BY DEF Keys, NsOf, UserOf
    <3>2. Fits(<<u, n>>, perm[<<u, n>>]) /\ perm[<<u, n>>] \in RowOrNone
      BY <2>1, <3>1 DEF Owned, TypeInv, TypeOK
    <3>3. QED
      BY <3>1, <3>2, NoRowAssumption DEF Fits, IsOwners, RowOrNone
  <2>4. QED
    BY <2>2, <2>3 DEF OwnersOf
<1>2. QED
  BY <1>1, OwnerInvInit, OwnerInvNext, PTL DEF Spec
=============================================================================
