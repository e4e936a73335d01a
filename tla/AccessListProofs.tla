--------------------------- MODULE AccessListProofs --------------------------
(***************************************************************************)
(* What PermissionServer promises only of some uses of it: one at a time,  *)
(* requests leave no permission without its namespace, and requests that   *)
(* grant, however many at once, leave the auth service with the accesses   *)
(* of the table.                                                           *)
(***************************************************************************)
EXTENDS PermissionStoreProofs

-----------------------------------------------------------------------------
(* No orphans.                                                             *)

\* Every row of the namespaces marked deleted is removed, or will be: its
\* namespace is yet to be swept, or the statement at work has found the row.
Swept(s) ==
  \A k \in Keys : NsOf(k) \in Marked(s) /\ perm[k] # NoRow =>
    \/ pend[s][k] # Unwritten
    \/ pc[s] \in {"scan", "apply"} /\ NsOf(k) \in nss[s]
    \/ pc[s] = "apply" /\ k \in targets[s]

\* A request grants in a namespace that is live, all it has written is of
\* namespaces that are live when it commits, and it sweeps those it deletes.
Grounded(s) ==
  /\ pc[s] \in {"member", "count", "upsert", "upsertList", "commitMember"}
       => ns[req[s].ns] = "live"
  /\ \A k \in Keys : pend[s][k] \in Row =>
       \/ nsPend[s][NsOf(k)] = "live"
       \/ nsPend[s][NsOf(k)] = Unwritten /\ ns[NsOf(k)] = "live"
  /\ Swept(s)

OrphanInv == StoreInv /\ NoOrphans /\ \A s \in Slots : Grounded(s)

\* Only the operations that sweep mark namespaces deleted.
LEMMA MarkingOps ==
  ASSUME TypeInv, NEW s \in Slots, TxInv(s), NEW n \in Marked(s)
  PROVE  pc[s] # "idle" /\ Sweeps(req[s]) /\ pc[s] \in Sweeping
<1>1. /\ n \in Namespaces /\ nsPend[s][n] = "deleted" /\ nsPend[s][n] # Unwritten
      /\ Unwritten # "live"
  BY ServerAssumption DEF Marked
<1>2. pc[s] \notin Before
  BY <1>1 DEF TxInv, NoNs
<1>3. pc[s] # "idle" /\ pc[s] # "nsInsert"
  BY <1>2 DEF Before
<1>4. req[s].op \in Ops /\ pc[s] \in Path(req[s].op)
  BY <1>3, SlotOps
<1>5. CASE Is(s, "CreateNamespace")
  BY <1>1, <1>3, <1>5 DEF TxInv, CreateTx, OneNs
<1>6. CASE ~Sweeps(req[s]) /\ ~Is(s, "CreateNamespace")
  <2>1. NoNs(s)
    BY <1>3, <1>4, <1>6 DEF TxInv, GrantTx, MemberTx, GroupTx, RevokeTx, LimitTx, DropTx,
       Is, Sweeps, Ops
  <2>2. QED
    BY <1>1, <2>1 DEF NoNs
<1>7. CASE Sweeps(req[s])
  BY <1>2, <1>3, <1>4, <1>7 DEF Sweeps, Path, Before, Sweeping, Late
<1>8. QED
  BY <1>3, <1>5, <1>6, <1>7

\* What commits has no orphans.
LEMMA OrphansStay ==
  ASSUME OrphanInv, NEW s \in Slots, Acts(s)
  PROVE  NoOrphans'
<1> SUFFICES ASSUME NEW k \in Keys, perm'[k] # NoRow PROVE ns'[NsOf(k)] = "live"
  BY DEF NoOrphans
<1> DEFINE n == NsOf(k)
<1>1. n \in Namespaces /\ TypeInv /\ TxInv(s) /\ Grounded(s) /\ StoreInv
      /\ (perm[k] # NoRow => ns[n] = "live")
  BY DEF OrphanInv, NoOrphans, StoreInv, NsInv, Keys, NsOf
<1>2. \/ ns' = ns /\ perm' = perm
      \/ /\ perm' = PermView(s)
         /\ \/ Commit(s) /\ ns' = NsView(s)
            \/ CommitMember(s) /\ ns' = ns
  BY TablesStep DEF Commit, CommitMember, NextMember
<1>3. CASE ns' = ns /\ perm' = perm
  BY <1>1, <1>3
<1>4. CASE perm' = PermView(s) /\ CommitMember(s) /\ ns' = ns
  <2>1. nsPend[s][n] = Unwritten
    <3>1. pc[s] = "commitMember"
      BY <1>4 DEF CommitMember
    <3>2. Is(s, "AddGroupNamespace")
      BY <1>1, <3>1, SlotOps, StepOps DEF Is
    <3>3. QED
      BY <1>1, <3>2 DEF TxInv, GroupTx, NoNs
  <2>2. CASE pend[s][k] = Unwritten
    BY <1>1, <1>4, <2>2 DEF PermView
  <2>3. CASE pend[s][k] # Unwritten
    <3>1. pend[s][k] \in Row
      BY <1>1, <1>4, <2>3 DEF PermView, TypeInv, TypeOK, RowOrNone
    <3>2. Unwritten # "live"
      BY ServerAssumption
    <3>3. QED
      BY <1>1, <1>4, <2>1, <3>1, <3>2 DEF Grounded
  <2>4. QED
    BY <2>2, <2>3
<1>5. CASE perm' = PermView(s) /\ Commit(s) /\ ns' = NsView(s)
  <2>1. /\ ns'[n] = IF nsPend[s][n] = Unwritten THEN ns[n] ELSE nsPend[s][n]
        /\ perm'[k] = IF pend[s][k] = Unwritten THEN perm[k] ELSE pend[s][k]
        /\ pc[s] = "commit" /\ Unwritten # "live"
    BY <1>1, <1>5, ServerAssumption DEF PermView, NsView, Commit
  <2>2. CASE pend[s][k] # Unwritten
    <3>1. pend[s][k] \in Row
      BY <1>1, <2>1, <2>2 DEF TypeInv, TypeOK, RowOrNone
    <3>2. QED
      BY <1>1, <2>1, <3>1 DEF Grounded
  <2>3. CASE pend[s][k] = Unwritten
    <3>1. perm[k] # NoRow /\ ns[n] = "live"
      BY <1>1, <2>1, <2>3
    <3>2. nsPend[s][n] # "deleted"
      <4> SUFFICES ASSUME nsPend[s][n] = "deleted" PROVE FALSE
        OBVIOUS
      <4>1. QED
        BY <1>1, <2>1, <2>3, <3>1 DEF Grounded, Swept, Marked
    <3>3. nsPend[s][n] \in {"live", "deleted", Unwritten}
      BY <1>1 DEF TypeInv, TypeOK
    <3>4. QED
      BY <2>1, <3>1, <3>2, <3>3
  <2>4. QED
    BY <2>2, <2>3
<1>6. QED
  BY <1>2, <1>3, <1>4, <1>5


\* What a request grants in is live, and a deletion finds every row.
LEMMA OwnGrounded ==
  ASSUME OrphanInv, NEW s \in Slots, Acts(s)
  PROVE  Grounded(s)'
<1> DEFINE Granting == {"member", "count", "upsert", "upsertList", "commitMember"}
<1>1. StoreInv /\ TypeInv /\ TxInv(s) /\ Grounded(s) /\ NoOrphans
  BY DEF OrphanInv, StoreInv, NsInv
<1>2. Unwritten \notin Row /\ NoRow \notin Row /\ Unwritten \notin {"live", "deleted"}
  BY ServerAssumption, NoRowAssumption DEF RowOrNone
<1>3. pc[s] # "idle" => req[s].op \in Ops /\ pc[s] \in Path(req[s].op)
  BY <1>1, SlotOps
<1> USE DEF Goto, tables, writes
<1>4. CASE \/ Refused(s) \/ Fail(s) \/ Commit(s)
           \/ (OwnerExists(s) /\ req[s].op # "AddGroupNamespace")
  <2>1. Release(s) /\ Return(s)
    BY <1>4 DEF Refused, LookupRefused, Unstorable, CreateRefused,
       NothingToDelete, RenameRefused, Fail, Commit, OwnerExists, Rollback
  <2>2. /\ pc'[s] = "idle" /\ \A k \in Keys : pend'[s][k] = Unwritten
        /\ \A n \in Namespaces : nsPend'[s][n] = Unwritten
    BY <1>1, <2>1 DEF Release, Return, TypeInv, TypeOK
  <2>3. Swept(s)'
    BY <1>2, <2>2 DEF Swept, Marked
  <2>4. QED
    BY <1>2, <2>2, <2>3 DEF Grounded
<1>5. CASE CommitMember(s) \/ MemberFails(s)
  <2>1. /\ pc[s] \in {"count", "upsert", "commitMember"} /\ NextMember(s)
    BY <1>5 DEF CommitMember, MemberFails, OwnerMemberStep
  <2>2. req[s].op = "AddGroupNamespace"
    <3>1. CASE CommitMember(s)
      BY <1>3, <3>1, StepOps DEF CommitMember
    <3>2. CASE MemberFails(s)
      BY <3>2 DEF MemberFails, OwnerMemberStep
    <3>3. QED
      BY <1>5, <3>1, <3>2
  <2>3. /\ pc'[s] = "member" /\ req' = req /\ ns' = ns
        /\ \A k \in Keys : pend'[s][k] = Unwritten
        /\ \A n \in Namespaces : nsPend'[s][n] = Unwritten
    BY <1>1, <2>1 DEF NextMember, Release, TypeInv, TypeOK
  <2>4. ns[req[s].ns] = "live"
    BY <1>1, <2>1 DEF Grounded
  <2>5. Swept(s)'
    BY <1>2, <2>3 DEF Swept, Marked
  <2>6. QED
    BY <1>2, <2>2, <2>3, <2>4, <2>5 DEF Grounded
<1>6. CASE Lookup(s)
  <2>1. /\ pc[s] = "lookup" /\ req' = req /\ ns' = ns /\ pend' = pend
        /\ nsPend' = nsPend /\ pc'[s] \in {"count", "scan", "nsScan", "member", "rename"}
        /\ ns[req[s].ns] = "live"
    BY <1>1, <1>6 DEF Lookup, NamespaceByName, TypeInv, TypeOK
  <2>2. /\ \A k \in Keys : pend[s][k] = Unwritten
        /\ \A n \in Namespaces : nsPend[s][n] = Unwritten
    BY <1>1, <2>1 DEF TxInv, Before, NoRows, NoNs
  <2>3. Swept(s)'
    BY <1>2, <2>1, <2>2 DEF Swept, Marked
  <2>4. QED
    BY <1>2, <2>1, <2>2, <2>3 DEF Grounded
<1>7. CASE \/ PickMember(s) \/ NoMoreOwners(s) \/ CountOwners(s)
           \/ (OwnerExists(s) /\ req[s].op = "AddGroupNamespace")
  <2>1. /\ pc[s] \in {"member", "count"} /\ req' = req /\ ns' = ns /\ pend' = pend
        /\ nsPend' = nsPend /\ pc'[s] \in {"count", "commit", "upsert", "upsertList"}
    BY <1>1, <1>7 DEF PickMember, NoMoreOwners, CountOwners, InsertStep, OwnerExists,
       TypeInv, TypeOK
  <2>2. /\ \A k \in Keys : pend[s][k] = Unwritten
        /\ \A n \in Namespaces : nsPend[s][n] = Unwritten
    BY <1>1, <2>1 DEF TxInv, Before, NoRows, NoNs
  <2>3. ns[req[s].ns] = "live"
    BY <1>1, <2>1 DEF Grounded
  <2>4. Swept(s)'
    BY <1>2, <2>1, <2>2 DEF Swept, Marked
  <2>5. QED
    BY <1>2, <2>1, <2>2, <2>3, <2>4 DEF Grounded
<1>8. CASE Upsert(s) \/ UpsertList(s)
  <2>1. /\ pc[s] \in {"upsert", "upsertList"} /\ req' = req /\ ns' = ns
        /\ nsPend' = nsPend /\ pc'[s] \in {"commitMember", "commit", "authRead"}
    BY <1>1, <1>8 DEF Upsert, UpsertList, TypeInv, TypeOK
  <2>2. /\ \A k \in Keys : pend[s][k] = Unwritten
        /\ \A n \in Namespaces : nsPend[s][n] = Unwritten
    BY <1>1, <2>1 DEF TxInv, Before, NoRows, NoNs
  <2>3. ns[req[s].ns] = "live" /\ Swept(s)'
    BY <1>1, <1>2, <2>1, <2>2 DEF Grounded, Swept, Marked
  <2>4. ASSUME NEW k \in Keys, pend'[s][k] \in Row PROVE NsOf(k) = req[s].ns
    <3>1. k \in Written(s)
      BY <1>1, <1>2, <1>8, <2>2, <2>4 DEF Upsert, UpsertList, TypeInv, TypeOK
    <3>2. QED
      BY <3>1 DEF Written, NsOf
  <2>5. \A k \in Keys : NsOf(k) \in Namespaces
    BY DEF Keys, NsOf
  <2>6. QED
    BY <2>1, <2>2, <2>3, <2>4, <2>5 DEF Grounded
<1>9. CASE InsertNamespace(s)
  <2>1. /\ pc[s] = "nsInsert" /\ req' = req /\ pc'[s] = "external"
        /\ nsPend'[s] = [nsPend[s] EXCEPT ![req[s].ns] = "live"]
        /\ pend'[s] = [pend[s] EXCEPT ![<<OwnerOf[req[s].ns], req[s].ns>>] = OwnerRow]
    BY <1>1, <1>9 DEF InsertNamespace, TypeInv, TypeOK
  <2>2. /\ \A k \in Keys : pend[s][k] = Unwritten
        /\ \A n \in Namespaces : nsPend[s][n] = Unwritten
    BY <1>1, <2>1 DEF TxInv, Before, NoRows, NoNs
  <2>3. req[s].ns \in Namespaces
    BY <1>1, <2>1, RequestTypes
  <2>4. nsPend[s] \in [Namespaces -> {"live", "deleted", Unwritten}]
        /\ pend[s] \in [Keys -> RowOrNone \union {Unwritten}]
    BY <1>1 DEF TypeInv, TypeOK
  <2>5. ASSUME NEW k \in Keys, pend'[s][k] \in Row PROVE nsPend'[s][NsOf(k)] = "live"
    <3>1. k = <<OwnerOf[req[s].ns], req[s].ns>>
      BY <1>2, <2>1, <2>2, <2>4, <2>5
    <3>2. QED
      BY <2>1, <2>3, <2>4, <3>1 DEF NsOf
  <2>6. Swept(s)'
    BY <1>2, <2>1, <2>2, <2>4 DEF Swept, Marked
  <2>7. QED
    BY <2>1, <2>5, <2>6 DEF Grounded
<1>10. CASE ScanNamespaces(s) \/ MarkDeleted(s) \/ Rename(s)
  <2>1. /\ pc[s] \in {"nsScan", "nsApply", "rename"}
        /\ pc'[s] \in {"nsApply", "scan", "external"} /\ pend' = pend
    BY <1>1, <1>10 DEF ScanNamespaces, MarkDeleted, Rename, TypeInv, TypeOK
  <2>2. /\ \A k \in Keys : pend[s][k] = Unwritten
        /\ \A n \in Namespaces : nsPend[s][n] = Unwritten
    BY <1>1, <2>1 DEF TxInv, Before, NoRows, NoNs
  <2>3. Swept(s)'
    <3>1. CASE ScanNamespaces(s)
      BY <1>2, <2>2, <3>1 DEF ScanNamespaces, Swept, Marked
    <3>2. CASE MarkDeleted(s)
      <4>1. pc'[s] = "scan" /\ nss'[s] = StillThere(s)
            /\ \A n \in Namespaces :
                 nsPend'[s][n] = IF n \in StillThere(s) THEN "deleted" ELSE Unwritten
        BY <1>1, <2>2, <3>2 DEF MarkDeleted, TypeInv, TypeOK
      <4>2. QED
        BY <1>2, <4>1 DEF Swept, Marked
    <3>3. CASE Rename(s) /\ ns[req[s].ns] = "deleted"
      <4>1. req[s].ns \in Namespaces
        BY <1>1, <2>1, RequestTypes
      <4>2. pc'[s] = "scan" /\ nss'[s] = {req[s].ns}
            /\ \A n \in Namespaces :
                 n # req[s].ns => nsPend'[s][n] = Unwritten
        BY <1>1, <2>2, <3>3, <4>1 DEF Rename, TypeInv, TypeOK
      <4>3. QED
        BY <1>2, <4>2 DEF Swept, Marked
    <3>4. CASE Rename(s) /\ ns[req[s].ns] # "deleted"
      <4>1. \A n \in Namespaces : nsPend'[s][n] # "deleted"
        BY <1>1, <1>2, <2>2, <3>4 DEF Rename, TypeInv, TypeOK
      <4>2. QED
        BY <4>1 DEF Swept, Marked
    <3>5. QED
      BY <1>10, <3>1, <3>2, <3>3, <3>4
  <2>4. QED
    BY <1>2, <2>1, <2>2, <2>3 DEF Grounded
<1>11. CASE Scan(s)
  <2>1. /\ pc[s] = "scan" /\ pc'[s] = "apply" /\ req' = req /\ perm' = perm
        /\ ns' = ns /\ pend' = pend /\ nsPend' = nsPend
    BY <1>1, <1>11 DEF Scan, TypeInv, TypeOK
  <2>2. PICK range \in Ranges(s) :
          /\ targets'[s] = {k \in Keys : NsOf(k) \in range
                                         /\ Matches(s, k, PermView(s)[k])}
          /\ nss'[s] = nss[s] \ range
    BY <1>1, <1>11 DEF Scan, TypeInv, TypeOK
  <2>3. Swept(s)'
    <3> SUFFICES ASSUME NEW k \in Keys, NsOf(k) \in Marked(s), perm[k] # NoRow,
                        pend[s][k] = Unwritten
                 PROVE  NsOf(k) \in nss'[s] \/ k \in targets'[s]
      BY <2>1 DEF Swept, Marked
    <3>1. NsOf(k) \in nss[s]
      BY <1>1, <2>1 DEF Grounded, Swept
    <3>2. Sweeps(req[s])
      BY <1>1, MarkingOps
    <3>3. Matches(s, k, PermView(s)[k])
      BY <3>2 DEF Matches, OfDeleted, PermView, Marked, Sweeps
    <3>4. QED
      BY <2>2, <3>1, <3>3
  <2>4. QED
    BY <1>1, <2>1, <2>3 DEF Grounded
<1>12. CASE Apply(s)
  <2>1. /\ pc[s] = "apply" /\ pc'[s] = AfterApply(s)
        /\ req' = req /\ perm' = perm /\ ns' = ns /\ nsPend' = nsPend /\ nss' = nss
        /\ targets'[s] = Affected(s)
        /\ \A k \in Keys : pend'[s][k] = IF k \in Affected(s)
                                         THEN Changed(req[s], PermView(s)[k])
                                         ELSE pend[s][k]
    BY <1>1, <1>12 DEF Apply, TypeInv, TypeOK
  <2>2. pc'[s] \notin Granting
    BY <2>1 DEF AfterApply
  <2>3. ASSUME NEW k \in Keys, pend'[s][k] \in Row, k \in Affected(s)
        PROVE  nsPend[s][NsOf(k)] = Unwritten /\ ns[NsOf(k)] = "live"
    <3>1. req[s].op = "SetUserAccesses"
      BY <1>2, <2>1, <2>3 DEF Changed
    <3>2. NoNs(s) /\ NoRows(s)
      BY <1>1, <2>1, <3>1 DEF TxInv, LimitTx, Is, Sweeps
    <3>3. perm[k] # NoRow /\ NsOf(k) \in Namespaces
      BY <2>3, <3>2 DEF Affected, Matches, PermView, NoRows, Keys, NsOf
    <3>4. QED
      BY <1>1, <3>2, <3>3 DEF NoNs, NoOrphans
  <2>4. Swept(s)'
    <3> SUFFICES ASSUME NEW k \in Keys, NsOf(k) \in Marked(s), perm[k] # NoRow,
                        pend'[s][k] = Unwritten
                 PROVE  pc'[s] = "scan" /\ NsOf(k) \in nss[s]
      BY <2>1 DEF Swept, Marked
    <3>1. Sweeps(req[s])
      BY <1>1, MarkingOps
    <3>2. k \notin Affected(s)
      BY <1>2, <2>1, <3>1, ServerAssumption DEF Changed, Sweeps, RowOrNone
    <3>3. pend[s][k] = Unwritten
      BY <2>1, <3>2
    <3>4. Matches(s, k, PermView(s)[k])
      BY <3>1, <3>3 DEF Matches, OfDeleted, PermView, Marked, Sweeps
    <3>5. NsOf(k) \in nss[s]
      BY <1>1, <2>1, <3>2, <3>3, <3>4 DEF Grounded, Swept, Affected
    <3>6. QED
      BY <2>1, <3>1, <3>5 DEF AfterApply
  <2>5. QED
    BY <1>1, <2>1, <2>2, <2>3, <2>4 DEF Grounded
<1>13. CASE External(s) \/ ReadAccesses(s) \/ PushAccesses(s) \/ PushIgnored(s)
  <2>1. /\ pc[s] \in {"external", "authRead", "authPush"} /\ pc'[s] \in Late
        /\ req' = req /\ perm' = perm /\ ns' = ns /\ pend' = pend
        /\ nsPend' = nsPend /\ nss' = nss /\ targets' = targets
    BY <1>1, <1>13 DEF External, ReadAccesses, PushAccesses, PushIgnored, PushDone, Late,
       TypeInv, TypeOK
  <2>2. pc'[s] \notin Granting
    BY <2>1 DEF Late
  <2>3. Swept(s)'
    BY <1>1, <2>1 DEF Grounded, Swept, Marked
  <2>4. QED
    BY <1>1, <2>1, <2>2, <2>3 DEF Grounded
<1>14. CASE \E r \in Requests : Begin(s, r)
  <2>1. /\ pc[s] = "idle" /\ pend' = pend /\ nsPend' = nsPend
        /\ pc'[s] \in {"nsInsert", "nsScan", "scan", "lookup"}
    BY <1>1, <1>14 DEF Begin, FirstStep, TypeInv, TypeOK
  <2>2. /\ \A k \in Keys : pend[s][k] = Unwritten
        /\ \A n \in Namespaces : nsPend[s][n] = Unwritten
    BY <1>1, <2>1 DEF TxInv, Before, NoRows, NoNs
  <2>3. Swept(s)'
    BY <1>2, <2>1, <2>2 DEF Swept, Marked
  <2>4. QED
    BY <1>2, <2>1, <2>2, <2>3 DEF Grounded
<1>15. QED
  BY <1>4, <1>5, <1>6, <1>7, <1>8, <1>9, <1>10, <1>11, <1>12, <1>13, <1>14
     DEF Acts, Step, Break, Refused

\* OrphanInv holds at the start.
LEMMA OrphanInvInit == Init => OrphanInv
<1> SUFFICES ASSUME Init PROVE OrphanInv
  OBVIOUS
<1>1. StoreInv
  BY StoreInvInit
<1>2. NoOrphans
  BY DEF Init, NoOrphans, Keys, NsOf
<1>3. Unwritten \notin Row /\ Unwritten # "deleted"
  BY ServerAssumption DEF RowOrNone
<1>4. \A s \in Slots : Grounded(s)
  BY <1>3 DEF Init, Grounded, Swept, Marked
<1>5. QED
  BY <1>1, <1>2, <1>4 DEF OrphanInv

\* OrphanInv is inductive when requests come one at a time.
LEMMA OrphanInvNext ==
  ASSUME OneAtATime
  PROVE  OrphanInv /\ [Next]_vars => OrphanInv'
<1> SUFFICES ASSUME OrphanInv, [Next]_vars PROVE OrphanInv'
  OBVIOUS
<1>1. StoreInv'
  BY StoreInvNext DEF OrphanInv
<1>2. CASE UNCHANGED vars
  BY <1>1, <1>2 DEF OrphanInv, NoOrphans, Grounded, Swept, Marked, vars
<1>3. CASE Crash
  <2>1. /\ perm' = perm /\ ns' = ns
        /\ \A s \in Slots : /\ pc'[s] = "idle"
                            /\ \A k \in Keys : pend'[s][k] = Unwritten
                            /\ \A n \in Namespaces : nsPend'[s][n] = Unwritten
    BY <1>3 DEF Crash, tables
  <2>2. Unwritten \notin Row /\ Unwritten # "deleted"
    BY ServerAssumption DEF RowOrNone
  <2>3. \A s \in Slots : Grounded(s)'
    BY <2>1, <2>2 DEF Grounded, Swept, Marked
  <2>4. QED
    BY <1>1, <2>1, <2>3 DEF OrphanInv, NoOrphans
<1>4. ASSUME NEW s \in Slots, Acts(s) PROVE OrphanInv'
  <2>1. NoOrphans' /\ Grounded(s)'
    BY <1>4, OrphansStay, OwnGrounded
  <2>2. \A t \in Slots : t = s
    BY DEF OneAtATime
  <2>3. QED
    BY <1>1, <2>1, <2>2 DEF OrphanInv
<1>5. QED
  BY <1>2, <1>3, <1>4 DEF Next, Acts

(* When requests come one at a time, no permission outlives its namespace: *)
(* a grant is in a namespace that is still live when it commits, and a     *)
(* deletion takes every row of the namespaces it marks, whatever fails and *)
(* whenever the process dies in between.                                   *)
THEOREM NoOrphansAlone ==
  ASSUME OneAtATime
  PROVE  Spec => []NoOrphans
<1>1. OrphanInv => NoOrphans
  BY DEF OrphanInv
<1>2. QED
  BY <1>1, OrphanInvInit, OrphanInvNext, PTL DEF Spec

-----------------------------------------------------------------------------
(* What auth holds.                                                        *)

\* The accesses the target of a request will have when it commits.
Expected(s) == UserAccesses(PermView(s), ns, req[s].target)

\* A grant sends one list, to its user, and it is what it commits.
Sending(s) ==
  /\ pc[s] \notin {"idle", "commit"} => users[s] = {req[s].target}
  /\ pc[s] = "authPush" => user[s] = req[s].target /\ list[s] = Expected(s)
  /\ pc[s] = "commit" => auth[req[s].target] = Expected(s)

\* The list of a user is up to date, unless a grant to him is about to commit.
SentTo(u) ==
  (\A s \in Slots : pc[s] = "commit" => req[s].target # u)
    => auth[u] = UserAccesses(perm, ns, u)

FreshInv ==
  /\ StoreInv
  /\ \A s \in Slots : Sending(s)
  /\ \A u \in Users : SentTo(u)

\* The list of a user is made of the rows of that user.
LEMMA SameAccesses ==
  ASSUME NEW tab, NEW other, NEW u \in Users,
         \A n \in Namespaces : tab[<<u, n>>] = other[<<u, n>>]
  PROVE  UserAccesses(tab, ns, u) = UserAccesses(other, ns, u)
BY DEF UserAccesses

\* Where a grant can be.
LEMMA GrantSlot ==
  ASSUME GrantsOnly, StoreInv, NEW s \in Slots, pc[s] # "idle"
  PROVE  /\ pc[s] \in {"lookup", "count", "upsert"} \union Late
         /\ Is(s, "SetNamespaceAccess") /\ NoNs(s)
         /\ req[s].target \in Users /\ req[s].ns \in Namespaces
         /\ req[s] \in Requests
<1>1. TypeInv /\ TxInv(s)
  BY DEF StoreInv, NsInv
<1>2. req[s].op = "SetNamespaceAccess"
  BY <1>1, RequestTypes DEF GrantsOnly
<1>3. pc[s] \in {"lookup", "count", "upsert"} \union Late
  BY <1>1, <1>2 DEF TxInv, Path
<1>4. NoNs(s)
  BY <1>1, <1>2 DEF TxInv, GrantTx, Is
<1>5. QED
  BY <1>1, <1>2, <1>3, <1>4, RequestTypes DEF Is

\* A grant past its write has written the row of its user, and only it.
LEMMA LateGrant ==
  ASSUME GrantsOnly, StoreInv, NEW s \in Slots, pc[s] \in Late, NEW k \in Keys
  PROVE  pend[s][k] # Unwritten <=> k = <<req[s].target, req[s].ns>>
<1>1. TypeInv /\ TxInv(s) /\ Is(s, "SetNamespaceAccess") /\ req[s].target \in Users
      /\ req[s].ns \in Namespaces
  BY GrantSlot DEF StoreInv, NsInv, Late
<1> DEFINE key == <<req[s].target, req[s].ns>>
<1>2. OnlyRow(s, req[s].target, GrantedRow(perm[key], req[s].level))
  BY <1>1 DEF TxInv, GrantTx
<1>3. key \in Keys /\ perm[key] \in RowOrNone /\ req[s].level \in Levels
  BY <1>1, RequestTypes DEF Keys, TypeInv, TypeOK, Is
<1>4. GrantedRow(perm[key], req[s].level) # Unwritten
  BY <1>3, RowTypes, ServerAssumption DEF RowOrNone
<1>5. QED
  BY <1>2, <1>4 DEF OnlyRow

\* Two grants past their writes are not to the same user: they would hold the
\* same row.
LEMMA OneSender ==
  ASSUME GrantsOnly, StoreInv, NEW s \in Slots, NEW t \in Slots, s # t,
         pc[s] \in Late, pc[t] \in Late
  PROVE  req[s].target # req[t].target
<1> SUFFICES ASSUME req[s].target = req[t].target PROVE FALSE
  OBVIOUS
<1>1. /\ req[s] \in Requests /\ req[t] \in Requests
      /\ req[s].target \in Users /\ req[s].ns \in Namespaces
  BY GrantSlot DEF Late
<1>2. req[s].ns = req[t].ns
  BY <1>1 DEF GrantsOnly
<1> DEFINE k == <<req[s].target, req[s].ns>>
<1>3. k \in Keys
  BY <1>1 DEF Keys
<1>4. pend[s][k] # Unwritten /\ pend[t][k] # Unwritten
  BY <1>2, <1>3, LateGrant
<1>5. QED
  BY <1>3, <1>4 DEF StoreInv, RowLocks

\* Grants leave the namespaces alone.
LEMMA GrantsKeepNs ==
  ASSUME GrantsOnly, StoreInv, NEW s \in Slots, Acts(s)
  PROVE  ns' = ns
<1>1. TypeInv
  BY DEF StoreInv, NsInv
<1>2. CASE ns' = NsView(s) /\ Commit(s)
  <2>1. NoNs(s)
    BY <1>2, GrantSlot DEF Commit
  <2>2. QED
    BY <1>1, <1>2, <2>1, NsCommitView
<1>3. QED
  BY <1>2, TablesStep

\* Only a push changes the lists auth has, and it is of the user pushed for.
LEMMA AuthStep ==
  ASSUME ~Faults, NEW s \in Slots, Acts(s)
  PROVE  auth' = auth \/ PushAccesses(s)
<1> USE DEF tables
<1>1. CASE \/ Refused(s)
  BY <1>1 DEF Refused, LookupRefused, Unstorable, CreateRefused,
     NothingToDelete, RenameRefused, Rollback
<1>2. CASE Commit(s) \/ CommitMember(s)
  BY <1>2 DEF Commit, CommitMember, NextMember
<1>3. CASE \/ Lookup(s) \/ PickMember(s) \/ NoMoreOwners(s) \/ CountOwners(s)
           \/ OwnerExists(s)
  BY <1>3 DEF Lookup, PickMember, NoMoreOwners, CountOwners, OwnerExists, Rollback
<1>4. CASE \/ Upsert(s) \/ UpsertList(s) \/ InsertNamespace(s) \/ ScanNamespaces(s)
           \/ MarkDeleted(s) \/ Rename(s) \/ Scan(s) \/ Apply(s) \/ External(s)
  BY <1>4 DEF Upsert, UpsertList, InsertNamespace, ScanNamespaces, MarkDeleted, Rename,
     Scan, Apply, External
<1>5. CASE ReadAccesses(s) \/ \E r \in Requests : Begin(s, r)
  BY <1>5 DEF ReadAccesses, Begin
<1>6. QED
  BY <1>1, <1>2, <1>3, <1>4, <1>5 DEF Acts, Step, Break, Refused, Fail, MemberFails, PushIgnored

\* Only a slot's own steps change the list it is sending.
LEMMA OthersLists ==
  ASSUME TypeInv, NEW t \in Slots, NEW s \in Slots, t # s, Acts(t)
  PROVE  list'[s] = list[s]
<1> USE DEF TypeInv, TypeOK, Goto
<1>1. CASE \/ Refused(t) \/ Fail(t) \/ Commit(t)
           \/ (OwnerExists(t) /\ req[t].op # "AddGroupNamespace")
  <2>1. Return(t)
    BY <1>1 DEF Refused, LookupRefused, Unstorable, CreateRefused,
       NothingToDelete, RenameRefused, Fail, Commit, OwnerExists, Rollback
  <2>2. QED
    BY <2>1 DEF Return
<1>2. CASE \/ CommitMember(t) \/ MemberFails(t) \/ Lookup(t) \/ PickMember(t)
           \/ NoMoreOwners(t) \/ CountOwners(t)
           \/ (OwnerExists(t) /\ req[t].op = "AddGroupNamespace")
  BY <1>2 DEF CommitMember, MemberFails, NextMember, Lookup, PickMember, NoMoreOwners,
     CountOwners, OwnerExists
<1>3. CASE \/ Upsert(t) \/ UpsertList(t) \/ InsertNamespace(t) \/ ScanNamespaces(t)
           \/ MarkDeleted(t) \/ Rename(t) \/ Scan(t) \/ Apply(t) \/ External(t)
           \/ \E r \in Requests : Begin(t, r)
  BY <1>3 DEF Upsert, UpsertList, InsertNamespace, ScanNamespaces, MarkDeleted, Rename,
     Scan, Apply, External, Begin
<1>4. CASE ReadAccesses(t) \/ PushAccesses(t) \/ PushIgnored(t)
  BY <1>4 DEF ReadAccesses, PushAccesses, PushIgnored, PushDone
<1>5. QED
  BY <1>1, <1>2, <1>3, <1>4 DEF Acts, Step, Break, Refused

\* A row that a step of one grant changes is of its user.
LEMMA OnlyTargetsRows ==
  ASSUME GrantsOnly, StoreInv, NEW s \in Slots, Acts(s), NEW k \in Keys,
         perm'[k] # perm[k]
  PROVE  Commit(s) /\ perm' = PermView(s) /\ k = <<req[s].target, req[s].ns>>
<1>1. perm' = PermView(s) /\ (Commit(s) \/ CommitMember(s))
  BY TablesStep
<1>2. ~CommitMember(s)
  BY GrantSlot DEF CommitMember, Late
<1>3. pend[s][k] # Unwritten
  BY <1>1 DEF PermView
<1>4. pc[s] \in Late
  BY <1>1, <1>2 DEF Commit, Late
<1>5. QED
  BY <1>1, <1>2, <1>3, <1>4, LateGrant

\* The list of another slot stays what its user is about to have.
LEMMA OthersSending ==
  ASSUME GrantsOnly, ~Faults, FreshInv, NEW s \in Slots, Acts(s),
         NEW t \in Slots, t # s
  PROVE  Sending(t)'
<1>1. StoreInv /\ TypeInv /\ Sending(t) /\ Sending(s)
  BY DEF FreshInv, StoreInv, NsInv
<1>2. Untouched(t) /\ list'[t] = list[t] /\ ns' = ns
  BY <1>1, OthersUntouched, OthersLists, GrantsKeepNs
<1>3. ASSUME pc[t] \in Late PROVE Expected(t)' = Expected(t)
  <2>1. req[t].target \in Users
    BY <1>1, <1>3, GrantSlot DEF Late
  <2>2. ASSUME NEW n \in Namespaces
        PROVE  perm'[<<req[t].target, n>>] = perm[<<req[t].target, n>>]
    <3>1. <<req[t].target, n>> \in Keys
      BY <2>1 DEF Keys
    <3>2. pc[s] \in Late => req[s].target # req[t].target
      BY <1>1, <1>3, OneSender
    <3>3. QED
      BY <1>1, <3>1, <3>2, OnlyTargetsRows DEF Commit, Late
  <2>3. ASSUME NEW n \in Namespaces
        PROVE  PermView(t)'[<<req[t].target, n>>] = PermView(t)[<<req[t].target, n>>]
    BY <1>2, <2>1, <2>2 DEF PermView, Untouched, Keys
  <2>4. QED
    BY <1>2, <2>1, <2>3 DEF Expected, UserAccesses, Untouched
<1>4. ASSUME pc[t] = "commit" PROVE auth'[req[t].target] = auth[req[t].target]
  <2>1. CASE PushAccesses(s)
    <3>1. pc[s] = "authPush" /\ auth' = [auth EXCEPT ![user[s]] = list[s]]
      BY <2>1 DEF PushAccesses
    <3>2. user[s] # req[t].target
      BY <1>1, <1>4, <3>1, OneSender DEF Sending, Late
    <3>3. QED
      BY <3>1, <3>2, <1>1, <1>4, GrantSlot DEF TypeInv, TypeOK
  <2>2. QED
    BY <2>1, AuthStep
<1>5. QED
  BY <1>1, <1>2, <1>3, <1>4 DEF Sending, Untouched, Late

\* A grant reads the list of its user after it has written, and sends it.
LEMMA OwnSending ==
  ASSUME GrantsOnly, ~Faults, FreshInv, NEW s \in Slots, Acts(s)
  PROVE  Sending(s)'
<1>1. StoreInv /\ TypeInv /\ Sending(s)
  BY DEF FreshInv, StoreInv, NsInv
<1> USE DEF Goto, tables, writes
<1>2. CASE \/ Refused(s) \/ Fail(s) \/ Commit(s)
           \/ (OwnerExists(s) /\ req[s].op # "AddGroupNamespace")
  <2>1. Return(s)
    BY <1>2 DEF Refused, LookupRefused, Unstorable, CreateRefused,
       NothingToDelete, RenameRefused, Fail, Commit, OwnerExists, Rollback
  <2>2. pc'[s] = "idle"
    BY <1>1, <2>1 DEF Return, TypeInv, TypeOK
  <2>3. QED
    BY <2>2 DEF Sending
<1>3. CASE Lookup(s) \/ CountOwners(s) \/ Upsert(s)
  <2>1. pc[s] \in {"lookup", "count", "upsert"} /\ req' = req
    BY <1>3 DEF Lookup, CountOwners, Upsert
  <2>2. req[s].op = "SetNamespaceAccess"
    BY <1>1, <2>1, GrantSlot DEF Is
  <2>3. pc'[s] \in {"count", "upsert", "authRead"} /\ users'[s] = users[s]
    BY <1>1, <1>3, <2>2 DEF Lookup, CountOwners, InsertStep, Upsert, TypeInv, TypeOK
  <2>4. QED
    BY <1>1, <2>1, <2>3 DEF Sending
<1>4. CASE ReadAccesses(s)
  <2>1. /\ pc[s] = "authRead" /\ pc'[s] = "authPush" /\ req' = req /\ users' = users
        /\ perm' = perm /\ ns' = ns /\ pend' = pend
    BY <1>1, <1>4 DEF ReadAccesses, TypeInv, TypeOK
  <2>2. users[s] = {req[s].target}
    BY <1>1, <2>1 DEF Sending
  <2>3. ~ReadsCommitted(req[s]) /\ NoNs(s)
    BY <1>1, <2>1, GrantSlot DEF ReadsCommitted, Is
  <2>4. NsView(s) = ns
    BY <1>1, <2>3 DEF NsView, NoNs, TypeInv, TypeOK
  <2>5. user'[s] = req[s].target /\ list'[s] = Expected(s)
    BY <1>1, <1>4, <2>2, <2>3, <2>4 DEF ReadAccesses, Expected, TypeInv, TypeOK
  <2>6. Expected(s)' = Expected(s)
    BY <2>1 DEF Expected, PermView
  <2>7. QED
    BY <2>1, <2>2, <2>5, <2>6 DEF Sending
<1>5. CASE PushAccesses(s)
  <2>1. /\ pc[s] = "authPush" /\ req' = req /\ perm' = perm /\ ns' = ns /\ pend' = pend
        /\ auth' = [auth EXCEPT ![user[s]] = list[s]]
    BY <1>5 DEF PushAccesses, PushDone
  <2>2. /\ users[s] = {req[s].target} /\ user[s] = req[s].target
        /\ list[s] = Expected(s)
    BY <1>1, <2>1 DEF Sending
  <2>3. pc'[s] = "commit"
    BY <1>1, <1>5, <2>2 DEF PushAccesses, PushDone, TypeInv, TypeOK
  <2>4. auth'[req[s].target] = Expected(s)
    BY <1>1, <2>1, <2>2, GrantSlot DEF TypeInv, TypeOK
  <2>5. Expected(s)' = Expected(s)
    BY <2>1 DEF Expected, PermView
  <2>6. QED
    BY <2>1, <2>3, <2>4, <2>5 DEF Sending
<1>6. CASE \E r \in Requests : Begin(s, r)
  <2>1. PICK r \in Requests : Begin(s, r)
    BY <1>6
  <2>2. r.op = "SetNamespaceAccess"
    BY DEF GrantsOnly
  <2>3. pc'[s] = "lookup" /\ req'[s] = r /\ users'[s] = {r.target}
    BY <1>1, <2>1, <2>2 DEF Begin, FirstStep, Audience, TypeInv, TypeOK
  <2>4. QED
    BY <2>3 DEF Sending
<1>7. CASE \/ PickMember(s) \/ NoMoreOwners(s) \/ CommitMember(s) \/ UpsertList(s)
           \/ (OwnerExists(s) /\ req[s].op = "AddGroupNamespace")
           \/ InsertNamespace(s) \/ ScanNamespaces(s) \/ MarkDeleted(s)
           \/ Rename(s) \/ Scan(s) \/ Apply(s) \/ External(s) \/ MemberFails(s) \/ PushIgnored(s)
  <2>1. pc[s] # "idle" /\ (pc[s] \notin {"lookup", "count", "upsert"} \union Late
                           \/ req[s].op # "SetNamespaceAccess" \/ Faults)
    BY <1>7 DEF PickMember, NoMoreOwners, CommitMember, UpsertList, OwnerExists,
       InsertNamespace, ScanNamespaces, MarkDeleted, Rename, Scan, Apply, External,
       MemberFails, PushIgnored, Late
  <2>2. QED
    BY <1>1, <2>1, GrantSlot DEF Is
<1>8. QED
  BY <1>2, <1>3, <1>4, <1>5, <1>6, <1>7 DEF Acts, Step, Break, Refused

\* Auth keeps the list of a user until a grant to him commits, and then has
\* what was committed.
LEMMA SentStays ==
  ASSUME GrantsOnly, ~Faults, FreshInv, NEW s \in Slots, Acts(s), NEW u \in Users
  PROVE  SentTo(u)'
<1>1. StoreInv /\ TypeInv /\ Sending(s) /\ SentTo(u) /\ ns' = ns
  BY GrantsKeepNs DEF FreshInv, StoreInv, NsInv
<1> SUFFICES ASSUME \A t \in Slots : pc'[t] = "commit" => req'[t].target # u
             PROVE  auth'[u] = UserAccesses(perm', ns, u)
  BY <1>1 DEF SentTo
<1>2. \A t \in Slots : t # s /\ pc[t] = "commit" => req[t].target # u
  BY <1>1, OthersUntouched DEF Untouched
<1>3. CASE pc[s] = "commit" /\ req[s].target = u
  <2>1. Commit(s)
    <3>1. ~(\/ PushAccesses(s) \/ ReadAccesses(s) \/ PushIgnored(s) \/ External(s)
            \/ Apply(s) \/ Scan(s))
      BY <1>3 DEF PushAccesses, ReadAccesses, PushIgnored, External, Apply, Scan
    <3>2. ~(Refused(s) \/ OwnerExists(s) \/ CommitMember(s))
      BY <1>3 DEF Refused, LookupRefused, Unstorable, CreateRefused, NothingToDelete,
         RenameRefused, OwnerExists, CommitMember
    <3>3. ~(\/ Lookup(s) \/ PickMember(s) \/ NoMoreOwners(s) \/ CountOwners(s)
            \/ Upsert(s) \/ UpsertList(s) \/ InsertNamespace(s)
            \/ ScanNamespaces(s) \/ MarkDeleted(s) \/ Rename(s)
            \/ \E r \in Requests : Begin(s, r))
      BY <1>3 DEF Lookup, PickMember, NoMoreOwners, CountOwners, Upsert, UpsertList,
         InsertNamespace, ScanNamespaces, MarkDeleted, Rename, Begin
    <3>4. ~Fail(s) /\ ~MemberFails(s)
      BY DEF Fail, MemberFails
    <3>5. QED
      BY <3>1, <3>2, <3>3, <3>4 DEF Acts, Step, Break, Refused
  <2>2. auth' = auth /\ perm' = PermView(s)
    BY <2>1 DEF Commit
  <2>3. auth[u] = Expected(s)
    BY <1>1, <1>3 DEF Sending
  <2>4. QED
    BY <1>3, <2>2, <2>3 DEF Expected
<1>4. CASE PushAccesses(s) /\ req[s].target = u
  <2>1. pc[s] = "authPush" /\ req' = req
    BY <1>4 DEF PushAccesses, PushDone
  <2>2. users[s] = {u} /\ user[s] = u
    BY <1>1, <1>4, <2>1 DEF Sending
  <2>3. pc'[s] = "commit"
    BY <1>1, <1>4, <2>2 DEF PushAccesses, PushDone, Goto, TypeInv, TypeOK
  <2>4. QED
    BY <1>4, <2>1, <2>3
<1>5. CASE ~(pc[s] = "commit" /\ req[s].target = u)
           /\ ~(PushAccesses(s) /\ req[s].target = u)
  <2>1. auth[u] = UserAccesses(perm, ns, u)
    BY <1>1, <1>2, <1>5 DEF SentTo
  <2>2. auth'[u] = auth[u]
    <3>1. CASE PushAccesses(s)
      <4>1. pc[s] = "authPush" /\ auth' = [auth EXCEPT ![user[s]] = list[s]]
        BY <3>1 DEF PushAccesses
      <4>2. user[s] # u
        BY <1>1, <1>5, <3>1, <4>1 DEF Sending
      <4>3. QED
        BY <1>1, <4>1, <4>2 DEF TypeInv, TypeOK
    <3>2. QED
      BY <3>1, AuthStep
  <2>3. ASSUME NEW n \in Namespaces PROVE perm'[<<u, n>>] = perm[<<u, n>>]
    <3>1. <<u, n>> \in Keys
      BY DEF Keys
    <3>2. QED
      BY <1>1, <1>5, <3>1, OnlyTargetsRows DEF Commit
  <2>4. UserAccesses(perm', ns, u) = UserAccesses(perm, ns, u)
    BY <2>3, SameAccesses
  <2>5. QED
    BY <2>1, <2>2, <2>4
<1>6. QED
  BY <1>3, <1>4, <1>5

\* FreshInv holds at the start.
LEMMA FreshInvInit == Init => FreshInv
<1> SUFFICES ASSUME Init PROVE FreshInv
  OBVIOUS
<1>1. StoreInv
  BY StoreInvInit
<1>2. \A s \in Slots : Sending(s)
  BY DEF Init, Sending
<1>3. \A u \in Users : SentTo(u)
  BY DEF Init, SentTo
<1>4. QED
  BY <1>1, <1>2, <1>3 DEF FreshInv

\* FreshInv is inductive when requests grant and nothing fails.
LEMMA FreshInvNext ==
  ASSUME GrantsOnly, ~Faults
  PROVE  FreshInv /\ [Next]_vars => FreshInv'
<1> SUFFICES ASSUME FreshInv, [Next]_vars PROVE FreshInv'
  OBVIOUS
<1>1. StoreInv'
  BY StoreInvNext DEF FreshInv
<1>2. CASE UNCHANGED vars
  BY <1>1, <1>2 DEF FreshInv, Sending, SentTo, Expected, PermView, vars
<1>3. ASSUME NEW s \in Slots, Acts(s) PROVE FreshInv'
  <2>1. \A t \in Slots : Sending(t)'
    BY <1>3, OthersSending, OwnSending
  <2>2. \A u \in Users : SentTo(u)'
    BY <1>3, SentStays
  <2>3. QED
    BY <1>1, <2>1, <2>2 DEF FreshInv
<1>4. QED
  BY <1>2, <1>3 DEF Next, Acts, Crash

(* When nothing fails and requests grant, to each user in one namespace,   *)
(* the auth service has the accesses of the table whenever none is in      *)
(* progress, however many were at once: the pushes to one user are in the  *)
(* order of the commits.                                                   *)
THEOREM AuthFollowsGrants ==
  ASSUME GrantsOnly, ~Faults
  PROVE  Spec => []AuthFresh
<1>1. FreshInv => AuthFresh
  BY DEF FreshInv, SentTo, AuthFresh, Quiet
<1>2. QED
  BY <1>1, FreshInvInit, FreshInvNext, PTL DEF Spec
=============================================================================
