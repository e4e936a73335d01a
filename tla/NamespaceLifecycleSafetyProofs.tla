------------------- MODULE NamespaceLifecycleSafetyProofs -------------------
(***************************************************************************)
(* What the row locks and the unique index give, for every instance of     *)
(* NamespaceLifecycle: a row has one writer, labels stay unique, and what  *)
(* is deleted is torn down.                                                *)
(***************************************************************************)
EXTENDS NamespaceLifecycleProofs

Creates(s, n) == ~Idle(s) /\ req[s].op \in Creations /\ req[s].ns = n
Imports(s, n) == ~Idle(s) /\ req[s].op = "ImportNamespaces" /\ req[s].ns = n

Unwriting == {"idle", "lookup", "insert", "rename", "usage", "resize", "mark",
              "find", "markAll"}

\* A namespace's row belongs to one transaction at a time, and one that is
\* not there yet to the request that creates or imports it.
OwnedBy(s, n) ==
  /\ pc[s] \in Unwriting => pend[s][n] = Unwritten
  /\ pend[s][n] # Unwritten =>
       rows[n] # Absent \/ Creates(s, n) \/ Imports(s, n)
  /\ \A t \in Slots \ {s} : pend[s][n] = Unwritten \/ pend[t][n] = Unwritten
  /\ Creates(s, n) =>
       /\ rows[n] = Absent /\ n \notin Imported
       /\ \A t \in Slots \ {s} : ~Creates(t, n)
  /\ Imports(s, n) => n \in Imported
  /\ At(s, "markAll") /\ n \in found[s] => OwnerOf[n] = req[s].caller

RowsOwned == \A s \in Slots, n \in Names : OwnedBy(s, n)

RowInv == TypeInv /\ RowsOwned

-----------------------------------------------------------------------------
(* One writer.                                                             *)

\* A slot moves on with the table, the rows it wrote and its request.
LEMMA MoveOwned ==
  ASSUME RowInv, NEW s \in Slots, ~Idle(s), ~At(s, "commit"), ~At(s, "find"),
         Advance(s), UNCHANGED <<rows, pend, req, found>>
  PROVE  RowsOwned'
<1>1. PICK q : q = AfterStep(req[s].op, pc[s])
  OBVIOUS
<1>2. pc'[s] = q /\ \A t \in Slots \ {s} : pc'[t] = pc[t]
  BY <1>1, AdvanceType DEF RowInv
<1>3. /\ q # "idle" /\ q # "markAll"
      /\ q \in Unwriting => pc[s] \in Unwriting
  BY <1>1, RequestType, StepOrder DEF RowInv, At, Unwriting
<1>4. \A t \in Slots : Idle(t)' <=> Idle(t)
  BY <1>2, <1>3 DEF Idle
<1>5. \A t \in Slots, n \in Names :
        (Creates(t, n)' <=> Creates(t, n)) /\ (Imports(t, n)' <=> Imports(t, n))
  BY <1>4 DEF Creates, Imports
<1>6. ASSUME NEW t \in Slots, NEW n \in Names PROVE OwnedBy(t, n)'
  <2>1. OwnedBy(t, n)
    BY DEF RowInv, RowsOwned
  <2>2. (pc'[t] \in Unwriting => pc[t] \in Unwriting) /\ (At(t, "markAll")' => At(t, "markAll"))
    BY <1>2, <1>3 DEF At
  <2>3. QED
    BY <1>5, <2>1, <2>2 DEF OwnedBy
<1>7. QED
  BY <1>6 DEF RowsOwned

\* A slot writes the row its request is about, which nobody else has written.
LEMMA WriteOwned ==
  ASSUME RowInv, NEW s \in Slots, NEW n \in Names, NEW row \in Row,
         pc[s] \in {"insert", "rename", "resize", "mark"}, Advance(s),
         pend' = [pend EXCEPT ![s][n] = row], Unlocked(s, n),
         rows[n] # Absent \/ Creates(s, n) \/ Imports(s, n),
         UNCHANGED <<rows, req>>, \A t \in Slots \ {s} : found'[t] = found[t]
  PROVE  RowsOwned'
<1>1. PICK q : q = AfterStep(req[s].op, pc[s])
  OBVIOUS
<1>2. ~Idle(s) /\ ~At(s, "commit")
  BY DEF Idle, At
<1>3. pc'[s] = q /\ \A t \in Slots \ {s} : pc'[t] = pc[t]
  BY <1>1, <1>2, AdvanceType DEF RowInv
<1>4. q # "idle" /\ q # "markAll" /\ q \notin Unwriting
  BY <1>1, <1>2, RequestType, StepOrder DEF RowInv, At, Unwriting
<1>5. \A t \in Slots : Idle(t)' <=> Idle(t)
  BY <1>2, <1>3, <1>4 DEF Idle
<1>6. \A t \in Slots, m \in Names :
        (Creates(t, m)' <=> Creates(t, m)) /\ (Imports(t, m)' <=> Imports(t, m))
  BY <1>5 DEF Creates, Imports
<1>7. /\ \A m \in Names : pend'[s][m] = IF m = n THEN row ELSE pend[s][m]
      /\ \A t \in Slots \ {s} : pend'[t] = pend[t]
  BY DEF RowInv, TypeInv, TypeOK
<1>8. ASSUME NEW t \in Slots, NEW m \in Names PROVE OwnedBy(t, m)'
  <2>1. OwnedBy(t, m)
    BY DEF RowInv, RowsOwned
  <2>2. CASE t = s
    BY <1>3, <1>4, <1>6, <1>7, <2>1, <2>2 DEF OwnedBy, Unlocked, At
  <2>3. CASE t # s
    BY <1>3, <1>6, <1>7, <2>1, <2>3 DEF OwnedBy, Unlocked, At
  <2>4. QED
    BY <2>2, <2>3
<1>9. QED
  BY <1>8 DEF RowsOwned

LEMMA FindOwned ==
  ASSUME RowInv, NEW s \in Slots, Find(s)
  PROVE  RowsOwned'
<1>1. /\ At(s, "find") /\ Advance(s) /\ UNCHANGED <<rows, pend, req>>
      /\ \A n \in found'[s] : OwnerOf[n] = req[s].caller
      /\ \A t \in Slots \ {s} : found'[t] = found[t]
  BY DEF RowInv, TypeInv, TypeOK, Find
<1>2. ~Idle(s) /\ ~At(s, "commit")
  BY <1>1 DEF Idle, At
<1>3. pc'[s] = "markAll" /\ \A t \in Slots \ {s} : pc'[t] = pc[t]
  BY <1>1, <1>2, AdvanceType, FindType DEF RowInv, At
<1>4. \A t \in Slots : Idle(t)' <=> Idle(t)
  BY <1>2, <1>3 DEF Idle
<1>5. \A t \in Slots, n \in Names :
        (Creates(t, n)' <=> Creates(t, n)) /\ (Imports(t, n)' <=> Imports(t, n))
  BY <1>1, <1>4 DEF Creates, Imports
<1>6. ASSUME NEW t \in Slots, NEW n \in Names PROVE OwnedBy(t, n)'
  <2>1. OwnedBy(t, n)
    BY DEF RowInv, RowsOwned
  <2>2. CASE t = s
    BY <1>1, <1>3, <1>5, <2>1, <2>2 DEF OwnedBy, At, Unwriting
  <2>3. CASE t # s
    BY <1>1, <1>3, <1>5, <2>1, <2>3 DEF OwnedBy, At
  <2>4. QED
    BY <2>2, <2>3
<1>7. QED
  BY <1>6 DEF RowsOwned

\* What MarkAll does to the rows.
LEMMA MarkAllRows ==
  ASSUME RowInv, NEW s \in Slots, MarkAll(s)
  PROVE  /\ \A n \in Names : pend'[s][n] = IF n \in StillLive(s)
                                           THEN [rows[n] EXCEPT !.live = FALSE]
                                           ELSE Unwritten
         /\ \A t \in Slots \ {s} : pend'[t] = pend[t] /\ found'[t] = found[t]
         /\ \A n \in StillLive(s) : /\ n \in Names /\ rows[n] # Absent
                                    /\ Unlocked(s, n) /\ OwnerOf[n] = req[s].caller
         /\ req[s].op = "DeleteAllUserNamespaces" /\ pc'[s] = "unsubscribe"
         /\ \A t \in Slots \ {s} : pc'[t] = pc[t]
<1>1. At(s, "markAll") /\ ~Idle(s) /\ ~At(s, "commit")
  BY DEF MarkAll, At, Idle
<1>2. req[s].op \in Ops /\ HasStep(req[s].op, "markAll")
  BY <1>1, RequestType DEF At, RowInv
<1>3. req[s].op = "DeleteAllUserNamespaces"
  BY <1>2 DEF HasStep
<1>4. AfterStep(req[s].op, "markAll") = "unsubscribe"
  <2>1. AfterStep(req[s].op, "markAll") = AfterDeleteAllStep("markAll")
    BY <1>3 DEF AfterStep
  <2>2. QED
    BY <2>1 DEF AfterDeleteAllStep
<1>5. pc'[s] = "unsubscribe" /\ \A t \in Slots \ {s} : pc'[t] = pc[t]
  BY <1>1, <1>4, AdvanceType DEF MarkAll, At, RowInv
<1>6. ASSUME NEW n \in StillLive(s)
      PROVE  /\ n \in Names /\ rows[n] # Absent
             /\ Unlocked(s, n) /\ OwnerOf[n] = req[s].caller
  <2>1. n \in found[s] /\ n \in Names /\ IsLive(rows[n])
    BY DEF StillLive, RowInv, TypeInv, TypeOK
  <2>2. OwnedBy(s, n)
    BY <2>1 DEF RowInv, RowsOwned
  <2>3. QED
    BY <1>1, <2>1, <2>2, LifecycleAssumption DEF OwnedBy, MarkAll, IsLive
<1>7. /\ pend' = [pend EXCEPT ![s] =
            [n \in Names |-> IF n \in StillLive(s) THEN [rows[n] EXCEPT !.live = FALSE]
                             ELSE Unwritten]]
      /\ found' = [found EXCEPT ![s] = StillLive(s)]
  BY DEF MarkAll
<1>8. QED
  BY <1>3, <1>5, <1>6, <1>7 DEF RowInv, TypeInv, TypeOK

LEMMA MarkAllOwned ==
  ASSUME RowInv, NEW s \in Slots, MarkAll(s)
  PROVE  RowsOwned'
<1>1. ~Idle(s) /\ rows' = rows /\ req' = req
  BY DEF MarkAll, At, Idle
<1>2. \A t \in Slots : Idle(t)' <=> Idle(t)
  BY <1>1, MarkAllRows DEF Idle
<1>3. \A t \in Slots, n \in Names :
        (Creates(t, n)' <=> Creates(t, n)) /\ (Imports(t, n)' <=> Imports(t, n))
  BY <1>1, <1>2 DEF Creates, Imports
<1>4. ASSUME NEW t \in Slots, NEW n \in Names PROVE OwnedBy(t, n)'
  <2>1. OwnedBy(t, n)
    BY DEF RowInv, RowsOwned
  <2>2. n \in StillLive(s) => rows[n] # Absent /\ Unlocked(s, n)
    BY MarkAllRows
  <2>3. /\ pend'[s][n] # Unwritten => n \in StillLive(s)
        /\ pc'[s] \notin Unwriting
    BY MarkAllRows DEF Unwriting
  <2>4. CASE t = s
    BY <1>1, <1>3, <2>1, <2>2, <2>3, <2>4, MarkAllRows DEF OwnedBy, Unlocked, At
  <2>5. CASE t # s
    <3>1. pend'[t] = pend[t] /\ found'[t] = found[t] /\ pc'[t] = pc[t]
      BY <2>5, MarkAllRows
    <3>2. \A u \in Slots \ {t} : pend[t][n] = Unwritten \/ pend'[u][n] = Unwritten
      BY <2>1, <2>2, <2>3, <2>5, MarkAllRows DEF OwnedBy, Unlocked
    <3>3. QED
      BY <1>1, <1>3, <2>1, <3>1, <3>2 DEF OwnedBy, At
  <2>6. QED
    BY <2>4, <2>5
<1>5. QED
  BY <1>4 DEF RowsOwned

\* What the end of a request leaves.
LEMMA EndRows ==
  ASSUME TypeInv, NEW s \in Slots, Finish(s)
  PROVE  /\ \A n \in Names : pend'[s][n] = Unwritten
         /\ pc'[s] = "idle" /\ found'[s] = {}
         /\ \A t \in Slots \ {s} :
              /\ pend'[t] = pend[t] /\ pc'[t] = pc[t]
              /\ req'[t] = req[t] /\ found'[t] = found[t]
  BY DEF TypeInv, TypeOK, Finish, Nothing

LEMMA EndOwned ==
  ASSUME RowInv, NEW s \in Slots, Finish(s), UNCHANGED services,
         rows' = rows \/ rows' = View(s)
  PROVE  RowsOwned'
<1>1. \A n \in Names : rows[n] # Absent => rows'[n] # Absent
  BY EndType DEF RowInv
<1>2. ASSUME NEW n \in Names, pend[s][n] = Unwritten PROVE rows'[n] = rows[n]
  BY <1>2 DEF View, RowInv, TypeInv, TypeOK
<1>3. \A t \in Slots \ {s}, n \in Names :
        (Creates(t, n)' <=> Creates(t, n)) /\ (Imports(t, n)' <=> Imports(t, n))
  BY EndRows DEF RowInv, Creates, Imports, Idle
<1>4. \A n \in Names : ~Creates(s, n)' /\ ~Imports(s, n)'
  BY EndRows DEF RowInv, Creates, Imports, Idle
<1>5. ASSUME NEW t \in Slots, NEW n \in Names PROVE OwnedBy(t, n)'
  <2>1. CASE t = s
    BY <1>4, <2>1, EndRows DEF OwnedBy, RowInv, At
  <2>2. CASE t # s
    <3>1. OwnedBy(t, n) /\ OwnedBy(s, n)
      BY DEF RowInv, RowsOwned
    <3>2. Creates(t, n) => pend[s][n] = Unwritten
      BY <2>2, <3>1 DEF OwnedBy
    <3>3. Creates(t, n) => rows'[n] = Absent
      BY <1>2, <3>1, <3>2 DEF OwnedBy
    <3>4. \A u \in Slots : u # s \/ pend'[u][n] = Unwritten
      BY EndRows DEF RowInv
    <3>5. QED
      BY <1>1, <1>3, <1>4, <2>2, <3>1, <3>3, <3>4, EndRows DEF OwnedBy, RowInv, At
  <2>3. QED
    BY <2>1, <2>2
<1>6. QED
  BY <1>5 DEF RowsOwned

LEMMA BeginOwned ==
  ASSUME RowInv, NEW s \in Slots, NEW r \in Requests, Begin(s, r)
  PROVE  RowsOwned'
<1>1. r.op \in Ops
  BY LifecycleAssumption DEF Request
<1>2. /\ pc'[s] \in {"insert", "find", "lookup"} /\ req'[s] = r /\ Idle(s)
      /\ UNCHANGED <<rows, pend, found>>
      /\ \A t \in Slots \ {s} : pc'[t] = pc[t] /\ req'[t] = req[t]
  BY <1>1, FirstStepOf DEF RowInv, TypeInv, TypeOK, Begin
<1>3. \A n \in Names : pend[s][n] = Unwritten
  BY <1>2 DEF RowInv, RowsOwned, OwnedBy, Idle, Unwriting
<1>4. \A t \in Slots \ {s}, n \in Names :
        (Creates(t, n)' <=> Creates(t, n)) /\ (Imports(t, n)' <=> Imports(t, n))
  BY <1>2 DEF Creates, Imports, Idle
<1>5. ASSUME NEW n \in Names, Creates(s, n)'
      PROVE  /\ rows[n] = Absent /\ n \notin Imported
             /\ \A t \in Slots \ {s} : ~Creates(t, n)
  BY <1>2, <1>5 DEF Creates, Begin, FreshId
<1>6. ASSUME NEW n \in Names, Imports(s, n)' PROVE n \in Imported
  BY <1>2, <1>6 DEF Imports, Begin
<1>7. ASSUME NEW t \in Slots, NEW n \in Names PROVE OwnedBy(t, n)'
  <2>1. OwnedBy(t, n)
    BY DEF RowInv, RowsOwned
  <2>2. CASE t = s
    BY <1>2, <1>3, <1>4, <1>5, <1>6, <2>1, <2>2 DEF OwnedBy, At
  <2>3. CASE t # s
    BY <1>2, <1>4, <1>5, <2>1, <2>3 DEF OwnedBy, At
  <2>4. QED
    BY <2>2, <2>3
<1>8. QED
  BY <1>7 DEF RowsOwned

\* Nothing is being done: at the start, and after a crash.
LEMMA IdleOwned ==
  ASSUME \A s \in Slots : Idle(s), pend = [s \in Slots |-> Nothing]
  PROVE  RowsOwned
  BY DEF RowsOwned, OwnedBy, Creates, Imports, Idle, At, Nothing

\* Every step of a request that only calls a service.
LEMMA CallShape ==
  ASSUME NEW s \in Slots, KubeCalls(s) \/ BillingCalls(s) \/ Deletions(s)
  PROVE  /\ Called(s) /\ ~Idle(s)
         /\ pc[s] \in {"usage", "kubeCreate", "setQuota", "kubeDelete", "userKube",
                       "subscribe", "billingRename", "updateSubscription",
                       "unsubscribe", "volumes", "solutions", "resources",
                       "nsVolumes", "userSolutions", "userResources", "userVolumes"}
<1>1. CASE KubeCalls(s)
  BY <1>1 DEF KubeCalls, CheckUsage, KubeCreate, SetQuota, KubeDelete,
     DeleteUserNamespaces, At, Idle
<1>2. CASE BillingCalls(s)
  BY <1>2 DEF BillingCalls, Subscribe, BillingRename, UpdateSubscription,
     MassiveUnsubscribe, At, Idle
<1>3. CASE Deletions(s)
  BY <1>3, DeletionsEmpty DEF Idle
<1>4. QED
  BY <1>1, <1>2, <1>3

LEMMA StepOwned ==
  ASSUME RowInv, NEW s \in Slots,
         \/ Lookup(s) \/ Insert(s) \/ Rename(s) \/ Resize(s) \/ MarkDeleted(s)
         \/ KubeCalls(s) \/ BillingCalls(s) \/ Deletions(s)
  PROVE  RowsOwned'
<1>1. CASE Lookup(s)
  BY <1>1, MoveOwned DEF Lookup, At, Idle
<1>2. CASE Insert(s)
  <2>1. ~Idle(s) /\ pc[s] = "insert"
    BY <1>2 DEF Insert, At, Idle
  <2>2. req[s].op \in Ops /\ HasStep(req[s].op, "insert") /\ req[s].ns \in Names
    BY <2>1, RequestType DEF RowInv
  <2>3. Creates(s, req[s].ns) \/ Imports(s, req[s].ns)
    BY <2>1, <2>2 DEF HasStep, Creates, Imports, Creations
  <2>4. /\ pend' = [pend EXCEPT ![s][req[s].ns] = NewRow(req[s])]
        /\ Advance(s) /\ UNCHANGED <<rows, req, found>> /\ Unlocked(s, req[s].ns)
    BY <1>2 DEF Insert, Write
  <2>5. QED
    BY <1>2, <2>1, <2>2, <2>3, <2>4, InsertType, WriteOwned DEF RowInv
<1>3. CASE Rename(s)
  <2> DEFINE row == [rows[req[s].ns] EXCEPT !.label = req[s].label]
  <2>1. ~Idle(s) /\ pc[s] = "rename"
    BY <1>3 DEF Rename, At, Idle
  <2>2. req[s].ns \in Names /\ row \in Row /\ rows[req[s].ns] # Absent
    BY <1>3, <2>1, RequestType, RenameType, LifecycleAssumption DEF RowInv
  <2>3. /\ pend' = [pend EXCEPT ![s][req[s].ns] = row]
        /\ Advance(s) /\ UNCHANGED <<rows, req, found>> /\ Unlocked(s, req[s].ns)
    BY <1>3 DEF Rename, Write
  <2>4. QED
    BY <2>1, <2>2, <2>3, WriteOwned
<1>4. CASE Resize(s)
  <2> DEFINE row == ResizedRow(s, rows[req[s].ns])
  <2>1. ~Idle(s) /\ pc[s] = "resize"
    BY <1>4 DEF Resize, At, Idle
  <2>2. req[s].ns \in Names /\ row \in Row /\ rows[req[s].ns] # Absent
    BY <1>4, <2>1, RequestType, ResizeType, LifecycleAssumption DEF RowInv
  <2>3. /\ pend' = [pend EXCEPT ![s][req[s].ns] = row]
        /\ Advance(s) /\ UNCHANGED <<rows, req, found>> /\ Unlocked(s, req[s].ns)
    BY <1>4 DEF Resize
  <2>4. QED
    BY <2>1, <2>2, <2>3, WriteOwned
<1>5. CASE MarkDeleted(s)
  <2> DEFINE row == [rows[req[s].ns] EXCEPT !.live = FALSE]
  <2>1. pc[s] = "mark"
    BY <1>5 DEF MarkDeleted, At
  <2>2. req[s].ns \in Names /\ row \in Row /\ rows[req[s].ns] # Absent
    BY <1>5, MarkDeletedType, LifecycleAssumption DEF RowInv
  <2>3. /\ pend' = [pend EXCEPT ![s][req[s].ns] = row]
        /\ Advance(s) /\ UNCHANGED <<rows, req>> /\ Unlocked(s, req[s].ns)
        /\ \A t \in Slots \ {s} : found'[t] = found[t]
    BY <1>5 DEF MarkDeleted, RowInv, TypeInv, TypeOK
  <2>4. QED
    BY <2>1, <2>2, <2>3, WriteOwned
<1>6. CASE KubeCalls(s) \/ BillingCalls(s) \/ Deletions(s)
  BY <1>6, CallShape, MoveOwned DEF Called, At
<1>7. QED
  BY <1>1, <1>2, <1>3, <1>4, <1>5, <1>6

LEMMA RowInit == Init => RowInv
<1>1. Init => RowsOwned
  BY IdleOwned DEF Init, Idle
<1>2. QED
  BY <1>1, InitType DEF RowInv

LEMMA RowNext == RowInv /\ [Next]_vars => RowInv'
<1> SUFFICES ASSUME RowInv, [Next]_vars PROVE RowsOwned'
  BY NextType DEF RowInv
<1>1. CASE UNCHANGED vars
  BY <1>1 DEF RowInv, RowsOwned, OwnedBy, Creates, Imports, Idle, At, vars, locals
<1>2. CASE Crash
  <2>1. (\A s \in Slots : Idle(s)') /\ pend' = [s \in Slots |-> Nothing]
    BY <1>2 DEF Crash, Idle
  <2>2. QED
    BY <2>1 DEF RowsOwned, OwnedBy, Creates, Imports, Idle, At, Nothing
<1>3. ASSUME NEW s \in Slots, NEW r \in Requests, Begin(s, r) PROVE RowsOwned'
  BY <1>3, BeginOwned
<1>4. ASSUME NEW s \in Slots, Refusals(s) \/ Commit(s) PROVE RowsOwned'
  BY <1>4, RefusalsRollback, EndOwned DEF Rollback, Commit
<1>5. ASSUME NEW s \in Slots, Find(s) \/ MarkAll(s) PROVE RowsOwned'
  BY <1>5, FindOwned, MarkAllOwned
<1>6. QED
  BY <1>1, <1>2, <1>3, <1>4, <1>5, StepOwned, NextCases

-----------------------------------------------------------------------------
(* Unique labels.                                                          *)

SameLabel(m, n, row, other) ==
  IsLive(row) /\ IsLive(other) /\ OwnerOf[m] = OwnerOf[n] /\ row.label = other.label

\* The labels of committed rows and of rows about to be committed: a row that
\* has been written bars its label before its transaction commits.
LabelsClaimed ==
  /\ LabelsUnique
  /\ \A s \in Slots, n \in Names : IsLive(pend[s][n]) => n = req[s].ns
  /\ \A s \in Slots, m, n \in Names : SameLabel(m, n, rows[m], pend[s][n]) => m = n
  /\ \A s, t \in Slots, m, n \in Names :
       SameLabel(m, n, pend[t][m], pend[s][n]) => m = n

LabelInv == RowInv /\ LabelsClaimed

LEMMA NotLive == ~IsLive(Unwritten) /\ ~IsLive(Absent)
  BY LifecycleAssumption DEF IsLive

\* A slot writes a live row only with a label that no other row has.
LEMMA WriteLabel ==
  ASSUME LabelInv, NEW s \in Slots, NEW row,
         \A m \in Names : pend[s][m] = Unwritten,
         \A m \in Names : pend'[s][m] = IF m = req[s].ns THEN row ELSE Unwritten,
         \A t \in Slots \ {s} : pend'[t] = pend[t], UNCHANGED <<rows, req>>,
         req[s].ns \in Names,
         \A m \in Names : SameLabel(m, req[s].ns, rows[m], row) => m = req[s].ns,
         \A t \in Slots \ {s}, m \in Names :
           SameLabel(m, req[s].ns, pend[t][m], row) => m = req[s].ns
  PROVE  LabelsClaimed'
<1> DEFINE here == req[s].ns
<1>1. LabelsUnique'
  BY DEF LabelInv, LabelsClaimed, LabelsUnique
<1>2. \A t \in Slots, n \in Names : IsLive(pend'[t][n]) => n = req'[t].ns
  BY NotLive DEF LabelInv, LabelsClaimed
<1>3. ASSUME NEW t \in Slots, NEW m \in Names, NEW n \in Names,
             SameLabel(m, n, rows[m], pend'[t][n])
      PROVE  m = n
  <2>1. CASE t = s
    <3>1. n = here /\ pend'[s][n] = row
      BY <1>3, <2>1, NotLive DEF SameLabel
    <3>2. QED
      BY <1>3, <2>1, <3>1
  <2>2. CASE t # s
    BY <1>3, <2>2 DEF LabelInv, LabelsClaimed
  <2>3. QED
    BY <2>1, <2>2
<1>4. ASSUME NEW t \in Slots, NEW u \in Slots, NEW m \in Names, NEW n \in Names,
             SameLabel(m, n, pend'[u][m], pend'[t][n])
      PROVE  m = n
  <2>1. CASE t = s /\ u = s
    BY <1>4, <2>1, NotLive DEF SameLabel
  <2>2. CASE t = s /\ u # s
    <3>1. n = here /\ pend'[s][n] = row /\ pend'[u] = pend[u]
      BY <1>4, <2>2, NotLive DEF SameLabel
    <3>2. QED
      BY <1>4, <2>2, <3>1
  <2>3. CASE t # s /\ u = s
    <3>1. m = here /\ pend'[s][m] = row /\ pend'[t] = pend[t]
      BY <1>4, <2>3, NotLive DEF SameLabel
    <3>2. SameLabel(n, here, pend[t][n], row)
      BY <1>4, <2>3, <3>1 DEF SameLabel
    <3>3. QED
      BY <2>3, <3>1, <3>2
  <2>4. CASE t # s /\ u # s
    <3>1. pend'[t] = pend[t] /\ pend'[u] = pend[u]
      BY <2>4
    <3>2. QED
      BY <1>4, <3>1 DEF LabelInv, LabelsClaimed
  <2>5. QED
    BY <2>1, <2>2, <2>3, <2>4
<1>5. QED
  BY <1>1, <1>2, <1>3, <1>4 DEF LabelsClaimed

\* The row a slot writes, the slot having written nothing before.
LEMMA OneRow ==
  ASSUME RowInv, NEW s \in Slots, NEW n \in Names, NEW row,
         pc[s] \in Unwriting, pend' = [pend EXCEPT ![s][n] = row]
  PROVE  /\ \A m \in Names : pend[s][m] = Unwritten
         /\ \A m \in Names : pend'[s][m] = IF m = n THEN row ELSE Unwritten
         /\ \A t \in Slots \ {s} : pend'[t] = pend[t]
<1>1. \A m \in Names : pend[s][m] = Unwritten
  BY DEF RowInv, RowsOwned, OwnedBy
<1>2. QED
  BY <1>1 DEF RowInv, TypeInv, TypeOK

LEMMA InsertLabel ==
  ASSUME LabelInv, NEW s \in Slots, Insert(s)
  PROVE  LabelsClaimed'
<1> DEFINE n == req[s].ns
           row == NewRow(req[s])
<1>1. /\ pc[s] \in Unwriting /\ ~Idle(s) /\ pend' = [pend EXCEPT ![s][n] = row]
      /\ UNCHANGED <<rows, req>>
      /\ ~LabelTaken(n, req[s].label) /\ LabelUnclaimed(s, n, req[s].label)
  BY DEF Insert, Write, At, Unwriting, Idle
<1>2. n \in Names
  BY <1>1, RequestType DEF LabelInv, RowInv
<1>3. row.label = req[s].label
  BY DEF NewRow
<1>4. \A m \in Names : ~SameLabel(m, n, rows[m], row)
  BY <1>1, <1>3 DEF LabelTaken, SameOwnerLabel, SameLabel
<1>5. \A t \in Slots \ {s}, m \in Names : ~SameLabel(m, n, pend[t][m], row)
  BY <1>1, <1>3 DEF LabelUnclaimed, SameOwnerLabel, SameLabel
<1>6. /\ \A m \in Names : pend[s][m] = Unwritten
      /\ \A m \in Names : pend'[s][m] = IF m = n THEN row ELSE Unwritten
      /\ \A t \in Slots \ {s} : pend'[t] = pend[t]
  BY <1>1, <1>2, OneRow DEF LabelInv
<1>7. QED
  BY <1>1, <1>2, <1>4, <1>5, <1>6, WriteLabel

LEMMA RenameLabel ==
  ASSUME LabelInv, NEW s \in Slots, Rename(s)
  PROVE  LabelsClaimed'
<1> DEFINE n == req[s].ns
           row == [rows[n] EXCEPT !.label = req[s].label]
<1>1. /\ pc[s] \in Unwriting /\ ~Idle(s) /\ pend' = [pend EXCEPT ![s][n] = row]
      /\ UNCHANGED <<rows, req>>
      /\ ~LabelTaken(n, req[s].label)
      /\ IsLive(rows[n]) => LabelUnclaimed(s, n, req[s].label)
  BY DEF Rename, Write, At, Unwriting, Idle
<1>2. n \in Names
  BY <1>1, RequestType DEF LabelInv, RowInv
<1>3. rows[n] \in Row /\ row \in Row
  BY RenameType DEF LabelInv, RowInv
<1>4. row.label = req[s].label /\ (IsLive(row) <=> IsLive(rows[n]))
  BY <1>3 DEF Row, IsLive
<1>5. \A m \in Names : ~SameLabel(m, n, rows[m], row)
  BY <1>1, <1>4 DEF LabelTaken, SameOwnerLabel, SameLabel
<1>6. \A t \in Slots \ {s}, m \in Names : ~SameLabel(m, n, pend[t][m], row)
  BY <1>1, <1>4 DEF LabelUnclaimed, SameOwnerLabel, SameLabel
<1>7. /\ \A m \in Names : pend[s][m] = Unwritten
      /\ \A m \in Names : pend'[s][m] = IF m = n THEN row ELSE Unwritten
      /\ \A t \in Slots \ {s} : pend'[t] = pend[t]
  BY <1>1, <1>2, OneRow DEF LabelInv
<1>8. QED
  BY <1>1, <1>2, <1>5, <1>6, <1>7, WriteLabel

LEMMA ResizeLabel ==
  ASSUME LabelInv, NEW s \in Slots, Resize(s)
  PROVE  LabelsClaimed'
<1> DEFINE n == req[s].ns
           row == ResizedRow(s, rows[n])
<1>1. /\ pc[s] \in Unwriting /\ ~Idle(s) /\ pend' = [pend EXCEPT ![s][n] = row]
      /\ UNCHANGED <<rows, req>>
  BY DEF Resize, At, Unwriting, Idle
<1>2. n \in Names
  BY <1>1, RequestType DEF LabelInv, RowInv
<1>3. /\ rows[n] \in Row /\ row \in Row
      /\ row.label = rows[n].label /\ (IsLive(row) <=> IsLive(rows[n]))
  BY ResizeType DEF LabelInv, RowInv, IsLive
<1>4. \A m \in Names : SameLabel(m, n, rows[m], row) => m = n
  BY <1>2, <1>3 DEF LabelInv, LabelsClaimed, LabelsUnique, SameLabel
<1>5. ASSUME NEW t \in Slots \ {s}, NEW m \in Names, SameLabel(m, n, pend[t][m], row)
      PROVE  m = n
  <2>1. SameLabel(n, m, rows[n], pend[t][m])
    BY <1>3, <1>5 DEF SameLabel
  <2>2. QED
    BY <1>2, <2>1 DEF LabelInv, LabelsClaimed
<1>6. /\ \A m \in Names : pend[s][m] = Unwritten
      /\ \A m \in Names : pend'[s][m] = IF m = n THEN row ELSE Unwritten
      /\ \A t \in Slots \ {s} : pend'[t] = pend[t]
  BY <1>1, <1>2, OneRow DEF LabelInv
<1>7. QED
  BY <1>1, <1>2, <1>4, <1>5, <1>6, WriteLabel

\* A deletion writes no live row.
LEMMA MarkLabel ==
  ASSUME LabelInv, NEW s \in Slots, MarkDeleted(s) \/ MarkAll(s)
  PROVE  LabelsClaimed'
<1>1. /\ \A n \in Names : ~IsLive(pend'[s][n])
      /\ \A t \in Slots \ {s} : pend'[t] = pend[t]
      /\ UNCHANGED <<rows, req>>
  <2>1. CASE MarkDeleted(s)
    <3> DEFINE row == [rows[req[s].ns] EXCEPT !.live = FALSE]
    <3>1. row \in Row /\ rows[req[s].ns] \in Row
      BY <2>1, MarkDeletedType DEF LabelInv, RowInv
    <3>2. ~IsLive(row)
      BY <3>1 DEF IsLive, Row
    <3>3. /\ pc[s] \in Unwriting /\ pend' = [pend EXCEPT ![s][req[s].ns] = row]
          /\ UNCHANGED <<rows, req>>
      BY <2>1 DEF MarkDeleted, At, Unwriting
    <3>4. req[s].ns \in Names
      BY <2>1, MarkDeletedType DEF LabelInv, RowInv
    <3>5. /\ \A m \in Names : pend'[s][m] = IF m = req[s].ns THEN row ELSE Unwritten
          /\ \A t \in Slots \ {s} : pend'[t] = pend[t]
      <4> HIDE DEF row
      <4>1. \A m \in Names : pend[s][m] = Unwritten
        BY <3>3 DEF LabelInv, RowInv, RowsOwned, OwnedBy
      <4>2. QED
        BY <3>3, <3>4, <4>1 DEF LabelInv, RowInv, TypeInv, TypeOK
    <3>6. QED
      BY <3>2, <3>3, <3>5, NotLive
  <2>2. CASE MarkAll(s)
    <3>1. ASSUME NEW n \in StillLive(s)
          PROVE  ~IsLive([rows[n] EXCEPT !.live = FALSE])
      <4>1. rows[n] \in Row
        BY <2>2, MarkAllType DEF LabelInv, RowInv
      <4>2. QED
        BY <4>1 DEF IsLive, Row
    <3>2. UNCHANGED <<rows, req>>
      BY <2>2 DEF MarkAll
    <3>3. RowInv
      BY DEF LabelInv
    <3>4. \A t \in Slots \ {s} : pend'[t] = pend[t]
      BY <2>2, <3>3, MarkAllRows
    <3>5. ASSUME NEW n \in Names PROVE ~IsLive(pend'[s][n])
      <4>1. CASE n \in StillLive(s)
        <5>1. pend'[s][n] = [rows[n] EXCEPT !.live = FALSE]
          BY <2>2, <3>3, <4>1, MarkAllRows
        <5>2. QED
          BY <3>1, <4>1, <5>1
      <4>2. CASE n \notin StillLive(s)
        BY <2>2, <3>3, <4>2, NotLive, MarkAllRows
      <4>3. QED
        BY <4>1, <4>2
    <3>6. QED
      BY <3>2, <3>4, <3>5
  <2>3. QED
    BY <2>1, <2>2
<1>2. LabelsUnique'
  BY <1>1 DEF LabelInv, LabelsClaimed, LabelsUnique
<1>3. ASSUME NEW t \in Slots, NEW n \in Names, IsLive(pend'[t][n])
      PROVE  t # s /\ pend'[t] = pend[t] /\ IsLive(pend[t][n])
  BY <1>1, <1>3
<1>4. \A t \in Slots, n \in Names : IsLive(pend'[t][n]) => n = req'[t].ns
  BY <1>1, <1>3 DEF LabelInv, LabelsClaimed
<1>5. \A t \in Slots, m, n \in Names : SameLabel(m, n, rows'[m], pend'[t][n]) => m = n
  BY <1>1, <1>3 DEF LabelInv, LabelsClaimed, SameLabel
<1>6. \A t, u \in Slots, m, n \in Names :
        SameLabel(m, n, pend'[u][m], pend'[t][n]) => m = n
  BY <1>3 DEF LabelInv, LabelsClaimed, SameLabel
<1>7. QED
  BY <1>2, <1>4, <1>5, <1>6 DEF LabelsClaimed

\* What a transaction commits was barred to the others since it was written.
LEMMA EndLabel ==
  ASSUME LabelInv, NEW s \in Slots, Finish(s), rows' = rows \/ rows' = View(s)
  PROVE  LabelsClaimed'
<1>1. \A n \in Names : rows'[n] = rows[n] \/ rows'[n] = pend[s][n]
  BY DEF View
<1>2. /\ \A n \in Names : ~IsLive(pend'[s][n])
      /\ \A t \in Slots \ {s} : pend'[t] = pend[t] /\ req'[t] = req[t]
  BY EndRows, NotLive DEF LabelInv, RowInv
<1>3. ASSUME NEW m \in Names, NEW n \in Names, SameLabel(m, n, rows'[m], rows'[n])
      PROVE  m = n
  <2>1. CASE rows'[m] = rows[m] /\ rows'[n] = rows[n]
    BY <1>3, <2>1 DEF LabelInv, LabelsClaimed, LabelsUnique, SameLabel
  <2>2. CASE rows'[m] = rows[m] /\ rows'[n] = pend[s][n]
    BY <1>3, <2>2 DEF LabelInv, LabelsClaimed
  <2>3. CASE rows'[m] = pend[s][m] /\ rows'[n] = rows[n]
    <3>1. SameLabel(n, m, rows[n], pend[s][m])
      BY <1>3, <2>3 DEF SameLabel
    <3>2. QED
      BY <3>1 DEF LabelInv, LabelsClaimed
  <2>4. CASE rows'[m] = pend[s][m] /\ rows'[n] = pend[s][n]
    BY <1>3, <2>4 DEF LabelInv, LabelsClaimed
  <2>5. QED
    BY <1>1, <2>1, <2>2, <2>3, <2>4
<1>4. LabelsUnique'
  BY <1>3 DEF LabelsUnique, SameLabel
<1>5. ASSUME NEW t \in Slots, NEW n \in Names, IsLive(pend'[t][n])
      PROVE  t # s /\ pend'[t] = pend[t] /\ req'[t] = req[t]
  BY <1>2, <1>5
<1>6. \A t \in Slots, n \in Names : IsLive(pend'[t][n]) => n = req'[t].ns
  BY <1>5 DEF LabelInv, LabelsClaimed
<1>7. ASSUME NEW t \in Slots, NEW m \in Names, NEW n \in Names,
             SameLabel(m, n, rows'[m], pend'[t][n])
      PROVE  m = n
  <2>1. pend'[t] = pend[t]
    BY <1>5, <1>7 DEF SameLabel
  <2>2. CASE rows'[m] = rows[m]
    BY <1>7, <2>1, <2>2 DEF LabelInv, LabelsClaimed
  <2>3. CASE rows'[m] = pend[s][m]
    BY <1>7, <2>1, <2>3 DEF LabelInv, LabelsClaimed
  <2>4. QED
    BY <1>1, <2>2, <2>3
<1>8. \A t, u \in Slots, m, n \in Names :
        SameLabel(m, n, pend'[u][m], pend'[t][n]) => m = n
  BY <1>5 DEF LabelInv, LabelsClaimed, SameLabel
<1>9. QED
  BY <1>4, <1>6, <1>7, <1>8 DEF LabelsClaimed

\* The tables stay as they are, and so do the requests that have written.
LEMMA StillLabel ==
  ASSUME LabelInv, UNCHANGED <<rows, pend>>,
         \A t \in Slots : ~Idle(t) => req'[t] = req[t]
  PROVE  LabelsClaimed'
<1>1. ASSUME NEW t \in Slots, NEW n \in Names, IsLive(pend[t][n])
      PROVE  n = req'[t].ns
  <2>1. ~Idle(t)
    BY <1>1, NotLive DEF LabelInv, RowInv, RowsOwned, OwnedBy, Idle, Unwriting
  <2>2. QED
    BY <1>1, <2>1 DEF LabelInv, LabelsClaimed
<1>2. QED
  BY <1>1 DEF LabelInv, LabelsClaimed, LabelsUnique

LEMMA CrashLabel ==
  ASSUME LabelInv, Crash
  PROVE  LabelsClaimed'
<1>1. \A s \in Slots, n \in Names : ~IsLive(pend'[s][n])
  BY NotLive DEF Crash, Nothing
<1>2. rows' = rows
  BY DEF Crash
<1>3. QED
  BY <1>1, <1>2 DEF LabelInv, LabelsClaimed, LabelsUnique, SameLabel

LEMMA LabelInit == Init => LabelInv
<1> SUFFICES ASSUME Init PROVE LabelsClaimed
  BY RowInit DEF LabelInv
<1>1. \A n \in Names : IsLive(rows[n]) => n \in DOMAIN LiveAtStart /\ rows[n] = LiveAtStart[n]
  BY NotLive DEF Init
<1>2. LabelsUnique
  BY <1>1, LifecycleAssumption DEF LabelsUnique
<1>3. \A s \in Slots, n \in Names : ~IsLive(pend[s][n])
  BY NotLive DEF Init, Nothing
<1>4. QED
  BY <1>2, <1>3 DEF LabelsClaimed, SameLabel

LEMMA LabelNext == LabelInv /\ [Next]_vars => LabelInv'
<1> SUFFICES ASSUME LabelInv, [Next]_vars PROVE LabelsClaimed'
  BY RowNext DEF LabelInv
<1>1. CASE UNCHANGED vars
  BY <1>1, StillLabel DEF vars, locals
<1>2. CASE Crash
  BY <1>2, CrashLabel
<1>3. ASSUME NEW s \in Slots, NEW r \in Requests, Begin(s, r) PROVE LabelsClaimed'
  <2>1. \A t \in Slots : ~Idle(t) => req'[t] = req[t]
    BY <1>3 DEF Begin, Idle, LabelInv, RowInv, TypeInv, TypeOK
  <2>2. QED
    BY <1>3, <2>1, StillLabel DEF Begin
<1>4. ASSUME NEW s \in Slots, Refusals(s) \/ Commit(s) PROVE LabelsClaimed'
  BY <1>4, RefusalsRollback, EndLabel DEF Rollback, Commit
<1>5. ASSUME NEW s \in Slots,
             \/ Lookup(s) \/ Find(s) \/ KubeCalls(s) \/ BillingCalls(s) \/ Deletions(s)
      PROVE  LabelsClaimed'
  <2>1. UNCHANGED <<rows, pend, req>>
    BY <1>5, CallShape DEF Lookup, Find, Called
  <2>2. QED
    BY <2>1, StillLabel
<1>6. ASSUME NEW s \in Slots,
             \/ Insert(s) \/ Rename(s) \/ Resize(s) \/ MarkDeleted(s) \/ MarkAll(s)
      PROVE  LabelsClaimed'
  BY <1>6, InsertLabel, RenameLabel, ResizeLabel, MarkLabel
<1>7. QED
  BY <1>1, <1>2, <1>3, <1>4, <1>5, <1>6, NextCases

(* Two live namespaces of one owner never have the same label, though a    *)
(* creation or a renaming looks for it before it writes, and other         *)
(* requests commit in between.                                             *)
THEOREM LabelsStayUnique == Spec => []LabelsUnique
<1>1. LabelInv => LabelsUnique
  BY DEF LabelInv, LabelsClaimed
<1>2. QED
  BY <1>1, LabelInit, LabelNext, PTL DEF Spec

-----------------------------------------------------------------------------
(* Deleted is torn down.                                                   *)

Deleted(row) == row \in Row /\ ~row.live

\* A deletion has emptied the services its earlier steps called.
DeletedByName(s, n) ==
  /\ req[s].op = "DeleteNamespace" /\ n = req[s].ns /\ found[s] = {n}
  /\ pc[s] \in {"resources", "nsVolumes", "unsubscribe", "kubeDelete", "commit"}
       => "solutions" \notin inside[n]
  /\ pc[s] \in {"nsVolumes", "unsubscribe", "kubeDelete", "commit"}
       => "resources" \notin inside[n]
  /\ pc[s] \in {"unsubscribe", "kubeDelete", "commit"}
       => "volumes" \notin inside[n] /\ "defaultVolumes" \notin inside[n]
  /\ pc[s] \in {"kubeDelete", "commit"} => sub[n] = Gone
  /\ pc[s] = "commit" => kube[n] = Gone

DeletedWithUser(s, n) ==
  /\ req[s].op = "DeleteAllUserNamespaces"
  /\ n \in found[s] /\ OwnerOf[n] = req[s].caller
  /\ pc[s] # "unsubscribe" => sub[n] = Gone
  /\ pc[s] \in {"userResources", "userKube", "userVolumes", "commit"}
       => "solutions" \notin inside[n]
  /\ pc[s] \in {"userKube", "userVolumes", "commit"} => "resources" \notin inside[n]
  /\ pc[s] \in {"userVolumes", "commit"} => kube[n] = Gone
  /\ pc[s] = "commit" => "volumes" \notin inside[n] /\ "defaultVolumes" \notin inside[n]

TornBy(s, n) ==
  Deleted(pend[s][n]) => Deleted(rows[n]) \/ DeletedByName(s, n) \/ DeletedWithUser(s, n)

\* Every row about to be committed as deleted is that of a deletion, or was
\* deleted before; and billing has nothing for imported namespaces.
TearingDown ==
  /\ DeletedIsTornDown
  /\ \A n \in Imported : sub[n] = Gone
  /\ \A s \in Slots, n \in Names : TornBy(s, n)

TearInv == RowInv /\ TearingDown

\* What has gone from the services stays away.
StaysGone(n) ==
  /\ kube[n] = Gone => kube'[n] = Gone
  /\ sub[n] = Gone => sub'[n] = Gone
  /\ inside'[n] \subseteq inside[n]

LEMMA DeletedRow ==
  ASSUME TypeInv, NEW n \in Names
  PROVE  Deleted(rows[n]) <=> rows[n] # Absent /\ ~IsLive(rows[n])
  BY LifecycleAssumption DEF TypeInv, TypeOK, Deleted, IsLive

LEMMA TornStays ==
  ASSUME NEW t \in Slots, NEW n \in Names, TornBy(t, n), StaysGone(n),
         pend'[t] = pend[t], pc'[t] = pc[t], req'[t] = req[t], found'[t] = found[t],
         Deleted(pend[t][n]) /\ Deleted(rows[n]) => Deleted(rows'[n])
  PROVE  TornBy(t, n)'
<1> SUFFICES ASSUME Deleted(pend'[t][n]), ~Deleted(rows'[n])
             PROVE  DeletedByName(t, n)' \/ DeletedWithUser(t, n)'
  BY DEF TornBy
<1>1. CASE DeletedByName(t, n)
  BY <1>1 DEF DeletedByName, StaysGone
<1>2. CASE DeletedWithUser(t, n)
  BY <1>2 DEF DeletedWithUser, StaysGone
<1>3. QED
  BY <1>1, <1>2 DEF TornBy

\* Only a creation brings something into a service, and only for its own row.
LEMMA CallsStay ==
  ASSUME RowInv, NEW s \in Slots, KubeCalls(s) \/ BillingCalls(s) \/ Deletions(s),
         NEW n \in Names
  PROVE  StaysGone(n) \/ Creates(s, n)
<1> DEFINE here == req[s].ns
<1>1. TypeOK /\ pc[s] \in Steps /\ req[s].op \in Ops /\ HasStep(req[s].op, pc[s])
  BY CallShape, RequestType DEF RowInv, TypeInv
<1>2. CASE KubeCreate(s) \/ Subscribe(s)
  <2>1. pc[s] \in {"kubeCreate", "subscribe"} /\ ~Idle(s)
    BY <1>2 DEF KubeCreate, Subscribe, At, Idle
  <2>2. req[s].op \in Creations
    BY <1>1, <2>1 DEF HasStep, Creations
  <2>3. CASE n = here
    BY <2>1, <2>2, <2>3 DEF Creates
  <2>4. CASE n # here
    BY <1>1, <1>2, <2>4 DEF KubeCreate, Subscribe, StaysGone, TypeOK
  <2>5. QED
    BY <2>3, <2>4
<1>3. CASE CheckUsage(s) \/ SetQuota(s) \/ KubeDelete(s) \/ DeleteUserNamespaces(s)
  BY <1>1, <1>3 DEF CheckUsage, SetQuota, KubeDelete, DeleteUserNamespaces,
     StaysGone, TypeOK, services
<1>4. CASE BillingRename(s) \/ UpdateSubscription(s) \/ MassiveUnsubscribe(s)
  <2>1. kube' = kube /\ inside' = inside
    BY <1>4 DEF BillingRename, UpdateSubscription, MassiveUnsubscribe
  <2>2. sub[n] = Gone => sub'[n] = Gone
    <3>1. CASE MassiveUnsubscribe(s)
      BY <3>1 DEF MassiveUnsubscribe
    <3>2. CASE BillingRename(s) \/ UpdateSubscription(s)
      <4>1. CASE sub[here] = Gone
        BY <3>2, <4>1 DEF BillingRename, UpdateSubscription
      <4>2. CASE sub[here] # Gone
        <5>1. \E new : sub' = [sub EXCEPT ![here] = new]
          BY <3>2, <4>2 DEF BillingRename, UpdateSubscription
        <5>2. QED
          BY <1>1, <4>2, <5>1 DEF TypeOK
      <4>3. QED
        BY <4>1, <4>2
    <3>3. QED
      BY <1>4, <3>1, <3>2
  <2>3. QED
    BY <2>1, <2>2 DEF StaysGone
<1>5. CASE Deletions(s)
  BY <1>5, DeletionsEmpty, DeletionsType DEF StaysGone, RowInv
<1>6. QED
  BY <1>2, <1>3, <1>4, <1>5 DEF KubeCalls, BillingCalls

\* The steps of the two deletions.
LEMMA DeletionOrder ==
  /\ AfterStep("DeleteNamespace", "mark") = "solutions"
  /\ AfterStep("DeleteNamespace", "solutions") = "resources"
  /\ AfterStep("DeleteNamespace", "resources") = "nsVolumes"
  /\ AfterStep("DeleteNamespace", "nsVolumes") = "unsubscribe"
  /\ AfterStep("DeleteNamespace", "unsubscribe") = "kubeDelete"
  /\ AfterStep("DeleteNamespace", "kubeDelete") = "commit"
  /\ AfterStep("DeleteAllUserNamespaces", "unsubscribe") = "userSolutions"
  /\ AfterStep("DeleteAllUserNamespaces", "userSolutions") = "userResources"
  /\ AfterStep("DeleteAllUserNamespaces", "userResources") = "userKube"
  /\ AfterStep("DeleteAllUserNamespaces", "userKube") = "userVolumes"
  /\ AfterStep("DeleteAllUserNamespaces", "userVolumes") = "commit"
<1>1. \A p : /\ AfterStep("DeleteNamespace", p) = AfterDeleteStep(p)
             /\ AfterStep("DeleteAllUserNamespaces", p) = AfterDeleteAllStep(p)
  BY DEF AfterStep
<1>2. /\ AfterDeleteStep("mark") = "solutions"
      /\ AfterDeleteStep("solutions") = "resources"
      /\ AfterDeleteStep("resources") = "nsVolumes"
      /\ AfterDeleteStep("nsVolumes") = "unsubscribe"
      /\ AfterDeleteStep("unsubscribe") = "kubeDelete"
      /\ AfterDeleteStep("kubeDelete") = "commit"
  BY DEF AfterDeleteStep
<1>3. /\ AfterDeleteAllStep("unsubscribe") = "userSolutions"
      /\ AfterDeleteAllStep("userSolutions") = "userResources"
      /\ AfterDeleteAllStep("userResources") = "userKube"
      /\ AfterDeleteAllStep("userKube") = "userVolumes"
      /\ AfterDeleteAllStep("userVolumes") = "commit"
  BY DEF AfterDeleteAllStep
<1>4. QED
  BY <1>1, <1>2, <1>3

\* What each call of a deletion removes.
LEMMA CallEffect ==
  ASSUME TypeInv, NEW s \in Slots, KubeCalls(s) \/ BillingCalls(s) \/ Deletions(s),
         NEW n \in Names
  PROVE  /\ pc[s] = "solutions" /\ n = req[s].ns => "solutions" \notin inside'[n]
         /\ pc[s] = "resources" /\ n = req[s].ns => "resources" \notin inside'[n]
         /\ pc[s] = "nsVolumes" /\ n = req[s].ns =>
              "volumes" \notin inside'[n] /\ "defaultVolumes" \notin inside'[n]
         /\ pc[s] = "unsubscribe" /\ n \in Billed(s) => sub'[n] = Gone
         /\ pc[s] = "kubeDelete" /\ n = req[s].ns => kube'[n] = Gone
         /\ pc[s] = "userSolutions" /\ n \in OfUser(s) => "solutions" \notin inside'[n]
         /\ pc[s] = "userResources" /\ n \in OfUser(s) => "resources" \notin inside'[n]
         /\ pc[s] = "userKube" /\ n \in OfUser(s) => kube'[n] = Gone
         /\ pc[s] = "userVolumes" /\ n \in OfUser(s) =>
              "volumes" \notin inside'[n] /\ "defaultVolumes" \notin inside'[n]
<1>1. CASE KubeCalls(s)
  BY <1>1 DEF KubeCalls, CheckUsage, KubeCreate, SetQuota, KubeDelete,
     DeleteUserNamespaces, At, TypeInv, TypeOK
<1>2. CASE BillingCalls(s)
  BY <1>2 DEF BillingCalls, Subscribe, BillingRename, UpdateSubscription,
     MassiveUnsubscribe, At, TypeInv, TypeOK
<1>3. CASE Deletions(s)
  BY <1>3 DEF Deletions, ResizeVolumes, DeleteNamespaceSolutions,
     DeleteNamespaceResources, DeleteNamespaceVolumes, DeleteUserSolutions,
     DeleteUserResources, DeleteAllUserVolumes, Empty, AllVolumes, At, TypeInv, TypeOK
<1>4. QED
  BY <1>1, <1>2, <1>3

LEMMA NameProgress ==
  ASSUME TearInv, NEW s \in Slots, KubeCalls(s) \/ BillingCalls(s) \/ Deletions(s),
         NEW n \in Names, DeletedByName(s, n)
  PROVE  DeletedByName(s, n)'
<1>1. TypeInv /\ RowInv
  BY DEF TearInv, RowInv
<1>2. Called(s) /\ ~Idle(s) /\ ~At(s, "commit") /\ req' = req /\ found' = found
  BY CallShape DEF At, Called
<1>3. req[s].op = "DeleteNamespace" /\ n = req[s].ns /\ found[s] = {n} /\ n \in Billed(s)
  BY DEF DeletedByName, Billed
<1>4. pc[s] \in {"solutions", "resources", "nsVolumes", "unsubscribe", "kubeDelete"}
  BY <1>1, <1>2, <1>3, RequestType, CallShape DEF HasStep
<1>5. pc'[s] = AfterStep("DeleteNamespace", pc[s])
  BY <1>1, <1>2, <1>3, AdvanceType DEF Called
<1>6. StaysGone(n)
  <2>1. ~Creates(s, n)
    BY <1>3 DEF Creates, Creations
  <2>2. QED
    BY <1>1, <2>1, CallsStay
<1>7. /\ pc[s] = "solutions" => "solutions" \notin inside'[n]
      /\ pc[s] = "resources" => "resources" \notin inside'[n]
      /\ pc[s] = "nsVolumes" => "volumes" \notin inside'[n] /\ "defaultVolumes" \notin inside'[n]
      /\ pc[s] = "unsubscribe" => sub'[n] = Gone
      /\ pc[s] = "kubeDelete" => kube'[n] = Gone
  BY <1>1, <1>3, CallEffect
<1>8. QED
  BY <1>2, <1>3, <1>4, <1>5, <1>6, <1>7, DeletionOrder DEF DeletedByName, StaysGone

LEMMA UserProgress ==
  ASSUME TearInv, NEW s \in Slots, KubeCalls(s) \/ BillingCalls(s) \/ Deletions(s),
         NEW n \in Names, DeletedWithUser(s, n)
  PROVE  DeletedWithUser(s, n)'
<1>1. TypeInv /\ RowInv
  BY DEF TearInv, RowInv
<1>2. Called(s) /\ ~Idle(s) /\ ~At(s, "commit") /\ req' = req /\ found' = found
  BY CallShape DEF At, Called
<1>3. /\ req[s].op = "DeleteAllUserNamespaces" /\ n \in OfUser(s)
      /\ n \in Billed(s) \/ n \in Imported
  BY DEF DeletedWithUser, OfUser, Billed
<1>4. pc[s] \in {"unsubscribe", "userSolutions", "userResources", "userKube", "userVolumes"}
  BY <1>1, <1>2, <1>3, RequestType, CallShape DEF HasStep
<1>5. pc'[s] = AfterStep("DeleteAllUserNamespaces", pc[s])
  BY <1>1, <1>2, <1>3, AdvanceType DEF Called
<1>6. StaysGone(n)
  <2>1. ~Creates(s, n)
    BY <1>3 DEF Creates, Creations
  <2>2. QED
    BY <1>1, <2>1, CallsStay
<1>7. /\ pc[s] = "userSolutions" => "solutions" \notin inside'[n]
      /\ pc[s] = "userResources" => "resources" \notin inside'[n]
      /\ pc[s] = "userKube" => kube'[n] = Gone
      /\ pc[s] = "userVolumes" => "volumes" \notin inside'[n] /\ "defaultVolumes" \notin inside'[n]
      /\ pc[s] = "unsubscribe" /\ n \in Billed(s) => sub'[n] = Gone
  BY <1>1, <1>3, CallEffect
<1>8. pc[s] = "unsubscribe" => sub'[n] = Gone
  BY <1>3, <1>6, <1>7 DEF TearInv, TearingDown, StaysGone
<1>9. QED
  BY <1>2, <1>3, <1>4, <1>5, <1>6, <1>7, <1>8, DeletionOrder
     DEF DeletedWithUser, StaysGone

LEMMA CallTorn ==
  ASSUME TearInv, NEW s \in Slots, KubeCalls(s) \/ BillingCalls(s) \/ Deletions(s)
  PROVE  TearingDown'
<1>1. TypeInv /\ RowInv
  BY DEF TearInv, RowInv
<1>2. /\ UNCHANGED <<rows, pend, req, found>> /\ ~Idle(s) /\ Called(s)
      /\ ~At(s, "commit")
  BY CallShape DEF Called, At
<1>3. \A t \in Slots \ {s} : pc'[t] = pc[t]
  BY <1>1, <1>2, AdvanceType DEF Called
<1>4. ASSUME NEW n \in Names, rows[n] # Absent \/ n \in Imported
      PROVE  StaysGone(n)
  <2>1. ~Creates(s, n)
    BY <1>1, <1>4 DEF RowInv, RowsOwned, OwnedBy
  <2>2. QED
    BY <1>1, <2>1, CallsStay
<1>5. DeletedIsTornDown'
  <2>1. ASSUME NEW n \in Names, rows[n] # Absent, ~IsLive(rows[n])
        PROVE  kube'[n] = Gone /\ sub'[n] = Gone /\ inside'[n] = {}
    BY <1>4, <2>1 DEF TearInv, TearingDown, DeletedIsTornDown, StaysGone
  <2>2. QED
    BY <1>2, <2>1 DEF DeletedIsTornDown
<1>6. \A n \in Imported : sub'[n] = Gone
  BY <1>4, LifecycleAssumption DEF TearInv, TearingDown, StaysGone
<1>7. ASSUME NEW t \in Slots, NEW n \in Names PROVE TornBy(t, n)'
  <2>1. TornBy(t, n)
    BY DEF TearInv, TearingDown
  <2>2. CASE t # s
    <3>1. CASE Deleted(pend[t][n])
      <4>1. pend[t][n] # Unwritten /\ OwnedBy(t, n) /\ OwnedBy(s, n)
        BY <1>1, <3>1, LifecycleAssumption DEF Deleted, RowInv, RowsOwned
      <4>2. ~Creates(s, n)
        BY <2>2, <4>1 DEF OwnedBy
      <4>3. StaysGone(n)
        BY <1>1, <4>2, CallsStay
      <4>4. QED
        BY <1>2, <1>3, <2>1, <2>2, <4>3, TornStays
    <3>2. CASE ~Deleted(pend[t][n])
      BY <1>2, <3>2 DEF TornBy
    <3>3. QED
      BY <3>1, <3>2
  <2>3. CASE t = s
    <3>1. CASE DeletedByName(s, n)
      BY <2>3, <3>1, NameProgress DEF TornBy
    <3>2. CASE DeletedWithUser(s, n)
      BY <2>3, <3>2, UserProgress DEF TornBy
    <3>3. CASE ~Deleted(pend[s][n]) \/ Deleted(rows[n])
      BY <1>2, <2>3, <3>3 DEF TornBy
    <3>4. QED
      BY <2>1, <2>3, <3>1, <3>2, <3>3 DEF TornBy
  <2>4. QED
    BY <2>2, <2>3
<1>8. QED
  BY <1>5, <1>6, <1>7 DEF TearingDown

\* Only slot s moves, the tables and the services stay as they are, and what s
\* has written is accounted for.
LEMMA StillTorn ==
  ASSUME TearInv, NEW s \in Slots, UNCHANGED <<rows, services>>,
         \A t \in Slots \ {s} : /\ pend'[t] = pend[t] /\ pc'[t] = pc[t]
                                /\ req'[t] = req[t] /\ found'[t] = found[t],
         \A n \in Names : TornBy(s, n)'
  PROVE  TearingDown'
<1>1. DeletedIsTornDown' /\ \A n \in Imported : sub'[n] = Gone
  BY DEF TearInv, TearingDown, DeletedIsTornDown, services
<1>2. ASSUME NEW t \in Slots \ {s}, NEW n \in Names PROVE TornBy(t, n)'
  <2>1. TornBy(t, n) /\ StaysGone(n)
    BY DEF TearInv, TearingDown, StaysGone, services
  <2>2. QED
    BY <1>2, <2>1, TornStays
<1>3. QED
  BY <1>1, <1>2 DEF TearingDown

\* A rename or a resize of a row that is deleted by then finds it torn down.
LEMMA WriteTorn ==
  ASSUME TearInv, NEW s \in Slots, Insert(s) \/ Rename(s) \/ Resize(s)
  PROVE  TearingDown'
<1> DEFINE here == req[s].ns
<1>1. TypeInv /\ RowInv
  BY DEF TearInv, RowInv
<1>2. PICK row : /\ pend' = [pend EXCEPT ![s][here] = row]
                 /\ Deleted(row) => Deleted(rows[here])
  <2>1. CASE Insert(s)
    <3>1. ~Deleted(NewRow(req[s]))
      BY DEF Deleted, NewRow
    <3>2. QED
      BY <2>1, <3>1 DEF Insert, Write
  <2>2. CASE Rename(s)
    <3> DEFINE new == [rows[here] EXCEPT !.label = req[s].label]
    <3>1. rows[here] \in Row
      BY <1>1, <2>2, RenameType
    <3>2. Deleted(new) => Deleted(rows[here])
      BY <3>1 DEF Deleted, Row
    <3>3. pend' = [pend EXCEPT ![s][here] = new]
      BY <2>2 DEF Rename, Write
    <3>4. QED
      BY <3>2, <3>3
  <2>3. CASE Resize(s)
    <3>1. Deleted(ResizedRow(s, rows[here])) => Deleted(rows[here])
      BY <1>1, <2>3, ResizeType DEF Deleted
    <3>2. QED
      BY <2>3, <3>1 DEF Resize
  <2>4. QED
    BY <2>1, <2>2, <2>3
<1>3. /\ pc[s] \in Unwriting /\ ~Idle(s) /\ ~At(s, "commit") /\ Advance(s)
      /\ UNCHANGED <<rows, services, req, found>>
  BY DEF Insert, Rename, Resize, Write, At, Unwriting, Idle
<1>4. \A t \in Slots \ {s} : pc'[t] = pc[t]
  BY <1>1, <1>3, AdvanceType
<1>5. \A n \in Names : pend[s][n] = Unwritten
  BY <1>1, <1>3 DEF RowInv, RowsOwned, OwnedBy
<1>6. /\ \A n \in Names : pend'[s][n] = IF n = here THEN row ELSE Unwritten
      /\ \A t \in Slots \ {s} : pend'[t] = pend[t]
  BY <1>1, <1>2, <1>5 DEF TypeInv, TypeOK
<1>7. \A n \in Names : TornBy(s, n)'
  BY <1>2, <1>3, <1>6, LifecycleAssumption DEF TornBy, Deleted
<1>8. QED
  BY <1>3, <1>4, <1>6, <1>7, StillTorn

LEMMA MarkTorn ==
  ASSUME TearInv, NEW s \in Slots, MarkDeleted(s) \/ MarkAll(s)
  PROVE  TearingDown'
<1>1. TypeInv /\ RowInv
  BY DEF TearInv, RowInv
<1>2. CASE MarkDeleted(s)
  <2> DEFINE here == req[s].ns
  <2>1. /\ pc[s] = "mark" /\ ~Idle(s) /\ ~At(s, "commit") /\ Advance(s)
        /\ UNCHANGED <<rows, services, req>>
        /\ found' = [found EXCEPT ![s] = {here}]
        /\ \E row : pend' = [pend EXCEPT ![s][here] = row]
    BY <1>2 DEF MarkDeleted, At, Idle
  <2>2. req[s].op = "DeleteNamespace"
    BY <1>1, <2>1, RequestType DEF HasStep
  <2>3. pc'[s] = "solutions" /\ \A t \in Slots \ {s} : pc'[t] = pc[t]
    BY <1>1, <2>1, <2>2, AdvanceType, DeletionOrder
  <2>4. \A n \in Names : pend[s][n] = Unwritten
    BY <1>1, <2>1 DEF RowInv, RowsOwned, OwnedBy, Unwriting
  <2>5. /\ \A n \in Names : n # here => pend'[s][n] = Unwritten
        /\ \A t \in Slots \ {s} : pend'[t] = pend[t] /\ found'[t] = found[t]
        /\ found'[s] = {here}
    BY <1>1, <2>1, <2>4 DEF TypeInv, TypeOK
  <2>6. \A n \in Names : TornBy(s, n)'
    BY <2>1, <2>2, <2>3, <2>5, LifecycleAssumption DEF TornBy, Deleted, DeletedByName
  <2>7. QED
    BY <2>1, <2>3, <2>5, <2>6, StillTorn
<1>3. CASE MarkAll(s)
  <2>1. UNCHANGED <<rows, services, req>> /\ found' = [found EXCEPT ![s] = StillLive(s)]
    BY <1>3 DEF MarkAll
  <2>2. found'[s] = StillLive(s)
    BY <1>1, <2>1 DEF TypeInv, TypeOK
  <2>3. ASSUME NEW n \in Names, Deleted(pend'[s][n])
        PROVE  DeletedWithUser(s, n)'
    <3>1. n \in StillLive(s)
      BY <1>1, <1>3, <2>3, MarkAllRows, LifecycleAssumption DEF Deleted
    <3>2. QED
      BY <1>1, <1>3, <2>1, <2>2, <3>1, MarkAllRows DEF DeletedWithUser
  <2>4. \A n \in Names : TornBy(s, n)'
    BY <2>3 DEF TornBy
  <2>5. QED
    BY <1>1, <1>3, <2>1, <2>4, MarkAllRows, StillTorn
<1>4. QED
  BY <1>2, <1>3

\* A slot that has written nothing goes on, or begins.
LEMMA QuietTorn ==
  ASSUME TearInv, NEW s \in Slots, UNCHANGED <<rows, services, pend>>, pc[s] \in Unwriting,
         \A t \in Slots \ {s} : /\ pc'[t] = pc[t] /\ req'[t] = req[t]
                                /\ found'[t] = found[t]
  PROVE  TearingDown'
<1>1. \A n \in Names : pend[s][n] = Unwritten
  BY DEF TearInv, RowInv, RowsOwned, OwnedBy
<1>2. \A n \in Names : TornBy(s, n)'
  BY <1>1, LifecycleAssumption DEF TornBy, Deleted
<1>3. QED
  BY <1>2, StillTorn

LEMMA ReadTorn ==
  ASSUME TearInv, NEW s \in Slots, Lookup(s) \/ Find(s)
  PROVE  TearingDown'
<1>1. TypeInv
  BY DEF TearInv, RowInv
<1>2. /\ UNCHANGED <<rows, services, pend, req>> /\ Advance(s)
      /\ pc[s] \in Unwriting /\ ~Idle(s) /\ ~At(s, "commit")
  BY DEF Lookup, Find, At, Unwriting, Idle
<1>3. \A t \in Slots \ {s} : pc'[t] = pc[t] /\ found'[t] = found[t]
  BY <1>1, <1>2, AdvanceType DEF Lookup, Find, TypeInv, TypeOK
<1>4. QED
  BY <1>2, <1>3, QuietTorn

LEMMA BeginTorn ==
  ASSUME TearInv, NEW s \in Slots, NEW r \in Requests, Begin(s, r)
  PROVE  TearingDown'
<1>1. /\ UNCHANGED <<rows, services, pend, found>> /\ pc[s] \in Unwriting
      /\ \A t \in Slots \ {s} : pc'[t] = pc[t] /\ req'[t] = req[t]
  BY DEF Begin, Idle, Unwriting, TearInv, RowInv, TypeInv, TypeOK
<1>2. QED
  BY <1>1, QuietTorn

\* A transaction that commits a deletion has emptied every service.
LEMMA CommitTorn ==
  ASSUME TearInv, NEW s \in Slots, Commit(s)
  PROVE  TearingDown'
<1>1. TypeInv /\ RowInv
  BY DEF TearInv, RowInv
<1>2. /\ pc[s] = "commit" /\ UNCHANGED services /\ Finish(s)
      /\ \A n \in Names : rows'[n] = IF pend[s][n] = Unwritten THEN rows[n] ELSE pend[s][n]
  BY DEF Commit, At, View
<1>3. ASSUME NEW n \in Names, Deleted(rows'[n])
      PROVE  kube[n] = Gone /\ sub[n] = Gone /\ inside[n] = {}
  <2>1. CASE Deleted(rows[n])
    BY <1>1, <2>1, DeletedRow DEF TearInv, TearingDown, DeletedIsTornDown
  <2>2. CASE ~Deleted(rows[n])
    <3>1. Deleted(pend[s][n]) /\ TornBy(s, n)
      BY <1>2, <1>3, <2>2 DEF TearInv, TearingDown
    <3>2. DeletedByName(s, n) \/ DeletedWithUser(s, n)
      BY <2>2, <3>1 DEF TornBy
    <3>3. /\ kube[n] = Gone /\ sub[n] = Gone
          /\ inside[n] \intersect Contents = {}
      BY <1>2, <3>2 DEF DeletedByName, DeletedWithUser, Contents
    <3>4. inside[n] \subseteq Contents
      BY <1>1 DEF TypeInv, TypeOK
    <3>5. QED
      BY <3>3, <3>4
  <2>3. QED
    BY <2>1, <2>2
<1>4. TypeInv'
  BY <1>1, <1>2, EndType DEF Commit
<1>5. DeletedIsTornDown'
  <2>1. ASSUME NEW n \in Names, rows'[n] # Absent, ~IsLive(rows'[n])
        PROVE  Deleted(rows'[n])
    BY <1>4, <2>1 DEF TypeInv, TypeOK, Deleted, IsLive
  <2>2. QED
    BY <1>2, <1>3, <2>1 DEF DeletedIsTornDown, services
<1>6. \A n \in Imported : sub'[n] = Gone
  BY <1>2 DEF TearInv, TearingDown, services
<1>7. ASSUME NEW t \in Slots, NEW n \in Names PROVE TornBy(t, n)'
  <2>1. CASE t = s
    BY <1>1, <1>2, <2>1, EndRows, LifecycleAssumption DEF TornBy, Deleted
  <2>2. CASE t # s
    <3>1. /\ pend'[t] = pend[t] /\ pc'[t] = pc[t] /\ req'[t] = req[t]
          /\ found'[t] = found[t]
      BY <1>1, <1>2, <2>2, EndRows
    <3>2. TornBy(t, n) /\ StaysGone(n)
      BY <1>2 DEF TearInv, TearingDown, StaysGone, services
    <3>3. ASSUME Deleted(pend[t][n]), Deleted(rows[n]) PROVE Deleted(rows'[n])
      <4>1. pend[t][n] # Unwritten /\ OwnedBy(t, n)
        BY <1>1, <3>3, LifecycleAssumption DEF Deleted, RowInv, RowsOwned
      <4>2. pend[s][n] = Unwritten
        BY <2>2, <4>1 DEF OwnedBy
      <4>3. QED
        BY <1>2, <3>3, <4>2
    <3>4. QED
      BY <3>1, <3>2, <3>3, TornStays
  <2>3. QED
    BY <2>1, <2>2
<1>8. QED
  BY <1>5, <1>6, <1>7 DEF TearingDown

\* A failure leaves what has been emptied empty, and the row as it was.
LEMMA RollbackTorn ==
  ASSUME TearInv, NEW s \in Slots, Rollback(s)
  PROVE  TearingDown'
<1>1. TypeInv
  BY DEF TearInv, RowInv
<1>2. UNCHANGED <<rows, services>> /\ Finish(s)
  BY DEF Rollback
<1>3. \A n \in Names : TornBy(s, n)'
  BY <1>1, <1>2, EndRows, LifecycleAssumption DEF TornBy, Deleted
<1>4. QED
  BY <1>1, <1>2, <1>3, EndRows, StillTorn

LEMMA CrashTorn ==
  ASSUME TearInv, Crash
  PROVE  TearingDown'
<1>1. UNCHANGED <<rows, services>> /\ \A t \in Slots, n \in Names : pend'[t][n] = Unwritten
  BY DEF Crash, Nothing
<1>2. \A t \in Slots, n \in Names : TornBy(t, n)'
  BY <1>1, LifecycleAssumption DEF TornBy, Deleted
<1>3. QED
  BY <1>1, <1>2 DEF TearInv, TearingDown, DeletedIsTornDown, services

LEMMA TearInit == Init => TearInv
<1> SUFFICES ASSUME Init PROVE TearingDown
  BY RowInit DEF TearInv
<1>1. DeletedIsTornDown
  BY LifecycleAssumption DEF Init, DeletedIsTornDown, IsLive
<1>2. \A n \in Imported : sub[n] = Gone
  BY LifecycleAssumption DEF Init
<1>3. \A s \in Slots, n \in Names : TornBy(s, n)
  BY LifecycleAssumption DEF Init, Nothing, TornBy, Deleted
<1>4. QED
  BY <1>1, <1>2, <1>3 DEF TearingDown

LEMMA TearNext == TearInv /\ [Next]_vars => TearInv'
<1> SUFFICES ASSUME TearInv, [Next]_vars PROVE TearingDown'
  BY RowNext DEF TearInv
<1>1. CASE UNCHANGED vars
  BY <1>1 DEF TearInv, TearingDown, DeletedIsTornDown, TornBy, DeletedByName,
     DeletedWithUser, vars, services, locals
<1>2. CASE Crash
  BY <1>2, CrashTorn
<1>3. ASSUME NEW s \in Slots, NEW r \in Requests, Begin(s, r) PROVE TearingDown'
  BY <1>3, BeginTorn
<1>4. ASSUME NEW s \in Slots, Refusals(s) \/ Commit(s) PROVE TearingDown'
  BY <1>4, RefusalsRollback, RollbackTorn, CommitTorn
<1>5. ASSUME NEW s \in Slots, Lookup(s) \/ Find(s) PROVE TearingDown'
  BY <1>5, ReadTorn
<1>6. ASSUME NEW s \in Slots, KubeCalls(s) \/ BillingCalls(s) \/ Deletions(s)
      PROVE  TearingDown'
  BY <1>6, CallTorn
<1>7. ASSUME NEW s \in Slots,
             Insert(s) \/ Rename(s) \/ Resize(s) \/ MarkDeleted(s) \/ MarkAll(s)
      PROVE  TearingDown'
  BY <1>7, WriteTorn, MarkTorn
<1>8. QED
  BY <1>1, <1>2, <1>3, <1>4, <1>5, <1>6, <1>7, NextCases

(* Whatever calls fail and wherever the process dies: once the deletion of *)
(* a namespace is committed, kube, billing and the other services hold     *)
(* nothing for it, and never do again.                                     *)
THEOREM DeletedStaysTornDown == Spec => []DeletedIsTornDown
<1>1. TearInv => DeletedIsTornDown
  BY DEF TearInv, TearingDown
<1>2. QED
  BY <1>1, TearInit, TearNext, PTL DEF Spec
=============================================================================
