----------------------- MODULE NamespaceFollowsProofs -----------------------
(***************************************************************************)
(* Kube and billing follow the table: what the transactions of             *)
(* NamespaceLifecycle have written, for every instance of it, and, when    *)
(* nothing fails, that kube holds the quotas and billing the labels and    *)
(* the tariffs of the rows.                                                *)
(***************************************************************************)
EXTENDS NamespaceLifecycleSafetyProofs

LEMMA OutsideRows == Unwritten \notin Row /\ Absent \notin Row
  BY LifecycleAssumption

\* Every step of a request.
Acts(s) ==
  \/ Refusals(s) \/ Commit(s) \/ Lookup(s) \/ Insert(s) \/ Rename(s)
  \/ Resize(s) \/ MarkDeleted(s) \/ Find(s) \/ MarkAll(s)
  \/ KubeCalls(s) \/ BillingCalls(s) \/ Deletions(s)
  \/ \E r \in Requests : Begin(s, r)

\* A step leaves the transaction and the variables of slot t as they are.
Still(t) ==
  /\ pend'[t] = pend[t] /\ pc'[t] = pc[t] /\ req'[t] = req[t]
  /\ ns'[t] = ns[t] /\ found'[t] = found[t]

\* A step of one slot leaves the others alone.
LEMMA OthersStill ==
  ASSUME TypeInv, NEW s \in Slots, Acts(s), NEW t \in Slots, t # s
  PROVE  Still(t)
<1> USE DEF TypeInv, TypeOK, Still, Advance
<1>1. CASE Refusals(s) \/ Commit(s)
  <2>1. Finish(s)
    BY <1>1, RefusalsRollback DEF Rollback, Commit
  <2>2. QED
    BY <2>1 DEF Finish
<1>2. CASE \/ Lookup(s) \/ Insert(s) \/ Rename(s) \/ Resize(s) \/ MarkDeleted(s)
           \/ Find(s) \/ MarkAll(s)
  BY <1>2 DEF Lookup, Insert, Rename, Resize, MarkDeleted, Find, MarkAll, Write
<1>3. CASE KubeCalls(s) \/ BillingCalls(s) \/ Deletions(s)
  BY <1>3, CallShape DEF Called
<1>4. CASE \E r \in Requests : Begin(s, r)
  BY <1>4 DEF Begin
<1>5. QED
  BY <1>1, <1>2, <1>3, <1>4 DEF Acts

\* The table changes when a transaction commits.
LEMMA RowsStep ==
  ASSUME NEW s \in Slots, Acts(s)
  PROVE  rows' = rows \/ (Commit(s) /\ rows' = View(s))
<1>1. CASE Refusals(s)
  BY <1>1, RefusalsRollback DEF Rollback
<1>2. CASE \/ Lookup(s) \/ Insert(s) \/ Rename(s) \/ Resize(s) \/ MarkDeleted(s)
           \/ Find(s) \/ MarkAll(s) \/ \E r \in Requests : Begin(s, r)
  BY <1>2 DEF Lookup, Insert, Rename, Resize, MarkDeleted, Find, MarkAll, Write, Begin
<1>3. CASE KubeCalls(s) \/ BillingCalls(s) \/ Deletions(s)
  BY <1>3, CallShape DEF Called
<1>4. CASE Commit(s)
  BY <1>4 DEF Commit
<1>5. QED
  BY <1>1, <1>2, <1>3, <1>4 DEF Acts

\* A row that one transaction has written is not changed by the steps of others.
LEMMA RowsHeld ==
  ASSUME RowInv, NEW s \in Slots, Acts(s), NEW t \in Slots, t # s,
         NEW n \in Names, pend[t][n] # Unwritten
  PROVE  rows'[n] = rows[n]
<1>1. pend[s][n] = Unwritten
  BY DEF RowInv, RowsOwned, OwnedBy
<1>2. QED
  BY <1>1, RowsStep DEF View

\* The steps of the handlers, one after the other.
LEMMA StepTable ==
  /\ AfterStep("CreateNamespace", "insert") = "kubeCreate"
  /\ AfterStep("CreateNamespace", "kubeCreate") = "subscribe"
  /\ AfterStep("CreateNamespace", "subscribe") = "commit"
  /\ AfterStep("AdminCreateNamespace", "insert") = "kubeCreate"
  /\ AfterStep("AdminCreateNamespace", "kubeCreate") = "commit"
  /\ AfterStep("ImportNamespaces", "insert") = "commit"
  /\ AfterStep("RenameNamespace", "rename") = "billingRename"
  /\ AfterStep("RenameNamespace", "billingRename") = "commit"
  /\ \A op \in {"ResizeNamespace", "AdminResizeNamespace"} :
       AfterStep(op, "resize") = "setQuota"
  /\ AfterStep("ResizeNamespace", "setQuota") = "volumes"
  /\ AfterStep("ResizeNamespace", "volumes") = "updateSubscription"
  /\ AfterStep("ResizeNamespace", "updateSubscription") = "commit"
  /\ AfterStep("AdminResizeNamespace", "setQuota") = "commit"
<1>1. \A p : /\ AfterStep("CreateNamespace", p) = AfterCreateStep("CreateNamespace", p)
             /\ AfterStep("AdminCreateNamespace", p)
                  = AfterCreateStep("AdminCreateNamespace", p)
             /\ AfterStep("ImportNamespaces", p) = AfterCreateStep("ImportNamespaces", p)
             /\ AfterStep("RenameNamespace", p) = AfterRenameStep(p)
             /\ AfterStep("ResizeNamespace", p) = AfterResizeStep("ResizeNamespace", p)
             /\ AfterStep("AdminResizeNamespace", p)
                  = AfterResizeStep("AdminResizeNamespace", p)
  BY DEF AfterStep
<1>2. /\ AfterCreateStep("CreateNamespace", "insert") = "kubeCreate"
      /\ AfterCreateStep("CreateNamespace", "kubeCreate") = "subscribe"
      /\ AfterCreateStep("CreateNamespace", "subscribe") = "commit"
      /\ AfterCreateStep("AdminCreateNamespace", "insert") = "kubeCreate"
      /\ AfterCreateStep("AdminCreateNamespace", "kubeCreate") = "commit"
      /\ AfterCreateStep("ImportNamespaces", "insert") = "commit"
  BY DEF AfterCreateStep
<1>3. AfterRenameStep("rename") = "billingRename" /\ AfterRenameStep("billingRename") = "commit"
  BY DEF AfterRenameStep
<1>4. /\ \A op : AfterResizeStep(op, "resize") = "setQuota"
      /\ AfterResizeStep("ResizeNamespace", "setQuota") = "volumes"
      /\ \A op : AfterResizeStep(op, "volumes") = "updateSubscription"
      /\ \A op : AfterResizeStep(op, "updateSubscription") = "commit"
      /\ AfterResizeStep("AdminResizeNamespace", "setQuota") = "commit"
  BY DEF AfterResizeStep
<1>5. QED
  BY <1>1, <1>2, <1>3, <1>4

-----------------------------------------------------------------------------
(* What a transaction has written, at each step of its request.            *)

Resizes   == {"ResizeNamespace", "AdminResizeNamespace"}
Removals  == {"DeleteNamespace", "DeleteAllUserNamespaces"}
Additions == Creations \union {"ImportNamespaces"}

\* The rows a request writes.
Writes(s) ==
  IF req[s].op = "DeleteAllUserNamespaces" THEN found[s] ELSE {req[s].ns}

\* The row a request has written, from the row in the table, which nobody
\* else can change in the meantime.
Planned(s, n) ==
  LET r == req[s]  row == pend[s][n]  old == rows[n] IN
  /\ r.op \in Additions => old = Absent /\ row = NewRow(r) /\ ns[s] = row
  /\ r.op = "RenameNamespace" => old \in Row /\ row = [old EXCEPT !.label = r.label]
  /\ r.op \in Resizes => old \in Row /\ row = ResizedRow(s, old)
  /\ r.op \in Removals => IsLive(old) /\ row = [old EXCEPT !.live = FALSE]
  /\ r.op = "DeleteAllUserNamespaces" => OwnerOf[n] = r.caller

Plan(s) ==
  /\ pc[s] \notin Unwriting =>
       \A n \in Names : pend[s][n] # Unwritten <=> n \in Writes(s)
  /\ pc[s] \notin Unwriting /\ req[s].op = "DeleteNamespace" => found[s] = {req[s].ns}
  /\ ~Idle(s) /\ ~At(s, "lookup") /\ req[s].op = "ResizeNamespace" =>
       ns[s].tariff = req[s].tariff
  /\ \A n \in Names : pend[s][n] # Unwritten => Planned(s, n)

PlanInv == RowInv /\ \A s \in Slots : Plan(s)

\* What other requests do leaves the plan of a request alone.
LEMMA PlanStays ==
  ASSUME RowInv, NEW s \in Slots, Acts(s), NEW t \in Slots, t # s, Plan(t)
  PROVE  Plan(t)'
<1>1. Still(t) /\ \A n \in Names : pend[t][n] # Unwritten => rows'[n] = rows[n]
  BY OthersStill, RowsHeld DEF RowInv
<1>2. ASSUME NEW n \in Names, pend'[t][n] # Unwritten PROVE Planned(t, n)'
  <2>1. Planned(t, n) /\ rows'[n] = rows[n]
    BY <1>1, <1>2 DEF Still, Plan
  <2>2. QED
    BY <1>1, <2>1 DEF Still, Planned, ResizedRow, IsLive
<1>3. QED
  BY <1>1, <1>2 DEF Still, Plan, Writes, Idle, At

\* A request that writes nothing, before or after the step.
LEMMA UnwritingPlan ==
  ASSUME RowInv', NEW s \in Slots, pc'[s] \in Unwriting,
         pc'[s] \notin {"idle", "lookup"} /\ req'[s].op = "ResizeNamespace" =>
           ns'[s].tariff = req'[s].tariff
  PROVE  Plan(s)'
<1>1. \A n \in Names : pend'[s][n] = Unwritten
  BY DEF RowInv, RowsOwned, OwnedBy
<1>2. QED
  BY <1>1 DEF Plan, Idle, At

\* A request writes the one row it is about.
LEMMA WritePlan ==
  ASSUME RowInv, NEW s \in Slots, Insert(s) \/ Rename(s) \/ Resize(s) \/ MarkDeleted(s)
  PROVE  /\ req[s].ns \in Names /\ req[s] \in Request /\ pc[s] \in Unwriting
         /\ req' = req /\ rows' = rows /\ services' = services
         /\ \A n \in Names : pend'[s][n] # Unwritten <=> n = req[s].ns
         /\ pc'[s] \in {"kubeCreate", "commit", "billingRename", "setQuota", "solutions"}
         /\ pc'[s] = "commit" => req[s].op = "ImportNamespaces"
         /\ Insert(s) => req[s].op \in Additions
         /\ Rename(s) => req[s].op = "RenameNamespace"
         /\ Resize(s) => req[s].op \in Resizes
         /\ MarkDeleted(s) => req[s].op = "DeleteNamespace"
<1> DEFINE here == req[s].ns
<1>1. /\ ~Idle(s) /\ ~At(s, "commit") /\ pc[s] \in Unwriting /\ Advance(s) /\ TypeInv
      /\ req' = req /\ rows' = rows /\ services' = services
  BY DEF RowInv, Insert, Rename, Resize, MarkDeleted, Write, At, Idle, Unwriting, services
<1>2. /\ here \in Names /\ req[s] \in Request /\ HasStep(req[s].op, pc[s])
      /\ pc'[s] = AfterStep(req[s].op, pc[s])
  BY <1>1, RequestType, AdvanceType
<1>3. PICK row \in Row : pend' = [pend EXCEPT ![s][here] = row]
  <2>1. CASE Insert(s)
    BY <1>1, <2>1, InsertType DEF Insert, Write
  <2>2. CASE Rename(s)
    BY <1>1, <2>2, RenameType DEF Rename, Write
  <2>3. CASE Resize(s)
    BY <1>1, <2>3, ResizeType DEF Resize
  <2>4. CASE MarkDeleted(s)
    BY <1>1, <2>4, MarkDeletedType DEF MarkDeleted
  <2>5. QED
    BY <2>1, <2>2, <2>3, <2>4
<1>4. \A n \in Names : pend'[s][n] # Unwritten <=> n = here
  <2>1. \A n \in Names : pend'[s][n] = IF n = here THEN row ELSE Unwritten
    <3>1. \A n \in Names : pend[s][n] = Unwritten
      BY <1>1 DEF RowInv, RowsOwned, OwnedBy
    <3>2. QED
      BY <1>1, <1>2, <1>3, <3>1 DEF TypeInv, TypeOK
  <2>2. QED
    BY <2>1, OutsideRows
<1>5. CASE Insert(s)
  <2>1. pc[s] = "insert"
    BY <1>5 DEF Insert, At
  <2>2. req[s].op \in Additions
    BY <1>2, <2>1 DEF HasStep, Additions, Creations
  <2>3. QED
    BY <1>1, <1>2, <1>4, <1>5, <2>1, <2>2, StepTable
       DEF Additions, Creations, Rename, Resize, MarkDeleted, At
<1>6. CASE Rename(s)
  <2>1. pc[s] = "rename"
    BY <1>6 DEF Rename, At
  <2>2. req[s].op = "RenameNamespace"
    BY <1>2, <2>1 DEF HasStep
  <2>3. QED
    BY <1>1, <1>2, <1>4, <1>6, <2>1, <2>2, StepTable DEF Insert, Resize, MarkDeleted, At
<1>7. CASE Resize(s)
  <2>1. pc[s] = "resize"
    BY <1>7 DEF Resize, At
  <2>2. req[s].op \in Resizes
    BY <1>2, <2>1 DEF HasStep, Resizes
  <2>3. QED
    BY <1>1, <1>2, <1>4, <1>7, <2>1, <2>2, StepTable
       DEF Resizes, Insert, Rename, MarkDeleted, At
<1>8. CASE MarkDeleted(s)
  <2>1. pc[s] = "mark"
    BY <1>8 DEF MarkDeleted, At
  <2>2. req[s].op = "DeleteNamespace"
    BY <1>2, <2>1 DEF HasStep
  <2>3. QED
    BY <1>1, <1>2, <1>4, <1>8, <2>1, <2>2, DeletionOrder DEF Insert, Rename, Resize, At
<1>9. QED
  BY <1>5, <1>6, <1>7, <1>8

LEMMA OwnWritePlan ==
  ASSUME PlanInv, NEW s \in Slots, Insert(s) \/ Rename(s) \/ Resize(s) \/ MarkDeleted(s)
  PROVE  Plan(s)'
<1> DEFINE here == req[s].ns
<1>1. RowInv /\ TypeInv /\ Plan(s)
  BY DEF PlanInv, RowInv
<1>2. /\ here \in Names /\ req[s] \in Request /\ req' = req /\ rows' = rows
      /\ \A n \in Names : pend'[s][n] # Unwritten <=> n = here
      /\ pc[s] \in Unwriting
      /\ Insert(s) => req[s].op \in Additions
      /\ Rename(s) => req[s].op = "RenameNamespace"
      /\ Resize(s) => req[s].op \in Resizes
      /\ MarkDeleted(s) => req[s].op = "DeleteNamespace"
  BY <1>1, WritePlan
<1>3. Writes(s)' = {here}
  BY <1>2 DEF Writes, Additions, Creations, Resizes
<1>4. Planned(s, here)'
  <2>1. CASE Insert(s)
    <3>1. rows[here] = Absent /\ pend'[s][here] = NewRow(req[s]) /\ ns'[s] = NewRow(req[s])
      BY <1>1, <1>2, <2>1 DEF Insert, Write, TypeInv, TypeOK
    <3>2. QED
      BY <1>2, <2>1, <3>1 DEF Planned, Additions, Creations, Resizes, Removals
  <2>2. CASE Rename(s)
    <3>1. /\ rows[here] \in Row
          /\ pend'[s][here] = [rows[here] EXCEPT !.label = req[s].label]
      <4>1. pend' = [pend EXCEPT ![s][here] = [rows[here] EXCEPT !.label = req[s].label]]
        BY <2>2 DEF Rename, Write
      <4>2. rows[here] \in Row
        BY <1>1, <2>2, RenameType
      <4>3. QED
        BY <1>1, <1>2, <4>1, <4>2 DEF TypeInv, TypeOK
    <3>2. QED
      BY <1>2, <2>2, <3>1 DEF Planned, Additions, Creations, Resizes, Removals
  <2>3. CASE Resize(s)
    <3>1. /\ rows[here] \in Row /\ ns' = ns
          /\ pend'[s][here] = ResizedRow(s, rows[here])
      BY <1>1, <1>2, <2>3, ResizeType DEF Resize, TypeInv, TypeOK
    <3>2. pend'[s][here] = ResizedRow(s, rows[here])'
      BY <1>2, <3>1 DEF ResizedRow
    <3>3. QED
      BY <1>2, <2>3, <3>1, <3>2 DEF Planned, Additions, Creations, Resizes, Removals
  <2>4. CASE MarkDeleted(s)
    <3>1. /\ IsLive(rows[here])
          /\ pend'[s][here] = [rows[here] EXCEPT !.live = FALSE]
      BY <1>1, <1>2, <2>4 DEF MarkDeleted, TypeInv, TypeOK
    <3>2. QED
      BY <1>2, <2>4, <3>1 DEF Planned, Additions, Creations, Resizes, Removals
  <2>5. QED
    BY <1>2, <2>1, <2>2, <2>3, <2>4
       DEF Insert, Rename, Resize, MarkDeleted
<1>5. req[s].op = "DeleteNamespace" => found'[s] = {here}
  <2>1. req[s].op = "DeleteNamespace" => MarkDeleted(s)
    BY <1>2 DEF Additions, Creations, Resizes
  <2>2. QED
    BY <1>1, <2>1 DEF MarkDeleted, TypeInv, TypeOK
<1>6. req[s].op = "ResizeNamespace" => ns'[s].tariff = req[s].tariff
  <2>1. req[s].op = "ResizeNamespace" => Resize(s)
    BY <1>2 DEF Additions, Creations
  <2>2. QED
    BY <1>1, <2>1 DEF Plan, Resize, At, Idle
<1>7. QED
  BY <1>2, <1>3, <1>4, <1>5, <1>6 DEF Plan

\* A request that deletes all of a user marks the rows it still finds.
LEMMA MarkAllPlan ==
  ASSUME PlanInv, NEW s \in Slots, MarkAll(s)
  PROVE  Plan(s)'
<1>1. RowInv /\ TypeInv
  BY DEF PlanInv, RowInv
<1>2. req' = req /\ rows' = rows /\ found'[s] = StillLive(s)
  BY <1>1 DEF MarkAll, TypeInv, TypeOK
<1>3. ASSUME NEW n \in Names
      PROVE  /\ pend'[s][n] # Unwritten <=> n \in StillLive(s)
             /\ n \in StillLive(s) =>
                  /\ IsLive(rows[n]) /\ pend'[s][n] = [rows[n] EXCEPT !.live = FALSE]
                  /\ OwnerOf[n] = req[s].caller
  <2>1. /\ pend'[s][n] = IF n \in StillLive(s) THEN [rows[n] EXCEPT !.live = FALSE]
                          ELSE Unwritten
        /\ n \in StillLive(s) => OwnerOf[n] = req[s].caller
    BY <1>1, MarkAllRows
  <2>2. n \in StillLive(s) => IsLive(rows[n]) /\ [rows[n] EXCEPT !.live = FALSE] \in Row
    BY <1>1, MarkAllType DEF StillLive
  <2>3. QED
    BY <2>1, <2>2, OutsideRows
<1>4. req[s].op = "DeleteAllUserNamespaces"
  BY <1>1, MarkAllRows
<1>5. QED
  BY <1>2, <1>3, <1>4
     DEF Plan, Planned, Writes, Additions, Creations, Resizes, Removals

\* A call changes nothing of what the transaction has written.
LEMMA CallPlan ==
  ASSUME PlanInv, NEW s \in Slots, KubeCalls(s) \/ BillingCalls(s) \/ Deletions(s)
  PROVE  Plan(s)'
<1>1. RowInv /\ TypeInv /\ Plan(s)
  BY DEF PlanInv, RowInv
<1>2. /\ Advance(s) /\ UNCHANGED <<rows, pend, req, ns, found>> /\ ~Idle(s)
      /\ ~At(s, "commit") /\ ~At(s, "lookup")
  BY CallShape DEF Called, At
<1>3. pc'[s] = AfterStep(req[s].op, pc[s]) /\ HasStep(req[s].op, pc[s]) /\ req[s].op \in Ops
      /\ pc[s] \in Steps
  BY <1>1, <1>2, AdvanceType, RequestType
<1>4. pc'[s] \notin Unwriting => pc[s] \notin Unwriting
  <2>1. CASE pc[s] = "usage"
    <3>1. req[s].op \in Resizes
      BY <1>3, <2>1 DEF HasStep, Resizes
    <3>2. pc'[s] = AfterResizeStep(req[s].op, "usage")
      BY <1>3, <2>1, <3>1 DEF AfterStep, Resizes
    <3>3. pc'[s] = "resize"
      BY <3>2 DEF AfterResizeStep
    <3>4. QED
      BY <3>3 DEF Unwriting
  <2>2. CASE pc[s] # "usage"
    BY <2>2, CallShape DEF Unwriting
  <2>3. QED
    BY <2>1, <2>2
<1>5. ASSUME NEW n \in Names, pend'[s][n] # Unwritten PROVE Planned(s, n)'
  <2>1. Planned(s, n)
    BY <1>1, <1>2, <1>5 DEF Plan
  <2>2. QED
    BY <1>2, <2>1 DEF Planned, ResizedRow, IsLive
<1>6. QED
  BY <1>1, <1>2, <1>4, <1>5 DEF Plan, Writes, Idle, At

\* Where a request goes that has found its namespace.
LEMMA LookupStep ==
  ASSUME TypeInv, NEW s \in Slots, Lookup(s)
  PROVE  /\ pc[s] = "lookup" /\ req' = req
         /\ \/ req[s].op = "RenameNamespace" /\ pc'[s] = "rename"
            \/ req[s].op \in Resizes /\ pc'[s] = "usage"
            \/ req[s].op = "DeleteNamespace" /\ pc'[s] = "mark"
<1>1. At(s, "lookup") /\ ~Idle(s) /\ ~At(s, "commit") /\ Advance(s) /\ req' = req
  BY DEF Lookup, At, Idle
<1>2. pc'[s] = AfterStep(req[s].op, "lookup") /\ HasStep(req[s].op, "lookup")
  BY <1>1, AdvanceType, RequestType DEF At
<1>3. CASE req[s].op = "RenameNamespace"
  BY <1>1, <1>2, <1>3 DEF AfterStep, AfterRenameStep, At
<1>4. CASE req[s].op \in Resizes
  BY <1>1, <1>2, <1>4 DEF AfterStep, AfterResizeStep, Resizes, At
<1>5. CASE req[s].op = "DeleteNamespace"
  BY <1>1, <1>2, <1>5 DEF AfterStep, AfterDeleteStep, At
<1>6. QED
  BY <1>2, <1>3, <1>4, <1>5 DEF HasStep, Resizes

LEMMA LookupPlan ==
  ASSUME PlanInv, RowInv', NEW s \in Slots, Lookup(s)
  PROVE  Plan(s)'
<1>1. RowInv /\ TypeInv
  BY DEF PlanInv, RowInv
<1>2. req' = req /\ pc'[s] \in {"rename", "usage", "mark"}
  BY <1>1, LookupStep
<1>3. req[s].op = "ResizeNamespace" => ns'[s].tariff = req[s].tariff
  <2>1. ASSUME req[s].op = "ResizeNamespace"
        PROVE  ns'[s] = [rows[req[s].ns] EXCEPT !.tariff = req[s].tariff,
                                                !.quota.size = PlanOf[req[s].tariff].size]
    BY <1>1, <2>1 DEF Lookup, Resized, TypeInv, TypeOK
  <2>2. rows[req[s].ns] \in Row
    BY DEF Lookup, IsLive
  <2>3. QED
    BY <2>1, <2>2 DEF Row
<1>4. QED
  BY <1>2, <1>3, UnwritingPlan DEF Unwriting

\* What a transaction writes is to plan at each step of its request.
LEMMA OwnPlan ==
  ASSUME PlanInv, RowInv', NEW s \in Slots, Acts(s)
  PROVE  Plan(s)'
<1>1. RowInv /\ TypeInv
  BY DEF PlanInv, RowInv
<1>2. CASE Refusals(s) \/ Commit(s)
  <2>1. pc'[s] = "idle"
    BY <1>1, <1>2, RefusalsRollback, EndRows DEF Rollback, Commit
  <2>2. QED
    BY <2>1, UnwritingPlan DEF Unwriting
<1>3. CASE Find(s)
  <2>1. pc'[s] = "markAll" /\ req' = req
    BY <1>1, <1>3, FindType DEF At, Find
  <2>2. req[s].op # "ResizeNamespace"
    <3>1. HasStep(req[s].op, "find")
      BY <1>1, <1>3, RequestType DEF Find, At, Idle
    <3>2. QED
      BY <3>1 DEF HasStep
  <2>3. QED
    BY <2>1, <2>2, UnwritingPlan DEF Unwriting
<1>4. CASE \E r \in Requests : Begin(s, r)
  <2>1. PICK r \in Requests : Begin(s, r)
    BY <1>4
  <2>2. r.op \in Ops
    BY LifecycleAssumption DEF Request
  <2>3. pc'[s] = FirstStep(r.op) /\ req'[s] = r
    BY <1>1, <2>1 DEF Begin, TypeInv, TypeOK
  <2>4. FirstStep(r.op) \in {"insert", "find", "lookup"}
    BY <2>2, FirstStepOf
  <2>5. r.op = "ResizeNamespace" => FirstStep(r.op) = "lookup"
    BY DEF FirstStep
  <2>6. QED
    BY <2>3, <2>4, <2>5, UnwritingPlan DEF Unwriting
<1>5. QED
  BY <1>2, <1>3, <1>4, LookupPlan, OwnWritePlan, MarkAllPlan, CallPlan DEF Acts

LEMMA PlanInit == Init => PlanInv
<1> SUFFICES ASSUME Init PROVE \A s \in Slots : Plan(s)
  BY RowInit DEF PlanInv
<1>1. pend = [s \in Slots |-> Nothing] /\ pc = [s \in Slots |-> "idle"]
  BY DEF Init
<1>2. ASSUME NEW s \in Slots PROVE Plan(s)
  <2>1. pc[s] = "idle" /\ \A n \in Names : pend[s][n] = Unwritten
    BY <1>1 DEF Nothing
  <2>2. QED
    BY <2>1 DEF Plan, Idle, Unwriting
<1>3. QED
  BY <1>2

\* PlanInv is inductive.
LEMMA PlanNext == PlanInv /\ [Next]_vars => PlanInv'
<1> SUFFICES ASSUME PlanInv, [Next]_vars PROVE PlanInv'
  OBVIOUS
<1>1. RowInv /\ RowInv'
  BY RowNext DEF PlanInv
<1>2. CASE UNCHANGED vars
  <2>1. UNCHANGED <<rows, pend, pc, req, ns, found>>
    BY <1>2 DEF vars, locals
  <2>2. ASSUME NEW s \in Slots PROVE Plan(s)'
    <3>1. Plan(s)
      BY DEF PlanInv
    <3>2. \A n \in Names : Planned(s, n) => Planned(s, n)'
      BY <2>1 DEF Planned, ResizedRow, IsLive
    <3>3. QED
      BY <2>1, <3>1, <3>2 DEF Plan, Writes, Idle, At
  <2>3. QED
    BY <1>1, <2>2 DEF PlanInv
<1>3. CASE Crash
  <2>1. \A s \in Slots : pc'[s] = "idle"
    BY <1>3 DEF Crash
  <2>2. QED
    BY <1>1, <2>1, UnwritingPlan DEF PlanInv, Unwriting
<1>4. ASSUME NEW s \in Slots, Acts(s) PROVE PlanInv'
  BY <1>1, <1>4, PlanStays, OwnPlan DEF PlanInv
<1>5. QED
  BY <1>2, <1>3, <1>4, NextCases DEF Acts


-----------------------------------------------------------------------------
(* What a service has been told.                                           *)

\* A transaction that has written row n is at one of the given steps: those
\* that come after the call which tells a service of the row.
Reached(steps, s, n) == pend[s][n] # Unwritten /\ pc[s] \in steps

\* The row n a service was told last: the one about to be committed when its
\* transaction has come that far, else the one in the table.
Told(steps, n) ==
  {pend[s][n] : s \in {t \in Slots : Reached(steps, t, n)}}
    \union {row \in {rows[n]} : \A s \in Slots : ~Reached(steps, s, n)}

\* The steps after the one that tells kube of a row, and billing.
QuotaSent == {"subscribe", "volumes", "updateSubscription", "userVolumes", "commit"}
BillSent  == {"kubeDelete", "userSolutions", "userResources", "userKube",
              "userVolumes", "commit"}

\* The step each call leads to, and the requests that make it.
LEMMA CallFlow ==
  ASSUME TypeInv, NEW s \in Slots, KubeCalls(s) \/ BillingCalls(s) \/ Deletions(s)
  PROVE  LET op == req[s].op  p == pc[s]  q == pc'[s] IN
         /\ p = "usage" => q = "resize" /\ op \in Resizes
         /\ p = "kubeCreate" =>
              \/ op = "CreateNamespace" /\ q = "subscribe"
              \/ op = "AdminCreateNamespace" /\ q = "commit"
         /\ p = "subscribe" => q = "commit" /\ op = "CreateNamespace"
         /\ p = "billingRename" => q = "commit" /\ op = "RenameNamespace"
         /\ p = "setQuota" =>
              \/ op = "ResizeNamespace" /\ q = "volumes"
              \/ op = "AdminResizeNamespace" /\ q = "commit"
         /\ p = "volumes" => q = "updateSubscription" /\ op = "ResizeNamespace"
         /\ p = "updateSubscription" => q = "commit" /\ op = "ResizeNamespace"
         /\ p = "solutions" => q = "resources" /\ op = "DeleteNamespace"
         /\ p = "resources" => q = "nsVolumes" /\ op = "DeleteNamespace"
         /\ p = "nsVolumes" => q = "unsubscribe" /\ op = "DeleteNamespace"
         /\ p = "unsubscribe" =>
              \/ op = "DeleteNamespace" /\ q = "kubeDelete"
              \/ op = "DeleteAllUserNamespaces" /\ q = "userSolutions"
         /\ p = "kubeDelete" => q = "commit" /\ op = "DeleteNamespace"
         /\ p = "userSolutions" => q = "userResources" /\ op = "DeleteAllUserNamespaces"
         /\ p = "userResources" => q = "userKube" /\ op = "DeleteAllUserNamespaces"
         /\ p = "userKube" => q = "userVolumes" /\ op = "DeleteAllUserNamespaces"
         /\ p = "userVolumes" => q = "commit" /\ op = "DeleteAllUserNamespaces"
<1> DEFINE op == req[s].op  p == pc[s]
<1>1. ~Idle(s) /\ ~At(s, "commit") /\ Advance(s)
  BY CallShape DEF Called, At
<1>2. pc'[s] = AfterStep(op, p) /\ HasStep(op, p)
  BY <1>1, AdvanceType, RequestType
<1>3. \A o \in Resizes : AfterStep(o, "usage") = "resize"
  BY DEF AfterStep, AfterResizeStep, Resizes
<1>4. CASE op \in {"CreateNamespace", "AdminCreateNamespace", "ImportNamespaces",
                   "RenameNamespace"}
  BY <1>2, <1>4, StepTable DEF HasStep
<1>5. CASE op \in Resizes
  BY <1>2, <1>3, <1>5, StepTable DEF HasStep, Resizes
<1>6. CASE op \in Removals
  BY <1>2, <1>6, DeletionOrder DEF HasStep, Removals
<1>7. op \in Ops
  BY <1>1, RequestType DEF RowInv
<1>8. QED
  BY <1>4, <1>5, <1>6, <1>7 DEF Ops, Resizes, Removals

\* A call leads past the call that tells a service of the row, never back.
LEMMA CallsReach ==
  ASSUME TypeInv, NEW s \in Slots, KubeCalls(s) \/ BillingCalls(s) \/ Deletions(s)
  PROVE  /\ pc[s] \in QuotaSent => pc'[s] \in QuotaSent
         /\ pc[s] \in BillSent => pc'[s] \in BillSent
BY CallFlow, CallShape DEF QuotaSent, BillSent

\* A transaction that has got there holds the row alone.
LEMMA ToldAlone ==
  ASSUME RowInv, NEW steps, NEW s \in Slots, NEW n \in Names, Reached(steps, s, n),
         NEW row \in Told(steps, n)
  PROVE  row = pend[s][n]
BY DEF RowInv, RowsOwned, OwnedBy, Told, Reached

\* A row nobody has told the service about is the one in the table.
LEMMA ToldTable ==
  ASSUME RowInv, NEW steps, NEW s \in Slots, NEW n \in Names,
         pend[s][n] # Unwritten, pc[s] \notin steps
  PROVE  rows[n] \in Told(steps, n)
BY DEF RowInv, RowsOwned, OwnedBy, Told, Reached

\* A row that was told, after a step: it was told before, or its transaction
\* made the call, or failed and left what it had told.
LEMMA ToldStep ==
  ASSUME RowInv, RowInv', NEW steps \in {QuotaSent, BillSent}, NEW n \in Names,
         NEW s \in Slots, Acts(s), NEW row \in Told(steps, n)'
  PROVE  \/ row \in Told(steps, n)
         \/ /\ KubeCalls(s) \/ BillingCalls(s) \/ Deletions(s)
            /\ pend[s][n] # Unwritten /\ pc[s] \notin steps /\ pc'[s] \in steps
            /\ row = pend[s][n] /\ rows[n] \in Told(steps, n)
         \/ n \in Imported /\ n = req[s].ns /\ req[s].op = "ImportNamespaces"
         \/ Refusals(s) /\ Reached(steps, s, n) /\ row = rows[n]
<1>1. TypeInv /\ RowsOwned /\ RowsOwned'
  BY DEF RowInv
<1>2. /\ "commit" \in steps /\ steps \cap Unwriting = {}
      /\ steps \cap {"kubeCreate", "billingRename", "setQuota", "solutions",
                     "unsubscribe"} = {}
  BY DEF QuotaSent, BillSent, Unwriting
<1>3. \A t \in Slots \ {s} :
        /\ Reached(steps, t, n)' <=> Reached(steps, t, n)
        /\ pend'[t][n] = pend[t][n]
  BY <1>1, OthersStill DEF Reached, Still
<1>4. ASSUME rows'[n] = rows[n], Reached(steps, s, n)' <=> Reached(steps, s, n),
             Reached(steps, s, n) => pend'[s][n] = pend[s][n]
      PROVE  row \in Told(steps, n)
  BY <1>3, <1>4 DEF Told
<1>5. CASE Refusals(s)
  <2>1. Rollback(s)
    BY <1>5, RefusalsRollback
  <2>2. rows' = rows /\ ~Reached(steps, s, n)'
    BY <1>1, <2>1, EndRows DEF Rollback, Reached
  <2>3. CASE Reached(steps, s, n)
    <3>1. \A t \in Slots : ~Reached(steps, t, n)'
      BY <1>1, <1>3, <2>2, <2>3 DEF RowsOwned, OwnedBy, Reached
    <3>2. row = rows[n]
      BY <2>2, <3>1 DEF Told
    <3>3. QED
      BY <1>5, <2>3, <3>2
  <2>4. QED
    BY <1>4, <2>2, <2>3
<1>6. CASE Commit(s)
  <2>1. /\ pc[s] \in steps /\ ~Reached(steps, s, n)'
        /\ rows'[n] = IF pend[s][n] = Unwritten THEN rows[n] ELSE pend[s][n]
    BY <1>1, <1>2, <1>6, EndRows DEF Commit, At, View, Reached
  <2>2. CASE pend[s][n] = Unwritten
    BY <1>4, <2>1, <2>2 DEF Reached
  <2>3. CASE pend[s][n] # Unwritten
    <3>1. \A t \in Slots : ~Reached(steps, t, n)'
      BY <1>1, <1>3, <2>1, <2>3 DEF RowsOwned, OwnedBy, Reached
    <3>2. row = pend[s][n] /\ Reached(steps, s, n)
      BY <2>1, <2>3, <3>1 DEF Told, Reached
    <3>3. QED
      BY <3>2 DEF Told
  <2>4. QED
    BY <2>2, <2>3
<1>7. CASE Lookup(s) \/ Find(s) \/ \E r \in Requests : Begin(s, r)
  <2>1. /\ rows' = rows /\ pend' = pend /\ pc[s] \in Unwriting
    BY <1>7 DEF Lookup, Find, Begin, At, Idle, Unwriting
  <2>2. pend[s][n] = Unwritten
    BY <1>1, <2>1 DEF RowsOwned, OwnedBy
  <2>3. QED
    BY <1>4, <2>1, <2>2 DEF Reached
<1>8. CASE Insert(s) \/ Rename(s) \/ Resize(s) \/ MarkDeleted(s)
  <2>1. /\ rows' = rows /\ pc[s] \in Unwriting
        /\ pend'[s][n] # Unwritten <=> n = req[s].ns
        /\ pc'[s] \in {"kubeCreate", "commit", "billingRename", "setQuota", "solutions"}
        /\ pc'[s] = "commit" => req[s].op = "ImportNamespaces"
    BY <1>8, WritePlan
  <2>2. ~Reached(steps, s, n)
    BY <1>2, <2>1 DEF Reached
  <2>3. CASE Reached(steps, s, n)'
    <3>1. pc'[s] = "commit" /\ n = req[s].ns
      BY <1>2, <2>1, <2>3 DEF Reached
    <3>2. Imports(s, n)
      <4>1. ~Idle(s)
        BY <1>8 DEF Insert, Rename, Resize, MarkDeleted, At, Idle
      <4>2. QED
        BY <2>1, <3>1, <4>1 DEF Imports
    <3>3. QED
      BY <1>1, <2>1, <3>1, <3>2 DEF RowsOwned, OwnedBy
  <2>4. QED
    BY <1>4, <2>1, <2>2, <2>3
<1>9. CASE MarkAll(s)
  <2>1. rows' = rows /\ pc[s] \in Unwriting /\ pc'[s] = "unsubscribe"
    BY <1>9, MarkAllRows DEF MarkAll, At, Unwriting
  <2>2. QED
    BY <1>2, <1>4, <2>1 DEF Reached
<1>10. CASE KubeCalls(s) \/ BillingCalls(s) \/ Deletions(s)
  <2>1. rows' = rows /\ pend' = pend
    BY <1>10, CallShape DEF Called
  <2>2. pc[s] \in steps => pc'[s] \in steps
    BY <1>1, <1>10, CallsReach
  <2>3. CASE Reached(steps, s, n)' /\ ~Reached(steps, s, n)
    <3>1. pend[s][n] # Unwritten /\ pc[s] \notin steps /\ pc'[s] \in steps
      BY <2>1, <2>3 DEF Reached
    <3>2. row = pend[s][n]
      <4>1. \A t \in Slots \ {s} : ~Reached(steps, t, n)'
        BY <1>1, <2>1, <3>1 DEF RowsOwned, OwnedBy, Reached
      <4>2. QED
        BY <2>1, <2>3, <4>1 DEF Told
    <3>3. rows[n] \in Told(steps, n)
      BY <3>1, ToldTable
    <3>4. QED
      BY <1>10, <3>1, <3>2, <3>3
  <2>4. QED
    BY <1>4, <2>1, <2>2, <2>3 DEF Reached
<1>11. QED
  BY <1>5, <1>6, <1>7, <1>8, <1>9, <1>10 DEF Acts

\* What was told changes with the table and the transactions.
LEMMA ToldStays ==
  ASSUME UNCHANGED <<rows, pend, pc>>, NEW steps, NEW n
  PROVE  Told(steps, n)' = Told(steps, n)
BY DEF Told, Reached

-----------------------------------------------------------------------------
(* Kube follows.                                                           *)

QuotaOf(row) == IF IsLive(row) THEN row.quota ELSE Gone

\* Kube holds the quota of the row it was told last.
KubeTold(n) == \A row \in Told(QuotaSent, n) : kube[n] = QuotaOf(row)

\* Billing has a subscription for the row it was told last.
SubKept(n) == \A row \in Told(BillSent, n) : IsLive(row) => sub[n] # Gone

\* A namespace that some request resizes by tariff.
ByTariff(n) == \E r \in Requests : r.op = "ResizeNamespace" /\ r.ns = n

\* A request to delete all of a user knows, or has marked, every live
\* namespace of the user until kube has deleted them.
Swept(s) ==
  \A n \in Names \ Imported :
    /\ ~Idle(s) /\ req[s].op = "DeleteAllUserNamespaces" /\ OwnerOf[n] = req[s].caller
    /\ IsLive(rows[n])
    => /\ At(s, "markAll") => n \in found[s]
       /\ pc[s] \in {"unsubscribe", "userSolutions", "userResources", "userKube"}
            => pend[s][n] # Unwritten

\* A resize that kube has accepted is that of a live namespace.
Accepted(s) ==
  pc[s] \in {"volumes", "updateSubscription"} /\ req[s].ns \notin Imported
    => IsLive(rows[req[s].ns])

KubeSays ==
  /\ \A n \in Names \ Imported : KubeTold(n) /\ (ByTariff(n) => SubKept(n))
  /\ \A s \in Slots : Swept(s) /\ Accepted(s)

KubeInv == PlanInv /\ KubeSays

\* A row written over one that is not live is not live, unless it is new.
LEMMA LiveAfter ==
  ASSUME RowInv, NEW s \in Slots, NEW n \in Names \ Imported, pend[s][n] # Unwritten,
         Plan(s), IsLive(pend[s][n])
  PROVE  \/ IsLive(rows[n]) /\ req[s].op \notin Additions \union Removals
         \/ Creates(s, n) /\ rows[n] = Absent
<1>1. RowsOwned /\ TypeInv
  BY DEF RowInv
<1>2. Planned(s, n)
  BY DEF Plan
<1>3. pc[s] \notin Unwriting /\ n \in Writes(s) /\ ~Idle(s)
  BY <1>1 DEF RowsOwned, OwnedBy, Plan, Unwriting, Idle
<1>4. req[s].op \in Ops
  BY <1>1, <1>3, RequestType
<1>5. CASE req[s].op \in Additions
  <2>1. n = req[s].ns
    BY <1>3, <1>5 DEF Writes, Additions, Creations
  <2>2. ~Imports(s, n)
    BY <1>1 DEF RowsOwned, OwnedBy
  <2>3. QED
    BY <1>2, <1>3, <1>5, <2>1, <2>2 DEF Creates, Imports, Additions, Planned
<1>6. CASE req[s].op = "RenameNamespace"
  <2>1. rows[n] \in Row /\ pend[s][n] = [rows[n] EXCEPT !.label = req[s].label]
    BY <1>2, <1>6 DEF Planned
  <2>2. QED
    BY <1>6, <2>1 DEF IsLive, Row, Additions, Creations, Removals
<1>7. CASE req[s].op \in Resizes
  <2>1. rows[n] \in Row /\ pend[s][n] = ResizedRow(s, rows[n])
    BY <1>2, <1>7 DEF Planned
  <2>2. QED
    BY <1>7, <2>1 DEF IsLive, Row, ResizedRow, Additions, Creations, Removals, Resizes
<1>8. CASE req[s].op \in Removals
  <2>1. rows[n] \in Row /\ pend[s][n] = [rows[n] EXCEPT !.live = FALSE]
    BY <1>2, <1>8 DEF Planned, IsLive
  <2>2. QED
    BY <2>1 DEF IsLive, Row
<1>9. QED
  BY <1>4, <1>5, <1>6, <1>7, <1>8 DEF Ops, Resizes, Removals, Additions, Creations

\* A row about to be deleted is live in the table and not in the transaction.
LEMMA RemovedRow ==
  ASSUME RowInv, NEW s \in Slots, NEW n \in Names, pend[s][n] # Unwritten,
         Plan(s), req[s].op \in Removals
  PROVE  /\ IsLive(rows[n]) /\ ~IsLive(pend[s][n])
         /\ n \in found[s]
         /\ req[s].op = "DeleteNamespace" => n = req[s].ns
         /\ req[s].op = "DeleteAllUserNamespaces" => n \in OfUser(s)
<1>1. IsLive(rows[n]) /\ pend[s][n] = [rows[n] EXCEPT !.live = FALSE]
  BY DEF Plan, Planned
<1>2. pc[s] \notin Unwriting
  BY DEF RowInv, RowsOwned, OwnedBy
<1>3. n \in Writes(s) /\ Planned(s, n)
  BY <1>2 DEF Plan
<1>4. QED
  BY <1>1, <1>2, <1>3 DEF IsLive, Row, Writes, Planned, OfUser, Plan, Removals

\* The owners of namespaces being created keep them.
LEMMA NotSwept ==
  ASSUME CreationsSpared, TypeInv, NEW s \in Slots, NEW t \in Slots, NEW n \in Names,
         Creates(t, n), ~Idle(s), req[s].op = "DeleteAllUserNamespaces"
  PROVE  OwnerOf[n] # req[s].caller
BY RequestType DEF Creates, CreationsSpared

\* After a call, a row was told before, or is the caller's own.
LEMMA ToldCall ==
  ASSUME RowInv, RowInv', NEW s \in Slots, KubeCalls(s) \/ BillingCalls(s) \/ Deletions(s),
         NEW steps \in {QuotaSent, BillSent}, NEW n \in Names \ Imported,
         NEW row \in Told(steps, n)'
  PROVE  /\ \/ row \in Told(steps, n)
            \/ /\ pend[s][n] # Unwritten /\ pc[s] \notin steps /\ pc'[s] \in steps
               /\ rows[n] \in Told(steps, n)
         /\ pc'[s] \in steps /\ pend[s][n] # Unwritten => row = pend[s][n]
<1>1. Acts(s) /\ pend' = pend /\ TypeInv
  BY CallShape DEF Acts, Called, RowInv
<1>2. ~(Refusals(s) /\ Reached(steps, s, n))
  <2>1. Reached(steps, s, n) => pc'[s] \in steps
    BY <1>1, CallsReach DEF Reached
  <2>2. "idle" \notin steps
    BY DEF QuotaSent, BillSent
  <2>3. Refusals(s) => pc'[s] = "idle"
    BY <1>1, RefusalsRollback, EndRows DEF Rollback
  <2>4. QED
    BY <2>1, <2>2, <2>3
<1>3. pc'[s] \in steps /\ pend[s][n] # Unwritten => row = pend[s][n]
  BY <1>1 DEF RowInv, RowsOwned, OwnedBy, Told, Reached
<1>4. QED
  BY <1>1, <1>2, <1>3, ToldStep

\* What kube holds of a namespace after a call.
LEMMA KubeCallTold ==
  ASSUME CreationsSpared, KubeInv, RowInv', NEW s \in Slots,
         KubeCalls(s) \/ BillingCalls(s) \/ Deletions(s),
         NEW n \in Names \ Imported, NEW row \in Told(QuotaSent, n)'
  PROVE  kube'[n] = QuotaOf(row)
<1> DEFINE here == req[s].ns
<1>1. /\ RowInv /\ TypeInv /\ Plan(s) /\ RowsOwned /\ \A t \in Slots : Plan(t)
      /\ \A r \in Told(QuotaSent, n) : kube[n] = QuotaOf(r)
      /\ Swept(s)
  BY DEF KubeInv, PlanInv, RowInv, KubeSays, KubeTold
<1>2. /\ UNCHANGED <<rows, pend, req, ns, found>> /\ ~Idle(s) /\ ~At(s, "commit")
      /\ pc[s] \notin Unwriting \/ pc[s] = "usage"
  BY CallShape DEF Called, At, Unwriting
<1>3. here \in Names /\ req[s].op \in Ops
  BY <1>1, <1>2, RequestType
<1>4. /\ \/ row \in Told(QuotaSent, n)
         \/ /\ pend[s][n] # Unwritten /\ pc[s] \notin QuotaSent /\ pc'[s] \in QuotaSent
            /\ rows[n] \in Told(QuotaSent, n)
      /\ pc'[s] \in QuotaSent /\ pend[s][n] # Unwritten => row = pend[s][n]
  BY <1>1, ToldCall
<1>5. ASSUME kube'[n] = kube[n],
             \/ pend[s][n] = Unwritten \/ pc[s] \in QuotaSent \/ pc'[s] \notin QuotaSent
             \/ QuotaOf(pend[s][n]) = QuotaOf(rows[n])
      PROVE  kube'[n] = QuotaOf(row)
  BY <1>1, <1>4, <1>5
<1>6. pc[s] \notin Unwriting /\ req[s].op # "DeleteAllUserNamespaces"
        => (pend[s][n] # Unwritten <=> n = here)
  BY <1>1 DEF Plan, Writes
<1>7. pend[s][n] # Unwritten => Planned(s, n)
  BY <1>1 DEF Plan
<1>8. CASE KubeCreate(s)
  <2>1. pc[s] = "kubeCreate" /\ kube' = [kube EXCEPT ![here] = ns[s].quota]
    BY <1>8 DEF KubeCreate, At
  <2>2. req[s].op \in Creations /\ pc'[s] \in QuotaSent /\ pc[s] \notin Unwriting
    BY <1>1, <2>1, CallFlow DEF QuotaSent, Unwriting, Creations
  <2>3. CASE n = here
    <3>1. row = pend[s][n] /\ Planned(s, n)
      BY <1>4, <1>6, <1>7, <2>2, <2>3 DEF Creations
    <3>2. row = NewRow(req[s]) /\ ns[s] = row
      BY <2>2, <3>1 DEF Planned, Additions
    <3>3. ns[s] \in Row
      BY <1>1, <2>1 DEF TypeInv, LocalsOK, LocalsOf
    <3>4. kube'[n] = ns[s].quota
      BY <1>1, <2>1, <2>3 DEF TypeInv, TypeOK
    <3>5. QED
      BY <3>2, <3>3, <3>4 DEF QuotaOf, IsLive, NewRow
  <2>4. CASE n # here
    <3>1. pend[s][n] = Unwritten /\ kube'[n] = kube[n]
      BY <1>1, <1>6, <2>1, <2>2, <2>4 DEF Creations, TypeInv, TypeOK
    <3>2. QED
      BY <1>5, <3>1
  <2>5. QED
    BY <2>3, <2>4
<1>9. CASE SetQuota(s)
  <2>1. /\ pc[s] = "setQuota" /\ kube' = [kube EXCEPT ![here] = ns[s].quota]
        /\ kube[here] # Gone
    BY <1>9 DEF SetQuota, At
  <2>2. req[s].op \in Resizes /\ pc'[s] \in QuotaSent /\ pc[s] \notin Unwriting
        /\ pc[s] \notin QuotaSent
    BY <1>1, <2>1, CallFlow DEF QuotaSent, Unwriting, Resizes
  <2>3. CASE n = here
    <3>1. row = pend[s][n] /\ Planned(s, n) /\ pend[s][n] # Unwritten
      BY <1>4, <1>6, <1>7, <2>2, <2>3 DEF Resizes
    <3>2. rows[n] \in Row /\ row = ResizedRow(s, rows[n])
      BY <2>2, <3>1 DEF Planned
    <3>3. kube[n] = QuotaOf(rows[n])
      BY <1>1, <2>2, <3>1, ToldTable
    <3>4. IsLive(rows[n])
      BY <2>1, <2>3, <3>3 DEF QuotaOf
    <3>5. IsLive(row) /\ row.quota = ns[s].quota
      <4>1. row \in Row
        BY <1>1, <3>1, OutsideRows DEF TypeInv, TypeOK
      <4>2. QED
        BY <3>2, <3>4, <4>1 DEF IsLive, ResizedRow, Row
    <3>6. kube'[n] = ns[s].quota
      BY <1>1, <2>1, <2>3 DEF TypeInv, TypeOK
    <3>7. QED
      BY <3>5, <3>6 DEF QuotaOf
  <2>4. CASE n # here
    <3>1. pend[s][n] = Unwritten /\ kube'[n] = kube[n]
      BY <1>1, <1>6, <2>1, <2>2, <2>4 DEF Resizes, TypeInv, TypeOK
    <3>2. QED
      BY <1>5, <3>1
  <2>5. QED
    BY <2>3, <2>4
<1>10. CASE KubeDelete(s)
  <2>1. pc[s] = "kubeDelete" /\ kube' = [kube EXCEPT ![here] = Gone]
    BY <1>10 DEF KubeDelete, At
  <2>2. req[s].op = "DeleteNamespace" /\ pc'[s] \in QuotaSent /\ pc[s] \notin Unwriting
    BY <1>1, <2>1, CallFlow DEF QuotaSent, Unwriting
  <2>3. CASE n = here
    <3>1. row = pend[s][n] /\ pend[s][n] # Unwritten
      BY <1>4, <1>6, <2>2, <2>3
    <3>2. ~IsLive(pend[s][n])
      BY <1>1, <2>2, <3>1, RemovedRow DEF Removals
    <3>3. QED
      BY <1>1, <2>1, <2>3, <3>1, <3>2 DEF QuotaOf, TypeInv, TypeOK
  <2>4. CASE n # here
    <3>1. pend[s][n] = Unwritten /\ kube'[n] = kube[n]
      BY <1>1, <1>6, <2>1, <2>2, <2>4 DEF TypeInv, TypeOK
    <3>2. QED
      BY <1>5, <3>1
  <2>5. QED
    BY <2>3, <2>4
<1>11. CASE DeleteUserNamespaces(s)
  <2>1. pc[s] = "userKube" /\ kube'[n] = IF n \in OfUser(s) THEN Gone ELSE kube[n]
    BY <1>11 DEF DeleteUserNamespaces, At
  <2>2. req[s].op = "DeleteAllUserNamespaces" /\ pc'[s] \in QuotaSent
    BY <1>1, <2>1, CallFlow DEF QuotaSent
  <2>3. CASE pend[s][n] # Unwritten
    <3>1. ~IsLive(pend[s][n]) /\ n \in OfUser(s) /\ row = pend[s][n]
      BY <1>1, <1>4, <2>2, <2>3, RemovedRow DEF Removals
    <3>2. QED
      BY <2>1, <3>1 DEF QuotaOf
  <2>4. CASE pend[s][n] = Unwritten /\ n \notin OfUser(s)
    BY <1>5, <2>1, <2>4
  <2>5. CASE pend[s][n] = Unwritten /\ n \in OfUser(s)
    <3>1. OwnerOf[n] = req[s].caller
      BY <2>5 DEF OfUser
    <3>2. ~IsLive(rows[n])
      BY <1>1, <1>2, <2>1, <2>2, <2>5, <3>1 DEF Swept
    <3>3. row \in Told(QuotaSent, n)
      BY <1>4, <2>5
    <3>4. ASSUME NEW t \in Slots, pend[t][n] # Unwritten, IsLive(pend[t][n]) PROVE FALSE
      <4>1. Creates(t, n)
        BY <1>1, <3>2, <3>4, LiveAfter
      <4>2. QED
        BY <1>1, <1>2, <2>2, <3>1, <4>1, NotSwept
    <3>5. ~IsLive(row)
      BY <3>2, <3>3, <3>4 DEF Told, Reached
    <3>6. QED
      BY <2>1, <2>5, <3>5 DEF QuotaOf
  <2>6. QED
    BY <2>3, <2>4, <2>5
<1>12. CASE CheckUsage(s)
  <2>1. pc[s] = "usage" /\ kube' = kube
    BY <1>12 DEF CheckUsage, At, services
  <2>2. pend[s][n] = Unwritten
    BY <1>1, <2>1 DEF RowsOwned, OwnedBy, Unwriting
  <2>3. QED
    BY <1>5, <2>1, <2>2
<1>13. CASE BillingCalls(s)
  <2>1. kube' = kube
    BY <1>13 DEF BillingCalls, Subscribe, BillingRename, UpdateSubscription,
                 MassiveUnsubscribe
  <2>2. pc[s] \in {"subscribe", "updateSubscription", "billingRename", "unsubscribe"}
    BY <1>13 DEF BillingCalls, Subscribe, BillingRename, UpdateSubscription,
                 MassiveUnsubscribe, At
  <2>3. CASE pc[s] = "billingRename" /\ pend[s][n] # Unwritten
    <3>1. req[s].op = "RenameNamespace"
      BY <1>1, <2>3, CallFlow
    <3>2. rows[n] \in Row /\ pend[s][n] = [rows[n] EXCEPT !.label = req[s].label]
      BY <1>7, <2>3, <3>1 DEF Planned
    <3>3. pend[s][n] \in Row
      BY <1>1, <2>3, OutsideRows DEF TypeInv, TypeOK
    <3>4. QuotaOf(pend[s][n]) = QuotaOf(rows[n])
      BY <3>2, <3>3 DEF QuotaOf, IsLive, Row
    <3>5. QED
      BY <1>5, <2>1, <3>4
  <2>4. CASE pc[s] # "billingRename" \/ pend[s][n] = Unwritten
    <3>1. pend[s][n] = Unwritten \/ pc[s] \in QuotaSent \/ pc'[s] \notin QuotaSent
      BY <1>1, <2>2, <2>4, CallFlow DEF QuotaSent
    <3>2. QED
      BY <1>5, <2>1, <3>1
  <2>5. QED
    BY <2>3, <2>4
<1>14. CASE Deletions(s)
  <2>1. kube' = kube
        /\ pc[s] \in {"volumes", "solutions", "resources", "nsVolumes",
                      "userSolutions", "userResources", "userVolumes"}
    BY <1>14, DeletionsEmpty
  <2>2. pc[s] \in QuotaSent \/ pc'[s] \notin QuotaSent
    BY <1>1, <2>1, CallFlow DEF QuotaSent
  <2>3. QED
    BY <1>5, <2>1, <2>2
<1>15. QED
  BY <1>8, <1>9, <1>10, <1>11, <1>12, <1>13, <1>14 DEF KubeCalls

\* Billing forgets a namespace when it is told to, and only then.
LEMMA SubForgotten ==
  ASSUME TypeInv, NEW s \in Slots, KubeCalls(s) \/ BillingCalls(s) \/ Deletions(s),
         NEW n \in Names
  PROVE  /\ sub'[n] = Gone => \/ sub[n] = Gone
                              \/ pc[s] = "unsubscribe" /\ n \in found[s]
         /\ pc[s] = "subscribe" => sub'[req[s].ns] # Gone
<1> DEFINE here == req[s].ns
<1>1. ~Idle(s)
  BY CallShape
<1>2. here \in Names /\ req[s].label \in Labels /\ req[s].tariff \in Tariffs
  BY <1>1, RequestType DEF Request
<1>3. \A l \in Labels, t \in Tariffs : [label |-> l, tariff |-> t] # Gone
  BY LifecycleAssumption
<1>4. sub \in [Names -> [label : Labels, tariff : Tariffs] \union {Gone}]
  BY DEF TypeInv, TypeOK
<1>5. CASE Subscribe(s)
  <2>1. pc[s] = "subscribe"
        /\ sub' = [sub EXCEPT ![here] = [label |-> ns[s].label, tariff |-> ns[s].tariff]]
    BY <1>5 DEF Subscribe, At
  <2>2. ns[s].label \in Labels /\ ns[s].tariff \in Tariffs
    BY <2>1 DEF TypeInv, LocalsOK, LocalsOf, At, Row
  <2>3. sub'[here] # Gone
    BY <1>2, <1>3, <1>4, <2>1, <2>2
  <2>4. QED
    BY <1>2, <1>4, <2>1, <2>3
<1>6. CASE BillingRename(s) \/ UpdateSubscription(s)
  <2>1. /\ pc[s] \in {"billingRename", "updateSubscription"}
        /\ \/ sub' = sub
           \/ sub[here] # Gone /\ sub' = [sub EXCEPT ![here].label = req[s].label]
           \/ sub[here] # Gone /\ sub' = [sub EXCEPT ![here].tariff = req[s].tariff]
    BY <1>6 DEF BillingRename, UpdateSubscription, At
  <2>2. sub[here] # Gone => /\ [sub[here] EXCEPT !.label = req[s].label] # Gone
                            /\ [sub[here] EXCEPT !.tariff = req[s].tariff] # Gone
    BY <1>2, <1>3, <1>4
  <2>3. QED
    BY <1>2, <1>4, <2>1, <2>2
<1>7. CASE MassiveUnsubscribe(s)
  BY <1>7 DEF MassiveUnsubscribe, Billed, At
<1>8. CASE KubeCalls(s) \/ Deletions(s)
  <2>1. sub' = sub /\ pc[s] # "subscribe"
    BY <1>8, DeletionsEmpty
       DEF KubeCalls, CheckUsage, KubeCreate, SetQuota, KubeDelete, DeleteUserNamespaces,
           services, At
  <2>2. QED
    BY <2>1
<1>9. QED
  BY <1>5, <1>6, <1>7, <1>8 DEF BillingCalls

\* The subscription a resize by tariff will need stays.
LEMMA SubCallKept ==
  ASSUME TariffNeedsSubscription, KubeInv, RowInv', NEW s \in Slots,
         KubeCalls(s) \/ BillingCalls(s) \/ Deletions(s),
         NEW n \in Names \ Imported, ByTariff(n),
         NEW row \in Told(BillSent, n)', IsLive(row)
  PROVE  sub'[n] # Gone
<1>1. /\ RowInv /\ TypeInv /\ Plan(s)
      /\ \A r \in Told(BillSent, n) : IsLive(r) => sub[n] # Gone
  BY DEF KubeInv, PlanInv, RowInv, KubeSays, SubKept
<1>2. ~Idle(s) /\ pend' = pend
  BY CallShape DEF Called
<1>3. /\ \/ row \in Told(BillSent, n)
         \/ /\ pend[s][n] # Unwritten /\ pc[s] \notin BillSent /\ pc'[s] \in BillSent
            /\ rows[n] \in Told(BillSent, n)
      /\ pc'[s] \in BillSent /\ pend[s][n] # Unwritten => row = pend[s][n]
  BY <1>1, ToldCall
<1>4. pend[s][n] # Unwritten /\ pc'[s] \in BillSent => req[s].op \notin Removals
  BY <1>1, <1>3, RemovedRow
<1>5. ~(pc[s] = "unsubscribe" /\ n \in found[s])
  <2>1. SUFFICES ASSUME pc[s] = "unsubscribe", n \in found[s] PROVE FALSE
    OBVIOUS
  <2>2. req[s].op \in Removals /\ pc'[s] \in BillSent
    BY <1>1, <2>1, CallFlow DEF BillSent, Removals
  <2>3. pend[s][n] # Unwritten
    BY <1>1, <2>1, <2>2 DEF Plan, Writes, Unwriting, Removals
  <2>4. QED
    BY <1>4, <2>2, <2>3
<1>6. sub'[n] = Gone => sub[n] = Gone
  BY <1>1, <1>5, SubForgotten
<1>7. CASE row \in Told(BillSent, n)
  BY <1>1, <1>6, <1>7
<1>8. CASE /\ pend[s][n] # Unwritten /\ pc[s] \notin BillSent /\ pc'[s] \in BillSent
           /\ rows[n] \in Told(BillSent, n)
  <2>1. IsLive(rows[n]) \/ Creates(s, n)
    BY <1>1, <1>3, <1>8, LiveAfter
  <2>2. CASE IsLive(rows[n])
    BY <1>1, <1>6, <1>8, <2>2
  <2>3. CASE Creates(s, n)
    <3>1. req[s].op = "CreateNamespace"
      <4>1. req[s].op # "AdminCreateNamespace"
        BY <1>1, <1>2, <2>3, RequestType DEF Creates, ByTariff, TariffNeedsSubscription
      <4>2. QED
        BY <2>3, <4>1 DEF Creates, Creations
    <3>2. pc[s] = "subscribe"
      BY <1>1, <1>8, <3>1, CallFlow, CallShape DEF BillSent, Resizes
    <3>3. QED
      BY <1>1, <2>3, <3>2, SubForgotten DEF Creates
  <2>4. QED
    BY <2>1, <2>2, <2>3
<1>9. QED
  BY <1>3, <1>7, <1>8

\* Where a request ends early when nothing fails.
LEMMA RefusalSteps ==
  ASSUME ~Faults, NEW s \in Slots, Refusals(s)
  PROVE  \/ pc[s] \in Unwriting \union {"setQuota", "billingRename", "unsubscribe"}
         \/ pc[s] = "kubeDelete" /\ kube[req[s].ns] = Gone
         \/ pc[s] = "updateSubscription" /\ sub[req[s].ns] = Gone
BY DEF Refusals, NotFound, InsertRefused, RenameRefused, MarkRefused, NothingFound,
       UsageExceeded, NotThere, Fail, At, Unwriting

\* No request ends early after kube or billing has been told of its row.
LEMMA NoneLeft ==
  ASSUME ~Faults, KubeInv, NEW s \in Slots, Refusals(s), NEW n \in Names \ Imported
  PROVE  ~Reached(QuotaSent, s, n) /\ (ByTariff(n) => ~Reached(BillSent, s, n))
<1>1. /\ RowInv /\ TypeInv /\ Plan(s) /\ Accepted(s)
      /\ \A r \in Told(QuotaSent, n) : kube[n] = QuotaOf(r)
      /\ ByTariff(n) => \A r \in Told(BillSent, n) : IsLive(r) => sub[n] # Gone
  BY DEF KubeInv, PlanInv, RowInv, KubeSays, KubeTold, SubKept
<1>2. pc[s] \notin Unwriting => /\ ~Idle(s)
                                /\ pend[s][n] # Unwritten => n \in Writes(s)
  BY <1>1 DEF Plan, Unwriting, Idle
<1>3. ASSUME Reached(QuotaSent, s, n) PROVE FALSE
  <2>1. pc[s] = "updateSubscription" /\ sub[req[s].ns] = Gone /\ pend[s][n] # Unwritten
    BY <1>3, RefusalSteps DEF Reached, QuotaSent, Unwriting
  <2>2. HasStep(req[s].op, "updateSubscription") /\ n \in Writes(s) /\ req[s] \in Requests
    BY <1>1, <1>2, <2>1, RequestType DEF Unwriting
  <2>3. req[s].op = "ResizeNamespace"
    BY <2>2 DEF HasStep
  <2>4. n = req[s].ns /\ ByTariff(n)
    BY <2>2, <2>3 DEF Writes, ByTariff
  <2>5. rows[n] \in Told(BillSent, n) /\ IsLive(rows[n])
    BY <1>1, <2>1, <2>4, ToldTable DEF BillSent, Accepted
  <2>6. QED
    BY <1>1, <2>1, <2>4, <2>5
<1>4. ASSUME Reached(BillSent, s, n) PROVE FALSE
  <2>1. pc[s] = "kubeDelete" /\ kube[req[s].ns] = Gone /\ pend[s][n] # Unwritten
    BY <1>4, RefusalSteps DEF Reached, BillSent, Unwriting
  <2>2. HasStep(req[s].op, "kubeDelete")
    BY <1>1, <1>2, <2>1, RequestType DEF Unwriting
  <2>3. req[s].op = "DeleteNamespace"
    BY <2>2 DEF HasStep
  <2>4. n = req[s].ns /\ IsLive(rows[n])
    BY <1>1, <2>1, <2>3, RemovedRow DEF Removals
  <2>5. kube[n] = rows[n].quota
    BY <1>1, <2>1, <2>4, ToldTable DEF QuotaSent, QuotaOf
  <2>6. rows[n].quota \in Quotas
    BY <2>4 DEF IsLive, Row
  <2>7. Gone \notin Quotas
    BY LifecycleAssumption
  <2>8. QED
    BY <2>1, <2>4, <2>5, <2>6, <2>7
<1>5. QED
  BY <1>3, <1>4

\* Only calls change what the services hold.
LEMMA ServicesStay ==
  ASSUME NEW s \in Slots, Acts(s)
  PROVE  services' = services \/ KubeCalls(s) \/ BillingCalls(s) \/ Deletions(s)
BY RefusalsRollback
   DEF Acts, Rollback, Commit, Lookup, Insert, Rename, Resize, MarkDeleted, Find, MarkAll,
       Write, Begin

\* A namespace that is live after a step was so before, or has been created.
LEMMA Rises ==
  ASSUME RowInv, NEW s \in Slots, Plan(s), Acts(s), NEW n \in Names \ Imported,
         IsLive(rows'[n])
  PROVE  IsLive(rows[n]) \/ (Commit(s) /\ Creates(s, n))
<1>1. CASE rows' = rows
  BY <1>1
<1>2. CASE Commit(s) /\ rows' = View(s)
  <2>1. rows'[n] = IF pend[s][n] = Unwritten THEN rows[n] ELSE pend[s][n]
    BY <1>2 DEF View
  <2>2. QED
    BY <1>2, <2>1, LiveAfter
<1>3. QED
  BY <1>1, <1>2, RowsStep

\* A request to delete all of a user does not lose sight of a namespace.
LEMMA SweptOwn ==
  ASSUME KubeInv, NEW s \in Slots, Acts(s)
  PROVE  Swept(s)'
<1>1. RowInv /\ TypeInv /\ Swept(s)
  BY DEF KubeInv, PlanInv, RowInv, KubeSays
<1>2. CASE Refusals(s) \/ Commit(s)
  <2>1. pc'[s] = "idle"
    BY <1>1, <1>2, RefusalsRollback, EndRows DEF Rollback, Commit
  <2>2. QED
    BY <2>1 DEF Swept, Idle
<1>3. CASE \E r \in Requests : Begin(s, r)
  <2>1. PICK r \in Requests : Begin(s, r)
    BY <1>3
  <2>2. r.op \in Ops
    BY LifecycleAssumption DEF Request
  <2>3. pc'[s] \in {"insert", "find", "lookup"}
    BY <1>1, <2>1, <2>2, FirstStepOf DEF Begin, TypeInv, TypeOK
  <2>4. QED
    BY <2>3 DEF Swept, At
<1>4. CASE Find(s)
  <2>1. /\ pc'[s] = "markAll" /\ UNCHANGED <<rows, req>>
        /\ found'[s] = {n \in Names : IsLive(rows[n]) /\ OwnerOf[n] = req[s].caller}
    BY <1>1, <1>4, FindType DEF Find, At, TypeInv, TypeOK
  <2>2. QED
    BY <2>1 DEF Swept, At, IsLive
<1>5. CASE MarkAll(s)
  <2>1. ASSUME NEW n \in Names \ Imported, IsLive(rows[n]), OwnerOf[n] = req[s].caller
        PROVE  pend'[s][n] # Unwritten
    <3>1. req[s].op = "DeleteAllUserNamespaces" /\ At(s, "markAll") /\ ~Idle(s)
      BY <1>1, <1>5, MarkAllRows DEF MarkAll, At, Idle
    <3>2. n \in StillLive(s)
      BY <1>1, <2>1, <3>1 DEF Swept, StillLive
    <3>3. pend'[s][n] = [rows[n] EXCEPT !.live = FALSE]
      BY <1>1, <1>5, <3>2, MarkAllRows
    <3>4. [rows[n] EXCEPT !.live = FALSE] \in Row
      BY <1>1, <1>5, <3>2, MarkAllType
    <3>5. QED
      BY <3>3, <3>4, OutsideRows
  <2>2. pc'[s] = "unsubscribe" /\ UNCHANGED <<rows, req>>
    BY <1>1, <1>5, MarkAllRows DEF MarkAll
  <2>3. QED
    BY <2>1, <2>2 DEF Swept, At, IsLive
<1>6. CASE Lookup(s) \/ Insert(s) \/ Rename(s) \/ Resize(s) \/ MarkDeleted(s)
  <2>1. ~Idle(s) /\ pc[s] \in {"lookup", "insert", "rename", "resize", "mark"} /\ req' = req
    BY <1>6 DEF Lookup, Insert, Rename, Resize, MarkDeleted, Write, At, Idle
  <2>2. req[s].op # "DeleteAllUserNamespaces"
    <3>1. HasStep(req[s].op, pc[s])
      BY <1>1, <2>1, RequestType
    <3>2. QED
      BY <2>1, <3>1 DEF HasStep
  <2>3. QED
    BY <2>1, <2>2 DEF Swept
<1>7. CASE KubeCalls(s) \/ BillingCalls(s) \/ Deletions(s)
  <2>1. UNCHANGED <<rows, pend, req, found>> /\ ~Idle(s)
    BY <1>7, CallShape DEF Called
  <2>2. /\ pc'[s] # "markAll"
        /\ pc'[s] \in {"unsubscribe", "userSolutions", "userResources", "userKube"}
             /\ req[s].op = "DeleteAllUserNamespaces"
             => pc[s] \in {"unsubscribe", "userSolutions", "userResources"}
    BY <1>1, <1>7, CallFlow, CallShape DEF Resizes
  <2>3. QED
    BY <1>1, <2>1, <2>2 DEF Swept, At, Idle, IsLive
<1>8. QED
  BY <1>2, <1>3, <1>4, <1>5, <1>6, <1>7 DEF Acts

LEMMA SweptOthers ==
  ASSUME CreationsSpared, KubeInv, NEW s \in Slots, Acts(s), NEW t \in Slots, t # s
  PROVE  Swept(t)'
<1>1. RowInv /\ TypeInv /\ Swept(t) /\ Plan(s)
  BY DEF KubeInv, PlanInv, RowInv, KubeSays
<1>2. Still(t)
  BY <1>1, OthersStill
<1>3. SUFFICES ASSUME NEW n \in Names \ Imported, ~Idle(t),
                      req[t].op = "DeleteAllUserNamespaces", OwnerOf[n] = req[t].caller,
                      IsLive(rows'[n])
               PROVE  IsLive(rows[n])
  BY <1>1, <1>2 DEF Swept, Still, At, Idle, IsLive
<1>4. ~Creates(s, n)
  BY <1>1, <1>3, NotSwept
<1>5. QED
  BY <1>1, <1>3, <1>4, Rises

\* A resize that kube accepts finds the namespace there, and it stays.
LEMMA AcceptedStep ==
  ASSUME KubeInv, NEW s \in Slots, Acts(s), NEW t \in Slots
  PROVE  Accepted(t)'
<1> DEFINE here == req[t].ns
<1>1. RowInv /\ TypeInv /\ Accepted(t) /\ Plan(t)
      /\ \A n \in Names \ Imported : \A r \in Told(QuotaSent, n) : kube[n] = QuotaOf(r)
  BY DEF KubeInv, PlanInv, RowInv, KubeSays, KubeTold
<1>2. CASE t # s
  <2>1. Still(t)
    BY <1>1, <1>2, OthersStill
  <2>2. SUFFICES ASSUME pc[t] \in {"volumes", "updateSubscription"}, here \notin Imported
                 PROVE  IsLive(rows'[here])
    BY <2>1 DEF Accepted, Still, IsLive
  <2>3. here \in Names /\ req[t].op = "ResizeNamespace"
    <3>1. here \in Names /\ HasStep(req[t].op, pc[t])
      BY <1>1, <2>2, RequestType DEF Idle
    <3>2. QED
      BY <2>2, <3>1 DEF HasStep
  <2>4. pend[t][here] # Unwritten
    BY <1>1, <2>2, <2>3 DEF Plan, Writes, Unwriting
  <2>5. rows'[here] = rows[here]
    BY <1>1, <1>2, <2>3, <2>4, RowsHeld
  <2>6. QED
    BY <1>1, <2>2, <2>5 DEF Accepted
<1>3. CASE t = s /\ (KubeCalls(s) \/ BillingCalls(s) \/ Deletions(s))
  <2>1. /\ UNCHANGED <<rows, pend, req>> /\ ~Idle(s) /\ here \in Names
    BY <1>1, <1>3, CallShape, RequestType DEF Called
  <2>2. SUFFICES ASSUME pc'[s] \in {"volumes", "updateSubscription"}, here \notin Imported
                 PROVE  IsLive(rows[here])
    BY <1>3, <2>1 DEF Accepted, IsLive
  <2>3. pc[s] \in {"setQuota", "volumes"} /\ req[s].op = "ResizeNamespace"
    BY <1>1, <1>3, <2>2, CallFlow, CallShape
  <2>4. CASE pc[s] = "setQuota"
    <3>1. kube[here] # Gone
      BY <1>3, <2>4, DeletionsEmpty
         DEF KubeCalls, BillingCalls, CheckUsage, KubeCreate, SetQuota, KubeDelete,
             DeleteUserNamespaces, Subscribe, BillingRename, UpdateSubscription,
             MassiveUnsubscribe, At
    <3>2. pend[s][here] # Unwritten
      BY <1>1, <1>3, <2>1, <2>3, <2>4 DEF Plan, Writes, Unwriting
    <3>3. rows[here] \in Told(QuotaSent, here)
      BY <1>1, <1>3, <2>1, <2>4, <3>2, ToldTable DEF QuotaSent
    <3>4. QED
      BY <1>1, <2>1, <2>2, <3>1, <3>3 DEF QuotaOf
  <2>5. CASE pc[s] = "volumes"
    BY <1>1, <1>3, <2>2, <2>5 DEF Accepted
  <2>6. QED
    BY <2>3, <2>4, <2>5
<1>4. CASE t = s /\ ~(KubeCalls(s) \/ BillingCalls(s) \/ Deletions(s))
  <2>1. pc'[s] \notin {"volumes", "updateSubscription"}
    <3>1. CASE Refusals(s) \/ Commit(s)
      BY <1>1, <3>1, RefusalsRollback, EndRows DEF Rollback, Commit
    <3>2. CASE \E r \in Requests : Begin(s, r)
      <4>1. PICK r \in Requests : Begin(s, r)
        BY <3>2
      <4>2. r.op \in Ops
        BY LifecycleAssumption DEF Request
      <4>3. QED
        BY <1>1, <4>1, <4>2, FirstStepOf DEF Begin, TypeInv, TypeOK
    <3>3. CASE Find(s)
      BY <1>1, <3>3, FindType DEF At
    <3>4. CASE MarkAll(s)
      BY <1>1, <3>4, MarkAllRows
    <3>5. CASE Insert(s) \/ Rename(s) \/ Resize(s) \/ MarkDeleted(s)
      BY <1>1, <3>5, WritePlan
    <3>6. CASE Lookup(s)
      BY <1>1, <3>6, LookupStep
    <3>7. QED
      BY <1>4, <3>1, <3>2, <3>3, <3>4, <3>5, <3>6 DEF Acts
  <2>2. QED
    BY <1>4, <2>1 DEF Accepted
<1>5. QED
  BY <1>2, <1>3, <1>4

LEMMA KubeInit == TariffNeedsSubscription /\ Init => KubeInv
<1> SUFFICES ASSUME TariffNeedsSubscription, Init PROVE KubeSays
  BY PlanInit DEF KubeInv
<1>1. /\ \A s \in Slots : pc[s] = "idle"
      /\ \A s \in Slots, n \in Names : pend[s][n] = Unwritten
  BY DEF Init, Nothing
<1>2. ASSUME NEW n \in Names \ Imported
      PROVE  KubeTold(n) /\ (ByTariff(n) => SubKept(n))
  <2>1. /\ rows[n] = IF n \in DOMAIN LiveAtStart THEN LiveAtStart[n] ELSE Absent
        /\ sub[n] = IF n \in DOMAIN LiveAtStart /\ LiveAtStart[n].tariff # NoTariff
                    THEN [label |-> LiveAtStart[n].label, tariff |-> LiveAtStart[n].tariff]
                    ELSE Gone
        /\ kube[n] = IF n \in DOMAIN LiveAtStart THEN LiveAtStart[n].quota ELSE Gone
    BY <1>2 DEF Init
  <2>2. n \in DOMAIN LiveAtStart => LiveAtStart[n] \in Row /\ LiveAtStart[n].live
    BY LifecycleAssumption
  <2>3. \A steps : \A row \in Told(steps, n) : row = rows[n]
    BY <1>1 DEF Told, Reached
  <2>4. KubeTold(n)
    BY <2>1, <2>2, <2>3, NotLive DEF KubeTold, QuotaOf, IsLive
  <2>5. ASSUME ByTariff(n), IsLive(rows[n]) PROVE sub[n] # Gone
    <3>1. n \in DOMAIN LiveAtStart
      BY <2>1, <2>5, NotLive
    <3>2. LiveAtStart[n].tariff \in Tariffs /\ LiveAtStart[n].label \in Labels
      BY <2>2, <2>5, <3>1 DEF Row, ByTariff, TariffNeedsSubscription
    <3>3. \A l \in Labels, t \in Tariffs : [label |-> l, tariff |-> t] # Gone
      BY LifecycleAssumption
    <3>4. LiveAtStart[n].tariff # NoTariff
      BY <2>5, <3>1 DEF ByTariff, TariffNeedsSubscription
    <3>5. QED
      BY <2>1, <3>1, <3>2, <3>3, <3>4
  <2>6. ByTariff(n) => SubKept(n)
    BY <2>3, <2>5 DEF SubKept
  <2>7. QED
    BY <2>4, <2>6
<1>3. ASSUME NEW s \in Slots PROVE Swept(s) /\ Accepted(s)
  BY <1>1 DEF Swept, Accepted, Idle
<1>4. QED
  BY <1>2, <1>3 DEF KubeSays

\* KubeInv is inductive when nothing fails.
LEMMA KubeNext ==
  ASSUME ~Faults, TariffNeedsSubscription, CreationsSpared
  PROVE  KubeInv /\ [Next]_vars => KubeInv'
<1> SUFFICES ASSUME KubeInv, [Next]_vars PROVE KubeSays'
  BY PlanNext DEF KubeInv
<1>1. RowInv /\ RowInv' /\ KubeSays /\ \A s \in Slots : Plan(s)
  BY RowNext DEF KubeInv, PlanInv
<1>2. CASE UNCHANGED vars
  <2>1. UNCHANGED <<rows, pend, pc, req, found, kube, sub>>
    BY <1>2 DEF vars, locals, services
  <2>2. \A steps, n : Told(steps, n)' = Told(steps, n)
    BY <2>1, ToldStays
  <2>3. \A n \in Names \ Imported : (KubeTold(n) => KubeTold(n)') /\ (SubKept(n) => SubKept(n)')
    BY <2>1, <2>2 DEF KubeTold, SubKept
  <2>4. \A s \in Slots : (Swept(s) => Swept(s)') /\ (Accepted(s) => Accepted(s)')
    BY <2>1 DEF Swept, Accepted, IsLive, Idle, At
  <2>5. QED
    BY <1>1, <2>3, <2>4 DEF KubeSays, ByTariff
<1>3. ASSUME NEW s \in Slots, Acts(s) PROVE KubeSays'
  <2>1. \A t \in Slots : Swept(t)' /\ Accepted(t)'
    BY <1>3, SweptOwn, SweptOthers, AcceptedStep
  <2>2. ASSUME NEW n \in Names \ Imported PROVE KubeTold(n)'
    <3>1. SUFFICES ASSUME NEW row \in Told(QuotaSent, n)' PROVE kube'[n] = QuotaOf(row)
      BY DEF KubeTold, QuotaOf, IsLive
    <3>2. CASE KubeCalls(s) \/ BillingCalls(s) \/ Deletions(s)
      BY <1>1, <3>2, KubeCallTold
    <3>3. CASE ~(KubeCalls(s) \/ BillingCalls(s) \/ Deletions(s))
      <4>1. kube' = kube
        BY <1>3, <3>3, ServicesStay DEF services
      <4>2. row \in Told(QuotaSent, n)
        BY <1>1, <1>3, <3>3, ToldStep, NoneLeft
      <4>3. QED
        BY <1>1, <4>1, <4>2 DEF KubeSays, KubeTold
    <3>4. QED
      BY <3>2, <3>3
  <2>3. ASSUME NEW n \in Names \ Imported, ByTariff(n) PROVE SubKept(n)'
    <3>1. SUFFICES ASSUME NEW row \in Told(BillSent, n)', IsLive(row) PROVE sub'[n] # Gone
      BY DEF SubKept, IsLive
    <3>2. CASE KubeCalls(s) \/ BillingCalls(s) \/ Deletions(s)
      BY <1>1, <2>3, <3>1, <3>2, SubCallKept
    <3>3. CASE ~(KubeCalls(s) \/ BillingCalls(s) \/ Deletions(s))
      <4>1. sub' = sub
        BY <1>3, <3>3, ServicesStay DEF services
      <4>2. row \in Told(BillSent, n)
        BY <1>1, <1>3, <2>3, <3>3, ToldStep, NoneLeft
      <4>3. QED
        BY <1>1, <2>3, <3>1, <4>1, <4>2 DEF KubeSays, SubKept
    <3>4. QED
      BY <3>2, <3>3
  <2>4. QED
    BY <2>1, <2>2, <2>3 DEF KubeSays, ByTariff
<1>4. QED
  BY <1>2, <1>3, NextCases DEF Acts, Crash

(* When nothing fails, a quiet system has in kube exactly the live         *)
(* namespaces, each with the quota of its row (namespace.go: the call to   *)
(* kube is made under the lock of the row it is for), if billing knows     *)
(* every namespace resized by tariff and no user creates a namespace all   *)
(* of whose namespaces are deleted meanwhile.                              *)
THEOREM KubeFollowsTheRows ==
  ASSUME ~Faults, TariffNeedsSubscription, CreationsSpared
  PROVE  Spec => []KubeFollows
<1>1. Init => KubeInv
  BY KubeInit
<1>2. KubeInv /\ [Next]_vars => KubeInv'
  BY KubeNext
<1>3. KubeInv => KubeFollows
  <2> SUFFICES ASSUME KubeInv, Quiet, NEW n \in Names \ Imported
               PROVE  kube[n] = QuotaOf(rows[n])
    BY DEF KubeFollows, QuotaOf
  <2>1. \A s \in Slots : ~Reached(QuotaSent, s, n)
    BY DEF Quiet, Idle, Reached, QuotaSent
  <2>2. rows[n] \in Told(QuotaSent, n)
    BY <2>1 DEF Told
  <2>3. QED
    BY <2>2 DEF KubeInv, KubeSays, KubeTold
<1>4. QED
  BY <1>1, <1>2, <1>3, PTL DEF Spec

-----------------------------------------------------------------------------
(* Billing follows.                                                        *)

\* A subscription is that of a live row, with its label and its tariff.
Agrees(n, row) ==
  sub[n] # Gone => IsLive(row) /\ sub[n] = [label |-> row.label, tariff |-> row.tariff]

\* The copy an admin's resize keeps has the tariff of the row.
CopyFresh(s) ==
  ~Idle(s) /\ ~At(s, "lookup") /\ req[s].op = "AdminResizeNamespace"
    => ns[s].tariff = rows[req[s].ns].tariff

\* Billing agrees with the row it was told last.
BillingSays ==
  /\ \A n \in Names : \A row \in Told(BillSent, n) : Agrees(n, row)
  /\ \A s \in Slots : CopyFresh(s)

BillingInv == TearInv /\ PlanInv /\ BillingSays


\* What billing has of a namespace after a call agrees with the row.
LEMMA BillCallAgrees ==
  ASSUME BillingInv, RowInv', NEW s \in Slots,
         KubeCalls(s) \/ BillingCalls(s) \/ Deletions(s),
         NEW n \in Names \ Imported, NEW row \in Told(BillSent, n)'
  PROVE  sub'[n] # Gone =>
           IsLive(row) /\ sub'[n] = [label |-> row.label, tariff |-> row.tariff]
<1> DEFINE here == req[s].ns
           New == pend[s][n] # Unwritten /\ pc[s] \notin BillSent /\ pc'[s] \in BillSent
<1>1. /\ RowInv /\ TypeInv /\ Plan(s) /\ RowsOwned /\ CopyFresh(s)
      /\ \A r \in Told(BillSent, n) : Agrees(n, r)
  BY DEF BillingInv, PlanInv, RowInv, BillingSays
<1>2. /\ UNCHANGED <<rows, pend, req, ns, found>> /\ ~Idle(s) /\ ~At(s, "commit")
  BY CallShape DEF Called, At
<1>3. here \in Names /\ req[s].op \in Ops
  BY <1>1, <1>2, RequestType
<1>4. /\ row \in Told(BillSent, n) \/ (New /\ rows[n] \in Told(BillSent, n))
      /\ pc'[s] \in BillSent /\ pend[s][n] # Unwritten => row = pend[s][n]
  BY <1>1, ToldCall
<1>5. ASSUME sub'[n] = sub[n], New /\ Agrees(n, rows[n]) => Agrees(n, pend[s][n])
      PROVE  sub'[n] # Gone =>
               IsLive(row) /\ sub'[n] = [label |-> row.label, tariff |-> row.tariff]
  BY <1>1, <1>4, <1>5 DEF Agrees
<1>6. /\ pc[s] \notin Unwriting /\ req[s].op # "DeleteAllUserNamespaces"
           => (pend[s][n] # Unwritten <=> n = here)
      /\ pend[s][n] # Unwritten => Planned(s, n) /\ pend[s][n] \in Row
  BY <1>1, OutsideRows DEF Plan, Writes, TypeInv, TypeOK
<1>7. sub \in [Names -> [label : Labels, tariff : Tariffs] \union {Gone}]
  BY <1>1 DEF TypeInv, TypeOK
<1>8. CASE Subscribe(s)
  <2>1. pc[s] = "subscribe"
        /\ sub' = [sub EXCEPT ![here] = [label |-> ns[s].label, tariff |-> ns[s].tariff]]
    BY <1>8 DEF Subscribe, At
  <2>2. req[s].op = "CreateNamespace" /\ pc'[s] = "commit"
    BY <1>1, <2>1, CallFlow
  <2>3. CASE n = here
    <3>1. row = pend[s][n] /\ pend[s][n] # Unwritten
      BY <1>4, <1>6, <2>1, <2>2, <2>3 DEF Unwriting, BillSent
    <3>2. row = NewRow(req[s]) /\ ns[s] = row /\ row \in Row
      BY <1>6, <2>2, <3>1 DEF Planned, Additions, Creations
    <3>3. IsLive(row)
      BY <3>2 DEF IsLive, NewRow
    <3>4. QED
      BY <1>7, <2>1, <2>3, <3>2, <3>3
  <2>4. CASE n # here
    BY <1>5, <1>6, <1>7, <2>1, <2>2, <2>4 DEF Unwriting
  <2>5. QED
    BY <2>3, <2>4
<1>9. CASE BillingRename(s)
  <2>1. pc[s] = "billingRename"
        /\ sub' = IF sub[here] = Gone THEN sub ELSE [sub EXCEPT ![here].label = req[s].label]
    BY <1>9 DEF BillingRename, At
  <2>2. req[s].op = "RenameNamespace" /\ pc'[s] = "commit"
    BY <1>1, <2>1, CallFlow
  <2>3. CASE n = here
    <3>1. row = pend[s][n] /\ pend[s][n] # Unwritten /\ rows[n] \in Told(BillSent, n)
      BY <1>1, <1>4, <1>6, <2>1, <2>2, <2>3, ToldTable DEF Unwriting, BillSent
    <3>2. rows[n] \in Row /\ row = [rows[n] EXCEPT !.label = req[s].label] /\ row \in Row
      BY <1>6, <2>2, <3>1 DEF Planned
    <3>3. sub[n] # Gone => /\ IsLive(row)
                           /\ sub[n] = [label |-> rows[n].label, tariff |-> row.tariff]
      BY <1>1, <3>1, <3>2 DEF Agrees, IsLive, Row
    <3>4. row.label = req[s].label
      BY <3>2 DEF Row
    <3>5. sub[n] # Gone => sub'[n] = [sub[n] EXCEPT !.label = req[s].label]
      BY <1>7, <2>1, <2>3
    <3>6. QED
      BY <2>1, <2>3, <3>3, <3>4, <3>5
  <2>4. CASE n # here
    BY <1>5, <1>6, <1>7, <2>1, <2>2, <2>4 DEF Unwriting
  <2>5. QED
    BY <2>3, <2>4
<1>10. CASE UpdateSubscription(s)
  <2>1. pc[s] = "updateSubscription"
        /\ sub' = IF sub[here] = Gone THEN sub
                  ELSE [sub EXCEPT ![here].tariff = req[s].tariff]
    BY <1>10 DEF UpdateSubscription, At
  <2>2. req[s].op = "ResizeNamespace" /\ pc'[s] = "commit"
    BY <1>1, <2>1, CallFlow
  <2>3. CASE n = here
    <3>1. row = pend[s][n] /\ pend[s][n] # Unwritten /\ rows[n] \in Told(BillSent, n)
      BY <1>1, <1>4, <1>6, <2>1, <2>2, <2>3, ToldTable DEF Unwriting, BillSent
    <3>2. rows[n] \in Row /\ row = ResizedRow(s, rows[n]) /\ row \in Row
      BY <1>6, <2>2, <3>1 DEF Planned, Resizes
    <3>3. row.live = rows[n].live /\ row.label = rows[n].label /\ row.tariff = req[s].tariff
      BY <1>1, <1>2, <2>1, <2>2, <3>2 DEF ResizedRow, Row, Plan, At
    <3>4. sub[n] # Gone => /\ IsLive(row)
                           /\ sub[n] = [label |-> row.label, tariff |-> rows[n].tariff]
      BY <1>1, <3>1, <3>2, <3>3 DEF Agrees, IsLive
    <3>5. sub[n] # Gone => sub'[n] = [sub[n] EXCEPT !.tariff = req[s].tariff]
      BY <1>7, <2>1, <2>3
    <3>6. QED
      BY <2>1, <2>3, <3>3, <3>4, <3>5
  <2>4. CASE n # here
    BY <1>5, <1>6, <1>7, <2>1, <2>2, <2>4 DEF Unwriting
  <2>5. QED
    BY <2>3, <2>4
<1>11. CASE MassiveUnsubscribe(s)
  <2>1. pc[s] = "unsubscribe"
        /\ sub'[n] = IF n \in Billed(s) THEN Gone ELSE sub[n]
    BY <1>11 DEF MassiveUnsubscribe, At
  <2>2. req[s].op \in Removals
    BY <1>1, <2>1, CallFlow DEF Removals
  <2>3. pend[s][n] # Unwritten => sub'[n] = Gone
    BY <1>1, <2>1, <2>2, RemovedRow DEF Billed
  <2>4. CASE pend[s][n] = Unwritten
    <3>1. n \notin found[s]
      BY <1>1, <2>1, <2>2, <2>4 DEF Plan, Writes, Unwriting, Removals
    <3>2. QED
      BY <1>5, <2>1, <2>4, <3>1 DEF Billed
  <2>5. QED
    BY <2>3, <2>4
<1>12. CASE KubeCalls(s)
  <2>1. sub' = sub /\ pc[s] \in {"usage", "kubeCreate", "setQuota", "kubeDelete", "userKube"}
    BY <1>12 DEF KubeCalls, CheckUsage, KubeCreate, SetQuota, KubeDelete,
                 DeleteUserNamespaces, services, At
  <2>2. ASSUME New, Agrees(n, rows[n]) PROVE Agrees(n, pend[s][n])
    <3>1. \/ pc[s] = "kubeCreate" /\ req[s].op = "AdminCreateNamespace"
          \/ pc[s] = "setQuota" /\ req[s].op = "AdminResizeNamespace"
      BY <1>1, <2>1, <2>2, CallFlow DEF BillSent
    <3>2. CASE pc[s] = "kubeCreate" /\ req[s].op = "AdminCreateNamespace"
      <4>1. rows[n] = Absent
        BY <1>6, <2>2, <3>2 DEF Planned, Additions, Creations
      <4>2. QED
        BY <2>2, <4>1, NotLive DEF Agrees
    <3>3. CASE pc[s] = "setQuota" /\ req[s].op = "AdminResizeNamespace"
      <4>1. n = here /\ Planned(s, n)
        BY <1>6, <2>2, <3>3 DEF Unwriting
      <4>2. rows[n] \in Row /\ pend[s][n] = ResizedRow(s, rows[n]) /\ pend[s][n] \in Row
        BY <1>6, <2>2, <3>3, <4>1 DEF Planned, Resizes
      <4>3. ns[s].tariff = rows[n].tariff
        BY <1>1, <1>2, <3>3, <4>1 DEF CopyFresh, At
      <4>4. /\ pend[s][n].live = rows[n].live /\ pend[s][n].label = rows[n].label
            /\ pend[s][n].tariff = rows[n].tariff
        BY <4>2, <4>3 DEF ResizedRow, Row
      <4>5. QED
        BY <2>2, <4>2, <4>4 DEF Agrees, IsLive
    <3>4. QED
      BY <3>1, <3>2, <3>3
  <2>3. QED
    BY <1>5, <2>1, <2>2
<1>13. CASE Deletions(s)
  <2>1. sub' = sub
        /\ pc[s] \in {"volumes", "solutions", "resources", "nsVolumes",
                      "userSolutions", "userResources", "userVolumes"}
    BY <1>13, DeletionsEmpty
  <2>2. pc[s] \in BillSent \/ pc'[s] \notin BillSent
    BY <1>1, <2>1, CallFlow DEF BillSent
  <2>3. QED
    BY <1>5, <2>1, <2>2
<1>14. QED
  BY <1>8, <1>9, <1>10, <1>11, <1>12, <1>13 DEF BillingCalls

\* The copy of a resize by an admin is of the row as it still is.
LEMMA CopyOwn ==
  ASSUME BillingInv, NEW s \in Slots, Acts(s)
  PROVE  CopyFresh(s)'
<1>1. RowInv /\ TypeInv /\ CopyFresh(s)
  BY DEF BillingInv, PlanInv, RowInv, BillingSays
<1>2. ASSUME UNCHANGED <<rows, req>>, req[s].op = "AdminResizeNamespace" => ns'[s] = ns[s],
             pc[s] \notin {"idle", "lookup"}
      PROVE  CopyFresh(s)'
  BY <1>1, <1>2 DEF CopyFresh, Idle, At
<1>3. CASE Refusals(s) \/ Commit(s)
  <2>1. pc'[s] = "idle"
    BY <1>1, <1>3, RefusalsRollback, EndRows DEF Rollback, Commit
  <2>2. QED
    BY <2>1 DEF CopyFresh, Idle
<1>4. CASE \E r \in Requests : Begin(s, r)
  <2>1. PICK r \in Requests : Begin(s, r)
    BY <1>4
  <2>2. pc'[s] = FirstStep(r.op) /\ req'[s] = r
    BY <1>1, <2>1 DEF Begin, TypeInv, TypeOK
  <2>3. r.op = "AdminResizeNamespace" => FirstStep(r.op) = "lookup"
    BY DEF FirstStep
  <2>4. QED
    BY <2>2, <2>3 DEF CopyFresh, At
<1>5. CASE Lookup(s)
  <2>1. /\ IsLive(rows[req[s].ns]) /\ UNCHANGED <<rows, req>>
        /\ req[s].op = "AdminResizeNamespace" => ns'[s] = Resized(req[s], rows[req[s].ns])
    BY <1>1, <1>5 DEF Lookup, TypeInv, TypeOK
  <2>2. req[s].op = "AdminResizeNamespace" => ns'[s].tariff = rows[req[s].ns].tariff
    BY <2>1 DEF Resized, IsLive, Row
  <2>3. QED
    BY <2>1, <2>2 DEF CopyFresh
<1>6. CASE Insert(s) \/ Rename(s) \/ Resize(s) \/ MarkDeleted(s)
  <2>1. UNCHANGED <<rows, req>> /\ pc[s] \notin {"idle", "lookup"}
    BY <1>6 DEF Insert, Rename, Resize, MarkDeleted, Write, At
  <2>2. req[s].op = "AdminResizeNamespace" => Resize(s)
    BY <1>1, <1>6, WritePlan DEF Additions, Creations
  <2>3. QED
    BY <1>2, <2>1, <2>2 DEF Resize
<1>7. CASE Find(s) \/ MarkAll(s)
  BY <1>2, <1>7 DEF Find, MarkAll, At
<1>8. CASE KubeCalls(s) \/ BillingCalls(s) \/ Deletions(s)
  BY <1>2, <1>8, CallShape DEF Called
<1>9. QED
  BY <1>3, <1>4, <1>5, <1>6, <1>7, <1>8 DEF Acts

LEMMA CopyOthers ==
  ASSUME TariffOrAdmin, BillingInv, NEW s \in Slots, Acts(s), NEW t \in Slots, t # s
  PROVE  CopyFresh(t)'
<1> DEFINE here == req[t].ns
<1>1. RowInv /\ TypeInv /\ RowsOwned /\ CopyFresh(t) /\ CopyFresh(s) /\ Plan(t) /\ Plan(s)
  BY DEF BillingInv, PlanInv, RowInv, BillingSays
<1>2. Still(t)
  BY <1>1, OthersStill
<1>3. SUFFICES ASSUME ~Idle(t), ~At(t, "lookup"), req[t].op = "AdminResizeNamespace"
               PROVE  rows'[here].tariff = rows[here].tariff
  BY <1>1, <1>2 DEF CopyFresh, Still, Idle, At
<1>4. /\ here \in Names /\ HasStep(req[t].op, pc[t]) /\ req[t] \in Requests
  BY <1>1, <1>3, RequestType
<1>5. CASE rows'[here] = rows[here]
  BY <1>5
<1>6. CASE rows'[here] # rows[here]
  <2>1. /\ Commit(s) /\ pend[s][here] # Unwritten /\ rows'[here] = pend[s][here]
    BY <1>4, <1>6, RowsStep DEF View
  <2>2. Planned(s, here) /\ ~Idle(s) /\ ~At(s, "lookup") /\ pc[s] \notin Unwriting
    BY <1>1, <1>4, <2>1 DEF Plan, Commit, At, Idle, Unwriting
  <2>3. pend[t][here] = Unwritten
    BY <1>1, <1>4, <2>1 DEF RowsOwned, OwnedBy
  <2>4. pc[t] \in {"usage", "resize"}
    <3>1. pc[t] \in Unwriting
      BY <1>1, <1>3, <1>4, <2>3 DEF Plan, Writes
    <3>2. QED
      BY <1>3, <1>4, <3>1 DEF Unwriting, HasStep, Idle, At
  <2>5. rows[here] # Absent
    BY <1>1, <2>4 DEF TypeInv, LocalsOK, LocalsOf
  <2>6. rows[here] \in Row /\ pend[s][here] \in Row
    BY <1>1, <1>4, <2>1, <2>5 DEF TypeInv, TypeOK
  <2>7. req[s] \in Requests /\ req[s].op \in Ops
    BY <1>1, <2>2, RequestType
  <2>8. CASE req[s].op \in Additions
    BY <2>2, <2>5, <2>8 DEF Planned
  <2>9. CASE req[s].op = "RenameNamespace"
    <3>1. pend[s][here] = [rows[here] EXCEPT !.label = req[s].label]
      BY <2>2, <2>9 DEF Planned
    <3>2. QED
      BY <2>1, <2>6, <3>1 DEF Row
  <2>10. CASE req[s].op \in Resizes
    <3>1. here = req[s].ns
      BY <1>1, <1>4, <2>1, <2>2, <2>10 DEF Plan, Writes, Resizes
    <3>2. req[s].op = "AdminResizeNamespace"
      BY <1>3, <1>4, <2>7, <2>10, <3>1 DEF Resizes, TariffOrAdmin
    <3>3. pend[s][here] = ResizedRow(s, rows[here]) /\ ns[s].tariff = rows[here].tariff
      BY <1>1, <2>2, <2>10, <3>1, <3>2 DEF Planned, CopyFresh
    <3>4. QED
      BY <2>1, <2>6, <3>3 DEF Row, ResizedRow
  <2>11. CASE req[s].op \in Removals
    <3>1. pend[s][here] = [rows[here] EXCEPT !.live = FALSE]
      BY <2>2, <2>11 DEF Planned
    <3>2. QED
      BY <2>1, <2>6, <3>1 DEF Row
  <2>12. QED
    BY <2>7, <2>8, <2>9, <2>10, <2>11 DEF Ops, Additions, Creations, Resizes, Removals
<1>7. QED
  BY <1>5, <1>6

LEMMA BillingInit == Init => BillingInv
<1> SUFFICES ASSUME Init PROVE BillingSays
  BY TearInit, PlanInit DEF BillingInv
<1>1. /\ \A s \in Slots : pc[s] = "idle"
      /\ \A s \in Slots, n \in Names : pend[s][n] = Unwritten
  BY DEF Init, Nothing
<1>2. ASSUME NEW n \in Names, NEW row \in Told(BillSent, n) PROVE Agrees(n, row)
  <2>1. /\ rows[n] = IF n \in DOMAIN LiveAtStart THEN LiveAtStart[n] ELSE Absent
        /\ sub[n] = IF n \in DOMAIN LiveAtStart /\ LiveAtStart[n].tariff # NoTariff
                    THEN [label |-> LiveAtStart[n].label, tariff |-> LiveAtStart[n].tariff]
                    ELSE Gone
    BY DEF Init
  <2>2. n \in DOMAIN LiveAtStart => LiveAtStart[n] \in Row /\ LiveAtStart[n].live
    BY LifecycleAssumption
  <2>3. row = rows[n]
    BY <1>1 DEF Told, Reached
  <2>4. QED
    BY <2>1, <2>2, <2>3 DEF Agrees, IsLive
<1>3. ASSUME NEW s \in Slots PROVE CopyFresh(s)
  BY <1>1 DEF CopyFresh, Idle
<1>4. QED
  BY <1>2, <1>3 DEF BillingSays

\* BillingInv is inductive when nothing fails.
LEMMA BillingNext ==
  ASSUME ~Faults, TariffOrAdmin
  PROVE  BillingInv /\ [Next]_vars => BillingInv'
<1> SUFFICES ASSUME BillingInv, [Next]_vars PROVE BillingSays'
  BY TearNext, PlanNext DEF BillingInv
<1>1. /\ RowInv /\ RowInv' /\ TypeInv /\ BillingSays /\ \A s \in Slots : Plan(s)
      /\ \A n \in Imported : sub'[n] = Gone
  BY RowNext, TearNext DEF BillingInv, PlanInv, RowInv, TearInv, TearingDown
<1>2. CASE UNCHANGED vars
  <2>1. UNCHANGED <<rows, pend, pc, req, ns, sub>>
    BY <1>2 DEF vars, locals, services
  <2>2. \A n : Told(BillSent, n)' = Told(BillSent, n)
    BY <2>1, ToldStays
  <2>3. \A n, row : Agrees(n, row) => Agrees(n, row)'
    BY <2>1 DEF Agrees, IsLive
  <2>4. \A s \in Slots : CopyFresh(s) => CopyFresh(s)'
    BY <2>1 DEF CopyFresh, Idle, At
  <2>5. QED
    BY <1>1, <2>2, <2>3, <2>4 DEF BillingSays
<1>3. ASSUME NEW s \in Slots, Acts(s) PROVE BillingSays'
  <2>1. \A t \in Slots : CopyFresh(t)'
    BY <1>3, CopyOwn, CopyOthers
  <2>2. ASSUME NEW n \in Names, NEW row \in Told(BillSent, n)'
        PROVE  sub'[n] # Gone =>
                 IsLive(row) /\ sub'[n] = [label |-> row.label, tariff |-> row.tariff]
    <3>1. CASE n \in Imported
      BY <1>1, <3>1
    <3>2. CASE n \notin Imported /\ (KubeCalls(s) \/ BillingCalls(s) \/ Deletions(s))
      BY <1>1, <2>2, <3>2, BillCallAgrees
    <3>3. CASE n \notin Imported /\ ~(KubeCalls(s) \/ BillingCalls(s) \/ Deletions(s))
      <4>1. sub' = sub
        BY <1>3, <3>3, ServicesStay DEF services
      <4>2. CASE row \in Told(BillSent, n)
        BY <1>1, <4>1, <4>2 DEF BillingSays, Agrees
      <4>3. CASE Refusals(s) /\ Reached(BillSent, s, n)
        <5>1. pc[s] = "kubeDelete" /\ pend[s][n] # Unwritten
          BY <4>3, RefusalSteps DEF Reached, BillSent, Unwriting
        <5>2. HasStep(req[s].op, "kubeDelete")
          BY <1>1, <5>1, RequestType DEF Idle
        <5>3. ~IsLive(pend[s][n])
          BY <1>1, <5>1, <5>2, RemovedRow DEF Removals, HasStep
        <5>4. pend[s][n] \in Told(BillSent, n)
          BY <4>3 DEF Told
        <5>5. QED
          BY <1>1, <4>1, <5>3, <5>4 DEF BillingSays, Agrees
      <4>4. QED
        BY <1>1, <1>3, <3>3, <4>2, <4>3, ToldStep
    <3>4. QED
      BY <3>1, <3>2, <3>3
  <2>3. QED
    BY <2>1, <2>2 DEF BillingSays, Agrees, IsLive
<1>4. QED
  BY <1>2, <1>3, NextCases DEF Acts, Crash

(* When nothing fails, every subscription in a quiet system is that of a   *)
(* live namespace and has its label and its tariff (namespace.go: billing  *)
(* is told under the lock of the row), if no namespace is resized both by  *)
(* tariff and by an admin.                                                 *)
THEOREM SubscriptionsFollowTheRows ==
  ASSUME ~Faults, TariffOrAdmin
  PROVE  Spec => []SubscriptionFollows
<1>1. Init => BillingInv
  BY BillingInit
<1>2. BillingInv /\ [Next]_vars => BillingInv'
  BY BillingNext
<1>3. BillingInv => SubscriptionFollows
  <2> SUFFICES ASSUME BillingInv, Quiet, NEW n \in Names PROVE Agrees(n, rows[n])
    BY DEF SubscriptionFollows, Agrees
  <2>1. rows[n] \in Told(BillSent, n)
    BY DEF Quiet, Idle, Reached, BillSent, Told
  <2>2. QED
    BY <2>1 DEF BillingInv, BillingSays
<1>4. QED
  BY <1>1, <1>2, <1>3, PTL DEF Spec
=============================================================================
