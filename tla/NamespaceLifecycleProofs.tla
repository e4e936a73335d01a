---------------------- MODULE NamespaceLifecycleProofs ----------------------
(***************************************************************************)
(* The types of NamespaceLifecycle, for every set of namespaces, users,    *)
(* labels, tariffs, requests and slots, whatever calls fail.               *)
(***************************************************************************)
EXTENDS NamespaceLifecycle, TLAPS

\* The steps of each handler.
HasStep(op, p) ==
  \/ /\ op \in {"CreateNamespace", "AdminCreateNamespace"}
     /\ p \in {"insert", "kubeCreate"}
  \/ op = "CreateNamespace" /\ p = "subscribe"
  \/ op = "ImportNamespaces" /\ p = "insert"
  \/ op = "RenameNamespace" /\ p \in {"lookup", "rename", "billingRename"}
  \/ /\ op \in {"ResizeNamespace", "AdminResizeNamespace"}
     /\ p \in {"lookup", "usage", "resize", "setQuota"}
  \/ op = "ResizeNamespace" /\ p \in {"volumes", "updateSubscription"}
  \/ /\ op = "DeleteNamespace"
     /\ p \in {"lookup", "mark", "solutions", "resources", "nsVolumes",
               "unsubscribe", "kubeDelete"}
  \/ /\ op = "DeleteAllUserNamespaces"
     /\ p \in {"find", "markAll", "unsubscribe", "userSolutions",
               "userResources", "userKube", "userVolumes"}
  \/ p = "commit"

\* What a request in progress knows.
LocalsOf(s) ==
  /\ ~Idle(s) => req[s] \in Requests /\ HasStep(req[s].op, pc[s])
  /\ pc[s] \in {"kubeCreate", "subscribe", "usage", "resize", "setQuota"}
       => ns[s] \in Row
  /\ At(s, "subscribe") \/ (At(s, "kubeCreate") /\ req[s].op = "CreateNamespace")
       => ns[s].tariff \in Tariffs
  /\ pc[s] \in {"rename", "usage", "resize"} => rows[req[s].ns] # Absent

LocalsOK == \A s \in Slots : LocalsOf(s)

TypeInv == TypeOK /\ LocalsOK

-----------------------------------------------------------------------------
(* The order of the steps.                                                 *)

LEMMA StepOrder ==
  ASSUME NEW op \in Ops, NEW p \in Steps, HasStep(op, p), p # "commit",
         NEW q, q = AfterStep(op, p)
  PROVE  /\ HasStep(op, q) /\ q \in Steps
         /\ q \notin {"idle", "lookup", "insert", "find"}
         /\ q = "subscribe" => p = "kubeCreate" /\ op = "CreateNamespace"
         /\ q = "kubeCreate" => p = "insert"
         /\ q = "usage" => p = "lookup"
         /\ q = "resize" => p = "usage"
         /\ q = "setQuota" => p = "resize"
         /\ q = "rename" => p = "lookup"
         /\ q = "mark" => p = "lookup"
         /\ q = "markAll" => p = "find"
<1>1. CASE op \in {"CreateNamespace", "AdminCreateNamespace", "ImportNamespaces"}
  <2>1. q = AfterCreateStep(op, p)
    BY <1>1 DEF AfterStep
  <2>2. QED
    BY <1>1, <2>1 DEF HasStep, AfterCreateStep, Steps
<1>2. CASE op = "RenameNamespace"
  <2>1. q = AfterRenameStep(p)
    BY <1>2 DEF AfterStep
  <2>2. QED
    BY <1>2, <2>1 DEF HasStep, AfterRenameStep, Steps
<1>3. CASE op \in {"ResizeNamespace", "AdminResizeNamespace"}
  <2>1. q = AfterResizeStep(op, p)
    BY <1>3 DEF AfterStep
  <2>2. QED
    BY <1>3, <2>1 DEF HasStep, AfterResizeStep, Steps
<1>4. CASE op = "DeleteNamespace"
  <2>1. q = AfterDeleteStep(p)
    BY <1>4 DEF AfterStep
  <2>2. QED
    BY <1>4, <2>1 DEF HasStep, AfterDeleteStep, Steps
<1>5. CASE op = "DeleteAllUserNamespaces"
  <2>1. q = AfterDeleteAllStep(p)
    BY <1>5 DEF AfterStep
  <2>2. QED
    BY <1>5, <2>1 DEF HasStep, AfterDeleteAllStep, Steps
<1>6. QED
  BY <1>1, <1>2, <1>3, <1>4, <1>5 DEF Ops

\* Where each handler begins.
LEMMA FirstStepOf ==
  ASSUME NEW op \in Ops
  PROVE  /\ FirstStep(op) \in {"insert", "find", "lookup"}
         /\ HasStep(op, FirstStep(op))
  BY DEF Ops, HasStep, FirstStep

-----------------------------------------------------------------------------
(* Types.                                                                  *)

LEMMA RequestType ==
  ASSUME TypeInv, NEW s \in Slots, ~Idle(s)
  PROVE  /\ req[s] \in Requests /\ req[s] \in Request
         /\ HasStep(req[s].op, pc[s]) /\ pc[s] \in Steps
         /\ req[s].op \in Ops /\ req[s].ns \in Names /\ req[s].caller \in Users
  BY LifecycleAssumption DEF TypeInv, TypeOK, LocalsOK, LocalsOf, Request

\* Where the next step of a request leads.
LEMMA AdvanceType ==
  ASSUME TypeInv, NEW s \in Slots, ~Idle(s), ~At(s, "commit"), Advance(s)
  PROVE  /\ pc' \in [Slots -> Steps]
         /\ pc'[s] = AfterStep(req[s].op, pc[s])
         /\ HasStep(req[s].op, pc'[s])
         /\ pc'[s] \notin {"idle", "lookup", "insert", "find"}
         /\ \A t \in Slots \ {s} : pc'[t] = pc[t]
<1>1. pc[s] \in Steps /\ pc \in [Slots -> Steps]
  BY DEF TypeInv, TypeOK
<1>2. pc' = [pc EXCEPT ![s] = AfterStep(req[s].op, pc[s])]
  BY DEF Advance
<1>3. pc'[s] = AfterStep(req[s].op, pc[s])
  BY <1>1, <1>2
<1>4. /\ HasStep(req[s].op, pc'[s]) /\ pc'[s] \in Steps
      /\ pc'[s] \notin {"idle", "lookup", "insert", "find"}
  BY <1>1, <1>3, RequestType, StepOrder DEF At
<1>5. QED
  BY <1>1, <1>2, <1>3, <1>4

\* The shape of a step that only moves on: a call to a service, or a read.
LEMMA MoveType ==
  ASSUME TypeInv, NEW s \in Slots, ~Idle(s), ~At(s, "lookup"), ~At(s, "insert"),
         ~At(s, "commit"), ~At(s, "find"),
         Advance(s), rows' = rows, req' = req, ns' = ns
  PROVE  LocalsOK'
<1>1. PICK q : q = AfterStep(req[s].op, pc[s])
  OBVIOUS
<1>2. /\ pc'[s] = q /\ HasStep(req[s].op, q)
      /\ \A t \in Slots \ {s} : pc'[t] = pc[t]
  BY <1>1, AdvanceType
<1>3. /\ q = "subscribe" => pc[s] = "kubeCreate" /\ req[s].op = "CreateNamespace"
      /\ q \notin {"kubeCreate", "usage", "rename"}
      /\ q = "resize" => pc[s] = "usage"
      /\ q = "setQuota" => pc[s] = "resize"
  BY <1>1, RequestType, StepOrder DEF At
<1>4. ASSUME NEW t \in Slots PROVE LocalsOf(t)'
  <2>1. CASE t = s
    BY <1>2, <1>3, <2>1 DEF LocalsOK, LocalsOf, TypeInv, Idle, At
  <2>2. CASE t # s
    BY <1>2, <2>2 DEF LocalsOK, LocalsOf, TypeInv, Idle, At
  <2>3. QED
    BY <2>1, <2>2
<1>5. QED
  BY <1>4 DEF LocalsOK

\* A call of a service, with its effect within its type.
LEMMA CallType ==
  ASSUME TypeInv, NEW s \in Slots, ~Idle(s), ~At(s, "lookup"), ~At(s, "insert"),
         ~At(s, "commit"), ~At(s, "find"), Called(s),
         kube' \in [Names -> Quotas \union {Gone}],
         sub' \in [Names -> [label : Labels, tariff : Tariffs] \union {Gone}],
         inside' \in [Names -> SUBSET Contents]
  PROVE  TypeInv'
<1>1. LocalsOK'
  BY MoveType DEF Called
<1>2. TypeOK'
  BY AdvanceType DEF TypeInv, TypeOK, Called
<1>3. QED
  BY <1>1, <1>2 DEF TypeInv

\* A request ends, by a commit or a rollback.
LEMMA EndType ==
  ASSUME TypeInv, NEW s \in Slots, Finish(s), UNCHANGED services,
         rows' = rows \/ rows' = View(s)
  PROVE  TypeInv' /\ \A n \in Names : rows[n] # Absent => rows'[n] # Absent
<1>1. rows' \in [Names -> Row \union {Absent}]
  BY DEF TypeInv, TypeOK, View
<1>2. ASSUME NEW n \in Names, rows[n] # Absent PROVE rows'[n] # Absent
  BY <1>2, LifecycleAssumption DEF TypeInv, TypeOK, View
<1>3. Nothing \in [Names -> Row \union {Unwritten}]
  BY DEF Nothing
<1>4. TypeOK'
  BY <1>1, <1>3 DEF TypeInv, TypeOK, Finish, services, Steps
<1>5. ASSUME NEW t \in Slots PROVE LocalsOf(t)'
  <2>1. CASE t = s
    BY <2>1 DEF LocalsOf, Finish, Idle, At, TypeInv, TypeOK
  <2>2. CASE t # s
    <3>1. LocalsOf(t) /\ pc'[t] = pc[t] /\ req'[t] = req[t] /\ ns'[t] = ns[t]
      BY <2>2 DEF TypeInv, TypeOK, LocalsOK, Finish
    <3>2. pc[t] \in {"rename", "usage", "resize"} => req[t].ns \in Names
      BY RequestType DEF Idle
    <3>3. QED
      BY <1>2, <3>1, <3>2 DEF LocalsOf, Idle, At
  <2>3. QED
    BY <2>1, <2>2
<1>6. QED
  BY <1>2, <1>4, <1>5 DEF TypeInv, LocalsOK

LEMMA RollbackType ==
  ASSUME TypeInv, NEW s \in Slots, Rollback(s)
  PROVE  TypeInv'
  BY EndType DEF Rollback

LEMMA BeginType ==
  ASSUME TypeInv, NEW s \in Slots, NEW r \in Requests, Begin(s, r)
  PROVE  TypeInv'
<1>1. r.op \in Ops
  BY LifecycleAssumption DEF Request
<1>2. /\ FirstStep(r.op) \in {"insert", "find", "lookup"}
      /\ HasStep(r.op, FirstStep(r.op))
  BY <1>1, FirstStepOf
<1>3. TypeOK'
  BY <1>2 DEF TypeInv, TypeOK, Begin, services, Steps
<1>4. LocalsOK'
  BY <1>2 DEF TypeInv, TypeOK, LocalsOK, LocalsOf, Begin, Idle, At
<1>5. QED
  BY <1>3, <1>4 DEF TypeInv

LEMMA InitType == Init => TypeInv
<1> SUFFICES ASSUME Init PROVE TypeInv
  OBVIOUS
<1>1. rows \in [Names -> Row \union {Absent}]
  BY LifecycleAssumption DEF Init
<1>2. sub \in [Names -> [label : Labels, tariff : Tariffs] \union {Gone}]
  BY LifecycleAssumption DEF Init, Row
<1>3. inside \in [Names -> SUBSET Contents]
  BY DEF Init
<1>4. pend \in [Slots -> [Names -> Row \union {Unwritten}]]
  BY DEF Init, Nothing
<1>5. TypeOK
  BY <1>1, <1>2, <1>3, <1>4 DEF Init, TypeOK, Steps
<1>6. LocalsOK
  BY DEF Init, LocalsOK, LocalsOf, Idle, At
<1>7. QED
  BY <1>5, <1>6 DEF TypeInv

\* A row a request writes is a row, and its request goes on to a call.
LEMMA WriteType ==
  ASSUME TypeInv, NEW s \in Slots, ~Idle(s), ~At(s, "lookup"), ~At(s, "commit"),
         ~At(s, "find"), NEW n \in Names, NEW row \in Row, Write(s, n, row),
         req[s].op = "CreateNamespace" => row.tariff \in Tariffs
  PROVE  TypeInv'
<1>1. PICK q : q = AfterStep(req[s].op, pc[s])
  OBVIOUS
<1>2. /\ pc'[s] = q /\ HasStep(req[s].op, q) /\ pc' \in [Slots -> Steps]
      /\ \A t \in Slots \ {s} : pc'[t] = pc[t]
  BY <1>1, AdvanceType DEF Write
<1>3. /\ q = "subscribe" => pc[s] = "kubeCreate" /\ req[s].op = "CreateNamespace"
      /\ q # "usage" /\ q # "rename"
      /\ q = "resize" => pc[s] = "usage"
  BY <1>1, RequestType, StepOrder DEF At
<1>4. TypeOK'
  BY <1>2 DEF TypeInv, TypeOK, Write, services
<1>5. ASSUME NEW t \in Slots PROVE LocalsOf(t)'
  <2>1. CASE t = s
    <3>1. ns'[s] = row /\ rows' = rows /\ req' = req
      BY DEF TypeInv, TypeOK, Write
    <3>2. LocalsOf(s)
      BY DEF TypeInv, LocalsOK
    <3>3. QED
      BY <1>2, <1>3, <2>1, <3>1, <3>2 DEF LocalsOf, Idle, At
  <2>2. CASE t # s
    BY <1>2, <2>2 DEF TypeInv, TypeOK, LocalsOK, LocalsOf, Idle, At, Write
  <2>3. QED
    BY <2>1, <2>2
<1>6. QED
  BY <1>4, <1>5 DEF TypeInv, LocalsOK

LEMMA InsertType ==
  ASSUME TypeInv, NEW s \in Slots, Insert(s)
  PROVE  TypeInv' /\ NewRow(req[s]) \in Row
<1> DEFINE r == req[s]
<1>1. ~Idle(s) /\ At(s, "insert")
  BY DEF Insert, Idle, At
<1>2. r \in Requests /\ r \in Request /\ HasStep(r.op, "insert") /\ r.op \in Ops
  BY <1>1, RequestType DEF At
<1>3. r.op \in {"CreateNamespace", "AdminCreateNamespace", "ImportNamespaces"}
  BY <1>2 DEF HasStep
<1>4. NewRow(r).quota \in Quotas
  BY <1>2, <1>3, LifecycleAssumption DEF NewRow, Request, Quotas
<1>5. NewRow(r) \in Row
  BY <1>2, <1>4 DEF NewRow, Request, Row
<1>6. r.op = "CreateNamespace" => NewRow(r).tariff \in Tariffs
  BY <1>2 DEF NewRow, Request
<1>7. r.ns \in Names
  BY <1>2 DEF Request
<1>8. QED
  BY <1>1, <1>5, <1>6, <1>7, WriteType DEF Insert, At

\* Renaming keeps whether the row is live.
LEMMA RenameType ==
  ASSUME TypeInv, NEW s \in Slots, Rename(s)
  PROVE  /\ TypeInv' /\ rows[req[s].ns] \in Row
         /\ [rows[req[s].ns] EXCEPT !.label = req[s].label] \in Row
<1> DEFINE r == req[s]
<1>1. ~Idle(s) /\ At(s, "rename")
  BY DEF Rename, Idle, At
<1>2. r \in Request /\ HasStep(r.op, "rename") /\ r.op \in Ops /\ r.ns \in Names
  BY <1>1, RequestType DEF At
<1>3. r.op = "RenameNamespace"
  BY <1>2 DEF HasStep
<1>4. rows[r.ns] \in Row
  BY <1>1, <1>2 DEF TypeInv, TypeOK, LocalsOK, LocalsOf, At
<1>5. [rows[r.ns] EXCEPT !.label = r.label] \in Row
  BY <1>2, <1>4 DEF Row, Request
<1>6. QED
  BY <1>1, <1>2, <1>3, <1>4, <1>5, WriteType DEF Rename, At

LEMMA ResizedType ==
  ASSUME NEW r \in Request, NEW row \in Row
  PROVE  Resized(r, row) \in Row
<1>1. CASE r.op = "ResizeNamespace"
  <2>1. PlanOf[r.tariff] \in Quotas /\ r.tariff \in Tariffs
    BY LifecycleAssumption DEF Request
  <2>2. QED
    BY <1>1, <2>1 DEF Resized, Row, Quotas
<1>2. CASE r.op # "ResizeNamespace"
  <2>1. Given(r.size, row.quota.size) \in Sizes /\ Given(r.ext, row.quota.ext) \in Sizes
    BY DEF Given, Request, Row, Quotas
  <2>2. QED
    BY <1>2, <2>1 DEF Resized, Row, Quotas
<1>3. QED
  BY <1>1, <1>2

LEMMA LookupType ==
  ASSUME TypeInv, NEW s \in Slots, Lookup(s)
  PROVE  TypeInv'
<1>1. ~Idle(s) /\ At(s, "lookup")
  BY DEF Lookup, Idle, At
<1>2. /\ req[s] \in Request /\ req[s].ns \in Names
      /\ HasStep(req[s].op, "lookup") /\ req[s].op \in Ops
  BY <1>1, RequestType DEF At
<1>3. rows[req[s].ns] \in Row
  BY DEF Lookup, IsLive
<1>4. Resized(req[s], rows[req[s].ns]) \in Row
  BY <1>2, <1>3, ResizedType
<1>5. /\ ns' \in [Slots -> Row \union {Absent}] /\ ns'[s] \in Row
      /\ \A t \in Slots \ {s} : ns'[t] = ns[t]
  BY <1>3, <1>4 DEF TypeInv, TypeOK, Lookup
<1>6. PICK q : q = AfterStep(req[s].op, pc[s])
  OBVIOUS
<1>7. /\ pc'[s] = q /\ HasStep(req[s].op, q) /\ pc' \in [Slots -> Steps]
      /\ q # "idle"
      /\ \A t \in Slots \ {s} : pc'[t] = pc[t]
  BY <1>1, <1>6, AdvanceType DEF Lookup, At
<1>8. q \notin {"subscribe", "kubeCreate"}
  BY <1>1, <1>2, <1>6, StepOrder DEF At, Steps
<1>9. TypeOK'
  BY <1>5, <1>7 DEF TypeInv, TypeOK, Lookup, services
<1>10. ASSUME NEW t \in Slots PROVE LocalsOf(t)'
  <2>1. CASE t = s
    <3>1. /\ rows' = rows /\ req' = req /\ req[s] \in Requests
          /\ rows[req[s].ns] # Absent
      BY <1>1, <1>3, RequestType, LifecycleAssumption DEF Lookup
    <3>2. QED
      BY <1>5, <1>7, <1>8, <2>1, <3>1 DEF LocalsOf, Idle, At
  <2>2. CASE t # s
    BY <1>5, <1>7, <2>2 DEF TypeInv, LocalsOK, LocalsOf, Idle, At, Lookup
  <2>3. QED
    BY <2>1, <2>2
<1>11. QED
  BY <1>9, <1>10 DEF TypeInv, LocalsOK

\* Resizing keeps whether the row is live, and its label.
LEMMA ResizeType ==
  ASSUME TypeInv, NEW s \in Slots, Resize(s)
  PROVE  /\ TypeInv' /\ rows[req[s].ns] \in Row
         /\ LET row == rows[req[s].ns] IN
              /\ ResizedRow(s, row) \in Row
              /\ ResizedRow(s, row).live = row.live
              /\ ResizedRow(s, row).label = row.label
<1> DEFINE row == rows[req[s].ns]
<1>1. ~Idle(s) /\ At(s, "resize")
  BY DEF Resize, Idle, At
<1>2. req[s].ns \in Names /\ row \in Row /\ ns[s] \in Row
  BY <1>1, RequestType DEF TypeInv, TypeOK, LocalsOK, LocalsOf, At
<1>3. /\ ResizedRow(s, row) \in Row
      /\ ResizedRow(s, row).live = row.live
      /\ ResizedRow(s, row).label = row.label
  BY <1>2 DEF ResizedRow, Row
<1>4. /\ pend' \in [Slots -> [Names -> Row \union {Unwritten}]]
      /\ UNCHANGED <<rows, kube, sub, inside, req, ns, found>>
      /\ Advance(s)
  BY <1>2, <1>3 DEF TypeInv, TypeOK, Resize, services
<1>5. LocalsOK'
  BY <1>1, <1>4, MoveType DEF At
<1>6. TypeOK'
  BY <1>1, <1>4, AdvanceType DEF TypeInv, TypeOK, At
<1>7. QED
  BY <1>2, <1>3, <1>5, <1>6 DEF TypeInv

LEMMA MarkDeletedType ==
  ASSUME TypeInv, NEW s \in Slots, MarkDeleted(s)
  PROVE  /\ TypeInv' /\ rows[req[s].ns] \in Row /\ req[s].ns \in Names
         /\ [rows[req[s].ns] EXCEPT !.live = FALSE] \in Row
<1> DEFINE gone == [rows[req[s].ns] EXCEPT !.live = FALSE]
<1>1. ~Idle(s) /\ At(s, "mark") /\ rows[req[s].ns] \in Row
  BY DEF MarkDeleted, Idle, At, IsLive
<1>2. /\ req[s].ns \in Names /\ req[s].op \in Ops /\ HasStep(req[s].op, "mark")
  BY <1>1, RequestType DEF At
<1>3. gone \in Row
  BY <1>1 DEF Row
<1>4. /\ pend' \in [Slots -> [Names -> Row \union {Unwritten}]]
      /\ ns' \in [Slots -> Row \union {Absent}] /\ ns'[s] \in Row
      /\ \A t \in Slots \ {s} : ns'[t] = ns[t]
      /\ found' \in [Slots -> SUBSET Names]
      /\ UNCHANGED <<rows, kube, sub, inside, req>>
      /\ Advance(s)
  BY <1>2, <1>3 DEF TypeInv, TypeOK, MarkDeleted, services
<1>5. PICK q : q = AfterStep(req[s].op, pc[s])
  OBVIOUS
<1>6. /\ pc'[s] = q /\ HasStep(req[s].op, q) /\ pc' \in [Slots -> Steps]
      /\ q \notin {"idle", "subscribe", "kubeCreate", "rename", "usage", "resize"}
      /\ \A t \in Slots \ {s} : pc'[t] = pc[t]
  BY <1>1, <1>2, <1>4, <1>5, AdvanceType, StepOrder DEF At, Steps
<1>7. TypeOK'
  BY <1>4, <1>6 DEF TypeInv, TypeOK
<1>8. ASSUME NEW t \in Slots PROVE LocalsOf(t)'
  <2>1. CASE t = s
    BY <1>1, <1>4, <1>6, <2>1, RequestType DEF LocalsOf, Idle, At
  <2>2. CASE t # s
    BY <1>4, <1>6, <2>2 DEF TypeInv, LocalsOK, LocalsOf, Idle, At
  <2>3. QED
    BY <2>1, <2>2
<1>9. QED
  BY <1>1, <1>2, <1>3, <1>7, <1>8 DEF TypeInv, LocalsOK

LEMMA FindType ==
  ASSUME TypeInv, NEW s \in Slots, Find(s)
  PROVE  TypeInv' /\ At(s, "markAll")'
<1>1. ~Idle(s) /\ At(s, "find")
  BY DEF Find, Idle, At
<1>2. req[s].op \in Ops /\ HasStep(req[s].op, "find")
  BY <1>1, RequestType DEF At
<1>3. AfterStep(req[s].op, "find") = "markAll"
  <2>1. req[s].op = "DeleteAllUserNamespaces"
    BY <1>2 DEF HasStep
  <2>2. AfterStep(req[s].op, "find") = AfterDeleteAllStep("find")
    BY <2>1 DEF AfterStep
  <2>3. QED
    BY <2>2 DEF AfterDeleteAllStep
<1>4. /\ found' \in [Slots -> SUBSET Names]
      /\ UNCHANGED <<rows, pend, kube, sub, inside, req, ns>>
      /\ Advance(s)
  BY DEF TypeInv, TypeOK, Find, services
<1>5. /\ pc'[s] = "markAll" /\ HasStep(req[s].op, "markAll")
      /\ pc' \in [Slots -> Steps]
      /\ \A t \in Slots \ {s} : pc'[t] = pc[t]
  BY <1>1, <1>3, <1>4, AdvanceType DEF At
<1>6. TypeOK'
  BY <1>4, <1>5 DEF TypeInv, TypeOK
<1>7. ASSUME NEW t \in Slots PROVE LocalsOf(t)'
  <2>1. CASE t = s
    BY <1>1, <1>4, <1>5, <2>1, RequestType DEF LocalsOf, Idle, At
  <2>2. CASE t # s
    BY <1>4, <1>5, <2>2 DEF TypeInv, LocalsOK, LocalsOf, Idle, At
  <2>3. QED
    BY <2>1, <2>2
<1>8. QED
  BY <1>5, <1>6, <1>7 DEF TypeInv, LocalsOK, At

LEMMA MarkAllType ==
  ASSUME TypeInv, NEW s \in Slots, MarkAll(s)
  PROVE  /\ TypeInv'
         /\ StillLive(s) \subseteq Names
         /\ \A n \in StillLive(s) : /\ rows[n] \in Row
                                    /\ [rows[n] EXCEPT !.live = FALSE] \in Row
<1>1. ~Idle(s) /\ At(s, "markAll")
  BY DEF MarkAll, Idle, At
<1>2. StillLive(s) \subseteq Names
  BY DEF StillLive, TypeInv, TypeOK
<1>3. ASSUME NEW n \in StillLive(s)
      PROVE  rows[n] \in Row /\ [rows[n] EXCEPT !.live = FALSE] \in Row
  <2>1. rows[n] \in Row
    BY DEF StillLive, IsLive
  <2>2. [rows[n] EXCEPT !.live = FALSE] \in Row
    BY <2>1 DEF Row
  <2>3. QED
    BY <2>1, <2>2
<1>4. /\ pend' \in [Slots -> [Names -> Row \union {Unwritten}]]
      /\ found' \in [Slots -> SUBSET Names]
      /\ UNCHANGED <<rows, kube, sub, inside, req, ns>>
      /\ Advance(s)
  BY <1>2, <1>3 DEF TypeInv, TypeOK, MarkAll, services
<1>5. LocalsOK'
  BY <1>1, <1>4, MoveType DEF At
<1>6. TypeOK'
  BY <1>1, <1>4, AdvanceType DEF TypeInv, TypeOK, At
<1>7. QED
  BY <1>2, <1>3, <1>5, <1>6 DEF TypeInv

\* The calls.
LEMMA KubeCallType ==
  ASSUME TypeInv, NEW s \in Slots,
         \/ CheckUsage(s) \/ KubeCreate(s) \/ SetQuota(s) \/ KubeDelete(s)
         \/ DeleteUserNamespaces(s)
  PROVE  TypeInv'
<1>1. /\ Called(s)
      /\ pc[s] \in {"usage", "kubeCreate", "setQuota", "kubeDelete", "userKube"}
  BY DEF CheckUsage, KubeCreate, SetQuota, KubeDelete, DeleteUserNamespaces, At
<1>2. pc[s] \in {"kubeCreate", "setQuota"} => ns[s].quota \in Quotas
  BY DEF TypeInv, LocalsOK, LocalsOf, Row
<1>3. kube' \in [Names -> Quotas \union {Gone}] /\ sub' = sub /\ inside' = inside
  BY <1>2 DEF TypeInv, TypeOK, services, At,
     CheckUsage, KubeCreate, SetQuota, KubeDelete, DeleteUserNamespaces
<1>4. QED
  BY <1>1, <1>3, CallType DEF TypeInv, TypeOK, Idle, At

LEMMA BillingCallType ==
  ASSUME TypeInv, NEW s \in Slots,
         \/ Subscribe(s) \/ BillingRename(s) \/ UpdateSubscription(s)
         \/ MassiveUnsubscribe(s)
  PROVE  TypeInv'
<1> DEFINE Subscription == [label : Labels, tariff : Tariffs]
<1>1. /\ Called(s)
      /\ pc[s] \in {"subscribe", "billingRename", "updateSubscription", "unsubscribe"}
      /\ kube' = kube /\ inside' = inside
  BY DEF Subscribe, BillingRename, UpdateSubscription, MassiveUnsubscribe, At
<1>2. ~Idle(s) /\ req[s].ns \in Names /\ req[s].label \in Labels /\ req[s].tariff \in Tariffs
  BY <1>1, RequestType DEF Idle, Request
<1>3. sub \in [Names -> Subscription \union {Gone}]
  BY DEF TypeInv, TypeOK
<1>4. ASSUME Subscribe(s) PROVE sub' \in [Names -> Subscription \union {Gone}]
  <2>1. ns[s] \in Row /\ ns[s].tariff \in Tariffs
    BY <1>4 DEF Subscribe, TypeInv, LocalsOK, LocalsOf, At
  <2>2. [label |-> ns[s].label, tariff |-> ns[s].tariff] \in Subscription
    BY <2>1 DEF Row
  <2>3. QED
    BY <1>3, <1>4, <2>2 DEF Subscribe
<1>5. ASSUME BillingRename(s) \/ UpdateSubscription(s)
      PROVE  sub' \in [Names -> Subscription \union {Gone}]
  <2>1. CASE sub[req[s].ns] = Gone
    BY <1>3, <1>5, <2>1 DEF BillingRename, UpdateSubscription
  <2>2. CASE sub[req[s].ns] # Gone
    <3> DEFINE old == sub[req[s].ns]
    <3>1. old \in Subscription
      BY <1>2, <1>3, <2>2
    <3>2. /\ [old EXCEPT !.label = req[s].label] \in Subscription
          /\ [old EXCEPT !.tariff = req[s].tariff] \in Subscription
      BY <1>2, <3>1
    <3>3. \/ sub' = [sub EXCEPT ![req[s].ns] = [old EXCEPT !.label = req[s].label]]
          \/ sub' = [sub EXCEPT ![req[s].ns] = [old EXCEPT !.tariff = req[s].tariff]]
      BY <1>5, <2>2 DEF BillingRename, UpdateSubscription
    <3>4. QED
      BY <1>3, <3>2, <3>3
  <2>3. QED
    BY <2>1, <2>2
<1>6. ASSUME MassiveUnsubscribe(s) PROVE sub' \in [Names -> Subscription \union {Gone}]
  BY <1>3, <1>6 DEF MassiveUnsubscribe
<1>7. sub' \in [Names -> Subscription \union {Gone}]
  BY <1>4, <1>5, <1>6
<1>8. QED
  BY <1>1, <1>7, CallType DEF TypeInv, TypeOK, Idle, At

Deletions(s) ==
  \/ ResizeVolumes(s)
  \/ DeleteNamespaceSolutions(s) \/ DeleteNamespaceResources(s) \/ DeleteNamespaceVolumes(s)
  \/ DeleteUserSolutions(s) \/ DeleteUserResources(s) \/ DeleteAllUserVolumes(s)

\* Whatever is deleted of what the other services hold, the rest stays.
LEMMA DeletionsEmpty ==
  ASSUME NEW s \in Slots, Deletions(s)
  PROVE  /\ Called(s) /\ kube' = kube /\ sub' = sub
         /\ pc[s] \in {"volumes", "solutions", "resources", "nsVolumes",
                       "userSolutions", "userResources", "userVolumes"}
         /\ \E which, what : Empty(s, which, what)
<1>1. \E which, what : Empty(s, which, what)
  BY Zenon DEF Deletions, ResizeVolumes, DeleteNamespaceSolutions,
     DeleteNamespaceResources, DeleteNamespaceVolumes, DeleteUserSolutions,
     DeleteUserResources, DeleteAllUserVolumes
<1>2. Called(s) /\ kube' = kube /\ sub' = sub
  BY <1>1 DEF Empty
<1>3. pc[s] \in {"volumes", "solutions", "resources", "nsVolumes",
                 "userSolutions", "userResources", "userVolumes"}
  BY DEF Deletions, ResizeVolumes, DeleteNamespaceSolutions,
     DeleteNamespaceResources, DeleteNamespaceVolumes, DeleteUserSolutions,
     DeleteUserResources, DeleteAllUserVolumes, At
<1>4. QED
  BY <1>1, <1>2, <1>3

LEMMA DeletionsType ==
  ASSUME TypeInv, NEW s \in Slots, Deletions(s)
  PROVE  TypeInv' /\ \A n \in Names : inside'[n] \subseteq inside[n]
<1>1. PICK which, what : Empty(s, which, what)
  BY DeletionsEmpty
<1>2. /\ inside' \in [Names -> SUBSET Contents]
      /\ \A n \in Names : inside'[n] \subseteq inside[n]
  BY <1>1 DEF Empty, TypeInv, TypeOK
<1>3. QED
  BY <1>2, DeletionsEmpty, CallType DEF TypeInv, TypeOK, Idle, At

\* The steps that end a request without an effect.
Refusals(s) ==
  \/ NotFound(s) \/ InsertRefused(s) \/ RenameRefused(s) \/ MarkRefused(s)
  \/ NothingFound(s) \/ UsageExceeded(s) \/ NotThere(s) \/ Fail(s)

LEMMA RefusalsRollback ==
  ASSUME NEW s \in Slots, Refusals(s)
  PROVE  Rollback(s)
  BY DEF Refusals, NotFound, InsertRefused, RenameRefused, MarkRefused,
     NothingFound, UsageExceeded, NotThere, Fail

KubeCalls(s) ==
  CheckUsage(s) \/ KubeCreate(s) \/ SetQuota(s) \/ KubeDelete(s) \/ DeleteUserNamespaces(s)
BillingCalls(s) ==
  Subscribe(s) \/ BillingRename(s) \/ UpdateSubscription(s) \/ MassiveUnsubscribe(s)

\* What the proofs distinguish in a step of the system.
LEMMA NextCases ==
  ASSUME Next
  PROVE  \/ \E s \in Slots :
              \/ Refusals(s) \/ Commit(s) \/ Lookup(s) \/ Insert(s) \/ Rename(s)
              \/ Resize(s) \/ MarkDeleted(s) \/ Find(s) \/ MarkAll(s)
              \/ KubeCalls(s) \/ BillingCalls(s) \/ Deletions(s)
              \/ \E r \in Requests : Begin(s, r)
         \/ Crash
  BY Zenon DEF Next, Statement, Call, Refusals, KubeCalls, BillingCalls, Deletions

LEMMA CrashType ==
  ASSUME TypeInv, Crash
  PROVE  TypeInv'
<1>1. Nothing \in [Names -> Row \union {Unwritten}]
  BY DEF Nothing
<1>2. TypeOK'
  BY <1>1 DEF TypeInv, TypeOK, Crash, services, Steps
<1>3. LocalsOK'
  BY DEF Crash, LocalsOK, LocalsOf, Idle, At
<1>4. QED
  BY <1>2, <1>3 DEF TypeInv

LEMMA NextType == TypeInv /\ [Next]_vars => TypeInv'
<1> SUFFICES ASSUME TypeInv, [Next]_vars PROVE TypeInv'
  OBVIOUS
<1>1. CASE UNCHANGED vars
  BY <1>1 DEF TypeInv, TypeOK, LocalsOK, LocalsOf, Idle, At, vars, services, locals
<1>2. CASE Crash
  BY <1>2, CrashType
<1>3. ASSUME NEW s \in Slots, NEW r \in Requests, Begin(s, r) PROVE TypeInv'
  BY <1>3, BeginType
<1>4. ASSUME NEW s \in Slots, Refusals(s) PROVE TypeInv'
  BY <1>4, RefusalsRollback, RollbackType
<1>5. ASSUME NEW s \in Slots, Commit(s) PROVE TypeInv'
  BY <1>5, EndType DEF Commit
<1>6. ASSUME NEW s \in Slots,
             \/ Lookup(s) \/ Insert(s) \/ Rename(s) \/ Resize(s)
             \/ MarkDeleted(s) \/ Find(s) \/ MarkAll(s)
      PROVE  TypeInv'
  BY <1>6, LookupType, InsertType, RenameType, ResizeType, MarkDeletedType,
     FindType, MarkAllType
<1>7. ASSUME NEW s \in Slots, KubeCalls(s) \/ BillingCalls(s) \/ Deletions(s)
      PROVE  TypeInv'
  BY <1>7, KubeCallType, BillingCallType, DeletionsType DEF KubeCalls, BillingCalls
<1>8. QED
  BY <1>1, <1>2, <1>3, <1>4, <1>5, <1>6, <1>7, NextCases

(* Every variable keeps its type, and a request in progress is at one of   *)
(* the steps of its handler and has found the row it is about to change.   *)
THEOREM LifecycleTypes == Spec => [](TypeOK /\ LocalsOK)
<1>1. TypeInv => TypeOK /\ LocalsOK
  BY DEF TypeInv
<1>2. QED
  BY <1>1, InitType, NextType, PTL DEF Spec
=============================================================================
