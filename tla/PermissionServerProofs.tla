----------------------- MODULE PermissionServerProofs -----------------------
(***************************************************************************)
(* Safety of PermissionServer, for every set of users, namespaces,         *)
(* groups, slots and requests.                                             *)
(***************************************************************************)
EXTENDS PermissionServer, TLAPS

(* The CASE of SetUserAccesses on a row whose current level is within its  *)
(* initial one yields the lower of the initial level and the limit.        *)
LEMMA LimitIsMinimum ==
  ASSUME NEW init \in Levels, NEW cur \in Levels, NEW l \in Levels, cur <= init
  PROVE  /\ LimitedLevel(init, cur, l) \in Levels
         /\ LimitedLevel(init, cur, l) = LowerOf(init, l)
         /\ LimitedLevel(init, cur, l) <= init
BY DEF LimitedLevel, LowerOf, Levels, None, Owner

LEMMA LimitedLevelType ==
  ASSUME NEW init \in Levels, NEW cur \in Levels, NEW l \in Levels
  PROVE  LimitedLevel(init, cur, l) \in Levels
BY DEF LimitedLevel, Levels, None, Owner

LEMMA RowTypes ==
  /\ OwnerRow \in Row
  /\ \A l \in Levels, g \in Groups \union {NoGroup} : ListedRow(l, g) \in Row
  /\ \A l \in Levels, old \in RowOrNone : GrantedRow(old, l) \in Row
  /\ \A l \in Levels, row \in Row : LimitedRow(row, l) \in Row
<1>1. OwnerRow \in Row
  BY DEF OwnerRow, Row, Levels, None, Owner
<1>2. ASSUME NEW l \in Levels, NEW g \in Groups \union {NoGroup}
      PROVE  ListedRow(l, g) \in Row
  BY DEF ListedRow, Row, Least, Levels, None, Owner
<1>3. ASSUME NEW l \in Levels, NEW old \in RowOrNone
      PROVE  GrantedRow(old, l) \in Row
  BY DEF GrantedRow, Row, RowOrNone, Least, Levels, None, Owner
<1>4. ASSUME NEW l \in Levels, NEW row \in Row
      PROVE  LimitedRow(row, l) \in Row
  BY LimitedLevelType DEF LimitedRow, Row
<1>5. QED
  BY <1>1, <1>2, <1>3, <1>4

LEMMA LocalTypes ==
  /\ NobodyGranted \in Grants
  /\ EmptyList \in [Namespaces -> Levels \union {NoAccess}]
  /\ \A u \in Users, l \in Levels : OneGrant(u, l) \in Grants
  /\ \A g \in Groups : OtherMembers(g) \in Grants
<1>1. NobodyGranted \in Grants
  BY DEF NobodyGranted, Grants
<1>2. EmptyList \in [Namespaces -> Levels \union {NoAccess}]
  BY DEF EmptyList
<1>3. \A u \in Users, l \in Levels : OneGrant(u, l) \in Grants
  BY <1>1 DEF OneGrant, Grants
<1>4. \A g \in Groups : OtherMembers(g) \in Grants
  BY ServerAssumption DEF OtherMembers, Grants
<1>5. QED
  BY <1>1, <1>2, <1>3, <1>4

LEMMA ViewTypes ==
  ASSUME TypeOK, NEW s \in Slots
  PROVE  /\ PermView(s) \in [Keys -> RowOrNone]
         /\ NsView(s) \in [Namespaces -> {"absent", "live", "deleted"}]
BY DEF TypeOK, PermView, NsView

LEMMA UserAccessesType ==
  ASSUME NEW tab \in [Keys -> RowOrNone],
         NEW nsTab \in [Namespaces -> {"absent", "live", "deleted"}],
         NEW u \in Users
  PROVE  UserAccesses(tab, nsTab, u) \in [Namespaces -> Levels \union {NoAccess}]
<1>1. ASSUME NEW n \in Namespaces, tab[<<u, n>>] # NoRow
      PROVE  tab[<<u, n>>].cur \in Levels
  BY <1>1 DEF Keys, RowOrNone, Row
<1>2. QED
  BY <1>1 DEF UserAccesses

TypeInv == TypeOK /\ LocalsOK

LEMMA RequestTypes ==
  ASSUME TypeInv, NEW s \in Slots, pc[s] # "idle"
  PROVE  /\ req[s] \in Requests
         /\ req[s].op \in Ops
         /\ req[s].caller \in Users
         /\ req[s].ns \in Namespaces
         /\ req[s].target \in Users
         /\ req[s].level \in Levels
         /\ req[s].group \in Groups
BY ServerAssumption DEF TypeInv, LocalsOK, Request

-----------------------------------------------------------------------------
(* Each action preserves the types and the facts about locals.             *)

\* The steps that give up for a reason of the handler's own.
Refused(s) ==
  \/ LookupRefused(s) \/ Unstorable(s) \/ CreateRefused(s)
  \/ NothingToDelete(s) \/ RenameRefused(s)

LEMMA RollbackType ==
  ASSUME TypeInv, NEW s \in Slots, Rollback(s)
  PROVE  TypeInv'
<1> USE DEF TypeInv, Rollback, Return, Release, Goto, tables
<1>1. TypeOK'
  BY LocalTypes DEF TypeOK, Steps
<1>2. LocalsOK'
  BY DEF TypeOK, LocalsOK
<1>3. QED
  BY <1>1, <1>2

LEMMA BeginType ==
  ASSUME TypeInv, NEW s \in Slots, NEW r \in Requests, Begin(s, r)
  PROVE  TypeInv'
<1> USE DEF TypeInv, Begin, Goto, tables, writes
<1>1. r.target \in Users /\ r.caller \in Users
  BY ServerAssumption DEF Request
<1>2. Audience(r) \in SUBSET Users
  BY <1>1 DEF Audience
<1>3. /\ FirstStep(r.op) \in {"nsInsert", "nsScan", "scan", "lookup"}
      /\ FirstStep(r.op) = "nsScan" => r.op # "RenameNamespace"
  BY DEF FirstStep
<1>4. TypeOK'
  BY <1>2, <1>3 DEF TypeOK, Steps
<1>5. LocalsOK'
  BY <1>3 DEF TypeOK, LocalsOK
<1>6. QED
  BY <1>4, <1>5

LEMMA LookupType ==
  ASSUME TypeInv, NEW s \in Slots, Lookup(s)
  PROVE  TypeInv'
<1> USE DEF TypeInv, Lookup, Goto, tables, writes
<1>1. OneGrant(req[s].target, req[s].level) \in Grants
  BY RequestTypes, LocalTypes
<1>2. OwnerMembers(req[s].group) \in SUBSET Users
  BY DEF OwnerMembers
<1>3. pc' \in [Slots -> Steps]
  BY DEF TypeOK, Steps
<1>4. grants' \in [Slots -> Grants]
  BY <1>1 DEF TypeOK
<1>5. users' \in [Slots -> SUBSET Users]
  BY <1>2 DEF TypeOK
<1>6. TypeOK'
  BY <1>3, <1>4, <1>5 DEF TypeOK
<1>7. LocalsOK'
  BY DEF TypeOK, LocalsOK
<1>8. QED
  BY <1>6, <1>7

LEMMA MemberTypes ==
  ASSUME TypeInv, NEW s \in Slots, PickMember(s) \/ NoMoreOwners(s)
  PROVE  TypeInv'
<1> USE DEF TypeInv, Goto, tables, writes
<1>1. CASE PickMember(s)
  <2>1. \A u \in Users : OneGrant(u, Owner) \in Grants
    BY LocalTypes DEF Levels, None, Owner
  <2>2. TypeOK'
    BY <1>1, <2>1 DEF TypeOK, Steps, PickMember
  <2>3. LocalsOK'
    BY <1>1 DEF TypeOK, LocalsOK, PickMember
  <2>4. QED
    BY <2>2, <2>3
<1>2. CASE NoMoreOwners(s)
  <2>1. OtherMembers(req[s].group) \in Grants
    BY <1>2, RequestTypes, LocalTypes DEF NoMoreOwners
  <2>2. TypeOK'
    BY <1>2, <2>1 DEF TypeOK, Steps, NoMoreOwners
  <2>3. LocalsOK'
    BY <1>2 DEF TypeOK, LocalsOK, NoMoreOwners
  <2>4. QED
    BY <2>2, <2>3
<1>3. QED
  BY <1>1, <1>2

LEMMA CountTypes ==
  ASSUME TypeInv, NEW s \in Slots, CountOwners(s) \/ OwnerExists(s)
  PROVE  TypeInv'
<1> USE DEF TypeInv, Goto, tables, writes
<1>1. CASE CountOwners(s)
  <2>1. InsertStep(req[s].op) \in {"upsert", "upsertList"}
    BY DEF InsertStep
  <2>2. TypeOK'
    BY <1>1, <2>1 DEF TypeOK, Steps, CountOwners
  <2>3. LocalsOK'
    BY <1>1, <2>1 DEF TypeOK, LocalsOK, CountOwners
  <2>4. QED
    BY <2>2, <2>3
<1>2. CASE OwnerExists(s) /\ req[s].op = "AddGroupNamespace"
  <2>1. OneGrant(user[s], Write) \in Grants
    BY <1>2, LocalTypes DEF LocalsOK, OwnerExists, Levels, None, Owner, Write
  <2>2. grants' \in [Slots -> Grants]
    BY <1>2, <2>1 DEF TypeOK, OwnerExists
  <2>3. pc' \in [Slots -> Steps]
    BY <1>2 DEF TypeOK, Steps, OwnerExists
  <2>4. TypeOK'
    BY <1>2, <2>2, <2>3 DEF TypeOK, OwnerExists
  <2>5. LocalsOK'
    BY <1>2 DEF TypeOK, LocalsOK, OwnerExists
  <2>6. QED
    BY <2>4, <2>5
<1>3. CASE OwnerExists(s) /\ req[s].op # "AddGroupNamespace"
  BY <1>3, RollbackType DEF OwnerExists
<1>4. QED
  BY <1>1, <1>2, <1>3

LEMMA WrittenTypes ==
  ASSUME TypeInv, NEW s \in Slots, pc[s] # "idle", NEW k \in Written(s)
  PROVE  /\ k \in Keys
         /\ UserOf(k) \in Users
         /\ grants[s][UserOf(k)] \in Levels
<1>1. PICK u \in Users : grants[s][u] # NoAccess /\ k = <<u, req[s].ns>>
  BY DEF Written
<1>2. grants[s][u] \in Levels
  BY <1>1 DEF TypeInv, TypeOK, Grants
<1>3. req[s].ns \in Namespaces
  BY RequestTypes
<1>4. QED
  BY <1>1, <1>2, <1>3 DEF Keys, UserOf

LEMMA UpsertType ==
  ASSUME TypeInv, NEW s \in Slots, Upsert(s)
  PROVE  TypeInv'
<1> USE DEF TypeInv, Upsert, Goto, tables
<1>1. ASSUME NEW k \in Written(s)
      PROVE  GrantedRow(PermView(s)[k], grants[s][UserOf(k)]) \in Row
  BY WrittenTypes, ViewTypes, RowTypes
<1>2. pend' \in [Slots -> [Keys -> RowOrNone \union {Unwritten}]]
  BY <1>1 DEF TypeOK, RowOrNone
<1>3. TypeOK'
  BY <1>2 DEF TypeOK, Steps
<1>4. LocalsOK'
  BY DEF TypeOK, LocalsOK
<1>5. QED
  BY <1>3, <1>4

LEMMA UpsertListType ==
  ASSUME TypeInv, NEW s \in Slots, UpsertList(s)
  PROVE  TypeInv'
<1> USE DEF TypeInv, UpsertList, Goto, tables
<1>1. ListGroup(req[s]) \in Groups \union {NoGroup}
  BY RequestTypes DEF ListGroup
<1>2. ASSUME NEW k \in Written(s)
      PROVE  ListedRow(grants[s][UserOf(k)], ListGroup(req[s])) \in Row
  BY <1>1, WrittenTypes, RowTypes
<1>3. pend' \in [Slots -> [Keys -> RowOrNone \union {Unwritten}]]
  BY <1>2 DEF TypeOK, RowOrNone
<1>4. TypeOK'
  BY <1>3 DEF TypeOK, Steps
<1>5. LocalsOK'
  BY DEF TypeOK, LocalsOK
<1>6. QED
  BY <1>4, <1>5

LEMMA NextMemberType ==
  ASSUME TypeInv, NEW s \in Slots, NextMember(s), pc[s] # "idle",
         perm' \in [Keys -> RowOrNone]
  PROVE  TypeInv'
<1> USE DEF TypeInv, NextMember, Goto, Release
<1>1. TypeOK'
  BY LocalTypes DEF TypeOK, Steps
<1>2. LocalsOK'
  BY DEF TypeOK, LocalsOK
<1>3. QED
  BY <1>1, <1>2

LEMMA InsertNamespaceType ==
  ASSUME TypeInv, NEW s \in Slots, InsertNamespace(s)
  PROVE  TypeInv'
<1> USE DEF TypeInv, InsertNamespace, Goto, tables
<1>1. req[s].ns \in Namespaces /\ OwnerRow \in RowOrNone
  BY RequestTypes, RowTypes DEF RowOrNone
<1>2. TypeOK'
  BY <1>1 DEF TypeOK, Steps
<1>3. LocalsOK'
  BY DEF TypeOK, LocalsOK
<1>4. QED
  BY <1>2, <1>3

LEMMA NamespaceStepTypes ==
  ASSUME TypeInv, NEW s \in Slots, ScanNamespaces(s) \/ MarkDeleted(s) \/ External(s)
  PROVE  TypeInv'
<1> USE DEF TypeInv, Goto, tables, writes
<1>1. CASE ScanNamespaces(s)
  <2>1. TypeOK'
    BY <1>1 DEF TypeOK, Steps, ScanNamespaces
  <2>2. LocalsOK'
    BY <1>1 DEF TypeOK, LocalsOK, ScanNamespaces
  <2>3. QED
    BY <2>1, <2>2
<1>2. CASE MarkDeleted(s)
  <2>1. StillThere(s) \in SUBSET Namespaces
    BY DEF TypeOK, StillThere
  <2>2. TypeOK'
    BY <1>2, <2>1 DEF TypeOK, Steps, MarkDeleted
  <2>3. LocalsOK'
    BY <1>2 DEF TypeOK, LocalsOK, MarkDeleted
  <2>4. QED
    BY <2>2, <2>3
<1>3. CASE External(s)
  <2>1. TypeOK'
    BY <1>3 DEF TypeOK, Steps, External
  <2>2. LocalsOK'
    BY <1>3 DEF TypeOK, LocalsOK, External
  <2>3. QED
    BY <2>1, <2>2
<1>4. QED
  BY <1>1, <1>2, <1>3

LEMMA RenameType ==
  ASSUME TypeInv, NEW s \in Slots, Rename(s)
  PROVE  TypeInv'
<1> USE DEF TypeInv, Rename, Goto, tables
<1>1. req[s].ns \in Namespaces
  BY RequestTypes
<1>2. ns[req[s].ns] \in {"live", "deleted"}
  BY <1>1 DEF TypeOK
<1>3. nsPend' \in [Slots -> [Namespaces -> {"live", "deleted", Unwritten}]]
  BY <1>2 DEF TypeOK
<1>4. nss' \in [Slots -> SUBSET Namespaces] /\ pc' \in [Slots -> Steps]
  <2>1. CASE ns[req[s].ns] = "deleted"
    <3>1. /\ nss' = [nss EXCEPT ![s] = {req[s].ns}]
          /\ pc' = [pc EXCEPT ![s] = "scan"]
      BY <2>1
    <3>2. {req[s].ns} \in SUBSET Namespaces
      BY <1>1
    <3>3. QED
      BY <3>1, <3>2 DEF TypeOK, Steps
  <2>2. CASE ns[req[s].ns] # "deleted"
    BY <2>2 DEF TypeOK, Steps
  <2>3. QED
    BY <2>1, <2>2
<1>5. TypeOK'
  BY <1>3, <1>4 DEF TypeOK
<1>6. LocalsOK'
  BY DEF TypeOK, LocalsOK
<1>7. QED
  BY <1>5, <1>6

LEMMA ScanType ==
  ASSUME TypeInv, NEW s \in Slots, Scan(s)
  PROVE  TypeInv'
<1> USE DEF TypeInv, Scan, Goto, tables, writes
<1>1. targets' \in [Slots -> SUBSET Keys] /\ nss' \in [Slots -> SUBSET Namespaces]
  BY DEF TypeOK
<1>2. TypeOK'
  BY <1>1 DEF TypeOK, Steps
<1>3. LocalsOK'
  BY DEF TypeOK, LocalsOK
<1>4. QED
  BY <1>2, <1>3

LEMMA ApplyType ==
  ASSUME TypeInv, NEW s \in Slots, Apply(s)
  PROVE  TypeInv'
<1> USE DEF TypeInv, Apply, Goto, tables
<1>1. Affected(s) \in SUBSET Keys
  BY DEF TypeOK, Affected
<1>2. ASSUME NEW k \in Affected(s)
      PROVE  Changed(req[s], PermView(s)[k]) \in RowOrNone
  <2>1. PermView(s)[k] \in Row
    BY <1>1, ViewTypes DEF Affected, Matches, RowOrNone
  <2>2. QED
    BY <2>1, RequestTypes, RowTypes DEF Changed, RowOrNone
<1>3. pend' \in [Slots -> [Keys -> RowOrNone \union {Unwritten}]]
  BY <1>2 DEF TypeOK
<1>4. Refreshed(s) \in SUBSET Users
  BY <1>1 DEF TypeOK, Refreshed, UserOf, Keys
<1>5. AfterApply(s) \in {"external", "scan", "commit", "authRead"}
  BY DEF AfterApply
<1>6. TypeOK'
  BY <1>1, <1>3, <1>4, <1>5 DEF TypeOK, Steps
<1>7. LocalsOK'
  BY <1>5 DEF TypeOK, LocalsOK
<1>8. QED
  BY <1>6, <1>7

LEMMA ReadAccessesType ==
  ASSUME TypeInv, NEW s \in Slots, ReadAccesses(s)
  PROVE  TypeInv'
<1> USE DEF TypeInv, Goto, tables, writes
<1>1. PICK u \in users[s] :
        /\ user' = [user EXCEPT ![s] = u]
        /\ list' = [list EXCEPT ![s] =
                      IF ReadsCommitted(req[s])
                      THEN UserAccesses(perm, ns, u)
                      ELSE UserAccesses(PermView(s), NsView(s), u)]
  BY DEF ReadAccesses
<1>2. u \in Users
  BY DEF TypeOK
<1>3. /\ UserAccesses(perm, ns, u) \in [Namespaces -> Levels \union {NoAccess}]
      /\ UserAccesses(PermView(s), NsView(s), u)
           \in [Namespaces -> Levels \union {NoAccess}]
  BY <1>2, ViewTypes, UserAccessesType DEF TypeOK
<1>4. TypeOK'
  BY <1>1, <1>2, <1>3 DEF TypeOK, Steps, ReadAccesses
<1>5. LocalsOK'
  BY <1>1, <1>2 DEF TypeOK, LocalsOK, ReadAccesses
<1>6. QED
  BY <1>4, <1>5

LEMMA PushTypes ==
  ASSUME TypeInv, NEW s \in Slots, PushAccesses(s) \/ PushIgnored(s)
  PROVE  TypeInv'
<1> USE DEF TypeInv, Goto, tables, writes, PushDone
<1>1. pc[s] = "authPush" /\ user[s] \in Users
  BY DEF PushAccesses, PushIgnored, LocalsOK
<1>2. auth' \in [Users -> [Namespaces -> Levels \union {NoAccess}]]
  BY <1>1 DEF TypeOK, PushAccesses, PushIgnored
<1>3. PushDone(s)
  BY DEF PushAccesses, PushIgnored
<1>4. TypeOK'
  BY <1>2, <1>3, LocalTypes DEF TypeOK, Steps
<1>5. LocalsOK'
  BY <1>1, <1>3 DEF TypeOK, LocalsOK
<1>6. QED
  BY <1>4, <1>5

LEMMA CommitType ==
  ASSUME TypeInv, NEW s \in Slots, Commit(s)
  PROVE  TypeInv'
<1> USE DEF TypeInv, Commit, Return, Release, Goto
<1>1. targets' \in [Slots -> SUBSET Keys]
  BY DEF TypeOK, PassedOver
<1>2. TypeOK'
  BY <1>1, LocalTypes, ViewTypes DEF TypeOK, Steps
<1>3. LocalsOK'
  BY DEF TypeOK, LocalsOK
<1>4. QED
  BY <1>2, <1>3

LEMMA CrashType ==
  ASSUME TypeInv, Crash
  PROVE  TypeInv'
<1>1. TypeOK'
  BY LocalTypes DEF TypeInv, TypeOK, Crash, Steps, tables
<1>2. LocalsOK'
  BY DEF TypeInv, TypeOK, LocalsOK, Crash
<1>3. QED
  BY <1>1, <1>2 DEF TypeInv

LEMMA InitType == Init => TypeInv
<1> SUFFICES ASSUME Init PROVE TypeInv
  OBVIOUS
<1>1. perm \in [Keys -> RowOrNone]
  BY RowTypes DEF Init, RowOrNone
<1>2. ns \in [Namespaces -> {"absent", "live", "deleted"}]
  BY DEF Init
<1>3. auth \in [Users -> [Namespaces -> Levels \union {NoAccess}]]
  BY <1>1, <1>2, UserAccessesType DEF Init
<1>4. TypeOK
  BY <1>1, <1>2, <1>3, LocalTypes DEF Init, TypeOK, Steps
<1>5. LocalsOK
  BY DEF Init, LocalsOK
<1>6. QED
  BY <1>4, <1>5 DEF TypeInv

LEMMA NextType == TypeInv /\ [Next]_vars => TypeInv'
<1> SUFFICES ASSUME TypeInv, [Next]_vars PROVE TypeInv'
  OBVIOUS
<1>1. CASE UNCHANGED vars
  BY <1>1 DEF vars, TypeInv, TypeOK, LocalsOK
<1>2. ASSUME NEW s \in Slots, Step(s) PROVE TypeInv'
  <2>1. CASE Refused(s)
    BY <2>1, RollbackType
       DEF Refused, LookupRefused, Unstorable, CreateRefused, NothingToDelete,
           RenameRefused
  <2>2. CASE CommitMember(s)
    BY <2>2, NextMemberType, ViewTypes DEF CommitMember, TypeInv
  <2>3. QED
    BY <1>2, <2>1, <2>2, LookupType, MemberTypes, CountTypes, UpsertType,
       UpsertListType, InsertNamespaceType, NamespaceStepTypes, RenameType,
       ScanType, ApplyType, ReadAccessesType, PushTypes, CommitType DEF Step, Refused
<1>3. ASSUME NEW s \in Slots, Break(s) PROVE TypeInv'
  <2>1. CASE Fail(s)
    BY <2>1, RollbackType DEF Fail
  <2>2. CASE MemberFails(s)
    BY <2>2, NextMemberType DEF MemberFails, OwnerMemberStep, TypeInv, TypeOK
  <2>3. QED
    BY <1>3, <2>1, <2>2, PushTypes DEF Break
<1>4. QED
  BY <1>1, <1>2, <1>3, BeginType, CrashType DEF Next

(* Every reachable state is well typed, and a request in progress has its  *)
(* request and the user it is about at hand.                               *)
THEOREM TypeCorrect == Spec => [](TypeOK /\ LocalsOK)
<1>1. TypeInv = (TypeOK /\ LocalsOK)
  BY DEF TypeInv
<1>2. Spec => []TypeInv
  BY InitType, NextType, PTL DEF Spec
<1>3. QED
  BY <1>2, PTL DEF TypeInv

-----------------------------------------------------------------------------
(* Levels in force stay within the levels granted.                         *)

LEMMA WrittenRowsWithin ==
  /\ WithinInitial(OwnerRow)
  /\ \A l \in Levels, g \in Groups \union {NoGroup} : WithinInitial(ListedRow(l, g))
  /\ \A l \in Levels, old \in RowOrNone : WithinInitial(GrantedRow(old, l))
  /\ \A l \in Levels, row \in Row :
       WithinInitial(row) => WithinInitial(LimitedRow(row, l))
  /\ WithinInitial(NoRow)
  /\ WithinInitial(Unwritten)
<1>1. WithinInitial(OwnerRow)
  BY DEF WithinInitial, OwnerRow, Owner
<1>2. ASSUME NEW l \in Levels, NEW g \in Groups \union {NoGroup}
      PROVE  WithinInitial(ListedRow(l, g))
  BY DEF WithinInitial, ListedRow, Least, Levels, None, Owner
<1>3. ASSUME NEW l \in Levels, NEW old \in RowOrNone
      PROVE  WithinInitial(GrantedRow(old, l))
  BY DEF WithinInitial, GrantedRow, Least, Levels, None, Owner
<1>4. ASSUME NEW l \in Levels, NEW row \in Row, WithinInitial(row)
      PROVE  WithinInitial(LimitedRow(row, l))
  <2>1. /\ row.init \in Levels /\ row.cur \in Levels
        /\ row.cur <= row.init
    BY <1>4 DEF WithinInitial, Row
  <2>2. LimitedLevel(row.init, row.cur, l) <= row.init
    BY <2>1, LimitIsMinimum
  <2>3. /\ LimitedRow(row, l).init = row.init
        /\ LimitedRow(row, l).cur = LimitedLevel(row.init, row.cur, l)
    BY DEF LimitedRow, Row
  <2>4. QED
    BY <2>2, <2>3 DEF WithinInitial
<1>5. WithinInitial(NoRow) /\ WithinInitial(Unwritten)
  BY NoRowAssumption, ServerAssumption DEF WithinInitial, RowOrNone
<1>6. QED
  BY <1>1, <1>2, <1>3, <1>4, <1>5

LEMMA ViewWithin ==
  ASSUME CurrentWithinInitial, NEW s \in Slots, NEW k \in Keys
  PROVE  WithinInitial(PermView(s)[k])
BY DEF CurrentWithinInitial, PermView

\* Rows written by a statement of one slot; the committed rows do not change.
LEMMA WritingWithin ==
  ASSUME CurrentWithinInitial, NEW s \in Slots,
         NEW written, perm' = perm,
         pend' = [pend EXCEPT ![s] = written],
         \A k \in Keys : WithinInitial(written[k]),
         pend \in [Slots -> [Keys -> RowOrNone \union {Unwritten}]]
  PROVE  CurrentWithinInitial'
<1>1. ASSUME NEW t \in Slots, NEW k \in Keys
      PROVE  WithinInitial(pend'[t][k])
  <2>1. CASE t = s
    BY <2>1
  <2>2. CASE t # s
    BY <2>2 DEF CurrentWithinInitial
  <2>3. QED
    BY <2>1, <2>2
<1>2. \A k \in Keys : WithinInitial(perm'[k])
  BY DEF CurrentWithinInitial
<1>3. QED
  BY <1>1, <1>2 DEF CurrentWithinInitial, WithinInitial

\* A slot's writes are committed or dropped.
LEMMA ReleasingWithin ==
  ASSUME CurrentWithinInitial, NEW s \in Slots, Release(s),
         perm' = perm \/ perm' = PermView(s),
         pend \in [Slots -> [Keys -> RowOrNone \union {Unwritten}]]
  PROVE  CurrentWithinInitial'
<1>1. ASSUME NEW t \in Slots, NEW k \in Keys
      PROVE  WithinInitial(pend'[t][k])
  <2>1. CASE t = s
    BY <2>1, WrittenRowsWithin DEF Release
  <2>2. CASE t # s
    BY <2>2 DEF Release, CurrentWithinInitial
  <2>3. QED
    BY <2>1, <2>2
<1>2. \A k \in Keys : WithinInitial(perm'[k])
  BY ViewWithin DEF CurrentWithinInitial
<1>3. QED
  BY <1>1, <1>2 DEF CurrentWithinInitial, WithinInitial

LEMMA UpsertWithin ==
  ASSUME TypeInv, CurrentWithinInitial, NEW s \in Slots, Upsert(s)
  PROVE  CurrentWithinInitial'
<1> DEFINE written ==
      [k \in Keys |-> IF k \in Written(s)
                      THEN GrantedRow(PermView(s)[k], grants[s][UserOf(k)])
                      ELSE pend[s][k]]
<1>1. ASSUME NEW k \in Keys PROVE WithinInitial(written[k])
  <2>1. CASE k \in Written(s)
    <3>1. grants[s][UserOf(k)] \in Levels
      BY <2>1, WrittenTypes DEF Upsert
    <3>2. PermView(s)[k] \in RowOrNone
      BY ViewTypes DEF TypeInv
    <3>3. WithinInitial(GrantedRow(PermView(s)[k], grants[s][UserOf(k)]))
      BY <3>1, <3>2, WrittenRowsWithin
    <3>4. QED
      BY <2>1, <3>3
  <2>2. CASE k \notin Written(s)
    BY <2>2 DEF CurrentWithinInitial
  <2>3. QED
    BY <2>1, <2>2
<1>2. perm' = perm /\ pend' = [pend EXCEPT ![s] = written]
  BY DEF Upsert, tables
<1>3. QED
  BY <1>1, <1>2, WritingWithin DEF TypeInv, TypeOK

LEMMA UpsertListWithin ==
  ASSUME TypeInv, CurrentWithinInitial, NEW s \in Slots, UpsertList(s)
  PROVE  CurrentWithinInitial'
<1> DEFINE written ==
      [k \in Keys |-> IF k \in Written(s)
                      THEN ListedRow(grants[s][UserOf(k)], ListGroup(req[s]))
                      ELSE pend[s][k]]
<1>1. ASSUME NEW k \in Keys PROVE WithinInitial(written[k])
  <2>1. CASE k \in Written(s)
    <3>1. grants[s][UserOf(k)] \in Levels
      BY <2>1, WrittenTypes DEF UpsertList
    <3>2. ListGroup(req[s]) \in Groups \union {NoGroup}
      BY RequestTypes DEF ListGroup, UpsertList
    <3>3. WithinInitial(ListedRow(grants[s][UserOf(k)], ListGroup(req[s])))
      BY <3>1, <3>2, WrittenRowsWithin
    <3>4. QED
      BY <2>1, <3>3
  <2>2. CASE k \notin Written(s)
    BY <2>2 DEF CurrentWithinInitial
  <2>3. QED
    BY <2>1, <2>2
<1>2. perm' = perm /\ pend' = [pend EXCEPT ![s] = written]
  BY DEF UpsertList, tables
<1>3. QED
  BY <1>1, <1>2, WritingWithin DEF TypeInv, TypeOK

LEMMA ApplyWithin ==
  ASSUME TypeInv, CurrentWithinInitial, NEW s \in Slots, Apply(s)
  PROVE  CurrentWithinInitial'
<1> DEFINE written ==
      [k \in Keys |-> IF k \in Affected(s)
                      THEN Changed(req[s], PermView(s)[k]) ELSE pend[s][k]]
<1>1. ASSUME NEW k \in Keys PROVE WithinInitial(written[k])
  <2>1. CASE k \in Affected(s)
    <3>1. PermView(s)[k] \in Row
      BY <2>1, ViewTypes DEF TypeInv, Affected, Matches, RowOrNone
    <3>2. WithinInitial(PermView(s)[k])
      BY ViewWithin
    <3>3. req[s].level \in Levels
      BY RequestTypes DEF Apply
    <3>4. WithinInitial(Changed(req[s], PermView(s)[k]))
      BY <3>1, <3>2, <3>3, WrittenRowsWithin DEF Changed
    <3>5. QED
      BY <2>1, <3>4
  <2>2. CASE k \notin Affected(s)
    BY <2>2 DEF CurrentWithinInitial
  <2>3. QED
    BY <2>1, <2>2
<1>2. perm' = perm /\ pend' = [pend EXCEPT ![s] = written]
  BY DEF Apply, tables
<1>3. QED
  BY <1>1, <1>2, WritingWithin DEF TypeInv, TypeOK

LEMMA InsertNamespaceWithin ==
  ASSUME TypeInv, CurrentWithinInitial, NEW s \in Slots, InsertNamespace(s)
  PROVE  CurrentWithinInitial'
<1> DEFINE written == [pend[s] EXCEPT ![<<OwnerOf[req[s].ns], req[s].ns>>] = OwnerRow]
<1>1. ASSUME NEW k \in Keys PROVE WithinInitial(written[k])
  <2>1. written[k] = OwnerRow \/ written[k] = pend[s][k]
    BY DEF TypeInv, TypeOK
  <2>2. QED
    BY <2>1, WrittenRowsWithin DEF CurrentWithinInitial
<1>2. perm' = perm /\ pend' = [pend EXCEPT ![s] = written]
  BY DEF InsertNamespace, tables
<1>3. QED
  BY <1>1, <1>2, WritingWithin DEF TypeInv, TypeOK

LEMMA CrashWithin ==
  ASSUME CurrentWithinInitial, Crash
  PROVE  CurrentWithinInitial'
<1>1. \A s \in Slots, k \in Keys : WithinInitial(pend'[s][k])
  BY WrittenRowsWithin DEF Crash
<1>2. perm' = perm
  BY DEF Crash, tables
<1>3. QED
  BY <1>1, <1>2 DEF CurrentWithinInitial, WithinInitial

LEMMA QuietWithin ==
  ASSUME CurrentWithinInitial, perm' = perm, pend' = pend
  PROVE  CurrentWithinInitial'
BY DEF CurrentWithinInitial, WithinInitial

LEMMA StepWithin ==
  ASSUME TypeInv, CurrentWithinInitial, NEW s \in Slots, Step(s)
  PROVE  CurrentWithinInitial'
<1>1. CASE \/ Lookup(s) \/ PickMember(s) \/ NoMoreOwners(s) \/ CountOwners(s)
           \/ ScanNamespaces(s) \/ MarkDeleted(s) \/ Rename(s) \/ Scan(s)
           \/ External(s) \/ ReadAccesses(s) \/ PushAccesses(s)
  <2>1. perm' = perm /\ pend' = pend
    BY <1>1 DEF Lookup, PickMember, NoMoreOwners, CountOwners, ScanNamespaces,
       MarkDeleted, Rename, Scan, External, ReadAccesses, PushAccesses,
       PushDone, tables, writes
  <2>2. QED
    BY <2>1, QuietWithin
<1>2. CASE Refused(s)
  <2>1. Release(s) /\ perm' = perm
    BY <1>2 DEF Refused, LookupRefused, Unstorable, CreateRefused,
       NothingToDelete, RenameRefused, Rollback, tables
  <2>2. QED
    BY <2>1, ReleasingWithin DEF TypeInv, TypeOK
<1>3. CASE OwnerExists(s)
  <2>1. (perm' = perm /\ pend' = pend) \/ (Release(s) /\ perm' = perm)
    BY <1>3 DEF OwnerExists, Rollback, tables, writes
  <2>2. QED
    BY <2>1, QuietWithin, ReleasingWithin DEF TypeInv, TypeOK
<1>4. CASE CommitMember(s) \/ Commit(s)
  <2>1. Release(s) /\ perm' = PermView(s)
    BY <1>4 DEF CommitMember, NextMember, Commit
  <2>2. QED
    BY <2>1, ReleasingWithin DEF TypeInv, TypeOK
<1>5. QED
  BY <1>1, <1>2, <1>3, <1>4, UpsertWithin, UpsertListWithin, ApplyWithin,
     InsertNamespaceWithin DEF Step, Refused

LEMMA NextWithin ==
  TypeInv /\ CurrentWithinInitial /\ [Next]_vars => CurrentWithinInitial'
<1> SUFFICES ASSUME TypeInv, CurrentWithinInitial, [Next]_vars
             PROVE  CurrentWithinInitial'
  OBVIOUS
<1>1. CASE UNCHANGED vars
  BY <1>1, QuietWithin DEF vars
<1>2. ASSUME NEW s \in Slots, Break(s) PROVE CurrentWithinInitial'
  <2>1. CASE PushIgnored(s)
    BY <2>1, QuietWithin DEF PushIgnored, PushDone, tables, writes
  <2>2. CASE Fail(s) \/ MemberFails(s)
    <3>1. Release(s) /\ perm' = perm
      BY <2>2 DEF Fail, MemberFails, NextMember, Rollback, tables
    <3>2. QED
      BY <3>1, ReleasingWithin DEF TypeInv, TypeOK
  <2>3. QED
    BY <1>2, <2>1, <2>2 DEF Break
<1>3. ASSUME NEW s \in Slots, NEW r \in Requests, Begin(s, r)
      PROVE  CurrentWithinInitial'
  BY <1>3, QuietWithin DEF Begin, tables, writes
<1>4. QED
  BY <1>1, <1>2, <1>3, StepWithin, CrashWithin DEF Next

(* No level in force, committed or about to be, exceeds the level granted. *)
THEOREM LevelsWithinGranted == Spec => []CurrentWithinInitial
<1>1. Init => CurrentWithinInitial
  BY WrittenRowsWithin DEF Init, CurrentWithinInitial
<1>2. Spec => []TypeInv
  BY InitType, NextType, PTL DEF Spec
<1>3. QED
  BY <1>1, <1>2, NextWithin, PTL DEF Spec

-----------------------------------------------------------------------------
(* A limit on a user's accesses takes hold of every row it found.          *)

(* Once the statement of SetUserAccesses has run, the rows it found are    *)
(* written, limited and still this transaction's own until it ends.        *)
LimitHeld(s) ==
  \A k \in targets[s] :
    /\ pend[s][k] \in Row
    /\ pend[s][k].cur = LowerOf(pend[s][k].init, req[s].level)

AfterLimit == {"authRead", "authPush", "commit"}

LimitInv ==
  \A s \in Slots :
    pc[s] # "idle" /\ req[s].op = "SetUserAccesses" =>
      /\ pc[s] \in {"scan", "apply"} \union AfterLimit
      /\ pc[s] \in AfterLimit => LimitHeld(s)

\* A step that ends or precedes the limit, or leaves what it wrote alone.
LimitKept(s) ==
  \/ pc'[s] = "idle"
  \/ req'[s].op # "SetUserAccesses"
  \/ /\ pc'[s] = pc[s] \/ (pc[s] \in AfterLimit /\ pc'[s] \in AfterLimit)
     /\ req'[s] = req[s] /\ targets'[s] = targets[s] /\ pend'[s] = pend[s]
  \/ pc'[s] \in {"scan", "apply"}

LEMMA KeptLimit ==
  ASSUME LimitInv, NEW s \in Slots, LimitKept(s)
  PROVE  (pc'[s] # "idle" /\ req'[s].op = "SetUserAccesses") =>
           /\ pc'[s] \in {"scan", "apply"} \union AfterLimit
           /\ pc'[s] \in AfterLimit => LimitHeld(s)'
BY DEF LimitInv, LimitKept, LimitHeld, AfterLimit

\* The statement limits the rows it finds to the lower of the two levels.
LEMMA ApplyLimits ==
  ASSUME TypeInv, CurrentWithinInitial, NEW s \in Slots, Apply(s),
         req[s].op = "SetUserAccesses"
  PROVE  LimitHeld(s)'
<1> SUFFICES ASSUME NEW k \in Affected(s)
             PROVE  /\ pend'[s][k] \in Row
                    /\ pend'[s][k].cur = LowerOf(pend'[s][k].init, req[s].level)
  BY DEF Apply, LimitHeld, TypeInv, TypeOK
<1> DEFINE row == PermView(s)[k]
<1>1. k \in Keys /\ row # NoRow
  BY DEF TypeInv, TypeOK, Affected, Matches
<1>2. row \in Row /\ WithinInitial(row)
  BY <1>1, ViewTypes, ViewWithin DEF TypeInv, RowOrNone
<1>3. req[s].level \in Levels
  BY RequestTypes DEF Apply
<1>4. pend'[s][k] = LimitedRow(row, req[s].level)
  BY <1>1 DEF Apply, Changed, TypeInv, TypeOK
<1>5. row.init \in Levels /\ row.cur \in Levels /\ row.cur <= row.init
  BY <1>2 DEF WithinInitial, Row
<1>6. /\ LimitedRow(row, req[s].level) \in Row
      /\ LimitedRow(row, req[s].level).init = row.init
      /\ LimitedRow(row, req[s].level).cur
           = LimitedLevel(row.init, row.cur, req[s].level)
  BY <1>2, <1>3, RowTypes DEF LimitedRow, Row
<1>7. QED
  BY <1>3, <1>4, <1>5, <1>6, LimitIsMinimum

\* A step of one slot leaves the request, the rows and the place of another.
LEMMA OtherSlotKept ==
  ASSUME TypeInv, NEW t \in Slots, NEW s \in Slots, t # s,
         Step(t) \/ Break(t) \/ \E r \in Requests : Begin(t, r)
  PROVE  LimitKept(s)
<1> USE DEF TypeInv, TypeOK, LimitKept, Goto, tables, writes
<1>1. CASE Refused(t) \/ Fail(t)
  <2>1. Rollback(t)
    BY <1>1 DEF Refused, LookupRefused, Unstorable, CreateRefused,
       NothingToDelete, RenameRefused, Fail
  <2>2. QED
    BY <2>1 DEF Rollback, Release, Return
<1>2. CASE CommitMember(t) \/ MemberFails(t)
  <2>1. NextMember(t)
    BY <1>2 DEF CommitMember, MemberFails
  <2>2. QED
    BY <2>1 DEF NextMember, Release
<1>3. CASE OwnerExists(t)
  BY <1>3 DEF OwnerExists, Rollback, Release, Return
<1>4. CASE Lookup(t) \/ PickMember(t) \/ NoMoreOwners(t) \/ CountOwners(t)
  BY <1>4 DEF Lookup, PickMember, NoMoreOwners, CountOwners
<1>5. CASE Upsert(t) \/ UpsertList(t) \/ InsertNamespace(t) \/ Apply(t)
  BY <1>5 DEF Upsert, UpsertList, InsertNamespace, Apply
<1>6. CASE \/ ScanNamespaces(t) \/ MarkDeleted(t) \/ Rename(t) \/ Scan(t)
           \/ External(t) \/ ReadAccesses(t)
  BY <1>6 DEF ScanNamespaces, MarkDeleted, Rename, Scan, External, ReadAccesses
<1>7. CASE PushAccesses(t) \/ PushIgnored(t)
  BY <1>7 DEF PushAccesses, PushIgnored, PushDone
<1>8. CASE Commit(t)
  BY <1>8 DEF Commit, Release, Return, PassedOver
<1>9. CASE \E r \in Requests : Begin(t, r)
  BY <1>9 DEF Begin
<1>10. QED
  BY <1>1, <1>2, <1>3, <1>4, <1>5, <1>6, <1>7, <1>8, <1>9 DEF Step, Break, Refused

\* The steps that neither begin nor end a request.
GoesOn(s) ==
  \/ Lookup(s) \/ PickMember(s) \/ NoMoreOwners(s) \/ CommitMember(s)
  \/ CountOwners(s) \/ Upsert(s) \/ UpsertList(s) \/ InsertNamespace(s)
  \/ ScanNamespaces(s) \/ MarkDeleted(s) \/ Rename(s) \/ Scan(s) \/ External(s)
  \/ (Apply(s) /\ req[s].op # "SetUserAccesses")
  \/ ReadAccesses(s) \/ PushAccesses(s) \/ MemberFails(s) \/ PushIgnored(s)

\* A step of the slot itself, other than the limiting statement.
LEMMA OwnSlotKept ==
  ASSUME TypeInv, LimitInv, NEW s \in Slots,
         Step(s) \/ Break(s) \/ \E r \in Requests : Begin(s, r),
         ~(Apply(s) /\ req[s].op = "SetUserAccesses")
  PROVE  LimitKept(s)
<1> USE DEF TypeInv, TypeOK, LimitKept, Goto, tables, writes
<1>1. CASE Refused(s) \/ Fail(s) \/ Commit(s)
  <2>1. Return(s)
    BY <1>1 DEF Refused, LookupRefused, Unstorable, CreateRefused,
       NothingToDelete, RenameRefused, Fail, Rollback, Commit
  <2>2. QED
    BY <2>1 DEF Return
<1>2. CASE \E r \in Requests : Begin(s, r)
  <2>1. PICK r \in Requests : Begin(s, r)
    BY <1>2
  <2>2. pc'[s] = FirstStep(r.op) /\ req'[s] = r
    BY <2>1 DEF Begin
  <2>3. QED
    BY <2>2 DEF FirstStep
<1>3. CASE GoesOn(s) /\ req[s].op # "SetUserAccesses"
  <2>1. req'[s] = req[s]
    BY <1>3 DEF GoesOn, Lookup, PickMember, NoMoreOwners, CommitMember, NextMember,
       MemberFails, CountOwners, Upsert, UpsertList, InsertNamespace,
       ScanNamespaces, MarkDeleted, Rename, Scan, Apply, External,
       ReadAccesses, PushAccesses, PushIgnored, PushDone
  <2>2. QED
    BY <1>3, <2>1
<1>4. CASE OwnerExists(s)
  BY <1>4 DEF OwnerExists, Rollback, Return, LimitInv, AfterLimit
<1>5. CASE GoesOn(s) /\ req[s].op = "SetUserAccesses"
  <2>1. /\ pc[s] # "idle"
        /\ Scan(s) \/ ReadAccesses(s) \/ PushAccesses(s) \/ PushIgnored(s)
    BY <1>5 DEF GoesOn, Lookup, PickMember, NoMoreOwners, CommitMember,
       MemberFails, OwnerMemberStep, CountOwners, Upsert, UpsertList,
       InsertNamespace, ScanNamespaces, MarkDeleted, Rename, Scan, Apply,
       External, ReadAccesses, PushAccesses, PushIgnored, LimitInv, AfterLimit
  <2>2. QED
    BY <2>1 DEF Scan, ReadAccesses, PushAccesses, PushIgnored, PushDone, AfterLimit
<1>6. QED
  BY <1>1, <1>2, <1>3, <1>4, <1>5 DEF Step, Break, GoesOn, Refused

LEMMA InitLimit == Init => LimitInv
BY DEF Init, LimitInv

LEMMA NextLimit ==
  TypeInv /\ CurrentWithinInitial /\ LimitInv /\ [Next]_vars => LimitInv'
<1> SUFFICES ASSUME TypeInv, CurrentWithinInitial, LimitInv, [Next]_vars,
                    NEW s \in Slots, pc'[s] # "idle",
                    req'[s].op = "SetUserAccesses"
             PROVE  /\ pc'[s] \in {"scan", "apply"} \union AfterLimit
                    /\ pc'[s] \in AfterLimit => LimitHeld(s)'
  BY DEF LimitInv
<1>1. CASE UNCHANGED vars
  BY <1>1, KeptLimit DEF LimitKept, vars
<1>2. CASE Crash
  BY <1>2 DEF Crash
<1>3. ASSUME NEW t \in Slots,
             Step(t) \/ Break(t) \/ \E r \in Requests : Begin(t, r), t # s
      PROVE  LimitKept(s)
  BY <1>3, OtherSlotKept
<1>4. ASSUME Step(s) \/ Break(s) \/ \E r \in Requests : Begin(s, r),
             ~(Apply(s) /\ req[s].op = "SetUserAccesses")
      PROVE  LimitKept(s)
  BY <1>4, OwnSlotKept
<1>5. CASE Apply(s) /\ req[s].op = "SetUserAccesses"
  <2>1. pc'[s] \in {"commit", "authRead"}
    BY <1>5 DEF Apply, AfterApply, Sweeps, Goto, TypeInv, TypeOK
  <2>2. QED
    BY <1>5, <2>1, ApplyLimits DEF AfterLimit
<1>6. QED
  BY <1>1, <1>2, <1>3, <1>4, <1>5, KeptLimit DEF Next

(* Whoever changes a row while the statement of a limit waits for it, the  *)
(* limit that commits leaves every row it found at the lower of the level  *)
(* granted and the limit (SetUserAccesses).                                *)
THEOREM LimitHolds == Spec => LimitTakesHold
<1> DEFINE Inv == TypeInv /\ CurrentWithinInitial /\ LimitInv
           Held == \A s \in Slots :
             pc[s] = "commit" /\ pc'[s] = "idle" /\ perm' = PermView(s)
               /\ req[s].op = "SetUserAccesses"
             => \A k \in targets[s] :
                  perm'[k] \in Row =>
                    perm'[k].cur = LowerOf(perm'[k].init, req[s].level)
<1>1. Init => Inv
  BY InitType, InitLimit, WrittenRowsWithin DEF Init, CurrentWithinInitial
<1>2. Inv /\ [Next]_vars => Inv'
  BY NextType, NextWithin, NextLimit
<1>3. Inv => Held
  <2> SUFFICES ASSUME Inv, NEW s \in Slots, pc[s] = "commit",
                      req[s].op = "SetUserAccesses", perm' = PermView(s),
                      NEW k \in targets[s]
               PROVE  perm'[k].cur = LowerOf(perm'[k].init, req[s].level)
    OBVIOUS
  <2>1. /\ pend[s][k] \in Row
        /\ pend[s][k].cur = LowerOf(pend[s][k].init, req[s].level)
    BY DEF LimitInv, LimitHeld, AfterLimit
  <2>2. k \in Keys /\ pend[s][k] # Unwritten
    BY <2>1, ServerAssumption DEF TypeInv, TypeOK, RowOrNone
  <2>3. perm'[k] = pend[s][k]
    BY <2>2 DEF PermView
  <2>4. QED
    BY <2>1, <2>3
<1>4. QED
  BY <1>1, <1>2, <1>3, PTL DEF Spec, LimitTakesHold

-----------------------------------------------------------------------------
(* Namespaces are created and deleted once.                                *)

NsInv == TypeInv /\ NamespaceLocks /\ DeletesLive

\* A slot goes from one step to another and leaves the namespaces alone.
LEMMA MoveKeepsNs ==
  ASSUME TypeInv, NamespaceLocks, DeletesLive, NEW s \in Slots, NEW p \in Steps,
         pc[s] # "idle", p # "idle", p # "nsInsert",
         p \in {"lookup", "nsScan", "nsApply", "rename"}
           => pc[s] \in {"lookup", "nsScan", "nsApply"},
         ns' = ns, nsPend' = nsPend, req' = req, Goto(s, p)
  PROVE  NamespaceLocks' /\ DeletesLive'
<1>1. \A t \in Slots, n \in Namespaces :
        /\ Creates(t, n)' <=> Creates(t, n)
        /\ WritesLive(t, n)' <=> WritesLive(t, n)
  BY DEF Creates, Renames, WritesLive, Goto, TypeInv, TypeOK
<1>2. DeletesLive'
  BY DEF DeletesLive
<1>3. ASSUME NEW t \in Slots, NEW n \in Namespaces
      PROVE  /\ nsPend'[t][n] = "live" => WritesLive(t, n)'
             /\ pc'[t] = "nsInsert" /\ req'[t].ns = n
                  => Creates(t, n)' /\ ns'[n] = "absent"
             /\ pc'[t] \in {"idle", "lookup", "nsInsert", "nsScan", "nsApply",
                            "rename"}
                  => nsPend'[t][n] = Unwritten
  <2>1. CASE t = s
    BY <1>1, <2>1 DEF NamespaceLocks, Goto, TypeInv, TypeOK
  <2>2. CASE t # s
    BY <1>1, <2>2 DEF NamespaceLocks, Goto, TypeInv, TypeOK
  <2>3. QED
    BY <2>1, <2>2
<1>4. NamespaceLocks'
  BY <1>1, <1>3 DEF NamespaceLocks
<1>5. QED
  BY <1>2, <1>4

\* A request ends; what its transaction wrote is committed or dropped.
LEMMA EndKeepsNs ==
  ASSUME TypeInv, NamespaceLocks, DeletesLive, NEW s \in Slots,
         Release(s), Return(s), ns' = ns \/ ns' = NsView(s)
  PROVE  NamespaceLocks' /\ DeletesLive'
<1>1. /\ pc'[s] = "idle"
      /\ \A n \in Namespaces : nsPend'[s][n] = Unwritten
      /\ \A t \in Slots \ {s} : /\ pc'[t] = pc[t] /\ req'[t] = req[t]
                                /\ nsPend'[t] = nsPend[t]
  BY DEF Return, Release, Goto, TypeInv, TypeOK
<1>2. Unwritten # "live" /\ Unwritten # "deleted"
  BY ServerAssumption
<1>3. ASSUME NEW t \in Slots, NEW n \in Namespaces, t # s,
             \/ nsPend[t][n] # Unwritten
             \/ Creates(t, n) /\ ns[n] = "absent"
      PROVE  ns'[n] = ns[n]
  <2>1. CASE nsPend[s][n] = Unwritten
    BY <2>1 DEF NsView
  <2>2. CASE nsPend[s][n] = "live"
    BY <1>2, <1>3, <2>2 DEF NamespaceLocks, WritesLive
  <2>3. CASE nsPend[s][n] = "deleted"
    BY <1>2, <1>3, <2>3 DEF NamespaceLocks, DeletesLive
  <2>4. QED
    BY <2>1, <2>2, <2>3 DEF TypeInv, TypeOK
<1>4. ASSUME NEW t \in Slots, NEW n \in Namespaces
      PROVE  /\ Creates(t, n)' <=> t # s /\ Creates(t, n)
             /\ Renames(t, n)' <=> t # s /\ Renames(t, n)
  <2>1. CASE t = s
    BY <1>1, <2>1 DEF Creates, Renames
  <2>2. CASE t # s
    BY <1>1, <2>2 DEF Creates, Renames
  <2>3. QED
    BY <2>1, <2>2
<1>5. ASSUME NEW t \in Slots, NEW n \in Namespaces, nsPend'[t][n] # Unwritten
      PROVE  /\ t # s
             /\ nsPend[t][n] = nsPend'[t][n]
             /\ req'[t] = req[t]
             /\ ns'[n] = ns[n]
  <2>1. t # s
    BY <1>1, <1>5
  <2>2. nsPend[t][n] = nsPend'[t][n] /\ req'[t] = req[t]
    BY <1>1, <2>1
  <2>3. ns'[n] = ns[n]
    BY <1>3, <1>5, <2>1, <2>2
  <2>4. QED
    BY <2>1, <2>2, <2>3
<1>6. DeletesLive'
  BY <1>2, <1>5 DEF DeletesLive
<1>7. ASSUME NEW t \in Slots, NEW n \in Namespaces
      PROVE  /\ nsPend'[t][n] = "live" => WritesLive(t, n)'
             /\ pc'[t] = "nsInsert" /\ req'[t].ns = n
                  => Creates(t, n)' /\ ns'[n] = "absent"
             /\ pc'[t] \in {"idle", "lookup", "nsInsert", "nsScan", "nsApply",
                            "rename"}
                  => nsPend'[t][n] = Unwritten
  <2>1. CASE t = s
    BY <1>1, <1>2, <2>1
  <2>2. CASE t # s
    <3>1. nsPend'[t][n] = "live" => WritesLive(t, n)'
      BY <1>2, <1>4, <1>5, <2>2 DEF NamespaceLocks, WritesLive
    <3>2. pc'[t] = "nsInsert" /\ req'[t].ns = n
            => Creates(t, n)' /\ ns'[n] = "absent"
      BY <1>1, <1>3, <1>4, <2>2 DEF NamespaceLocks
    <3>3. QED
      BY <1>1, <2>2, <3>1, <3>2 DEF NamespaceLocks
  <2>3. QED
    BY <2>1, <2>2
<1>8. NamespaceLocks'
  BY <1>1, <1>4, <1>7 DEF NamespaceLocks
<1>9. QED
  BY <1>6, <1>8

LEMMA MemberKeepsNs ==
  ASSUME TypeInv, NamespaceLocks, DeletesLive, NEW s \in Slots,
         NextMember(s), pc[s] # "idle"
  PROVE  NamespaceLocks' /\ DeletesLive'
<1>1. /\ pc'[s] = "member" /\ req' = req /\ ns' = ns
      /\ \A n \in Namespaces : nsPend'[s][n] = Unwritten
      /\ \A t \in Slots \ {s} : pc'[t] = pc[t] /\ nsPend'[t] = nsPend[t]
  BY DEF NextMember, Release, Goto, TypeInv, TypeOK
<1>2. Unwritten # "live" /\ Unwritten # "deleted"
  BY ServerAssumption
<1>3. \A t \in Slots, n \in Namespaces :
        /\ Creates(t, n)' <=> Creates(t, n)
        /\ WritesLive(t, n)' <=> WritesLive(t, n)
  BY <1>1 DEF Creates, Renames, WritesLive
<1>4. DeletesLive'
  BY <1>1, <1>2 DEF DeletesLive
<1>5. ASSUME NEW t \in Slots, NEW n \in Namespaces
      PROVE  /\ nsPend'[t][n] = "live" => WritesLive(t, n)'
             /\ pc'[t] = "nsInsert" /\ req'[t].ns = n
                  => Creates(t, n)' /\ ns'[n] = "absent"
             /\ pc'[t] \in {"idle", "lookup", "nsInsert", "nsScan", "nsApply",
                            "rename"}
                  => nsPend'[t][n] = Unwritten
  <2>1. CASE t = s
    BY <1>1, <1>2, <2>1
  <2>2. CASE t # s
    BY <1>1, <1>2, <1>3, <2>2 DEF NamespaceLocks
  <2>3. QED
    BY <2>1, <2>2
<1>6. NamespaceLocks'
  BY <1>1, <1>3, <1>5 DEF NamespaceLocks
<1>7. QED
  BY <1>4, <1>6

\* MarkDeleted takes only live namespaces that no other transaction holds.
LEMMA MarkDeletedKeepsNs ==
  ASSUME TypeInv, NamespaceLocks, DeletesLive, NEW s \in Slots, MarkDeleted(s)
  PROVE  NamespaceLocks' /\ DeletesLive'
<1>1. /\ pc[s] = "nsApply" /\ pc'[s] = "scan" /\ req' = req /\ ns' = ns
      /\ \A t \in Slots : t # s => pc'[t] = pc[t] /\ nsPend'[t] = nsPend[t]
  BY DEF MarkDeleted, Goto, tables, TypeInv, TypeOK
<1>2. Unwritten # "live" /\ Unwritten # "deleted" /\ req[s].op # "RenameNamespace"
  BY <1>1, ServerAssumption DEF TypeInv, LocalsOK
<1>3. \A n \in Namespaces : nsPend[s][n] = Unwritten
  BY <1>1 DEF NamespaceLocks
<1>4. ASSUME NEW n \in Namespaces, nsPend'[s][n] # Unwritten
      PROVE  /\ nsPend'[s][n] = "deleted"
             /\ ns[n] = "live"
             /\ \A t \in Slots : t # s => nsPend[t][n] = Unwritten
  <2>1. nsPend'[s][n] = IF n \in StillThere(s) THEN "deleted" ELSE nsPend[s][n]
    BY DEF MarkDeleted, TypeInv, TypeOK
  <2>2. n \in StillThere(s)
    BY <1>3, <1>4, <2>1
  <2>3. n \in nss[s] /\ NsView(s)[n] = "live"
    BY <2>2 DEF StillThere, NotDeleted
  <2>4. ns[n] = "live"
    BY <1>3, <2>3 DEF NsView
  <2>5. \A t \in Slots : t # s => nsPend[t][n] = Unwritten
    BY <2>3 DEF MarkDeleted, NsUnlocked
  <2>6. QED
    BY <2>1, <2>2, <2>4, <2>5
<1>5. \A t \in Slots, n \in Namespaces :
        /\ Creates(t, n)' <=> Creates(t, n)
        /\ WritesLive(t, n)' <=> WritesLive(t, n)
  BY <1>1 DEF Creates, Renames, WritesLive
<1>6. DeletesLive'
  BY <1>1, <1>2, <1>4 DEF DeletesLive
<1>7. ASSUME NEW t \in Slots, NEW n \in Namespaces
      PROVE  /\ nsPend'[t][n] = "live" => WritesLive(t, n)'
             /\ pc'[t] = "nsInsert" /\ req'[t].ns = n
                  => Creates(t, n)' /\ ns'[n] = "absent"
             /\ pc'[t] \in {"idle", "lookup", "nsInsert", "nsScan", "nsApply",
                            "rename"}
                  => nsPend'[t][n] = Unwritten
  <2>1. CASE t = s
    BY <1>1, <1>2, <1>4, <2>1
  <2>2. CASE t # s
    BY <1>1, <1>5, <2>2 DEF NamespaceLocks
  <2>3. QED
    BY <2>1, <2>2
<1>8. ASSUME NEW t \in Slots, NEW u \in Slots, NEW n \in Namespaces, t # u
      PROVE  nsPend'[t][n] = Unwritten \/ nsPend'[u][n] = Unwritten
  <2>1. CASE t = s
    BY <1>1, <1>4, <1>8, <2>1
  <2>2. CASE u = s
    BY <1>1, <1>4, <1>8, <2>2
  <2>3. CASE t # s /\ u # s
    BY <1>1, <1>8, <2>3 DEF NamespaceLocks
  <2>4. QED
    BY <2>1, <2>2, <2>3
<1>9. NamespaceLocks'
  BY <1>5, <1>7, <1>8 DEF NamespaceLocks
<1>10. QED
  BY <1>6, <1>9

\* The request that has the fresh id is the only one to write its row.
LEMMA InsertKeepsNs ==
  ASSUME TypeInv, NamespaceLocks, DeletesLive, NEW s \in Slots,
         InsertNamespace(s)
  PROVE  NamespaceLocks' /\ DeletesLive'
<1> DEFINE m == req[s].ns
<1>1. /\ pc[s] = "nsInsert" /\ pc'[s] = "external" /\ req' = req /\ ns' = ns
      /\ \A t \in Slots : t # s => pc'[t] = pc[t] /\ nsPend'[t] = nsPend[t]
  BY DEF InsertNamespace, Goto, tables, TypeInv, TypeOK
<1>2. Unwritten # "live" /\ Unwritten # "deleted"
  BY ServerAssumption
<1>3. m \in Namespaces
  BY <1>1, RequestTypes
<1>4. /\ nsPend'[s][m] = "live"
      /\ \A n \in Namespaces : n # m => nsPend'[s][n] = Unwritten
  BY <1>1, <1>3 DEF InsertNamespace, NamespaceLocks, TypeInv, TypeOK
<1>5. Creates(s, m) /\ ns[m] = "absent"
  BY <1>1, <1>3 DEF NamespaceLocks
<1>6. ASSUME NEW t \in Slots, t # s PROVE nsPend[t][m] = Unwritten
  <2>1. nsPend[t][m] # "live"
    BY <1>3, <1>5, <1>6 DEF NamespaceLocks, WritesLive
  <2>2. nsPend[t][m] # "deleted"
    BY <1>3, <1>5 DEF DeletesLive
  <2>3. QED
    BY <1>3, <2>1, <2>2 DEF TypeInv, TypeOK
<1>7. \A t \in Slots, n \in Namespaces :
        /\ Creates(t, n)' <=> Creates(t, n)
        /\ WritesLive(t, n)' <=> WritesLive(t, n)
  BY <1>1 DEF Creates, Renames, WritesLive
<1>8. DeletesLive'
  BY <1>1, <1>2, <1>4 DEF DeletesLive
<1>9. ASSUME NEW t \in Slots, NEW n \in Namespaces
      PROVE  /\ nsPend'[t][n] = "live" => WritesLive(t, n)'
             /\ pc'[t] = "nsInsert" /\ req'[t].ns = n
                  => Creates(t, n)' /\ ns'[n] = "absent"
             /\ pc'[t] \in {"idle", "lookup", "nsInsert", "nsScan", "nsApply",
                            "rename"}
                  => nsPend'[t][n] = Unwritten
  <2>1. CASE t = s
    BY <1>1, <1>2, <1>4, <1>5, <1>7, <2>1 DEF WritesLive
  <2>2. CASE t # s
    BY <1>1, <1>7, <2>2 DEF NamespaceLocks
  <2>3. QED
    BY <2>1, <2>2
<1>10. ASSUME NEW t \in Slots, NEW u \in Slots, NEW n \in Namespaces, t # u
       PROVE  nsPend'[t][n] = Unwritten \/ nsPend'[u][n] = Unwritten
  <2>1. CASE t = s
    BY <1>1, <1>4, <1>6, <1>10, <2>1
  <2>2. CASE u = s
    BY <1>1, <1>4, <1>6, <1>10, <2>2
  <2>3. CASE t # s /\ u # s
    BY <1>1, <1>10, <2>3 DEF NamespaceLocks
  <2>4. QED
    BY <2>1, <2>2, <2>3
<1>11. NamespaceLocks'
  BY <1>7, <1>9, <1>10 DEF NamespaceLocks
<1>12. QED
  BY <1>8, <1>11

\* A rename writes the row as it is and locks it.
LEMMA RenameKeepsNs ==
  ASSUME TypeInv, NamespaceLocks, DeletesLive, NEW s \in Slots, Rename(s)
  PROVE  NamespaceLocks' /\ DeletesLive'
<1> DEFINE m == req[s].ns
<1>1. /\ pc[s] = "rename" /\ req' = req /\ ns' = ns
      /\ pc'[s] \in {"scan", "external"}
      /\ \A t \in Slots : t # s => pc'[t] = pc[t] /\ nsPend'[t] = nsPend[t]
  BY DEF Rename, Goto, tables, TypeInv, TypeOK
<1>2. Unwritten # "live" /\ Unwritten # "deleted"
  BY ServerAssumption
<1>3. m \in Namespaces
  BY <1>1, RequestTypes
<1>4. /\ nsPend'[s][m] = ns[m]
      /\ \A n \in Namespaces : n # m => nsPend'[s][n] = Unwritten
  BY <1>1, <1>3 DEF Rename, NamespaceLocks, TypeInv, TypeOK
<1>5. \A t \in Slots : t # s => nsPend[t][m] = Unwritten
  BY DEF Rename, NsUnlocked
<1>6. Renames(s, m) /\ req[s].op = "RenameNamespace"
  BY <1>1 DEF Renames, TypeInv, LocalsOK
<1>7. \A t \in Slots, n \in Namespaces :
        /\ Creates(t, n)' <=> Creates(t, n)
        /\ WritesLive(t, n)' <=> WritesLive(t, n)
  BY <1>1 DEF Creates, Renames, WritesLive
<1>8. DeletesLive'
  BY <1>1, <1>2, <1>4, <1>6 DEF DeletesLive
<1>9. ASSUME NEW t \in Slots, NEW n \in Namespaces
      PROVE  /\ nsPend'[t][n] = "live" => WritesLive(t, n)'
             /\ pc'[t] = "nsInsert" /\ req'[t].ns = n
                  => Creates(t, n)' /\ ns'[n] = "absent"
             /\ pc'[t] \in {"idle", "lookup", "nsInsert", "nsScan", "nsApply",
                            "rename"}
                  => nsPend'[t][n] = Unwritten
  <2>1. CASE t = s
    <3>1. nsPend'[s][n] = "live" => WritesLive(s, n)
      BY <1>2, <1>4, <1>6 DEF WritesLive
    <3>2. QED
      BY <1>1, <1>7, <2>1, <3>1
  <2>2. CASE t # s
    BY <1>1, <1>7, <2>2 DEF NamespaceLocks
  <2>3. QED
    BY <2>1, <2>2
<1>10. ASSUME NEW t \in Slots, NEW u \in Slots, NEW n \in Namespaces, t # u
       PROVE  nsPend'[t][n] = Unwritten \/ nsPend'[u][n] = Unwritten
  <2>1. CASE t = s
    BY <1>1, <1>4, <1>5, <1>10, <2>1
  <2>2. CASE u = s
    BY <1>1, <1>4, <1>5, <1>10, <2>2
  <2>3. CASE t # s /\ u # s
    BY <1>1, <1>10, <2>3 DEF NamespaceLocks
  <2>4. QED
    BY <2>1, <2>2, <2>3
<1>11. NamespaceLocks'
  BY <1>7, <1>9, <1>10 DEF NamespaceLocks
<1>12. QED
  BY <1>8, <1>11

LEMMA BeginKeepsNs ==
  ASSUME TypeInv, NamespaceLocks, DeletesLive, NEW s \in Slots,
         NEW r \in Requests, Begin(s, r)
  PROVE  NamespaceLocks' /\ DeletesLive'
<1>1. /\ pc[s] = "idle" /\ req'[s] = r /\ ns' = ns /\ nsPend' = nsPend
      /\ \A t \in Slots : t # s => pc'[t] = pc[t] /\ req'[t] = req[t]
  BY DEF Begin, Goto, tables, writes, TypeInv, TypeOK
<1>2. pc'[s] # "idle" /\ (pc'[s] = "nsInsert" => r.op = "CreateNamespace")
  BY DEF Begin, Goto, FirstStep, TypeInv, TypeOK
<1>3. r.op = "CreateNamespace" => FreshId(r.ns)
  BY DEF Begin
<1>4. Unwritten # "live" /\ Unwritten # "deleted"
  BY ServerAssumption
<1>5. \A n \in Namespaces : nsPend'[s][n] = Unwritten
  BY <1>1 DEF NamespaceLocks
<1>6. \A t \in Slots, n \in Namespaces :
        t # s => /\ Creates(t, n)' <=> Creates(t, n)
                 /\ WritesLive(t, n)' <=> WritesLive(t, n)
  BY <1>1 DEF Creates, Renames, WritesLive
<1>7. ASSUME NEW n \in Namespaces, Creates(s, n)'
      PROVE  ns[n] = "absent" /\ \A t \in Slots : t # s => ~Creates(t, n)
  <2>1. r.op = "CreateNamespace" /\ r.ns = n
    BY <1>1, <1>7 DEF Creates
  <2>2. FreshId(n)
    BY <1>3, <2>1
  <2>3. QED
    BY <2>2 DEF FreshId, Creates
<1>8. DeletesLive'
  BY <1>1, <1>4, <1>5 DEF DeletesLive
<1>9. ASSUME NEW t \in Slots, NEW n \in Namespaces
      PROVE  /\ nsPend'[t][n] = "live" => WritesLive(t, n)'
             /\ pc'[t] = "nsInsert" /\ req'[t].ns = n
                  => Creates(t, n)' /\ ns'[n] = "absent"
             /\ pc'[t] \in {"idle", "lookup", "nsInsert", "nsScan", "nsApply",
                            "rename"}
                  => nsPend'[t][n] = Unwritten
  <2>1. CASE t = s
    <3>1. pc'[s] = "nsInsert" /\ req'[s].ns = n => Creates(s, n)'
      BY <1>1, <1>2 DEF Creates
    <3>2. QED
      BY <1>1, <1>4, <1>5, <1>7, <2>1, <3>1
  <2>2. CASE t # s
    BY <1>1, <1>6, <2>2 DEF NamespaceLocks
  <2>3. QED
    BY <2>1, <2>2
<1>10. ASSUME NEW t \in Slots, NEW u \in Slots, NEW n \in Namespaces, t # u
       PROVE  ~(Creates(t, n)' /\ Creates(u, n)')
  <2>1. CASE t = s
    BY <1>6, <1>7, <1>10, <2>1
  <2>2. CASE u = s
    BY <1>6, <1>7, <1>10, <2>2
  <2>3. CASE t # s /\ u # s
    BY <1>6, <1>10, <2>3 DEF NamespaceLocks
  <2>4. QED
    BY <2>1, <2>2, <2>3
<1>11. NamespaceLocks'
  BY <1>1, <1>9, <1>10 DEF NamespaceLocks
<1>12. QED
  BY <1>8, <1>11

LEMMA CrashKeepsNs ==
  ASSUME DeletesLive, Crash
  PROVE  NamespaceLocks' /\ DeletesLive'
<1>1. Unwritten # "live" /\ Unwritten # "deleted"
  BY ServerAssumption
<1>2. \A t \in Slots, n \in Namespaces :
        /\ nsPend'[t][n] = Unwritten
        /\ pc'[t] = "idle"
  BY DEF Crash
<1>3. QED
  BY <1>1, <1>2 DEF NamespaceLocks, DeletesLive, Creates

LEMMA StillKeepsNs ==
  ASSUME NamespaceLocks, DeletesLive, UNCHANGED vars
  PROVE  NamespaceLocks' /\ DeletesLive'
<1>1. ns' = ns /\ nsPend' = nsPend /\ pc' = pc /\ req' = req
  BY DEF vars
<1>2. QED
  BY <1>1 DEF NamespaceLocks, DeletesLive, Creates, Renames, WritesLive

LEMMA RollbackKeepsNs ==
  ASSUME TypeInv, NamespaceLocks, DeletesLive, NEW s \in Slots, Rollback(s)
  PROVE  NamespaceLocks' /\ DeletesLive'
BY EndKeepsNs DEF Rollback, tables

LEMMA StepKeepsNs ==
  ASSUME TypeInv, NamespaceLocks, DeletesLive, NEW s \in Slots, Step(s)
  PROVE  NamespaceLocks' /\ DeletesLive'
<1>1. CASE Lookup(s)
  <2>1. PICK p \in {"count", "scan", "nsScan", "member", "rename"} : Goto(s, p)
    BY <1>1 DEF Lookup
  <2>2. pc[s] = "lookup" /\ ns' = ns /\ nsPend' = nsPend /\ req' = req
    BY <1>1 DEF Lookup, tables, writes
  <2>3. QED
    BY <2>1, <2>2, MoveKeepsNs DEF Steps
<1>2. CASE PickMember(s) \/ NoMoreOwners(s)
  <2>1. PICK p \in {"count", "commit", "upsertList"} : Goto(s, p)
    BY <1>2 DEF PickMember, NoMoreOwners
  <2>2. pc[s] = "member" /\ ns' = ns /\ nsPend' = nsPend /\ req' = req
    BY <1>2 DEF PickMember, NoMoreOwners, tables, writes
  <2>3. QED
    BY <2>1, <2>2, MoveKeepsNs DEF Steps
<1>3. CASE CountOwners(s)
  <2>1. PICK p \in {"upsert", "upsertList"} : Goto(s, p)
    BY <1>3 DEF CountOwners, InsertStep
  <2>2. pc[s] = "count" /\ ns' = ns /\ nsPend' = nsPend /\ req' = req
    BY <1>3 DEF CountOwners, tables, writes
  <2>3. QED
    BY <2>1, <2>2, MoveKeepsNs DEF Steps
<1>4. CASE OwnerExists(s)
  <2>1. CASE req[s].op = "AddGroupNamespace"
    <3>1. /\ pc[s] = "count" /\ Goto(s, "upsert")
          /\ ns' = ns /\ nsPend' = nsPend /\ req' = req
      BY <1>4, <2>1 DEF OwnerExists, tables, writes
    <3>2. QED
      BY <3>1, MoveKeepsNs DEF Steps
  <2>2. CASE req[s].op # "AddGroupNamespace"
    BY <1>4, <2>2, RollbackKeepsNs DEF OwnerExists
  <2>3. QED
    BY <2>1, <2>2
<1>5. CASE Upsert(s) \/ UpsertList(s)
  <2>1. PICK p \in {"commitMember", "authRead", "commit"} : Goto(s, p)
    BY <1>5 DEF Upsert, UpsertList
  <2>2. /\ pc[s] \in {"upsert", "upsertList"}
        /\ ns' = ns /\ nsPend' = nsPend /\ req' = req
    BY <1>5 DEF Upsert, UpsertList, tables
  <2>3. QED
    BY <2>1, <2>2, MoveKeepsNs DEF Steps
<1>6. CASE Refused(s)
  BY <1>6, RollbackKeepsNs
     DEF Refused, LookupRefused, Unstorable, CreateRefused, NothingToDelete,
         RenameRefused
<1>7. CASE CommitMember(s)
  BY <1>7, MemberKeepsNs DEF CommitMember
<1>8. CASE Commit(s)
  BY <1>8, EndKeepsNs DEF Commit
<1>9. CASE ScanNamespaces(s) \/ Scan(s) \/ External(s)
  <2>1. PICK p \in {"nsApply", "apply", "authRead"} :
          Goto(s, p) /\ (p = "nsApply" => pc[s] = "nsScan")
    BY <1>9 DEF ScanNamespaces, Scan, External
  <2>2. /\ pc[s] \in {"nsScan", "scan", "external"}
        /\ ns' = ns /\ nsPend' = nsPend /\ req' = req
    BY <1>9 DEF ScanNamespaces, Scan, External, tables, writes
  <2>3. QED
    BY <2>1, <2>2, MoveKeepsNs DEF Steps
<1>10. CASE Apply(s)
  <2>1. AfterApply(s) \in {"external", "scan", "commit", "authRead"}
    BY DEF AfterApply
  <2>2. /\ pc[s] = "apply" /\ Goto(s, AfterApply(s))
        /\ ns' = ns /\ nsPend' = nsPend /\ req' = req
    BY <1>10 DEF Apply, tables
  <2>3. QED
    BY <2>1, <2>2, MoveKeepsNs DEF Steps
<1>11. CASE ReadAccesses(s)
  <2>1. /\ pc[s] = "authRead" /\ Goto(s, "authPush")
        /\ ns' = ns /\ nsPend' = nsPend /\ req' = req
    BY <1>11 DEF ReadAccesses, tables, writes
  <2>2. QED
    BY <2>1, MoveKeepsNs DEF Steps
<1>12. CASE PushAccesses(s)
  <2>1. PICK p \in {"commit", "authRead"} : Goto(s, p)
    BY <1>12 DEF PushAccesses, PushDone
  <2>2. /\ pc[s] = "authPush"
        /\ ns' = ns /\ nsPend' = nsPend /\ req' = req
    BY <1>12 DEF PushAccesses, PushDone, tables, writes
  <2>3. QED
    BY <2>1, <2>2, MoveKeepsNs DEF Steps
<1>13. QED
  BY <1>1, <1>2, <1>3, <1>4, <1>5, <1>6, <1>7, <1>8, <1>9, <1>10, <1>11,
     <1>12, MarkDeletedKeepsNs, InsertKeepsNs, RenameKeepsNs DEF Step, Refused

LEMMA BreakKeepsNs ==
  ASSUME TypeInv, NamespaceLocks, DeletesLive, NEW s \in Slots, Break(s)
  PROVE  NamespaceLocks' /\ DeletesLive'
<1>1. CASE Fail(s)
  BY <1>1, RollbackKeepsNs DEF Fail
<1>2. CASE MemberFails(s)
  <2>1. pc[s] # "idle"
    BY <1>2 DEF MemberFails, OwnerMemberStep
  <2>2. QED
    BY <1>2, <2>1, MemberKeepsNs DEF MemberFails
<1>3. CASE PushIgnored(s)
  <2>1. PICK p \in {"commit", "authRead"} : Goto(s, p)
    BY <1>3 DEF PushIgnored, PushDone
  <2>2. /\ pc[s] = "authPush"
        /\ ns' = ns /\ nsPend' = nsPend /\ req' = req
    BY <1>3 DEF PushIgnored, PushDone, tables, writes
  <2>3. QED
    BY <2>1, <2>2, MoveKeepsNs DEF Steps
<1>4. QED
  BY <1>1, <1>2, <1>3 DEF Break

LEMMA NsInvInit == Init => NsInv
<1> SUFFICES ASSUME Init PROVE NsInv
  OBVIOUS
<1>1. TypeInv
  BY InitType
<1>2. Unwritten # "live" /\ Unwritten # "deleted"
  BY ServerAssumption
<1>3. \A s \in Slots, n \in Namespaces :
        pc[s] = "idle" /\ nsPend[s][n] = Unwritten
  BY DEF Init
<1>4. NamespaceLocks /\ DeletesLive
  BY <1>2, <1>3 DEF NamespaceLocks, DeletesLive, Creates
<1>5. QED
  BY <1>1, <1>4 DEF NsInv

LEMMA NsInvNext == NsInv /\ [Next]_vars => NsInv'
<1> SUFFICES ASSUME NsInv, [Next]_vars PROVE NsInv'
  OBVIOUS
<1>1. TypeInv'
  BY NextType DEF NsInv
<1>2. NamespaceLocks' /\ DeletesLive'
  BY StillKeepsNs, StepKeepsNs, BreakKeepsNs, BeginKeepsNs, CrashKeepsNs
     DEF NsInv, Next
<1>3. QED
  BY <1>1, <1>2 DEF NsInv

(* A transaction that is deleting a namespace deletes one that is live, so *)
(* no two requests delete the same namespace.                              *)
THEOREM DeletesOnce == Spec => []DeletesLive
<1>1. NsInv => DeletesLive
  BY DEF NsInv
<1>2. QED
  BY <1>1, NsInvInit, NsInvNext, PTL DEF Spec
=============================================================================
