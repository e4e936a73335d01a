-------------------------- MODULE PermissionServer --------------------------
(***************************************************************************)
(* The handlers of the service that read and write permissions, run by     *)
(* concurrent requests.  Each request runs in a slot (a goroutine and the  *)
(* pool connection of its transaction).  A transaction's writes are kept   *)
(* apart until Commit; it reads the committed tables overlaid with its own *)
(* writes, statement by statement (READ COMMITTED), and a row written by   *)
(* an open transaction is locked against the others.                       *)
(*                                                                         *)
(* An UPDATE or DELETE with a condition takes two steps, as in PostgreSQL: *)
(* it finds the rows that match, then waits until no other transaction     *)
(* holds one of them, and changes those that still match.                  *)
(***************************************************************************)
EXTENDS PermissionTable

CONSTANTS Slots,        \* requests in progress at once
          Requests,     \* the requests clients may send
          OwnerOf,      \* owner_user_id of each namespace, set once
          Members,      \* the groups of the user manager: user -> level
          LiveAtStart,  \* namespaces in the table at the start
          Faults,       \* whether calls, commits and the process may fail
          NoRequest, NoUser, Unwritten

Ops == {"SetNamespaceAccess", "DeleteNamespaceAccess", "SetUserAccesses",
        "CreateNamespace", "DeleteNamespace", "DeleteAllUserNamespaces",
        "RenameNamespace", "AddGroupNamespace",
        "SetGroupMemberNamespaceAccess", "DeleteGroupFromNamespace"}

Request == [op : Ops, caller : Users, admin : BOOLEAN, ns : Namespaces,
            target : Users, level : Levels, group : Groups]

Grants == [Users -> Levels \union {NoAccess}]

ASSUME ServerAssumption ==
  /\ Requests \subseteq Request
  /\ OwnerOf \in [Namespaces -> Users]
  /\ Members \in [Groups -> Grants]
  /\ LiveAtStart \subseteq Namespaces
  /\ Faults \in BOOLEAN
  /\ NoRequest \notin Request
  /\ NoUser \notin Users
  /\ Unwritten \notin RowOrNone \union {"absent", "live", "deleted"}

VARIABLES
  perm,    \* table permissions, committed
  ns,      \* table namespaces, committed: absent, live or deleted
  pend,    \* permission rows each slot's transaction has written
  nsPend,  \* namespace rows each slot's transaction has written
  auth,    \* the access list the auth service holds for each user
  pc,      \* where the request of each slot is
  req,     \* the request itself; the rest are local variables of handlers
  grants,  \* levels about to be written, by user
  nss,     \* namespaces found for deletion, then those yet to be swept
  targets, \* permission rows the current statement found
  users,   \* users still to be handled: owner members, or lists to send
  user,    \* the one being handled
  list     \* the access list being sent

tables == <<perm, ns>>
writes == <<pend, nsPend>>
vars == <<perm, ns, pend, nsPend, auth, pc, req, grants, nss, targets, users,
          user, list>>

Steps == {"idle", "lookup", "member", "count", "upsert", "upsertList",
          "commitMember", "nsInsert", "nsScan", "nsApply", "rename", "scan",
          "apply", "external", "authRead", "authPush", "commit"}

NobodyGranted == [u \in Users |-> NoAccess]
EmptyList     == [n \in Namespaces |-> NoAccess]

Init ==
  /\ ns = [n \in Namespaces |-> IF n \in LiveAtStart THEN "live" ELSE "absent"]
  /\ perm = [k \in Keys |->
               IF NsOf(k) \in LiveAtStart /\ UserOf(k) = OwnerOf[NsOf(k)]
               THEN OwnerRow ELSE NoRow]
  /\ pend = [s \in Slots |-> [k \in Keys |-> Unwritten]]
  /\ nsPend = [s \in Slots |-> [n \in Namespaces |-> Unwritten]]
  /\ auth = [u \in Users |-> UserAccesses(perm, ns, u)]
  /\ pc = [s \in Slots |-> "idle"]
  /\ req = [s \in Slots |-> NoRequest]
  /\ grants = [s \in Slots |-> NobodyGranted]
  /\ nss = [s \in Slots |-> {}]
  /\ targets = [s \in Slots |-> {}]
  /\ users = [s \in Slots |-> {}]
  /\ user = [s \in Slots |-> NoUser]
  /\ list = [s \in Slots |-> EmptyList]

-----------------------------------------------------------------------------
(* What a transaction sees, what it may touch, and how it ends.            *)

PermView(s) == [k \in Keys |-> IF pend[s][k] = Unwritten THEN perm[k]
                               ELSE pend[s][k]]

NsView(s) == [n \in Namespaces |-> IF nsPend[s][n] = Unwritten THEN ns[n]
                                   ELSE nsPend[s][n]]

Unlocked(s, k)   == \A t \in Slots \ {s} : pend[t][k] = Unwritten
NsUnlocked(s, n) == \A t \in Slots \ {s} : nsPend[t][n] = Unwritten

Goto(s, p) == pc' = [pc EXCEPT ![s] = p]

\* Variant with a slip: a transaction left open after an error.
LeaveOpen(s) == UNCHANGED <<pend, nsPend>>

\* The transaction is over and its writes are dropped from the overlay.
Release(s) ==
  /\ pend' = [pend EXCEPT ![s] = [k \in Keys |-> Unwritten]]
  /\ nsPend' = [nsPend EXCEPT ![s] = [n \in Namespaces |-> Unwritten]]

\* The handler returns; its local variables are gone.
Return(s) ==
  /\ Goto(s, "idle")
  /\ req' = [req EXCEPT ![s] = NoRequest]
  /\ grants' = [grants EXCEPT ![s] = NobodyGranted]
  /\ nss' = [nss EXCEPT ![s] = {}]
  /\ users' = [users EXCEPT ![s] = {}]
  /\ user' = [user EXCEPT ![s] = NoUser]
  /\ list' = [list EXCEPT ![s] = EmptyList]

\* The handler returns an error, and RunInTransaction rolls back.
Rollback(s) ==
  /\ Release(s)
  /\ Return(s)
  /\ targets' = [targets EXCEPT ![s] = {}]
  /\ UNCHANGED <<tables, auth>>

-----------------------------------------------------------------------------
(* A request arrives.                                                      *)

OwnerMembers(g) == {u \in Users : Members[g][u] = Owner}

(* RequireAdminRole, on the one route of these operations that has it.     *)
Routed(r) == r.op = "AddGroupNamespace" => r.admin

(* The uuid of a namespace about to be created is one nobody has used.     *)
FreshId(n) ==
  /\ ns[n] = "absent"
  /\ \A t \in Slots : /\ nsPend[t][n] = Unwritten
                      /\ pc[t] # "idle" =>
                           ~(req[t].op = "CreateNamespace" /\ req[t].ns = n)

FirstStep(op) ==
  CASE op = "CreateNamespace" -> "nsInsert"
    [] op = "DeleteAllUserNamespaces" -> "nsScan"
    [] op \in {"SetUserAccesses", "DeleteGroupFromNamespace"} -> "scan"
    [] OTHER -> "lookup"

(* The user whose access list the handler sends to auth at its end.        *)
Audience(r) ==
  CASE r.op \in {"SetNamespaceAccess", "DeleteNamespaceAccess",
                 "SetGroupMemberNamespaceAccess"} -> {r.target}
    [] r.op \in {"AddGroupNamespace", "DeleteGroupFromNamespace"} -> {}
    [] OTHER -> {r.caller}

Begin(s, r) ==
  /\ pc[s] = "idle"
  /\ Routed(r)
  /\ r.op = "CreateNamespace" => FreshId(r.ns) /\ r.caller = OwnerOf[r.ns]
  /\ Goto(s, FirstStep(r.op))
  /\ req' = [req EXCEPT ![s] = r]
  /\ users' = [users EXCEPT ![s] = Audience(r)]
  /\ UNCHANGED <<tables, writes, auth, grants, nss, targets, user, list>>

-----------------------------------------------------------------------------
(* NamespaceByName and the checks after it.  The transaction has written   *)
(* nothing yet, so s.db and tx read the same rows.                         *)

NamespaceByName(r) ==
  /\ ns[r.ns] = "live"
  /\ r.admin \/ Visible(perm[<<r.caller, r.ns>>])

OwnerCheck(r) == r.caller = OwnerOf[r.ns] \/ r.admin

Permitted(r) ==
  /\ r.op \in {"SetNamespaceAccess", "DeleteNamespaceAccess",
               "DeleteNamespace", "RenameNamespace"} => OwnerCheck(r)
  /\ r.op = "SetNamespaceAccess" => r.target # OwnerOf[r.ns]

OneGrant(u, l) == [NobodyGranted EXCEPT ![u] = l]

Lookup(s) ==
  LET r == req[s] IN
  /\ pc[s] = "lookup"
  /\ NamespaceByName(r)
  /\ Permitted(r)
  /\ \/ /\ r.op \in {"SetNamespaceAccess", "SetGroupMemberNamespaceAccess"}
        /\ Goto(s, "count")
        /\ grants' = [grants EXCEPT ![s] = OneGrant(r.target, r.level)]
        /\ UNCHANGED users
     \/ /\ r.op = "DeleteNamespaceAccess"
        /\ Goto(s, "scan")
        /\ UNCHANGED <<grants, users>>
     \/ /\ r.op = "DeleteNamespace"
        /\ Goto(s, "nsScan")
        /\ UNCHANGED <<grants, users>>
     \/ /\ r.op = "RenameNamespace"
        /\ Goto(s, "rename")
        /\ UNCHANGED <<grants, users>>
     \/ /\ r.op = "AddGroupNamespace"
        /\ Goto(s, "member")
        /\ users' = [users EXCEPT ![s] = OwnerMembers(r.group)]
        /\ UNCHANGED grants
  /\ UNCHANGED <<tables, writes, auth, req, nss, targets, user, list>>

LookupRefused(s) ==
  /\ pc[s] = "lookup"
  /\ ~(NamespaceByName(req[s]) /\ Permitted(req[s]))
  /\ Rollback(s)

-----------------------------------------------------------------------------
(* AddGroupNamespace: members with owner access one by one, each in its    *)
(* own transaction, then the others in one more.                           *)

PickMember(s) ==
  /\ pc[s] = "member"
  /\ \E u \in users[s] :
       /\ user' = [user EXCEPT ![s] = u]
       /\ users' = [users EXCEPT ![s] = users[s] \ {u}]
       /\ grants' = [grants EXCEPT ![s] = OneGrant(u, Owner)]
  /\ Goto(s, "count")
  /\ UNCHANGED <<tables, writes, auth, req, nss, targets, list>>

OtherMembers(g) ==
  [u \in Users |-> IF Members[g][u] = Owner THEN NoAccess ELSE Members[g][u]]

NoMoreOwners(s) ==
  LET others == OtherMembers(req[s].group) IN
  /\ pc[s] = "member"
  /\ users[s] = {}
  /\ grants' = [grants EXCEPT ![s] = others]
  /\ Goto(s, IF others = NobodyGranted THEN "commit" ELSE "upsertList")
  /\ UNCHANGED <<tables, writes, auth, req, nss, targets, users, user, list>>

-----------------------------------------------------------------------------
(* Writing grants: Permission.BeforeInsert counts the owners first, in a   *)
(* query of its own, then one INSERT ... ON CONFLICT writes every row.     *)

Written(s) == {<<u, req[s].ns>> :
                 u \in {v \in Users : grants[s][v] # NoAccess}}

BeforeInsert(s) ==
  (\E u \in Users : grants[s][u] = Owner) =>
     OwnersOf(PermView(s), req[s].ns) = {}

InsertStep(op) ==
  IF op = "SetGroupMemberNamespaceAccess" THEN "upsertList" ELSE "upsert"

CountOwners(s) ==
  /\ pc[s] = "count"
  /\ BeforeInsert(s)
  /\ Goto(s, InsertStep(req[s].op))
  /\ UNCHANGED <<tables, writes, auth, req, grants, nss, targets, users, user, list>>

\* ErrOwnerAlreadyExists.  AddGroupNamespace falls back to write access, in
\* the same transaction; write access needs no count.
OwnerExists(s) ==
  /\ pc[s] = "count"
  /\ ~BeforeInsert(s)
  /\ IF req[s].op = "AddGroupNamespace"
     THEN /\ Goto(s, "upsert")
          /\ grants' = [grants EXCEPT ![s] = OneGrant(user[s], Write)]
          /\ UNCHANGED <<tables, writes, auth, req, nss, targets, users, user, list>>
     ELSE Rollback(s)

CanWrite(s) ==
  /\ \A k \in Written(s) : Unlocked(s, k)
  /\ \A u \in Users : grants[s][u] # NoAccess => Storable(grants[s][u])

\* tx.SetNamespaceAccess
Upsert(s) ==
  /\ pc[s] = "upsert"
  /\ CanWrite(s)
  /\ pend' = [pend EXCEPT ![s] =
       [k \in Keys |-> IF k \in Written(s)
                       THEN GrantedRow(PermView(s)[k], grants[s][UserOf(k)])
                       ELSE pend[s][k]]]
  /\ Goto(s, IF req[s].op = "AddGroupNamespace" THEN "commitMember" ELSE "authRead")
  /\ UNCHANGED <<tables, nsPend, auth, req, grants, nss, targets, users, user, list>>

\* The group a list of grants carries: members set one by one carry none.
ListGroup(r) == IF r.op = "AddGroupNamespace" THEN r.group ELSE NoGroup

\* tx.SetNamespacesAccesses
UpsertList(s) ==
  /\ pc[s] = "upsertList"
  /\ CanWrite(s)
  /\ pend' = [pend EXCEPT ![s] =
       [k \in Keys |-> IF k \in Written(s)
                       THEN ListedRow(grants[s][UserOf(k)],
                                      ListGroup(req[s]))
                       ELSE pend[s][k]]]
  /\ Goto(s, IF req[s].op = "AddGroupNamespace" THEN "commit" ELSE "authRead")
  /\ UNCHANGED <<tables, nsPend, auth, req, grants, nss, targets, users, user, list>>

\* A level the enum does not know: the statement fails.
Unstorable(s) ==
  /\ \/ /\ pc[s] \in {"upsert", "upsertList"}
        /\ \E u \in Users : /\ grants[s][u] # NoAccess
                            /\ ~Storable(grants[s][u])
     \/ /\ pc[s] = "scan"
        /\ req[s].op = "SetUserAccesses"
        /\ ~Storable(req[s].level)
  /\ Rollback(s)

\* On to the next owner member.
NextMember(s) ==
  /\ Release(s)
  /\ Goto(s, "member")
  /\ user' = [user EXCEPT ![s] = NoUser]
  /\ grants' = [grants EXCEPT ![s] = NobodyGranted]
  /\ UNCHANGED <<ns, auth, req, nss, targets, users, list>>

\* The transaction of one owner member commits.
CommitMember(s) ==
  /\ pc[s] = "commitMember"
  /\ perm' = PermView(s)
  /\ NextMember(s)

-----------------------------------------------------------------------------
(* Namespaces created and deleted.                                         *)

\* The insert, with the owner's permission that AfterInsert adds.
InsertNamespace(s) ==
  LET r == req[s] IN
  /\ pc[s] = "nsInsert"
  /\ nsPend' = [nsPend EXCEPT ![s] = [nsPend[s] EXCEPT ![r.ns] = "live"]]
  /\ pend' = [pend EXCEPT ![s] =
                [pend[s] EXCEPT ![<<OwnerOf[r.ns], r.ns>>] = OwnerRow]]
  /\ Goto(s, "external")
  /\ UNCHANGED <<tables, auth, req, grants, nss, targets, users, user, list>>

\* The tariff is refused, or the label is taken (labels are left out here).
CreateRefused(s) ==
  /\ pc[s] = "nsInsert"
  /\ Rollback(s)

(* UPDATE namespaces SET deleted ... WHERE NOT deleted AND ...             *)
NsMatches(r, n) ==
  IF r.op = "DeleteNamespace" THEN n = r.ns ELSE OwnerOf[n] = r.caller

\* Variant with a slip: the condition is not checked again after the wait.
NotDeletedWhenFound(s, n) == TRUE

NotDeleted(s, n) == NsView(s)[n] = "live"

ScanNamespaces(s) ==
  /\ pc[s] = "nsScan"
  /\ nss' = [nss EXCEPT ![s] = {n \in Namespaces : NsView(s)[n] = "live"
                                                  /\ NsMatches(req[s], n)}]
  /\ Goto(s, "nsApply")
  /\ UNCHANGED <<tables, writes, auth, req, grants, targets, users, user, list>>

StillThere(s) == {n \in nss[s] : NotDeleted(s, n)}

MarkDeleted(s) ==
  /\ pc[s] = "nsApply"
  /\ \A n \in nss[s] : NsUnlocked(s, n)
  /\ StillThere(s) # {}
  /\ nsPend' = [nsPend EXCEPT ![s] =
                  [n \in Namespaces |-> IF n \in StillThere(s) THEN "deleted"
                                        ELSE nsPend[s][n]]]
  /\ nss' = [nss EXCEPT ![s] = StillThere(s)]
  /\ Goto(s, "scan")
  /\ UNCHANGED <<tables, pend, auth, req, grants, targets, users, user, list>>

\* No row was updated: ErrResourceNotExists.
NothingToDelete(s) ==
  /\ pc[s] = "nsApply"
  /\ \A n \in nss[s] : NsUnlocked(s, n)
  /\ StillThere(s) = {}
  /\ Rollback(s)

\* Variant with a slip: the UPDATE writes the whole copy that was looked up.
RenameWritesCopy(s) ==
  /\ pc[s] = "rename"
  /\ NsUnlocked(s, req[s].ns)
  /\ nsPend' = [nsPend EXCEPT ![s] = [nsPend[s] EXCEPT ![req[s].ns] = "live"]]
  /\ Goto(s, "external")
  /\ UNCHANGED <<tables, pend, auth, req, grants, nss, targets, users, user, list>>

(* UPDATE namespaces SET label ... WHERE id = ... RETURNING *: the row is  *)
(* written whether or not it has been marked deleted since the look-up,    *)
(* and the copy it returns decides whether AfterUpdate has rows to remove. *)
Rename(s) ==
  LET n == req[s].ns IN
  /\ pc[s] = "rename"
  /\ NsUnlocked(s, n)
  /\ ns[n] # "absent"
  /\ nsPend' = [nsPend EXCEPT ![s] = [nsPend[s] EXCEPT ![n] = ns[n]]]
  /\ IF ns[n] = "deleted"
     THEN /\ nss' = [nss EXCEPT ![s] = {n}]
          /\ Goto(s, "scan")
     ELSE /\ Goto(s, "external")
          /\ UNCHANGED nss
  /\ UNCHANGED <<tables, pend, auth, req, grants, targets, users, user, list>>

\* The owner has another namespace with the label (labels are left out here).
RenameRefused(s) ==
  /\ pc[s] = "rename"
  /\ Rollback(s)

-----------------------------------------------------------------------------
(* Statements that change the rows their condition finds.                  *)

\* Variant with a slip: AfterUpdate does not remove the permissions.
KeepsPermissions(s, k) == FALSE

(* Resource.AfterUpdate runs after the update of a namespace and removes   *)
(* the permissions of a row that comes back marked deleted.                *)
Sweeps(r) ==
  r.op \in {"DeleteNamespace", "DeleteAllUserNamespaces", "RenameNamespace"}

OfDeleted(s, k) == nsPend[s][NsOf(k)] = "deleted"

Matches(s, k, row) ==
  LET r == req[s] IN
  /\ row # NoRow
  /\ CASE r.op = "SetUserAccesses" ->
            OwnerOf[NsOf(k)] = r.caller /\ ns[NsOf(k)] # "absent"
       [] r.op = "DeleteNamespaceAccess" ->
            k = <<r.target, r.ns>> /\ Deletable(row)
       [] r.op = "DeleteGroupFromNamespace" -> row.group = r.group
       [] OTHER -> OfDeleted(s, k)

Changed(r, row) ==
  IF r.op = "SetUserAccesses" THEN LimitedRow(row, r.level) ELSE NoRow

(* The namespaces in the reach of the next statement: AfterUpdate is called *)
(* for one updated row after the other, the other statements see them all. *)
Ranges(s) == IF Sweeps(req[s]) THEN {{n} : n \in nss[s]} ELSE {Namespaces}

Scan(s) ==
  /\ pc[s] = "scan"
  /\ req[s].op = "SetUserAccesses" => Storable(req[s].level)
  /\ \E range \in Ranges(s) :
       /\ targets' = [targets EXCEPT ![s] =
            {k \in Keys : NsOf(k) \in range /\ Matches(s, k, PermView(s)[k])}]
       /\ nss' = [nss EXCEPT ![s] = nss[s] \ range]
  /\ Goto(s, "apply")
  /\ UNCHANGED <<tables, writes, auth, req, grants, users, user, list>>

(* The rows found that still match.  A row deleted in the meantime is no   *)
(* longer among the targets (PassedOver).                                  *)
Affected(s) == {k \in targets[s] : Matches(s, k, PermView(s)[k])}

\* The users DeleteGroupFromNamespace goes on to refresh come from the rows
\* it deleted; the other handlers know theirs beforehand.
Refreshed(s) ==
  IF req[s].op = "DeleteGroupFromNamespace"
  THEN {UserOf(k) : k \in Affected(s)} ELSE users[s]

AfterApply(s) ==
  CASE Sweeps(req[s]) /\ nss[s] = {} -> "external"
    [] Sweeps(req[s]) /\ nss[s] # {} -> "scan"
    [] OTHER -> IF Refreshed(s) = {} THEN "commit" ELSE "authRead"

Apply(s) ==
  /\ pc[s] = "apply"
  /\ \A k \in targets[s] : Unlocked(s, k)
  /\ pend' = [pend EXCEPT ![s] =
       [k \in Keys |-> IF k \in Affected(s)
                       THEN Changed(req[s], PermView(s)[k])
                       ELSE pend[s][k]]]
  /\ Goto(s, AfterApply(s))
  /\ targets' = [targets EXCEPT ![s] = Affected(s)]
  /\ users' = [users EXCEPT ![s] = Refreshed(s)]
  /\ UNCHANGED <<tables, nsPend, auth, req, grants, nss, user, list>>

\* The calls to kube, billing, solutions, resource and volume services.
External(s) ==
  /\ pc[s] = "external"
  /\ Goto(s, "authRead")
  /\ UNCHANGED <<tables, writes, auth, req, grants, nss, targets, users, user, list>>

-----------------------------------------------------------------------------
(* updateUserAccesses: read the user's accesses, send the whole list.      *)

\* Variant with a slip: every handler passes s.db instead of tx.
AlwaysCommitted(r) == TRUE

ReadsCommitted(r) ==
  r.op \in {"SetGroupMemberNamespaceAccess", "DeleteGroupFromNamespace"}

ReadAccesses(s) ==
  /\ pc[s] = "authRead"
  /\ \E u \in users[s] :
       /\ user' = [user EXCEPT ![s] = u]
       /\ list' = [list EXCEPT ![s] =
                     IF ReadsCommitted(req[s])
                     THEN UserAccesses(perm, ns, u)
                     ELSE UserAccesses(PermView(s), NsView(s), u)]
  /\ Goto(s, "authPush")
  /\ UNCHANGED <<tables, writes, auth, req, grants, nss, targets, users>>

PushDone(s) ==
  LET left == users[s] \ {user[s]} IN
  /\ Goto(s, IF left = {} THEN "commit" ELSE "authRead")
  /\ users' = [users EXCEPT ![s] = left]
  /\ user' = [user EXCEPT ![s] = NoUser]
  /\ list' = [list EXCEPT ![s] = EmptyList]
  /\ UNCHANGED <<tables, writes, req, grants, nss, targets>>

PushAccesses(s) ==
  /\ pc[s] = "authPush"
  /\ auth' = [auth EXCEPT ![user[s]] = list[s]]
  /\ PushDone(s)

-----------------------------------------------------------------------------
(* The end of a request, and failures.                                     *)

\* A statement that waits passes over a row the commit deletes, even if the
\* same key is inserted again before it goes on.
PassedOver(s) ==
  targets' = [t \in Slots |->
                CASE t = s -> {}
                  [] t # s /\ pc[t] = "apply" ->
                       {k \in targets[t] : pend[s][k] # NoRow}
                  [] OTHER -> targets[t]]

Commit(s) ==
  /\ pc[s] = "commit"
  /\ perm' = PermView(s)
  /\ ns' = NsView(s)
  /\ Release(s)
  /\ Return(s)
  /\ PassedOver(s)
  /\ UNCHANGED auth

OwnerMemberStep(s) ==
  /\ pc[s] \in {"count", "upsert", "commitMember"}
  /\ req[s].op = "AddGroupNamespace"

\* A call, a statement or the commit fails and the handler gives up.
Fail(s) ==
  /\ Faults
  /\ pc[s] # "idle"
  /\ ~OwnerMemberStep(s)
  /\ Rollback(s)

\* The transaction of one owner member fails: logged, the loop goes on.
MemberFails(s) ==
  /\ Faults
  /\ OwnerMemberStep(s)
  /\ NextMember(s)
  /\ UNCHANGED perm

\* DeleteGroupFromNamespace only logs that a push failed.
PushIgnored(s) ==
  /\ Faults
  /\ pc[s] = "authPush"
  /\ req[s].op = "DeleteGroupFromNamespace"
  /\ PushDone(s)
  /\ UNCHANGED auth

\* The process dies: the database rolls every open transaction back.
Crash ==
  /\ Faults
  /\ pend' = [s \in Slots |-> [k \in Keys |-> Unwritten]]
  /\ nsPend' = [s \in Slots |-> [n \in Namespaces |-> Unwritten]]
  /\ pc' = [s \in Slots |-> "idle"]
  /\ req' = [s \in Slots |-> NoRequest]
  /\ grants' = [s \in Slots |-> NobodyGranted]
  /\ nss' = [s \in Slots |-> {}]
  /\ targets' = [s \in Slots |-> {}]
  /\ users' = [s \in Slots |-> {}]
  /\ user' = [s \in Slots |-> NoUser]
  /\ list' = [s \in Slots |-> EmptyList]
  /\ UNCHANGED <<tables, auth>>

Step(s) ==
  \/ Lookup(s) \/ LookupRefused(s)
  \/ PickMember(s) \/ NoMoreOwners(s) \/ CommitMember(s)
  \/ CountOwners(s) \/ OwnerExists(s)
  \/ Upsert(s) \/ UpsertList(s) \/ Unstorable(s)
  \/ InsertNamespace(s) \/ CreateRefused(s)
  \/ ScanNamespaces(s) \/ MarkDeleted(s) \/ NothingToDelete(s)
  \/ Rename(s) \/ RenameRefused(s)
  \/ Scan(s) \/ Apply(s) \/ External(s)
  \/ ReadAccesses(s) \/ PushAccesses(s) \/ Commit(s)

Break(s) == Fail(s) \/ MemberFails(s) \/ PushIgnored(s)

Next ==
  \/ \E s \in Slots : Step(s) \/ Break(s) \/ \E r \in Requests : Begin(s, r)
  \/ Crash

Spec == Init /\ [][Next]_vars

(* A handler that can go on does.  Strong fairness: PostgreSQL queues the  *)
(* waiters of a row, so a statement is not passed over for ever.           *)
FairSpec == Spec /\ \A s \in Slots : SF_vars(Step(s))

-----------------------------------------------------------------------------
(* Properties.                                                             *)

(* Every variable stays within its type.                                   *)
TypeOK ==
  /\ perm \in [Keys -> RowOrNone]
  /\ ns \in [Namespaces -> {"absent", "live", "deleted"}]
  /\ pend \in [Slots -> [Keys -> RowOrNone \union {Unwritten}]]
  /\ nsPend \in [Slots -> [Namespaces -> {"live", "deleted", Unwritten}]]
  /\ auth \in [Users -> [Namespaces -> Levels \union {NoAccess}]]
  /\ pc \in [Slots -> Steps]
  /\ req \in [Slots -> Requests \union {NoRequest}]
  /\ grants \in [Slots -> Grants]
  /\ nss \in [Slots -> SUBSET Namespaces]
  /\ targets \in [Slots -> SUBSET Keys]
  /\ users \in [Slots -> SUBSET Users]
  /\ user \in [Slots -> Users \union {NoUser}]
  /\ list \in [Slots -> [Namespaces -> Levels \union {NoAccess}]]

(* A request in progress knows its request, and its user where it needs    *)
(* one, and updates namespaces for its own operation (what the other       *)
(* invariants need to be inductive).                                       *)
LocalsOK ==
  \A s \in Slots :
    /\ pc[s] # "idle" => req[s] \in Requests
    /\ pc[s] = "authPush" => user[s] \in Users
    /\ pc[s] = "count" /\ req[s].op = "AddGroupNamespace"
         => user[s] \in Users
    /\ pc[s] = "rename" => req[s].op = "RenameNamespace"
    /\ pc[s] \in {"nsScan", "nsApply"} => req[s].op # "RenameNamespace"

WithinInitial(row) == row \in Row => row.cur <= row.init

(* The level in force never exceeds the level granted, in a committed row  *)
(* or in one a transaction is about to commit, whatever sequence of        *)
(* grants, group operations, limits and releases of limits led to it.      *)
CurrentWithinInitial ==
  /\ \A k \in Keys : WithinInitial(perm[k])
  /\ \A s \in Slots, k \in Keys : WithinInitial(pend[s][k])

(* A transaction that is deleting a namespace deletes one that is live:    *)
(* the handler's lookup may be stale by then (another request may have     *)
(* deleted it in between), so its subscriptions, volumes and kube          *)
(* namespace are torn down by at most one request that goes on to commit.  *)
(* Only a rename writes a row that is marked deleted, and it tears nothing *)
(* down.                                                                   *)
DeletesLive ==
  \A s \in Slots, n \in Namespaces :
    nsPend[s][n] = "deleted" =>
      ns[n] = IF req[s].op = "RenameNamespace" THEN "deleted" ELSE "live"

(* Why it does: two transactions never hold the same namespace, a row is    *)
(* created by the only request that has its id, a row that is there is      *)
(* written as live by renames only, and until a transaction writes, it has *)
(* written nothing (an inductive strengthening).                           *)
Creates(s, n) ==
  pc[s] # "idle" /\ req[s].op = "CreateNamespace" /\ req[s].ns = n

Renames(s, n) ==
  pc[s] # "idle" /\ req[s].op = "RenameNamespace" /\ req[s].ns = n

WritesLive(s, n) ==
  \/ Creates(s, n) /\ ns[n] = "absent"
  \/ Renames(s, n) /\ ns[n] = "live"

NamespaceLocks ==
  /\ \A s, t \in Slots, n \in Namespaces :
       s # t => nsPend[s][n] = Unwritten \/ nsPend[t][n] = Unwritten
  /\ \A s, t \in Slots, n \in Namespaces :
       s # t => ~(Creates(s, n) /\ Creates(t, n))
  /\ \A s \in Slots, n \in Namespaces :
       /\ nsPend[s][n] = "live" => WritesLive(s, n)
       /\ pc[s] = "nsInsert" /\ req[s].ns = n => Creates(s, n) /\ ns[n] = "absent"
       /\ pc[s] \in {"idle", "lookup", "nsInsert", "nsScan", "nsApply", "rename"}
            => nsPend[s][n] = Unwritten

(* A request that does not write the row of a namespace's owner through a  *)
(* group: the group it adds does not have the owner as a member, or the    *)
(* member it sets is another user.                                         *)
SparesOwner(r) ==
  /\ r.op = "AddGroupNamespace" => Members[r.group][OwnerOf[r.ns]] = NoAccess
  /\ r.op = "SetGroupMemberNamespaceAccess" => r.target # OwnerOf[r.ns]

OwnersSpared == \A r \in Requests : SparesOwner(r)

(* As long as the owners are spared, a live namespace has exactly one      *)
(* permission with initial level owner, and it is the one of its           *)
(* owner_user_id: no order of concurrent grants of owner, groups with      *)
(* owners of their own, revocations, limits and deletions adds or loses    *)
(* one.                                                                    *)
OneOwner ==
  \A n \in Namespaces : ns[n] = "live" => OwnersOf(perm, n) = {OwnerOf[n]}

(* errors.toml of ErrOwnerAlreadyExists: "Resource can have only one       *)
(* owner", whatever operations are used.                                   *)
AtMostOneOwner ==
  \A n \in Namespaces, u, v \in Users :
    {u, v} \subseteq OwnersOf(perm, n) => u = v

(* router/namespace.go, DELETE /namespaces/{id}/groups/{group}: "Delete    *)
(* group permissions from namespace": rows of other namespaces stay.       *)
OtherNamespacesKept ==
  [][\A s \in Slots :
       pc[s] = "commit" /\ pc'[s] = "idle"
         /\ req[s].op = "DeleteGroupFromNamespace"
       => \A k \in Keys : NsOf(k) # req[s].ns => perm'[k] = perm[k]]_vars

(* swagger-basic.yml lists readdelete among the access levels: without      *)
(* failures, a grant that passed its checks is written, whatever its level, *)
(* and so is that of a group member (AddGroupNamespace takes the member's   *)
(* own access level).                                                      *)
EveryLevelStored ==
  [][\A s \in Slots :
       pc[s] \in {"upsert", "upsertList"} => pc'[s] # "idle"]_vars

LowerOf(a, b) == IF a <= b THEN a ELSE b

(* When a limit on a user's accesses is committed, every row it found      *)
(* holds exactly the lower of the level granted and the limit, also when   *)
(* another request changed the row while the statement waited for it.      *)
LimitTakesHold ==
  [][\A s \in Slots :
       pc[s] = "commit" /\ pc'[s] = "idle" /\ perm' = PermView(s)
         /\ req[s].op = "SetUserAccesses"
       => \A k \in targets[s] :
            perm'[k] \in Row =>
              perm'[k].cur = LowerOf(perm'[k].init, req[s].level)]_vars

Quiet == \A s \in Slots : pc[s] = "idle"

(* Whenever no request is in progress, the auth service holds the accesses *)
(* the database grants, for every user.  It is true when nothing fails and *)
(* requests about the same users all grant, in one namespace: a push       *)
(* precedes the commit, and it is the row lock, held from the write to the *)
(* commit, that keeps pushes in commit order.                              *)
AuthFresh ==
  Quiet => \A u \in Users : auth[u] = UserAccesses(perm, ns, u)

(* Every request sets one user's access, and to each user in one namespace. *)
GrantsOnly ==
  /\ \A r \in Requests : r.op = "SetNamespaceAccess"
  /\ \A r, q \in Requests : r.target = q.target => r.ns = q.ns

(* When requests come one at a time, no permission survives the deletion   *)
(* of its namespace, whatever fails in between.                            *)
NoOrphans ==
  \A k \in Keys : perm[k] # NoRow => ns[NsOf(k)] = "live"

\* One request at a time.
OneAtATime == \A s, t \in Slots : s = t

(* The committed tables change only by whole operations on current rows:   *)
(* the transactions, statements and locks implement PermissionStore.       *)
Store ==
  INSTANCE PermissionStore
    WITH perm <- perm, ns <- ns
ImplementsStore == Store!Spec

(* Every request is answered: no statement waits for ever for rows that    *)
(* other requests hold, and no set of requests wait for each other.        *)
Responds ==
  \A s \in Slots : pc[s] # "idle" ~> pc[s] = "idle"
=============================================================================
