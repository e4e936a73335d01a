------------------------------ MODULE Projects ------------------------------
(***************************************************************************)
(* The project handlers: a project is a named set of an owner's            *)
(* namespaces, and a request grants or takes away access to all of them.   *)
(* The namespaces of a project are given (InProject): nothing in the       *)
(* service ever writes namespaces.project_id.  Each request runs in its    *)
(* slot, one step for each statement or call; the rows its transaction has *)
(* written wait in made and granted for the commit.                        *)
(***************************************************************************)
EXTENDS NamespaceQueries

CONSTANTS Slots, ProjectIDs, Labels,
          InProject,      \* the projects a namespace is in: at most one
          Members,        \* group -> its members, with their levels
          Requests,       \* the requests that are sent
          Idle            \* no request

VARIABLES
  projects,   \* the committed rows of "projects"
  perm,       \* the committed rows of "permissions"
  auth,       \* user -> the access list the auth service has
  req, pc,    \* the request of a slot, and its next step
  made,       \* the project row a transaction has inserted
  granted,    \* the permission rows a transaction has written
  answer      \* how the last request of a slot ended

committed == <<projects, perm, auth>>
vars == <<projects, perm, auth, req, pc, made, granted, answer>>

ProjectRow == [owner : Users, label : Labels]
NothingMade == [p \in ProjectIDs |-> NoRow]
NothingGranted == [k \in Keys |-> NoRow]
Live == [n \in Namespaces |-> "live"]

Init ==
  /\ projects = NothingMade
  /\ perm \in [Keys -> {NoRow, ListedRow(Read, NoGroup)}]
  /\ auth = [u \in Users |-> UserAccesses(perm, Live, u)]
  /\ req = [s \in Slots |-> Idle] /\ pc = [s \in Slots |-> "idle"]
  /\ made = [s \in Slots |-> NothingMade]
  /\ granted = [s \in Slots |-> NothingGranted]
  /\ answer = [s \in Slots |-> "none"]

FirstStep(op) ==
  CASE op = "create" -> "count"
    [] op = "add_group" -> "members"
    [] op = "add_member" -> "user"
    [] op \in {"set_member", "groups"} -> "project"
    [] op = "drop_group" -> "drop"

Begin(s, r) ==
  /\ req[s] = Idle
  /\ req' = [req EXCEPT ![s] = r]
  /\ pc' = [pc EXCEPT ![s] = FirstStep(r.op)]
  /\ answer' = [answer EXCEPT ![s] = "none"]
  /\ UNCHANGED <<committed, made, granted>>

Goto(s, step) ==
  /\ pc' = [pc EXCEPT ![s] = step]
  /\ UNCHANGED <<committed, req, made, granted, answer>>

(* The handler returns, and its transaction, if it had one, is over.       *)
Return(s, a) ==
  /\ req' = [req EXCEPT ![s] = Idle] /\ pc' = [pc EXCEPT ![s] = "idle"]
  /\ made' = [made EXCEPT ![s] = NothingMade]
  /\ granted' = [granted EXCEPT ![s] = NothingGranted]
  /\ answer' = [answer EXCEPT ![s] = a]

Refuse(s, a) == Return(s, a) /\ UNCHANGED committed

-----------------------------------------------------------------------------
SameLabel(row, r) == row # NoRow /\ row.owner = r.user /\ row.label = r.label

(* Project.BeforeInsert: no lock, and no index behind it.                  *)
CountLabels(s) ==
  /\ pc[s] = "count"
  /\ IF \E p \in ProjectIDs : SameLabel(projects[p], req[s])
     THEN Refuse(s, "already exists")
     ELSE Goto(s, "insert")

InsertProject(s, p) ==
  /\ pc[s] = "insert"
  /\ projects[p] = NoRow /\ \A t \in Slots : made[t][p] = NoRow
  /\ made' = [made EXCEPT ![s][p] = [owner |-> req[s].user, label |-> req[s].label]]
  /\ pc' = [pc EXCEPT ![s] = "commit"]
  /\ UNCHANGED <<committed, req, granted, answer>>

-----------------------------------------------------------------------------
(* The project and its namespaces.                                         *)

(* ProjectByID selects the namespaces in a second statement, FROM the      *)
(* table under the alias "namespace", with a condition of its own.         *)
NamespacesAccepted == Accepted({"namespace"}, {"namespace", "namespaces"})

NamespacesOf(p) == {n \in Namespaces : p \in InProject[n]}

(* The step after ProjectByID.  SetGroupMemberAccess asks for the user     *)
(* inside its transaction, AddMemberToProject before it.                   *)
AfterProject(op) ==
  CASE op \in {"add_group", "add_member"} -> "grant"
    [] op = "set_member" -> "user"
    [] op = "groups" -> "permissions"

ProjectByID(s) ==
  /\ pc[s] = "project"
  /\ IF projects[req[s].project] = NoRow THEN Refuse(s, "not found")
     ELSE IF ~NamespacesAccepted THEN Refuse(s, "internal")
     ELSE Goto(s, AfterProject(req[s].op))

(* The user manager answers with a user or a group.                        *)
CallUserManager(s) ==
  \/ pc[s] = "members" /\ Goto(s, "project")
  \/ pc[s] = "user" /\ Goto(s, IF req[s].op = "set_member" THEN "grant" ELSE "project")

(* GetProjectGroups reads the permissions of each namespace and asks for   *)
(* the groups they name.                                                   *)
ReadGroups(s) == pc[s] = "permissions" /\ Refuse(s, "ok")

(* SetNamespacesAccesses.  AddGroup puts the names of the members where    *)
(* user ids are expected, and the column holds only a uuid.                *)
GrantedTo(r) ==
  IF r.op = "add_group" THEN Members[r.group] ELSE {<<r.user, r.level>>}

Unwritable(r) == r.op = "add_group" \/ ~Storable(r.level)

NothingToGrant(r) == GrantedTo(r) = {} \/ NamespacesOf(r.project) = {}

AfterGrant(op) == IF op = "add_group" THEN "commit" ELSE "push"

SetNamespacesAccesses(s) ==
  /\ pc[s] = "grant"
  /\ \/ NothingToGrant(req[s]) /\ Goto(s, AfterGrant(req[s].op))
     \/ /\ ~NothingToGrant(req[s]) /\ Unwritable(req[s])
        /\ Refuse(s, "internal")
     \/ /\ ~NothingToGrant(req[s]) /\ ~Unwritable(req[s])
        /\ \A t \in Slots \ {s}, n \in NamespacesOf(req[s].project) :
             granted[t][<<req[s].user, n>>] = NoRow
        /\ granted' = [granted EXCEPT ![s] =
             [k \in Keys |->
                IF UserOf(k) = req[s].user /\ NsOf(k) \in NamespacesOf(req[s].project)
                THEN ListedRow(req[s].level, NoGroup) ELSE NoRow]]
        /\ pc' = [pc EXCEPT ![s] = AfterGrant(req[s].op)]
        /\ UNCHANGED <<committed, req, made, answer>>

(* updateUserAccesses through s.db: it does not see the rows just written. *)
PushAccesses(s) ==
  /\ pc[s] = "push"
  /\ auth' = [auth EXCEPT ![req[s].user] = UserAccesses(perm, Live, req[s].user)]
  /\ pc' = [pc EXCEPT ![s] = "commit"]
  /\ UNCHANGED <<projects, perm, req, made, granted, answer>>

(* DeleteGroupFromProject: the subquery that should give the ids of the    *)
(* project's namespaces selects every column of them, and the database     *)
(* refuses to compare one column with several.  What the handler does with *)
(* the rows it would get is never reached and is left out.                 *)
NamespaceColumns == {"id", "owner_user_id", "label", "deleted", "kube_name", "project_id"}

DropGroup(s) == pc[s] = "drop" /\ NamespaceColumns # {"id"} /\ Refuse(s, "internal")

-----------------------------------------------------------------------------

Commit(s) ==
  /\ pc[s] = "commit"
  /\ projects' = [p \in ProjectIDs |->
                    IF made[s][p] # NoRow THEN made[s][p] ELSE projects[p]]
  /\ perm' = [k \in Keys |-> IF granted[s][k] # NoRow THEN granted[s][k] ELSE perm[k]]
  /\ Return(s, "ok")
  /\ UNCHANGED auth

(* A statement, a call or the commit fails; the transaction is undone.     *)
Fail(s) == req[s] # Idle /\ Refuse(s, "failed")

Step(s) ==
  \/ CountLabels(s) \/ \E p \in ProjectIDs : InsertProject(s, p)
  \/ ProjectByID(s) \/ CallUserManager(s) \/ ReadGroups(s)
  \/ SetNamespacesAccesses(s) \/ PushAccesses(s) \/ DropGroup(s) \/ Commit(s)

Next ==
  \E s \in Slots : (\E r \in Requests : Begin(s, r)) \/ Step(s) \/ Fail(s)

Spec == Init /\ [][Next]_vars

-----------------------------------------------------------------------------

(* A request that adds a member to a project the table has, and in which   *)
(* nothing failed, does not end in an internal error: the user gets his    *)
(* permissions on the project's namespaces, as the route's description     *)
(* says.                                                                   *)
MembersAdded ==
  [][\A s \in Slots :
       /\ pc[s] # "idle" /\ req[s].op = "add_member"
       /\ projects[req[s].project] # NoRow
       => answer'[s] # "internal"]_vars
=============================================================================
