--------------------------- MODULE ProjectsProofs ---------------------------
(***************************************************************************)
(* Theorems about the lists and look-ups of namespaces, and about the      *)
(* project handlers that are built on one of them.                         *)
(***************************************************************************)
EXTENDS Projects, TLAPS

-----------------------------------------------------------------------------
(* Lists of namespaces.                                                    *)

(* The database refuses every list whose filters have one of the two that  *)
(* compare a level with the one granted, whoever asks and whatever other   *)
(* filters there are.                                                      *)
THEOREM LimitedFiltersRefused ==
  ASSUME NEW names,
         ParseNamespaceFilter(names) \intersect {"limited", "not_limited"} # {}
  PROVE  /\ ~UserNamespacesAccepted(UserFilter(TRUE, names))
         /\ ~AllNamespacesAccepted(AllFilter(names))
<1>1. "permissions" \in Named(ParseNamespaceFilter(names))
  BY DEF Named
<1>2. names # {}
  BY DEF ParseNamespaceFilter
<1> QED
  BY <1>1, <1>2
     DEF UserFilter, AllFilter, UserNamespacesAccepted, AllNamespacesAccepted, Accepted

(* A user who is not an admin gets his list whatever filters he sends, and *)
(* every namespace a look-up by name opens for him is in it, as is every   *)
(* one a look-up by label finds.                                           *)
THEOREM OpenedIsListed ==
  ASSUME NEW tab, NEW nsTab, NEW u \in Users, NEW n \in Namespaces, NEW names
  PROVE  /\ UserNamespacesAccepted(UserFilter(FALSE, names))
         /\ Opens(tab, nsTab, u, n) => FoundByLabel(tab, nsTab, u, n)
         /\ FoundByLabel(tab, nsTab, u, n)
              => n \in UserNamespaces(tab, nsTab, u, UserFilter(FALSE, names))
<1>1. UserFilter(FALSE, names) = {"not_deleted"}
  BY DEF UserFilter, StandardNamespaceFilter
<1>2. UserNamespacesAccepted({"not_deleted"})
  BY DEF UserNamespacesAccepted, Accepted, Named
<1>3. Opens(tab, nsTab, u, n) => FoundByLabel(tab, nsTab, u, n)
  BY DEF Opens, FoundByLabel, Visible
<1>4. ASSUME FoundByLabel(tab, nsTab, u, n)
      PROVE  n \in UserNamespaces(tab, nsTab, u, {"not_deleted"})
  BY <1>4 DEF FoundByLabel, UserNamespaces, StateSelected, OwnerSelected
<1> QED
  BY <1>1, <1>2, <1>3, <1>4

(* The converse holds for the rows with a level in force: what is listed   *)
(* and does not open is a namespace whose level is none.                   *)
THEOREM ListedNotOpened ==
  ASSUME NEW tab \in [Keys -> RowOrNone], NEW nsTab, NEW u \in Users,
         NEW n \in Namespaces, NEW names,
         n \in UserNamespaces(tab, nsTab, u, UserFilter(FALSE, names)),
         ~Opens(tab, nsTab, u, n)
  PROVE  tab[<<u, n>>].cur = None
<1>1. nsTab[n] = "live" /\ tab[<<u, n>>] # NoRow
  BY DEF UserNamespaces, UserFilter, StandardNamespaceFilter, StateSelected
<1>2. tab[<<u, n>>] \in Row
  BY <1>1 DEF Keys, RowOrNone
<1> QED
  BY <1>1, <1>2, SMT DEF Opens, Visible, Row, Levels, None, Owner

(* A page begins where the one before it ends, until the offset reaches    *)
(* its cap: up to there the pages have every place once.                   *)
THEOREM PagesAdjoin ==
  ASSUME NEW page \in Nat \ {0}, NEW perPage \in Nat \ {0},
         page * GetLimit(perPage) <= MaxOffset
  PROVE  GetOffset(page + 1, perPage) = GetOffset(page, perPage) + GetLimit(perPage)
<1> DEFINE limit == GetLimit(perPage)
<1>1. limit \in Nat \ {0}
  BY DEF GetLimit, MaxLimit
<1>2. SetPage(page, perPage) = (page - 1) * limit /\ SetPage(page + 1, perPage) = page * limit
  BY <1>1 DEF SetPage
<1> HIDE DEF limit
<1>3. page * limit = (page - 1) * limit + limit
  BY <1>1
<1>4. page * limit \in Nat /\ (page - 1) * limit \in Nat
  BY <1>1
<1>5. (page - 1) * limit <= MaxOffset
  BY <1>1, <1>3, <1>4 DEF MaxOffset, limit
<1> QED
  BY <1>1, <1>2, <1>3, <1>4, <1>5 DEF GetOffset, MaxOffset, limit

-----------------------------------------------------------------------------
(* Projects.                                                               *)

Request ==
  [op : {"create"}, user : Users, label : Labels]
    \union [op : {"add_group", "drop_group"}, project : ProjectIDs, group : Groups]
    \union [op : {"groups"}, project : ProjectIDs]
    \union [op : {"set_member", "add_member"}, project : ProjectIDs,
            user : Users, level : Levels]

(* No request gets past the look-up of its project.                        *)
Reached == {"idle", "count", "insert", "commit", "members", "user", "project", "drop"}

ProjectsInv ==
  /\ pc \in [Slots -> Reached]
  /\ req \in [Slots -> Request \union {Idle}]
  /\ perm \in [Keys -> RowOrNone]
  /\ granted = [s \in Slots |-> NothingGranted]
  /\ \A s \in Slots : pc[s] = "user" => req[s].op = "add_member"

(* The condition on the namespaces names an alias the statement lacks.     *)
LEMMA NamespacesRefused == ~NamespacesAccepted
BY DEF NamespacesAccepted, Accepted

LEMMA InitProjects == Init => ProjectsInv
<1> SUFFICES ASSUME Init PROVE ProjectsInv
  OBVIOUS
<1>1. ListedRow(Read, NoGroup) \in Row
  BY DEF ListedRow, Row, Levels, Read, None, Owner, Least
<1>2. perm \in [Keys -> RowOrNone]
  BY <1>1 DEF Init, RowOrNone
<1> QED
  BY <1>2 DEF Init, ProjectsInv, Reached

LEMMA FirstSteps ==
  ASSUME NEW r \in Request
  PROVE  /\ FirstStep(r.op) \in Reached
         /\ FirstStep(r.op) = "user" => r.op = "add_member"
<1>1. r.op \in {"create", "add_group", "drop_group", "groups", "set_member", "add_member"}
  BY DEF Request
<1> QED
  BY <1>1 DEF FirstStep, Reached

LEMMA ReturnProjects ==
  ASSUME ProjectsInv, NEW s \in Slots, NEW a, Return(s, a), perm' = perm
  PROVE  ProjectsInv'
<1>1. granted' = [t \in Slots |-> NothingGranted]
  BY DEF ProjectsInv, Return
<1>2. pc' \in [Slots -> Reached] /\ req' \in [Slots -> Request \union {Idle}]
  BY DEF ProjectsInv, Return, Reached
<1>3. \A t \in Slots : pc'[t] = "user" => req'[t].op = "add_member"
  BY DEF ProjectsInv, Return
<1> QED
  BY <1>1, <1>2, <1>3 DEF ProjectsInv

LEMMA GotoProjects ==
  ASSUME ProjectsInv, NEW s \in Slots, NEW step \in Reached \ {"user"},
         pc' = [pc EXCEPT ![s] = step],
         UNCHANGED <<perm, req, granted>>
  PROVE  ProjectsInv'
BY DEF ProjectsInv

LEMMA BeginProjects ==
  ASSUME ProjectsInv, NEW s \in Slots, NEW r \in Request, Begin(s, r)
  PROVE  ProjectsInv' /\ perm' = perm
<1>1. /\ pc' = [pc EXCEPT ![s] = FirstStep(r.op)]
      /\ req' = [req EXCEPT ![s] = r]
      /\ granted' = granted /\ perm' = perm
  BY DEF Begin, committed
<1> QED
  BY <1>1, FirstSteps DEF ProjectsInv

LEMMA NextProjects ==
  ASSUME Requests \subseteq Request, ProjectsInv, Next
  PROVE  ProjectsInv' /\ perm' = perm
<1> PICK s \in Slots : (\E r \in Requests : Begin(s, r)) \/ Step(s) \/ Fail(s)
  BY DEF Next
<1>0. pc[s] \in Reached
  BY DEF ProjectsInv
<1>1. ASSUME NEW a, Refuse(s, a)
      PROVE  ProjectsInv' /\ perm' = perm
  BY <1>1, ReturnProjects DEF Refuse, committed
<1>2. ASSUME NEW step \in Reached \ {"user"}, Goto(s, step)
      PROVE  ProjectsInv' /\ perm' = perm
  BY <1>2, GotoProjects DEF Goto, committed
<1>3. ASSUME NEW r \in Requests, Begin(s, r)
      PROVE  ProjectsInv' /\ perm' = perm
  BY <1>3, BeginProjects
<1>4. CASE CountLabels(s)
  BY <1>4, <1>1, <1>2 DEF CountLabels, Reached
<1>5. ASSUME NEW p \in ProjectIDs, InsertProject(s, p)
      PROVE  ProjectsInv' /\ perm' = perm
  BY <1>5, GotoProjects DEF InsertProject, committed, Reached
<1>6. CASE ProjectByID(s)
  BY <1>6, <1>1, NamespacesRefused DEF ProjectByID
<1>7. CASE CallUserManager(s)
  <2>1. Goto(s, "project")
    BY <1>7 DEF CallUserManager, ProjectsInv
  <2> QED
    BY <2>1, <1>2 DEF Reached
<1>8. CASE ReadGroups(s)
  BY <1>8, <1>0 DEF ReadGroups, Reached
<1>9. CASE SetNamespacesAccesses(s)
  BY <1>9, <1>0 DEF SetNamespacesAccesses, Reached
<1>10. CASE PushAccesses(s)
  BY <1>10, <1>0 DEF PushAccesses, Reached
<1>11. CASE DropGroup(s)
  BY <1>11, <1>1 DEF DropGroup
<1>12. CASE Commit(s)
  <2>1. perm' = [k \in Keys |-> IF granted[s][k] # NoRow THEN granted[s][k] ELSE perm[k]]
    BY <1>12 DEF Commit
  <2>2. \A k \in Keys : granted[s][k] = NoRow
    BY DEF ProjectsInv, NothingGranted
  <2>3. perm' = perm
    BY <2>1, <2>2 DEF ProjectsInv
  <2> QED
    BY <1>12, <2>3, ReturnProjects DEF Commit
<1>13. CASE Fail(s)
  BY <1>13, <1>1 DEF Fail
<1> QED
  BY <1>3, <1>4, <1>5, <1>6, <1>7, <1>8, <1>9, <1>10, <1>11, <1>12, <1>13 DEF Step

(* No project request ever changes a permission, whatever projects,        *)
(* namespaces, members and requests there are: each ends, at the latest,   *)
(* with the refused statement that should give the project's namespaces.   *)
THEOREM ProjectsGrantNothing ==
  ASSUME Requests \subseteq Request
  PROVE  Spec => [][perm' = perm]_vars
<1>1. ProjectsInv /\ [Next]_vars => ProjectsInv' /\ [perm' = perm]_vars
  <2> SUFFICES ASSUME ProjectsInv, [Next]_vars
               PROVE  ProjectsInv' /\ [perm' = perm]_vars
    OBVIOUS
  <2>1. CASE Next
    BY <2>1, NextProjects
  <2>2. CASE UNCHANGED vars
    BY <2>2 DEF vars, ProjectsInv
  <2> QED
    BY <2>1, <2>2
<1> QED
  BY <1>1, InitProjects, PTL DEF Spec
=============================================================================
