-------------------------- MODULE PermissionTable --------------------------
(***************************************************************************)
(* The table "permissions" and what each statement of the service does to  *)
(* one of its rows.  A row is keyed by user and namespace (the unique key  *)
(* resource_type, resource_id, user_id with the one resource type in use)  *)
(* and holds the level that was granted, the level in force and the group  *)
(* through which it was granted, if any.                                   *)
(***************************************************************************)
EXTENDS AccessLevels

CONSTANTS Users, Namespaces, Groups,
          NoGroup,    \* group_id IS NULL
          NoRow       \* no row under a key

ASSUME NoGroupAssumption == NoGroup \notin Groups

Keys == Users \X Namespaces
Row  == [init : Levels, cur : Levels, group : Groups \union {NoGroup}]
RowOrNone == Row \union {NoRow}

ASSUME NoRowAssumption == NoRow \notin Row

UserOf(k) == k[1]
NsOf(k)   == k[2]

-----------------------------------------------------------------------------
(* Variants with a slip in them, for the mutation checks.                  *)

AnyRowDeletable(row) == TRUE

-----------------------------------------------------------------------------

(* setResourceAccess: insert, or on conflict overwrite both levels; the    *)
(* group of an existing row is left alone.                                 *)
GrantedRow(old, l) ==
  [init |-> l, cur |-> Least(l, l),
   group |-> IF old = NoRow THEN NoGroup ELSE old.group]

(* setResourceAccesses: insert, or on conflict overwrite levels and group. *)
ListedRow(l, g) == [init |-> l, cur |-> Least(l, l), group |-> g]

(* The permission Namespace.AfterInsert writes for a namespace's owner.    *)
OwnerRow == [init |-> Owner, cur |-> Owner, group |-> NoGroup]

LimitedRow(row, l) == [row EXCEPT !.cur = LimitedLevel(row.init, row.cur, l)]

(* The last condition of deleteResourceAccess.                             *)
Deletable(row) == row.init < Owner

(* The rows Permission.BeforeInsert counts.                                *)
OwnersOf(tab, n) ==
  {u \in Users : tab[<<u, n>>] # NoRow /\ tab[<<u, n>>].init = Owner}

(* A permission through which a user who is not an admin sees a namespace. *)
Visible(row) == row # NoRow /\ row.cur > None

(* UserAccesses: the levels a user has, by namespace.  The join keeps a row *)
(* whose namespace is marked deleted; only one that never existed is left   *)
(* out.                                                                     *)
UserAccesses(tab, nsTab, u) ==
  [n \in Namespaces |-> IF tab[<<u, n>>] # NoRow /\ nsTab[n] # "absent"
                        THEN tab[<<u, n>>].cur ELSE NoAccess]
=============================================================================
