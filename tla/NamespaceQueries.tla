--------------------------- MODULE NamespaceQueries ---------------------------
(***************************************************************************)
(* The SELECTs over the table "namespaces": which rows a list or a look-up *)
(* returns and, since the ORM composes their text from parts, whether the  *)
(* database accepts the statement at all.  It refuses one that names an    *)
(* alias its FROM clause does not have.  The ORM's alias of a table is the *)
(* name of the Go type, "namespace", and that of a joined relation the     *)
(* name of the field, "permission".                                        *)
(***************************************************************************)
EXTENDS PermissionTable

Accepted(from, named) == named \subseteq from

-----------------------------------------------------------------------------
(* Filters of a list.                                                      *)

FilterNames ==
  {"not_deleted", "deleted", "not_limited", "limited", "owner", "not_owner"}

(* ParseNamespaceFilter sets the fields it knows and ignores other names.  *)
ParseNamespaceFilter(names) == names \intersect FilterNames

StandardNamespaceFilter == {"not_deleted"}

(* The filter of GetUserNamespaces, and that of GetAllNamespaces.          *)
UserFilter(isAdmin, names) ==
  IF isAdmin THEN ParseNamespaceFilter(names) ELSE StandardNamespaceFilter

AllFilter(names) ==
  IF names = {} THEN StandardNamespaceFilter ELSE ParseNamespaceFilter(names)

(* The aliases in the condition a filter adds, and what it selects.  No    *)
(* row is selected by the conditions that name "permissions": a statement  *)
(* with one of them is refused.                                            *)
Named(filter) ==
  {"namespace"}
    \union (IF filter \intersect {"owner", "not_owner"} # {}
            THEN {"permission"} ELSE {})
    \union (IF filter \intersect {"not_limited", "limited"} # {}
            THEN {"permission", "permissions"} ELSE {})

StateSelected(filter, state) ==
  /\ "not_deleted" \in filter => state = "live"
  /\ "deleted" \in filter => state = "deleted"

OwnerSelected(filter, row) ==
  /\ "owner" \in filter => row.init = Owner
  /\ "not_owner" \in filter => row.init # Owner

-----------------------------------------------------------------------------
(* The statements.  nsTab gives the state of each namespace's row.         *)

UserNamespacesAccepted(filter) ==
  Accepted({"namespace", "permission"}, {"permission"} \union Named(filter))

UserNamespaces(tab, nsTab, u, filter) ==
  {n \in Namespaces :
     /\ nsTab[n] # "absent" /\ tab[<<u, n>>] # NoRow
     /\ StateSelected(filter, nsTab[n]) /\ OwnerSelected(filter, tab[<<u, n>>])}

AllNamespacesAccepted(filter) == Accepted({"namespace"}, Named(filter))

AllNamespaces(nsTab, filter) ==
  {n \in Namespaces : nsTab[n] # "absent" /\ StateSelected(filter, nsTab[n])}

(* One row of the answer for each permission through the group, live or    *)
(* not: a namespace comes once for every member.                           *)
GroupNamespaces(tab, nsTab, g) ==
  {k \in Keys : nsTab[NsOf(k)] # "absent" /\ tab[k] # NoRow /\ tab[k].group = g}

(* NamespaceByName for a user who is not an admin.                         *)
Opens(tab, nsTab, u, n) == nsTab[n] = "live" /\ Visible(tab[<<u, n>>])

(* NamespaceByLabel has no condition on the level.                         *)
FoundByLabel(tab, nsTab, u, n) == nsTab[n] = "live" /\ tab[<<u, n>>] # NoRow

-----------------------------------------------------------------------------
(* Pages of GetAllNamespaces.  Nothing orders the rows.                    *)

MaxLimit  == 1000
MaxOffset == 1000000

GetLimit(perPage) ==
  IF perPage = 0 THEN 100 ELSE IF perPage > MaxLimit THEN MaxLimit ELSE perPage

SetPage(page, perPage) ==
  ((IF page < 1 THEN 1 ELSE page) - 1) * GetLimit(perPage)

GetOffset(page, perPage) ==
  IF SetPage(page, perPage) > MaxOffset THEN MaxOffset ELSE SetPage(page, perPage)

(* The rows of a page, by their place in the list the database makes; all  *)
(* of the rows if the request does not say how many it wants.              *)
Paginate(page, perPage) ==
  IF perPage > 0
  THEN {i \in Nat : /\ GetOffset(page, perPage) <= i
                    /\ i < GetOffset(page, perPage) + GetLimit(perPage)}
  ELSE Nat
=============================================================================
