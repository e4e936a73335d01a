-------------------------- MODULE PermissionStore --------------------------
(***************************************************************************)
(* What the service promises of its tables: the committed permissions and  *)
(* namespaces change only by one whole operation at a time, applied to the *)
(* rows as they are.  No change is lost, torn or applied to an old row.    *)
(* PermissionServer, with its transactions, locks and failures, implements *)
(* this specification.                                                     *)
(***************************************************************************)
EXTENDS PermissionTable

CONSTANTS OwnerOf, Members

VARIABLES perm, ns

(* One user's access to one namespace is granted.                          *)
Grant(u, n, l) ==
  /\ Storable(l)
  /\ perm' = [perm EXCEPT ![<<u, n>>] = GrantedRow(perm[<<u, n>>], l)]
  /\ UNCHANGED ns

(* A member's access is set through the group route, without a group.      *)
GrantMember(u, n, l) ==
  /\ Storable(l)
  /\ perm' = [perm EXCEPT ![<<u, n>>] = ListedRow(l, NoGroup)]
  /\ UNCHANGED ns

Ordinary(g) == {u \in Users : Members[g][u] \in Levels \ {Owner}}

(* All members of a group without owner access are granted theirs.         *)
GrantGroup(g, n) ==
  /\ perm' = [k \in Keys |->
                IF NsOf(k) = n /\ UserOf(k) \in Ordinary(g)
                THEN ListedRow(Members[g][UserOf(k)], g) ELSE perm[k]]
  /\ UNCHANGED ns

(* One row goes, unless it is an owner's.                                  *)
Revoke(k) ==
  /\ perm[k] # NoRow
  /\ Deletable(perm[k])
  /\ perm' = [perm EXCEPT ![k] = NoRow]
  /\ UNCHANGED ns

(* Rows of namespaces of one owner are limited.                            *)
Limit(found, l) ==
  /\ Storable(l)
  /\ \A k \in found : perm[k] # NoRow
  /\ \A k, j \in found : OwnerOf[NsOf(k)] = OwnerOf[NsOf(j)]
  /\ perm' = [k \in Keys |-> IF k \in found THEN LimitedRow(perm[k], l) ELSE perm[k]]
  /\ UNCHANGED ns

(* Rows of one group go.                                                   *)
DropGroup(found, g) ==
  /\ \A k \in found : perm[k] # NoRow /\ perm[k].group = g
  /\ perm' = [k \in Keys |-> IF k \in found THEN NoRow ELSE perm[k]]
  /\ UNCHANGED ns

(* A namespace appears together with its owner's permission.               *)
Create(n) ==
  /\ ns[n] = "absent"
  /\ ns' = [ns EXCEPT ![n] = "live"]
  /\ perm' = [perm EXCEPT ![<<OwnerOf[n], n>>] = OwnerRow]

(* Live namespaces of one owner are deleted, with the rows found for them. *)
Delete(gone, found) ==
  /\ gone # {}
  /\ \A n \in gone : ns[n] = "live"
  /\ \A m, n \in gone : OwnerOf[m] = OwnerOf[n]
  /\ \A k \in found : NsOf(k) \in gone
  /\ ns' = [n \in Namespaces |-> IF n \in gone THEN "deleted" ELSE ns[n]]
  /\ perm' = [k \in Keys |-> IF k \in found THEN NoRow ELSE perm[k]]

(* Rows left of a namespace that is already deleted go.                    *)
Sweep(n, found) ==
  /\ ns[n] = "deleted"
  /\ \A k \in found : NsOf(k) = n
  /\ perm' = [k \in Keys |-> IF k \in found THEN NoRow ELSE perm[k]]
  /\ UNCHANGED ns

Init ==
  \E live \in SUBSET Namespaces :
    /\ ns = [n \in Namespaces |-> IF n \in live THEN "live" ELSE "absent"]
    /\ perm = [k \in Keys |-> IF NsOf(k) \in live /\ UserOf(k) = OwnerOf[NsOf(k)]
                              THEN OwnerRow ELSE NoRow]

Next ==
  \/ \E u \in Users, n \in Namespaces, l \in Levels :
       Grant(u, n, l) \/ GrantMember(u, n, l)
  \/ \E g \in Groups, n \in Namespaces : GrantGroup(g, n)
  \/ \E k \in Keys : Revoke(k)
  \/ \E found \in SUBSET Keys, l \in Levels : Limit(found, l)
  \/ \E found \in SUBSET Keys, g \in Groups : DropGroup(found, g)
  \/ \E n \in Namespaces : Create(n)
  \/ \E gone \in SUBSET Namespaces, found \in SUBSET Keys : Delete(gone, found)
  \/ \E n \in Namespaces, found \in SUBSET Keys : Sweep(n, found)

Spec == Init /\ [][Next]_<<perm, ns>>
=============================================================================
