----------------------------- MODULE Migrations -----------------------------
(***************************************************************************)
(* The schema migrations the service registers, as the sequence of         *)
(* statements that "up" runs.  A migration is its statements followed by   *)
(* the record of its version; each statement commits by itself, and so     *)
(* does the record.                                                        *)
(*                                                                         *)
(* A statement makes one object.  What differs is what it does when the    *)
(* object is there already:                                                *)
(*   once        it is refused                                             *)
(*   if_missing  it looks, then creates: refused if another session        *)
(*               created the object in between                             *)
(*   under_lock  it looks and creates holding the table's lock             *)
(* Creating the table namespaces from today's model makes its later        *)
(* columns too, which is the same as finding them missing and adding them. *)
(***************************************************************************)
EXTENDS Naturals, Sequences

Statement(kind, object, version) ==
  [do |-> kind, object |-> object, version |-> version]

SetVersion(version) == Statement("record", "version", version)

NamespacesUp ==
  << Statement("if_missing", "uuid-ossp", 2),
     Statement("if_missing", "namespaces", 2),
     Statement("once", "unique_ns_owner_label", 2), SetVersion(2) >>

PermissionsUp ==
  << Statement("once", "ACCESS_LEVEL", 4),
     Statement("if_missing", "permissions", 4), SetVersion(4) >>

ProjectsUp == << Statement("if_missing", "projects", 7), SetVersion(7) >>

GroupIDUp == << Statement("under_lock", "group_id", 8), SetVersion(8) >>

ProjectIDUp == << Statement("under_lock", "project_id", 9), SetVersion(9) >>

\* Three statements of one query string, hence one transaction: the last,
\* the constraint, decides.
KubeNameUp == << Statement("once", "unique_kube_name", 11), SetVersion(11) >>

Up == NamespacesUp \o PermissionsUp \o ProjectsUp \o GroupIDUp
        \o ProjectIDUp \o KubeNameUp
=============================================================================
