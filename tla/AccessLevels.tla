---------------------------- MODULE AccessLevels ----------------------------
(***************************************************************************)
(* The five access levels, in the three spellings the service handles:     *)
(* the text of a JSON request, the Go constants of the kube-client model   *)
(* and the labels of the PostgreSQL enum ACCESS_LEVEL.  A level is its     *)
(* rank in the enum, since every comparison the service relies on (LEAST,  *)
(* CASE, <, >) is made by the database, in enum order.                     *)
(***************************************************************************)
EXTENDS Integers, Sequences

None       == 0
Read       == 1
ReadDelete == 2
Write      == 3
Owner      == 4
Levels     == None..Owner

(* "No entry": a namespace that is absent from a user's access list, or a  *)
(* user that is not a member of a group.                                   *)
NoAccess == -1

EnumLabels  == <<"none", "read", "readdelete", "write", "owner">>
GoConstants == <<"none", "read", "read-delete", "write", "owner">>

(* The driver sends a level as its Go constant; the statement fails unless *)
(* that text is a label of the enum.                                       *)
Storable(l) ==
  \E i \in DOMAIN EnumLabels : EnumLabels[i] = GoConstants[l + 1]

Least(a, b) == IF a < b THEN a ELSE b

-----------------------------------------------------------------------------
(* Variants with a slip in them, for the mutation checks.                  *)

LimitedLevelUnclamped(init, cur, l) == l

LimitedLevelNoLower(init, cur, l) == IF cur > l THEN l ELSE init

LimitedLevelBelow(init, cur, l) == IF cur > l THEN l - 1 ELSE cur
-----------------------------------------------------------------------------

(* The CASE of SetUserAccesses: what becomes of a row's current level when *)
(* its namespace's owner is limited to (or released up to) level l.        *)
LimitedLevel(init, cur, l) ==
  IF cur > l THEN l
  ELSE IF cur <= l /\ init > l THEN l
  ELSE init
=============================================================================
