----------------------------- MODULE MCService ------------------------------
(***************************************************************************)
(* Small instances of Service: two replicas, with the requests of one      *)
(* competing for two connections and for the row.                          *)
(***************************************************************************)
EXTENDS Service

CONSTANTS a, b, r1, r2

\* Look-ups before, within and after a transaction's write; errors that end
\* the request and errors that are only logged.
MCRoutes == {LookupThenWrite, AddGroupHandler(1), DropGroupHandler(1)}

AllAtHome == [r \in Requests |-> a]

\* Every order of the code is one that the theorems cover.
ASSUME OrdersOfTheCode ==
  \A n \in 1 .. 3 :
    {ReadHandler(n), WriteHandler(n), AddGroupHandler(n), DropGroupHandler(n),
     LookupThenWrite, WriteThenLookup, LookupsAroundWrite} \subseteq Handlers

\* The repository's script is one that the theorem about getting stuck covers,
\* for any number of replicas.
ASSUME ScriptAsInTheRepository == RecordsGuarded /\ MadeOnce /\ EndsWithRecord
=============================================================================
