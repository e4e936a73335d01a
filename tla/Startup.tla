------------------------------ MODULE Startup -------------------------------
(***************************************************************************)
(* The life of the service's processes: each runs the pending migrations,  *)
(* sets up its clients, serves, and ends.  Several instances share one     *)
(* database (the chart sets the number of replicas) and nothing stops two  *)
(* of them from migrating at once: RunMigrations reads the version once,   *)
(* takes no lock and opens no transaction.                                 *)
(***************************************************************************)
EXTENDS Migrations, Integers

CONSTANTS Instances,   \* processes that share the database
          Configured,  \* those given the address of every service they need
          Script,      \* the statements of "up", in order
          MaxDeaths    \* bound on processes ended from outside

Steps == 1 .. Len(Script)

Kinds == {"once", "if_missing", "under_lock", "record"}

\* Migrations are sorted by version, and a version is recorded after the
\* statements of its migration.
ASSUME ScriptAssumption ==
  /\ Script \in Seq([do : Kinds, object : STRING, version : Nat])
  /\ \A j, k \in Steps : j < k => Script[j].version <= Script[k].version
  /\ \A j, k \in Steps : j < k /\ Script[j].do = "record"
                           => Script[j].version < Script[k].version

ASSUME InstancesAssumption ==
  /\ Configured \subseteq Instances
  /\ MaxDeaths \in Nat

VARIABLES
  schema,   \* objects in the database
  table,    \* whether migrations_perm, the table of versions, is there
  version,  \* the last row of migrations_perm
  phase,    \* what each process does
  at,       \* the statement each process is at
  deaths    \* processes ended from outside so far

lifeVars == <<schema, table, version, phase, at, deaths>>

Phases == {"down", "reading", "tabling", "migrating", "creating", "serving",
           "draining"}

Made(v) == {Script[k].object : k \in {s \in Steps : /\ Script[s].do # "record"
                                                    /\ Script[s].version <= v}}

\* The database is new, or an earlier release left it at one of its versions,
\* or with nothing but the table.
LifeInit ==
  /\ version \in {0} \union {Script[k].version : k \in Steps}
  /\ schema = Made(version)
  /\ table \in BOOLEAN
  /\ version > 0 => table
  /\ phase = [i \in Instances |-> "down"]
  /\ at = [i \in Instances |-> 1]
  /\ deaths = 0

Becomes(i, p) == phase' = [phase EXCEPT ![i] = p]
Advance(i) == at' = [at EXCEPT ![i] = @ + 1]

\* The process is started, or started again; its logger and its database URL
\* are accepted.
Start(i) ==
  /\ phase[i] = "down"
  /\ Becomes(i, "reading")
  /\ UNCHANGED <<schema, table, version, at, deaths>>

-----------------------------------------------------------------------------
(* Variants with a slip *)

FirstPendingSkipsOne(k, v) ==
  /\ \A j \in Steps : j < k => Script[j].version <= v + 1
  /\ k \in Steps => Script[k].version > v + 1

FirstPendingRepeatsLast(k, v) ==
  /\ \A j \in Steps : j < k => Script[j].version < v
  /\ k \in Steps => Script[k].version >= v
-----------------------------------------------------------------------------
\* k is the first statement of the migrations newer than v.
FirstPending(k, v) ==
  /\ \A j \in Steps : j < k => Script[j].version <= v
  /\ k \in Steps => Script[k].version > v

\* createTables, before the version is read: CREATE TABLE IF NOT EXISTS has
\* not found the table, and creates it unless another instance has meanwhile.
TableMissing(i) ==
  /\ phase[i] = "reading"
  /\ ~table
  /\ Becomes(i, "tabling")
  /\ UNCHANGED <<schema, table, version, at, deaths>>

CreateTable(i) ==
  /\ phase[i] = "tabling"
  /\ ~table
  /\ table' = TRUE
  /\ Becomes(i, "reading")
  /\ UNCHANGED <<schema, version, at, deaths>>

TableRefused(i) ==
  /\ phase[i] = "tabling"
  /\ table
  /\ Becomes(i, "down")
  /\ UNCHANGED <<schema, table, version, at, deaths>>

ReadVersion(i) ==
  /\ phase[i] = "reading"
  /\ table
  /\ \E k \in 1 .. Len(Script) + 1 :
       FirstPending(k, version) /\ at' = [at EXCEPT ![i] = k]
  /\ Becomes(i, "migrating")
  /\ UNCHANGED <<schema, table, version, deaths>>

Migrating(i, kinds) ==
  /\ phase[i] = "migrating"
  /\ at[i] \in Steps
  /\ Script[at[i]].do \in kinds

Exists(i) == Script[at[i]].object \in schema

\* CREATE ... IF NOT EXISTS has not found the object.
Missing(i) ==
  /\ Migrating(i, {"if_missing"})
  /\ ~Exists(i)
  /\ Becomes(i, "creating")
  /\ UNCHANGED <<schema, table, version, at, deaths>>

Create(i) ==
  /\ phase[i] = "creating" \/ Migrating(i, {"once", "under_lock"})
  /\ ~Exists(i)
  /\ schema' = schema \union {Script[at[i]].object}
  /\ Becomes(i, "migrating")
  /\ Advance(i)
  /\ UNCHANGED <<table, version, deaths>>

Passed(i) ==
  /\ Migrating(i, {"if_missing", "under_lock"})
  /\ Exists(i)
  /\ Advance(i)
  /\ UNCHANGED <<schema, table, version, phase, deaths>>

\* The statement fails; so does Connect, and the process exits.
Refused(i) ==
  /\ phase[i] = "creating" \/ Migrating(i, {"once"})
  /\ Exists(i)
  /\ Becomes(i, "down")
  /\ UNCHANGED <<schema, table, version, at, deaths>>

\* A slip: the version that down() would record.
RecordsPrevious(i) ==
  /\ Migrating(i, {"record"})
  /\ version' = Script[at[i]].version - 1
  /\ Advance(i)
  /\ UNCHANGED <<schema, table, phase, deaths>>

Record(i) ==
  /\ Migrating(i, {"record"})
  /\ version' = Script[at[i]].version
  /\ Advance(i)
  /\ UNCHANGED <<schema, table, phase, deaths>>

Migrated(i) == phase[i] = "migrating" /\ at[i] = Len(Script) + 1

Listen(i) ==
  /\ Migrated(i)
  /\ i \in Configured
  /\ Becomes(i, "serving")
  /\ UNCHANGED <<schema, table, version, at, deaths>>

\* The clients are set up after the database has been migrated.
ClientsMissing(i) ==
  /\ Migrated(i)
  /\ i \notin Configured
  /\ Becomes(i, "down")
  /\ UNCHANGED <<schema, table, version, at, deaths>>

Interrupt(i) ==
  /\ phase[i] = "serving"
  /\ Becomes(i, "draining")
  /\ UNCHANGED <<schema, table, version, at, deaths>>

\* Shutdown returns: no request is left, or the five seconds are over.
Exit(i) ==
  /\ phase[i] = "draining"
  /\ Becomes(i, "down")
  /\ UNCHANGED <<schema, table, version, at, deaths>>

\* SIGTERM, which nothing handles, SIGKILL, an interrupt before the server
\* runs, a database or a port that is not there.
Die(i) ==
  /\ phase[i] # "down"
  /\ deaths < MaxDeaths
  /\ Becomes(i, "down")
  /\ deaths' = deaths + 1
  /\ UNCHANGED <<schema, table, version, at>>

Migrate(i) ==
  \/ TableMissing(i)
  \/ CreateTable(i)
  \/ TableRefused(i)
  \/ ReadVersion(i)
  \/ Missing(i)
  \/ Create(i)
  \/ Passed(i)
  \/ Refused(i)
  \/ Record(i)
  \/ Listen(i)
  \/ ClientsMissing(i)

Ends(i) == Exit(i) \/ Die(i)

LifeNext == \E i \in Instances : Start(i) \/ Migrate(i) \/ Interrupt(i) \/ Ends(i)

LifeSpec == LifeInit /\ [][LifeNext]_lifeVars
-----------------------------------------------------------------------------
LifeTypeOK ==
  /\ schema \subseteq STRING
  /\ table \in BOOLEAN
  /\ version \in Nat
  /\ phase \in [Instances -> Phases]
  /\ at \in [Instances -> 1 .. Len(Script) + 1]
  /\ deaths \in 0 .. MaxDeaths

Open(i) == phase[i] \in {"serving", "draining"}

\* A process that takes requests has the whole schema under it, whatever
\* instances migrated at the same time, were refused or died on the way: the
\* handlers' statements never meet a table or a column that is missing.
ServesComplete ==
  \A i \in Instances : Open(i) =>
    \A k \in Steps : Script[k].do # "record" => Script[k].object \in schema

\* No process can start any more: a statement that cannot be repeated has
\* been run, its version is not recorded and nobody is about to record it.
Wedged ==
  \E k \in Steps :
    /\ Script[k].do = "once"
    /\ Script[k].object \in schema
    /\ Script[k].version > version
    /\ \A i \in Instances :
         ~(phase[i] \in {"migrating", "creating"} /\ at[i] \in k + 1 .. Len(Script))

\* At most two replicas; statements that each make an object of their own; a
\* script whose last statement records a version.
AtMostTwo == \A h, i, j \in Instances : h = i \/ h = j \/ i = j

MadeOnce ==
  \A j, k \in Steps :
    /\ Script[j].do # "record" /\ Script[k].do # "record"
    /\ Script[j].object = Script[k].object
    => j = k

EndsWithRecord == Script # <<>> => Script[Len(Script)].do = "record"

\* What comes before a statement that cannot be repeated, if one that two
\* instances may race for comes after it, has such a statement in each of its
\* migrations, so that one instance only gets to record it.
RecordsGuarded ==
  \A k, b, m \in Steps :
    /\ Script[k].do = "once" /\ Script[b].do = "if_missing" /\ k < b
    /\ Script[m].do = "record" /\ m < k
    => \E c \in Steps : /\ Script[c].do = "once" /\ c < m
                        /\ Script[c].version = Script[m].version

\* Only a death between a statement and its record, or an instance that
\* records an older version after another has recorded a newer one, leaves
\* the service unable to start; refusals, restarts, two instances that race
\* or lack their configuration do not.
WedgedByDeathOrOlderVersion ==
  [][~Wedged /\ Wedged' => deaths' > deaths \/ version' < version]_lifeVars
=============================================================================
