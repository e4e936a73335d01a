--------------------------- MODULE ServiceProofs ----------------------------
(***************************************************************************)
(* Proofs about Startup, for any script of migrations and any number of    *)
(* instances, about ConnectionPool, for any number of requests, processes  *)
(* and connections, and about the service, which is both: each of its      *)
(* steps is a step of Startup, or none, and one of ConnectionPool, or none.*)
(***************************************************************************)
EXTENDS Service, FiniteSetTheorems, SequenceTheorems, TLAPS

-----------------------------------------------------------------------------
(* The life of the processes.                                              *)

Done(k) == Script[k].do # "record" => Script[k].object \in schema

Works(i) == phase[i] \in {"migrating", "creating"}

\* What the statements before an instance's are known to have made.
BehindDone == \A i \in Instances : Works(i) => \A k \in Steps : k < at[i] => Done(k)

\* A version in the table stands for all its statements and all before it.
RecordedDone == \A k \in Steps : Script[k].version <= version => Done(k)

Creates == \A i \in Instances :
  phase[i] = "creating" => at[i] \in Steps /\ Script[at[i]].do = "if_missing"

LifeInv == LifeTypeOK /\ Creates /\ BehindDone /\ RecordedDone /\ ServesComplete

LEMMA ElementTypes ==
  ASSUME NEW S, NEW s \in Seq(S) PROVE Len(s) \in Nat /\ \A k \in 1 .. Len(s) : s[k] \in S
OBVIOUS

LEMMA ScriptTypes ==
  /\ Len(Script) \in Nat
  /\ Steps \subseteq Nat
  /\ \A k \in Steps : /\ Script[k].do \in Kinds
                      /\ Script[k].object \in STRING
                      /\ Script[k].version \in Nat
<1>1. Script \in Seq([do : Kinds, object : STRING, version : Nat])
  BY ScriptAssumption
<1>2. /\ Len(Script) \in Nat
      /\ \A k \in 1 .. Len(Script) :
           Script[k] \in [do : Kinds, object : STRING, version : Nat]
  BY <1>1, ElementTypes
<1> QED
  BY <1>2 DEF Steps

LEMMA LifeInitInv == LifeInit => LifeInv
<1> SUFFICES ASSUME LifeInit PROVE LifeInv
  OBVIOUS
<1> USE ScriptTypes
<1>1. version \in Nat /\ schema \subseteq STRING
  BY DEF LifeInit, Made
<1>2. LifeTypeOK
  BY <1>1, InstancesAssumption DEF LifeInit, LifeTypeOK, Phases
<1>3. RecordedDone
  BY DEF LifeInit, Made, RecordedDone, Done
<1>4. Creates /\ BehindDone /\ ServesComplete
  BY DEF LifeInit, Creates, BehindDone, Works, ServesComplete, Open
<1> QED
  BY <1>2, <1>3, <1>4 DEF LifeInv

\* Nothing that has been made is ever unmade.
LEMMA SchemaGrows == ASSUME LifeNext PROVE schema \subseteq schema'
BY DEF LifeNext, Start, Migrate, Interrupt, Ends, TableMissing, CreateTable,
   TableRefused, ReadVersion, Missing, Create, Passed, Refused, Record, Listen,
   ClientsMissing, Exit, Die

LEMMA DoneStays == ASSUME LifeNext, NEW k \in Steps, Done(k) PROVE Done(k)'
BY SchemaGrows DEF Done

LEMMA LifeStepTypes ==
  ASSUME LifeInv, LifeNext PROVE LifeTypeOK' /\ Creates'
<1> USE ScriptTypes, InstancesAssumption DEF LifeInv, LifeTypeOK, Creates, Phases
<1> PICK i \in Instances : Start(i) \/ Migrate(i) \/ Interrupt(i) \/ Ends(i)
  BY DEF LifeNext
<1>1. CASE Start(i)
  BY <1>1 DEF Start, Becomes
<1>2. CASE ReadVersion(i)
  BY <1>2 DEF ReadVersion, Becomes
<1>3. CASE Missing(i)
  BY <1>3 DEF Missing, Migrating, Becomes
<1>4. CASE Create(i)
  <2>1. at[i] \in Steps
    BY <1>4 DEF Create, Migrating
  <2>2. at[i] + 1 \in 1 .. Len(Script) + 1
    BY <2>1 DEF Steps
  <2> QED
    BY <1>4, <2>1, <2>2 DEF Create, Becomes, Advance
<1>5. CASE Passed(i)
  <2>1. at[i] + 1 \in 1 .. Len(Script) + 1 /\ phase[i] = "migrating"
    BY <1>5 DEF Passed, Migrating, Steps
  <2> QED
    BY <1>5, <2>1 DEF Passed, Advance
<1>6. CASE Refused(i)
  BY <1>6 DEF Refused, Becomes
<1>7. CASE Record(i)
  <2>1. /\ at[i] + 1 \in 1 .. Len(Script) + 1
        /\ phase[i] = "migrating"
        /\ Script[at[i]].version \in Nat
    BY <1>7 DEF Record, Migrating, Steps
  <2> QED
    BY <1>7, <2>1 DEF Record, Advance
<1>8. CASE Listen(i)
  BY <1>8 DEF Listen, Becomes
<1>9. CASE ClientsMissing(i)
  BY <1>9 DEF ClientsMissing, Becomes
<1>10. CASE Interrupt(i)
  BY <1>10 DEF Interrupt, Becomes
<1>11. CASE Exit(i)
  BY <1>11 DEF Exit, Becomes
<1>12. CASE Die(i)
  BY <1>12 DEF Die, Becomes
<1>13. CASE TableMissing(i) \/ CreateTable(i) \/ TableRefused(i)
  BY <1>13 DEF TableMissing, CreateTable, TableRefused, Becomes
<1> QED
  BY <1>1, <1>2, <1>3, <1>4, <1>5, <1>6, <1>7, <1>8, <1>9, <1>10, <1>11, <1>12, <1>13
     DEF Migrate, Ends

\* A version is only recorded when the statements up to it are done.
LEMMA RecordStep ==
  ASSUME LifeInv, LifeNext PROVE RecordedDone'
<1> SUFFICES ASSUME NEW k \in Steps, Script[k].version <= version'
             PROVE Done(k)'
  BY DEF RecordedDone
<1> USE ScriptTypes
<1>1. CASE version' = version
  BY <1>1, DoneStays DEF LifeInv, RecordedDone
<1>2. ASSUME NEW i \in Instances, Record(i) PROVE Done(k)'
  <2>1. /\ at[i] \in Steps
        /\ Script[at[i]].do = "record"
        /\ version' = Script[at[i]].version
        /\ Works(i)
    BY <1>2 DEF Record, Migrating, Works
  <2>2. k <= at[i]
    <3>1. ~(at[i] < k)
      <4>1. at[i] < k => Script[at[i]].version < Script[k].version
        BY <2>1, ScriptAssumption
      <4> QED
        BY <2>1, <4>1
    <3> QED
      BY <2>1, <3>1 DEF Steps
  <2>3. CASE k = at[i]
    BY <2>1, <2>3 DEF Done
  <2>4. CASE k < at[i]
    BY <2>1, <2>4, DoneStays DEF LifeInv, BehindDone
  <2> QED
    BY <2>1, <2>2, <2>3, <2>4 DEF Steps
<1> QED
  BY <1>1, <1>2 DEF LifeNext, Start, Migrate, Interrupt, Ends, TableMissing,
     CreateTable, TableRefused, ReadVersion, Missing, Create, Passed, Refused, Listen,
     ClientsMissing, Exit, Die

LEMMA BehindStep ==
  ASSUME LifeInv, LifeNext PROVE BehindDone'
<1> SUFFICES ASSUME NEW j \in Instances, Works(j)', NEW k \in Steps, k < at[j]'
             PROVE Done(k)'
  BY DEF BehindDone
<1> USE ScriptTypes DEF LifeInv, LifeTypeOK
<1> PICK i \in Instances : Start(i) \/ Migrate(i) \/ Interrupt(i) \/ Ends(i)
  BY DEF LifeNext
<1>1. CASE Works(j) /\ at'[j] = at[j]
  BY <1>1, DoneStays DEF BehindDone
<1>2. CASE ReadVersion(i) /\ i = j
  <2>1. Script[k].version <= version
    BY <1>2 DEF ReadVersion, FirstPending
  <2> QED
    BY <2>1, DoneStays DEF RecordedDone
<1>3. CASE (Create(i) \/ Passed(i) \/ Record(i)) /\ i = j
  <2>1. Works(j) /\ at[j] \in Steps /\ at'[j] = at[j] + 1
    BY <1>3 DEF Create, Passed, Record, Migrating, Advance, Works, Creates
  <2>2. CASE k < at[j]
    BY <2>1, <2>2, DoneStays DEF BehindDone
  <2>3. CASE k = at[j]
    BY <1>3, <2>3 DEF Create, Passed, Record, Migrating, Exists, Done
  <2> QED
    BY <2>1, <2>2, <2>3 DEF Steps
<1>4. CASE ~(Works(j) /\ at'[j] = at[j]) /\ ~(i = j /\ (ReadVersion(i) \/ Create(i) \/ Passed(i) \/ Record(i)))
  BY <1>4 DEF Start, Migrate, Interrupt, Ends, Refused, Missing, Listen, ClientsMissing,
     Exit, Die, TableMissing, CreateTable, TableRefused, ReadVersion, Create, Passed,
     Record, Becomes, Advance, Works, Migrating
<1> QED
  BY <1>1, <1>2, <1>3, <1>4

LEMMA ServeStep ==
  ASSUME LifeInv, LifeNext PROVE ServesComplete'
<1> SUFFICES ASSUME NEW j \in Instances, Open(j)', NEW k \in Steps PROVE Done(k)'
  BY DEF ServesComplete, Done
<1> USE ScriptTypes DEF LifeInv, LifeTypeOK
<1>1. CASE Open(j)
  BY <1>1, DoneStays DEF ServesComplete, Done
<1>2. CASE Listen(j)
  <2>1. Works(j) /\ k < at[j]
    BY <1>2 DEF Listen, Migrated, Works, Steps
  <2> QED
    BY <2>1, DoneStays DEF BehindDone
<1> QED
  BY <1>1, <1>2 DEF LifeNext, Start, Migrate, Interrupt, Ends, TableMissing,
     CreateTable, TableRefused, ReadVersion, Missing, Create, Passed, Refused, Record,
     Listen, ClientsMissing, Exit, Die, Becomes, Open

LEMMA LifeStepInv == LifeInv /\ [LifeNext]_lifeVars => LifeInv'
<1> SUFFICES ASSUME LifeInv, [LifeNext]_lifeVars PROVE LifeInv'
  OBVIOUS
<1>1. CASE LifeNext
  BY <1>1, LifeStepTypes, RecordStep, BehindStep, ServeStep DEF LifeInv
<1>2. CASE UNCHANGED lifeVars
  BY <1>2 DEF lifeVars, LifeInv, LifeTypeOK, Creates, BehindDone, Works, RecordedDone,
     Done, ServesComplete, Open
<1> QED
  BY <1>1, <1>2

\* Whatever the script and however many instances run it at once, refused or
\* killed on the way, a process that serves has every object of the script
\* in the database (RunMigrations and SetVersion of go-pg/migrations).
THEOREM LifeSafe == LifeSpec => []LifeInv
BY LifeInitInv, LifeStepInv, PTL DEF LifeSpec

-----------------------------------------------------------------------------
(* How instances get the migrations stuck.                                 *)

\* Instance i has passed statement k and not yet all.
Past(i, k) == Works(i) /\ at[i] \in k + 1 .. Len(Script)

\* Statement k cannot be repeated, has been run and is not recorded.
Unrecorded(k) ==
  /\ Script[k].do = "once"
  /\ Script[k].object \in schema
  /\ Script[k].version > version

\* Instance i is about to be refused what it found missing.
Beaten(i) == phase[i] = "creating" /\ Script[at[i]].object \in schema

\* Statement k cannot be repeated, and instances may race after it.
Prone(k) ==
  /\ Script[k].do = "once"
  /\ \E b \in Steps : k < b /\ Script[b].do = "if_missing"

\* One instance at most has passed a statement that is not recorded, and it is
\* not about to be refused: what it found missing only another could have
\* made, and none has come so far.
NotBeaten ==
  \A k \in Steps : Prone(k) /\ Unrecorded(k) =>
    /\ \A i, j \in Instances : Past(i, k) /\ Past(j, k) => i = j
    /\ \A i \in Instances : Past(i, k) => ~Beaten(i)

\* Of two instances one was not beaten by the other while that is behind.
BeatenFromAhead ==
  \A i, j \in Instances, k \in Steps :
    /\ Script[k].do = "once"
    /\ Past(i, k) /\ Beaten(i)
    /\ Works(j)
    => at[j] > k

\* Nobody is in the rest of a migration that is recorded, past a statement of
\* it that cannot be repeated.
RecordedIsLeft ==
  \A c \in Steps : Prone(c) /\ Script[c].version <= version =>
    \A i \in Instances : Past(i, c) => Script[at[i]].version # Script[c].version

WedgeInv ==
  /\ LifeInv
  /\ NotBeaten
  /\ AtMostTwo => BeatenFromAhead
  /\ RecordsGuarded => RecordedIsLeft

LEMMA WedgeInvInit == LifeInit => WedgeInv
BY LifeInitInv DEF LifeInit, WedgeInv, NotBeaten, BeatenFromAhead, RecordedIsLeft, Past,
   Works

\* What a step makes and records, and where it leaves each instance.
LEMMA LifeMoves ==
  ASSUME LifeInv, NEW i \in Instances,
         Start(i) \/ Migrate(i) \/ Interrupt(i) \/ Ends(i)
  PROVE  /\ \A j \in Instances : j # i => phase'[j] = phase[j] /\ at'[j] = at[j]
         /\ \/ Create(i)
            \/ schema' = schema
         /\ \/ Record(i)
            \/ version' = version
         /\ \/ Works(i)' => Works(i) /\ at'[i] = at[i] /\ phase'[i] = phase[i]
            \/ ReadVersion(i)
            \/ Missing(i)
            \/ Create(i) \/ Passed(i) \/ Record(i)
BY DEF LifeInv, LifeTypeOK, Start, Migrate, Interrupt, Ends, TableMissing,
   CreateTable, TableRefused, ReadVersion, Missing, Create, Passed, Refused, Record, Listen, ClientsMissing, Exit, Die, Becomes, Advance,
   Works, Migrating, Migrated

\* Steps are numbered.
LEMMA StepNumbers ==
  /\ Len(Script) + 1 \in Nat
  /\ \A k \in 1 .. Len(Script) + 1 : k \in Nat
  /\ \A k \in Steps : k \in Nat
  /\ \A j, k \in Steps : j > k => k <= j
BY ScriptTypes DEF Steps

\* Versions grow along the script.
LEMMA ScriptOrder ==
  ASSUME NEW j \in Steps, NEW k \in Steps, j <= k
  PROVE  Script[j].version <= Script[k].version
<1>1. CASE j = k
  BY <1>1, ScriptTypes
<1>2. CASE j < k
  BY <1>2, ScriptAssumption
<1>3. QED
  BY <1>1, <1>2, ScriptTypes

\* Only its creation takes an instance past a statement that cannot be
\* repeated, unless it starts past it.
LEMMA NewlyPast ==
  ASSUME LifeInv, NEW i \in Instances,
         Start(i) \/ Migrate(i) \/ Interrupt(i) \/ Ends(i),
         NEW j \in Instances, NEW k \in Steps, Script[k].do = "once",
         Past(j, k)', ~Past(j, k)
  PROVE  /\ j = i /\ phase'[i] = "migrating"
         /\ \/ ReadVersion(i) /\ Script[k].version <= version /\ version' = version
            \/ Create(i) /\ at[i] = k
<1> USE ScriptTypes DEF LifeInv, LifeTypeOK
<1>1. j = i
  BY LifeMoves DEF Past, Works
<1>2. ~(Works(i) /\ at'[i] = at[i])
  BY <1>1 DEF Past
<1>3. CASE ReadVersion(i)
  <2>1. phase'[i] = "migrating" /\ FirstPending(at'[i], version) /\ version' = version
    BY <1>3 DEF ReadVersion, Becomes
  <2>2. k < at'[i]
    BY <1>1 DEF Past, Steps
  <2>3. QED
    BY <1>1, <1>3, <2>1, <2>2 DEF FirstPending
<1>4. CASE Missing(i)
  BY <1>2, <1>4 DEF Missing, Migrating, Works
<1>5. CASE Create(i) \/ Passed(i) \/ Record(i)
  <2>1. Works(i) /\ at[i] \in Steps /\ at'[i] = at[i] + 1
    BY <1>5 DEF Create, Passed, Record, Migrating, Advance, Works, Creates
  <2>2. at[i] = k
    BY <1>1, <2>1 DEF Past, Steps
  <2>3. CASE Create(i)
    BY <1>1, <2>2, <2>3 DEF Create, Becomes
  <2>4. CASE Passed(i) \/ Record(i)
    BY <2>2, <2>4 DEF Passed, Record, Migrating
  <2>5. QED
    BY <1>5, <2>3, <2>4
<1>6. QED
  BY <1>1, <1>2, <1>3, <1>4, <1>5, LifeMoves DEF Past

\* What an instance found missing is made by one that is where it is.
LEMMA NewlyBeaten ==
  ASSUME MadeOnce, LifeInv, NEW i \in Instances,
         Start(i) \/ Migrate(i) \/ Interrupt(i) \/ Ends(i),
         NEW j \in Instances, Beaten(j)', ~Beaten(j)
  PROVE  j # i /\ Create(i) /\ Works(i) /\ at[i] = at[j] /\ at'[i] = at[i] + 1
<1> USE ScriptTypes DEF LifeInv, LifeTypeOK
<1>1. CASE Create(i)
  <2>1. /\ at[i] \in Steps /\ Works(i) /\ at'[i] = at[i] + 1 /\ phase'[i] = "migrating"
        /\ schema' = schema \union {Script[at[i]].object}
        /\ Script[at[i]].do # "record"
    BY <1>1 DEF Create, Migrating, Works, Becomes, Advance, Creates
  <2>2. j # i
    BY <2>1 DEF Beaten
  <2>3. phase[j] = "creating" /\ at'[j] = at[j]
    BY <2>2, LifeMoves DEF Beaten
  <2>4. at[j] \in Steps /\ Script[at[j]].do # "record"
    BY <2>3 DEF Creates
  <2>5. Script[at[j]].object = Script[at[i]].object
    BY <2>1, <2>3 DEF Beaten
  <2>6. QED
    BY <1>1, <2>1, <2>2, <2>4, <2>5 DEF MadeOnce
<1>2. CASE ~Create(i)
  <2>1. schema' = schema
    BY <1>2, LifeMoves
  <2>2. j = i
    BY <2>1, LifeMoves DEF Beaten
  <2>3. Missing(i)
    <3>1. ~(ReadVersion(i) \/ Passed(i) \/ Record(i))
      BY <2>2 DEF ReadVersion, Passed, Record, Migrating, Becomes, Beaten
    <3>2. Works(i)' /\ ~(at'[i] = at[i] /\ phase'[i] = phase[i])
      BY <2>1, <2>2 DEF Works, Beaten
    <3>3. QED
      BY <1>2, <3>1, <3>2, LifeMoves
  <2>4. QED
    BY <2>1, <2>2, <2>3 DEF Missing, Exists, Beaten
<1>3. QED
  BY <1>1, <1>2

\* A statement comes to be unrecorded when it is run, and nobody is past it
\* then, or when an instance that is not past it records an older version.
LEMMA NewlyUnrecorded ==
  ASSUME LifeInv, NEW i \in Instances,
         Start(i) \/ Migrate(i) \/ Interrupt(i) \/ Ends(i),
         NEW k \in Steps, Unrecorded(k)', ~Unrecorded(k)
  PROVE  \/ /\ Create(i) /\ Script[at[i]].object = Script[k].object
            /\ \A j \in Instances : ~Past(j, k)
         \/ /\ Works(i) /\ at[i] \in Steps /\ at[i] < k /\ ~Past(i, k)'
            /\ version' < version /\ schema' = schema
            /\ Script[at[i]].do = "record" /\ Script[k].version <= version
<1> USE ScriptTypes DEF LifeInv, LifeTypeOK
<1>1. CASE Script[k].object \notin schema
  <2>1. Create(i) /\ Script[at[i]].object = Script[k].object
    BY <1>1, LifeMoves DEF Unrecorded, Create
  <2>2. ~Done(k)
    BY <1>1 DEF Done, Unrecorded
  <2>3. QED
    BY <2>1, <2>2 DEF Past, BehindDone, Steps
<1>2. CASE Script[k].object \in schema
  <2>1. /\ version' < Script[k].version /\ Script[k].version <= version
        /\ version \in Nat
    BY <1>2 DEF Unrecorded
  <2>2. Record(i)
    <3>1. version' # version
      BY <2>1
    <3>2. QED
      BY <3>1, LifeMoves
  <2>3. /\ Works(i) /\ at[i] \in Steps /\ at'[i] = at[i] + 1 /\ schema' = schema
        /\ version' = Script[at[i]].version /\ Script[at[i]].do = "record"
    BY <2>2 DEF Record, Migrating, Advance, Works
  <2>4. at[i] < k
    <3> SUFFICES ASSUME k <= at[i] PROVE FALSE
      BY <2>3 DEF Steps
    <3>1. Script[k].version <= Script[at[i]].version
      BY <2>3, ScriptOrder
    <3>2. Script[k].version \in Nat /\ Script[at[i]].version \in Nat
      BY <2>3
    <3>3. QED
      BY <2>1, <2>3, <3>1, <3>2
  <2>5. ~Past(i, k)'
    BY <2>3, <2>4 DEF Past, Steps
  <2>6. version' < version
    <3>1. version' \in Nat /\ Script[k].version \in Nat
      BY <2>3
    <3>2. QED
      BY <2>1, <3>1
  <2>7. QED
    BY <2>1, <2>3, <2>4, <2>5, <2>6
<1>3. QED
  BY <1>1, <1>2

\* Where each migration has a statement that one instance only can run, no
\* older version is recorded that matters.
LEMMA NoOlderRecord ==
  ASSUME RecordsGuarded, WedgeInv, NEW i \in Instances, NEW k \in Steps, Prone(k),
         Works(i), at[i] \in Steps, at[i] < k, Script[at[i]].do = "record",
         Script[k].version <= version
  PROVE  FALSE
<1>1. PICK c \in Steps : /\ Script[c].do = "once" /\ c < at[i]
                        /\ Script[c].version = Script[at[i]].version
  BY DEF RecordsGuarded, Prone
<1>2. Past(i, c)
  BY <1>1, StepNumbers DEF Past, Steps
<1>3. Prone(c)
  <2>1. PICK b \in Steps : k < b /\ Script[b].do = "if_missing"
    BY DEF Prone
  <2>2. c < b
    BY <1>1, <2>1, StepNumbers
  <2>3. QED
    BY <1>1, <2>1, <2>2 DEF Prone
<1>4. Script[c].version <= version
  <2>1. Script[at[i]].version <= Script[k].version
    BY StepNumbers, ScriptOrder
  <2>2. /\ Script[at[i]].version \in Nat /\ Script[k].version \in Nat
        /\ version \in Nat
    BY ScriptTypes DEF WedgeInv, LifeInv, LifeTypeOK
  <2>3. QED
    BY <1>1, <2>1, <2>2
<1>5. QED
  BY <1>1, <1>2, <1>3, <1>4 DEF WedgeInv, RecordedIsLeft

LEMMA NotBeatenStep ==
  ASSUME AtMostTwo \/ RecordsGuarded, MadeOnce, WedgeInv, NEW i \in Instances,
         Start(i) \/ Migrate(i) \/ Interrupt(i) \/ Ends(i)
  PROVE  NotBeaten'
<1> USE ScriptTypes DEF WedgeInv
<1> SUFFICES ASSUME NEW k \in Steps, Prone(k), Unrecorded(k)'
             PROVE  /\ \A h, j \in Instances : Past(h, k)' /\ Past(j, k)' => h = j
                    /\ \A j \in Instances : Past(j, k)' => ~Beaten(j)'
  BY DEF NotBeaten, Prone
<1>1. LifeInv /\ Script[k].do = "once"
  BY DEF Unrecorded
<1>2. \A j \in Instances : Past(j, k)' /\ Beaten(j)' => Past(j, k)
  BY <1>1, NewlyPast DEF Beaten
<1>3. CASE Unrecorded(k)
  <2>1. \A h, j \in Instances : Past(h, k) /\ Past(j, k) => h = j
    BY <1>3 DEF NotBeaten
  <2>2. \A j \in Instances : Past(j, k)' => Past(j, k)
    <3> SUFFICES ASSUME NEW j \in Instances, Past(j, k)', ~Past(j, k) PROVE FALSE
      OBVIOUS
    <3>1. ~(Script[k].version <= version)
      <4>1. Script[k].version > version
        BY <1>3 DEF Unrecorded
      <4>2. version \in Nat /\ Script[k].version \in Nat
        BY <1>1 DEF LifeInv, LifeTypeOK
      <4>3. QED
        BY <4>1, <4>2
    <3>2. Create(i) /\ at[i] = k
      BY <1>1, <3>1, NewlyPast
    <3>3. QED
      BY <1>3, <3>2 DEF Create, Exists, Unrecorded
  <2>3. ASSUME NEW j \in Instances, Past(j, k)', Beaten(j)' PROVE FALSE
    <3>1. Past(j, k) /\ ~Beaten(j)
      BY <1>3, <2>2, <2>3 DEF NotBeaten
    <3>2. j # i /\ Works(i) /\ at[i] = at[j]
      BY <1>1, <2>3, <3>1, NewlyBeaten
    <3>3. Past(i, k)
      BY <3>1, <3>2 DEF Past
    <3>4. QED
      BY <2>1, <3>1, <3>2, <3>3
  <2>4. QED
    BY <2>1, <2>2, <2>3
<1>4. CASE ~Unrecorded(k) /\ Create(i) /\ \A j \in Instances : ~Past(j, k)
  <2>1. \A j \in Instances : Past(j, k)' => j = i
    BY <1>1, <1>4, NewlyPast
  <2>2. QED
    BY <1>2, <1>4, <2>1
<1>5. CASE /\ ~Unrecorded(k) /\ AtMostTwo
           /\ Works(i) /\ at[i] \in Steps /\ at[i] < k /\ ~Past(i, k)'
           /\ schema' = schema
  <2>1. ASSUME NEW h \in Instances, NEW j \in Instances, Past(h, k)', Past(j, k)'
        PROVE  h = j
    BY <1>5, <2>1 DEF AtMostTwo
  <2>2. ASSUME NEW j \in Instances, Past(j, k)', Beaten(j)' PROVE FALSE
    <3>1. Past(j, k) /\ j # i
      BY <1>2, <1>5, <2>2
    <3>2. Beaten(j)
      BY <1>1, <1>5, <2>2, <3>1, LifeMoves DEF Beaten
    <3>3. at[i] > k
      BY <1>1, <1>5, <3>1, <3>2 DEF BeatenFromAhead
    <3>4. QED
      BY <1>5, <3>3 DEF Steps
  <2>3. QED
    BY <2>1, <2>2
<1>6. CASE /\ ~Unrecorded(k) /\ RecordsGuarded
           /\ Works(i) /\ at[i] \in Steps /\ at[i] < k
           /\ Script[at[i]].do = "record" /\ Script[k].version <= version
  BY <1>6, NoOlderRecord
<1>7. QED
  BY <1>1, <1>3, <1>4, <1>5, <1>6, NewlyUnrecorded

LEMMA BeatenFromAheadStep ==
  ASSUME AtMostTwo, MadeOnce, WedgeInv, NEW i \in Instances,
         Start(i) \/ Migrate(i) \/ Interrupt(i) \/ Ends(i)
  PROVE  BeatenFromAhead'
<1> USE ScriptTypes DEF WedgeInv
<1> SUFFICES ASSUME NEW j \in Instances, NEW h \in Instances, NEW k \in Steps,
                    Script[k].do = "once", Past(j, k)', Beaten(j)', Works(h)'
             PROVE  at'[h] > k
  BY DEF BeatenFromAhead
<1>1. LifeInv /\ LifeTypeOK /\ at[h] \in Nat /\ at'[h] \in Nat /\ k \in Nat
  <2>1. LifeInv /\ LifeNext
    BY DEF LifeNext
  <2>2. LifeTypeOK /\ LifeTypeOK'
    BY <2>1, LifeStepTypes DEF LifeInv
  <2>3. at[h] \in 1 .. Len(Script) + 1 /\ at'[h] \in 1 .. Len(Script) + 1
    BY <2>2 DEF LifeTypeOK
  <2>4. at[h] \in Nat /\ at'[h] \in Nat /\ k \in Nat
    BY <2>3, StepNumbers
  <2>5. QED
    BY <2>1, <2>2, <2>4
<1>2. Past(j, k)
  BY <1>1, NewlyPast DEF Beaten
<1>3. CASE h = j
  BY <1>1, <1>3 DEF Past
<1>4. CASE h # j /\ ~Beaten(j)
  <2>1. j # i /\ at[i] = at[j] /\ at'[i] = at[i] + 1
    BY <1>1, <1>4, NewlyBeaten
  <2>2. h = i
    BY <1>4, <2>1 DEF AtMostTwo
  <2>3. at[j] > k
    BY <1>1, <1>2 DEF Past
  <2>4. QED
    BY <1>1, <2>1, <2>2, <2>3
<1>5. CASE h # j /\ Beaten(j) /\ Works(h)
  <2>1. at[h] > k
    BY <1>2, <1>5 DEF BeatenFromAhead
  <2>2. at'[h] = at[h] \/ at'[h] = at[h] + 1
    BY <1>1, <1>5, LifeMoves DEF LifeTypeOK, Works, TableMissing, CreateTable,
       TableRefused, ReadVersion, Missing, Create, Passed, Record, Advance
  <2>3. QED
    BY <1>1, <2>1, <2>2
<1>6. CASE h # j /\ Beaten(j) /\ ~Works(h)
  <2> SUFFICES ASSUME at'[h] <= k PROVE FALSE
    BY <1>1
  <2>1. h = i /\ ReadVersion(i)
    BY <1>1, <1>6, LifeMoves DEF Works, Missing, Create, Passed, Record, Migrating
  <2>2. FirstPending(at'[h], version) /\ at'[h] \in 1 .. Len(Script) + 1
    BY <1>1, <2>1 DEF ReadVersion, LifeTypeOK
  <2>3. at'[h] \in Steps
    BY <2>2 DEF Steps
  <2>4. Script[at'[h]].version <= Script[k].version
    BY <2>3, ScriptOrder
  <2>5. Script[k].version > version
    <3>1. Script[at'[h]].version > version
      BY <2>2, <2>3 DEF FirstPending
    <3>2. /\ Script[k].version \in Nat /\ Script[at'[h]].version \in Nat
          /\ version \in Nat
      BY <1>1, <2>3 DEF LifeTypeOK
    <3>3. QED
      BY <2>4, <3>1, <3>2
  <2>6. Done(k)
    BY <1>1, <1>2 DEF LifeInv, BehindDone, Past
  <2>7. Unrecorded(k)
    BY <2>5, <2>6 DEF Unrecorded, Done
  <2>8. Prone(k)
    <3>1. at[j] \in Steps /\ Script[at[j]].do = "if_missing"
      BY <1>1, <1>6 DEF Beaten, LifeInv, Creates
    <3>2. k < at[j]
      BY <1>1, <1>2, <3>1, StepNumbers DEF Past
    <3>3. QED
      BY <3>1, <3>2 DEF Prone
  <2>9. QED
    BY <1>2, <1>6, <2>7, <2>8 DEF NotBeaten
<1>7. QED
  BY <1>3, <1>4, <1>5, <1>6

LEMMA RecordedIsLeftStep ==
  ASSUME RecordsGuarded, MadeOnce, WedgeInv, NEW i \in Instances,
         Start(i) \/ Migrate(i) \/ Interrupt(i) \/ Ends(i)
  PROVE  RecordedIsLeft'
<1> SUFFICES ASSUME NEW c \in Steps, Prone(c), Script[c].version <= version',
                    NEW j \in Instances, Past(j, c)',
                    Script[at'[j]].version = Script[c].version
             PROVE  FALSE
  BY DEF RecordedIsLeft, Prone
<1>1. LifeInv /\ LifeTypeOK /\ version \in Nat /\ Script[c].do = "once"
      /\ Script[c].version \in Nat
  BY ScriptTypes DEF WedgeInv, LifeInv, LifeTypeOK, Prone
<1>2. CASE Record(i)
  <2>1. /\ at[i] \in Steps /\ at'[i] = at[i] + 1 /\ version' = Script[at[i]].version
        /\ Script[at[i]].do = "record" /\ Works(i)
        /\ \A h \in Instances : h # i => at'[h] = at[h] /\ phase'[h] = phase[h]
    BY <1>1, <1>2 DEF Record, Migrating, Advance, Works, LifeTypeOK
  <2>2. CASE j = i
    <3>1. at'[i] \in Steps
      BY <2>1, <2>2, ScriptTypes DEF Past, Steps
    <3>2. Script[at[i]].version < Script[at'[i]].version
      <4>1. at[i] < at'[i]
        BY <2>1, StepNumbers
      <4>2. QED
        BY <2>1, <3>1, <4>1, ScriptAssumption
    <3>3. Script[at[i]].version \in Nat
      BY <2>1, ScriptTypes
    <3>4. QED
      BY <1>1, <2>1, <2>2, <3>2, <3>3
  <2>3. CASE j # i
    <3>1. Past(j, c) /\ Script[at[j]].version = Script[c].version
      BY <2>1, <2>3 DEF Past, Works
    <3>2. ~(Script[c].version <= version)
      BY <3>1 DEF WedgeInv, RecordedIsLeft
    <3>3. Script[c].version > version
      BY <1>1, <3>2
    <3>4. Done(c)
      BY <1>1, <3>1, StepNumbers DEF LifeInv, BehindDone, Past
    <3>5. Unrecorded(c)
      BY <1>1, <3>3, <3>4 DEF Unrecorded, Done
    <3>6. at[i] > c
      <4> SUFFICES ASSUME at[i] <= c PROVE FALSE
        BY <2>1, StepNumbers
      <4>1. at[i] < c
        BY <1>1, <2>1, StepNumbers
      <4>2. Script[at[i]].version < Script[c].version
        BY <2>1, <4>1, ScriptAssumption
      <4>3. Script[at[i]].version \in Nat
        BY <2>1, ScriptTypes
      <4>4. QED
        BY <1>1, <2>1, <4>2, <4>3
    <3>7. Past(i, c)
      BY <2>1, <3>6, StepNumbers DEF Past, Steps
    <3>8. QED
      BY <2>3, <3>1, <3>5, <3>7 DEF WedgeInv, NotBeaten
  <2>4. QED
    BY <2>2, <2>3
<1>3. CASE ~Record(i)
  <2>1. version' = version
    BY <1>1, <1>3, LifeMoves
  <2>2. CASE ~Past(j, c)
    <3>1. ReadVersion(i) \/ (Create(i) /\ at[i] = c)
      BY <1>1, <2>2, NewlyPast
    <3>2. CASE ReadVersion(i)
      <4>1. j = i /\ FirstPending(at'[i], version)
        BY <1>1, <2>2, <3>2, NewlyPast DEF ReadVersion, LifeTypeOK
      <4>2. at'[i] \in Steps
        BY <4>1, StepNumbers DEF Past, Steps
      <4>3. Script[at'[i]].version > version
        BY <4>1, <4>2 DEF FirstPending
      <4>4. QED
        BY <1>1, <2>1, <4>1, <4>3
    <3>3. CASE Create(i) /\ at[i] = c
      <4>1. Done(c)
        BY <1>1, <2>1 DEF LifeInv, RecordedDone
      <4>2. QED
        BY <1>1, <3>3, <4>1 DEF Done, Create, Exists
    <3>4. QED
      BY <3>1, <3>2, <3>3
  <2>3. CASE Past(j, c)
    <3>1. Script[at[j]].version # Script[c].version
      BY <2>1, <2>3 DEF WedgeInv, RecordedIsLeft
    <3>2. j = i /\ at'[i] # at[i]
      BY <1>1, <3>1, LifeMoves
    <3>3. Create(i) \/ Passed(i)
      BY <1>1, <1>3, <2>3, <3>2, LifeMoves
         DEF Past, Works, TableMissing, CreateTable, TableRefused, ReadVersion, Missing
    <3>4. /\ at[i] \in Steps /\ at'[i] = at[i] + 1
      BY <1>1, <3>3 DEF Create, Passed, Migrating, Advance, LifeTypeOK, LifeInv, Creates
    <3>5. at'[i] \in Steps /\ c < at[i] /\ at[i] < at'[i]
      BY <2>3, <3>2, <3>4, StepNumbers DEF Past, Steps
    <3>6. /\ Script[c].version <= Script[at[i]].version
          /\ Script[at[i]].version <= Script[at'[i]].version
      BY <3>4, <3>5, ScriptAssumption
    <3>7. Script[at[i]].version \in Nat /\ Script[at'[i]].version \in Nat
      BY <3>4, <3>5, ScriptTypes
    <3>8. QED
      BY <1>1, <3>1, <3>2, <3>6, <3>7
  <2>4. QED
    BY <2>2, <2>3
<1>4. QED
  BY <1>2, <1>3

LEMMA WedgeInvNext ==
  ASSUME AtMostTwo \/ RecordsGuarded, MadeOnce
  PROVE  WedgeInv /\ [LifeNext]_lifeVars => WedgeInv'
<1> SUFFICES ASSUME WedgeInv, [LifeNext]_lifeVars PROVE WedgeInv'
  OBVIOUS
<1>1. LifeInv'
  BY LifeStepInv DEF WedgeInv
<1>2. CASE UNCHANGED lifeVars
  BY <1>1, <1>2 DEF WedgeInv, NotBeaten, BeatenFromAhead, RecordedIsLeft, Unrecorded, Past,
     Beaten, Works, Prone, AtMostTwo, RecordsGuarded, lifeVars
<1>3. CASE LifeNext
  <2>1. NotBeaten' /\ (AtMostTwo => BeatenFromAhead') /\ (RecordsGuarded => RecordedIsLeft')
    BY <1>3, NotBeatenStep, BeatenFromAheadStep, RecordedIsLeftStep DEF LifeNext
  <2>2. QED
    BY <1>1, <2>1 DEF WedgeInv, AtMostTwo, RecordsGuarded
<1>4. QED
  BY <1>2, <1>3

\* The step at which the instances are stuck.
LEMMA WedgeStep ==
  ASSUME MadeOnce, EndsWithRecord, WedgeInv, NEW i \in Instances,
         Start(i) \/ Migrate(i) \/ Interrupt(i) \/ Ends(i), ~Wedged, Wedged'
  PROVE  deaths' > deaths \/ version' < version
<1> USE ScriptTypes DEF WedgeInv
<1>1. LifeInv /\ LifeTypeOK
  BY DEF LifeInv
<1>2. PICK k \in Steps : Unrecorded(k)' /\ \A j \in Instances : ~Past(j, k)'
  BY DEF Wedged, Unrecorded, Past, Works
<1>3. Script # <<>> /\ Len(Script) \in Steps /\ Script[Len(Script)].do = "record"
      /\ k < Len(Script)
  <2>1. Script # <<>> /\ Len(Script) \in Steps
    BY DEF Steps
  <2>2. Script[Len(Script)].do = "record" /\ Script[k].do = "once"
    BY <1>2, <2>1 DEF EndsWithRecord, Unrecorded
  <2>3. QED
    BY <2>1, <2>2 DEF Steps
<1>4. CASE ~Unrecorded(k)
  <2>1. CASE Create(i) /\ Script[at[i]].object = Script[k].object
    <3>1. at[i] \in Steps /\ Script[at[i]].do # "record" /\ at'[i] = at[i] + 1
          /\ phase'[i] = "migrating"
      BY <1>1, <2>1 DEF Create, Migrating, Becomes, Advance, LifeInv, Creates, LifeTypeOK
    <3>2. at[i] = k
      BY <1>2, <2>1, <3>1 DEF MadeOnce, Unrecorded
    <3>3. Past(i, k)'
      BY <1>3, <3>1, <3>2 DEF Past, Works, Steps
    <3>4. QED
      BY <1>2, <3>3
  <2>2. QED
    BY <1>1, <1>2, <1>4, <2>1, NewlyUnrecorded
<1>5. CASE Unrecorded(k)
  <2>1. PICK j \in Instances : Past(j, k)
    BY <1>5 DEF Wedged, Unrecorded, Past, Works
  <2>2. ~Past(j, k)'
    BY <1>2
  <2>3. j = i
    BY <1>1, <2>1, <2>2, LifeMoves DEF Past, Works
  <2>4. Works(i) /\ at[i] \in Steps /\ at[i] > k /\ ~Past(i, k)'
    BY <2>1, <2>2, <2>3 DEF Past, Steps
  <2>5. CASE Create(i) \/ Passed(i) \/ Missing(i)
    <3>1. Script[at[i]].do # "record"
      BY <1>1, <2>5 DEF Create, Passed, Missing, Migrating, LifeInv, Creates
    <3>2. at[i] < Len(Script)
      BY <1>3, <2>4, <3>1 DEF Steps
    <3>3. Works(i)' /\ (at'[i] = at[i] \/ at'[i] = at[i] + 1)
      BY <1>1, <2>5 DEF Create, Passed, Missing, Migrating, Becomes, Advance, Works,
         LifeTypeOK
    <3>4. QED
      BY <1>3, <2>4, <3>2, <3>3 DEF Past, Steps
  <2>6. CASE Record(i)
    <3>1. /\ version' = Script[at[i]].version /\ at'[i] = at[i] + 1
          /\ phase'[i] = "migrating"
      BY <1>1, <2>6 DEF Record, Migrating, Advance, LifeTypeOK
    <3>2. Script[k].version <= Script[at[i]].version
      <4>1. k <= at[i]
        BY <2>4, StepNumbers
      <4>2. QED
        BY <2>4, <4>1, ScriptOrder
    <3>3. Script[k].version > version' /\ Script[k].version \in Nat
          /\ Script[at[i]].version \in Nat
      BY <1>2, <2>4 DEF Unrecorded
    <3>4. QED
      BY <3>1, <3>2, <3>3
  <2>7. CASE Refused(i) /\ phase[i] = "creating"
    <3>1. Beaten(i)
      BY <2>7 DEF Refused, Exists, Beaten
    <3>2. Script[at[i]].do = "if_missing"
      BY <1>1, <2>7 DEF LifeInv, Creates
    <3>3. Prone(k)
      BY <1>5, <2>4, <3>2, StepNumbers DEF Prone, Unrecorded
    <3>4. QED
      BY <1>5, <2>1, <2>3, <3>1, <3>3 DEF NotBeaten
  <2>8. CASE Refused(i) /\ Migrating(i, {"once"})
    <3>1. Script[at[i]].do = "once" /\ Script[at[i]].object \in schema
      BY <2>8 DEF Refused, Migrating, Exists
    <3>2. Script[at[i]].version > version
      <4>1. Script[k].version <= Script[at[i]].version
        <5>1. k <= at[i]
          BY <2>4, StepNumbers
        <5>2. QED
          BY <2>4, <5>1, ScriptOrder
      <4>2. /\ Script[k].version > version /\ Script[k].version \in Nat
            /\ Script[at[i]].version \in Nat /\ version \in Nat
        BY <1>1, <1>5, <2>4 DEF Unrecorded, LifeTypeOK
      <4>3. QED
        BY <4>1, <4>2
    <3>3. ASSUME NEW h \in Instances, Past(h, at[i]) PROVE FALSE
      <4>1. h # i
        BY <2>4, <3>3 DEF Past, Steps
      <4>2. Past(h, k)
        BY <2>4, <3>3 DEF Past, Steps
      <4>3. Past(h, k)'
        BY <1>1, <4>1, <4>2, LifeMoves DEF Past, Works
      <4>4. QED
        BY <1>2, <4>3
    <3>4. Wedged
      BY <2>4, <3>1, <3>2, <3>3 DEF Wedged, Past, Works
    <3>5. QED
      BY <3>4
  <2>9. CASE Die(i)
    BY <1>1, <2>9, InstancesAssumption DEF Die, LifeTypeOK
  <2>10. ~(\/ Start(i) \/ TableMissing(i) \/ CreateTable(i) \/ TableRefused(i)
           \/ ReadVersion(i) \/ Listen(i) \/ ClientsMissing(i)
           \/ Interrupt(i) \/ Exit(i))
    BY <2>4 DEF Start, TableMissing, CreateTable, TableRefused, ReadVersion, Listen,
       ClientsMissing, Migrated, Interrupt, Exit, Works, Steps
  <2>11. QED
    BY <2>5, <2>6, <2>7, <2>8, <2>9, <2>10 DEF Migrate, Ends, Refused
<1>6. QED
  BY <1>4, <1>5

\* So it is of the processes by themselves.
LEMMA LifeWedges ==
  ASSUME AtMostTwo \/ RecordsGuarded, MadeOnce, EndsWithRecord
  PROVE  LifeSpec => WedgedByDeathOrOlderVersion
<1>1. WedgeInv /\ [LifeNext]_lifeVars
        => [~Wedged /\ Wedged' => deaths' > deaths \/ version' < version]_lifeVars
  <2> SUFFICES ASSUME WedgeInv, LifeNext, ~Wedged, Wedged'
               PROVE  deaths' > deaths \/ version' < version
    OBVIOUS
  <2>1. QED
    BY WedgeStep DEF LifeNext
<1>2. QED
  BY <1>1, WedgeInvInit, WedgeInvNext, PTL DEF LifeSpec, WedgedByDeathOrOlderVersion


-----------------------------------------------------------------------------
(* The pools.                                                              *)

\* A transaction that is begun is ended before another is.
InOrder(steps) ==
  \A j \in 1 .. Len(steps) : steps[j] = "begin" => Closes(steps, j + 1)

HandlerOK(r) ==
  /\ InOrder(todo[r])
  /\ inTx[r] => Closes(todo[r], 1)
  /\ reading[r] => AtLookup(r)

HandlersOK == \A r \in Requests : HandlerOK(r)

WeakTypes ==
  /\ todo \in [Requests -> Seq(HandlerSteps)]
  /\ inTx \in [Requests -> BOOLEAN]
  /\ reading \in [Requests -> BOOLEAN]
  /\ writer \in Requests \union {NoRequest}
  /\ turns \in [Pools -> Int]
  /\ \A p \in Pools : turns[p] <= PoolSize

PoolInv == WeakTypes /\ HandlersOK /\ PoolAccounts

LEMMA TailFacts ==
  ASSUME NEW S, NEW s \in Seq(S), s # <<>>
  PROVE  /\ Tail(s) \in Seq(S)
         /\ Len(s) \in Nat /\ Len(s) >= 1
         /\ Len(Tail(s)) = Len(s) - 1
         /\ \A k \in 1 .. Len(s) - 1 : Tail(s)[k] = s[k + 1]
         /\ Head(s) = s[1]
OBVIOUS

LEMMA Finite ==
  ASSUME NEW T \in SUBSET Requests
  PROVE  IsFiniteSet(T) /\ Cardinality(T) \in Nat
BY PoolAssumption, FS_Subset, FS_CardinalityType

LEMMA CountAdd ==
  ASSUME NEW T \in SUBSET Requests, NEW r \in Requests, r \notin T
  PROVE  Cardinality(T \union {r}) = Cardinality(T) + 1
BY Finite, FS_AddElement

LEMMA CountRemove ==
  ASSUME NEW T \in SUBSET Requests, NEW r \in T
  PROVE  Cardinality(T \ {r}) = Cardinality(T) - 1
BY Finite, FS_RemoveElement

LEMMA HandlerTypes ==
  ASSUME NEW h \in Handlers
  PROVE  h \in Seq(HandlerSteps) /\ h # <<>> /\ InOrder(h)
BY DEF Handlers, InOrder

\* What is left of a handler is in order as the whole is.
LEMMA Rest ==
  ASSUME NEW s \in Seq(HandlerSteps), NEW n \in 0 .. Len(s), NEW t \in Seq(HandlerSteps),
         Len(t) = Len(s) - n, \A k \in 1 .. Len(t) : t[k] = s[k + n]
  PROVE  /\ \A j \in 1 .. Len(t) + 1 : Closes(s, j + n) => Closes(t, j)
         /\ InOrder(s) => InOrder(t)
<1>1. Len(s) \in Nat /\ Len(t) \in Nat /\ n \in Nat
  OBVIOUS
<1>2. ASSUME NEW j \in 1 .. Len(t) + 1, Closes(s, j + n) PROVE Closes(t, j)
  <2>1. PICK k \in j + n .. Len(s) :
          s[k] = "end" /\ \A i \in j + n .. k : s[i] # "begin"
    BY <1>2 DEF Closes
  <2>2. k - n \in j .. Len(t) /\ t[k - n] = "end"
    BY <1>1, <2>1
  <2>3. \A i \in j .. k - n : t[i] # "begin"
    <3> SUFFICES ASSUME NEW i \in j .. k - n PROVE t[i] # "begin"
      OBVIOUS
    <3>1. i + n \in j + n .. k /\ i \in 1 .. Len(t)
      BY <1>1, <2>1
    <3> QED
      BY <2>1, <3>1
  <2> QED
    BY <2>2, <2>3 DEF Closes
<1>3. ASSUME InOrder(s) PROVE InOrder(t)
  <2> SUFFICES ASSUME NEW j \in 1 .. Len(t), t[j] = "begin" PROVE Closes(t, j + 1)
    BY DEF InOrder
  <2>1. j + n \in 1 .. Len(s) /\ s[j + n] = "begin"
    BY <1>1
  <2>2. Closes(s, (j + n) + 1)
    BY <1>3, <2>1 DEF InOrder
  <2>3. (j + n) + 1 = (j + 1) + n /\ j + 1 \in 1 .. Len(t) + 1
    BY <1>1
  <2> QED
    BY <1>2, <2>2, <2>3
<1> QED
  BY <1>2, <1>3

\* A request in a transaction has its end before it.
LEMMA EndAhead ==
  ASSUME PoolInv, NEW r \in Requests, inTx[r]
  PROVE  /\ todo[r] # <<>>
         /\ ~At(r, "begin")
         /\ ~At(r, "end") => Closes(todo[r], 2)
<1> USE DEF PoolInv, WeakTypes
<1>1. todo[r] \in Seq(HandlerSteps) /\ Len(todo[r]) \in Nat
  OBVIOUS
<1>2. PICK k \in 1 .. Len(todo[r]) :
        todo[r][k] = "end" /\ \A i \in 1 .. k : todo[r][i] # "begin"
  BY DEF HandlersOK, HandlerOK, Closes
<1>3. todo[r] # <<>>
  BY <1>1, <1>2
<1>4. Head(todo[r]) = todo[r][1] /\ todo[r][1] # "begin"
  BY <1>1, <1>2, <1>3, TailFacts
<1>5. ASSUME ~At(r, "end") PROVE Closes(todo[r], 2)
  <2>1. k # 1
    BY <1>2, <1>3, <1>4, <1>5 DEF At
  <2>2. k \in 2 .. Len(todo[r]) /\ \A i \in 2 .. k : i \in 1 .. k
    BY <1>1, <2>1
  <2> QED
    BY <1>2, <2>2 DEF Closes
<1> QED
  BY <1>3, <1>4, <1>5 DEF At

LEMMA HomePool == \A r \in Requests : Home[r] \in Pools
BY DEF Pools

one(held) == IF held THEN 1 ELSE 0

\* Request r then holds a connection for a transaction if t, for a look-up
\* if l, and the turns of its pool follow.
Holds(r, t, l) ==
  /\ \A q \in Requests : /\ inTx'[q] = IF q = r THEN t ELSE inTx[q]
                        /\ reading'[q] = IF q = r THEN l ELSE reading[q]
  /\ \A p \in Pools : turns'[p] =
       IF p = Home[r] THEN turns[p] + one(t) - one(inTx[r]) + one(l) - one(reading[r])
                      ELSE turns[p]

\* What a request does to the accounts of its own pool, and to no other.
LEMMA Accounts ==
  ASSUME PoolInv, NEW r \in Requests, NEW t \in BOOLEAN, NEW l \in BOOLEAN, Holds(r, t, l)
  PROVE  PoolAccounts'
<1> USE DEF Holds, one
<1> USE DEF PoolInv, WeakTypes
<1> SUFFICES ASSUME NEW p \in Pools
             PROVE turns'[p] = Cardinality(OpenIn(p)') + Cardinality(ReadingIn(p)')
  BY DEF PoolAccounts
<1>1. turns[p] = Cardinality(OpenIn(p)) + Cardinality(ReadingIn(p))
  BY DEF PoolAccounts
<1>2. /\ OpenIn(p) \in SUBSET Requests /\ ReadingIn(p) \in SUBSET Requests
      /\ Cardinality(OpenIn(p)) \in Int /\ Cardinality(ReadingIn(p)) \in Int
  <2>1. OpenIn(p) \in SUBSET Requests /\ ReadingIn(p) \in SUBSET Requests
    BY DEF OpenIn, ReadingIn
  <2> QED
    BY <2>1, Finite
<1>3. CASE p # Home[r]
  <2>1. OpenIn(p)' = OpenIn(p) /\ ReadingIn(p)' = ReadingIn(p)
    BY <1>3 DEF OpenIn, ReadingIn
  <2>2. turns'[p] = turns[p]
    BY <1>3
  <2> QED
    BY <1>1, <2>1, <2>2
<1>4. CASE p = Home[r]
  <2>1. Cardinality(OpenIn(p)') = Cardinality(OpenIn(p)) + one(t) - one(inTx[r])
    <3>1. CASE t /\ ~inTx[r]
      <4>1. OpenIn(p)' = OpenIn(p) \union {r} /\ r \notin OpenIn(p)
        BY <1>4, <3>1 DEF OpenIn
      <4>2. Cardinality(OpenIn(p)') = Cardinality(OpenIn(p)) + 1
        BY <4>1, <1>2, CountAdd
      <4> QED
        BY <4>2, <3>1, <1>2
    <3>2. CASE ~t /\ inTx[r]
      <4>1. OpenIn(p)' = OpenIn(p) \ {r} /\ r \in OpenIn(p)
        BY <1>4, <3>2 DEF OpenIn
      <4>2. Cardinality(OpenIn(p)') = Cardinality(OpenIn(p)) - 1
        BY <4>1, <1>2, CountRemove
      <4> QED
        BY <4>2, <3>2, <1>2
    <3>3. CASE t = inTx[r]
      <4>1. OpenIn(p)' = OpenIn(p)
        BY <3>3 DEF OpenIn
      <4> QED
        BY <4>1, <3>3, <1>2
    <3> QED
      BY <3>1, <3>2, <3>3
  <2>2. Cardinality(ReadingIn(p)') = Cardinality(ReadingIn(p)) + one(l) - one(reading[r])
    <3>1. CASE l /\ ~reading[r]
      <4>1. ReadingIn(p)' = ReadingIn(p) \union {r} /\ r \notin ReadingIn(p)
        BY <1>4, <3>1 DEF ReadingIn
      <4>2. Cardinality(ReadingIn(p)') = Cardinality(ReadingIn(p)) + 1
        BY <4>1, <1>2, CountAdd
      <4> QED
        BY <4>2, <3>1, <1>2
    <3>2. CASE ~l /\ reading[r]
      <4>1. ReadingIn(p)' = ReadingIn(p) \ {r} /\ r \in ReadingIn(p)
        BY <1>4, <3>2 DEF ReadingIn
      <4>2. Cardinality(ReadingIn(p)') = Cardinality(ReadingIn(p)) - 1
        BY <4>1, <1>2, CountRemove
      <4> QED
        BY <4>2, <3>2, <1>2
    <3>3. CASE l = reading[r]
      <4>1. ReadingIn(p)' = ReadingIn(p)
        BY <3>3 DEF ReadingIn
      <4> QED
        BY <4>1, <3>3, <1>2
    <3> QED
      BY <3>1, <3>2, <3>3
  <2>3. turns'[p] = turns[p] + one(t) - one(inTx[r]) + one(l) - one(reading[r])
    BY <1>4
  <2> QED
    BY <1>1, <1>2, <2>1, <2>2, <2>3
<1> QED
  BY <1>3, <1>4

LEMMA AccountsKept ==
  ASSUME PoolAccounts, UNCHANGED <<inTx, reading, turns>>
  PROVE  PoolAccounts'
BY DEF PoolAccounts, OpenIn, ReadingIn

LEMMA PoolInitInv == PoolInit => PoolInv
<1> SUFFICES ASSUME PoolInit PROVE PoolInv
  OBVIOUS
<1>1. WeakTypes
  BY PoolAssumption DEF PoolInit, WeakTypes
<1>2. HandlersOK
  BY DEF PoolInit, HandlersOK, HandlerOK, InOrder
<1>3. ASSUME NEW p \in Pools PROVE OpenIn(p) = {} /\ ReadingIn(p) = {} /\ turns[p] = 0
  BY <1>3 DEF PoolInit, OpenIn, ReadingIn
<1>4. PoolAccounts
  BY <1>3, FS_EmptySet DEF PoolAccounts
<1> QED
  BY <1>1, <1>2, <1>4 DEF PoolInv

LEMMA ArriveStep == ASSUME PoolInv, NEW r \in Requests, Arrive(r) PROVE PoolInv'
<1> USE DEF PoolInv, WeakTypes, Arrive
<1> PICK h \in Routes : todo' = [todo EXCEPT ![r] = h]
  OBVIOUS
<1>1. h \in Seq(HandlerSteps) /\ h # <<>> /\ InOrder(h)
  BY PoolAssumption, HandlerTypes
<1>2. WeakTypes'
  BY <1>1
<1>3. ~inTx[r] /\ ~reading[r]
  BY EndAhead DEF HandlersOK, HandlerOK, Idle, At, AtLookup
<1>4. HandlersOK'
  <2> SUFFICES ASSUME NEW q \in Requests PROVE HandlerOK(q)'
    BY DEF HandlersOK
  <2>1. CASE q = r
    BY <2>1, <1>1, <1>3 DEF HandlerOK
  <2>2. CASE q # r
    BY <2>2 DEF HandlersOK, HandlerOK, At, AtLookup
  <2> QED
    BY <2>1, <2>2
<1> QED
  BY <1>2, <1>4, AccountsKept

\* A request that goes on to its next step leaves its handler in order.
LEMMA NextStepOK ==
  ASSUME PoolInv, NEW r \in Requests, todo[r] # <<>>, NextStep(r),
         inTx'[r] => At(r, "begin") \/ (inTx[r] /\ ~At(r, "end")),
         ~reading'[r],
         \A q \in Requests \ {r} : inTx'[q] = inTx[q] /\ reading'[q] = reading[q]
  PROVE  todo' \in [Requests -> Seq(HandlerSteps)] /\ HandlersOK'
<1> USE DEF PoolInv, WeakTypes
<1>1. todo' = [todo EXCEPT ![r] = Tail(todo[r])]
  BY DEF NextStep
<1> DEFINE s == todo[r]
           t == Tail(todo[r])
<1>2. /\ t \in Seq(HandlerSteps)
      /\ Len(s) \in Nat /\ Len(s) >= 1
      /\ Len(t) = Len(s) - 1
      /\ \A k \in 1 .. Len(t) : t[k] = s[k + 1]
      /\ Head(s) = s[1]
  BY TailFacts
<1>3. todo' \in [Requests -> Seq(HandlerSteps)] /\ todo'[r] = t
  BY <1>1, <1>2
<1>4. (Closes(s, 2) => Closes(t, 1)) /\ InOrder(t)
  <2>1. InOrder(s)
    BY DEF HandlersOK, HandlerOK
  <2>2. s \in Seq(HandlerSteps) /\ 1 \in 0 .. Len(s) /\ 1 \in 1 .. Len(t) + 1
    BY <1>2
  <2> HIDE DEF s, t
  <2>3. Closes(s, 1 + 1) => Closes(t, 1)
    BY <1>2, <2>2, Rest
  <2> QED
    BY <1>2, <2>1, <2>2, <2>3, Rest
<1>5. ASSUME inTx'[r] PROVE Closes(s, 2)
  <2>1. CASE At(r, "begin")
    <3>1. s[1] = "begin" /\ 1 \in 1 .. Len(s)
      BY <2>1, <1>2 DEF At
    <3>2. Closes(s, 1 + 1)
      BY <3>1 DEF HandlersOK, HandlerOK, InOrder
    <3> QED
      BY <3>2
  <2>2. CASE inTx[r] /\ ~At(r, "end")
    BY <2>2, EndAhead
  <2> QED
    BY <1>5, <2>1, <2>2
<1>6. HandlerOK(r)'
  BY <1>3, <1>4, <1>5 DEF HandlerOK
<1>7. ASSUME NEW q \in Requests, q # r PROVE HandlerOK(q)'
  <2>1. todo'[q] = todo[q] /\ inTx'[q] = inTx[q] /\ reading'[q] = reading[q]
    BY <1>1, <1>7
  <2> QED
    BY <2>1 DEF HandlersOK, HandlerOK, At, AtLookup
<1> QED
  BY <1>3, <1>6, <1>7 DEF HandlersOK

LEMMA BeginStep == ASSUME PoolInv, NEW r \in Requests, Begin(r) PROVE PoolInv'
<1> USE HomePool DEF PoolInv, WeakTypes, Begin, TakeTurn, HasTurn
<1>1. ~inTx[r] /\ ~reading[r]
  BY EndAhead DEF HandlersOK, HandlerOK, At, AtLookup
<1>3. todo' \in [Requests -> Seq(HandlerSteps)] /\ HandlersOK'
  BY <1>1, NextStepOK DEF At
<1>4. PoolAccounts'
  <2>1. inTx[r] = FALSE /\ reading[r] = FALSE
    BY <1>1
  <2>2. \A p \in Pools : turns'[p] = IF p = Home[r] THEN turns[p] + 1 ELSE turns[p]
    OBVIOUS
  <2>3. \A q \in Requests : /\ inTx'[q] = IF q = r THEN TRUE ELSE inTx[q]
                            /\ reading'[q] = IF q = r THEN FALSE ELSE reading[q]
    BY <2>1
  <2>4. PICK t \in BOOLEAN : t = TRUE
    OBVIOUS
  <2>5. PICK l \in BOOLEAN : l = FALSE
    OBVIOUS
  <2>6. /\ one(t) = 1 /\ one(inTx[r]) = 0
        /\ one(l) = 0 /\ one(reading[r]) = 0
    BY <2>1, <2>4, <2>5 DEF one
  <2>7. \A p \in Pools : turns'[p] =
          IF p = Home[r] THEN turns[p] + one(t) - one(inTx[r]) + one(l) - one(reading[r])
                         ELSE turns[p]
    BY <2>2, <2>6
  <2>8. \A q \in Requests : /\ inTx'[q] = IF q = r THEN t ELSE inTx[q]
                            /\ reading'[q] = IF q = r THEN l ELSE reading[q]
    BY <2>3, <2>4, <2>5
  <2>9. Holds(r, t, l)
    BY <2>7, <2>8 DEF Holds
  <2> QED
    BY <2>9, Accounts
<1>5. turns[Home[r]] + 1 <= PoolSize
  BY PoolAssumption
<1>6. turns' \in [Pools -> Int] /\ \A p \in Pools : turns'[p] <= PoolSize
  BY <1>5
<1> QED
  BY <1>3, <1>4, <1>6

LEMMA LookupStep == ASSUME PoolInv, NEW r \in Requests, Lookup(r) PROVE PoolInv'
<1> USE HomePool DEF PoolInv, WeakTypes, Lookup, TakeTurn, HasTurn
<1>1. PoolAccounts'
  <2>1. Holds(r, inTx[r], TRUE)
    BY DEF Holds, one
  <2> QED
    BY <2>1, Accounts
<1>2. HandlersOK'
  BY DEF HandlersOK, HandlerOK, At, AtLookup
<1>3. turns[Home[r]] + 1 <= PoolSize
  BY PoolAssumption
<1>4. turns' \in [Pools -> Int] /\ \A p \in Pools : turns'[p] <= PoolSize
  BY <1>3
<1> QED
  BY <1>1, <1>2, <1>4

LEMMA LookedUpStep == ASSUME PoolInv, NEW r \in Requests, LookedUp(r) PROVE PoolInv'
<1> USE HomePool DEF PoolInv, WeakTypes, LookedUp, FreeTurns
<1>1. AtLookup(r)
  BY DEF HandlersOK, HandlerOK
<1>3. todo' \in [Requests -> Seq(HandlerSteps)] /\ HandlersOK'
  BY <1>1, NextStepOK DEF At, AtLookup
<1>4. PoolAccounts'
  <2>1. Holds(r, inTx[r], FALSE)
    BY DEF Holds, one
  <2> QED
    BY <2>1, Accounts
<1>5. turns' \in [Pools -> Int] /\ \A p \in Pools : turns'[p] <= PoolSize
  BY PoolAssumption
<1> QED
  BY <1>3, <1>4, <1>5

LEMMA WriteStep == ASSUME PoolInv, NEW r \in Requests, Write(r) PROVE PoolInv'
<1> USE DEF PoolInv, WeakTypes, Write
<1>1. ~reading[r]
  BY DEF HandlersOK, HandlerOK, At, AtLookup
<1>2. todo' \in [Requests -> Seq(HandlerSteps)] /\ HandlersOK'
  BY <1>1, NextStepOK DEF At
<1> QED
  BY <1>2, AccountsKept

LEMMA PassOverStep ==
  ASSUME PoolInv, NEW r \in Requests, WaitsForTurn(r), At(r, "optional"), PassOver(r)
  PROVE  PoolInv'
<1> USE DEF PoolInv, WeakTypes, PassOver
<1>1. ~reading[r]
  BY DEF WaitsForTurn, At
<1>2. todo' \in [Requests -> Seq(HandlerSteps)] /\ HandlersOK'
  BY <1>1, NextStepOK DEF At
<1> QED
  BY <1>2, AccountsKept

LEMMA LeaveStep ==
  ASSUME PoolInv, NEW r \in Requests, NEW rest \in Seq(HandlerSteps), InOrder(rest),
         Leave(r, rest)
  PROVE  PoolInv'
<1> USE HomePool DEF PoolInv, WeakTypes, Leave, FreeTurns, Unlock
<1>1. Held(r) \in 0 .. 2
  BY DEF Held
<1>2. PoolAccounts'
  <2>1. Holds(r, FALSE, FALSE)
    BY DEF Holds, one, Held
  <2> QED
    BY <2>1, Accounts
<1>3. HandlersOK'
  <2> SUFFICES ASSUME NEW q \in Requests PROVE HandlerOK(q)'
    BY DEF HandlersOK
  <2>1. CASE q = r
    BY <2>1 DEF HandlerOK
  <2>2. CASE q # r
    BY <2>2 DEF HandlersOK, HandlerOK, At, AtLookup
  <2> QED
    BY <2>1, <2>2
<1>4. turns' \in [Pools -> Int] /\ \A p \in Pools : turns'[p] <= PoolSize
  BY <1>1, PoolAssumption
<1>5. todo' \in [Requests -> Seq(HandlerSteps)]
  OBVIOUS
<1> QED
  BY <1>2, <1>3, <1>4, <1>5

\* What an end or an error leaves of a handler is in order.
LEMMA RestInOrder ==
  ASSUME PoolInv, NEW r \in Requests, NEW k \in 1 .. Len(todo[r])
  PROVE  /\ SubSeq(todo[r], k + 1, Len(todo[r])) \in Seq(HandlerSteps)
         /\ InOrder(SubSeq(todo[r], k + 1, Len(todo[r])))
<1> DEFINE s == todo[r]
           t == SubSeq(todo[r], k + 1, Len(todo[r]))
<1>1. s \in Seq(HandlerSteps) /\ InOrder(s) /\ Len(s) \in Nat /\ k \in 0 .. Len(s)
  BY DEF PoolInv, WeakTypes, HandlersOK, HandlerOK
<1>2. /\ t \in Seq(HandlerSteps)
      /\ Len(t) = Len(s) - k
      /\ \A i \in 1 .. Len(t) : t[i] = s[i + k]
  <2>1. \A i \in k + 1 .. Len(s) : s[i] \in HandlerSteps
    BY <1>1, ElementTypes
  <2>2. /\ t \in Seq(HandlerSteps)
        /\ Len(t) = IF k + 1 <= Len(s) THEN Len(s) - (k + 1) + 1 ELSE 0
        /\ \A i \in 1 .. Len(s) - (k + 1) + 1 : t[i] = s[(k + 1) + i - 1]
    BY <1>1, <2>1, SubSeqProperties
  <2> HIDE DEF s, t
  <2>3. Len(t) = Len(s) - k /\ Len(s) - (k + 1) + 1 = Len(s) - k
    BY <1>1, <2>2
  <2>4. \A i \in 1 .. Len(t) : (k + 1) + i - 1 = i + k
    BY <1>1
  <2> QED
    BY <2>2, <2>3, <2>4
<1> HIDE DEF s, t
<1>3. InOrder(t)
  BY <1>1, <1>2, Rest
<1> QED
  BY <1>2, <1>3 DEF t

LEMMA EndStep == ASSUME PoolInv, NEW r \in Requests, End(r) PROVE PoolInv'
<1> DEFINE s == todo[r]
           t == Tail(todo[r])
<1>1. s \in Seq(HandlerSteps) /\ InOrder(s) /\ s # <<>>
  BY DEF PoolInv, WeakTypes, HandlersOK, HandlerOK, End, At
<1>2. /\ t \in Seq(HandlerSteps)
      /\ Len(s) \in Nat /\ 1 \in 0 .. Len(s)
      /\ Len(t) = Len(s) - 1
      /\ \A k \in 1 .. Len(t) : t[k] = s[k + 1]
  BY <1>1, TailFacts
<1> HIDE DEF s, t
<1>3. InOrder(t)
  BY <1>1, <1>2, Rest
<1> QED
  BY <1>2, <1>3, LeaveStep DEF End, t

LEMMA GiveUpStep == ASSUME PoolInv, NEW r \in Requests, GiveUp(r) PROVE PoolInv'
<1>1. ASSUME NEW k \in EndOf(todo[r]), Leave(r, SubSeq(todo[r], k + 1, Len(todo[r])))
      PROVE  PoolInv'
  <2>1. k \in 1 .. Len(todo[r])
    BY DEF EndOf
  <2> QED
    BY <1>1, <2>1, RestInOrder, LeaveStep
<1>2. CASE Leave(r, <<>>)
  <2>1. <<>> \in Seq(HandlerSteps) /\ InOrder(<<>>)
    BY DEF InOrder
  <2> QED
    BY <1>2, <2>1, LeaveStep
<1> QED
  BY <1>1, <1>2 DEF GiveUp

LEMMA AbandonStep == ASSUME PoolInv, NEW p \in Pools, Abandon(p) PROVE PoolInv'
<1> USE DEF PoolInv, WeakTypes, Abandon
<1>1. WeakTypes'
  BY PoolAssumption
<1>2. HandlersOK'
  <2> SUFFICES ASSUME NEW q \in Requests PROVE HandlerOK(q)'
    BY DEF HandlersOK
  <2>1. CASE Home[q] = p
    <3>1. todo'[q] = <<>> /\ ~inTx'[q] /\ ~reading'[q]
      BY <2>1
    <3> QED
      BY <3>1 DEF HandlerOK, InOrder
  <2>2. CASE Home[q] # p
    <3>1. todo'[q] = todo[q] /\ inTx'[q] = inTx[q] /\ reading'[q] = reading[q]
      BY <2>2
    <3> QED
      BY <3>1 DEF HandlersOK, HandlerOK, At, AtLookup
  <2> QED
    BY <2>1, <2>2
<1>3. ASSUME NEW q \in Pools
      PROVE turns'[q] = Cardinality(OpenIn(q)') + Cardinality(ReadingIn(q)')
  <2>1. CASE q = p
    <3>1. OpenIn(q)' = {} /\ ReadingIn(q)' = {}
      BY <2>1 DEF OpenIn, ReadingIn
    <3> QED
      BY <2>1, <3>1, FS_EmptySet
  <2>2. CASE q # p
    <3>1. OpenIn(q)' = OpenIn(q) /\ ReadingIn(q)' = ReadingIn(q)
      BY <2>2 DEF OpenIn, ReadingIn
    <3> QED
      BY <2>2, <3>1 DEF PoolAccounts
  <2> QED
    BY <2>1, <2>2
<1> QED
  BY <1>1, <1>2, <1>3 DEF PoolAccounts

LEMMA PoolStepInv == PoolInv /\ [PoolNext]_poolVars => PoolInv'
<1> SUFFICES ASSUME PoolInv, [PoolNext]_poolVars PROVE PoolInv'
  OBVIOUS
<1>1. ASSUME NEW r \in Requests, Arrive(r) \/ Proceed(r) PROVE PoolInv'
  BY <1>1, ArriveStep, BeginStep, LookupStep, LookedUpStep, WriteStep, EndStep,
     PassOverStep, GiveUpStep DEF Proceed, WaitTurn, GetTurn, PoolTimeout, Fail
<1>2. ASSUME NEW p \in Pools, Abandon(p) PROVE PoolInv'
  BY <1>2, AbandonStep
<1>3. CASE UNCHANGED poolVars
  BY <1>3 DEF poolVars, PoolInv, WeakTypes, HandlersOK, HandlerOK, At, AtLookup,
     PoolAccounts, OpenIn, ReadingIn
<1> QED
  BY <1>1, <1>2, <1>3 DEF PoolNext

\* Turns and connections held always balance, whatever fails, times out or
\* ends on the way (waitTurn, Put and Remove of the pool, Rollback).
THEOREM PoolBalances == PoolSpec => []PoolAccounts
<1>1. PoolInv => PoolAccounts
  BY DEF PoolInv
<1> QED
  BY <1>1, PoolInitInv, PoolStepInv, PTL DEF PoolSpec

LEMMA PoolTypesFollow == PoolInv => PoolTypeOK
<1> SUFFICES ASSUME PoolInv PROVE PoolTypeOK
  OBVIOUS
<1>1. ASSUME NEW p \in Pools PROVE turns[p] >= 0
  <2>1. OpenIn(p) \in SUBSET Requests /\ ReadingIn(p) \in SUBSET Requests
    BY DEF OpenIn, ReadingIn
  <2> QED
    BY <2>1, Finite DEF PoolInv, PoolAccounts
<1> QED
  BY <1>1, PoolAssumption DEF PoolInv, WeakTypes, PoolTypeOK

\* With fewer requests in progress than connections, a request that waits for
\* the pool has only look-ups to wait for: nested use of s.db inside a
\* transaction cannot lock the pool up.
LEMMA BelowPoolSize == PoolInv => NoGridlockBelowPoolSize
<1> SUFFICES ASSUME PoolInv, NEW r \in Requests, ~HasTurn(r),
                    Cardinality(ServedBy(Home[r])) < PoolSize
             PROVE ReadingIn(Home[r]) # {}
  BY DEF NoGridlockBelowPoolSize
<1> DEFINE p == Home[r]
<1>1. /\ OpenIn(p) \subseteq ServedBy(p)
      /\ ServedBy(p) \in SUBSET Requests /\ OpenIn(p) \in SUBSET Requests
      /\ ReadingIn(p) \in SUBSET Requests
  BY EndAhead DEF OpenIn, ServedBy, ReadingIn, Idle, PoolInv, WeakTypes
<1>2. /\ Cardinality(OpenIn(p)) <= Cardinality(ServedBy(p))
      /\ Cardinality(OpenIn(p)) \in Nat /\ Cardinality(ServedBy(p)) \in Nat
      /\ Cardinality(ReadingIn(p)) \in Nat
  BY <1>1, Finite, FS_Subset
<1>3. turns[p] >= PoolSize
  BY HomePool, PoolAssumption DEF HasTurn, PoolInv, WeakTypes
<1>4. turns[p] = Cardinality(OpenIn(p)) + Cardinality(ReadingIn(p))
  BY HomePool DEF PoolInv, PoolAccounts
<1>5. Cardinality(ReadingIn(p)) # 0
  BY <1>2, <1>3, <1>4, PoolAssumption
<1> QED
  BY <1>5, FS_EmptySet

(* With fewer requests than connections, a request that waits for the     *)
(* pool waits for a look-up in progress, which ends (s.db used inside      *)
(* Transactional takes a second connection).                               *)
THEOREM NestedLookupsEnd == PoolSpec => []NoGridlockBelowPoolSize
BY BelowPoolSize, PoolInitInv, PoolStepInv, PTL DEF PoolSpec

-----------------------------------------------------------------------------
(* The service.                                                            *)

LEMMA StepOfLife == [Next]_vars => [LifeNext]_lifeVars
<1> SUFFICES ASSUME [Next]_vars PROVE [LifeNext]_lifeVars
  OBVIOUS
<1>1. CASE UNCHANGED vars
  BY <1>1 DEF vars
<1>2. ASSUME NEW r \in Requests, Accept(r) \/ Work(r) PROVE UNCHANGED lifeVars
  BY <1>2 DEF Accept, Work
<1>3. ASSUME NEW i \in Instances, Live(i) \/ EndProcess(i) PROVE LifeNext
  BY <1>3 DEF Live, EndProcess, LifeNext
<1> QED
  BY <1>1, <1>2, <1>3 DEF Next

LEMMA StepOfPool == [Next]_vars => [PoolNext]_poolVars
<1> SUFFICES ASSUME [Next]_vars PROVE [PoolNext]_poolVars
  OBVIOUS
<1>1. CASE UNCHANGED vars
  BY <1>1 DEF vars
<1>2. ASSUME NEW r \in Requests, Accept(r) \/ Work(r) PROVE PoolNext
  BY <1>2 DEF Accept, Work, PoolNext
<1>3. ASSUME NEW i \in Instances, Live(i) PROVE UNCHANGED poolVars
  BY <1>3 DEF Live
<1>4. ASSUME NEW i \in Instances, EndProcess(i) PROVE [PoolNext]_poolVars
  BY <1>4 DEF EndProcess, LoseRequests, PoolNext
<1> QED
  BY <1>1, <1>2, <1>3, <1>4 DEF Next

LEMMA ImplementsLife == Spec => LifeSpec
BY StepOfLife, PTL DEF Spec, LifeSpec, Init

LEMMA ImplementsPool == Spec => PoolSpec
BY StepOfPool, PTL DEF Spec, PoolSpec, Init

LEMMA PoolInvHolds == PoolSpec => []PoolInv
BY PoolInitInv, PoolStepInv, PTL DEF PoolSpec

\* The variables keep their types; no pool gives out more turns than it has.
THEOREM ServiceTypes == Spec => []TypeOK
<1>1. LifeInv => LifeTypeOK
  BY DEF LifeInv
<1>2. LifeTypeOK /\ PoolTypeOK => TypeOK
  BY DEF TypeOK
<1> QED
  BY <1>1, <1>2, ImplementsLife, ImplementsPool, LifeSafe, PoolInvHolds, PoolTypesFollow, PTL

\* A process that serves requests has the whole schema in the database, for
\* any script of migrations and any number of instances running it at once
\* (RunMigrations and SetVersion of go-pg/migrations, Connect).
THEOREM ServesOnCompleteSchema == Spec => []ServesComplete
<1>1. LifeInv => ServesComplete
  BY DEF LifeInv
<1> QED
  BY <1>1, ImplementsLife, LifeSafe, PTL

\* The turns taken of a pool are the connections its requests hold (waitTurn,
\* Put and Remove of the pool, the end of a transaction, of a process).
THEOREM TurnsBalance == Spec => []PoolAccounts
BY ImplementsPool, PoolBalances, PTL

\* With fewer requests than connections no transaction waits for others that
\* wait as well (s.db used inside Transactional).
THEOREM NoGridlock == Spec => []NoGridlockBelowPoolSize
BY ImplementsPool, NestedLookupsEnd, PTL

\* Replicas are stuck only by the step in which one dies, or records an older
\* version than the one in the table: refusals, restarts and races do not get
\* them stuck.  It is so for two replicas and any script that makes each object
\* once and ends with a record, and for any number of replicas and a script
\* that guards its records, as that of the repository does.  With three and
\* another script it need not be: one that is refused IF NOT EXISTS may be the
\* last that could record what a dead one left.
THEOREM StuckByDeathOrOlderVersion ==
  ASSUME AtMostTwo \/ RecordsGuarded, MadeOnce, EndsWithRecord
  PROVE  Spec => WedgedByDeathOrOlderVersion
BY ImplementsLife, LifeWedges, PTL
=============================================================================
