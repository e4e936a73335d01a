# A TLA+ model of the permissions service

The service keeps two tables in PostgreSQL, `namespaces` and `permissions`, and
makes the other services of the platform follow them: kube holds a quota for
each namespace, billing a subscription, the volume, resource and solutions
services their own objects, and the auth service the list of namespaces each
user may use. This directory models its handlers, the statements they run, the
transactions they run them in and the calls they make, checks small instances
with TLC and proves some of the properties for every instance with TLAPS.

## The system

| Part | State it keeps | Operations | Hard behaviour |
|---|---|---|---|
| Access levels (`kube-client` model, migration 4) | none | parse, compare, limit | three spellings of a level; the order is the database's |
| `permissions` table (`pkg/database/postgres/access.go`, `pkg/model/permission.go`) | one row per user and namespace: level granted (`initial`), level in force (`current`), group | grant one, grant a list, limit all of an owner's namespaces, revoke, remove a group | a count before an insert; statements that wait for rows and look at them again |
| Access handlers (`pkg/server/access.go`) | none of their own | `SetNamespaceAccess`, `DeleteNamespaceAccess`, `SetUserAccesses` | look-ups outside the transaction, a push to auth before the commit |
| Group handlers (`pkg/server/namespace.go` 559-701) | none | `AddGroupNamespace`, `SetGroupMemberNamespaceAccess`, `DeleteGroupFromNamespace` | one transaction per owner member, then one for the rest; pushes read outside the transaction |
| `namespaces` table (`pkg/database/postgres/namespace.go`, `pkg/model/namespace.go`, `resource.go`) | owner, label, tariff, quota, deleted flag | create (by tariff, by an admin, by import), rename, resize (by tariff, by an admin), delete one, delete all | rows written from stale copies; label uniqueness |
| Namespace handlers (`pkg/server/namespace.go` 49-557) | none | the same, with calls to five services inside the transaction | a call fails after others took effect; nothing compensates |
| Transactions (`pkg/database/postgres/db.go`) | the open transactions | run, commit, roll back | READ COMMITTED, row locks held to the end |
| Clients (`pkg/clients`) | what each other service holds | one HTTP or gRPC call each | the answer may be lost |
| Projects (`pkg/server/project.go`, `postgres/project.go`) | table `projects`, `project_id` of namespaces | create, add group or member, set member access, read groups, remove group | a count before an insert; statements whose aliases do not fit |
| Connection pool (`go-pg`, from `postgres/db.go`) | turns taken, connections open | take a turn for a transaction or a look-up, give it back, wait up to thirty seconds | a transaction that needs a second connection |
| Migrations, start, shutdown (`postgres/migrations`, `cmd/permissions`) | schema, recorded versions, phase of the process | read the version, run what is pending, set up clients, listen, drain, end | several replicas migrate at once; a death between a statement and its version |
| Filters, pagination, read handlers | none | conditions of a list, bounds of a page | conditions composed from parts |
| Router (`pkg/router`) | none | routes, admin guard, headers | - |

Requests are concurrent goroutines; what they share is the database, the other
services and the pool of connections of their process. Nothing else is locked,
queued or cached in the process. The replicas share the database.

What makes each part correct: a live namespace has one owner row, that of its
owner; a level in force never exceeds the level granted; a limit holds on every
row it found; a deletion is done once, on a live namespace, and leaves nothing
behind in any service; auth holds what the tables say; kube and billing hold
what the row says; labels are unique per owner; the committed tables only ever
change by whole operations; and every request ends. A process serves only on the whole
schema, loses no connection of its pool, and comes up when it can.

## Modules

`AccessLevels` - the five levels as ranks of the enum, which levels the
database can store (`Storable` compares the Go constants with the enum's
labels), and `LimitedLevel`, the CASE of `SetUserAccesses`.

`PermissionTable` - the rows and what each statement does to one of them:
`GrantedRow` (`setResourceAccess`), `ListedRow` (`setResourceAccesses`),
`LimitedRow`, `Deletable`, `OwnersOf` (the count of `BeforeInsert`), `Visible`
(the condition of `NamespaceByName`), `UserAccesses` (the list for auth).

`PermissionStore` - the abstract specification: `perm` and `ns` change by one
whole operation at a time applied to the rows as they are.

`PermissionServer` - the ten operations that change permissions, as concurrent
requests; the rename of a namespace is one of them, because of what it does to
one that has been deleted. A *slot* is a goroutine with its transaction. `perm` and `ns` are the
committed tables; `pend[s]` and `nsPend[s]` the rows the transaction of slot s
has written. A row present there is locked against the others; `PermView` and
`NsView` are what a statement of the transaction reads. `pc[s]` names the next
step, one per statement or call, and the other variables are the locals of the
handler: `grants` the levels about to be written, `nss` the namespaces found
for deletion and then those whose permissions are still to be removed, `targets`
the rows the current statement found, `users`, `user`
and `list` the lists still to be sent to auth.

| Action | Code |
|---|---|
| `Begin` | a route calls its handler |
| `Lookup`, `LookupRefused` | `NamespaceByName`, `OwnerCheck`, the check of the target |
| `CountOwners`, `OwnerExists` | the count in `Permission.BeforeInsert` and its error |
| `Upsert`, `UpsertList`, `Unstorable` | the two INSERT ... ON CONFLICT statements, and their failure on a level the enum does not know |
| `PickMember`, `CommitMember`, `NoMoreOwners`, `MemberFails` | the loop of `AddGroupNamespace` |
| `InsertNamespace`, `CreateRefused` | `CreateNamespace` with `Namespace.AfterInsert` |
| `ScanNamespaces`, `MarkDeleted`, `NothingToDelete` | the UPDATE that marks namespaces deleted |
| `Rename`, `RenameRefused` | `RenameNamespace`: its UPDATE finds the row by key, deleted or not; the row it returns decides whether `Resource.AfterUpdate` removes permissions |
| `Scan`, `Apply` | every statement with a condition on permissions: limit, revoke, remove a group, `Resource.AfterUpdate` |
| `External` | the calls to the other services (their effects are in `NamespaceLifecycle`) |
| `ReadAccesses`, `PushAccesses`, `PushIgnored` | `updateUserAccesses` |
| `Commit`, `Fail`, `Crash` | the end of `RunInTransaction`; any failure; the process dies |

An UPDATE or DELETE with a condition is two steps because that is how
PostgreSQL runs it at READ COMMITTED: it finds the rows that match, waits for
those another transaction has written, and changes those that still match. A
row that another transaction has deleted meanwhile is passed over, even if the
same user is granted access again before the statement goes on (`PassedOver`).
`Resource.AfterUpdate` runs its DELETE for one updated namespace after the other,
so a deletion of several takes the two steps for each (`Ranges`).

`NamespaceLifecycle` - the rows of `namespaces` with label, tariff and quota,
and what kube (`kube`), billing (`sub`) and the other services (`inside`) hold.
`AfterStep` gives the order of the steps of each handler; every statement and
every call is an action of its own, with its row lock, so that requests
interleave between any two calls and may fail after each. `ns[s]` is the
handler's Go struct, the copy that may be stale. The cpu, memory, internal
services and traffic of a quota are one `size`, since every operation treats
them alike; the external services are apart, because `ResizeNamespace` forgets
them. `NotThere` is a service that refuses a call about something it does not
have; where a service might as well accept it, both are possible. What a rename
or a deletion does to permissions is in `PermissionServer`.

`Migrations` - the statements of "up" in order, each with what it does when its
object is there already, and the record of each version.

`Startup` - the processes that share one database. A process makes sure that the
table of versions is there (`TableMissing`, `CreateTable`; the loser of two that
create it is refused, `TableRefused`), reads the version once (`ReadVersion`),
then goes from statement to statement (`Missing`,
`Create`, `Passed`, `Refused`, `Record`), sets up its clients (`Listen`,
`ClientsMissing`), drains (`Interrupt`, `Exit`) or dies anywhere (`Die`).
RunMigrations takes no lock and opens no transaction, so every statement and
every record is a step of its own, and CREATE ... IF NOT EXISTS is two, since
another session may create the object in between.

`ConnectionPool` - the turns of each process's pool. A handler is reduced to the
order in which it opens transactions, looks things up through `s.db`, writes and
ends them. `Handlers` is every well-formed order; those of the code are

| Order | Handlers |
|---|---|
| `ReadHandler(n)`: look-ups, one after the other | the lists and single namespaces (1), `GetNamespaceAccess` and `GetNamespaceGroups` (2), `GetProjectGroups` (1, and one for each namespace) |
| `WriteHandler(n)`: transactions, one after the other | what only uses `tx` (1): access levels of a user, revocation, creations, rename, an admin's resize, deletion of all, a project created or given a group; `ImportNamespaces` (one for each) |
| `LookupThenWrite` | `SetNamespaceAccess`, `ResizeNamespace`, `DeleteNamespace` |
| `WriteThenLookup` | a project's `SetGroupMemberAccess` and `AddMemberToProject` |
| `LookupsAroundWrite` | `SetGroupMemberNamespaceAccess` |
| `AddGroupHandler(n)`: a look-up, then transactions | `AddGroupNamespace` (one for each owner member, one for the others) |
| `DropGroupHandler(n)`: a write, then look-ups whose errors are only logged | `DeleteGroupFromNamespace`, `DeleteGroupFromProject` (one for each user) |

`Begin` and `Lookup` take a turn; `LookedUp`, `End`, `Fail` and `PoolTimeout` give
back; and `Write` waits for a row as long as it is locked, since no statement has
a time-out. What follows an error depends on where it occurs (`GiveUp`): outside
of a transaction it is the answer, within one the transaction ends and the
handler goes on with the next if it has one; an error of an "optional" look-up
changes nothing.

`Service` - the two composed: a request arrives at a process that serves
(`Accept`), is worked on while the process serves or drains (`Work`), and is
lost with its connections when the process ends (`EndProcess`).

`NamespaceQueries` - the SELECTs over `namespaces`: the filters and what they
select, the bounds of a page, and whether the database accepts the statement,
which is whether it names only aliases its FROM clause has (`Accepted`).

`Projects` - the project handlers as concurrent transactions, built on
`NamespaceQueries` (the look-up of a project's namespaces is refused) and on the
rows of `PermissionTable`. The steps behind the look-up are there though no
behaviour reaches them: `ProjectsGrantNothing` says so.

`MCPermissionServer`, `MCNamespaceLifecycle`, `MCService` and `MCProjects` -
small instances: the users, namespaces and the sets of requests that the runs
send.

`PermissionServerProofs`, `PermissionStoreProofs`, `AccessListProofs`,
`NamespaceLifecycleProofs`, `NamespaceLifecycleSafetyProofs`,
`NamespaceFollowsProofs`, `ServiceProofs` (with those of `Startup` and
`ConnectionPool`), `ProjectsProofs` - theorems and proofs.

The two detailed models share the table `namespaces` and divide its handlers:
`PermissionServer` has the permission rows and auth, and keeps of a namespace
only absent, live or deleted; `NamespaceLifecycle` has the row's columns and
the other services, and leaves out who may do what. Both have the same
transactions, locks, failures and crashes.

## Runs

Every variable is finite without a bound on its values; the bounds are the
requests in progress at once (`Slots`), the set of requests, users and
namespaces. Requests are sent again and again, so that sequences of any length
of the given requests are explored. Three users suffice for an owner and two
others who compete; two namespaces where an operation reaches beyond one; two
slots for every pair of concurrent requests, three where only grants run. The
theorems below cover every number of them.

| Run | Bounds | Properties | What it shows |
|---|---|---|---|
| `direct` | 2 slots, 3 users, 1 namespace, failures | `TypeOK`, `OneOwner`, `DeletesLive`, `CurrentWithinInitial`, `LimitTakesHold` | any two of grants (of owner too), a group added and removed whose own owner competes, a revocation of the owner, limits, creation, rename, deletion: one owner row, that of the owner; a namespace found live by two deletions is deleted by one; the level in force stays within the level granted; and a committed limit holds on all it found, in spite of the rows changing while it waited. `OneOwner` fails if revocation could delete any row. No group operation names the namespace's owner (`OwnersSpared`): with one that does it is not true (see `two_owners`). |
| `grants` | 3 slots, no failures | `AuthFresh` | the row lock keeps pushes in the order of commits |
| `serial` | 1 slot, 2 namespaces, failures | `NoOrphans` | every operation, whatever fails and wherever the process dies: no permission outlives its namespace. One request at a time: with two it is false, see below |
| `store` | 2 slots, every operation on a namespace that exists, fair, no failures | `ImplementsStore`, `Responds` | `PermissionServer` implements `PermissionStore` (the instance `Store`, with the committed tables); every request ends: statements that wait for rows do not wait for each other. The deletion of all is left to `serial` and to the theorem, since with one namespace it has no step that the deletion of one does not have |
| `lifecycle` | 2 slots, 3 namespaces, 2 labels, no failures | `TypeOK`, `KubeFollows`, `SubscriptionFollows`, `LabelsUnique` | creations, renames, resizes of both kinds and deletions: tables, kube and billing agree whenever nothing is in progress |
| `teardown` | 2 slots, 3 namespaces, one imported, failures | `DeletedIsTornDown` | after any sequence of failed and repeated deletions, resizes and renames, a deleted namespace has nothing left anywhere |
| `service` | 2 replicas, one without its configuration, 1 death, 2 requests of three orders, 2 connections, every version the schema may start from | `TypeOK`, `ServesComplete`, `PoolAccounts`, `WedgedByDeathOrOlderVersion`, `ComesUp`, `Answered` | migrations that race, are refused or interrupted never let a process serve on part of the schema; only two things leave the service unable to start; no connection is lost or given out twice; every request ends, also when both hold a connection and wait for one |

In `service`, two replicas are the least that race, and the one that is not
configured migrates all the same. `MaxDeaths` bounds the processes ended from
outside; refusals, interrupts and restarts are not bounded. Two requests on a
pool of two are the least that can hold all of it and want more. Their orders
are `LookupThenWrite`, with which both may, one that looks things up before its
transaction (`AddGroupHandler(1)`), and one that looks up after its write and only
logs an error (`DropGroupHandler(1)`). Longer ones, which go on with the next
transaction when one has failed, are left to the theorems: they speak of all
`Handlers`, and the assumption `OrdersOfTheCode` of `MCService` says that those of
the code are among them.

The passing runs without failures are about what concurrency alone may break:
with failures `AuthFresh`, `KubeFollows` and `SubscriptionFollows` are false,
because calls take effect before the commit and nothing takes them back.
`AuthFresh` is also false with the operations that read through `s.db`, with
concurrent grants in two namespaces, with a limit (only the owner's list is
sent) and with a revocation that finds no row; `KubeFollows` is false when a
creation overlaps `DeleteAllUserNamespaces`, and `SubscriptionFollows` when the
two resizes overlap. The hazards in `PROJECT.json` say so one by one.

Five runs end in a violation; each is a place where the code does not do what
its own documents say.

| Run | Property | Statement of the documents |
|---|---|---|
| `two_owners` | `AtMostOneOwner` | `Errors.toml`: "Resource can have only one owner" |
| `drop_group` | `OtherNamespacesKept` | `router/namespace.go`: "Delete group permissions from namespace." |
| `read_delete` | `EveryLevelStored` | `swagger-basic.yml` lists `readdelete` as a level; the code has `read-delete`, for a grant and for a member of a group |
| `admin_resize` | `AdminResizeKeepsTariff` | `model/namespace.go`: "NamespaceAdminResizeRequest contains parameter for resizing namespace without billing", and no tariff; `router/namespace.go`: "Resize namespace without billing (admin only)." That a tariff set meanwhile stays is read from these, they do not say it |
| `project_members` | `MembersAdded` | `router/project.go`: "Add permissions for user to project namespaces." |

`WedgedByDeathOrOlderVersion` names the two ways in which the migrations get
stuck for good. A process may die after a statement that cannot be repeated and
before its version is recorded; and of two replicas that read the same version,
the slower may record an older version than the one already there, after which
the statements in between are run again and refused. The code has no repair for
either.
For the script of this repository that these are the only ways is a theorem
for any number of replicas; see below for what it needs of the script.

**Fairness.** In `PermissionServer`, `FairSpec` has strong fairness of each slot's steps. A handler
runs on its own goroutine, so a step that stays possible is taken; a statement
that waits for a row is woken again and again as others take and release it,
and PostgreSQL queues the waiters of a row, so it is not passed over for ever.
Calls to other services end, since every client has a time-out of ten seconds.

In `Service`, a process that ended is started again (Kubernetes does), goes on
with its migration and leaves `Shutdown` after five seconds at the latest: weak
fairness. A request that waits for a turn gets one or times out, so weak
fairness of the two together is enough; a look-up and the end of a transaction
come to an end: weak fairness. A write waits for a row that others take and
release: strong fairness, since PostgreSQL queues the waiters. Nobody need ever
arrive, interrupt a process or fail: no fairness.

## Proofs

`TypeCorrect`: `Spec => [](TypeOK /\ LocalsOK)`. `TypeOK` alone is not
inductive: a step that indexes by the request of a slot needs the slot to have
one, which `LocalsOK` adds.

`LevelsWithinGranted`: `Spec => []CurrentWithinInitial`. The invariant speaks
of the committed rows and of those about to be committed, which makes it
inductive with the types: a commit only moves rows from the second to the
first, and each statement writes a row that satisfies it. The lemma behind it
is that `LimitedLevel` of a row within its level stays within it.

`DeletesOnce`: `Spec => []DeletesLive`. The property needs `NamespaceLocks`:
two transactions never have the same namespace written, a namespace being
created belongs to the one request with its id, and a transaction that has not
reached its first write has written nothing. With it, when one transaction
commits and changes a committed row, no other has that namespace as deleted.
A rename is the exception the property names: it may write a row that has been
deleted, and it calls no other service to take anything down.

`LimitHolds`: `Spec => LimitTakesHold`, an action property of the commit. Its
invariant `LimitInv` follows a limit from its statement to the commit: the rows
found are in `targets`, each of them is written by this transaction and at the
lower of the level granted and the limit, and no later step of the slot or of
another touches them.

`ImplementsPermissionStore`: `Spec => Store!Spec`, with the committed tables as
the abstract ones. Most steps stutter; what has to be shown is that a commit,
which copies rows written some steps earlier, is one operation on the rows as
they are when it happens. `StoreInv` has three parts for that. `TxInv` is the
plan of each operation: at each of its steps, which rows the transaction has
written and from which committed rows they are made. `RowLocks` says that two
transactions never have the same row written; so no commit of another changes
the rows a plan speaks of, and the plan stays true (`TxStays`). `AbsentInv`
and `LookedUp` say that a namespace that is not there has no rows but its
creator's, and that a request past its look-up is about one that is there, which
the operations of `PermissionStore` need. `AddGroupNamespace` maps to several
operations, a `Grant` for each owner member and a `GrantGroup`: its
transactions commit one by one and the theorem does not say more. A rename maps
to a stutter, or to the `Sweep` of what permissions its deleted namespace had:
those of a grant that had found the namespace live and committed after the
deletion. That takes three requests at once, which the theorem covers and `store`
has not.

`OwnerStays`: `OwnersSpared` implies `Spec => []OneOwner`. The count of owners
before an INSERT is no lock, and what makes it enough is that in a live
namespace it always finds one. `OwnerInv` adds to `StoreInv` that each row
of a live namespace fits (`Fits`: its owner's, with the level owner and no
group, or somebody else's with another level); that the rows a transaction has
written fit too, unless it deletes the namespace (`KeepsOwned`); and that what a
request is about to write is not for the owner, and not the level owner once it
has counted (`GrantsToOthers`). A count that found no owner belongs to a
namespace that has been deleted since the look-up and never returns. Revocation
leaves the owner's row for its level, the removal of a group for its group.
`OwnersSpared` is needed: `two_owners` has a request that breaks it.

`NoOrphansAlone`: with one slot (`OneAtATime`), `Spec => []NoOrphans`, with all
operations, failures and crashes. `Grounded` adds to `StoreInv` that a request
which grants is in a live namespace, that what it has written is of namespaces
live at the commit, and that a deletion has found every row of the namespaces it
marks. With two slots it is false: a grant may commit after the deletion has
looked for rows, and of the operations only a rename that had looked the
namespace up before then would remove what it leaves.

`AuthFollowsGrants`: without failures and with grants only, to each user in one
namespace (`GrantsOnly`), `Spec => []AuthFresh`, for any number at once.
`FreshInv` says that what a grant sends is what it will commit (`Sending`), and
that the list of a user is that of the table unless a grant to him is about to
commit (`SentTo`). Two late grants to one user would have the same row written,
which `RowLocks` excludes; that is why the order of pushes is that of commits.
With grants to one user in two namespaces they write different rows, and the
property is false.

`LifecycleTypes`: `Spec => [](TypeOK /\ LocalsOK)` for `NamespaceLifecycle`.
`LocalsOK` says that the step a slot is at is one its operation has (`HasStep`),
and that the copy of the row and the rows found are there when it needs them.

`LabelsStayUnique`: `Spec => []LabelsUnique`. Uniqueness of the committed rows
is not inductive, since a commit may bring in two rows that clash.
`LabelsClaimed` says that a live row waiting for its commit already has its
label to itself, against the committed rows and those of other transactions;
the index check gives it, and `RowsOwned` keeps it: a row has one writer, and a
row that is not there yet belongs to the request that creates or imports it.

`DeletedStaysTornDown`: `Spec => []DeletedIsTornDown`. `TearingDown` follows a
deletion from step to step: each service it has called holds nothing of the
namespace, and what is gone stays gone, because only the creation of an absent
row brings anything in and only a resize holding the row changes it. It covers
failures and crashes, after which the next deletion starts from less.

`KubeFollowsTheRows`: without failures, `Spec => []KubeFollows`. While requests
run, kube agrees with no table: it has the quota of a row about to be committed
by a transaction past its call, and of the committed row otherwise. `Told(steps,
n)` is that row, and `KubeInv` says that kube holds what it stands for. For that
the call must be about the row the transaction writes: `PlanInv` gives, for each
step of each handler, which rows are written and how each was made from the
committed one, which the row lock keeps as it was (`RowsHeld`). Two hypotheses on
the requests are needed. `CreationsSpared`: no user creates a namespace while
another request deletes all he has in kube, the one being created included.
`TariffNeedsSubscription`: no namespace made by an admin without a tariff is
resized by one, since billing may refuse that after kube has the new quota, and
a refusal is as bad as a failure.

`SubscriptionsFollowTheRows`: without failures, `Spec => []SubscriptionFollows`, by
the same invariant for billing (`BillingInv`, with `TearingDown` for what a
deletion takes away). An admin's resize keeps the tariff of the copy it read:
`CopyFresh` says that it is still the row's, which is true if no namespace is
resized both ways (`TariffOrAdmin`); `admin_resize` shows what happens else.

`LifeSafe` and `ServesOnCompleteSchema`: `ServesComplete` by itself says nothing
of a process still migrating. `BehindDone` says that what lies behind a process's
place in the script is in the schema, and `RecordedDone` the same of what a
recorded version stands for; both last because nothing is ever unmade.

`StuckByDeathOrOlderVersion`: `Spec => WedgedByDeathOrOlderVersion`, an action
property. A step that leaves the service stuck without a death or an older
version would have to be the refusal of the last process that could still
record what has been run. `NotBeaten` rules it out: past a statement that cannot
be repeated, is not recorded and has a CREATE ... IF NOT EXISTS after it, there
is one process at most, and nobody has made what it found missing. Keeping that
true is where the hypotheses come in. Between two replicas
(`AtMostTwo`) `BeatenFromAhead` says that the one which beat the other is ahead of
it, whatever the script. With more of them somebody may record an older version
while others are past the statement, unless each migration before has a statement
of its own that only one process gets through (`RecordsGuarded`); then
`RecordedIsLeft` says that nobody is left who could. Without either it is false:
one of three that waits to run CREATE TABLE IF NOT EXISTS and is refused there
may be the last that could have recorded what a dead one left. `MadeOnce` and
`EndsWithRecord` are plain facts of a script. `MCService` assumes that the
repository's script has all three, so that the run evaluates them.

`TurnsBalance` and `NoGridlock`: the first counts, for each pool, the requests
with an open transaction and those with a look-up; each step adds or removes one
of them and as many turns. With it, a pool whose turns are all taken, by fewer
requests than it has turns, has a request that holds two, and that one is
reading. For the orders of `Handlers` this takes `HandlersOK` along: a request in
a transaction has the end of it ahead, before any other begins, so that what it
still waits for in there is a look-up. `NoGridlockBelowPoolSize` is proved and not checked: the least instance where it
says anything has three connections and is too large beside the other properties.
With as many requests as connections it does not hold, and `Answered` shows that the
time-out of the pool resolves what comes of it.

`LimitedFiltersRefused`, `OpenedIsListed`, `ListedNotOpened`, `PagesAdjoin`: facts
about single statements and pages, for all filters, rows and numbers.
`ProjectsGrantNothing`: `ProjectsInv` says that no request is beyond the look-up
of its project and that no transaction has written a permission.

Each proof has one step per action. The assumptions are those of the modules,
and TLC evaluates them on every run: requests are of their types, model values
are distinct from data, the namespaces there at the start are live with labels
unique per owner (`Init` gives kube, billing and the others what belongs to
them). A new uuid is never the name of an imported namespace. TLC checked each
inductive invariant first.

Left to TLC: `Responds`, `ComesUp` and `Answered`. They are liveness under
fairness, which rests on ENABLED, and TLAPS does not reach it. Every other
property of the passing runs is a theorem, the ones above under the hypotheses
they name; these are stated on the constants and the instances of the runs meet
them.

## Abstractions

- Row locks and READ COMMITTED are PostgreSQL's, modelled from how the service
  uses it. The rows of one multi-row INSERT are locked together; the deadlock
  PostgreSQL would break by aborting one of two such statements is one of the
  failures of `Fail`.
- A fresh uuid is a namespace nobody has used. `owner_user_id` never changes.
- A request refused before it touches anything (a bad tariff, an unknown user
  or group, malformed input) is a request that was not sent.
- What a namespace uses in kube is not modelled: the check of usage passes or
  not. Objects that users deploy while a deletion runs are not modelled either.
- The fields that only reads show (times, logins) are left out.
- In `ConnectionPool` there is one row that every transaction writes: the most
  that rows can hold each other up. A request does not retry.
- The namespaces of a project are given, since nothing in the service writes
  `namespaces.project_id`.

## Not modelled

Masking, usage and logins added to what is read, validation of requests, the
error catalogue and the wire formats of the clients keep no state and are left
out. The dummy clients of the debug mode stand for services and keep nothing
that matters here. The down halves of the migrations are never called. What
`DeleteGroupFromProject` would do after its statement is never reached.

## Plan

1. Done: `AccessLevels`, `PermissionTable`, `PermissionServer`,
   `PermissionStore`, `NamespaceLifecycle`, `Migrations`, `Startup`,
   `ConnectionPool`, `Service`, `NamespaceQueries`, `Projects`, with their runs
   and theorems.
2. Done: theorems for every safety and action property of the passing runs.
3. Open: what kube, billing and auth may still hold after a failure. Beyond
   `DeletedIsTornDown` nothing is stated of it, since nothing in the code
   repairs it.
