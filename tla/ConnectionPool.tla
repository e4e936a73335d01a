--------------------------- MODULE ConnectionPool ---------------------------
(***************************************************************************)
(* How requests use the database connections of their process.  The pool   *)
(* of a process gives out PoolSize turns; a transaction keeps its turn from *)
(* BEGIN to the end, through every call it makes to other services.  Many  *)
(* handlers also query s.db inside a transaction, and so hold one turn     *)
(* while they wait for another; and the statements of two transactions     *)
(* wait for each other's rows, of this process or another.  There is one   *)
(* row here, which every transaction writes.                               *)
(***************************************************************************)
EXTENDS Integers, Sequences, FiniteSets

CONSTANTS Requests,   \* goroutines that serve requests
          Home,       \* the process of each
          Routes,     \* the handlers that clients call
          PoolSize,   \* connections of one process
          NoRequest

Pools == {Home[r] : r \in Requests}

\* What a handler does with connections: "begin" and "end" of a transaction,
\* "lookup" a query through s.db, "optional" one whose error is only logged,
\* "write" a statement that locks the row.
HandlerSteps == {"begin", "end", "lookup", "optional", "write"}

Transaction == <<"begin", "write", "end">>

Times(n, steps) ==
  [k \in 1 .. n * Len(steps) |-> steps[((k - 1) % Len(steps)) + 1]]

\* The orders there are; n is a number of namespaces, of members or of users.
ReadHandler(n) == Times(n, <<"lookup">>)
WriteHandler(n) == Times(n, Transaction)
LookupThenWrite == <<"begin", "lookup", "write", "end">>
WriteThenLookup == <<"begin", "write", "lookup", "end">>
LookupsAroundWrite == <<"begin", "lookup", "write", "lookup", "end">>
AddGroupHandler(n) == <<"lookup">> \o Times(n, Transaction)
DropGroupHandler(n) == <<"begin", "write">> \o Times(n, <<"optional">>) \o <<"end">>

\* From the j-th step on, a transaction ends before another begins.
Closes(steps, j) ==
  \E k \in j .. Len(steps) :
    steps[k] = "end" /\ \A i \in j .. k : steps[i] # "begin"

\* Before the j-th step a transaction has begun and not ended.
Inside(steps, j) ==
  \E k \in 1 .. j - 1 : steps[k] = "begin" /\ \A i \in k .. j - 1 : steps[i] # "end"

Handlers == {steps \in Seq(HandlerSteps) \ {<<>>} :
  \A j \in 1 .. Len(steps) :
    /\ steps[j] = "begin" => Closes(steps, j + 1)
    /\ steps[j] \in {"write", "optional", "end"} => Inside(steps, j)}

ASSUME PoolAssumption ==
  /\ IsFiniteSet(Requests)
  /\ Routes \subseteq Handlers
  /\ PoolSize \in Nat \ {0}
  /\ NoRequest \notin Requests

VARIABLES
  todo,     \* what the handler of each request has still to do
  inTx,     \* whether it holds a connection for its transaction
  reading,  \* whether it holds a connection for a look-up
  writer,   \* the request whose transaction has the row locked
  turns     \* turns taken of each pool (the length of its queue)

poolVars == <<todo, inTx, reading, writer, turns>>

PoolInit ==
  /\ todo = [r \in Requests |-> <<>>]
  /\ inTx = [r \in Requests |-> FALSE]
  /\ reading = [r \in Requests |-> FALSE]
  /\ writer = NoRequest
  /\ turns = [p \in Pools |-> 0]

Idle(r) == todo[r] = <<>>
At(r, step) == todo[r] # <<>> /\ Head(todo[r]) = step
AtLookup(r) == At(r, "lookup") \/ At(r, "optional")

\* A slip: the queue admits one more than its length.
HasTurnOneMore(r) == turns[Home[r]] <= PoolSize

HasTurn(r) == turns[Home[r]] < PoolSize

TakeTurn(r) == turns' = [turns EXCEPT ![Home[r]] = @ + 1]
FreeTurns(r, n) == turns' = [turns EXCEPT ![Home[r]] = @ - n]
NextStep(r) == todo' = [todo EXCEPT ![r] = Tail(@)]

\* A slip: a look-up that fails does not give its connection back.
HeldInTx(r) == IF inTx[r] THEN 1 ELSE 0

Held(r) == (IF inTx[r] THEN 1 ELSE 0) + (IF reading[r] THEN 1 ELSE 0)

Arrive(r) ==
  /\ Idle(r)
  /\ \E h \in Routes : todo' = [todo EXCEPT ![r] = h]
  /\ UNCHANGED <<inTx, reading, writer, turns>>

Begin(r) ==
  /\ At(r, "begin")
  /\ HasTurn(r)
  /\ TakeTurn(r)
  /\ inTx' = [inTx EXCEPT ![r] = TRUE]
  /\ NextStep(r)
  /\ UNCHANGED <<reading, writer>>

Lookup(r) ==
  /\ AtLookup(r)
  /\ ~reading[r]
  /\ HasTurn(r)
  /\ TakeTurn(r)
  /\ reading' = [reading EXCEPT ![r] = TRUE]
  /\ UNCHANGED <<todo, inTx, writer>>

\* The answer, or an error that is logged: the connection goes back before the
\* rows are used.
LookedUp(r) ==
  /\ reading[r]
  /\ FreeTurns(r, 1)
  /\ reading' = [reading EXCEPT ![r] = FALSE]
  /\ NextStep(r)
  /\ UNCHANGED <<inTx, writer>>

\* A statement has no time-out: it waits as long as the row is locked.
Write(r) ==
  /\ At(r, "write")
  /\ writer = NoRequest
  /\ writer' = r
  /\ NextStep(r)
  /\ UNCHANGED <<inTx, reading, turns>>

Unlock(r) == writer' = IF writer = r THEN NoRequest ELSE writer

\* COMMIT or ROLLBACK; the handler has rest to do.
Leave(r, rest) ==
  /\ FreeTurns(r, Held(r))
  /\ inTx' = [inTx EXCEPT ![r] = FALSE]
  /\ reading' = [reading EXCEPT ![r] = FALSE]
  /\ Unlock(r)
  /\ todo' = [todo EXCEPT ![r] = rest]

End(r) == At(r, "end") /\ Leave(r, Tail(todo[r]))

InTransaction(r) == inTx[r] \/ At(r, "begin")

\* Where the present transaction ends, or the next one.
EndOf(steps) ==
  {k \in 1 .. Len(steps) :
     steps[k] = "end" /\ \A j \in 1 .. k - 1 : steps[j] # "end"}

\* A transaction that failed is passed over: the handler answers, or goes on
\* with the transaction of the next member or namespace.  Outside of one an
\* error is the answer.
GiveUp(r) ==
  \/ /\ InTransaction(r)
     /\ \E k \in EndOf(todo[r]) :
          Leave(r, SubSeq(todo[r], k + 1, Len(todo[r])))
  \/ ~InTransaction(r) /\ Leave(r, <<>>)

\* A statement, a look-up or a call to another service returns an error.
Fail(r) ==
  /\ inTx[r] \/ reading[r]
  /\ ~At(r, "optional")
  /\ GiveUp(r)

WaitsForTurn(r) == At(r, "begin") \/ (AtLookup(r) /\ ~reading[r])

\* A slip: only BEGIN gives up waiting.
PoolTimeoutAtBegin(r) ==
  /\ At(r, "begin")
  /\ ~HasTurn(r)
  /\ GiveUp(r)

PassOver(r) == NextStep(r) /\ UNCHANGED <<inTx, reading, writer, turns>>

\* Thirty seconds without a turn: ErrPoolTimeout, an error like any other.
PoolTimeout(r) ==
  /\ WaitsForTurn(r)
  /\ ~HasTurn(r)
  /\ IF At(r, "optional") THEN PassOver(r) ELSE GiveUp(r)

\* The process ends: its connections close, and PostgreSQL rolls back.
Abandon(p) ==
  LET here == {r \in Requests : Home[r] = p}
  IN /\ todo' = [r \in Requests |-> IF r \in here THEN <<>> ELSE todo[r]]
     /\ inTx' = [r \in Requests |-> inTx[r] /\ r \notin here]
     /\ reading' = [r \in Requests |-> reading[r] /\ r \notin here]
     /\ writer' = IF writer \in here THEN NoRequest ELSE writer
     /\ turns' = [q \in Pools |-> IF q = p THEN 0 ELSE turns[q]]

GetTurn(r) == Begin(r) \/ Lookup(r)
WaitTurn(r) == GetTurn(r) \/ PoolTimeout(r)

Proceed(r) == WaitTurn(r) \/ LookedUp(r) \/ Write(r) \/ End(r) \/ Fail(r)

PoolNext ==
  \/ \E r \in Requests : Arrive(r) \/ Proceed(r)
  \/ \E p \in Pools : Abandon(p)

PoolSpec == PoolInit /\ [][PoolNext]_poolVars
-----------------------------------------------------------------------------
PoolTypeOK ==
  /\ todo \in [Requests -> Seq(HandlerSteps)]
  /\ inTx \in [Requests -> BOOLEAN]
  /\ reading \in [Requests -> BOOLEAN]
  /\ writer \in Requests \union {NoRequest}
  /\ turns \in [Pools -> 0 .. PoolSize]

OpenIn(p) == {r \in Requests : Home[r] = p /\ inTx[r]}
ReadingIn(p) == {r \in Requests : Home[r] = p /\ reading[r]}
ServedBy(p) == {r \in Requests : Home[r] = p /\ ~Idle(r)}

\* The turns taken of a pool are those its requests hold, one for an open
\* transaction and one for a look-up: whatever errors, time-outs and ends of
\* processes come in between, none is lost and none is given out twice.
PoolAccounts ==
  \A p \in Pools : turns[p] = Cardinality(OpenIn(p)) + Cardinality(ReadingIn(p))

\* As long as a process serves fewer requests than its pool has connections,
\* a request that finds no turn waits for a look-up in progress, which ends by
\* itself: the pool cannot be held by transactions that all wait for it.
NoGridlockBelowPoolSize ==
  \A r \in Requests :
    /\ WaitsForTurn(r)
    /\ ~HasTurn(r)
    /\ Cardinality(ServedBy(Home[r])) < PoolSize
    => ReadingIn(Home[r]) # {}
=============================================================================
