------------------------------ MODULE Service -------------------------------
(***************************************************************************)
(* The processes of the service with the requests they serve: Startup and  *)
(* ConnectionPool together.  A request arrives at a process that serves;   *)
(* an interrupted one still works on those it has; whatever ends the       *)
(* process takes its requests with it, wherever they are.                  *)
(***************************************************************************)
EXTENDS Startup, ConnectionPool

ASSUME HomeAssumption == Home \in [Requests -> Instances]

vars == <<lifeVars, poolVars>>

Init == LifeInit /\ PoolInit

\* ListenAndServe accepts until Shutdown closes the listener.
Accept(r) ==
  /\ phase[Home[r]] = "serving"
  /\ Arrive(r)
  /\ UNCHANGED lifeVars

Work(r) ==
  /\ Open(Home[r])
  /\ Proceed(r)
  /\ UNCHANGED lifeVars

Live(i) ==
  /\ Start(i) \/ Migrate(i) \/ Interrupt(i)
  /\ UNCHANGED poolVars

LoseRequests(i) == IF i \in Pools THEN Abandon(i) ELSE UNCHANGED poolVars

EndProcess(i) == Ends(i) /\ LoseRequests(i)

Next ==
  \/ \E r \in Requests : Accept(r) \/ Work(r)
  \/ \E i \in Instances : Live(i) \/ EndProcess(i)

Spec == Init /\ [][Next]_vars

\* Kubernetes starts a process that ended; a process goes on with its work.
\* The pool's queue is a Go channel and a row's waiters are queued by
\* PostgreSQL, both first come, first served.  Nobody need ever interrupt.
Fairness ==
  /\ \A i \in Instances :
       /\ WF_vars(Start(i) /\ UNCHANGED poolVars)
       /\ WF_vars(Migrate(i) /\ UNCHANGED poolVars)
       /\ WF_vars(Exit(i) /\ LoseRequests(i))
  /\ \A r \in Requests :
       /\ WF_vars(WaitTurn(r) /\ UNCHANGED lifeVars)
       /\ WF_vars(LookedUp(r) /\ UNCHANGED lifeVars)
       /\ SF_vars(Write(r) /\ UNCHANGED lifeVars)
       /\ WF_vars(End(r) /\ UNCHANGED lifeVars)

FairSpec == Spec /\ Fairness
-----------------------------------------------------------------------------
TypeOK == LifeTypeOK /\ PoolTypeOK

\* A process with its configuration that is down comes to serve, unless the
\* migrations are wedged: two instances that migrate at once do not refuse
\* each other for ever.
ComesUp ==
  \A i \in Configured : phase[i] = "down" ~> phase[i] = "serving" \/ Wedged

\* Every request ends.  Requests that hold one connection and wait for another
\* let go when the pool times out; those that wait for a row get it; and a
\* process that ends takes its requests with it, here and in the database.
Answered == \A r \in Requests : ~Idle(r) ~> Idle(r)
=============================================================================
