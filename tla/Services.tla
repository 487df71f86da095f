------------------------------ MODULE Services ------------------------------
(***************************************************************************)
(* The two services of the platform as processes: how the API server takes *)
(* requests, authenticates them and runs them under their tenant, how the  *)
(* worker polls and renews its lease, and how each of them stops on a      *)
(* signal or an error while sessions with the database are open.           *)
(*                                                                         *)
(* The processes share nothing but the database, so a behaviour has one of *)
(* them; which one is chosen in Init.  What the requests and the cycles do *)
(* to the data is the matter of the other modules: here they are series of *)
(* sessions.                                                               *)
(***************************************************************************)
EXTENDS TenantSessions

CONSTANTS
  Requests,      \* requests the API server may handle at the same time
  Cycle,         \* the worker's cycle
  Renewal,       \* a lease renewal sent by the worker's heartbeat
  Users,         \* user ids
  Memberships,   \* the membership store
  WorkerTenant,  \* WORKER_TENANT_ID
  WebhookTenant, \* the system tenant of webhook deliveries
  MaxSessions,   \* bound: sessions a request or a cycle runs
  MaxLate,       \* bound: requests that arrive on connections kept alive
                 \* after the server stopped listening
  MaxFaults      \* bound: faults in a behaviour

ASSUME ServicesAssumption ==
  /\ Tasks = Requests \cup {Cycle, Renewal}
  /\ Cycle \notin Requests /\ Renewal \notin Requests /\ Cycle # Renewal
  /\ None \notin Users
  /\ Memberships \subseteq [user : Users, tenant : Tenants, active : BOOLEAN]
  /\ WorkerTenant \in Tenants /\ WebhookTenant \in Tenants
  /\ MaxSessions \in Nat /\ MaxLate \in Nat /\ MaxFaults \in Nat

VARIABLES
  role,      \* the service the process is
  phase,     \* up, closing (its server), ending (its pool), exited, crashed
  stopping,  \* whether a signal told it to stop
  looping,   \* whether the worker's polling loop runs
  scope,     \* whose sessions each task may run; empty for a task at rest
  left,      \* how many it may still run
  asker,     \* the user each request is from
  gone,      \* the requests under way whose client hung up
  useCases,  \* the tenant the cached use cases of each tenant were built for
  late,      \* requests that arrived while the server was closing
  faults     \* how many faults happened

processVars == <<role, phase, stopping, looping>>
taskVars == <<scope, left, asker, gone, useCases, late>>
vars == <<sessionVars, processVars, taskVars, faults>>

TypeOK ==
  /\ SessionsTypeOK
  /\ role \in {"api", "worker"}
  /\ phase \in {"up", "closing", "ending", "exited", "crashed"}
  /\ stopping \in BOOLEAN /\ looping \in BOOLEAN
  /\ scope \in [Tasks -> SUBSET (Tenants \cup {None})]
  /\ left \in [Tasks -> 0..MaxSessions]
  /\ asker \in [Tasks -> Users \cup {None}]
  /\ gone \subseteq Requests
  /\ useCases \in [Tenants -> Tenants \cup {None}]
  /\ late \in Nat /\ faults \in Nat
  /\ phase \in {"up", "closing"} => ~ ending
  /\ phase = "ending" => ending
  /\ \A t \in Tasks : scope[t] = {} => at[t] = "out"

Init ==
  /\ SessionsInit
  /\ role \in {"api", "worker"}
  /\ phase = "up" /\ stopping = FALSE /\ looping = (role = "worker")
  /\ scope = [t \in Tasks |-> {}]
  /\ left = [t \in Tasks |-> 0]
  /\ asker = [t \in Tasks |-> None]
  /\ gone = {}
  /\ useCases = [x \in Tenants |-> None]
  /\ late = 0 /\ faults = 0

-----------------------------------------------------------------------------
(* Helpers. *)

Running == phase \notin {"exited", "crashed"}
Resting(t) == scope[t] = {}

Fault ==
  /\ faults < MaxFaults
  /\ faults' = faults + 1

\* A task starts, on behalf of user u, sessions under the tenants of xs.
Start(t, u, xs) ==
  /\ Resting(t)
  /\ scope' = [scope EXCEPT ![t] = xs]
  /\ left' = [left EXCEPT ![t] = MaxSessions]
  /\ asker' = [asker EXCEPT ![t] = u]
  /\ UNCHANGED gone

\* Variant: the task does not await its session.
FinishEarly(t) ==
  /\ ~ Resting(t)
  /\ scope' = [scope EXCEPT ![t] = {}]
  /\ left' = [left EXCEPT ![t] = 0]
  /\ asker' = [asker EXCEPT ![t] = None]
  /\ gone' = gone \ {t}
  /\ Step(t, "out")
  /\ tenant' = [tenant EXCEPT ![t] = None]
  /\ UNCHANGED <<conns, held, waiters, ending, useCases, late>>

\* A task is over; its request is answered, if anyone is there to hear it.
Finish(t) ==
  /\ ~ Resting(t) /\ at[t] \in Between
  /\ scope' = [scope EXCEPT ![t] = {}]
  /\ left' = [left EXCEPT ![t] = 0]
  /\ asker' = [asker EXCEPT ![t] = None]
  /\ gone' = gone \ {t}
  /\ Step(t, "out")
  /\ tenant' = [tenant EXCEPT ![t] = None]
  /\ UNCHANGED <<conns, held, waiters, ending, useCases, late>>

-----------------------------------------------------------------------------
(* The API server's requests. *)

\* The memberships of the user a request is from.
MembershipsOf(u) == {m \in Memberships : m.user = u}

\* hasActiveMembershipForTenant.
ActiveMembership(u, x) == {m \in MembershipsOf(u) : m.tenant = x /\ m.active}

\* The tenants a request of user u that names tenant x is handled for: none,
\* when it is answered with an error.
RequestContext(u, x) == {m.tenant : m \in ActiveMembership(u, x)}

\* Variant: whatever use cases there are will do.
AnyUseCases(x) ==
  IF \E y \in Tenants : useCases[y] # None
  THEN useCases[CHOOSE y \in Tenants : useCases[y] # None] ELSE x

\* The cached use cases of the tenant, or new ones built for it.
UseCasesByTenant(x) == IF useCases[x] # None THEN useCases[x] ELSE x

\* Once the server stopped listening requests still come in on connections
\* that were kept alive.
Listening ==
  \/ phase = "up" /\ UNCHANGED late
  \/ phase = "closing" /\ late < MaxLate /\ late' = late + 1

\* An authenticated command, or one that is answered at once.
Command(r) ==
  /\ role = "api" /\ Listening
  /\ \E u \in Users, named \in Tenants :
       \E x \in RequestContext(u, named) :
         /\ useCases' = [useCases EXCEPT ![x] = UseCasesByTenant(x)]
         /\ Start(r, u, {UseCasesByTenant(x)})
  /\ UNCHANGED <<sessionVars, processVars, faults>>

\* A delivery of the payment provider: its records are the system tenant's,
\* its audit trail is under no tenant.
Webhook(r) ==
  /\ role = "api" /\ Listening
  /\ Start(r, None, {WebhookTenant, None})
  /\ UNCHANGED <<sessionVars, processVars, useCases, faults>>

\* The readiness probe.
Ready(r) ==
  /\ role = "api" /\ Listening
  /\ Start(r, None, {None})
  /\ UNCHANGED <<sessionVars, processVars, useCases, faults>>

Answer(r) ==
  /\ role = "api" /\ Running
  /\ Finish(r)
  /\ UNCHANGED <<processVars, faults>>

\* The client of a request closes its connection; its handler is not told and
\* goes on.
HangUp(r) ==
  /\ role = "api" /\ Running
  /\ ~ Resting(r) /\ r \notin gone
  /\ gone' = gone \cup {r}
  /\ UNCHANGED <<sessionVars, processVars, scope, left, asker, useCases, late, faults>>

-----------------------------------------------------------------------------
(* The worker's cycles. *)

Poll ==
  /\ Running /\ looping /\ ~ stopping
  /\ Start(Cycle, None, {WorkerTenant})
  /\ UNCHANGED <<sessionVars, processVars, useCases, late, faults>>

SendRenewal ==
  /\ Running /\ ~ Resting(Cycle)
  /\ Start(Renewal, None, {WorkerTenant})
  /\ UNCHANGED <<sessionVars, processVars, useCases, late, faults>>

CycleReturns ==
  /\ role = "worker" /\ Running
  /\ Finish(Cycle)
  /\ UNCHANGED <<processVars, faults>>

RenewalEnds ==
  /\ role = "worker" /\ Running
  /\ Finish(Renewal)
  /\ UNCHANGED <<processVars, faults>>

\* A cycle that throws ends the loop, and closes what the process has open.
CycleThrows ==
  /\ role = "worker" /\ Running
  /\ at[Cycle] = "failed"
  /\ Finish(Cycle)
  /\ looping' = FALSE
  /\ phase' = IF phase = "up" THEN "closing" ELSE phase
  /\ UNCHANGED <<role, stopping, faults>>

-----------------------------------------------------------------------------
(* Sessions. *)

\* A task runs another session, under one of its tenants.
NextSession(t) ==
  /\ Running
  /\ left[t] > 0
  /\ \E x \in scope[t] : Connect(t, x)
  /\ left' = [left EXCEPT ![t] = @ - 1]
  /\ UNCHANGED <<processVars, scope, asker, gone, useCases, late, faults>>

SessionStep(t) ==
  /\ Running
  /\ \/ Acquire(t) \/ BeginTransaction(t) \/ SetTenant(t) \/ Work(t) \/ Commit(t)
     \/ Rollback(t) \/ Query(t, "done")
  /\ UNCHANGED <<processVars, taskVars, faults>>

SessionFails(t) ==
  /\ Running
  /\ OpenFails(t) \/ StatementFails(t) \/ RollbackFails(t) \/ Query(t, "failed")
  /\ Fault
  /\ UNCHANGED <<processVars, taskVars>>

-----------------------------------------------------------------------------
(* Stopping. *)

\* The first signal closes the server; the worker, when an error had it close
\* already, exits without waiting for that.
Signal ==
  /\ Running /\ ~ stopping
  /\ stopping' = TRUE
  /\ phase' = IF phase = "up" THEN "closing" ELSE "exited"
  /\ UNCHANGED <<sessionVars, role, looping, taskVars, faults>>

\* The server is closed: the API's once every connection a request came in on
\* has ended, by its answer or because its client hung up, whatever its handler
\* is at; the worker's, which serves metrics, whatever the cycle is at.
ServerClosed ==
  /\ phase = "closing"
  /\ role = "api" => \A r \in Requests : Resting(r) \/ r \in gone
  /\ phase' = "ending"
  /\ EndPool
  /\ UNCHANGED <<role, stopping, looping, taskVars, faults>>

\* Variant: the process does not wait for its pool.
ExitAtOnce ==
  /\ phase = "ending"
  /\ phase' = "exited"
  /\ UNCHANGED <<sessionVars, role, stopping, looping, taskVars, faults>>

\* The process exits once its pool has ended, whatever waits or is between two
\* sessions.
Exit ==
  /\ phase = "ending"
  /\ PoolEnded
  /\ phase' = "exited"
  /\ UNCHANGED <<sessionVars, role, stopping, looping, taskVars, faults>>

\* The process dies, for instance of a second signal of a kind.
Crash ==
  /\ Running
  /\ Fault
  /\ phase' = "crashed"
  /\ UNCHANGED <<sessionVars, role, stopping, looping, taskVars>>

-----------------------------------------------------------------------------
TaskStep(t) == NextSession(t) \/ SessionStep(t)

Next ==
  \/ \E r \in Requests : Command(r) \/ Webhook(r) \/ Ready(r) \/ Answer(r) \/ HangUp(r)
  \/ Poll \/ SendRenewal \/ CycleReturns \/ RenewalEnds \/ CycleThrows
  \/ \E t \in Tasks : TaskStep(t) \/ SessionFails(t)
  \/ Signal \/ ServerClosed \/ Exit \/ Crash

Spec == Init /\ [][Next]_vars

\* The event loop runs every continuation that is ready and the database
\* answers; nobody has to send requests or signals.
Fairness ==
  /\ \A r \in Requests : WF_vars(NextSession(r) \/ SessionStep(r) \/ Answer(r))
  /\ WF_vars(NextSession(Cycle) \/ SessionStep(Cycle) \/ CycleReturns)
  /\ WF_vars(NextSession(Renewal) \/ SessionStep(Renewal) \/ RenewalEnds)
  /\ WF_vars(ServerClosed)
  /\ WF_vars(Exit)

FairSpec == Spec /\ Fairness

-----------------------------------------------------------------------------
(* Properties. *)

\* A command touches only data of a tenant its user is an active member of:
\* from the headers over the cached use cases to the setting of the
\* transaction its queries run in.
MembersOnly ==
  \A r \in Requests :
    asker[r] # None /\ at[r] = "work" =>
      \E m \in Memberships :
        m.active /\ m.user = asker[r] /\ m.tenant = conns[held[r]].setting

\* An exit cuts off no session, not even of a request whose client hung up:
\* only a signal to a worker that closes already, because its cycle threw, may
\* cut off a renewal.  And the API's pool is closed to nobody who still waits
\* for an answer.
StopsGracefully ==
  /\ phase = "exited" =>
       \A t \in Tasks : at[t] \in InSession => t = Renewal /\ ~ looping /\ stopping
  /\ role = "api" /\ ending => \A r \in Requests : Resting(r) \/ r \in gone

\* However few connections there are, and whatever fails, every request is
\* answered, unless its client hung up and the pool was closed meanwhile; and a
\* process that is closing exits.
NothingHangs ==
  /\ \A r \in Requests :
       ~ Resting(r) ~> \/ Resting(r)
                       \/ r \in gone /\ ending
                       \/ phase = "crashed"
  /\ (phase = "closing") ~> (phase \in {"exited", "crashed"})
=============================================================================
