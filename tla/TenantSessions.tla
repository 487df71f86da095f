--------------------------- MODULE TenantSessions ---------------------------
(***************************************************************************)
(* The connection pool of a process and the sessions its tasks run on it.  *)
(* withTenantSession takes a connection, opens a transaction, sets the     *)
(* tenant that row-level security compares with, for that transaction      *)
(* only, runs its queries and commits; whatever fails is rolled back, and  *)
(* the connection goes back.  pool.query runs one statement, under no      *)
(* tenant.                                                                 *)
(***************************************************************************)
EXTENDS Naturals, Sequences

CONSTANTS
  Tasks,    \* what runs in the process and may hold a connection
  Conns,    \* the connections the pool may open
  Tenants,  \* tenant ids
  None      \* no tenant, no connection

ASSUME SessionsAssumption == None \notin Tenants \cup Conns

VARIABLES
  conns,    \* each connection: whether it is open, its transaction and setting
  held,     \* the connection each task has checked out
  at,       \* the step of each task's session
  tenant,   \* the tenant of each task's session; None for a plain query
  waiters,  \* the tasks waiting for a connection, first come first served
  ending    \* whether the pool is being closed

sessionVars == <<conns, held, at, tenant, waiters, ending>>

ConnStates ==
  [open : BOOLEAN, tx : {"none", "open", "aborted"}, setting : Tenants \cup {None}]
ConnState(open) == [open |-> open, tx |-> "none", setting |-> None]

InSession == {"begin", "set", "work", "commit", "rollback", "query"}
Between == {"out", "done", "failed"}

\* A task has a connection exactly in a session, which no other task has.
SessionsTypeOK ==
  /\ conns \in [Conns -> ConnStates]
  /\ held \in [Tasks -> Conns \cup {None}]
  /\ at \in [Tasks -> InSession \cup Between \cup {"waiting"}]
  /\ \A t \in Tasks : at[t] \in InSession <=> held[t] # None
  /\ \A t \in Tasks : held[t] # None => conns[held[t]].open
  /\ tenant \in [Tasks -> Tenants \cup {None}]
  /\ waiters \in Seq(Tasks)
  /\ ending \in BOOLEAN

SessionsInit ==
  /\ conns = [c \in Conns |-> ConnState(FALSE)]
  /\ held = [t \in Tasks |-> None]
  /\ at = [t \in Tasks |-> "out"]
  /\ tenant = [t \in Tasks |-> None]
  /\ waiters = << >>
  /\ ending = FALSE

-----------------------------------------------------------------------------
(* Taking a connection. *)

Step(t, step) == at' = [at EXCEPT ![t] = step]

Free(c) == \A t \in Tasks : held[t] # c
Idle(c) == conns[c].open /\ Free(c)

\* connect waits its turn; a pool that is being closed refuses it.
Connect(t, x) ==
  /\ at[t] \in Between
  /\ tenant' = [tenant EXCEPT ![t] = x]
  /\ IF ending THEN Step(t, "failed") /\ UNCHANGED waiters
               ELSE Step(t, "waiting") /\ waiters' = Append(waiters, t)
  /\ UNCHANGED <<conns, held, ending>>

MayAcquire(t) ==
  /\ ~ ending
  /\ at[t] = "waiting"
  /\ waiters # << >> /\ Head(waiters) = t

\* An idle connection is used before another is opened.
Acquire(t) ==
  /\ MayAcquire(t)
  /\ \E c \in Conns :
       /\ Free(c)
       /\ conns[c].open \/ \A d \in Conns : ~ Idle(d)
       /\ held' = [held EXCEPT ![t] = c]
       /\ conns' = [conns EXCEPT ![c].open = TRUE]
  /\ Step(t, IF tenant[t] = None THEN "query" ELSE "begin")
  /\ waiters' = Tail(waiters)
  /\ UNCHANGED <<tenant, ending>>

\* A connection has to be opened, and the database does not answer.
OpenFails(t) ==
  /\ MayAcquire(t)
  /\ \A d \in Conns : ~ Idle(d)
  /\ \E c \in Conns : Free(c)
  /\ Step(t, "failed")
  /\ waiters' = Tail(waiters)
  /\ UNCHANGED <<conns, held, tenant, ending>>

-----------------------------------------------------------------------------
(* The session. *)

\* Variant: the setting is made for the connection, not for the transaction.
KeepingSetting(c) == [conns[c] EXCEPT !.tx = "none"]

\* The setting was made for the transaction, and ends with it.
AfterTransaction(c) == ConnState(conns[c].open)

\* The connection goes back to the pool; one that is being closed closes it.
Release(t, state) ==
  /\ held' = [held EXCEPT ![t] = None]
  /\ conns' = [conns EXCEPT ![held[t]] = IF ending THEN ConnState(FALSE) ELSE state]

BeginTransaction(t) ==
  /\ at[t] = "begin"
  /\ conns' = [conns EXCEPT ![held[t]].tx = "open"]
  /\ Step(t, "set")
  /\ UNCHANGED <<held, tenant, waiters, ending>>

SetTenant(t) ==
  /\ at[t] = "set"
  /\ conns' = [conns EXCEPT ![held[t]].setting = tenant[t]]
  /\ Step(t, "work")
  /\ UNCHANGED <<held, tenant, waiters, ending>>

Work(t) ==
  /\ at[t] = "work"
  /\ Step(t, "commit")
  /\ UNCHANGED <<conns, held, tenant, waiters, ending>>

Commit(t) ==
  /\ at[t] = "commit"
  /\ Release(t, AfterTransaction(held[t]))
  /\ Step(t, "done")
  /\ UNCHANGED <<tenant, waiters, ending>>

\* Variant: the connection of a session that failed is not given back.
FailsKeepingConnection(t) ==
  /\ at[t] \in {"begin", "set", "work", "commit"}
  /\ held' = [held EXCEPT ![t] = None]
  /\ Step(t, "failed")
  /\ conns' = [conns EXCEPT ![held[t]].tx = "aborted"]
  /\ UNCHANGED <<tenant, waiters, ending>>

\* A statement fails, or the work throws.
StatementFails(t) ==
  /\ at[t] \in {"begin", "set", "work", "commit"}
  /\ conns' = [conns EXCEPT ![held[t]].tx = IF @ = "open" THEN "aborted" ELSE @]
  /\ Step(t, "rollback")
  /\ UNCHANGED <<held, tenant, waiters, ending>>

Rollback(t) ==
  /\ at[t] = "rollback"
  /\ Release(t, AfterTransaction(held[t]))
  /\ Step(t, "failed")
  /\ UNCHANGED <<tenant, waiters, ending>>

\* The connection is lost: the pool drops it when it is released.
RollbackFails(t) ==
  /\ at[t] = "rollback"
  /\ Release(t, ConnState(FALSE))
  /\ Step(t, "failed")
  /\ UNCHANGED <<tenant, waiters, ending>>

\* pool.query: one statement outside of any transaction.
Query(t, outcome) ==
  /\ at[t] = "query"
  /\ Release(t, conns[held[t]])
  /\ Step(t, outcome)
  /\ UNCHANGED <<tenant, waiters, ending>>

-----------------------------------------------------------------------------
(* Closing the pool. *)

\* pool.end closes what is idle; those who wait are never served.
EndPool ==
  /\ ending' = TRUE
  /\ conns' = [c \in Conns |-> IF Free(c) THEN ConnState(FALSE) ELSE conns[c]]
  /\ UNCHANGED <<held, at, tenant, waiters>>

\* ... and returns when every connection is closed.
PoolEnded == ending /\ \A c \in Conns : ~ conns[c].open

-----------------------------------------------------------------------------
(* Properties. *)

\* A query of a session runs inside its own transaction and under its own
\* tenant, and what is not in a session carries no tenant and no transaction:
\* whoever takes a connection next finds it clean, whatever failed before.
SessionsIsolated ==
  /\ \A c \in Conns : Free(c) => conns[c] = ConnState(conns[c].open)
  /\ \A t \in Tasks :
       /\ at[t] = "query" => conns[held[t]] = ConnState(TRUE)
       /\ at[t] \in {"work", "commit"} =>
            conns[held[t]] = [open |-> TRUE, tx |-> "open", setting |-> tenant[t]]
=============================================================================
