--------------------------- MODULE ServicesProofs ---------------------------
(***************************************************************************)
(* Proofs about TenantSessions and Services, for any number of requests,   *)
(* connections, tenants, users and faults.                                 *)
(***************************************************************************)
EXTENDS Services, TLAPS

-----------------------------------------------------------------------------
(* Sessions. *)

\* No connection is checked out twice.
Exclusive ==
  \A s, t \in Tasks : held[s] = held[t] /\ held[s] # None => s = t

\* A connection nobody has is clean, and one that a task has is in the state
\* the task's step left it in.
Clean ==
  /\ \A c \in Conns : Free(c) => conns[c] = ConnState(conns[c].open)
  /\ \A t \in Tasks :
       /\ at[t] \in {"begin", "query"} => conns[held[t]] = ConnState(TRUE)
       /\ at[t] = "set" => conns[held[t]] = [open |-> TRUE, tx |-> "open", setting |-> None]
       /\ at[t] \in {"work", "commit"} =>
            conns[held[t]] = [open |-> TRUE, tx |-> "open", setting |-> tenant[t]]

SessionsInv == SessionsTypeOK /\ Exclusive /\ Clean

Scopes == Tenants \cup {None}

\* What may happen to sessions.
SessionAction(t) ==
  \/ Acquire(t) \/ OpenFails(t) \/ BeginTransaction(t) \/ SetTenant(t) \/ Work(t) \/ Commit(t)
  \/ StatementFails(t) \/ Rollback(t) \/ RollbackFails(t)
  \/ Query(t, "done") \/ Query(t, "failed")

Leaves(t) ==
  /\ at[t] \in Between
  /\ Step(t, "out")
  /\ tenant' = [tenant EXCEPT ![t] = None]
  /\ UNCHANGED <<conns, held, waiters, ending>>

LEMMA ConnStateTyped == \A open \in BOOLEAN : ConnState(open) \in ConnStates
  BY DEF ConnState, ConnStates

\* A connection's state when a field of it is changed.
LEMMA TxChanged ==
  ASSUME NEW r \in ConnStates, NEW x
  PROVE  [r EXCEPT !.tx = x] = [open |-> r.open, tx |-> x, setting |-> r.setting]
<1>1. r = [open |-> r.open, tx |-> r.tx, setting |-> r.setting]
  BY DEF ConnStates
<1> QED
  BY <1>1

LEMMA SettingChanged ==
  ASSUME NEW r \in ConnStates, NEW x
  PROVE  [r EXCEPT !.setting = x] = [open |-> r.open, tx |-> r.tx, setting |-> x]
<1>1. r = [open |-> r.open, tx |-> r.tx, setting |-> r.setting]
  BY DEF ConnStates
<1> QED
  BY <1>1

\* The task of a session has a connection, which is open.
LEMMA Holds ==
  ASSUME SessionsTypeOK, NEW t \in Tasks, at[t] \in InSession
  PROVE  held[t] \in Conns /\ held[t] # None /\ conns[held[t]] \in ConnStates /\ conns[held[t]].open
  BY DEF SessionsTypeOK

\* A step within a session changes its connection and its step, no more.
LEMMA StepWithin ==
  ASSUME SessionsInv, NEW t \in Tasks, at[t] \in InSession,
         NEW state \in ConnStates, state.open,
         NEW step \in InSession,
         conns' = [conns EXCEPT ![held[t]] = state],
         Step(t, step),
         UNCHANGED <<held, tenant, waiters, ending>>,
         step \in {"begin", "query"} => state = ConnState(TRUE),
         step = "set" => state = [open |-> TRUE, tx |-> "open", setting |-> None],
         step \in {"work", "commit"} => state = [open |-> TRUE, tx |-> "open", setting |-> tenant[t]]
  PROVE  SessionsInv'
<1>1. held[t] \in Conns /\ held[t] # None
  BY Holds DEF SessionsInv
<1>2. \A c \in Conns : conns'[c] = IF c = held[t] THEN state ELSE conns[c]
  BY DEF SessionsInv, SessionsTypeOK
<1>3. \A s \in Tasks : at'[s] = IF s = t THEN step ELSE at[s]
  BY DEF Step, SessionsInv, SessionsTypeOK
<1>4. SessionsTypeOK'
  <2>1. conns' \in [Conns -> ConnStates] /\ at' \in [Tasks -> InSession \cup Between \cup {"waiting"}]
    BY DEF SessionsInv, SessionsTypeOK, Step
  <2>2. \A s \in Tasks : at'[s] \in InSession <=> held'[s] # None
    BY <1>1, <1>3 DEF SessionsInv, SessionsTypeOK
  <2>3. \A s \in Tasks : held'[s] # None => conns'[held'[s]].open
    BY <1>2 DEF SessionsInv, SessionsTypeOK
  <2> QED
    BY <2>1, <2>2, <2>3 DEF SessionsInv, SessionsTypeOK
<1>5. Exclusive'
  BY DEF SessionsInv, Exclusive
<1>6. \A s \in Tasks : s # t /\ held[s] # None => held[s] \in Conns /\ conns'[held[s]] = conns[held[s]]
  BY <1>1, <1>2 DEF SessionsInv, SessionsTypeOK, Exclusive
<1>7. \A c \in Conns : Free(c)' => Free(c) /\ conns'[c] = conns[c]
  BY <1>1, <1>2 DEF Free
<1>8. \A s \in Tasks : s # t /\ at[s] \in InSession => conns'[held[s]] = conns[held[s]]
  BY <1>6 DEF SessionsInv, SessionsTypeOK
<1>9. Clean'
  <2>1. \A c \in Conns : Free(c)' => conns'[c] = ConnState(conns'[c].open)
    BY <1>7 DEF SessionsInv, Clean
  <2>2. \A s \in Tasks :
          /\ at'[s] \in {"begin", "query"} => conns'[held[s]] = ConnState(TRUE)
          /\ at'[s] = "set" => conns'[held[s]] = [open |-> TRUE, tx |-> "open", setting |-> None]
          /\ at'[s] \in {"work", "commit"} =>
               conns'[held[s]] = [open |-> TRUE, tx |-> "open", setting |-> tenant[s]]
    <3> SUFFICES ASSUME NEW s \in Tasks
                 PROVE  /\ at'[s] \in {"begin", "query"} => conns'[held[s]] = ConnState(TRUE)
                        /\ at'[s] = "set" =>
                             conns'[held[s]] = [open |-> TRUE, tx |-> "open", setting |-> None]
                        /\ at'[s] \in {"work", "commit"} =>
                             conns'[held[s]] = [open |-> TRUE, tx |-> "open", setting |-> tenant[s]]
      OBVIOUS
    <3>1. CASE s = t
      BY <1>1, <1>2, <1>3, <3>1
    <3>2. CASE s # t
      BY <1>3, <1>8, <3>2 DEF SessionsInv, Clean, InSession
    <3> QED
      BY <3>1, <3>2
  <2> QED
    BY <2>1, <2>2 DEF Clean
<1> QED
  BY <1>4, <1>5, <1>9 DEF SessionsInv

\* A step that ends a session gives its connection back, clean.
LEMMA StepOut ==
  ASSUME SessionsInv, NEW t \in Tasks, at[t] \in InSession,
         NEW open \in BOOLEAN, NEW step \in {"done", "failed"},
         Release(t, ConnState(open)),
         Step(t, step),
         UNCHANGED <<tenant, waiters, ending>>
  PROVE  SessionsInv'
<1>1. held[t] \in Conns /\ held[t] # None
  BY Holds DEF SessionsInv
<1>2. PICK o \in BOOLEAN : conns' = [conns EXCEPT ![held[t]] = ConnState(o)]
  BY DEF Release
<1>3. \A c \in Conns : conns'[c] = IF c = held[t] THEN ConnState(o) ELSE conns[c]
  BY <1>2 DEF SessionsInv, SessionsTypeOK
<1>4. \A s \in Tasks : at'[s] = IF s = t THEN step ELSE at[s]
  BY DEF Step, SessionsInv, SessionsTypeOK
<1>5. \A s \in Tasks : held'[s] = IF s = t THEN None ELSE held[s]
  BY DEF Release, SessionsInv, SessionsTypeOK
<1>6. \A s \in Tasks : s # t /\ held[s] # None => held[s] # held[t] /\ conns'[held[s]] = conns[held[s]]
  BY <1>3 DEF SessionsInv, SessionsTypeOK, Exclusive
<1>7. SessionsTypeOK'
  <2>1. conns' \in [Conns -> ConnStates]
    BY <1>2, ConnStateTyped DEF SessionsInv, SessionsTypeOK
  <2>2. at' \in [Tasks -> InSession \cup Between \cup {"waiting"}]
    BY DEF SessionsInv, SessionsTypeOK, Step, Between
  <2>3. held' \in [Tasks -> Conns \cup {None}]
    BY DEF SessionsInv, SessionsTypeOK, Release
  <2>4. \A s \in Tasks : at'[s] \in InSession <=> held'[s] # None
    BY <1>4, <1>5 DEF SessionsInv, SessionsTypeOK, InSession
  <2>5. \A s \in Tasks : held'[s] # None => conns'[held'[s]].open
    BY <1>5, <1>6 DEF SessionsInv, SessionsTypeOK
  <2> QED
    BY <2>1, <2>2, <2>3, <2>4, <2>5 DEF SessionsInv, SessionsTypeOK
<1>8. Exclusive'
  BY <1>5 DEF SessionsInv, Exclusive
<1>9. Clean'
  <2>1. \A c \in Conns : c # held[t] /\ Free(c)' => Free(c) /\ conns'[c] = conns[c]
    BY <1>3, <1>5 DEF Free
  <2>2. conns'[held[t]] = ConnState(conns'[held[t]].open)
    BY <1>1, <1>3 DEF ConnState
  <2>3. \A s \in Tasks : s # t /\ at[s] \in InSession =>
          conns'[held'[s]] = conns[held[s]]
    BY <1>5, <1>6 DEF SessionsInv, SessionsTypeOK
  <2> QED
    BY <1>4, <2>1, <2>2, <2>3 DEF SessionsInv, Clean, InSession
<1> QED
  BY <1>7, <1>8, <1>9 DEF SessionsInv

\* A step that takes no connection and gives none back.
LEMMA StepOutside ==
  ASSUME SessionsInv, NEW t \in Tasks, at[t] \notin InSession,
         NEW step \in Between \cup {"waiting"},
         Step(t, step),
         tenant' \in [Tasks -> Scopes], \A s \in Tasks : s # t => tenant'[s] = tenant[s],
         waiters' \in Seq(Tasks),
         UNCHANGED <<conns, held, ending>>
  PROVE  SessionsInv'
<1>1. \A s \in Tasks : at'[s] = IF s = t THEN step ELSE at[s]
  BY DEF Step, SessionsInv, SessionsTypeOK
<1>2. step \notin InSession
  BY DEF InSession, Between
<1>3. SessionsTypeOK'
  <2>1. at' \in [Tasks -> InSession \cup Between \cup {"waiting"}]
    BY DEF SessionsInv, SessionsTypeOK, Step
  <2>2. \A s \in Tasks : at'[s] \in InSession <=> held'[s] # None
    BY <1>1, <1>2 DEF SessionsInv, SessionsTypeOK
  <2> QED
    BY <2>1, <2>2 DEF SessionsInv, SessionsTypeOK, Scopes
<1>4. \A s \in Tasks : at'[s] \in InSession => s # t /\ at'[s] = at[s] /\ tenant'[s] = tenant[s]
  BY <1>1, <1>2
<1>5. Exclusive'
  BY DEF SessionsInv, Exclusive
<1>6. Clean'
  BY <1>4 DEF SessionsInv, Clean, Free, InSession
<1> QED
  BY <1>3, <1>5, <1>6 DEF SessionsInv

LEMMA AcquireTakes ==
  ASSUME SessionsInv, NEW t \in Tasks, Acquire(t)
  PROVE  SessionsInv'
<1>1. PICK c \in Conns :
        /\ Free(c)
        /\ held' = [held EXCEPT ![t] = c]
        /\ conns' = [conns EXCEPT ![c].open = TRUE]
  BY DEF Acquire
<1> DEFINE step == IF tenant[t] = None THEN "query" ELSE "begin"
<1>2. c # None /\ at[t] = "waiting" /\ waiters # << >>
  BY SessionsAssumption DEF Acquire, MayAcquire
<1>3. conns'[c] = ConnState(TRUE) /\ \A d \in Conns : d # c => conns'[d] = conns[d]
  <2>1. conns[c] = ConnState(conns[c].open)
    BY <1>1 DEF SessionsInv, Clean
  <2>2. conns \in [Conns -> ConnStates]
    BY DEF SessionsInv, SessionsTypeOK
  <2>3. \A d \in Conns : d # c => conns'[d] = conns[d]
    BY <1>1, <2>2
  <2>4. conns'[c] = [open |-> TRUE, tx |-> conns[c].tx, setting |-> conns[c].setting]
    BY <1>1, <2>2 DEF ConnStates
  <2>5. conns[c].tx = "none" /\ conns[c].setting = None
    BY <2>1 DEF ConnState
  <2> QED
    BY <2>3, <2>4, <2>5 DEF ConnState
<1>4. \A s \in Tasks : held'[s] = IF s = t THEN c ELSE held[s]
  BY <1>1 DEF SessionsInv, SessionsTypeOK
<1>5. \A s \in Tasks : at'[s] = IF s = t THEN step ELSE at[s]
  BY DEF Acquire, Step, SessionsInv, SessionsTypeOK
<1>6. \A s \in Tasks : s # t => held[s] # c
  BY <1>1 DEF Free
<1>7. \A s \in Tasks : s # t /\ held[s] # None => conns'[held[s]] = conns[held[s]]
  BY <1>3, <1>6 DEF SessionsInv, SessionsTypeOK
<1>8. SessionsTypeOK'
  <2>1. conns' \in [Conns -> ConnStates]
    BY <1>1 DEF SessionsInv, SessionsTypeOK, ConnStates
  <2>2. at' \in [Tasks -> InSession \cup Between \cup {"waiting"}]
    BY DEF SessionsInv, SessionsTypeOK, Acquire, Step, InSession
  <2>3. held' \in [Tasks -> Conns \cup {None}]
    BY <1>1 DEF SessionsInv, SessionsTypeOK
  <2>4. waiters' \in Seq(Tasks) /\ tenant' = tenant /\ ending' = ending
    BY <1>2 DEF SessionsInv, SessionsTypeOK, Acquire
  <2>5. \A s \in Tasks : at'[s] \in InSession <=> held'[s] # None
    BY <1>2, <1>4, <1>5 DEF SessionsInv, SessionsTypeOK, InSession
  <2>6. \A s \in Tasks : held'[s] # None => conns'[held'[s]].open
    BY <1>3, <1>4, <1>7 DEF SessionsInv, SessionsTypeOK, ConnState
  <2> QED
    BY <2>1, <2>2, <2>3, <2>4, <2>5, <2>6 DEF SessionsInv, SessionsTypeOK
<1>9. Exclusive'
  BY <1>4, <1>6 DEF SessionsInv, Exclusive
<1>10. Clean'
  <2>0. held[t] = None
    BY <1>2 DEF SessionsInv, SessionsTypeOK, InSession
  <2>1. \A d \in Conns : Free(d)' => conns'[d] = ConnState(conns'[d].open)
    <3> SUFFICES ASSUME NEW d \in Conns, Free(d)'
                 PROVE  conns'[d] = ConnState(conns'[d].open)
      OBVIOUS
    <3>1. d # c
      BY <1>4 DEF Free
    <3>2. Free(d)
      BY <1>4, <2>0, SessionsAssumption DEF Free
    <3> QED
      BY <1>3, <3>1, <3>2 DEF SessionsInv, Clean
  <2>2. tenant' = tenant
    BY DEF Acquire
  <2>3. \A s \in Tasks : s # t /\ at[s] \in InSession => conns'[held'[s]] = conns[held[s]]
    BY <1>4, <1>7 DEF SessionsInv, SessionsTypeOK
  <2>4. conns'[held'[t]] = ConnState(TRUE)
    BY <1>3, <1>4
  <2> QED
    BY <1>5, <2>1, <2>2, <2>3, <2>4 DEF SessionsInv, Clean, InSession
<1> QED
  BY <1>8, <1>9, <1>10 DEF SessionsInv

LEMMA SessionKept ==
  ASSUME SessionsInv, NEW t \in Tasks, SessionAction(t)
  PROVE  SessionsInv'
<1>t. conns \in [Conns -> ConnStates] /\ tenant \in [Tasks -> Scopes]
  BY DEF SessionsInv, SessionsTypeOK, Scopes
<1>h. ASSUME at[t] \in InSession
      PROVE  /\ held[t] \in Conns
             /\ conns[held[t]] \in ConnStates
             /\ conns[held[t]].open
  BY <1>h, Holds DEF SessionsInv
<1>1. CASE Acquire(t)
  BY <1>1, AcquireTakes
<1>2. CASE OpenFails(t)
  <2>1. waiters' \in Seq(Tasks)
    BY <1>2 DEF OpenFails, MayAcquire, SessionsInv, SessionsTypeOK
  <2> QED
    BY <1>2, <1>t, <2>1, StepOutside DEF OpenFails, MayAcquire, InSession, Between
<1>3. CASE BeginTransaction(t)
  <2> DEFINE state == [open |-> TRUE, tx |-> "open", setting |-> None]
  <2>1. at[t] \in InSession /\ conns[held[t]] = ConnState(TRUE)
    BY <1>3 DEF BeginTransaction, InSession, SessionsInv, Clean
  <2>2. conns' = [conns EXCEPT ![held[t]] = state]
    <3>1. [conns[held[t]] EXCEPT !.tx = "open"] = state
      <4> DEFINE r == conns[held[t]]
      <4>1. r \in ConnStates /\ r.open = TRUE /\ r.setting = None
        BY <1>h, <2>1 DEF ConnState
      <4>2. [r EXCEPT !.tx = "open"] = [open |-> r.open, tx |-> "open", setting |-> r.setting]
        BY <4>1, TxChanged
      <4> QED
        BY <4>1, <4>2
    <3> QED
      BY <1>3, <3>1 DEF BeginTransaction
  <2>3. state \in ConnStates /\ state.open
    BY DEF ConnStates
  <2> HIDE DEF state
  <2>4. "set" \in InSession
    BY DEF InSession
  <2> QED
    BY <1>3, <2>1, <2>2, <2>3, <2>4, StepWithin DEF BeginTransaction, state
<1>4. CASE SetTenant(t)
  <2> DEFINE state == [open |-> TRUE, tx |-> "open", setting |-> tenant[t]]
  <2>1. /\ at[t] \in InSession
        /\ conns[held[t]] = [open |-> TRUE, tx |-> "open", setting |-> None]
    BY <1>4 DEF SetTenant, InSession, SessionsInv, Clean
  <2>2. conns' = [conns EXCEPT ![held[t]] = state]
    <3>1. [conns[held[t]] EXCEPT !.setting = tenant[t]] = state
      <4> DEFINE r == conns[held[t]]
      <4>1. r \in ConnStates /\ r.open = TRUE /\ r.tx = "open"
        BY <1>h, <2>1
      <4>2. [r EXCEPT !.setting = tenant[t]] =
              [open |-> r.open, tx |-> r.tx, setting |-> tenant[t]]
        BY <4>1, SettingChanged
      <4> QED
        BY <4>1, <4>2
    <3> QED
      BY <1>4, <3>1 DEF SetTenant
  <2>3. state \in ConnStates /\ state.open
    BY <1>t DEF ConnStates, Scopes
  <2>4. "work" \in InSession
    BY DEF InSession
  <2> HIDE DEF state
  <2> QED
    BY <1>4, <2>1, <2>2, <2>3, <2>4, StepWithin DEF SetTenant, state
<1>5. CASE Work(t)
  <2> DEFINE state == conns[held[t]]
  <2>1. at[t] \in InSession /\ state = [open |-> TRUE, tx |-> "open", setting |-> tenant[t]]
    BY <1>5 DEF Work, InSession, SessionsInv, Clean
  <2>2. conns' = [conns EXCEPT ![held[t]] = state] /\ state \in ConnStates /\ state.open
    BY <1>5, <1>t, <1>h, <2>1 DEF Work
  <2>3. "commit" \in InSession
    BY DEF InSession
  <2> HIDE DEF state
  <2> QED
    BY <1>5, <2>1, <2>2, <2>3, StepWithin DEF Work
<1>c. ASSUME at[t] \in InSession
      PROVE  AfterTransaction(held[t]) = ConnState(TRUE)
  BY <1>c, <1>h DEF AfterTransaction, ConnStates
<1>6. CASE Commit(t)
  BY <1>6, <1>c, StepOut DEF Commit, InSession
<1>7. CASE StatementFails(t)
  <2> DEFINE state == [conns[held[t]] EXCEPT !.tx = IF @ = "open" THEN "aborted" ELSE @]
  <2>1. at[t] \in InSession
    BY <1>7 DEF StatementFails, InSession
  <2>2. conns' = [conns EXCEPT ![held[t]] = state]
    BY <1>7 DEF StatementFails
  <2>3. state \in ConnStates /\ state.open
    BY <1>h, <2>1 DEF ConnStates
  <2>4. "rollback" \in InSession
    BY DEF InSession
  <2> HIDE DEF state
  <2> QED
    BY <1>7, <2>1, <2>2, <2>3, <2>4, StepWithin DEF StatementFails
<1>8. CASE Rollback(t)
  BY <1>8, <1>c, StepOut DEF Rollback, InSession
<1>9. CASE RollbackFails(t)
  BY <1>9, StepOut DEF RollbackFails, InSession
<1>10. ASSUME NEW outcome \in {"done", "failed"}, Query(t, outcome)
       PROVE  SessionsInv'
  <2>1. at[t] \in InSession /\ conns[held[t]] = ConnState(TRUE)
    BY <1>10 DEF Query, InSession, SessionsInv, Clean
  <2> QED
    BY <1>10, <2>1, StepOut DEF Query
<1> QED
  BY <1>1, <1>2, <1>3, <1>4, <1>5, <1>6, <1>7, <1>8, <1>9, <1>10 DEF SessionAction

LEMMA ConnectKept ==
  ASSUME SessionsInv, NEW t \in Tasks, NEW x \in Scopes, Connect(t, x)
  PROVE  SessionsInv'
<1>1. waiters' \in Seq(Tasks)
  BY DEF Connect, SessionsInv, SessionsTypeOK
<1>2. tenant' \in [Tasks -> Scopes] /\ \A s \in Tasks : s # t => tenant'[s] = tenant[s]
  BY DEF Connect, SessionsInv, SessionsTypeOK, Scopes
<1>3. at[t] \notin InSession
  BY DEF Connect, Between, InSession
<1>4. Step(t, "failed") \/ Step(t, "waiting")
  BY DEF Connect
<1> QED
  BY <1>1, <1>2, <1>3, <1>4, StepOutside DEF Connect, Between

LEMMA LeavingKept ==
  ASSUME SessionsInv, NEW t \in Tasks, Leaves(t)
  PROVE  SessionsInv'
<1>1. tenant' \in [Tasks -> Scopes] /\ \A s \in Tasks : s # t => tenant'[s] = tenant[s]
  BY DEF Leaves, SessionsInv, SessionsTypeOK, Scopes
<1>2. at[t] \notin InSession
  BY DEF Leaves, Between, InSession
<1> QED
  BY <1>1, <1>2, StepOutside DEF Leaves, Between, SessionsInv, SessionsTypeOK

LEMMA EndingKept ==
  ASSUME SessionsInv, EndPool
  PROVE  SessionsInv'
<1>1. \A c \in Conns : conns'[c] = IF Free(c) THEN ConnState(FALSE) ELSE conns[c]
  BY DEF EndPool
<1>2. \A t \in Tasks : held[t] # None => held[t] \in Conns /\ conns'[held[t]] = conns[held[t]]
  BY <1>1 DEF Free, SessionsInv, SessionsTypeOK
<1>3. SessionsTypeOK'
  <2>1. conns' \in [Conns -> ConnStates]
    BY ConnStateTyped DEF EndPool, SessionsInv, SessionsTypeOK
  <2> QED
    BY <1>2, <2>1 DEF EndPool, SessionsInv, SessionsTypeOK
<1>4. Exclusive'
  BY DEF EndPool, SessionsInv, Exclusive
<1>5. Clean'
  <2>1. \A c \in Conns : Free(c)' => conns'[c] = ConnState(conns'[c].open)
    BY <1>1 DEF EndPool, Free, ConnState
  <2>2. \A t \in Tasks : at[t] \in InSession => conns'[held[t]] = conns[held[t]]
    BY <1>2 DEF SessionsInv, SessionsTypeOK
  <2> QED
    BY <2>1, <2>2 DEF EndPool, SessionsInv, Clean, InSession
<1> QED
  BY <1>3, <1>4, <1>5 DEF SessionsInv

\* A session step is one of a task that is in a session or waits for one.
LEMMA SessionSteps ==
  ASSUME SessionsTypeOK, NEW t \in Tasks, SessionAction(t)
  PROVE  /\ at[t] \in InSession \cup {"waiting"}
         /\ \A s \in Tasks : s # t => at'[s] = at[s]
         /\ UNCHANGED <<tenant, ending>>
<1>1. at[t] \in InSession \cup {"waiting"}
  BY DEF SessionAction, Acquire, OpenFails, MayAcquire, BeginTransaction, SetTenant, Work, Commit,
         StatementFails, Rollback, RollbackFails, Query, InSession
<1>2. \E step : Step(t, step)
  BY DEF SessionAction, Acquire, OpenFails, BeginTransaction, SetTenant, Work, Commit,
         StatementFails, Rollback, RollbackFails, Query
<1>3. \A s \in Tasks : s # t => at'[s] = at[s]
  BY <1>2 DEF Step, SessionsTypeOK
<1>4. UNCHANGED <<tenant, ending>>
  BY DEF SessionAction, Acquire, OpenFails, BeginTransaction, SetTenant, Work, Commit,
         StatementFails, Rollback, RollbackFails, Query
<1> QED
  BY <1>1, <1>3, <1>4

-----------------------------------------------------------------------------
(* Services. *)

Member(u, x) == \E m \in Memberships : m.active /\ m.user = u /\ m.tenant = x

\* What a task may run sessions for, it runs them for; and a command's are
\* those of its user.
Scoped ==
  /\ \A t \in Tasks :
       /\ at[t] \in InSession \cup {"waiting"} => tenant[t] \in scope[t]
       /\ asker[t] # None => \A x \in scope[t] : Member(asker[t], x)
  /\ \A x \in Tenants : useCases[x] \in {None, x}

\* How far a process that is stopping has come.
Stopping ==
  /\ role = "api" => ~ looping /\ Resting(Cycle) /\ Resting(Renewal)
  /\ role = "api" /\ phase \in {"closing", "ending", "exited"} => stopping
  /\ role = "worker" => \A r \in Requests : Resting(r)
  /\ role = "worker" /\ phase \in {"closing", "ending"} /\ ~ stopping => ~ looping /\ Resting(Cycle)
  /\ StopsGracefully

Inv == TypeOK /\ Exclusive /\ Clean /\ Scoped /\ Stopping

LEMMA TasksAre == Requests \subseteq Tasks /\ Cycle \in Tasks /\ Renewal \in Tasks
  BY ServicesAssumption

LEMMA FinishLeaves == ASSUME NEW t \in Tasks, Finish(t) PROVE Leaves(t)
  BY DEF Finish, Leaves

LEMMA SameSessions ==
  ASSUME SessionsInv, UNCHANGED sessionVars
  PROVE  SessionsInv'
<1>1. SessionsTypeOK' /\ Exclusive'
  BY DEF SessionsInv, SessionsTypeOK, Exclusive, sessionVars
<1>2. Clean'
  BY DEF SessionsInv, Clean, Free, sessionVars
<1> QED
  BY <1>1, <1>2 DEF SessionsInv

LEMMA SessionsKept ==
  ASSUME TypeOK, SessionsInv, [Next]_vars
  PROVE  SessionsInv'
<1>1. ASSUME NEW r \in Requests, Command(r) \/ Webhook(r) \/ Ready(r) \/ HangUp(r)
      PROVE  SessionsInv'
  BY <1>1, SameSessions DEF Command, Webhook, Ready, HangUp
<1>2. ASSUME NEW t \in Tasks, Finish(t)
      PROVE  SessionsInv'
  BY <1>2, FinishLeaves, LeavingKept
<1>3. CASE Poll \/ SendRenewal \/ Signal \/ Exit \/ Crash
  BY <1>3, SameSessions DEF Poll, SendRenewal, Signal, Exit, Crash
<1>4. ASSUME NEW t \in Tasks, NextSession(t)
      PROVE  SessionsInv'
  <2>1. PICK x \in scope[t] : Connect(t, x)
    BY <1>4 DEF NextSession
  <2>2. x \in Scopes
    BY DEF TypeOK, Scopes
  <2> QED
    BY <2>1, <2>2, ConnectKept
<1>5. ASSUME NEW t \in Tasks, SessionStep(t) \/ SessionFails(t)
      PROVE  SessionsInv'
  <2>1. SessionAction(t)
    BY <1>5 DEF SessionStep, SessionFails, SessionAction
  <2> QED
    BY <2>1, SessionKept
<1>6. CASE ServerClosed
  BY <1>6, EndingKept DEF ServerClosed
<1>7. CASE UNCHANGED vars
  BY <1>7, SameSessions DEF vars
<1> QED
  BY <1>1, <1>2, <1>3, <1>4, <1>5, <1>6, <1>7, TasksAre
     DEF Next, TaskStep, Answer, CycleReturns, RenewalEnds, CycleThrows

\* A task that starts, or one that is over, has no session.
LEMMA RestingIsOut ==
  ASSUME TypeOK, NEW t \in Tasks, Resting(t)
  PROVE  at[t] = "out"
  BY DEF TypeOK, Resting

\* A command is handled by the use cases of the tenant it names, of which its
\* user is a member.
LEMMA CommandForMember ==
  ASSUME TypeOK, Scoped, NEW u \in Users, NEW named \in Tenants, NEW x \in RequestContext(u, named)
  PROVE  x \in Tenants /\ UseCasesByTenant(x) = x /\ Member(u, x)
<1>1. PICK m \in Memberships : m.user = u /\ m.tenant = named /\ m.active /\ x = m.tenant
  BY DEF RequestContext, ActiveMembership, MembershipsOf
<1>2. x \in Tenants /\ Member(u, x)
  BY <1>1 DEF Member
<1>3. UseCasesByTenant(x) = x
  BY <1>2 DEF UseCasesByTenant, Scoped
<1> QED
  BY <1>2, <1>3

LEMMA TypesKept ==
  ASSUME Inv, [Next]_vars
  PROVE  TypeOK'
<1> DEFINE Whole ==
      /\ role \in {"api", "worker"}
      /\ phase \in {"up", "closing", "ending", "exited", "crashed"}
      /\ stopping \in BOOLEAN /\ looping \in BOOLEAN
      /\ phase \in {"up", "closing"} => ~ ending
      /\ phase = "ending" => ending
    Parts ==
      /\ scope \in [Tasks -> SUBSET (Tenants \cup {None})]
      /\ left \in [Tasks -> 0..MaxSessions]
      /\ asker \in [Tasks -> Users \cup {None}]
      /\ gone \subseteq Requests
      /\ useCases \in [Tenants -> Tenants \cup {None}]
      /\ late \in Nat /\ faults \in Nat
    OutAtRest == \A t \in Tasks : scope[t] = {} => at[t] = "out"
<1> USE DEF Inv
<1>0. Whole /\ Parts /\ OutAtRest /\ SessionsInv /\ SessionsTypeOK
  BY DEF TypeOK, SessionsInv
<1>1. SessionsTypeOK'
  BY <1>0, SessionsKept DEF SessionsInv
<1>m. MaxSessions \in Nat /\ MaxSessions \in 0..MaxSessions /\ 0 \in 0..MaxSessions
  BY ServicesAssumption
<1>2. Whole' /\ Parts' /\ OutAtRest'
  <2>1. ASSUME NEW t \in Tasks, NEW u \in Users \cup {None},
               NEW xs \in SUBSET (Tenants \cup {None}), Start(t, u, xs),
               useCases' \in [Tenants -> Tenants \cup {None}], late' \in Nat,
               UNCHANGED <<sessionVars, processVars, faults>>
        PROVE  Whole' /\ Parts' /\ OutAtRest'
    <3>1. Whole' /\ Parts'
      BY <1>0, <1>m, <2>1 DEF Start, sessionVars, processVars
    <3>2. OutAtRest'
      BY <1>0, <2>1, RestingIsOut DEF Start, sessionVars
    <3> QED
      BY <3>1, <3>2
  <2>2. ASSUME NEW t \in Tasks, Finish(t), UNCHANGED <<role, stopping, faults>>,
               looping' \in BOOLEAN, phase' = phase \/ (phase = "up" /\ phase' = "closing")
        PROVE  Whole' /\ Parts' /\ OutAtRest'
    <3>1. Whole' /\ Parts'
      BY <1>0, <1>m, <2>2 DEF Finish
    <3>2. OutAtRest'
      BY <1>0, <2>2 DEF Finish, Step, SessionsTypeOK
    <3> QED
      BY <3>1, <3>2
  <2>3. ASSUME NEW r \in Requests, Command(r) \/ Webhook(r) \/ Ready(r)
        PROVE  Whole' /\ Parts' /\ OutAtRest'
    <3>l. late' \in Nat
      BY <1>0, <2>3 DEF Command, Webhook, Ready, Listening
    <3>1. CASE Command(r)
      <4>1. PICK u \in Users, named \in Tenants : \E x \in RequestContext(u, named) :
              /\ useCases' = [useCases EXCEPT ![x] = UseCasesByTenant(x)]
              /\ Start(r, u, {UseCasesByTenant(x)})
        BY <3>1 DEF Command
      <4>2. PICK x \in RequestContext(u, named) :
              /\ useCases' = [useCases EXCEPT ![x] = UseCasesByTenant(x)]
              /\ Start(r, u, {UseCasesByTenant(x)})
        BY <4>1
      <4>3. x \in Tenants /\ UseCasesByTenant(x) = x
        BY CommandForMember
      <4>4. useCases' \in [Tenants -> Tenants \cup {None}]
        BY <1>0, <4>2, <4>3
      <4>5. UNCHANGED <<sessionVars, processVars, faults>>
        BY <3>1 DEF Command
      <4>6. {x} \in SUBSET (Tenants \cup {None}) /\ r \in Tasks /\ u \in Users \cup {None}
        BY <4>3, TasksAre
      <4>7. Start(r, u, {x})
        BY <4>2, <4>3
      <4> HIDE DEF Whole, Parts, OutAtRest, Inv
      <4> QED
        BY <2>1, <3>l, <4>4, <4>5, <4>6, <4>7
    <3>2. CASE Webhook(r) \/ Ready(r)
      <4>1. WebhookTenant \in Tenants
        BY ServicesAssumption
      <4> QED
        BY <1>0, <2>1, <3>l, <3>2, <4>1, TasksAre DEF Webhook, Ready
    <3> QED
      BY <2>3, <3>1, <3>2
  <2>4. CASE Poll \/ SendRenewal
    <3>1. WorkerTenant \in Tenants
      BY ServicesAssumption
    <3> QED
      BY <1>0, <2>1, <2>4, <3>1, TasksAre DEF Poll, SendRenewal
  <2>5. ASSUME NEW r \in Requests, Answer(r)
        PROVE  Whole' /\ Parts' /\ OutAtRest'
    BY <1>0, <2>2, <2>5, TasksAre DEF Answer, processVars
  <2>6. CASE CycleReturns \/ RenewalEnds \/ CycleThrows
    BY <1>0, <2>2, <2>6, TasksAre DEF CycleReturns, RenewalEnds, CycleThrows, processVars
  <2>7. ASSUME NEW t \in Tasks, NextSession(t)
        PROVE  Whole' /\ Parts' /\ OutAtRest'
    <3>1. PICK x \in scope[t] : Connect(t, x)
      BY <2>7 DEF NextSession
    <3>2. Whole' /\ Parts'
      <4>1. left' \in [Tasks -> 0..MaxSessions]
        BY <1>0, <1>m, <2>7 DEF NextSession
      <4> QED
        BY <1>0, <2>7, <3>1, <4>1 DEF NextSession, Connect, processVars
    <3>3. OutAtRest'
      BY <1>0, <2>7, <3>1 DEF NextSession, Connect, Step, SessionsTypeOK
    <3> QED
      BY <3>2, <3>3
  <2>8. ASSUME NEW t \in Tasks, SessionStep(t) \/ SessionFails(t)
        PROVE  Whole' /\ Parts' /\ OutAtRest'
    <3>1. SessionAction(t)
      BY <2>8 DEF SessionStep, SessionFails, SessionAction
    <3>2. Whole' /\ Parts'
      BY <1>0, <2>8, <3>1, SessionSteps DEF SessionStep, SessionFails, Fault, taskVars, processVars
    <3>3. OutAtRest'
      <4>1. scope' = scope
        BY <2>8 DEF SessionStep, SessionFails, taskVars
      <4>2. scope[t] # {}
        BY <1>0, <3>1, SessionSteps DEF InSession
      <4> QED
        BY <1>0, <3>1, <4>1, <4>2, SessionSteps
    <3> QED
      BY <3>2, <3>3
  <2>9. CASE Signal \/ Exit \/ Crash \/ UNCHANGED vars
    <3>1. UNCHANGED <<at, ending, scope, left, asker, gone, useCases, late>>
      BY <2>9 DEF Signal, Exit, Crash, sessionVars, taskVars, vars
    <3>2. Whole'
      <4>0. Whole /\ ending' = ending
        BY <1>0, <3>1
      <4> HIDE DEF Inv
      <4>1. CASE Signal
        BY <4>0, <4>1 DEF Signal
      <4>2. CASE Exit
        BY <4>0, <4>2 DEF Exit
      <4>3. CASE Crash
        BY <4>0, <4>3 DEF Crash
      <4>4. CASE UNCHANGED vars
        BY <4>0, <4>4 DEF vars, processVars
      <4> QED
        BY <2>9, <4>1, <4>2, <4>3, <4>4
    <3>3. faults' \in Nat
      BY <1>0, <2>9 DEF Signal, Exit, Crash, Fault, vars
    <3>4. Parts' /\ OutAtRest'
      BY <1>0, <3>1, <3>3
    <3> QED
      BY <3>2, <3>4
  <2>10. CASE ServerClosed
    BY <1>0, <2>10 DEF ServerClosed, EndPool, taskVars
  <2>11. ASSUME NEW r \in Requests, HangUp(r)
         PROVE  Whole' /\ Parts' /\ OutAtRest'
    BY <1>0, <2>11 DEF HangUp, sessionVars, processVars
  <2> HIDE DEF Whole, Parts, OutAtRest, Inv
  <2> QED
    BY <2>3, <2>4, <2>5, <2>6, <2>7, <2>8, <2>9, <2>10, <2>11 DEF Next, TaskStep
<1> QED
  BY <1>1, <1>2 DEF TypeOK

LEMMA ScopedKept ==
  ASSUME Inv, [Next]_vars
  PROVE  Scoped'
<1> DEFINE Task(t) ==
      /\ at[t] \in InSession \cup {"waiting"} => tenant[t] \in scope[t]
      /\ asker[t] # None => \A x \in scope[t] : Member(asker[t], x)
    Cached == \A x \in Tenants : useCases[x] \in {None, x}
<1>0. /\ TypeOK /\ SessionsInv /\ SessionsTypeOK /\ Scoped /\ Cached
      /\ \A t \in Tasks : Task(t)
      /\ scope \in [Tasks -> SUBSET (Tenants \cup {None})] /\ asker \in [Tasks -> Users \cup {None}]
      /\ useCases \in [Tenants -> Tenants \cup {None}]
      /\ at \in [Tasks -> InSession \cup Between \cup {"waiting"}]
      /\ tenant \in [Tasks -> Tenants \cup {None}]
  BY DEF Inv, TypeOK, SessionsInv, SessionsTypeOK, Scoped
<1>a. \A t \in Tasks : Task(t)
  BY <1>0
<1>1. ASSUME NEW t \in Tasks, NEW u, NEW xs, Start(t, u, xs), UNCHANGED sessionVars,
             u = None \/ \A x \in xs : Member(u, x)
      PROVE  \A s \in Tasks : Task(s)'
  <2>1. at[t] = "out"
    BY <1>0, <1>1, RestingIsOut DEF Start
  <2>2. \A s \in Tasks : s # t => scope'[s] = scope[s] /\ asker'[s] = asker[s]
    BY <1>0, <1>1 DEF Start
  <2>3. scope'[t] = xs /\ asker'[t] = u
    BY <1>0, <1>1 DEF Start
  <2>4. at' = at /\ tenant' = tenant
    BY <1>1 DEF sessionVars
  <2> QED
    BY <1>a, <1>1, <2>1, <2>2, <2>3, <2>4 DEF Member, InSession
<1>2. ASSUME NEW t \in Tasks, Finish(t)
      PROVE  Cached' /\ \A s \in Tasks : Task(s)'
  <2>1. \A s \in Tasks : s # t => /\ scope'[s] = scope[s] /\ asker'[s] = asker[s]
                                /\ at'[s] = at[s] /\ tenant'[s] = tenant[s]
    BY <1>0, <1>2 DEF Finish, Step
  <2>2. at'[t] = "out" /\ asker'[t] = None /\ UNCHANGED useCases
    BY <1>0, <1>2 DEF Finish, Step
  <2> QED
    BY <1>0, <1>a, <2>1, <2>2 DEF Member, InSession
<1>3. ASSUME NEW r \in Requests, Command(r)
      PROVE  Cached' /\ \A s \in Tasks : Task(s)'
  <2>1. PICK u \in Users, named \in Tenants : \E x \in RequestContext(u, named) :
          /\ useCases' = [useCases EXCEPT ![x] = UseCasesByTenant(x)]
          /\ Start(r, u, {UseCasesByTenant(x)})
    BY <1>3 DEF Command
  <2>2. PICK x \in RequestContext(u, named) :
          /\ useCases' = [useCases EXCEPT ![x] = UseCasesByTenant(x)]
          /\ Start(r, u, {UseCasesByTenant(x)})
    BY <2>1
  <2>3. x \in Tenants /\ UseCasesByTenant(x) = x /\ Member(u, x)
    BY <1>0, CommandForMember
  <2>4. Cached'
    BY <1>0, <2>2, <2>3
  <2>5. UNCHANGED sessionVars /\ r \in Tasks /\ Start(r, u, {x}) /\ \A y \in {x} : Member(u, y)
    BY <1>3, <2>2, <2>3, TasksAre DEF Command
  <2> HIDE DEF Task, Cached
  <2> QED
    BY <1>1, <2>4, <2>5
<1>4. ASSUME NEW r \in Requests, Webhook(r) \/ Ready(r)
      PROVE  Cached' /\ \A s \in Tasks : Task(s)'
  <2>1. UNCHANGED <<sessionVars, useCases>> /\ r \in Tasks /\ \E xs : Start(r, None, xs)
    BY <1>4, TasksAre DEF Webhook, Ready
  <2>2. Cached'
    BY <1>0, <2>1
  <2> HIDE DEF Task, Cached
  <2> QED
    BY <1>1, <2>1, <2>2
<1>5. CASE Poll \/ SendRenewal
  <2>1. UNCHANGED <<sessionVars, useCases>> /\ \E t \in Tasks : \E xs : Start(t, None, xs)
    BY <1>5, TasksAre DEF Poll, SendRenewal
  <2>2. Cached'
    BY <1>0, <2>1
  <2>3. \A s \in Tasks : Task(s)'
    <3> HIDE DEF Task, Cached
    <3> QED
      BY <1>1, <2>1
  <2> QED
    BY <2>2, <2>3 DEF Scoped
<1>6. ASSUME NEW t \in Tasks, NextSession(t)
      PROVE  Cached' /\ \A s \in Tasks : Task(s)'
  <2>1. PICK x \in scope[t] : Connect(t, x)
    BY <1>6 DEF NextSession
  <2>2. \A s \in Tasks : s # t => at'[s] = at[s] /\ tenant'[s] = tenant[s]
    BY <1>0, <2>1 DEF Connect, Step
  <2>3. tenant'[t] = x /\ UNCHANGED <<scope, asker, useCases>>
    BY <1>0, <1>6, <2>1 DEF Connect, NextSession
  <2> QED
    BY <1>0, <1>a, <2>2, <2>3 DEF Member
<1>7. ASSUME NEW t \in Tasks, SessionStep(t) \/ SessionFails(t)
      PROVE  Cached' /\ \A s \in Tasks : Task(s)'
  <2>1. SessionAction(t)
    BY <1>7 DEF SessionStep, SessionFails, SessionAction
  <2>2. UNCHANGED <<scope, asker, useCases>>
    BY <1>7 DEF SessionStep, SessionFails, taskVars
  <2>3. /\ at[t] \in InSession \cup {"waiting"} /\ tenant' = tenant
        /\ \A s \in Tasks : s # t => at'[s] = at[s]
    BY <1>0, <2>1, SessionSteps
  <2> QED
    BY <1>0, <1>a, <2>2, <2>3 DEF Member
<1>8. CASE Signal \/ Exit \/ Crash \/ ServerClosed \/ (\E r \in Requests : HangUp(r)) \/ UNCHANGED vars
  <2>1. UNCHANGED <<at, tenant, scope, asker, useCases>>
    BY <1>8 DEF Signal, Exit, Crash, ServerClosed, EndPool, HangUp, sessionVars, taskVars, vars
  <2>2. Cached' /\ \A t \in Tasks : Task(t)'
    BY <1>0, <1>a, <2>1 DEF Member
  <2> QED
    BY <2>2 DEF Scoped
<1>9. Cached' /\ \A t \in Tasks : Task(t)'
  <2>1. CASE Scoped'
    BY <2>1 DEF Scoped
  <2>2. ASSUME NEW t \in Tasks, Finish(t) PROVE Cached' /\ \A s \in Tasks : Task(s)'
    BY <1>2, <2>2
  <2> HIDE DEF Task, Cached
  <2> QED
    BY <1>3, <1>4, <1>5, <1>6, <1>7, <1>8, <2>1, <2>2, TasksAre
       DEF Next, TaskStep, Answer, CycleReturns, RenewalEnds, CycleThrows
<1> QED
  BY <1>9 DEF Scoped

LEMMA StoppingKept ==
  ASSUME Inv, [Next]_vars
  PROVE  Stopping'
<1> DEFINE
    \* The sessions an exit may cut off.
    Cut == \A t \in Tasks : at[t] \in InSession => t = Renewal /\ ~ looping /\ stopping
    \* The clients the API's pool may be closed to.
    Unheard == \A r \in Requests : Resting(r) \/ r \in gone
<1>0. /\ TypeOK /\ SessionsTypeOK /\ Stopping
      /\ phase = "exited" => Cut
      /\ role = "api" /\ ending => Unheard
      /\ role \in {"api", "worker"}
      /\ phase \in {"up", "closing", "ending", "exited", "crashed"}
      /\ phase \in {"up", "closing"} => ~ ending
      /\ scope \in [Tasks -> SUBSET (Tenants \cup {None})]
      /\ Requests \subseteq Tasks /\ Cycle \in Tasks /\ Renewal \in Tasks
      /\ Cycle \notin Requests /\ Renewal \notin Requests /\ Cycle # Renewal
      /\ Tasks = Requests \cup {Cycle, Renewal}
  BY ServicesAssumption DEF Inv, TypeOK, Stopping, StopsGracefully
<1>g. Stopping' <=>
        /\ role' = "api" => ~ looping' /\ Resting(Cycle)' /\ Resting(Renewal)'
        /\ role' = "api" /\ phase' \in {"closing", "ending", "exited"} => stopping'
        /\ role' = "worker" => \A r \in Requests : Resting(r)'
        /\ role' = "worker" /\ phase' \in {"closing", "ending"} /\ ~ stopping' =>
             ~ looping' /\ Resting(Cycle)'
        /\ phase' = "exited" => Cut'
        /\ role' = "api" /\ ending' => Unheard'
  BY DEF Stopping, StopsGracefully
<1>s. /\ role = "api" => ~ looping /\ Resting(Cycle) /\ Resting(Renewal)
      /\ role = "api" /\ phase \in {"closing", "ending", "exited"} => stopping
      /\ role = "worker" => \A r \in Requests : Resting(r)
      /\ role = "worker" /\ phase \in {"closing", "ending"} /\ ~ stopping =>
           ~ looping /\ Resting(Cycle)
  BY <1>0 DEF Stopping
<1>1. ASSUME NEW r \in Requests, Command(r) \/ Webhook(r) \/ Ready(r)
      PROVE  Stopping'
  <2>1. role = "api" /\ phase \in {"up", "closing"} /\ UNCHANGED <<processVars, sessionVars>>
    BY <1>1 DEF Command, Webhook, Ready, Listening
  <2>2. \A t \in Tasks : t # r => scope'[t] = scope[t]
    BY <1>0, <1>1 DEF Command, Webhook, Ready, Start
  <2> QED
    BY <1>0, <1>s, <1>g, <2>1, <2>2 DEF Resting, processVars, sessionVars
<1>2. ASSUME NEW t \in Tasks, Finish(t), UNCHANGED <<role, stopping>>, Running,
             \/ UNCHANGED processVars
             \/ t = Cycle /\ role = "worker" /\ ~ looping' /\ phase' = IF phase = "up" THEN "closing" ELSE phase
      PROVE  Stopping'
  <2>1. \A s \in Tasks : Resting(s) => Resting(s)'
    BY <1>0, <1>2 DEF Finish, Resting
  <2>2. Resting(t)' /\ ending' = ending
    BY <1>0, <1>2 DEF Finish, Resting
  <2>3. phase' # "exited"
    BY <1>2 DEF Running, processVars
  <2>4. role = "api" /\ ending => Unheard'
    BY <1>0, <1>2, <2>1, <2>2 DEF Finish
  <2> HIDE DEF Cut, Unheard
  <2>5. CASE UNCHANGED processVars
    BY <1>0, <1>s, <1>g, <2>1, <2>2, <2>3, <2>4, <2>5 DEF processVars
  <2>6. CASE t = Cycle /\ role = "worker" /\ ~ looping' /\ phase' = IF phase = "up" THEN "closing" ELSE phase
    BY <1>0, <1>s, <1>g, <1>2, <2>1, <2>2, <2>3, <2>6
  <2> QED
    BY <1>2, <2>5, <2>6
<1>3. CASE Poll \/ SendRenewal
  <2>1. /\ role = "worker" /\ Running /\ UNCHANGED <<processVars, sessionVars>>
        /\ \A r \in Requests : scope'[r] = scope[r]
    BY <1>0, <1>s, <1>3 DEF Poll, SendRenewal, Start
  <2>2. phase \in {"closing", "ending"} /\ ~ stopping => ~ looping /\ Resting(Cycle)'
    BY <1>0, <1>s, <1>3, <2>1 DEF Poll, SendRenewal, Start, Resting
  <2> QED
    BY <1>0, <1>s, <1>g, <2>1, <2>2 DEF Running, Resting, processVars
<1>5. ASSUME NEW t \in Tasks, NextSession(t) \/ SessionStep(t) \/ SessionFails(t)
      PROVE  Stopping'
  <2>1. Running /\ UNCHANGED <<processVars, scope, gone>>
    BY <1>5 DEF NextSession, SessionStep, SessionFails, taskVars
  <2>2. ending' = ending
    <3>1. CASE NextSession(t)
      BY <3>1 DEF NextSession, Connect
    <3>2. CASE SessionStep(t) \/ SessionFails(t)
      <4>1. SessionAction(t)
        BY <3>2 DEF SessionStep, SessionFails, SessionAction
      <4> QED
        BY <1>0, <4>1, SessionSteps
    <3> QED
      BY <1>5, <3>1, <3>2
  <2> QED
    BY <1>0, <1>s, <1>g, <2>1, <2>2 DEF Running, Resting, processVars
<1>6. CASE Signal
  <2>1. Running /\ stopping' /\ ~ stopping /\ UNCHANGED <<at, ending, scope, gone, role, looping>>
    BY <1>6 DEF Signal, sessionVars, taskVars
  <2>2. phase' = IF phase = "up" THEN "closing" ELSE "exited"
    BY <1>6 DEF Signal
  <2>3. \A t \in Tasks : Resting(t) <=> Resting(t)'
    BY <2>1 DEF Resting
  <2>4. phase' = "exited" => Cut'
    <3> SUFFICES ASSUME phase' = "exited", NEW t \in Tasks, at'[t] \in InSession
                 PROVE  t = Renewal /\ ~ looping' /\ stopping'
      OBVIOUS
    <3>1. phase \in {"closing", "ending"}
      BY <1>0, <2>1, <2>2 DEF Running
    <3>2. role = "worker" /\ ~ looping /\ Resting(Cycle) /\ \A r \in Requests : Resting(r)
      BY <1>0, <1>s, <2>1, <3>1
    <3>3. ~ Resting(t)
      BY <1>0, <2>1, RestingIsOut DEF InSession
    <3> QED
      BY <1>0, <2>1, <3>2, <3>3
  <2>5. role = "api" /\ ending => Unheard'
    BY <1>0, <2>1, <2>3
  <2> HIDE DEF Cut, Unheard
  <2> QED
    BY <1>0, <1>s, <1>g, <2>1, <2>2, <2>3, <2>4, <2>5 DEF Running
<1>7. CASE ServerClosed
  <2>1. /\ phase = "closing" /\ phase' = "ending" /\ UNCHANGED <<scope, gone, role, stopping, looping>>
        /\ role = "api" => Unheard
    BY <1>7 DEF ServerClosed, taskVars
  <2> QED
    BY <1>0, <1>s, <1>g, <2>1 DEF Resting
<1>8. CASE Exit
  <2>1. /\ phase = "ending" /\ phase' = "exited" /\ PoolEnded
        /\ UNCHANGED <<at, ending, scope, gone, role, stopping, looping>>
    BY <1>8 DEF Exit, sessionVars, taskVars
  <2>2. \A t \in Tasks : at[t] \notin InSession
    BY <1>0, <2>1 DEF PoolEnded, SessionsTypeOK
  <2> QED
    BY <1>0, <1>s, <1>g, <2>1, <2>2 DEF Resting
<1>9. CASE Crash
  BY <1>0, <1>s, <1>g, <1>9 DEF Crash, Resting, sessionVars, taskVars
<1>10. CASE UNCHANGED vars
  BY <1>0, <1>s, <1>g, <1>10 DEF Resting, vars, sessionVars, processVars, taskVars
<1>11. ASSUME NEW r \in Requests, Answer(r)
       PROVE  Stopping'
  <2>1. r \in Tasks /\ Finish(r) /\ Running /\ UNCHANGED processVars
    BY <1>0, <1>11 DEF Answer
  <2> QED
    BY <1>2, <2>1 DEF processVars
<1>12. CASE CycleReturns \/ RenewalEnds \/ CycleThrows
  BY <1>0, <1>2, <1>12 DEF CycleReturns, RenewalEnds, CycleThrows, processVars
<1>13. ASSUME NEW r \in Requests, HangUp(r)
       PROVE  Stopping'
  BY <1>0, <1>s, <1>g, <1>13 DEF HangUp, Running, Resting, sessionVars, processVars
<1> QED
  BY <1>1, <1>3, <1>5, <1>6, <1>7, <1>8, <1>9, <1>10, <1>11, <1>12, <1>13 DEF Next, TaskStep

LEMMA InvInitially == Init => Inv
<1> SUFFICES ASSUME Init PROVE Inv
  OBVIOUS
<1>0. /\ \A t \in Tasks : at[t] = "out" /\ held[t] = None /\ tenant[t] = None
      /\ \A c \in Conns : conns[c] = ConnState(FALSE)
      /\ \A t \in Tasks : scope[t] = {}
  BY DEF Init, SessionsInit
<1>1. SessionsTypeOK /\ Exclusive /\ Clean
  <2>1. ConnState(FALSE) \in ConnStates /\ ConnState(FALSE).open = FALSE
    BY ConnStateTyped DEF ConnState
  <2>2. << >> \in Seq(Tasks)
    OBVIOUS
  <2>3. SessionsTypeOK
    BY <1>0, <2>1, <2>2 DEF Init, SessionsInit, SessionsTypeOK, InSession, Between
  <2>4. Exclusive
    BY <1>0 DEF Exclusive
  <2>5. Clean
    BY <1>0, <2>1 DEF Clean, InSession
  <2> QED
    BY <2>3, <2>4, <2>5
<1>2. TypeOK
  <2>1. /\ role \in {"api", "worker"} /\ phase = "up" /\ stopping = FALSE /\ looping \in BOOLEAN
        /\ late = 0 /\ faults = 0 /\ ending = FALSE /\ gone = {}
    BY DEF Init, SessionsInit
  <2>2. /\ scope \in [Tasks -> SUBSET (Tenants \cup {None})]
        /\ left \in [Tasks -> 0..MaxSessions]
        /\ asker \in [Tasks -> Users \cup {None}]
        /\ useCases \in [Tenants -> Tenants \cup {None}]
    BY ServicesAssumption DEF Init
  <2> QED
    BY <1>0, <1>1, <2>1, <2>2 DEF TypeOK
<1>3. Scoped
  BY DEF Init, SessionsInit, Scoped, InSession
<1>4. Stopping
  BY TasksAre DEF Init, Stopping, StopsGracefully, Resting
<1> QED
  BY <1>1, <1>2, <1>3, <1>4 DEF Inv

LEMMA InvKept == Inv /\ [Next]_vars => Inv'
<1> SUFFICES ASSUME Inv, [Next]_vars PROVE Inv'
  OBVIOUS
<1>1. TypeOK /\ SessionsInv
  BY DEF Inv, TypeOK, SessionsInv
<1> QED
  BY <1>1, SessionsKept, TypesKept, ScopedKept, StoppingKept DEF Inv, SessionsInv

LEMMA InvAlways == Spec => []Inv
  BY InvInitially, InvKept, PTL DEF Spec

\* Every variable keeps its type, and no task has a connection outside of a
\* session.
THEOREM TypeCorrect == Spec => []TypeOK
<1>1. Inv => TypeOK
  BY DEF Inv
<1> QED
  BY <1>1, InvAlways, PTL

\* Every connection is clean when nobody has it, and a session's queries run
\* inside its transaction under its tenant: withTenantSession's set_config is
\* local, and whatever fails is rolled back before the release.
THEOREM SessionsStayIsolated == Spec => []SessionsIsolated
<1>1. Inv => SessionsIsolated
  BY DEF Inv, Clean, SessionsIsolated
<1> QED
  BY <1>1, InvAlways, PTL

\* The queries of an authenticated command run under a tenant its user is an
\* active member of, for any set of memberships and any cached use cases.
THEOREM OnlyMembers == Spec => []MembersOnly
<1>1. Inv => MembersOnly
  <2> SUFFICES ASSUME Inv, NEW r \in Requests, asker[r] # None, at[r] = "work"
               PROVE  \E m \in Memberships :
                        m.active /\ m.user = asker[r] /\ m.tenant = conns[held[r]].setting
    BY DEF MembersOnly
  <2>1. r \in Tasks
    BY TasksAre
  <2>2. conns[held[r]].setting = tenant[r]
    <3>1. conns[held[r]] = [open |-> TRUE, tx |-> "open", setting |-> tenant[r]]
      BY <2>1 DEF Inv, Clean
    <3> QED
      BY <3>1
  <2>3. Member(asker[r], tenant[r])
    BY <2>1 DEF Inv, Scoped, InSession
  <2> QED
    BY <2>2, <2>3 DEF Member
<1> QED
  BY <1>1, InvAlways, PTL

\* Both processes let every session with the database end before they exit,
\* also those of requests whose client hung up; a renewal alone may be cut off,
\* by a signal that comes after a cycle threw.  And the API closes its pool to
\* no request whose client waits, however many arrive while it is closing.
THEOREM GracefulStop == Spec => []StopsGracefully
<1>1. Inv => StopsGracefully
  BY DEF Inv, Stopping
<1> QED
  BY <1>1, InvAlways, PTL
=============================================================================
