------------------------ MODULE InvoiceMonitorProofs -------------------------
(***************************************************************************)
(* Proofs about InvoiceMonitor, for any workers, jobs and faults.  The     *)
(* monitored pipeline is the pipeline, so what InvoicePipelineProofs shows *)
(* holds of it.                                                            *)
(***************************************************************************)
EXTENDS InvoiceMonitor, InvoicePipelineProofs, FiniteSetTheorems

-----------------------------------------------------------------------------
(* Sums.                                                                    *)

LEMMA UnitsDef ==
  ASSUME NEW f, NEW u
  PROVE  u \in Units(f) <=> \E x \in DOMAIN f : \E n \in 1..f[x] : u = <<x, n>>
  BY DEF Units

\* A sum over a finite set is a number.
LEMMA SumTyped ==
  ASSUME NEW S, IsFiniteSet(S), NEW f \in [S -> Nat]
  PROVE  IsFiniteSet(Units(f)) /\ SumOf(f) \in Nat
<1> DEFINE Part(x) == {<<x, n>> : n \in 1..f[x]}
           Parts == {Part(x) : x \in S}
<1>1. ASSUME NEW x \in S PROVE IsFiniteSet(Part(x))
  <2> DEFINE g == [n \in 1..f[x] |-> <<x, n>>]
  <2>1. g \in Surjection(1..f[x], Part(x))
    BY DEF Surjection
  <2>2. IsFiniteSet(1..f[x])
    BY FS_Interval
  <2> HIDE DEF g, Part
  <2> QED
    BY <2>1, <2>2, FS_Surjection
<1>2. IsFiniteSet(Parts)
  <2> DEFINE g == [x \in S |-> Part(x)]
  <2>1. g \in Surjection(S, Parts)
    <3> HIDE DEF Part
    <3> QED
      BY DEF Surjection
  <2> HIDE DEF g, Parts
  <2> QED
    BY <2>1, FS_Surjection
<1>3. IsFiniteSet(UNION Parts)
  <2>1. \A T \in Parts : IsFiniteSet(T)
    BY <1>1
  <2> HIDE DEF Parts
  <2> QED
    BY <1>2, <2>1, FS_UNION
<1>4. Units(f) = UNION Parts
  BY DEF Units
<1> QED
  BY <1>3, <1>4, FS_CardinalityType DEF SumOf

\* It grows with its terms, and by one when one of them does.
LEMMA SumMonotone ==
  ASSUME NEW S, IsFiniteSet(S), NEW f \in [S -> Nat], NEW g \in [S -> Nat],
         \A x \in S : f[x] <= g[x]
  PROVE  SumOf(f) <= SumOf(g)
<1>1. Units(f) \subseteq Units(g)
  <2> SUFFICES ASSUME NEW x \in S, NEW n \in 1..f[x]
               PROVE  <<x, n>> \in Units(g)
    BY UnitsDef
  <2>1. n \in 1..g[x]
    OBVIOUS
  <2> QED
    BY <2>1, UnitsDef
<1> QED
  BY <1>1, SumTyped, FS_Subset DEF SumOf

LEMMA SumAdds ==
  ASSUME NEW S, IsFiniteSet(S), NEW f \in [S -> Nat], NEW x \in S
  PROVE  SumOf([f EXCEPT ![x] = @ + 1]) = SumOf(f) + 1
<1> DEFINE g == [f EXCEPT ![x] = @ + 1]
           u == <<x, f[x] + 1>>
<1>0. DOMAIN g = S /\ \A y \in S : g[y] = IF y = x THEN f[x] + 1 ELSE f[y]
  OBVIOUS
<1> HIDE DEF g
<1>1. Units(g) = Units(f) \cup {u}
  <2>1. ASSUME NEW v \in Units(g) PROVE v \in Units(f) \cup {u}
    <3>1. PICK y \in S : \E n \in 1..g[y] : v = <<y, n>>
      BY <1>0, <2>1, UnitsDef
    <3>2. PICK n \in 1..g[y] : v = <<y, n>>
      BY <3>1
    <3>3. n \in 1..f[y] \/ (y = x /\ n = f[x] + 1)
      BY <1>0
    <3> QED
      BY <3>2, <3>3, UnitsDef
  <2>2. ASSUME NEW v \in Units(f) PROVE v \in Units(g)
    <3>1. PICK y \in S : \E n \in 1..f[y] : v = <<y, n>>
      BY <2>2, UnitsDef
    <3>2. PICK n \in 1..f[y] : v = <<y, n>>
      BY <3>1
    <3>3. n \in 1..g[y] /\ y \in DOMAIN g
      BY <1>0
    <3> QED
      BY <3>2, <3>3, UnitsDef
  <2>3. u \in Units(g)
    <3>1. f[x] + 1 \in 1..g[x] /\ x \in DOMAIN g
      BY <1>0
    <3> QED
      BY <3>1, UnitsDef
  <2> QED
    BY <2>1, <2>2, <2>3
<1>2. u \notin Units(f)
  BY UnitsDef
<1>3. SumOf(g) = SumOf(f) + 1
  BY <1>1, <1>2, SumTyped, FS_AddElement DEF SumOf
<1> QED
  BY <1>3 DEF g

\* The sizes of disjoint parts of a set do not add up to more than its size.
LEMMA SumOfParts ==
  ASSUME NEW S, NEW T, IsFiniteSet(T), NEW P \in [S -> SUBSET T],
         \A x, y \in S : P[x] \cap P[y] # {} => x = y
  PROVE  SumOf([x \in S |-> Cardinality(P[x])]) <= Cardinality(T)
<1> DEFINE size == [x \in S |-> Cardinality(P[x])]
           B == [x \in S |-> CHOOSE b : b \in Bijection(1..size[x], P[x])]
           F == [u \in Units(size) |-> B[u[1]][u[2]]]
<1>1. \A x \in S : size[x] \in Nat /\ B[x] \in Bijection(1..size[x], P[x])
  <2> SUFFICES ASSUME NEW x \in S
               PROVE  size[x] \in Nat /\ B[x] \in Bijection(1..size[x], P[x])
    OBVIOUS
  <2>1. IsFiniteSet(P[x])
    BY FS_Subset
  <2>2. size[x] \in Nat /\ \E b : b \in Bijection(1..size[x], P[x])
    BY <2>1, FS_CardinalityType DEF ExistsBijection
  <2> QED
    BY <2>2
<1>2. \A x \in S : \A m, n \in 1..size[x] :
        B[x][m] \in P[x] /\ (B[x][m] = B[x][n] => m = n)
  <2> HIDE DEF B, size
  <2> QED
    BY <1>1 DEF Bijection, Injection, IsInjective
<1>3. \A u \in Units(size) : u[1] \in S /\ u[2] \in 1..size[u[1]] /\ u = <<u[1], u[2]>>
  <2>1. DOMAIN size = S
    OBVIOUS
  <2> HIDE DEF size
  <2> QED
    BY <2>1, UnitsDef
<1>4. F \in Injection(Units(size), T)
  <2> HIDE DEF B, size
  <2>1. \A u \in Units(size) : F[u] = B[u[1]][u[2]] /\ F[u] \in P[u[1]]
    BY <1>2, <1>3
  <2>2. F \in [Units(size) -> T]
    BY <1>3, <2>1
  <2>3. ASSUME NEW u \in Units(size), NEW v \in Units(size), F[u] = F[v] PROVE u = v
    <3>1. u[1] = v[1]
      BY <1>3, <2>1, <2>3
    <3> QED
      BY <1>2, <1>3, <2>1, <2>3, <3>1
  <2> QED
    BY <2>2, <2>3 DEF Injection, IsInjective
<1> HIDE DEF F
<1> QED
  BY <1>4, FS_Injection DEF SumOf

-----------------------------------------------------------------------------
(* The pipeline under its monitors.                                         *)

LEMMA MonitoredStep == [MonitoredNext]_<<vars, monitorVars>> => [Next]_vars
<1>1. ASSUME NEW w \in Workers,
             ObserveClaim(w) \/ ObserveFinish(w) \/ ObserveHandle(w) \/ ProcessDies(w)
               \/ Unobserved(w)
      PROVE  Next
  BY <1>1 DEF ObserveClaim, ObserveFinish, ObserveHandle, ProcessDies, Unobserved,
    Next, Progress, WorkerFaults, Heartbeat
<1>2. ASSUME Elsewhere PROVE Next
  BY <1>2 DEF Elsewhere, Next
<1> QED
  BY <1>1, <1>2 DEF MonitoredNext

\* Monitors do not interfere: the pipeline they watch behaves as it would
\* without them (observers run inside notifyObserver, which swallows errors).
THEOREM MonitoredIsPipeline == MonitoredSpec => Spec
  BY MonitoredStep, PTL DEF MonitoredSpec, Spec

-----------------------------------------------------------------------------
\* A mark that is told of took its job out of processing, to one of the three
\* statuses the monitor has a name for.
LEMMA MarksTold ==
  ASSUME TypeOK, NEW w \in Workers, Finish(w) \/ Handle(w), jobs' # jobs
  PROVE  /\ held[w].job \in Jobs
         /\ jobs[held[w].job].status = "processing"
         /\ jobs'[held[w].job].status \in {"queued", "completed", "failed"}
<1>1. held[w] \in Leases /\ held[w].job \in Jobs
  BY HeldTyped DEF TypeOK, WorkersTypeOK, Finish, Handle
<1>2. jobs \in [Jobs -> JobRows]
  BY DEF TypeOK
<1>3. CASE MarkCompleted(held[w], result[w])
  BY <1>1, <1>2, <1>3 DEF MarkCompleted, Mark, Owns, JobRows
<1>4. CASE MarkFailure(w)
  <2>1. ASSUME NEW row, Mark(held[w], [jobs[held[w].job] EXCEPT !.status = row])
        PROVE  jobs'[held[w].job].status = row
    BY <1>1, <1>2, <2>1 DEF Mark, JobRows
  <2>2. CASE MarkRetry(held[w], tries[w] + 1)
    BY <1>1, <1>2, <2>2 DEF MarkRetry, Mark, Owns, JobRows
  <2>3. CASE MarkDeadLetter(held[w])
    BY <1>1, <2>1, <2>3 DEF MarkDeadLetter, Mark, Owns
  <2> QED
    BY <1>4, <2>2, <2>3 DEF MarkFailure
<1> QED
  BY <1>3, <1>4 DEF Finish, Handle

LEMMA NextMonitored ==
  ASSUME TypeOK, TriesCurrent, MonitorTypeOK, EndsKnown,
         [MonitoredNext]_<<vars, monitorVars>>
  PROVE  MonitorTypeOK' /\ EndsKnown'
<1>f. EndsFinal
  BY MonitoredStep, NextEndsFinal
<1>t. seen \in [Workers -> [Jobs -> RuntimeJobStates]] /\ retried \in [Workers -> Nat]
  BY DEF MonitorTypeOK
<1>0. ASSUME UNCHANGED monitorVars PROVE MonitorTypeOK' /\ EndsKnown'
  BY <1>0, <1>f, <1>t DEF monitorVars, MonitorTypeOK, EndsKnown, EndsFinal, RuntimeJobStates
<1>1. ASSUME NEW w \in Workers, NEW j \in Jobs, Note(w, j, "processing"),
             retried' \in [Workers -> Nat]
      PROVE  MonitorTypeOK' /\ EndsKnown'
  <2>2. \A x \in Workers, i \in Jobs :
          seen'[x][i] = IF x = w /\ i = j THEN "processing" ELSE seen[x][i]
    BY <1>1, <1>t DEF Note
  <2>3. MonitorTypeOK'
    BY <1>1, <1>t DEF Note, MonitorTypeOK, RuntimeJobStates
  <2>4. \A x \in Workers, i \in Jobs :
          /\ seen'[x][i] = "completed" => jobs'[i].status = "completed"
          /\ seen'[x][i] = "dead_lettered" => jobs'[i].status = "failed"
    BY <1>f, <2>2 DEF EndsKnown, EndsFinal
  <2>5. \A x, y \in Workers, i \in Jobs :
          seen'[x][i] = seen'[y][i] /\ seen'[x][i] \in {"completed", "dead_lettered"} => x = y
    BY <2>2 DEF EndsKnown
  <2> QED
    BY <2>3, <2>4, <2>5 DEF EndsKnown
<1>2. ASSUME NEW w \in Workers, ObserveClaim(w)
      PROVE  MonitorTypeOK' /\ EndsKnown'
  <2>1. held'[w].job \in Jobs
    BY <1>2 DEF ObserveClaim, Claim, TypeOK, WorkersTypeOK
  <2> QED
    BY <1>1, <1>2, <1>t, <2>1 DEF ObserveClaim
<1>3. ASSUME NEW w \in Workers, Finish(w) \/ Handle(w), ObserveMark(w)
      PROVE  MonitorTypeOK' /\ EndsKnown'
  <2>1. CASE jobs' = jobs
    BY <1>0, <1>3, <2>1 DEF ObserveMark
  <2>2. CASE jobs' # jobs
    <3> DEFINE j == held[w].job
               status == jobs'[j].status
               state == IF status = "failed" THEN "dead_lettered" ELSE status
    <3>1. /\ j \in Jobs
          /\ jobs[j].status = "processing"
          /\ status \in {"queued", "completed", "failed"}
      BY <1>3, <2>2, MarksTold
    <3>2. Note(w, j, state) /\ retried' \in [Workers -> Nat]
      BY <1>3, <1>t, <2>2 DEF ObserveMark
    <3>3. seen' = [seen EXCEPT ![w][j] = state]
      BY <3>2 DEF Note
    <3>4. \A x \in Workers : seen[x][j] \notin {"completed", "dead_lettered"}
      BY <3>1 DEF EndsKnown
    <3>5. MonitorTypeOK'
      BY <1>t, <3>1, <3>2, <3>3 DEF MonitorTypeOK, RuntimeJobStates
    <3>6. \A x \in Workers, i \in Jobs :
            seen'[x][i] = IF x = w /\ i = j THEN state ELSE seen[x][i]
      BY <1>t, <3>3
    <3>7. \A x \in Workers, i \in Jobs :
            /\ seen'[x][i] = "completed" => jobs'[i].status = "completed"
            /\ seen'[x][i] = "dead_lettered" => jobs'[i].status = "failed"
      BY <1>f, <3>1, <3>6 DEF EndsKnown, EndsFinal
    <3>8. \A x, y \in Workers, i \in Jobs :
            seen'[x][i] = seen'[y][i] /\ seen'[x][i] \in {"completed", "dead_lettered"} => x = y
      BY <3>4, <3>6 DEF EndsKnown
    <3> QED
      BY <3>5, <3>7, <3>8 DEF EndsKnown
  <2> QED
    BY <2>1, <2>2
<1>4. ASSUME NEW w \in Workers, Forget(w)
      PROVE  MonitorTypeOK' /\ EndsKnown'
  <2>1. \A x \in Workers, i \in Jobs : seen'[x][i] = IF x = w THEN "unknown" ELSE seen[x][i]
    BY <1>4, <1>t DEF Forget, NothingSeen
  <2>2. MonitorTypeOK'
    BY <1>4, <1>t DEF Forget, NothingSeen, MonitorTypeOK, RuntimeJobStates
  <2>3. \A x \in Workers, i \in Jobs :
          /\ seen'[x][i] = "completed" => jobs'[i].status = "completed"
          /\ seen'[x][i] = "dead_lettered" => jobs'[i].status = "failed"
    BY <1>f, <2>1 DEF EndsKnown, EndsFinal
  <2>4. \A x, y \in Workers, i \in Jobs :
          seen'[x][i] = seen'[y][i] /\ seen'[x][i] \in {"completed", "dead_lettered"} => x = y
    BY <2>1 DEF EndsKnown
  <2> QED
    BY <2>2, <2>3, <2>4 DEF EndsKnown
<1>5. CASE UNCHANGED <<vars, monitorVars>>
  BY <1>0, <1>5
<1> QED
  BY <1>0, <1>2, <1>3, <1>4, <1>5
  DEF MonitoredNext, ObserveFinish, ObserveHandle, ProcessDies, Unobserved, Elsewhere

\* Whatever leases, faults and restarts do, a monitor's knowledge of the end of
\* a job is true, and at most one monitor has counted it.
THEOREM EndsAreKnown == MonitoredSpec => []EndsKnown
<1>1. Init /\ MonitorInit => MonitorTypeOK /\ EndsKnown /\ TriesCurrent
  BY DEF Init, MonitorInit, MonitorTypeOK, EndsKnown, NothingSeen, RuntimeJobStates,
    TriesCurrent
<1>2. TypeOK /\ TriesCurrent /\ MonitorTypeOK /\ EndsKnown
        /\ [MonitoredNext]_<<vars, monitorVars>> => MonitorTypeOK' /\ EndsKnown'
  BY NextMonitored
<1>3. MonitoredSpec => []TypeOK
  BY MonitoredIsPipeline, TypeCorrect, PTL
<1>4. TypeOK /\ TriesCurrent /\ [MonitoredNext]_<<vars, monitorVars>> => TriesCurrent'
  BY MonitoredStep, NextTries
<1> QED
  BY <1>1, <1>2, <1>3, <1>4, PTL DEF MonitoredSpec

-----------------------------------------------------------------------------
(* The totals.                                                              *)

\* Retries are told after they are in the table.
RetriesCounted == SumOf(retried) <= SumOf(Attempts)

\* No job's count of attempts goes down.
LEMMA AttemptsGrow ==
  ASSUME TypeOK, TriesCurrent, [Next]_vars, NEW j \in Jobs
  PROVE  jobs[j].attempts <= jobs'[j].attempts
<1> DEFINE attempts == [i \in Jobs |-> jobs[i].attempts]
<1>1. attempts \in [Jobs -> Nat]
  BY DEF TypeOK, JobRows
<1>2. attempts' = attempts \/ \E i \in Jobs : attempts' = [attempts EXCEPT ![i] = @ + 1]
  BY NextFollows DEF Lifecycle!Next, Lifecycle!vars, Lifecycle!Enqueue, Lifecycle!Start,
    Lifecycle!Retry, Lifecycle!DeadLetter, Lifecycle!Complete
<1>3. attempts[j] <= attempts'[j]
  <2> HIDE DEF attempts
  <2> QED
    BY <1>1, <1>2
<1> QED
  BY <1>3

\* A job that a mark put back in the queue has one more.
LEMMA RetryAdds ==
  ASSUME TypeOK, TriesCurrent, NEW w \in Workers, Finish(w) \/ Handle(w), jobs' # jobs,
         jobs'[held[w].job].status = "queued"
  PROVE  Attempts' = [Attempts EXCEPT ![held[w].job] = @ + 1]
<1>1. /\ held[w].job \in Jobs /\ jobs \in [Jobs -> JobRows]
      /\ jobs[held[w].job] \in JobRows
  BY HeldTyped DEF TypeOK, Finish, Handle
<1>2. ~ MarkCompleted(held[w], result[w]) /\ ~ MarkDeadLetter(held[w])
  <2>1. CASE MarkCompleted(held[w], result[w])
    BY <1>1, <2>1 DEF MarkCompleted, Mark, JobRows
  <2>2. CASE MarkDeadLetter(held[w])
    BY <1>1, <2>2 DEF MarkDeadLetter, Mark, JobRows
  <2> QED
    BY <2>1, <2>2
<1>3. pc[w] # "idle" /\ MarkRetry(held[w], tries[w] + 1)
  BY <1>2 DEF Finish, Handle, MarkFailure
<1>4. tries[w] = jobs[held[w].job].attempts
  BY <1>3 DEF MarkRetry, Mark, TriesCurrent
<1> DEFINE j == held[w].job
           row == [[jobs[j] EXCEPT !.status = "queued", !.attempts = tries[w] + 1]
                     EXCEPT !.token = None, !.live = FALSE]
<1>5. jobs' = [jobs EXCEPT ![j] = row] /\ row.attempts = tries[w] + 1
  BY <1>1, <1>3 DEF MarkRetry, Mark, JobRows
<1> HIDE DEF row
<1> QED
  BY <1>1, <1>4, <1>5 DEF Attempts

LEMMA NextRetries ==
  ASSUME TypeOK, TypeOK', TriesCurrent, MonitorTypeOK, MonitorTypeOK', RetriesCounted,
         [MonitoredNext]_<<vars, monitorVars>>
  PROVE  RetriesCounted'
<1>t. /\ retried \in [Workers -> Nat] /\ retried' \in [Workers -> Nat]
      /\ Attempts \in [Jobs -> Nat] /\ Attempts' \in [Jobs -> Nat]
      /\ IsFiniteSet(Workers) /\ IsFiniteSet(Jobs)
  BY MonitorAssumption DEF MonitorTypeOK, Attempts, TypeOK, JobRows
<1>s. /\ SumOf(retried) \in Nat /\ SumOf(retried') \in Nat
      /\ SumOf(Attempts) \in Nat /\ SumOf(Attempts') \in Nat
  BY <1>t, SumTyped
<1>g. SumOf(Attempts) <= SumOf(Attempts')
  <2>1. \A j \in Jobs : Attempts[j] <= Attempts'[j]
    BY MonitoredStep, AttemptsGrow DEF Attempts
  <2> HIDE DEF Attempts
  <2> QED
    BY <1>t, <2>1, SumMonotone
<1>0. ASSUME \A w \in Workers : retried'[w] <= retried[w] PROVE RetriesCounted'
  <2>1. SumOf(retried') <= SumOf(retried)
    BY <1>0, <1>t, SumMonotone
  <2> QED
    BY <1>g, <1>s, <2>1 DEF RetriesCounted
<1>u. UNCHANGED retried => RetriesCounted'
  BY <1>0, <1>t
<1>1. ASSUME NEW w \in Workers, Finish(w) \/ Handle(w), ObserveMark(w)
      PROVE  RetriesCounted'
  <2> DEFINE j == held[w].job
  <2>1. CASE jobs' = jobs
    BY <1>1, <1>u, <2>1 DEF ObserveMark, monitorVars
  <2>2. CASE jobs' # jobs /\ jobs'[j].status # "queued"
    BY <1>1, <1>t, <1>u, <2>2 DEF ObserveMark
  <2>3. CASE jobs' # jobs /\ jobs'[j].status = "queued"
    <3>1. retried' = [retried EXCEPT ![w] = @ + 1]
      BY <1>1, <2>3 DEF ObserveMark
    <3>2. j \in Jobs /\ Attempts' = [Attempts EXCEPT ![j] = @ + 1]
      BY <1>1, <2>3, RetryAdds, MarksTold
    <3>3. SumOf(retried') = SumOf(retried) + 1
      BY <1>t, <3>1, SumAdds
    <3>4. SumOf(Attempts') = SumOf(Attempts) + 1
      BY <1>t, <3>2, SumAdds
    <3> QED
      BY <1>s, <3>3, <3>4 DEF RetriesCounted
  <2> QED
    BY <2>1, <2>2, <2>3
<1>2. ASSUME NEW w \in Workers, Forget(w) PROVE RetriesCounted'
  BY <1>0, <1>2, <1>t DEF Forget
<1>3. CASE UNCHANGED <<vars, monitorVars>>
  BY <1>3, <1>u DEF monitorVars
<1> QED
  BY <1>1, <1>2, <1>3, <1>u
  DEF MonitoredNext, ObserveClaim, ObserveFinish, ObserveHandle, ProcessDies, Unobserved,
    Elsewhere, monitorVars

\* Of the jobs of an ending no two monitors know the same, so the sum of what
\* they count is at most the number of jobs that ended so.
LEMMA TotalOfState ==
  ASSUME NEW state, NEW status,
         \A w \in Workers, j \in Jobs : seen[w][j] = state => jobs[j].status = status,
         \A x, y \in Workers, j \in Jobs : seen[x][j] = state /\ seen[y][j] = state => x = y
  PROVE  SumOf([w \in Workers |-> CountState(w, state)]) <= Cardinality(JobsIn(status))
<1> DEFINE P == [w \in Workers |-> {j \in Jobs : seen[w][j] = state}]
           T == JobsIn(status)
<1>1. P \in [Workers -> SUBSET T] /\ \A x, y \in Workers : P[x] \cap P[y] # {} => x = y
  BY DEF JobsIn
<1>2. IsFiniteSet(T)
  BY MonitorAssumption, FS_Subset DEF JobsIn
<1>3. [w \in Workers |-> CountState(w, state)] = [w \in Workers |-> Cardinality(P[w])]
  BY DEF CountState
<1> HIDE DEF P, T
<1>4. SumOf([w \in Workers |-> Cardinality(P[w])]) <= Cardinality(T)
  BY <1>1, <1>2, SumOfParts
<1> QED
  BY <1>3, <1>4 DEF T

LEMMA KnownIsTruthful == EndsKnown /\ RetriesCounted /\ MonitorTypeOK => MonitorTruthful
<1> SUFFICES ASSUME EndsKnown, RetriesCounted, MonitorTypeOK
             PROVE  MonitorTruthful
  OBVIOUS
<1>1. Total("completedCount") <= Cardinality(JobsIn("completed"))
  <2>1. [w \in Workers |-> Snapshot(w)["completedCount"]]
          = [w \in Workers |-> CountState(w, "completed")]
    BY DEF Snapshot
  <2>2. SumOf([w \in Workers |-> CountState(w, "completed")]) <= Cardinality(JobsIn("completed"))
    BY TotalOfState DEF EndsKnown
  <2> QED
    BY <2>1, <2>2 DEF Total
<1>2. Total("deadLetterCount") <= Cardinality(JobsIn("failed"))
  <2>1. [w \in Workers |-> Snapshot(w)["deadLetterCount"]]
          = [w \in Workers |-> CountState(w, "dead_lettered")]
    BY DEF Snapshot
  <2>2. SumOf([w \in Workers |-> CountState(w, "dead_lettered")]) <= Cardinality(JobsIn("failed"))
    BY TotalOfState DEF EndsKnown
  <2> QED
    BY <2>1, <2>2 DEF Total
<1>3. Total("retryScheduledCount") = SumOf(retried)
  <2>1. [w \in Workers |-> Snapshot(w)["retryScheduledCount"]] = retried
    BY DEF Snapshot, MonitorTypeOK
  <2> QED
    BY <2>1 DEF Total
<1> QED
  BY <1>1, <1>2, <1>3 DEF MonitorTruthful, RetriesCounted

\* What the gauges of all workers add up to never exceeds what is in the table:
\* completed jobs, dead letters and retries are counted by one monitor at most,
\* and only once the store has confirmed them.
THEOREM MonitorsTruthful == MonitoredSpec => []MonitorTruthful
<1>1. Init /\ MonitorInit => MonitorTypeOK /\ TriesCurrent /\ RetriesCounted
  <2> SUFFICES ASSUME Init, MonitorInit
               PROVE  MonitorTypeOK /\ TriesCurrent /\ RetriesCounted
    OBVIOUS
  <2>1. MonitorTypeOK /\ TriesCurrent
    BY DEF Init, MonitorInit, MonitorTypeOK, NothingSeen, RuntimeJobStates, TriesCurrent
  <2>2. Units(retried) = {} /\ Units(Attempts) = {}
    <3>1. \A x \in DOMAIN retried : retried[x] = 0
      BY DEF MonitorInit
    <3>2. \A x \in DOMAIN Attempts : Attempts[x] = 0
      BY DEF Init, Attempts, NoJob, Untouched
    <3> QED
      BY <3>1, <3>2, UnitsDef
  <2> QED
    BY <2>1, <2>2, FS_EmptySet DEF RetriesCounted, SumOf
<1>2. TypeOK /\ TriesCurrent /\ MonitorTypeOK /\ EndsKnown
        /\ [MonitoredNext]_<<vars, monitorVars>> => MonitorTypeOK'
  BY NextMonitored
<1>3. TypeOK /\ TypeOK' /\ TriesCurrent /\ MonitorTypeOK /\ MonitorTypeOK' /\ RetriesCounted
        /\ [MonitoredNext]_<<vars, monitorVars>> => RetriesCounted'
  BY NextRetries
<1>4. MonitoredSpec => []TypeOK
  BY MonitoredIsPipeline, TypeCorrect, PTL
<1>5. TypeOK /\ TriesCurrent /\ [MonitoredNext]_<<vars, monitorVars>> => TriesCurrent'
  BY MonitoredStep, NextTries
<1>6. EndsKnown /\ RetriesCounted /\ MonitorTypeOK => MonitorTruthful
  BY KnownIsTruthful
<1> QED
  BY <1>1, <1>2, <1>3, <1>4, <1>5, <1>6, EndsAreKnown, PTL DEF MonitoredSpec
=============================================================================
