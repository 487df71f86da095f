--------------------------- MODULE InvoiceMonitor ----------------------------
(***************************************************************************)
(* The operational monitor of each worker process: what the observers of   *)
(* its jobs count, in the memory of the process, and what its gauges show. *)
(*                                                                         *)
(* A worker is told of a step of its job once the store has confirmed it;  *)
(* what other workers do, what the API enqueues, and a lease found lost,   *)
(* it is not told.                                                         *)
(***************************************************************************)
EXTENDS InvoicePipeline, FiniteSets

\* Processes and jobs can be counted.
ASSUME MonitorAssumption == IsFiniteSet(Workers) /\ IsFiniteSet(Jobs)

VARIABLES
  seen,     \* the state of each job, as each worker's monitor knows it
  retried   \* the retries each monitor has counted

monitorVars == <<seen, retried>>

RuntimeJobStates == {"unknown", "queued", "processing", "completed", "dead_lettered"}

MonitorTypeOK ==
  /\ seen \in [Workers -> [Jobs -> RuntimeJobStates]]
  /\ retried \in [Workers -> Nat]

NothingSeen == [j \in Jobs |-> "unknown"]

MonitorInit ==
  /\ seen = [w \in Workers |-> NothingSeen]
  /\ retried = [w \in Workers |-> 0]

-----------------------------------------------------------------------------
(* The observers. *)

Note(w, j, state) == seen' = [seen EXCEPT ![w][j] = state]

ObserveClaim(w) ==
  /\ Claim(w)
  /\ Note(w, held'[w].job, "processing")
  /\ UNCHANGED retried

\* What is told after a mark: nothing, when the lease was lost.
ObserveMark(w) ==
  LET j == held[w].job
      status == jobs'[j].status
  IN  IF jobs' = jobs THEN UNCHANGED monitorVars
      ELSE /\ Note(w, j, IF status = "failed" THEN "dead_lettered" ELSE status)
           /\ retried' = [retried EXCEPT ![w] = IF status = "queued" THEN @ + 1 ELSE @]

ObserveFinish(w) == Finish(w) /\ ObserveMark(w)

\* Variant: a failure is told before it is marked.
ObserveFailure(w) ==
  /\ Handle(w)
  /\ IF tries[w] + 1 < MaxAttempts
     THEN /\ Note(w, held[w].job, "queued")
          /\ retried' = [retried EXCEPT ![w] = @ + 1]
     ELSE Note(w, held[w].job, "dead_lettered") /\ UNCHANGED retried

ObserveHandle(w) == Handle(w) /\ ObserveMark(w)

\* The monitor dies with its process.
Forget(w) ==
  /\ seen' = [seen EXCEPT ![w] = NothingSeen]
  /\ retried' = [retried EXCEPT ![w] = 0]

ProcessDies(w) ==
  /\ ClaimLost(w) \/ HandleFails(w) \/ Crash(w)
  /\ Forget(w)

\* The other steps of a worker, of which no observer is told.
Unobserved(w) ==
  /\ \/ Begin(w) \/ FindByCycleKey(w) \/ SaveInvoice(w) \/ Audit(w) \/ Record(w) \/ Unwind(w)
     \/ BeginFails(w) \/ ExecuteThrows(w) \/ RecordFails(w) \/ UnwindFails(w)
     \/ FinishFails(w) \/ Heartbeat(w)
  /\ UNCHANGED monitorVars

\* What other processes do, and time.
Elsewhere ==
  /\ \/ \E j \in Jobs : Enqueue(j) \/ LeaseLapses(j) \/ DelayPasses(j)
     \/ \E o \in Operators : ReplayCheck(o) \/ ReplayEnqueue(o)
  /\ UNCHANGED monitorVars

MonitoredNext ==
  \/ \E w \in Workers :
       \/ ObserveClaim(w) \/ ObserveFinish(w) \/ ObserveHandle(w)
       \/ ProcessDies(w) \/ Unobserved(w)
  \/ Elsewhere

MonitoredSpec ==
  Init /\ MonitorInit /\ [][MonitoredNext]_<<vars, monitorVars>>

\* The fairness of the pipeline.
MonitoredFairSpec == MonitoredSpec /\ Fairness

-----------------------------------------------------------------------------
(* The gauges. *)

CountState(w, state) == Cardinality({j \in Jobs : seen[w][j] = state})

Snapshot(w) ==
  [queueDepth |-> CountState(w, "queued"),
   processingCount |-> CountState(w, "processing"),
   completedCount |-> CountState(w, "completed"),
   retryScheduledCount |-> retried[w],
   deadLetterCount |-> CountState(w, "dead_lettered")]

\* The sum of a function is the number of its units.
Units(f) == UNION {{<<x, n>> : n \in 1..f[x]} : x \in DOMAIN f}
SumOf(f) == Cardinality(Units(f))

\* What the gauge adds up to over the workers.
Total(gauge) == SumOf([w \in Workers |-> Snapshot(w)[gauge]])
Attempts == [j \in Jobs |-> jobs[j].attempts]
JobsIn(status) == {j \in Jobs : jobs[j].status = status}

\* What a monitor knows of the end of a job is what became of it, and one
\* monitor at most counts it.
EndsKnown ==
  /\ \A w \in Workers, j \in Jobs :
       /\ seen[w][j] = "completed" => jobs[j].status = "completed"
       /\ seen[w][j] = "dead_lettered" => jobs[j].status = "failed"
  /\ \A w1, w2 \in Workers, j \in Jobs :
       seen[w1][j] = seen[w2][j] /\ seen[w1][j] \in {"completed", "dead_lettered"} => w1 = w2

\* However leases move and marks fail, what the gauges of all workers tell of
\* ended jobs and of retries is true, and nothing is counted by two of them:
\* the rate of terminal failures is one of jobs that did end.
MonitorTruthful ==
  /\ EndsKnown
  /\ Total("completedCount") <= Cardinality(JobsIn("completed"))
  /\ Total("deadLetterCount") <= Cardinality(JobsIn("failed"))
  /\ Total("retryScheduledCount") <= SumOf(Attempts)
=============================================================================
