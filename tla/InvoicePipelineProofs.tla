----------------------- MODULE InvoicePipelineProofs ------------------------
(***************************************************************************)
(* Proofs about InvoicePipeline, for any workers, jobs, cycles and faults. *)
(***************************************************************************)
EXTENDS InvoicePipeline, TLAPS

-----------------------------------------------------------------------------
(* The operations of the job store. *)

\* A claim's token is one nothing refers to.
LEMMA FreshTokenIsFresh ==
  ASSUME ~ Tokens \subseteq TokensInUse
  PROVE  /\ FreshToken \in Tokens
         /\ FreshToken \notin TokensInUse
<1> \E t \in Tokens : t \notin TokensInUse
  OBVIOUS
<1> QED
  BY DEF FreshToken

\* Enqueueing and the passing of time keep the rows well formed.
LEMMA RowsByTime ==
  ASSUME jobs \in [Jobs -> JobRows], NEW j \in Jobs,
         EnqueueJob(j) \/ LeaseRunsOut(j) \/ BecomesDue(j)
  PROVE  jobs' \in [Jobs -> JobRows]
<1>1. CASE EnqueueJob(j)
  <2>1. NewJob \in JobRows
    BY StoreAssumption DEF NewJob, Untouched, JobRows
  <2> QED
    BY <1>1, <2>1 DEF EnqueueJob
<1>2. CASE LeaseRunsOut(j)
  <2>1. [jobs[j] EXCEPT !.live = FALSE] \in JobRows
    BY <1>2 DEF LeaseRunsOut, JobRows
  <2> QED
    BY <1>2, <2>1 DEF LeaseRunsOut
<1>3. CASE BecomesDue(j)
  <2>1. [jobs[j] EXCEPT !.due = TRUE] \in JobRows
    BY <1>3 DEF BecomesDue, JobRows
  <2> QED
    BY <1>3, <2>1 DEF BecomesDue
<1> QED
  BY <1>1, <1>2, <1>3

\* A claim gives a queued or expired job a lease.
LEMMA RowsByClaim ==
  ASSUME jobs \in [Jobs -> JobRows], NEW j \in Jobs, NEW t \in Tokens, ClaimJob(j, t)
  PROVE  jobs' \in [Jobs -> JobRows]
<1>1. jobs[j] \in JobRows /\ jobs[j].invoice = None
  BY DEF ClaimJob, Claimable, IsReady, IsExpired, JobRows
<1>2. [jobs[j] EXCEPT !.status = "processing", !.token = t, !.live = TRUE, !.due = FALSE]
        \in JobRows
  BY <1>1, StoreAssumption DEF JobRows
<1> QED
  BY <1>2 DEF ClaimJob

\* The job of a lease that is owned.
LEMMA OwnedRow ==
  ASSUME jobs \in [Jobs -> JobRows], NEW lease \in Leases, Owns(lease)
  PROVE  /\ lease.job \in Jobs
         /\ jobs[lease.job] \in JobRows
         /\ jobs[lease.job].status = "processing"
         /\ ~ jobs[lease.job].due
         /\ jobs[lease.job].invoice = None
  BY DEF Owns, Leases, JobRows

\* A renewal and each of the marks keep the rows well formed.
LEMMA RowsByRenew ==
  ASSUME jobs \in [Jobs -> JobRows], NEW lease \in Leases, RenewLease(lease)
  PROVE  jobs' \in [Jobs -> JobRows]
<1>1. lease.job \in Jobs /\ jobs[lease.job] \in JobRows /\ jobs[lease.job].status = "processing"
  BY OwnedRow DEF RenewLease
<1>2. [jobs[lease.job] EXCEPT !.live = TRUE] \in JobRows
  BY <1>1 DEF JobRows
<1> QED
  BY <1>1, <1>2 DEF RenewLease

LEMMA RowsByCompleted ==
  ASSUME jobs \in [Jobs -> JobRows], NEW lease \in Leases, NEW v \in Invoices,
         MarkCompleted(lease, v)
  PROVE  jobs' \in [Jobs -> JobRows]
<1> DEFINE row == [[jobs[lease.job] EXCEPT !.status = "completed", !.invoice = v]
                     EXCEPT !.token = None, !.live = FALSE]
<1>1. lease.job \in Jobs /\ jobs[lease.job] \in JobRows /\ ~ jobs[lease.job].due
  BY OwnedRow DEF MarkCompleted, Mark
<1>2. row \in JobRows
  BY <1>1, StoreAssumption DEF JobRows
<1> QED
  BY <1>1, <1>2 DEF MarkCompleted, Mark

LEMMA RowsByRetry ==
  ASSUME jobs \in [Jobs -> JobRows], NEW lease \in Leases,
         NEW n \in 0..(MaxAttempts - 1), MarkRetry(lease, n)
  PROVE  jobs' \in [Jobs -> JobRows]
<1> DEFINE row == [[jobs[lease.job] EXCEPT !.status = "queued", !.attempts = n]
                     EXCEPT !.token = None, !.live = FALSE]
<1>1. /\ lease.job \in Jobs /\ jobs[lease.job] \in JobRows
      /\ ~ jobs[lease.job].due /\ jobs[lease.job].invoice = None
  BY OwnedRow DEF MarkRetry, Mark
<1>2. row \in JobRows
  BY <1>1, StoreAssumption DEF JobRows
<1> QED
  BY <1>1, <1>2 DEF MarkRetry, Mark

LEMMA RowsByDeadLetter ==
  ASSUME jobs \in [Jobs -> JobRows], NEW lease \in Leases, MarkDeadLetter(lease)
  PROVE  jobs' \in [Jobs -> JobRows]
<1> DEFINE row == [[jobs[lease.job] EXCEPT !.status = "failed"]
                     EXCEPT !.token = None, !.live = FALSE]
<1>1. /\ lease.job \in Jobs /\ jobs[lease.job] \in JobRows
      /\ ~ jobs[lease.job].due /\ jobs[lease.job].invoice = None
  BY OwnedRow DEF MarkDeadLetter, Mark
<1>2. row \in JobRows
  BY <1>1, StoreAssumption DEF JobRows
<1> QED
  BY <1>1, <1>2 DEF MarkDeadLetter, Mark

-----------------------------------------------------------------------------
(* Types. *)

\* Going back to idle, or on to another step, keeps the workers' types.
LEMMA ReleaseTyped ==
  ASSUME WorkersTypeOK, NEW w \in Workers, Release(w)
  PROVE  WorkersTypeOK'
<1>1. NoLease \in Leases
  BY DEF NoLease, Leases
<1> QED
  BY <1>1, StoreAssumption DEF WorkersTypeOK, Release, Goto

LEMMA ProceedTyped ==
  ASSUME WorkersTypeOK, NEW w \in Workers, pc[w] # "idle",
         NEW step \in Busy, Proceed(w, step),
         step \in {"audit", "record", "check"} => result[w] # None
  PROVE  WorkersTypeOK'
  BY DEF WorkersTypeOK, Proceed, Goto, Busy, Executing

LEMMA ProceedWithTyped ==
  ASSUME WorkersTypeOK, NEW w \in Workers, pc[w] # "idle",
         NEW step \in Busy, NEW v \in Invoices \cup {None}, ProceedWith(w, step, v),
         step \in {"audit", "record", "check"} => v # None
  PROVE  WorkersTypeOK'
  BY DEF WorkersTypeOK, ProceedWith, Goto, Busy, Executing

\* What a worker at work refers to.
LEMMA HeldTyped ==
  ASSUME TypeOK, NEW w \in Workers, pc[w] # "idle"
  PROVE  /\ held[w] \in Leases
         /\ held[w].job \in Jobs
         /\ held[w].token \in Tokens
         /\ marker[held[w].job] \in Markers
         /\ CycleOf[held[w].job] \in Cycles
         /\ NewInvoice(w) \in Invoices
         /\ NewInvoice(w) # None
<1>1. held[w].job \in Jobs /\ held[w].token \in Tokens /\ held[w] \in Leases
  BY DEF TypeOK, WorkersTypeOK, Leases
<1> QED
  BY <1>1, PipelineAssumption, StoreAssumption DEF TypeOK, NewInvoice, Invoices

\* The idempotency records written are well formed.
LEMMA MarkersTyped ==
  /\ \A s \in {"absent", "processing", "failed"} : Marker(s) \in Markers
  /\ \A v \in Invoices : [status |-> "completed", invoice |-> v] \in Markers
  BY StoreAssumption DEF Marker, Markers

\* Every step keeps the types.
LEMMA NextTyped == TypeOK /\ [Next]_vars => TypeOK'
<1> SUFFICES ASSUME TypeOK, [Next]_vars
             PROVE  TypeOK'
  OBVIOUS
<1> USE DEF TypeOK, Busy, Executing, Fault
<1>1. ASSUME NEW j \in Jobs, Enqueue(j) PROVE TypeOK'
  BY <1>1, RowsByTime DEF Enqueue, workerVars, WorkersTypeOK
<1>2. ASSUME NEW w \in Workers, Claim(w) PROVE TypeOK'
  <2> PICK j \in Jobs :
        /\ ClaimJob(j, FreshToken)
        /\ held' = [held EXCEPT ![w] = [job |-> j, token |-> FreshToken]]
        /\ tries' = [tries EXCEPT ![w] = jobs[j].attempts]
    BY <1>2 DEF Claim
  <2>1. FreshToken \in Tokens
    BY <1>2, FreshTokenIsFresh DEF Claim
  <2>2. jobs' \in [Jobs -> JobRows]
    BY <2>1, RowsByClaim
  <2>3. WorkersTypeOK'
    <3>1. /\ [job |-> j, token |-> FreshToken] \in Leases
          /\ jobs[j].attempts \in 0..(MaxAttempts - 1)
          /\ j # None /\ FreshToken # None
      BY <2>1, StoreAssumption DEF Leases, JobRows
    <3> QED
      BY <1>2, <3>1 DEF Claim, Goto, WorkersTypeOK
  <2> QED
    BY <1>2, <2>2, <2>3 DEF Claim
<1>3. ASSUME NEW w \in Workers, ClaimLost(w) PROVE TypeOK'
  BY <1>3, FreshTokenIsFresh, RowsByClaim DEF ClaimLost, workerVars, WorkersTypeOK
<1>4. ASSUME NEW w \in Workers, Begin(w) PROVE TypeOK'
  <2>1. WorkersTypeOK'
    BY <1>4, HeldTyped, ProceedTyped, ProceedWithTyped DEF Begin, Markers
  <2> QED
    BY <1>4, <2>1, MarkersTyped DEF Begin, SetMarker
<1>5. ASSUME NEW w \in Workers, BeginFails(w) PROVE TypeOK'
  BY <1>5, ProceedTyped, MarkersTyped DEF BeginFails, SetMarker
<1>6. ASSUME NEW w \in Workers, FindByCycleKey(w) PROVE TypeOK'
  BY <1>6, HeldTyped, ProceedTyped, ProceedWithTyped DEF FindByCycleKey
<1>7. ASSUME NEW w \in Workers, SaveInvoice(w) PROVE TypeOK'
  BY <1>7, HeldTyped, ProceedWithTyped DEF SaveInvoice, StoreInvoice
<1>8. ASSUME NEW w \in Workers, Audit(w) PROVE TypeOK'
  <2>1. result[w] # None
    BY <1>8 DEF Audit, WorkersTypeOK
  <2> QED
    BY <1>8, <2>1, ProceedTyped DEF Audit
<1>9. ASSUME NEW w \in Workers, ExecuteThrows(w) PROVE TypeOK'
  BY <1>9, HeldTyped, ProceedWithTyped DEF ExecuteThrows, StoreInvoice
<1>10. ASSUME NEW w \in Workers, Record(w) PROVE TypeOK'
  <2>1. result[w] \in Invoices
    BY <1>10 DEF Record, WorkersTypeOK
  <2>2. WorkersTypeOK'
    BY <1>10, <2>1, StoreAssumption, ProceedTyped DEF Record
  <2> QED
    BY <1>10, <2>1, <2>2, MarkersTyped DEF Record, SetMarker
<1>11. ASSUME NEW w \in Workers, RecordFails(w) PROVE TypeOK'
  <2>1. result[w] \in Invoices
    BY <1>11 DEF RecordFails, WorkersTypeOK
  <2>2. WorkersTypeOK'
    BY <1>11, ProceedWithTyped DEF RecordFails
  <2> QED
    BY <1>11, <2>1, <2>2, MarkersTyped DEF RecordFails, SetMarker
<1>12. ASSUME NEW w \in Workers, Unwind(w) PROVE TypeOK'
  BY <1>12, ProceedTyped, MarkersTyped DEF Unwind, SetMarker
<1>13. ASSUME NEW w \in Workers, UnwindFails(w) PROVE TypeOK'
  BY <1>13, ProceedTyped, MarkersTyped DEF UnwindFails, SetMarker
<1>f. ASSUME NEW w \in Workers, pc[w] = "check"
      PROVE  result[w] \in Invoices /\ held[w] \in Leases
  BY <1>f DEF WorkersTypeOK
<1>14. ASSUME NEW w \in Workers, Finish(w) PROVE TypeOK'
  <2>1. WorkersTypeOK'
    BY <1>14, ReleaseTyped, ProceedTyped DEF Finish
  <2>2. jobs' \in [Jobs -> JobRows]
    BY <1>14, <1>f, RowsByCompleted DEF Finish
  <2> QED
    BY <1>14, <2>1, <2>2 DEF Finish
<1>15. ASSUME NEW w \in Workers, FinishFails(w) PROVE TypeOK'
  <2>1. WorkersTypeOK'
    BY <1>15, ProceedTyped DEF FinishFails
  <2>2. jobs' \in [Jobs -> JobRows]
    BY <1>15, <1>f, RowsByCompleted DEF FinishFails
  <2> QED
    BY <1>15, <2>1, <2>2 DEF FinishFails
<1>m. ASSUME NEW w \in Workers, MarkFailure(w) PROVE jobs' \in [Jobs -> JobRows]
  <2>1. /\ held[w] \in Leases
        /\ tries[w] + 1 < MaxAttempts => tries[w] + 1 \in 0..(MaxAttempts - 1)
    BY StoreAssumption DEF WorkersTypeOK
  <2>2. CASE MarkRetry(held[w], tries[w] + 1) /\ tries[w] + 1 < MaxAttempts
    BY <2>1, <2>2, RowsByRetry
  <2>3. CASE MarkDeadLetter(held[w])
    BY <2>1, <2>3, RowsByDeadLetter
  <2> QED
    BY <1>m, <2>2, <2>3 DEF MarkFailure
<1>16. ASSUME NEW w \in Workers, Handle(w) PROVE TypeOK'
  BY <1>16, <1>m, ReleaseTyped DEF Handle
<1>17. ASSUME NEW w \in Workers, HandleFails(w) PROVE TypeOK'
  BY <1>17, <1>m, ReleaseTyped DEF HandleFails
<1>18. ASSUME NEW w \in Workers, Crash(w) PROVE TypeOK'
  BY <1>18, ReleaseTyped DEF Crash
<1>19. ASSUME NEW w \in Workers, SendBeat(w) PROVE TypeOK'
  BY <1>19 DEF SendBeat, workerVars, WorkersTypeOK
<1>20. ASSUME NEW w \in Workers, LandBeat(w) PROVE TypeOK'
  <2>1. NoLease \in Leases
    BY DEF NoLease, Leases
  <2>2. beat[w] \in Leases
    OBVIOUS
  <2>3. jobs' \in [Jobs -> JobRows]
    BY <1>20, <2>2, RowsByRenew DEF LandBeat
  <2>4. WorkersTypeOK'
    BY <1>20 DEF LandBeat, NoteBeatError, WorkersTypeOK
  <2> QED
    BY <1>20, <2>1, <2>3, <2>4 DEF LandBeat
<1>21. ASSUME NEW w \in Workers, BeatFails(w) PROVE TypeOK'
  <2>1. NoLease \in Leases
    BY DEF NoLease, Leases
  <2>2. WorkersTypeOK'
    BY <1>21 DEF BeatFails, NoteBeatError, WorkersTypeOK
  <2>3. jobs' \in [Jobs -> JobRows]
    BY <1>21, RowsByRenew DEF BeatFails
  <2> QED
    BY <1>21, <2>1, <2>2, <2>3 DEF BeatFails
<1>22. ASSUME NEW j \in Jobs, LeaseLapses(j) PROVE TypeOK'
  BY <1>22, RowsByTime DEF LeaseLapses, workerVars, WorkersTypeOK
<1>23. ASSUME NEW j \in Jobs, DelayPasses(j) PROVE TypeOK'
  BY <1>23, RowsByTime DEF DelayPasses, workerVars, WorkersTypeOK
<1>24. ASSUME NEW o \in Operators, ReplayCheck(o) PROVE TypeOK'
  BY <1>24 DEF ReplayCheck, workerVars, WorkersTypeOK
<1>25. ASSUME NEW o \in Operators, ReplayEnqueue(o) PROVE TypeOK'
  BY <1>25, RowsByTime DEF ReplayEnqueue, workerVars, WorkersTypeOK
<1>26. CASE UNCHANGED vars
  BY <1>26 DEF vars, workerVars, WorkersTypeOK
<1> QED
  BY <1>1, <1>2, <1>3, <1>4, <1>5, <1>6, <1>7, <1>8, <1>9, <1>10, <1>11, <1>12,
     <1>13, <1>14, <1>15, <1>16, <1>17, <1>18, <1>19, <1>20, <1>21, <1>22, <1>23,
     <1>24, <1>25, <1>26
  DEF Next, Progress, WorkerFaults, Heartbeat

\* The variables always have their types: a job has a lease exactly while it
\* is processing, an invoice exactly when completed, and fewer failed
\* attempts than it is given.
THEOREM TypeCorrect == Spec => []TypeOK
<1>1. Init => TypeOK
  BY StoreAssumption, PipelineAssumption, MarkersTyped
  DEF Init, TypeOK, WorkersTypeOK, NoJob, Untouched, JobRows, NoLease, Leases, Busy, Executing
<1> QED
  BY <1>1, NextTyped, PTL DEF Spec

-----------------------------------------------------------------------------
(* At most one worker generates the invoice of a job.                       *)

Exclusive == OneExecutorPerJob /\ ExecutorsMarked

\* A step that touches no idempotency record starts no execution and takes
\* none back from its unwinding.
Calm ==
  /\ marker' = marker
  /\ \A w \in Workers :
       pc'[w] \in Executing =>
         /\ pc[w] \in Executing
         /\ held'[w] = held[w]
         /\ pc[w] = "unwind" => pc'[w] = "unwind"

LEMMA CalmExclusive == Exclusive /\ Calm => Exclusive'
  BY DEF Calm, Exclusive, OneExecutorPerJob, ExecutorsMarked

\* A worker going idle is calm, and so is one that leaves its execution or is
\* in the midst of it.
LEMMA CalmRelease ==
  ASSUME TypeOK, NEW w \in Workers, Release(w), marker' = marker
  PROVE  Calm
  BY DEF TypeOK, WorkersTypeOK, Release, Goto, Calm, Executing

LEMMA CalmProceed ==
  ASSUME TypeOK, NEW w \in Workers, NEW step,
         Goto(w, step), held' = held, marker' = marker,
         step \in Executing => pc[w] \in Executing \ {"unwind"}
  PROVE  Calm
  BY DEF TypeOK, WorkersTypeOK, Goto, Calm, Executing

\* The executor writes the record of its job and leaves the execution, or has
\* it unwound.
LEMMA ExecutorWrites ==
  ASSUME TypeOK, Exclusive, NEW w \in Workers, NEW m \in Markers, NEW step,
         pc[w] \in Executing, SetMarker(w, m), Goto(w, step), held' = held,
         step \in Executing => step = "unwind" /\ m.status = "completed"
  PROVE  Exclusive'
<1>1. /\ held[w].job \in Jobs
      /\ \A u \in Workers : pc[u] # "idle" => held[u].job \in Jobs
  BY HeldTyped DEF Executing
<1>2. /\ marker' = [marker EXCEPT ![held[w].job] = m]
      /\ pc' = [pc EXCEPT ![w] = step]
      /\ marker \in [Jobs -> Markers]
      /\ pc \in [Workers -> Busy \cup {"idle"}]
  BY DEF TypeOK, WorkersTypeOK, SetMarker, Goto
<1>3. \A u \in Workers : u # w /\ pc'[u] \in Executing =>
        pc[u] \in Executing /\ held[u].job # held[w].job /\ pc'[u] = pc[u]
  BY <1>2 DEF Exclusive, OneExecutorPerJob
<1>4. \A u \in Workers : u # w /\ pc'[u] \in Executing =>
        marker'[held[u].job] = marker[held[u].job]
  BY <1>1, <1>2, <1>3 DEF Executing
<1>5. pc'[w] = step /\ marker'[held[w].job] = m
  BY <1>1, <1>2
<1>6. OneExecutorPerJob'
  BY <1>2, <1>3, <1>5 DEF Exclusive, OneExecutorPerJob, Executing
<1>7. ExecutorsMarked'
  BY <1>2, <1>3, <1>4, <1>5 DEF Exclusive, ExecutorsMarked
<1> QED
  BY <1>6, <1>7 DEF Exclusive

\* A record that is absent or failed has nobody generating its invoice, so
\* that a worker may take it; "handle" is a worker whose begin failed though
\* the record was taken.
LEMMA BeginTakes ==
  ASSUME TypeOK, Exclusive, NEW w \in Workers, NEW step \in {"find", "handle"},
         pc[w] = "begin", marker[held[w].job].status \in {"absent", "failed"},
         SetMarker(w, Marker("processing")), Goto(w, step), held' = held
  PROVE  Exclusive'
<1>1. /\ held[w].job \in Jobs
      /\ \A u \in Workers : pc[u] # "idle" => held[u].job \in Jobs
  BY HeldTyped
<1>2. /\ marker' = [marker EXCEPT ![held[w].job] = Marker("processing")]
      /\ pc' = [pc EXCEPT ![w] = step]
      /\ marker \in [Jobs -> Markers]
      /\ pc \in [Workers -> Busy \cup {"idle"}]
  BY DEF TypeOK, WorkersTypeOK, SetMarker, Goto
<1>3. \A u \in Workers : u # w /\ pc'[u] \in Executing =>
        pc[u] \in Executing /\ held[u].job # held[w].job /\ pc'[u] = pc[u]
  BY <1>2 DEF Exclusive, ExecutorsMarked
<1>4. \A u \in Workers : u # w /\ pc'[u] \in Executing =>
        marker'[held[u].job] = marker[held[u].job]
  BY <1>1, <1>2, <1>3 DEF Executing
<1>5. marker'[held[w].job].status = "processing"
  BY <1>1, <1>2 DEF Marker
<1>6. OneExecutorPerJob'
  BY <1>2, <1>3 DEF Exclusive, OneExecutorPerJob
<1>7. ExecutorsMarked'
  BY <1>2, <1>3, <1>4, <1>5 DEF Exclusive, ExecutorsMarked
<1> QED
  BY <1>6, <1>7 DEF Exclusive

\* Every step keeps one executor per job.
LEMMA NextExclusive == TypeOK /\ Exclusive /\ [Next]_vars => Exclusive'
<1> SUFFICES ASSUME TypeOK, Exclusive, [Next]_vars
             PROVE  Exclusive'
  OBVIOUS
<1>1. ASSUME NEW w \in Workers, Begin(w) PROVE Exclusive'
  <2>1. CASE marker[held[w].job].status \in {"absent", "failed"}
    BY <1>1, <2>1, BeginTakes DEF Begin, Proceed
  <2>2. CASE marker[held[w].job].status \notin {"absent", "failed"}
    <3>1. marker' = marker /\ held' = held /\ (Goto(w, "handle") \/ Goto(w, "check"))
      BY <1>1, <2>2 DEF Begin, Proceed, ProceedWith
    <3> QED
      BY <3>1, CalmProceed, CalmExclusive DEF Executing
  <2> QED
    BY <2>1, <2>2
<1>2. ASSUME NEW w \in Workers, BeginFails(w) PROVE Exclusive'
  <2>1. pc[w] = "begin" /\ held' = held /\ Goto(w, "handle")
    BY <1>2 DEF BeginFails, Proceed
  <2>2. CASE UNCHANGED marker
    BY <2>1, <2>2, CalmProceed, CalmExclusive DEF Executing
  <2>3. CASE /\ marker[held[w].job].status \in {"absent", "failed"}
             /\ SetMarker(w, Marker("processing"))
    BY <2>1, <2>3, BeginTakes
  <2> QED
    BY <1>2, <2>2, <2>3 DEF BeginFails
<1>3. ASSUME NEW w \in Workers,
             FindByCycleKey(w) \/ SaveInvoice(w) \/ Audit(w) \/ ExecuteThrows(w)
      PROVE  Exclusive'
  <2>1. PICK step \in Executing : Goto(w, step) /\ held' = held /\ marker' = marker
    BY <1>3 DEF FindByCycleKey, SaveInvoice, Audit, ExecuteThrows,
                Proceed, ProceedWith, Executing
  <2>2. pc[w] \in Executing \ {"unwind"}
    BY <1>3 DEF FindByCycleKey, SaveInvoice, Audit, ExecuteThrows, Executing
  <2> QED
    BY <2>1, <2>2, CalmProceed, CalmExclusive
<1>4. ASSUME NEW w \in Workers, Record(w) \/ RecordFails(w) PROVE Exclusive'
  <2> DEFINE m == [status |-> "completed", invoice |-> result[w]]
  <2>1. pc[w] = "record" /\ m \in Markers
    <3>1. pc[w] = "record"
      BY <1>4 DEF Record, RecordFails
    <3>2. result[w] \in Invoices
      BY <3>1 DEF TypeOK, WorkersTypeOK
    <3> QED
      BY <3>1, <3>2, MarkersTyped
  <2>2. CASE SetMarker(w, m)
    <3>1. held' = held /\ (Goto(w, "check") \/ Goto(w, "unwind"))
      BY <1>4 DEF Record, RecordFails, Proceed, ProceedWith
    <3> QED
      BY <2>1, <2>2, <3>1, ExecutorWrites DEF Executing
  <2>3. CASE UNCHANGED marker /\ RecordFails(w)
    <3>1. held' = held /\ Goto(w, "unwind")
      BY <2>3 DEF RecordFails, ProceedWith
    <3> QED
      BY <2>1, <2>3, <3>1, CalmProceed, CalmExclusive DEF Executing
  <2> QED
    BY <1>4, <2>2, <2>3 DEF Record, RecordFails
<1>5. ASSUME NEW w \in Workers, Unwind(w) \/ UnwindFails(w) PROVE Exclusive'
  <2>1. pc[w] = "unwind" /\ held' = held /\ Goto(w, "handle")
    BY <1>5 DEF Unwind, UnwindFails, Proceed
  <2>2. CASE SetMarker(w, Marker("failed"))
    BY <2>1, <2>2, MarkersTyped, ExecutorWrites DEF Executing
  <2>3. CASE UNCHANGED marker
    BY <2>1, <2>3, CalmProceed, CalmExclusive DEF Executing
  <2> QED
    BY <1>5, <2>2, <2>3 DEF Unwind, UnwindFails
<1>6. ASSUME NEW w \in Workers, Finish(w) \/ FinishFails(w) PROVE Exclusive'
  <2>1. marker' = marker /\ (Release(w) \/ (Goto(w, "handle") /\ held' = held))
    BY <1>6 DEF Finish, FinishFails, Proceed
  <2> QED
    BY <2>1, CalmRelease, CalmProceed, CalmExclusive DEF Executing
<1>7. ASSUME NEW w \in Workers, Handle(w) \/ HandleFails(w) \/ Crash(w)
      PROVE  Exclusive'
  BY <1>7, CalmRelease, CalmExclusive DEF Handle, HandleFails, Crash
<1>8. ASSUME NEW w \in Workers, Claim(w) PROVE Exclusive'
  <2>1. pc' = [pc EXCEPT ![w] = "begin"] /\ marker' = marker
        /\ \A u \in Workers : u # w => held'[u] = held[u]
    BY <1>8 DEF Claim, Goto, TypeOK, WorkersTypeOK
  <2>2. Calm
    BY <2>1 DEF Calm, Executing, TypeOK, WorkersTypeOK
  <2> QED
    BY <2>2, CalmExclusive
<1>9. ASSUME UNCHANGED <<pc, held, marker>> PROVE Exclusive'
  BY <1>9, CalmExclusive DEF Calm
<1>10. ASSUME NEW w \in Workers, ClaimLost(w) \/ Heartbeat(w) PROVE Exclusive'
  BY <1>9, <1>10 DEF ClaimLost, Heartbeat, SendBeat, LandBeat, BeatFails, workerVars
<1>11. ASSUME NEW j \in Jobs, Enqueue(j) \/ LeaseLapses(j) \/ DelayPasses(j)
       PROVE  Exclusive'
  BY <1>9, <1>11 DEF Enqueue, LeaseLapses, DelayPasses, workerVars
<1>12. ASSUME NEW o \in Operators, ReplayCheck(o) \/ ReplayEnqueue(o)
       PROVE  Exclusive'
  BY <1>9, <1>12 DEF ReplayCheck, ReplayEnqueue, workerVars
<1>13. CASE UNCHANGED vars
  BY <1>9, <1>13 DEF vars, workerVars
<1> QED
  BY <1>1, <1>2, <1>3, <1>4, <1>5, <1>6, <1>7, <1>8, <1>10, <1>11, <1>12, <1>13
  DEF Next, Progress, WorkerFaults

\* Two workers never generate the invoice of one job together, whatever
\* happens to the lease: it is the idempotency record that excludes them.
THEOREM OneExecutor == Spec => []OneExecutorPerJob
<1>1. Init => Exclusive
  BY DEF Init, Exclusive, OneExecutorPerJob, ExecutorsMarked, Executing
<1>2. Exclusive => OneExecutorPerJob
  BY DEF Exclusive
<1> QED
  BY <1>1, <1>2, TypeCorrect, NextExclusive, PTL DEF Spec

-----------------------------------------------------------------------------
(* The lease fences off workers that lost it.                               *)

\* No job leaves "processing", but for the job of one lease.
StaysInProcessing(j) == jobs[j].status = "processing" => jobs'[j].status = "processing"

LEMMA TimeLeavesProcessing ==
  ASSUME jobs \in [Jobs -> JobRows], NEW j \in Jobs,
         \/ EnqueueJob(j) \/ LeaseRunsOut(j) \/ BecomesDue(j)
         \/ \E t \in Tokens : ClaimJob(j, t)
  PROVE  \A i \in Jobs : StaysInProcessing(i)
<1>1. jobs[j] \in JobRows
  OBVIOUS
<1>2. CASE EnqueueJob(j)
  BY <1>2 DEF EnqueueJob, StaysInProcessing
<1>3. CASE LeaseRunsOut(j)
  BY <1>1, <1>3 DEF LeaseRunsOut, JobRows, StaysInProcessing
<1>4. CASE BecomesDue(j)
  BY <1>1, <1>4 DEF BecomesDue, JobRows, StaysInProcessing
<1>5. ASSUME NEW t \in Tokens, ClaimJob(j, t) PROVE \A i \in Jobs : StaysInProcessing(i)
  <2> DEFINE row == [jobs[j] EXCEPT !.status = "processing", !.token = t,
                                    !.live = TRUE, !.due = FALSE]
  <2>1. row.status = "processing"
    BY <1>1 DEF JobRows
  <2>2. jobs' = [jobs EXCEPT ![j] = row]
    BY <1>5 DEF ClaimJob
  <2> HIDE DEF row
  <2> QED
    BY <2>1, <2>2 DEF StaysInProcessing
<1> QED
  BY <1>2, <1>3, <1>4, <1>5

LEMMA RenewLeavesProcessing ==
  ASSUME jobs \in [Jobs -> JobRows], NEW lease \in Leases, RenewLease(lease)
  PROVE  \A i \in Jobs : StaysInProcessing(i)
  BY DEF RenewLease, StaysInProcessing, JobRows

LEMMA MarkTakesItsOwn ==
  ASSUME jobs \in [Jobs -> JobRows], NEW lease \in Leases, NEW row, Mark(lease, row),
         NEW j \in Jobs, jobs[j].status = "processing", jobs'[j].status # "processing"
  PROVE  lease = [job |-> j, token |-> jobs[j].token]
<1>1. lease.job = j
  BY DEF Mark
<1> QED
  BY <1>1 DEF Mark, Owns, Leases

LEMMA FailureMarks ==
  ASSUME NEW w \in Workers, MarkFailure(w)
  PROVE  \E row : Mark(held[w], row)
  BY DEF MarkFailure, MarkRetry, MarkDeadLetter

\* The worker that takes a job out of processing is at the end of its cycle.
Fences ==
  \A j \in Jobs :
    jobs[j].status = "processing" /\ jobs'[j].status # "processing" =>
      \E w \in Workers :
        /\ held[w] = [job |-> j, token |-> jobs[j].token]
        /\ pc[w] \in {"check", "handle"}
        /\ pc'[w] # pc[w]

LEMMA NextFences == TypeOK /\ [Next]_vars => Fences
<1> SUFFICES ASSUME TypeOK, [Next]_vars
             PROVE  Fences
  OBVIOUS
<1> USE DEF Fences
<1>1. CASE UNCHANGED jobs
  BY <1>1
<1>2. CASE \A j \in Jobs : StaysInProcessing(j)
  BY <1>2 DEF StaysInProcessing
<1>3. ASSUME NEW w \in Workers, pc[w] \in {"check", "handle"}, pc'[w] # pc[w],
             NEW row, Mark(held[w], row)
      PROVE  Fences
  <2>1. held[w] \in Leases /\ jobs \in [Jobs -> JobRows]
    BY DEF TypeOK, WorkersTypeOK
  <2> QED
    BY <1>3, <2>1, MarkTakesItsOwn
<1>4. ASSUME NEW w \in Workers,
             Finish(w) \/ FinishFails(w) \/ Handle(w) \/ HandleFails(w)
      PROVE  Fences
  <2>1. pc[w] \in {"check", "handle"} /\ pc'[w] # pc[w]
    BY <1>4 DEF Finish, FinishFails, Handle, HandleFails, Release, Proceed, Goto,
                TypeOK, WorkersTypeOK
  <2>2. UNCHANGED jobs \/ \E row : Mark(held[w], row)
    BY <1>4, FailureMarks DEF Finish, FinishFails, Handle, HandleFails, MarkCompleted
  <2> QED
    BY <1>1, <1>3, <2>1, <2>2
<1>5. ASSUME NEW w \in Workers, Claim(w) \/ ClaimLost(w) PROVE Fences
  <2>1. FreshToken \in Tokens /\ \E j \in Jobs : ClaimJob(j, FreshToken)
    BY <1>5, FreshTokenIsFresh DEF Claim, ClaimLost
  <2> QED
    BY <1>2, <2>1, TimeLeavesProcessing DEF TypeOK
<1>6. ASSUME NEW w \in Workers, LandBeat(w) \/ BeatFails(w) PROVE Fences
  <2>1. beat[w] \in Leases
    BY DEF TypeOK
  <2> QED
    BY <1>1, <1>2, <1>6, <2>1, RenewLeavesProcessing DEF LandBeat, BeatFails, TypeOK
<1>7. ASSUME NEW j \in Jobs, Enqueue(j) \/ LeaseLapses(j) \/ DelayPasses(j)
      PROVE  Fences
  BY <1>2, <1>7, TimeLeavesProcessing DEF Enqueue, LeaseLapses, DelayPasses, TypeOK
<1>8. ASSUME NEW o \in Operators, ReplayCheck(o) \/ ReplayEnqueue(o) PROVE Fences
  BY <1>1, <1>2, <1>8, TimeLeavesProcessing DEF ReplayCheck, ReplayEnqueue, TypeOK
<1>9. ASSUME NEW w \in Workers,
             \/ Begin(w) \/ BeginFails(w) \/ FindByCycleKey(w) \/ SaveInvoice(w)
             \/ Audit(w) \/ ExecuteThrows(w) \/ Record(w) \/ RecordFails(w)
             \/ Unwind(w) \/ UnwindFails(w) \/ Crash(w) \/ SendBeat(w)
      PROVE  Fences
  BY <1>1, <1>9 DEF Begin, BeginFails, FindByCycleKey, SaveInvoice, Audit,
    ExecuteThrows, Record, RecordFails, Unwind, UnwindFails, Crash, SendBeat
<1>10. CASE UNCHANGED vars
  BY <1>1, <1>10 DEF vars
<1> QED
  BY <1>4, <1>5, <1>6, <1>7, <1>8, <1>9, <1>10
  DEF Next, Progress, WorkerFaults, Heartbeat

\* A job leaves "processing" only by a step of the worker whose token it
\* carries, at the end of that worker's cycle.
THEOREM LeasesFence == Spec => Fencing
<1>1. TypeOK /\ [Next]_vars => [Fences]_vars
  BY NextFences
<1> QED
  BY <1>1, TypeCorrect, PTL DEF Spec, Fencing, Fences

-----------------------------------------------------------------------------
(* The attempts a worker counts are those of the job, while its lease holds. *)

\* No job is under a lease it was not under before.
NoGrant ==
  \A j \in Jobs :
    jobs'[j].status = "processing" =>
      /\ jobs[j].status = "processing"
      /\ jobs'[j].token = jobs[j].token
      /\ jobs'[j].attempts = jobs[j].attempts

LEMMA TimeGrantsNothing ==
  ASSUME jobs \in [Jobs -> JobRows], NEW j \in Jobs,
         EnqueueJob(j) \/ LeaseRunsOut(j) \/ BecomesDue(j)
  PROVE  NoGrant
<1>1. jobs[j] \in JobRows
  OBVIOUS
<1>2. CASE EnqueueJob(j)
  BY <1>2 DEF EnqueueJob, NewJob, Untouched, NoGrant
<1>3. CASE LeaseRunsOut(j)
  BY <1>1, <1>3 DEF LeaseRunsOut, JobRows, NoGrant
<1>4. CASE BecomesDue(j)
  BY <1>1, <1>4 DEF BecomesDue, JobRows, NoGrant
<1> QED
  BY <1>2, <1>3, <1>4

LEMMA RenewGrantsNothing ==
  ASSUME jobs \in [Jobs -> JobRows], NEW lease \in Leases, RenewLease(lease)
  PROVE  NoGrant
  BY OwnedRow DEF RenewLease, NoGrant, JobRows

LEMMA MarkGrantsNothing ==
  ASSUME jobs \in [Jobs -> JobRows], NEW lease \in Leases, NEW v, NEW n,
         MarkCompleted(lease, v) \/ MarkRetry(lease, n) \/ MarkDeadLetter(lease)
  PROVE  NoGrant
<1>1. lease.job \in Jobs /\ jobs[lease.job] \in JobRows
  BY OwnedRow DEF MarkCompleted, MarkRetry, MarkDeadLetter, Mark
<1>2. jobs'[lease.job].status # "processing"
  <2>1. CASE MarkCompleted(lease, v)
    BY <1>1, <2>1 DEF MarkCompleted, Mark, JobRows
  <2>2. CASE MarkRetry(lease, n)
    BY <1>1, <2>2 DEF MarkRetry, Mark, JobRows
  <2>3. CASE MarkDeadLetter(lease)
    BY <1>1, <2>3 DEF MarkDeadLetter, Mark, JobRows
  <2> QED
    BY <2>1, <2>2, <2>3
<1>3. \A j \in Jobs : j # lease.job => jobs'[j] = jobs[j]
  BY <1>1 DEF MarkCompleted, MarkRetry, MarkDeadLetter, Mark
<1> QED
  BY <1>2, <1>3 DEF NoGrant

\* A claim grants its job under a token no worker holds.
LEMMA ClaimGrants ==
  ASSUME TypeOK, ~ Tokens \subseteq TokensInUse, NEW j \in Jobs, ClaimJob(j, FreshToken)
  PROVE  /\ jobs'[j].attempts = jobs[j].attempts
         /\ \A i \in Jobs \ {j} : jobs'[i] = jobs[i]
         /\ \A w \in Workers : held[w].token # jobs'[j].token
<1>1. jobs[j] \in JobRows
  BY DEF TypeOK
<1>2. jobs'[j].attempts = jobs[j].attempts /\ jobs'[j].token = FreshToken
  <2> DEFINE row == [jobs[j] EXCEPT !.status = "processing", !.token = FreshToken,
                                    !.live = TRUE, !.due = FALSE]
  <2>1. row.attempts = jobs[j].attempts /\ row.token = FreshToken
    BY <1>1 DEF JobRows
  <2>2. jobs' = [jobs EXCEPT ![j] = row] /\ jobs \in [Jobs -> JobRows]
    BY DEF ClaimJob, TypeOK
  <2> HIDE DEF row
  <2> QED
    BY <2>1, <2>2
<1>3. \A w \in Workers : held[w].token # FreshToken
  BY FreshTokenIsFresh DEF TokensInUse
<1> QED
  BY <1>2, <1>3 DEF ClaimJob, TypeOK

\* The workers that go on keep their lease and their count.
SameCycles ==
  \A w \in Workers :
    pc'[w] # "idle" => pc[w] # "idle" /\ held'[w] = held[w] /\ tries'[w] = tries[w]

LEMMA SameTries ==
  ASSUME TypeOK, TriesCurrent, SameCycles, NoGrant
  PROVE  TriesCurrent'
<1> SUFFICES ASSUME NEW w \in Workers, pc'[w] # "idle", Owns(held[w])'
             PROVE  tries'[w] = jobs'[held'[w].job].attempts
  BY DEF TriesCurrent
<1>1. pc[w] # "idle" /\ held'[w] = held[w] /\ tries'[w] = tries[w] /\ held[w].job \in Jobs
  BY HeldTyped DEF SameCycles
<1> QED
  BY <1>1 DEF TriesCurrent, NoGrant, Owns

LEMMA MarkFailureGrantsNothing ==
  ASSUME TypeOK, NEW w \in Workers, MarkFailure(w)
  PROVE  NoGrant
<1>1. jobs \in [Jobs -> JobRows] /\ held[w] \in Leases
  BY DEF TypeOK, WorkersTypeOK
<1> QED
  BY <1>1, MarkGrantsNothing DEF MarkFailure

\* Every step keeps the counts of the workers that own their job.
LEMMA NextTries == TypeOK /\ TriesCurrent /\ [Next]_vars => TriesCurrent'
<1> SUFFICES ASSUME TypeOK, TriesCurrent, [Next]_vars
             PROVE  TriesCurrent'
  OBVIOUS
<1>t. /\ jobs \in [Jobs -> JobRows]
      /\ held \in [Workers -> Leases]
      /\ beat \in [Workers -> Leases]
      /\ pc \in [Workers -> Busy \cup {"idle"}]
      /\ tries \in [Workers -> 0..(MaxAttempts - 1)]
  BY DEF TypeOK, WorkersTypeOK
<1>u. ASSUME UNCHANGED <<pc, held, tries>> PROVE SameCycles
  BY <1>u DEF SameCycles
<1>j. ASSUME UNCHANGED jobs PROVE NoGrant
  BY <1>j DEF NoGrant
<1>r. ASSUME NEW w \in Workers, Release(w) PROVE SameCycles
  BY <1>r, <1>t DEF Release, Goto, SameCycles
<1>p. ASSUME NEW w \in Workers, pc[w] # "idle", NEW step, Goto(w, step),
             UNCHANGED <<held, tries>>
      PROVE  SameCycles
  BY <1>p, <1>t DEF Goto, SameCycles
<1>1. ASSUME NEW w \in Workers, Claim(w) PROVE TriesCurrent'
  <2> PICK j \in Jobs :
        /\ ClaimJob(j, FreshToken)
        /\ held' = [held EXCEPT ![w] = [job |-> j, token |-> FreshToken]]
        /\ tries' = [tries EXCEPT ![w] = jobs[j].attempts]
    BY <1>1 DEF Claim
  <2>1. /\ jobs'[j].attempts = jobs[j].attempts
        /\ \A i \in Jobs \ {j} : jobs'[i] = jobs[i]
        /\ \A u \in Workers : held[u].token # jobs'[j].token
    BY <1>1, ClaimGrants DEF Claim
  <2> SUFFICES ASSUME NEW u \in Workers, pc'[u] # "idle", Owns(held[u])'
               PROVE  tries'[u] = jobs'[held'[u].job].attempts
    BY DEF TriesCurrent
  <2>2. CASE u = w
    BY <2>1, <2>2, <1>t
  <2>3. CASE u # w
    <3>1. /\ held'[u] = held[u] /\ tries'[u] = tries[u]
          /\ pc[u] # "idle" /\ held[u].job \in Jobs
      BY <1>1, <1>t, <2>3, HeldTyped DEF Claim, Goto
    <3>2. held[u].job # j
      BY <2>1, <3>1 DEF Owns
    <3> QED
      BY <2>1, <3>1, <3>2 DEF TriesCurrent, Owns
  <2> QED
    BY <2>2, <2>3
<1>2. ASSUME NEW w \in Workers, ClaimLost(w) PROVE TriesCurrent'
  <2> PICK j \in Jobs : ClaimJob(j, FreshToken)
    BY <1>2 DEF ClaimLost
  <2>1. /\ \A i \in Jobs \ {j} : jobs'[i] = jobs[i]
        /\ \A u \in Workers : held[u].token # jobs'[j].token
    BY <1>2, ClaimGrants DEF ClaimLost
  <2> SUFFICES ASSUME NEW u \in Workers, pc'[u] # "idle", Owns(held[u])'
               PROVE  tries'[u] = jobs'[held'[u].job].attempts
    BY DEF TriesCurrent
  <2>2. /\ held'[u] = held[u] /\ tries'[u] = tries[u]
        /\ pc[u] # "idle" /\ held[u].job \in Jobs
    BY <1>2, HeldTyped DEF ClaimLost, workerVars
  <2>3. held[u].job # j
    BY <2>1, <2>2 DEF Owns
  <2> QED
    BY <2>1, <2>2, <2>3 DEF TriesCurrent, Owns
<1>3. ASSUME NEW w \in Workers,
             \/ Begin(w) \/ BeginFails(w) \/ FindByCycleKey(w) \/ SaveInvoice(w)
             \/ Audit(w) \/ ExecuteThrows(w) \/ Record(w) \/ RecordFails(w)
             \/ Unwind(w) \/ UnwindFails(w)
      PROVE  TriesCurrent'
  <2>1. /\ pc[w] # "idle"
        /\ \E step : Goto(w, step)
        /\ UNCHANGED <<held, tries>>
        /\ UNCHANGED jobs
    BY <1>3 DEF Begin, BeginFails, FindByCycleKey, SaveInvoice, Audit, ExecuteThrows,
      Record, RecordFails, Unwind, UnwindFails, Proceed, ProceedWith
  <2> QED
    BY <2>1, <1>j, <1>p, SameTries
<1>4. ASSUME NEW w \in Workers,
             Finish(w) \/ FinishFails(w) \/ Handle(w) \/ HandleFails(w)
      PROVE  TriesCurrent'
  <2>1. SameCycles
    <3>1. pc[w] # "idle"
      BY <1>4 DEF Finish, FinishFails, Handle, HandleFails
    <3> QED
      BY <1>4, <1>p, <1>r, <3>1 DEF Finish, FinishFails, Handle, HandleFails, Proceed
  <2>2. NoGrant
    BY <1>4, <1>j, <1>t, MarkGrantsNothing, MarkFailureGrantsNothing
    DEF Finish, FinishFails, Handle, HandleFails
  <2> QED
    BY <2>1, <2>2, SameTries
<1>5. ASSUME NEW w \in Workers, Crash(w) PROVE TriesCurrent'
  BY <1>5, <1>j, <1>r, SameTries DEF Crash
<1>6. ASSUME NEW w \in Workers, Heartbeat(w) PROVE TriesCurrent'
  <2>1. UNCHANGED <<pc, held, tries>>
    BY <1>6 DEF Heartbeat, SendBeat, LandBeat, BeatFails, workerVars
  <2>2. NoGrant
    BY <1>6, <1>j, <1>t, RenewGrantsNothing DEF Heartbeat, SendBeat, LandBeat, BeatFails
  <2> QED
    BY <1>u, <2>1, <2>2, SameTries
<1>7. ASSUME NEW j \in Jobs, Enqueue(j) \/ LeaseLapses(j) \/ DelayPasses(j)
      PROVE  TriesCurrent'
  BY <1>7, <1>t, <1>u, TimeGrantsNothing, SameTries
  DEF Enqueue, LeaseLapses, DelayPasses, workerVars
<1>8. ASSUME NEW o \in Operators, ReplayCheck(o) \/ ReplayEnqueue(o)
      PROVE  TriesCurrent'
  BY <1>8, <1>t, <1>u, <1>j, TimeGrantsNothing, SameTries
  DEF ReplayCheck, ReplayEnqueue, workerVars
<1>9. CASE UNCHANGED vars
  BY <1>9, <1>u, <1>j, SameTries DEF vars, workerVars
<1> QED
  BY <1>1, <1>2, <1>3, <1>4, <1>5, <1>6, <1>7, <1>8, <1>9
  DEF Next, Progress, WorkerFaults

-----------------------------------------------------------------------------
(* The queue implements JobLifecycle.                                       *)

\* What pollers see of the table when one row changes.
LEMMA RowSeen ==
  ASSUME jobs \in [Jobs -> JobRows], NEW j \in Jobs, NEW row,
         jobs' = [jobs EXCEPT ![j] = row]
  PROVE  /\ [i \in Jobs |-> jobs[i].status]' =
              [[i \in Jobs |-> jobs[i].status] EXCEPT ![j] = row.status]
         /\ [i \in Jobs |-> jobs[i].attempts]' =
              [[i \in Jobs |-> jobs[i].attempts] EXCEPT ![j] = row.attempts]
         /\ [i \in Jobs |-> jobs[i].invoice]' =
              [[i \in Jobs |-> jobs[i].invoice] EXCEPT ![j] = row.invoice]
  OBVIOUS

\* A row changed in its lease or delay only is not seen to change.
LEMMA RowUnseen ==
  ASSUME jobs \in [Jobs -> JobRows], NEW j \in Jobs, NEW row,
         jobs' = [jobs EXCEPT ![j] = row],
         row.status = jobs[j].status,
         row.attempts = jobs[j].attempts,
         row.invoice = jobs[j].invoice
  PROVE  UNCHANGED Lifecycle!vars
  BY DEF Lifecycle!vars

\* A job moves on when the status of its row does.
LEMMA RowMoves ==
  ASSUME jobs \in [Jobs -> JobRows], NEW j \in Jobs, NEW row,
         jobs' = [jobs EXCEPT ![j] = row]
  PROVE  /\ Lifecycle!Move(j, jobs[j].status, row.status)
         /\ row.attempts = jobs[j].attempts =>
              UNCHANGED [i \in Jobs |-> jobs[i].attempts]
         /\ row.invoice = jobs[j].invoice =>
              UNCHANGED [i \in Jobs |-> jobs[i].invoice]
  BY RowSeen DEF Lifecycle!Move

\* Enqueueing, time and renewals.
LEMMA EnqueueSeen ==
  ASSUME jobs \in [Jobs -> JobRows], NEW j \in Jobs, EnqueueJob(j)
  PROVE  Lifecycle!Enqueue(j)
<1>1. jobs[j].attempts = 0 /\ jobs[j].invoice = None
  BY DEF EnqueueJob, JobRows
<1>2. /\ NewJob.status = "queued"
      /\ NewJob.attempts = jobs[j].attempts
      /\ NewJob.invoice = jobs[j].invoice
  BY <1>1 DEF NewJob, Untouched
<1>3. jobs[j].status = "absent" /\ jobs' = [jobs EXCEPT ![j] = NewJob]
  BY DEF EnqueueJob
<1> QED
  BY <1>2, <1>3, RowMoves DEF Lifecycle!Enqueue

LEMMA TimeUnseen ==
  ASSUME jobs \in [Jobs -> JobRows], NEW j \in Jobs, LeaseRunsOut(j) \/ BecomesDue(j)
  PROVE  UNCHANGED Lifecycle!vars
<1>1. jobs[j] \in JobRows
  OBVIOUS
<1>2. CASE LeaseRunsOut(j)
  <2> DEFINE row == [jobs[j] EXCEPT !.live = FALSE]
  <2>1. /\ row.status = jobs[j].status
        /\ row.attempts = jobs[j].attempts
        /\ row.invoice = jobs[j].invoice
    BY <1>1 DEF JobRows
  <2>2. jobs' = [jobs EXCEPT ![j] = row]
    BY <1>2 DEF LeaseRunsOut
  <2> HIDE DEF row
  <2> QED
    BY <2>1, <2>2, RowUnseen
<1>3. CASE BecomesDue(j)
  <2> DEFINE row == [jobs[j] EXCEPT !.due = TRUE]
  <2>1. /\ row.status = jobs[j].status
        /\ row.attempts = jobs[j].attempts
        /\ row.invoice = jobs[j].invoice
    BY <1>1 DEF JobRows
  <2>2. jobs' = [jobs EXCEPT ![j] = row]
    BY <1>3 DEF BecomesDue
  <2> HIDE DEF row
  <2> QED
    BY <2>1, <2>2, RowUnseen
<1> QED
  BY <1>2, <1>3

LEMMA RenewUnseen ==
  ASSUME jobs \in [Jobs -> JobRows], NEW lease \in Leases, RenewLease(lease)
  PROVE  UNCHANGED Lifecycle!vars
<1> DEFINE j == lease.job
           row == [jobs[j] EXCEPT !.live = TRUE]
<1>1. j \in Jobs /\ jobs[j] \in JobRows
  BY OwnedRow DEF RenewLease
<1>2. /\ row.status = jobs[j].status
      /\ row.attempts = jobs[j].attempts
      /\ row.invoice = jobs[j].invoice
  BY <1>1 DEF JobRows
<1>3. jobs' = [jobs EXCEPT ![j] = row]
  BY DEF RenewLease
<1> HIDE DEF row, j
<1> QED
  BY <1>1, <1>2, <1>3, RowUnseen

\* A first claim starts the job, a later one of an expired job is not seen.
LEMMA ClaimSeen ==
  ASSUME jobs \in [Jobs -> JobRows], NEW j \in Jobs, NEW t \in Tokens, ClaimJob(j, t)
  PROVE  Lifecycle!Start(j) \/ UNCHANGED Lifecycle!vars
<1> DEFINE row == [jobs[j] EXCEPT !.status = "processing", !.token = t,
                                  !.live = TRUE, !.due = FALSE]
<1>1. jobs[j] \in JobRows
  OBVIOUS
<1>2. /\ row.status = "processing"
      /\ row.attempts = jobs[j].attempts
      /\ row.invoice = jobs[j].invoice
  BY <1>1 DEF JobRows
<1>3. jobs' = [jobs EXCEPT ![j] = row] /\ jobs[j].status \in {"queued", "processing"}
  BY DEF ClaimJob, Claimable, IsReady, IsExpired
<1> HIDE DEF row
<1>4. CASE jobs[j].status = "queued"
  BY <1>2, <1>3, <1>4, RowMoves DEF Lifecycle!Start
<1>5. CASE jobs[j].status = "processing"
  BY <1>2, <1>3, <1>5, RowUnseen
<1> QED
  BY <1>3, <1>4, <1>5

\* The three marks.
LEMMA CompletedSeen ==
  ASSUME jobs \in [Jobs -> JobRows], NEW lease \in Leases, NEW v \in Invoices,
         MarkCompleted(lease, v)
  PROVE  Lifecycle!Complete(lease.job)
<1> DEFINE j == lease.job
           row == [[jobs[j] EXCEPT !.status = "completed", !.invoice = v]
                     EXCEPT !.token = None, !.live = FALSE]
<1>1. j \in Jobs /\ jobs[j] \in JobRows /\ jobs[j].status = "processing"
  BY OwnedRow DEF MarkCompleted, Mark
<1>2. row.status = "completed" /\ row.attempts = jobs[j].attempts /\ row.invoice = v
  BY <1>1 DEF JobRows
<1>3. jobs' = [jobs EXCEPT ![j] = row] /\ v # None
  BY StoreAssumption DEF MarkCompleted, Mark
<1> HIDE DEF row, j
<1>4. Lifecycle!Move(j, "processing", "completed")
      /\ UNCHANGED [i \in Jobs |-> jobs[i].attempts]
  BY <1>1, <1>2, <1>3, RowMoves
<1>5. [i \in Jobs |-> jobs[i].invoice]' = [[i \in Jobs |-> jobs[i].invoice] EXCEPT ![j] = v]
  BY <1>1, <1>2, <1>3, RowSeen
<1>6. [i \in Jobs |-> jobs[i].invoice]'[j] = v
  BY <1>1, <1>5
<1>7. Lifecycle!Complete(j)
  BY <1>3, <1>4, <1>5, <1>6 DEF Lifecycle!Complete
<1> QED
  BY <1>7 DEF j

LEMMA RetrySeen ==
  ASSUME jobs \in [Jobs -> JobRows], NEW lease \in Leases,
         NEW n \in Nat, n = jobs[lease.job].attempts + 1, n < MaxAttempts,
         MarkRetry(lease, n)
  PROVE  Lifecycle!Retry(lease.job)
<1> DEFINE j == lease.job
           row == [[jobs[j] EXCEPT !.status = "queued", !.attempts = n]
                     EXCEPT !.token = None, !.live = FALSE]
<1>1. j \in Jobs /\ jobs[j] \in JobRows /\ jobs[j].status = "processing"
  BY OwnedRow DEF MarkRetry, Mark
<1>2. row.status = "queued" /\ row.attempts = n /\ row.invoice = jobs[j].invoice
  BY <1>1 DEF JobRows
<1>3. jobs' = [jobs EXCEPT ![j] = row] /\ n = jobs[j].attempts + 1
  BY DEF MarkRetry, Mark
<1> HIDE DEF row, j
<1>4. Lifecycle!Move(j, "processing", "queued")
      /\ UNCHANGED [i \in Jobs |-> jobs[i].invoice]
  BY <1>1, <1>2, <1>3, RowMoves
<1>5. [i \in Jobs |-> jobs[i].attempts]'
        = [[i \in Jobs |-> jobs[i].attempts] EXCEPT ![j] = jobs[j].attempts + 1]
  BY <1>1, <1>2, <1>3, RowSeen
<1>6. Lifecycle!Retry(j)
  BY <1>1, <1>3, <1>4, <1>5 DEF Lifecycle!Retry
<1> QED
  BY <1>6 DEF j

LEMMA DeadLetterSeen ==
  ASSUME jobs \in [Jobs -> JobRows], NEW lease \in Leases,
         jobs[lease.job].attempts + 1 = MaxAttempts, MarkDeadLetter(lease)
  PROVE  Lifecycle!DeadLetter(lease.job)
<1> DEFINE j == lease.job
           row == [[jobs[j] EXCEPT !.status = "failed"] EXCEPT !.token = None, !.live = FALSE]
<1>1. j \in Jobs /\ jobs[j] \in JobRows /\ jobs[j].status = "processing"
  BY OwnedRow DEF MarkDeadLetter, Mark
<1>2. /\ row.status = "failed"
      /\ row.attempts = jobs[j].attempts
      /\ row.invoice = jobs[j].invoice
  BY <1>1 DEF JobRows
<1>3. jobs' = [jobs EXCEPT ![j] = row] /\ jobs[j].attempts + 1 = MaxAttempts
  BY DEF MarkDeadLetter, Mark
<1> HIDE DEF row, j
<1>4. /\ Lifecycle!Move(j, "processing", "failed")
      /\ UNCHANGED [i \in Jobs |-> jobs[i].attempts]
      /\ UNCHANGED [i \in Jobs |-> jobs[i].invoice]
  BY <1>1, <1>2, <1>3, RowMoves
<1>5. Lifecycle!DeadLetter(j)
  BY <1>1, <1>3, <1>4 DEF Lifecycle!DeadLetter
<1> QED
  BY <1>5 DEF j

\* A worker that still owns its job has counted its attempts right, and so
\* retries or buries it when the lifecycle says so.
LEMMA FailureSeen ==
  ASSUME TypeOK, TriesCurrent, NEW w \in Workers, pc[w] # "idle", MarkFailure(w)
  PROVE  Lifecycle!Next
<1> PICK j \in Jobs : j = held[w].job
  BY HeldTyped
<1>1. /\ jobs \in [Jobs -> JobRows]
      /\ held[w] \in Leases
      /\ jobs[j].attempts \in 0..(MaxAttempts - 1)
  BY HeldTyped DEF TypeOK, JobRows
<1>2. tries[w] = jobs[j].attempts
  BY DEF MarkFailure, MarkRetry, MarkDeadLetter, Mark, TriesCurrent
<1>3. CASE tries[w] + 1 < MaxAttempts
  <2>1. MarkRetry(held[w], tries[w] + 1) /\ tries[w] + 1 \in Nat
    BY <1>1, <1>2, <1>3, StoreAssumption DEF MarkFailure
  <2>2. Lifecycle!Retry(j)
    BY <1>1, <1>2, <1>3, <2>1, RetrySeen
  <2> QED
    BY <2>2 DEF Lifecycle!Next
<1>4. CASE ~ tries[w] + 1 < MaxAttempts
  <2>1. MarkDeadLetter(held[w]) /\ jobs[j].attempts + 1 = MaxAttempts
    BY <1>1, <1>2, <1>4, StoreAssumption DEF MarkFailure
  <2>2. Lifecycle!DeadLetter(j)
    BY <1>1, <2>1, DeadLetterSeen
  <2> QED
    BY <2>2 DEF Lifecycle!Next
<1> QED
  BY <1>3, <1>4

\* Every step of the pipeline is one of the lifecycle, or is not seen.
LEMMA NextFollows ==
  TypeOK /\ TriesCurrent /\ [Next]_vars => [Lifecycle!Next]_(Lifecycle!vars)
<1> SUFFICES ASSUME TypeOK, TriesCurrent, [Next]_vars
             PROVE  Lifecycle!Next \/ UNCHANGED Lifecycle!vars
  OBVIOUS
<1>t. jobs \in [Jobs -> JobRows] /\ beat \in [Workers -> Leases]
  BY DEF TypeOK
<1>j. ASSUME UNCHANGED jobs PROVE UNCHANGED Lifecycle!vars
  BY <1>j DEF Lifecycle!vars
<1>e. ASSUME NEW j \in Jobs, EnqueueJob(j) PROVE Lifecycle!Next
  BY <1>e, <1>t, EnqueueSeen DEF Lifecycle!Next
<1>1. ASSUME NEW w \in Workers, Claim(w) \/ ClaimLost(w)
      PROVE  Lifecycle!Next \/ UNCHANGED Lifecycle!vars
  <2>1. FreshToken \in Tokens
    BY <1>1, FreshTokenIsFresh DEF Claim, ClaimLost
  <2>2. PICK j \in Jobs : ClaimJob(j, FreshToken)
    BY <1>1 DEF Claim, ClaimLost
  <2> QED
    BY <1>t, <2>1, <2>2, ClaimSeen DEF Lifecycle!Next
<1>2. ASSUME NEW w \in Workers, Finish(w) \/ FinishFails(w)
      PROVE  Lifecycle!Next \/ UNCHANGED Lifecycle!vars
  <2>1. pc[w] = "check"
    BY <1>2 DEF Finish, FinishFails
  <2>2. held[w] \in Leases /\ held[w].job \in Jobs /\ result[w] \in Invoices
    BY <2>1, HeldTyped DEF TypeOK, WorkersTypeOK
  <2>3. CASE MarkCompleted(held[w], result[w])
    BY <1>t, <2>2, <2>3, CompletedSeen DEF Lifecycle!Next
  <2> QED
    BY <1>2, <1>j, <2>3 DEF Finish, FinishFails
<1>3. ASSUME NEW w \in Workers, Handle(w) \/ HandleFails(w)
      PROVE  Lifecycle!Next \/ UNCHANGED Lifecycle!vars
  <2>1. pc[w] # "idle"
    BY <1>3 DEF Handle, HandleFails
  <2> QED
    BY <1>3, <1>j, <2>1, FailureSeen DEF Handle, HandleFails
<1>4. ASSUME NEW w \in Workers, LandBeat(w) \/ BeatFails(w)
      PROVE  UNCHANGED Lifecycle!vars
  BY <1>4, <1>j, <1>t, RenewUnseen DEF LandBeat, BeatFails
<1>5. ASSUME NEW j \in Jobs, Enqueue(j) \/ LeaseLapses(j) \/ DelayPasses(j)
      PROVE  Lifecycle!Next \/ UNCHANGED Lifecycle!vars
  BY <1>5, <1>e, <1>t, TimeUnseen DEF Enqueue, LeaseLapses, DelayPasses
<1>6. ASSUME NEW o \in Operators, ReplayCheck(o) \/ ReplayEnqueue(o)
      PROVE  Lifecycle!Next \/ UNCHANGED Lifecycle!vars
  BY <1>6, <1>e, <1>j DEF ReplayCheck, ReplayEnqueue
<1>7. ASSUME NEW w \in Workers,
             \/ Begin(w) \/ BeginFails(w) \/ FindByCycleKey(w) \/ SaveInvoice(w)
             \/ Audit(w) \/ ExecuteThrows(w) \/ Record(w) \/ RecordFails(w)
             \/ Unwind(w) \/ UnwindFails(w) \/ Crash(w) \/ SendBeat(w)
      PROVE  UNCHANGED Lifecycle!vars
  BY <1>7, <1>j DEF Begin, BeginFails, FindByCycleKey, SaveInvoice, Audit,
    ExecuteThrows, Record, RecordFails, Unwind, UnwindFails, Crash, SendBeat
<1>8. CASE UNCHANGED vars
  BY <1>8, <1>j DEF vars
<1> QED
  BY <1>1, <1>2, <1>3, <1>4, <1>5, <1>6, <1>7, <1>8
  DEF Next, Progress, WorkerFaults, Heartbeat

\* The queue implements JobLifecycle: whatever happens to leases, workers and
\* heartbeats, a job is retried at most MaxAttempts - 1 times, counts every
\* retry once, and stays in the terminal status it reached.
THEOREM PipelineFollowsLifecycle == Spec => FollowsLifecycle
<1>1. Init => Lifecycle!Init
  BY DEF Init, Lifecycle!Init, NoJob, Untouched
<1>2. Init => TriesCurrent
  BY DEF Init, TriesCurrent
<1> QED
  BY <1>1, <1>2, TypeCorrect, NextTries, NextFollows, PTL
  DEF Spec, FollowsLifecycle, Lifecycle!Spec

-----------------------------------------------------------------------------
(* With one executor per cycle an invoice is never replaced, and whatever   *)
(* names an invoice names the one that is stored.                           *)

\* No job is completed by the step, and no completed job is changed.
NoCompletion ==
  \A j \in Jobs :
    jobs'[j].status = "completed" =>
      jobs[j].status = "completed" /\ jobs'[j].invoice = jobs[j].invoice

LEMMA RowCompletesNothing ==
  ASSUME jobs \in [Jobs -> JobRows], NEW j \in Jobs, NEW row,
         jobs' = [jobs EXCEPT ![j] = row], row.status # "completed"
  PROVE  NoCompletion
  BY DEF NoCompletion

LEMMA TimeCompletesNothing ==
  ASSUME jobs \in [Jobs -> JobRows], NEW j \in Jobs,
         \/ EnqueueJob(j) \/ LeaseRunsOut(j) \/ BecomesDue(j)
         \/ \E t \in Tokens : ClaimJob(j, t)
  PROVE  NoCompletion
<1>1. jobs[j] \in JobRows
  OBVIOUS
<1>2. CASE EnqueueJob(j)
  <2>1. NewJob.status # "completed" /\ jobs' = [jobs EXCEPT ![j] = NewJob]
    BY <1>2 DEF EnqueueJob, NewJob, Untouched
  <2> QED
    BY <2>1, RowCompletesNothing
<1>3. CASE LeaseRunsOut(j)
  <2> DEFINE row == [jobs[j] EXCEPT !.live = FALSE]
  <2>1. row.status # "completed" /\ jobs' = [jobs EXCEPT ![j] = row]
    BY <1>1, <1>3 DEF LeaseRunsOut, JobRows
  <2> HIDE DEF row
  <2> QED
    BY <2>1, RowCompletesNothing
<1>4. CASE BecomesDue(j)
  <2> DEFINE row == [jobs[j] EXCEPT !.due = TRUE]
  <2>1. row.status # "completed" /\ jobs' = [jobs EXCEPT ![j] = row]
    BY <1>1, <1>4 DEF BecomesDue, JobRows
  <2> HIDE DEF row
  <2> QED
    BY <2>1, RowCompletesNothing
<1>5. ASSUME NEW t \in Tokens, ClaimJob(j, t) PROVE NoCompletion
  <2> DEFINE row == [jobs[j] EXCEPT !.status = "processing", !.token = t,
                                    !.live = TRUE, !.due = FALSE]
  <2>1. row.status # "completed" /\ jobs' = [jobs EXCEPT ![j] = row]
    BY <1>1, <1>5 DEF ClaimJob, JobRows
  <2> HIDE DEF row
  <2> QED
    BY <2>1, RowCompletesNothing
<1> QED
  BY <1>2, <1>3, <1>4, <1>5

LEMMA RenewCompletesNothing ==
  ASSUME jobs \in [Jobs -> JobRows], NEW lease \in Leases, RenewLease(lease)
  PROVE  NoCompletion
  BY OwnedRow DEF RenewLease, NoCompletion, JobRows

LEMMA FailureCompletesNothing ==
  ASSUME TypeOK, NEW w \in Workers, MarkFailure(w)
  PROVE  NoCompletion
<1> DEFINE j == held[w].job
<1>1. /\ jobs \in [Jobs -> JobRows]
      /\ Owns(held[w])
      /\ j \in Jobs
      /\ jobs[j] \in JobRows
  <2>1. jobs \in [Jobs -> JobRows] /\ held[w] \in Leases
    BY DEF TypeOK, WorkersTypeOK
  <2> QED
    BY <2>1, OwnedRow DEF MarkFailure, MarkRetry, MarkDeadLetter, Mark
<1>2. CASE MarkRetry(held[w], tries[w] + 1)
  <2> DEFINE row == [[jobs[j] EXCEPT !.status = "queued", !.attempts = tries[w] + 1]
                       EXCEPT !.token = None, !.live = FALSE]
  <2>1. row.status # "completed" /\ jobs' = [jobs EXCEPT ![j] = row]
    BY <1>1, <1>2 DEF MarkRetry, Mark, JobRows
  <2> HIDE DEF row
  <2> QED
    BY <1>1, <2>1, RowCompletesNothing
<1>3. CASE MarkDeadLetter(held[w])
  <2> DEFINE row == [[jobs[j] EXCEPT !.status = "failed"] EXCEPT !.token = None, !.live = FALSE]
  <2>1. row.status # "completed" /\ jobs' = [jobs EXCEPT ![j] = row]
    BY <1>1, <1>3 DEF MarkDeadLetter, Mark, JobRows
  <2> HIDE DEF row
  <2> QED
    BY <1>1, <2>1, RowCompletesNothing
<1> QED
  BY <1>2, <1>3 DEF MarkFailure

\* markCompleted by a worker whose result is the stored invoice.
LEMMA CompletedNamed ==
  ASSUME TypeOK, InvoicesNamed, NEW w \in Workers, pc[w] = "check",
         MarkCompleted(held[w], result[w]), UNCHANGED invoices
  PROVE  CompletedNamesInvoice'
<1> DEFINE j == held[w].job
           row == [[jobs[j] EXCEPT !.status = "completed", !.invoice = result[w]]
                     EXCEPT !.token = None, !.live = FALSE]
<1>1. j \in Jobs /\ jobs[j] \in JobRows /\ jobs \in [Jobs -> JobRows]
  BY HeldTyped DEF TypeOK
<1>2. jobs' = [jobs EXCEPT ![j] = row] /\ row.invoice = result[w]
  BY <1>1 DEF MarkCompleted, Mark, JobRows
<1>3. invoices[CycleOf[j]] = result[w]
  BY DEF InvoicesNamed, WorkersNamed
<1> HIDE DEF row, j
<1> QED
  BY <1>1, <1>2, <1>3 DEF InvoicesNamed, CompletedNamesInvoice

\* A step that stores no invoice keeps what names one, as long as it names
\* none that is not stored.
Naming == {"save", "audit", "record", "check"}

LEMMA CompletedKept ==
  InvoicesNamed /\ UNCHANGED invoices /\ NoCompletion => CompletedNamesInvoice'
  BY DEF InvoicesNamed, CompletedNamesInvoice, NoCompletion

LEMMA MarkersKept == InvoicesNamed /\ UNCHANGED <<invoices, marker>> => MarkersNamed'
  BY DEF InvoicesNamed, MarkersNamed

LEMMA MarkerNamed ==
  ASSUME TypeOK, InvoicesNamed, UNCHANGED invoices,
         NEW w \in Workers, pc[w] # "idle", NEW m, SetMarker(w, m),
         m.status = "completed" => invoices[CycleOf[held[w].job]] = m.invoice
  PROVE  MarkersNamed'
<1>1. held[w].job \in Jobs /\ marker \in [Jobs -> Markers]
  BY HeldTyped DEF TypeOK
<1> QED
  BY <1>1 DEF InvoicesNamed, MarkersNamed, SetMarker

LEMMA WorkersKept ==
  ASSUME InvoicesNamed, UNCHANGED invoices,
         \A u \in Workers : pc'[u] \in Naming =>
           pc'[u] = pc[u] /\ held'[u] = held[u] /\ result'[u] = result[u]
  PROVE  WorkersNamed'
  BY DEF InvoicesNamed, WorkersNamed, Naming

LEMMA WorkerReleased ==
  ASSUME TypeOK, InvoicesNamed, UNCHANGED invoices, NEW w \in Workers, Release(w)
  PROVE  WorkersNamed'
<1>1. \A u \in Workers : pc'[u] \in Naming =>
        pc'[u] = pc[u] /\ held'[u] = held[u] /\ result'[u] = result[u]
  BY DEF TypeOK, WorkersTypeOK, Release, Goto, Naming
<1> QED
  BY <1>1, WorkersKept

LEMMA WorkerMoved ==
  ASSUME TypeOK, InvoicesNamed, UNCHANGED invoices, NEW w \in Workers, NEW step, NEW v,
         ProceedWith(w, step, v) \/ (Proceed(w, step) /\ v = result[w]),
         step = "save" => invoices[CycleOf[held[w].job]] = None,
         step \in {"audit", "record", "check"} => invoices[CycleOf[held[w].job]] = v
  PROVE  WorkersNamed'
<1>1. /\ pc' = [pc EXCEPT ![w] = step] /\ held' = held
      /\ result' = [result EXCEPT ![w] = v]
      /\ pc \in [Workers -> Busy \cup {"idle"}]
      /\ result \in [Workers -> Invoices \cup {None}]
  BY DEF TypeOK, WorkersTypeOK, Proceed, ProceedWith, Goto
<1> QED
  BY <1>1 DEF InvoicesNamed, WorkersNamed

\* The only worker at its cycle's invoice stores one, where there is none.
LEMMA StoreNamed ==
  ASSUME TypeOK, OneExecutorPerCycle, InvoicesNamed, NEW w \in Workers, pc[w] = "save",
         StoreInvoice(w), NEW step, NEW v, ProceedWith(w, step, v),
         UNCHANGED <<marker, jobs>>,
         step \in {"audit", "unwind"}, step = "audit" => v = NewInvoice(w)
  PROVE  InvoicesNamed'
<1> DEFINE c == CycleOf[held[w].job]
<1>1. /\ pc' = [pc EXCEPT ![w] = step] /\ held' = held
      /\ result' = [result EXCEPT ![w] = v]
      /\ pc \in [Workers -> Busy \cup {"idle"}]
      /\ result \in [Workers -> Invoices \cup {None}]
      /\ \A u \in Workers : pc[u] \in {"audit", "record", "check"} => result[u] # None
      /\ marker \in [Jobs -> Markers] /\ jobs \in [Jobs -> JobRows]
      /\ invoices \in [Cycles -> Invoices \cup {None}]
  BY DEF TypeOK, WorkersTypeOK, ProceedWith, Goto
<1>2. c \in Cycles /\ invoices' = [invoices EXCEPT ![c] = NewInvoice(w)]
  BY HeldTyped DEF StoreInvoice
<1>3. invoices[c] = None
  BY DEF InvoicesNamed, WorkersNamed
<1>4. WorkersNamed'
  <2> SUFFICES ASSUME NEW u \in Workers
               PROVE  /\ pc'[u] = "save" => invoices'[CycleOf[held'[u].job]] = None
                      /\ pc'[u] \in {"audit", "record", "check"} =>
                           invoices'[CycleOf[held'[u].job]] = result'[u]
    BY DEF WorkersNamed
  <2>1. CASE u = w
    BY <1>1, <1>2, <2>1
  <2>2. CASE u # w /\ pc[u] \in Naming
    <3>1. CycleOf[held[u].job] # c
      BY <1>1, <1>3, <2>2
      DEF OneExecutorPerCycle, InvoicesNamed, WorkersNamed, Naming, Executing
    <3>2. pc'[u] = pc[u] /\ held'[u] = held[u] /\ result'[u] = result[u]
      BY <1>1, <2>2
    <3>3. invoices'[CycleOf[held[u].job]] = invoices[CycleOf[held[u].job]]
      <4>1. CycleOf[held[u].job] \in Cycles
        BY <2>2, HeldTyped DEF Naming
      <4> QED
        BY <1>1, <1>2, <3>1, <4>1
    <3> QED
      BY <3>2, <3>3 DEF InvoicesNamed, WorkersNamed
  <2>3. CASE u # w /\ pc[u] \notin Naming
    BY <1>1, <2>3 DEF Naming
  <2> QED
    BY <2>1, <2>2, <2>3
<1>5. MarkersNamed'
  <2> SUFFICES ASSUME NEW j \in Jobs, marker[j].status = "completed"
               PROVE  invoices'[CycleOf[j]] = marker[j].invoice
    BY DEF MarkersNamed
  <2>1. marker[j].invoice # None /\ invoices[CycleOf[j]] = marker[j].invoice
    BY <1>1 DEF Markers, InvoicesNamed, MarkersNamed
  <2>2. CycleOf[j] \in Cycles /\ CycleOf[j] # c
    BY <1>3, <2>1, PipelineAssumption
  <2> QED
    BY <1>1, <1>2, <2>1, <2>2
<1>6. CompletedNamesInvoice'
  <2> SUFFICES ASSUME NEW j \in Jobs, jobs[j].status = "completed"
               PROVE  invoices'[CycleOf[j]] = jobs[j].invoice
    BY DEF CompletedNamesInvoice
  <2>1. jobs[j].invoice # None /\ invoices[CycleOf[j]] = jobs[j].invoice
    BY <1>1 DEF JobRows, InvoicesNamed, CompletedNamesInvoice
  <2>2. CycleOf[j] \in Cycles /\ CycleOf[j] # c
    BY <1>3, <2>1, PipelineAssumption
  <2> QED
    BY <1>1, <1>2, <2>1, <2>2
<1> QED
  BY <1>4, <1>5, <1>6 DEF InvoicesNamed

\* Every step of a pipeline with one executor per cycle keeps the names.
LEMMA NextNamed ==
  ASSUME TypeOK, OneExecutorPerCycle, InvoicesNamed, [Next]_vars
  PROVE  InvoicesNamed'
<1>t. jobs \in [Jobs -> JobRows] /\ beat \in [Workers -> Leases] /\ held \in [Workers -> Leases]
  BY DEF TypeOK, WorkersTypeOK
<1>j. UNCHANGED jobs => NoCompletion
  BY DEF NoCompletion
<1>k. UNCHANGED <<pc, held, result, invoices>> => WorkersNamed'
  BY WorkersKept
<1>c. ASSUME NEW w \in Workers, Claim(w) \/ ClaimLost(w) PROVE NoCompletion
  <2>1. FreshToken \in Tokens /\ \E j \in Jobs : ClaimJob(j, FreshToken)
    BY <1>c, FreshTokenIsFresh DEF Claim, ClaimLost
  <2> QED
    BY <1>t, <2>1, TimeCompletesNothing
<1>1. ASSUME NEW w \in Workers, Claim(w) PROVE InvoicesNamed'
  <2>1. UNCHANGED <<marker, invoices>>
    BY <1>1 DEF Claim
  <2>2. \A u \in Workers : pc'[u] \in Naming =>
          pc'[u] = pc[u] /\ held'[u] = held[u] /\ result'[u] = result[u]
    BY <1>1 DEF Claim, Goto, TypeOK, WorkersTypeOK, Naming
  <2> QED
    BY <1>1, <1>c, <2>1, <2>2, CompletedKept, MarkersKept, WorkersKept DEF InvoicesNamed
<1>2. ASSUME NEW w \in Workers, ClaimLost(w) PROVE InvoicesNamed'
  BY <1>2, <1>c, <1>k, CompletedKept, MarkersKept DEF ClaimLost, workerVars, InvoicesNamed
<1>3. ASSUME NEW w \in Workers, Begin(w) PROVE InvoicesNamed'
  <2> DEFINE m == marker[held[w].job]
  <2>1. UNCHANGED <<jobs, invoices>> /\ pc[w] = "begin" /\ held[w].job \in Jobs
    BY <1>3, HeldTyped DEF Begin
  <2>2. CompletedNamesInvoice'
    BY <1>j, <2>1, CompletedKept
  <2>3. CASE SetMarker(w, Marker("processing")) /\ Proceed(w, "find")
    <3>1. MarkersNamed'
      BY <2>1, <2>3, MarkerNamed DEF Marker
    <3>2. WorkersNamed'
      BY <2>1, <2>3, WorkerMoved
    <3> QED
      BY <2>2, <3>1, <3>2 DEF InvoicesNamed
  <2>4. CASE Proceed(w, "handle") /\ UNCHANGED marker
    <3>1. WorkersNamed'
      BY <2>1, <2>4, WorkerMoved
    <3> QED
      BY <2>1, <2>2, <2>4, <3>1, MarkersKept DEF InvoicesNamed
  <2>5. CASE m.status = "completed" /\ ProceedWith(w, "check", m.invoice) /\ UNCHANGED marker
    <3>1. invoices[CycleOf[held[w].job]] = m.invoice
      BY <2>1, <2>5 DEF InvoicesNamed, MarkersNamed
    <3>2. WorkersNamed'
      BY <2>1, <2>5, <3>1, WorkerMoved
    <3> QED
      BY <2>1, <2>2, <2>5, <3>2, MarkersKept DEF InvoicesNamed
  <2> QED
    BY <1>3, <2>3, <2>4, <2>5 DEF Begin
<1>4. ASSUME NEW w \in Workers, NEW step \in {"find", "save", "record", "handle"}, NEW v,
             pc[w] # "idle", UNCHANGED <<jobs, marker, invoices>>,
             ProceedWith(w, step, v) \/ (Proceed(w, step) /\ v = result[w]),
             step = "save" => invoices[CycleOf[held[w].job]] = None,
             step = "record" => invoices[CycleOf[held[w].job]] = v
      PROVE  InvoicesNamed'
  <2>1. WorkersNamed'
    BY <1>4, WorkerMoved
  <2> QED
    BY <1>4, <1>j, <2>1, CompletedKept, MarkersKept DEF InvoicesNamed
<1>5. ASSUME NEW w \in Workers, FindByCycleKey(w) \/ Audit(w) PROVE InvoicesNamed'
  <2>1. CASE FindByCycleKey(w)
    BY <1>4, <2>1 DEF FindByCycleKey
  <2>2. CASE Audit(w)
    <3>1. invoices[CycleOf[held[w].job]] = result[w]
      BY <2>2 DEF Audit, InvoicesNamed, WorkersNamed
    <3> QED
      BY <1>4, <2>2, <3>1 DEF Audit
  <2> QED
    BY <1>5, <2>1, <2>2
<1>6. ASSUME NEW w \in Workers, SaveInvoice(w) PROVE InvoicesNamed'
  BY <1>6, StoreNamed DEF SaveInvoice
<1>7. ASSUME NEW w \in Workers, NEW m, pc[w] # "idle", UNCHANGED <<jobs, invoices>>,
             UNCHANGED marker \/ SetMarker(w, m),
             m.status = "completed" => invoices[CycleOf[held[w].job]] = m.invoice,
             NEW step \in {"unwind", "handle", "check"}, NEW v,
             ProceedWith(w, step, v) \/ (Proceed(w, step) /\ v = result[w]),
             step = "check" => invoices[CycleOf[held[w].job]] = v
      PROVE  InvoicesNamed'
  <2>1. WorkersNamed'
    BY <1>7, WorkerMoved
  <2>2. MarkersNamed'
    BY <1>7, MarkersKept, MarkerNamed
  <2> QED
    BY <1>7, <1>j, <2>1, <2>2, CompletedKept DEF InvoicesNamed
<1>8. ASSUME NEW w \in Workers, BeginFails(w) \/ Unwind(w) \/ UnwindFails(w)
      PROVE  InvoicesNamed'
  <2>1. PICK s \in {"processing", "failed"} : UNCHANGED marker \/ SetMarker(w, Marker(s))
    BY <1>8 DEF BeginFails, Unwind, UnwindFails
  <2>2. pc[w] # "idle" /\ UNCHANGED <<jobs, invoices>> /\ Proceed(w, "handle")
    BY <1>8 DEF BeginFails, Unwind, UnwindFails
  <2> QED
    BY <1>7, <2>1, <2>2 DEF Marker
<1>9. ASSUME NEW w \in Workers, ExecuteThrows(w) PROVE InvoicesNamed'
  <2>1. CASE UNCHANGED invoices
    <3>1. pc[w] # "idle" /\ UNCHANGED <<jobs, invoices, marker>> /\ ProceedWith(w, "unwind", None)
      BY <1>9, <2>1 DEF ExecuteThrows
    <3>2. WorkersNamed'
      BY <2>1, <3>1, WorkerMoved
    <3> QED
      BY <1>j, <3>1, <3>2, CompletedKept, MarkersKept DEF InvoicesNamed
  <2>2. CASE pc[w] = "save" /\ StoreInvoice(w)
    BY <1>9, <2>2, StoreNamed DEF ExecuteThrows
  <2> QED
    BY <1>9, <2>1, <2>2 DEF ExecuteThrows
<1>10. ASSUME NEW w \in Workers, Record(w) \/ RecordFails(w) PROVE InvoicesNamed'
  <2> DEFINE m == [status |-> "completed", invoice |-> result[w]]
  <2>1. pc[w] = "record" /\ UNCHANGED <<jobs, invoices>> /\ (UNCHANGED marker \/ SetMarker(w, m))
    BY <1>10 DEF Record, RecordFails
  <2>2. invoices[CycleOf[held[w].job]] = result[w]
    BY <2>1 DEF InvoicesNamed, WorkersNamed
  <2>3. Proceed(w, "check") \/ ProceedWith(w, "unwind", None)
    BY <1>10 DEF Record, RecordFails
  <2> QED
    BY <1>7, <2>1, <2>2, <2>3
<1>11. ASSUME NEW w \in Workers, Finish(w) \/ FinishFails(w) PROVE InvoicesNamed'
  <2>1. pc[w] = "check" /\ UNCHANGED <<marker, invoices>>
    BY <1>11 DEF Finish, FinishFails
  <2>2. CompletedNamesInvoice'
    BY <1>11, <1>j, <2>1, CompletedKept, CompletedNamed DEF Finish, FinishFails
  <2>3. WorkersNamed'
    BY <1>11, <2>1, WorkerReleased, WorkerMoved DEF Finish, FinishFails
  <2> QED
    BY <2>1, <2>2, <2>3, MarkersKept DEF InvoicesNamed
<1>12. ASSUME NEW w \in Workers, Handle(w) \/ HandleFails(w) \/ Crash(w)
       PROVE  InvoicesNamed'
  <2>1. UNCHANGED <<marker, invoices>> /\ Release(w)
    BY <1>12 DEF Handle, HandleFails, Crash
  <2>2. NoCompletion
    BY <1>12, <1>j, FailureCompletesNothing DEF Handle, HandleFails, Crash
  <2> QED
    BY <2>1, <2>2, WorkerReleased, CompletedKept, MarkersKept DEF InvoicesNamed
<1>13. ASSUME NEW w \in Workers, Heartbeat(w) PROVE InvoicesNamed'
  <2>1. UNCHANGED <<pc, held, result, marker, invoices>>
    BY <1>13 DEF Heartbeat, SendBeat, LandBeat, BeatFails, workerVars
  <2>2. NoCompletion
    BY <1>13, <1>j, <1>t, RenewCompletesNothing DEF Heartbeat, SendBeat, LandBeat, BeatFails
  <2> QED
    BY <1>k, <2>1, <2>2, CompletedKept, MarkersKept DEF InvoicesNamed
<1>14. ASSUME NEW j \in Jobs, Enqueue(j) \/ LeaseLapses(j) \/ DelayPasses(j)
       PROVE  InvoicesNamed'
  BY <1>14, <1>t, <1>k, TimeCompletesNothing, CompletedKept, MarkersKept
  DEF Enqueue, LeaseLapses, DelayPasses, workerVars, InvoicesNamed
<1>15. ASSUME NEW o \in Operators, ReplayCheck(o) \/ ReplayEnqueue(o)
       PROVE  InvoicesNamed'
  BY <1>15, <1>t, <1>j, <1>k, TimeCompletesNothing, CompletedKept, MarkersKept
  DEF ReplayCheck, ReplayEnqueue, workerVars, InvoicesNamed
<1>16. CASE UNCHANGED vars
  BY <1>16, <1>j, <1>k, CompletedKept, MarkersKept DEF vars, workerVars, InvoicesNamed
<1> QED
  BY <1>1, <1>2, <1>3, <1>5, <1>6, <1>8, <1>9, <1>10, <1>11, <1>12, <1>13, <1>14, <1>15,
     <1>16
  DEF Next, Progress, WorkerFaults

\* Who stores an invoice finds none for its cycle.
StoresFirst == \A c \in Cycles : invoices[c] # None => invoices'[c] = invoices[c]

LEMMA NextStoresFirst ==
  ASSUME TypeOK, InvoicesNamed, [Next]_vars
  PROVE  StoresFirst
<1>1. CASE UNCHANGED invoices
  BY <1>1 DEF StoresFirst
<1>2. ASSUME NEW w \in Workers, pc[w] = "save", StoreInvoice(w) PROVE StoresFirst
  <2>1. invoices \in [Cycles -> Invoices \cup {None}]
    BY DEF TypeOK
  <2>2. invoices[CycleOf[held[w].job]] = None
    BY <1>2 DEF InvoicesNamed, WorkersNamed
  <2> QED
    BY <1>2, <2>1, <2>2 DEF StoreInvoice, StoresFirst
<1>3. ASSUME NEW w \in Workers, SaveInvoice(w) \/ ExecuteThrows(w) PROVE StoresFirst
  BY <1>1, <1>2, <1>3 DEF SaveInvoice, ExecuteThrows
<1>4. ASSUME ~ \E w \in Workers : SaveInvoice(w) \/ ExecuteThrows(w)
      PROVE  UNCHANGED invoices
  BY <1>4 DEF Next, vars, Progress, WorkerFaults, Heartbeat, Claim, ClaimLost, Begin,
    BeginFails, FindByCycleKey, Audit, Record, RecordFails, Unwind, UnwindFails, Finish,
    FinishFails, Handle, HandleFails, Crash, SendBeat, LandBeat, BeatFails, Enqueue,
    LeaseLapses, DelayPasses, ReplayCheck, ReplayEnqueue
<1> QED
  BY <1>1, <1>3, <1>4

\* An invoice is replaced, or a completed job reports another than the stored
\* one, only where two workers generated invoices of one cycle together: it is
\* for that alone that the upsert of the repository, unconditional as it is,
\* is not safe.
THEOREM StableWhenAlone ==
  Spec /\ []OneExecutorPerCycle => InvoiceStable /\ []CompletedNamesInvoice
<1>1. Init => InvoicesNamed
  BY DEF Init, InvoicesNamed, WorkersNamed, MarkersNamed, CompletedNamesInvoice,
    NoJob, Untouched, Marker
<1>2. TypeOK /\ OneExecutorPerCycle /\ InvoicesNamed /\ [Next]_vars => InvoicesNamed'
  BY NextNamed
<1>3. TypeOK /\ InvoicesNamed /\ [Next]_vars => [StoresFirst]_vars
  BY NextStoresFirst
<1>4. InvoicesNamed => CompletedNamesInvoice
  BY DEF InvoicesNamed
<1> QED
  BY <1>1, <1>2, <1>3, <1>4, TypeCorrect, PTL DEF Spec, InvoiceStable, StoresFirst

-----------------------------------------------------------------------------
(* When there is one executor per cycle.                                    *)

\* A job that ended stays as it ended.
EndsFinal ==
  \A j \in Jobs : jobs[j].status \in {"completed", "failed"} => jobs'[j].status = jobs[j].status

LEMMA NextEndsFinal ==
  ASSUME TypeOK, TriesCurrent, [Next]_vars
  PROVE  EndsFinal
<1> DEFINE status == [j \in Jobs |-> jobs[j].status]
<1>1. [Lifecycle!Next]_(Lifecycle!vars)
  BY NextFollows
<1>2. \A j \in Jobs : status[j] \in {"completed", "failed"} => status'[j] = status[j]
  <2>1. CASE UNCHANGED Lifecycle!vars
    BY <2>1 DEF Lifecycle!vars
  <2>2. ASSUME NEW i \in Jobs, NEW from \in {"absent", "queued", "processing"}, NEW to,
               Lifecycle!Move(i, from, to)
        PROVE  \A j \in Jobs : status[j] \in {"completed", "failed"} => status'[j] = status[j]
    BY <2>2 DEF Lifecycle!Move
  <2>3. CASE Lifecycle!Next
    BY <2>2, <2>3 DEF Lifecycle!Next, Lifecycle!Enqueue, Lifecycle!Start, Lifecycle!Retry,
      Lifecycle!DeadLetter, Lifecycle!Complete
  <2> QED
    BY <1>1, <2>1, <2>3
<1> QED
  BY <1>2 DEF EndsFinal

\* A job enters the table by being enqueued, whatever else changes a row
\* changes one that is there.
LEMMA OnlyEnqueued ==
  ASSUME TypeOK, [Next]_vars, NEW j \in Jobs,
         jobs[j].status = "absent", jobs'[j].status # "absent"
  PROVE  \/ Enqueue(j)
         \/ \E o \in Operators :
              /\ replaying[o] # None
              /\ CycleOf[j] = CycleOf[replaying[o]]
              /\ replaying' = [replaying EXCEPT ![o] = None]
<1>t. jobs \in [Jobs -> JobRows]
  BY DEF TypeOK
<1>i. ASSUME NEW i \in Jobs, NEW row, jobs' = [jobs EXCEPT ![i] = row]
      PROVE  i = j
  BY <1>i, <1>t
<1>0. ~ UNCHANGED jobs
  OBVIOUS
<1>1. ~ \E i \in Jobs : LeaseLapses(i) \/ DelayPasses(i)
  BY <1>i DEF LeaseLapses, LeaseRunsOut, DelayPasses, BecomesDue
<1>2. \A i \in Jobs : Enqueue(i) => i = j
  BY <1>i DEF Enqueue, EnqueueJob
<1>3. ~ \E w \in Workers : Claim(w) \/ ClaimLost(w)
  <2>1. ASSUME NEW i \in Jobs, ClaimJob(i, FreshToken) PROVE FALSE
    <3> DEFINE row == [jobs[i] EXCEPT !.status = "processing", !.token = FreshToken,
                                      !.live = TRUE, !.due = FALSE]
    <3>1. jobs' = [jobs EXCEPT ![i] = row]
      BY <2>1 DEF ClaimJob
    <3> HIDE DEF row
    <3> QED
      BY <1>i, <2>1, <3>1 DEF ClaimJob, Claimable, IsReady, IsExpired
  <2> QED
    BY <2>1 DEF Claim, ClaimLost
<1>4. ASSUME NEW lease \in Leases
      PROVE  ~ RenewLease(lease) /\ ~ \E row : Mark(lease, row)
  <2>1. Owns(lease) => lease.job \in Jobs /\ lease.job # j
    BY <1>t, OwnedRow
  <2> QED
    BY <1>i, <2>1 DEF RenewLease, Mark
<1>5. ASSUME NEW w \in Workers
      PROVE  ~ (Finish(w) \/ FinishFails(w) \/ Handle(w) \/ HandleFails(w) \/ Heartbeat(w))
  <2>1. held[w] \in Leases /\ beat[w] \in Leases
    BY DEF TypeOK, WorkersTypeOK
  <2>2. ~ MarkFailure(w) /\ ~ MarkCompleted(held[w], result[w]) /\ ~ RenewLease(beat[w])
    BY <1>4, <2>1, FailureMarks DEF MarkCompleted
  <2> QED
    BY <1>0, <2>2 DEF Finish, FinishFails, Handle, HandleFails, Heartbeat, SendBeat,
      LandBeat, BeatFails
<1>6. ASSUME NEW w \in Workers
      PROVE  ~ (\/ Begin(w) \/ BeginFails(w) \/ FindByCycleKey(w) \/ SaveInvoice(w)
                \/ Audit(w) \/ ExecuteThrows(w) \/ Record(w) \/ RecordFails(w)
                \/ Unwind(w) \/ UnwindFails(w) \/ Crash(w))
  BY <1>0 DEF Begin, BeginFails, FindByCycleKey, SaveInvoice, Audit, ExecuteThrows, Record,
    RecordFails, Unwind, UnwindFails, Crash
<1>7. (\E i \in Jobs : Enqueue(i)) \/ \E o \in Operators : ReplayCheck(o) \/ ReplayEnqueue(o)
  BY <1>0, <1>1, <1>3, <1>5, <1>6 DEF Next, Progress, WorkerFaults, vars
<1>8. ASSUME NEW o \in Operators, ReplayEnqueue(o)
      PROVE  /\ replaying[o] # None
             /\ CycleOf[j] = CycleOf[replaying[o]]
             /\ replaying' = [replaying EXCEPT ![o] = None]
  BY <1>8, <1>i DEF ReplayEnqueue, EnqueueJob
<1> QED
  BY <1>0, <1>2, <1>7, <1>8 DEF ReplayCheck

\* Every step keeps replays behind the failures they follow.
LEMMA NextFollow ==
  ASSUME TypeOK, TriesCurrent, ReplaysFollow, [Next]_vars
  PROVE  ReplaysFollow'
<1>t. replaying \in [Operators -> Jobs \cup {None}]
  BY DEF TypeOK
<1>f. EndsFinal
  BY NextEndsFinal
<1>1. ASSUME NEW o \in Operators, replaying'[o] # None
      PROVE  jobs'[replaying'[o]].status = "failed"
  <2>1. CASE replaying'[o] = replaying[o]
    BY <1>1, <1>f, <1>t, <2>1 DEF ReplaysFollow, EndsFinal
  <2>2. CASE replaying'[o] # replaying[o]
    <3>1. PICK p \in Operators : ReplayCheck(p) \/ ReplayEnqueue(p)
      BY <2>2 DEF Next, vars, Progress, WorkerFaults, Heartbeat, Claim, ClaimLost, Begin,
        BeginFails, FindByCycleKey, SaveInvoice, Audit, ExecuteThrows, Record, RecordFails,
        Unwind, UnwindFails, Finish, FinishFails, Handle, HandleFails, Crash, SendBeat,
        LandBeat, BeatFails, Enqueue, LeaseLapses, DelayPasses
    <3>2. ReplayCheck(p)
      BY <1>1, <1>t, <2>2, <3>1 DEF ReplayEnqueue
    <3>3. PICK j \in Jobs :
            jobs[j].status = "failed" /\ replaying' = [replaying EXCEPT ![p] = j]
      BY <3>2 DEF ReplayCheck
    <3>4. replaying'[o] = j /\ jobs' = jobs
      BY <1>t, <2>2, <3>2, <3>3 DEF ReplayCheck
    <3> QED
      BY <3>3, <3>4
  <2> QED
    BY <2>1, <2>2
<1>2. ASSUME NEW j \in Jobs \ Enqueued, jobs'[j].status # "absent"
      PROVE  \E i \in Enqueued : CycleOf[i] = CycleOf[j] /\ jobs'[i].status = "failed"
  <2>1. PICK i \in Enqueued : CycleOf[i] = CycleOf[j] /\ jobs[i].status = "failed"
    <3>1. CASE jobs[j].status # "absent"
      BY <1>2, <3>1 DEF ReplaysFollow
    <3>2. CASE jobs[j].status = "absent"
      <4>1. PICK o \in Operators : replaying[o] # None /\ CycleOf[j] = CycleOf[replaying[o]]
        BY <1>2, <3>2, OnlyEnqueued DEF Enqueue
      <4>2. replaying[o] \in Jobs /\ jobs[replaying[o]].status = "failed"
        BY <1>t, <4>1 DEF ReplaysFollow
      <4> QED
        BY <4>1, <4>2 DEF ReplaysFollow
    <3> QED
      BY <3>1, <3>2
  <2> QED
    BY <1>f, <2>1, PipelineAssumption DEF EndsFinal
<1> QED
  BY <1>1, <1>2 DEF ReplaysFollow

\* A worker's lease is as it was before the step, and live.
LeaseKept(u) ==
  /\ jobs'[held[u].job].status = "processing"
  /\ jobs'[held[u].job].token = jobs[held[u].job].token
  /\ jobs'[held[u].job].live

\* The workers at work go on under the lease they had.
LEMMA LeasesKept ==
  ASSUME LeasesHeld,
         \A u \in Workers : pc'[u] # "idle" =>
           /\ pc[u] # "idle"
           /\ held'[u] = held[u]
           /\ pc'[u] # "handle" => pc[u] # "handle" /\ LeaseKept(u)
  PROVE  LeasesHeld'
  BY DEF LeasesHeld, LeaseKept, Owns

\* One row of the table changes, of a job that is in the hands of no worker, or
\* of one only.
LEMMA OtherRowsKept ==
  ASSUME TypeOK, LeasesHeld, NEW j \in Jobs, NEW row, jobs' = [jobs EXCEPT ![j] = row],
         NEW u \in Workers, pc[u] \notin {"idle", "handle"}, held[u].job # j
  PROVE  LeaseKept(u)
<1>1. held[u].job \in Jobs /\ jobs \in [Jobs -> JobRows]
  BY HeldTyped DEF TypeOK
<1> QED
  BY <1>1 DEF LeasesHeld, LeaseKept, Owns

\* A claim takes no job from a worker that is still at it.
LEMMA ClaimKeepsLeases ==
  ASSUME TypeOK, LeasesHeld, NEW j \in Jobs, NEW t, ClaimJob(j, t)
  PROVE  \A u \in Workers : pc[u] \notin {"idle", "handle"} => LeaseKept(u)
<1> SUFFICES ASSUME NEW u \in Workers, pc[u] \notin {"idle", "handle"}
             PROVE  LeaseKept(u)
  OBVIOUS
<1> DEFINE row == [jobs[j] EXCEPT !.status = "processing", !.token = t,
                                  !.live = TRUE, !.due = FALSE]
<1>1. jobs' = [jobs EXCEPT ![j] = row]
  BY DEF ClaimJob
<1>2. held[u].job # j
  BY DEF ClaimJob, Claimable, IsReady, IsExpired, LeasesHeld, Owns
<1> HIDE DEF row
<1> QED
  BY <1>1, <1>2, OtherRowsKept

\* Nor does a mark by another worker, which is under another lease.
LEMMA MarkKeepsLeases ==
  ASSUME TypeOK, LeasesHeld, NEW w \in Workers, pc[w] # "idle", NEW row, Mark(held[w], row),
         NEW u \in Workers, u # w, pc[u] \notin {"idle", "handle"}
  PROVE  LeaseKept(u)
<1>1. held[w].job \in Jobs
  BY HeldTyped
<1>2. held[u].job # held[w].job
  BY DEF LeasesHeld, Mark, Owns
<1>3. PICK r : jobs' = [jobs EXCEPT ![held[w].job] = r]
  BY DEF Mark
<1> QED
  BY <1>1, <1>2, <1>3, OtherRowsKept

\* Nor a renewal, nor the time, so long as it leaves the attended leases alone.
LEMMA RenewKeepsLeases ==
  ASSUME TypeOK, LeasesHeld, NEW lease \in Leases, RenewLease(lease)
  PROVE  \A u \in Workers : pc[u] \notin {"idle", "handle"} => LeaseKept(u)
<1>1. lease.job \in Jobs /\ jobs[lease.job] \in JobRows /\ jobs \in [Jobs -> JobRows]
  BY OwnedRow DEF TypeOK, RenewLease
<1>2. \A u \in Workers : pc[u] # "idle" => held[u].job \in Jobs
  BY HeldTyped
<1> QED
  BY <1>1, <1>2 DEF RenewLease, LeasesHeld, LeaseKept, Owns, JobRows

LEMMA TimeKeepsLeases ==
  ASSUME TypeOK, LeasesHeld, NEW j \in Jobs,
         EnqueueJob(j) \/ BecomesDue(j) \/ (LeaseRunsOut(j) /\ ~ Attended(j))
  PROVE  \A u \in Workers : pc[u] \notin {"idle", "handle"} => LeaseKept(u)
<1> SUFFICES ASSUME NEW u \in Workers, pc[u] \notin {"idle", "handle"}
             PROVE  LeaseKept(u)
  OBVIOUS
<1>1. PICK row : jobs' = [jobs EXCEPT ![j] = row]
  BY DEF EnqueueJob, BecomesDue, LeaseRunsOut
<1>2. held[u].job # j
  BY DEF EnqueueJob, BecomesDue, Attended, LeasesHeld, Owns
<1> QED
  BY <1>1, <1>2, OtherRowsKept

\* Where no worker is slower than its lease, every step leaves the workers
\* theirs, until they handle a failure.
LEMMA NextLeases ==
  ASSUME "stall" \notin FaultKinds, TypeOK, LeasesHeld, [Next]_vars
  PROVE  LeasesHeld'
<1> DEFINE Kept(u) == pc'[u] # "idle" =>
             /\ pc[u] # "idle"
             /\ held'[u] = held[u]
             /\ pc'[u] # "handle" => pc[u] # "handle" /\ LeaseKept(u)
<1>t. /\ jobs \in [Jobs -> JobRows]
      /\ pc \in [Workers -> Busy \cup {"idle"}]
      /\ held \in [Workers -> Leases] /\ beat \in [Workers -> Leases]
  BY DEF TypeOK, WorkersTypeOK
<1>j. ASSUME NEW u \in Workers, pc[u] \notin {"idle", "handle"}, UNCHANGED jobs
      PROVE  LeaseKept(u)
  BY <1>j DEF LeasesHeld, LeaseKept, Owns
<1>k. ASSUME \A u \in Workers : Kept(u) PROVE LeasesHeld'
  BY <1>k, LeasesKept
<1>u. ASSUME UNCHANGED <<pc, held>>,
             \A u \in Workers : pc[u] \notin {"idle", "handle"} => LeaseKept(u)
      PROVE  LeasesHeld'
  BY <1>u, <1>k
<1>1. ASSUME NEW w \in Workers, Claim(w) PROVE LeasesHeld'
  <2>1. PICK j \in Jobs : /\ ClaimJob(j, FreshToken)
                          /\ held' = [held EXCEPT ![w] = [job |-> j, token |-> FreshToken]]
    BY <1>1 DEF Claim
  <2>2. pc' = [pc EXCEPT ![w] = "begin"] /\ FreshToken \in Tokens
    BY <1>1, FreshTokenIsFresh DEF Claim, Goto
  <2>3. \A u \in Workers : u # w => held'[u] = held[u] /\ pc'[u] = pc[u]
    BY <1>t, <2>1, <2>2
  <2>4. held'[w] = [job |-> j, token |-> FreshToken]
    BY <1>t, <2>1
  <2>5. Owns(held[w])' /\ jobs'[held'[w].job].live
    <3> DEFINE row == [jobs[j] EXCEPT !.status = "processing", !.token = FreshToken,
                                      !.live = TRUE, !.due = FALSE]
    <3>1. row.status = "processing" /\ row.token = FreshToken /\ row.live
      BY <1>t DEF JobRows
    <3>2. jobs' = [jobs EXCEPT ![j] = row]
      BY <2>1 DEF ClaimJob
    <3> HIDE DEF row
    <3>3. jobs'[j] = row
      BY <1>t, <3>2
    <3> QED
      BY <2>4, <3>1, <3>3, StoreAssumption DEF Owns
  <2>6. \A u \in Workers : held[u].token # FreshToken
    BY <1>1, FreshTokenIsFresh DEF Claim, TokensInUse
  <2>7. \A u \in Workers : u # w /\ pc'[u] \notin {"idle", "handle"} =>
          Owns(held[u])' /\ jobs'[held'[u].job].live
    BY <2>1, <2>3, ClaimKeepsLeases DEF LeaseKept, LeasesHeld, Owns
  <2>8. \A x, y \in Workers :
          pc'[x] # "idle" /\ pc'[y] # "idle" /\ held'[x].token = held'[y].token => x = y
    BY <2>3, <2>4, <2>6 DEF LeasesHeld
  <2> QED
    BY <2>5, <2>7, <2>8 DEF LeasesHeld
<1>2. ASSUME NEW w \in Workers, ClaimLost(w) PROVE LeasesHeld'
  BY <1>2, <1>u, ClaimKeepsLeases DEF ClaimLost, workerVars
<1>3. ASSUME NEW w \in Workers, Release(w),
             UNCHANGED jobs \/ (pc[w] # "idle" /\ \E row : Mark(held[w], row))
      PROVE  LeasesHeld'
  <2>1. \A u \in Workers : pc'[u] # "idle" => u # w /\ pc'[u] = pc[u] /\ held'[u] = held[u]
    BY <1>3, <1>t DEF Release, Goto
  <2> QED
    BY <1>3, <1>j, <1>k, <2>1, MarkKeepsLeases
<1>4. ASSUME NEW w \in Workers, NEW step \in Busy, Goto(w, step), held' = held,
             pc[w] \notin {"idle", "handle"},
             \/ UNCHANGED jobs
             \/ step = "handle" /\ \E row : Mark(held[w], row)
      PROVE  LeasesHeld'
  <2>1. pc'[w] = step /\ \A u \in Workers : u # w => pc'[u] = pc[u]
    BY <1>4, <1>t DEF Goto
  <2> QED
    BY <1>4, <1>j, <1>k, <2>1, MarkKeepsLeases
<1>5. ASSUME NEW w \in Workers,
             \/ Begin(w) \/ BeginFails(w) \/ FindByCycleKey(w) \/ SaveInvoice(w)
             \/ Audit(w) \/ ExecuteThrows(w) \/ Record(w) \/ RecordFails(w)
             \/ Unwind(w) \/ UnwindFails(w)
      PROVE  LeasesHeld'
  <2>1. /\ pc[w] \notin {"idle", "handle"}
        /\ \E step \in Busy : Goto(w, step)
        /\ UNCHANGED <<held, jobs>>
    BY <1>5 DEF Begin, BeginFails, FindByCycleKey, SaveInvoice, Audit, ExecuteThrows,
      Record, RecordFails, Unwind, UnwindFails, Proceed, ProceedWith, Busy, Executing
  <2> QED
    BY <1>4, <2>1
<1>6. ASSUME NEW w \in Workers, Finish(w) \/ FinishFails(w) PROVE LeasesHeld'
  <2>1. pc[w] = "check" /\ (UNCHANGED jobs \/ \E row : Mark(held[w], row))
    BY <1>6 DEF Finish, FinishFails, MarkCompleted
  <2>2. CASE Release(w)
    BY <1>3, <2>1, <2>2
  <2>3. CASE Proceed(w, "handle")
    BY <1>4, <2>1, <2>3 DEF Proceed, Busy
  <2> QED
    BY <1>6, <2>2, <2>3 DEF Finish, FinishFails
<1>7. ASSUME NEW w \in Workers, Handle(w) \/ HandleFails(w) \/ Crash(w) PROVE LeasesHeld'
  <2>1. Release(w)
    BY <1>7 DEF Handle, HandleFails, Crash
  <2>2. UNCHANGED jobs \/ (pc[w] # "idle" /\ \E row : Mark(held[w], row))
    BY <1>7, FailureMarks DEF Handle, HandleFails, Crash
  <2> QED
    BY <1>3, <2>1, <2>2
<1>8. ASSUME NEW w \in Workers, Heartbeat(w) PROVE LeasesHeld'
  <2>1. UNCHANGED <<pc, held>> /\ (UNCHANGED jobs \/ RenewLease(beat[w]))
    BY <1>8 DEF Heartbeat, SendBeat, LandBeat, BeatFails, workerVars
  <2> QED
    BY <1>j, <1>t, <1>u, <2>1, RenewKeepsLeases
<1>9. ASSUME NEW j \in Jobs, Enqueue(j) \/ LeaseLapses(j) \/ DelayPasses(j)
      PROVE  LeasesHeld'
  <2>1. UNCHANGED <<pc, held>>
    BY <1>9 DEF Enqueue, LeaseLapses, DelayPasses, workerVars
  <2>2. EnqueueJob(j) \/ BecomesDue(j) \/ (LeaseRunsOut(j) /\ ~ Attended(j))
    BY <1>9 DEF Enqueue, LeaseLapses, DelayPasses, Fault
  <2> QED
    BY <1>u, <2>1, <2>2, TimeKeepsLeases
<1>10. ASSUME NEW o \in Operators, ReplayCheck(o) \/ ReplayEnqueue(o) PROVE LeasesHeld'
  <2>1. UNCHANGED <<pc, held>>
    BY <1>10 DEF ReplayCheck, ReplayEnqueue, workerVars
  <2>2. UNCHANGED jobs \/ \E j \in Jobs : EnqueueJob(j)
    BY <1>10 DEF ReplayCheck, ReplayEnqueue
  <2> QED
    BY <1>j, <1>u, <2>1, <2>2, TimeKeepsLeases
<1>11. CASE UNCHANGED vars
  BY <1>11, <1>j, <1>u DEF vars, workerVars
<1> QED
  BY <1>1, <1>2, <1>5, <1>6, <1>7, <1>8, <1>9, <1>10, <1>11
  DEF Next, Progress, WorkerFaults

\* Where all of it holds, no two workers are at one cycle: the jobs they hold
\* are being processed, and the job of a replay only after the other failed.
LEMMA AloneThen ==
  ASSUME SoleJobs, TypeOK, OneExecutorPerJob, LeasesHeld, ReplaysFollow
  PROVE  OneExecutorPerCycle
<1> SUFFICES ASSUME NEW w1 \in Workers, NEW w2 \in Workers,
                    pc[w1] \in Executing, pc[w2] \in Executing,
                    CycleOf[held[w1].job] = CycleOf[held[w2].job]
             PROVE  w1 = w2
  BY DEF OneExecutorPerCycle
<1>1. \A w \in {w1, w2} :
        /\ held[w].job \in Jobs
        /\ jobs[held[w].job].status = "processing"
  BY HeldTyped DEF LeasesHeld, Owns, Executing
<1>2. \A i, j \in {held[w1].job, held[w2].job} :
        CycleOf[i] = CycleOf[j] /\ i \in Enqueued => j \in Enqueued
  BY <1>1 DEF SoleJobs, ReplaysFollow
<1>3. held[w1].job = held[w2].job
  BY <1>1, <1>2 DEF SoleJobs
<1> QED
  BY <1>3 DEF OneExecutorPerJob

\* Two workers never generate invoices of one cycle together, if a cycle is
\* enqueued under one idempotency key and replayed once, and no worker is slower
\* than its lease: whatever else fails, whoever crashes, and however often the
\* job is tried.
THEOREM AloneInCycle ==
  ASSUME SoleJobs
  PROVE  Spec => []OneExecutorPerCycle
<1>1. Init => TriesCurrent /\ LeasesHeld /\ ReplaysFollow
  BY DEF Init, TriesCurrent, LeasesHeld, ReplaysFollow, NoJob, Untouched
<1>2. TypeOK /\ TriesCurrent /\ ReplaysFollow /\ [Next]_vars => ReplaysFollow'
  BY NextFollow
<1>3. TypeOK /\ LeasesHeld /\ [Next]_vars => LeasesHeld'
  BY NextLeases DEF SoleJobs
<1>4. TypeOK /\ OneExecutorPerJob /\ LeasesHeld /\ ReplaysFollow => OneExecutorPerCycle
  BY AloneThen
<1> QED
  BY <1>1, <1>2, <1>3, <1>4, TypeCorrect, OneExecutor, NextTries, PTL DEF Spec

\* Under the same conditions no step replaces a stored invoice ...
THEOREM InvoicesStable ==
  ASSUME SoleJobs
  PROVE  Spec => InvoiceStable
  BY AloneInCycle, StableWhenAlone, PTL

\* ... and what a completed job reports is the invoice stored for its cycle.
THEOREM CompletedNames ==
  ASSUME SoleJobs
  PROVE  Spec => []CompletedNamesInvoice
  BY AloneInCycle, StableWhenAlone, PTL

-----------------------------------------------------------------------------
(* What becomes of a job whose worker died.                                 *)

\* A worker writes the record of its job only in these steps.
LEMMA MarkerWriters ==
  ASSUME [Next]_vars
  PROVE  \/ UNCHANGED marker
         \/ \E w \in Workers :
              \/ Begin(w) \/ BeginFails(w) \/ Record(w) \/ RecordFails(w)
              \/ Unwind(w) \/ UnwindFails(w)
  BY DEF Next, vars, Progress, WorkerFaults, Heartbeat, Claim, ClaimLost, FindByCycleKey,
    SaveInvoice, Audit, ExecuteThrows, Finish, FinishFails, Handle, HandleFails, Crash,
    SendBeat, LandBeat, BeatFails, Enqueue, LeaseLapses, DelayPasses, ReplayCheck,
    ReplayEnqueue, workerVars

\* A worker starts to execute only on a record that is absent or failed, and
\* goes on with the job it has.
LEMMA ExecutionStarts ==
  ASSUME TypeOK, [Next]_vars, NEW u \in Workers, pc'[u] \in Executing
  PROVE  /\ held'[u] = held[u]
         /\ pc[u] \in Executing \/ (Begin(u) /\ marker[held[u].job].status \in {"absent", "failed"})
<1>t. pc \in [Workers -> Busy \cup {"idle"}] /\ held \in [Workers -> Leases]
  BY DEF TypeOK, WorkersTypeOK
<1>2. ASSUME NEW w \in Workers, Claim(w) \/ Release(w) PROVE pc[u] \in Executing /\ held'[u] = held[u]
  BY <1>2, <1>t DEF Claim, Release, Goto, Executing
<1>3. ASSUME NEW w \in Workers, NEW step, Goto(w, step), held' = held,
             pc[w] \in Executing \/ step \notin Executing
      PROVE  pc[u] \in Executing /\ held'[u] = held[u]
  BY <1>3, <1>t DEF Goto
<1>4. ASSUME NEW w \in Workers, Begin(w)
      PROVE  /\ held'[u] = held[u]
             /\ pc[u] \in Executing \/ (w = u /\ marker[held[u].job].status \in {"absent", "failed"})
  <2>1. CASE marker[held[w].job].status \in {"absent", "failed"}
    <3>1. held' = held /\ Goto(w, "find")
      BY <1>4, <2>1 DEF Begin, Proceed
    <3> QED
      BY <1>t, <2>1, <3>1 DEF Goto
  <2>2. CASE marker[held[w].job].status \notin {"absent", "failed"}
    <3>1. held' = held /\ (Goto(w, "handle") \/ Goto(w, "check"))
      BY <1>4, <2>2 DEF Begin, Proceed, ProceedWith
    <3> QED
      BY <1>3, <3>1 DEF Executing
  <2> QED
    BY <2>1, <2>2
<1>5. ASSUME NEW w \in Workers,
             \/ BeginFails(w) \/ FindByCycleKey(w) \/ SaveInvoice(w) \/ Audit(w)
             \/ ExecuteThrows(w) \/ Record(w) \/ RecordFails(w) \/ Unwind(w) \/ UnwindFails(w)
      PROVE  pc[u] \in Executing /\ held'[u] = held[u]
  <2>1. /\ held' = held
        /\ \E step : Goto(w, step) /\ (pc[w] \in Executing \/ step \notin Executing)
    BY <1>5 DEF BeginFails, FindByCycleKey, SaveInvoice, Audit, ExecuteThrows, Record,
      RecordFails, Unwind, UnwindFails, Proceed, ProceedWith, Executing
  <2> QED
    BY <1>3, <2>1
<1>6. ASSUME NEW w \in Workers,
             Finish(w) \/ FinishFails(w) \/ Handle(w) \/ HandleFails(w) \/ Crash(w)
      PROVE  pc[u] \in Executing /\ held'[u] = held[u]
  <2>1. Release(w) \/ (Goto(w, "handle") /\ held' = held)
    BY <1>6 DEF Finish, FinishFails, Handle, HandleFails, Crash, Proceed
  <2> QED
    BY <1>2, <1>3, <2>1 DEF Executing
<1>7. CASE UNCHANGED <<pc, held>>
  BY <1>7
<1> QED
  BY <1>2, <1>4, <1>5, <1>6, <1>7
  DEF Next, vars, Progress, WorkerFaults, Heartbeat, ClaimLost, SendBeat, LandBeat,
    BeatFails, Enqueue, LeaseLapses, DelayPasses, ReplayCheck, ReplayEnqueue, workerVars

\* Nobody takes an orphan up: a worker that begins on it finds the record in
\* processing, and handles that as a failure.
LEMMA OrphanStays ==
  ASSUME TypeOK, [Next]_vars, NEW j \in Jobs, Orphaned(j)
  PROVE  Orphaned(j)'
<1>1. \A w \in Workers : held'[w].job = j => pc'[w] \notin Executing
  BY ExecutionStarts DEF Orphaned
<1>2. ASSUME NEW w \in Workers,
             \/ Begin(w) \/ BeginFails(w) \/ Record(w) \/ RecordFails(w)
             \/ Unwind(w) \/ UnwindFails(w)
      PROVE  marker'[j].status = "processing"
  <2>1. UNCHANGED marker \/ \E m : SetMarker(w, m)
    BY <1>2 DEF Begin, BeginFails, Record, RecordFails, Unwind, UnwindFails
  <2>2. UNCHANGED marker \/ held[w].job # j
    BY <1>2 DEF Begin, BeginFails, Record, RecordFails, Unwind, UnwindFails, Orphaned, Executing
  <2>3. marker \in [Jobs -> Markers]
    BY DEF TypeOK
  <2> QED
    BY <2>1, <2>2, <2>3 DEF SetMarker, Orphaned
<1> QED
  BY <1>1, <1>2, MarkerWriters DEF Orphaned

\* A worker reports a response it has recorded, or found recorded.
LEMMA ReportsStart ==
  ASSUME TypeOK, [Next]_vars, NEW u \in Workers, pc'[u] = "check"
  PROVE  /\ held'[u] = held[u]
         /\ (pc[u] = "check" /\ result'[u] = result[u]) \/ Begin(u) \/ Record(u)
<1>t. /\ pc \in [Workers -> Busy \cup {"idle"}] /\ held \in [Workers -> Leases]
      /\ result \in [Workers -> Invoices \cup {None}]
  BY DEF TypeOK, WorkersTypeOK
<1>1. ASSUME NEW w \in Workers, Claim(w) \/ Release(w)
      PROVE  pc[u] = "check" /\ held'[u] = held[u] /\ result'[u] = result[u]
  BY <1>1, <1>t DEF Claim, Release, Goto
<1>2. ASSUME NEW w \in Workers, NEW step, NEW v,
             ProceedWith(w, step, v) \/ Proceed(w, step), step # "check"
      PROVE  pc[u] = "check" /\ held'[u] = held[u] /\ result'[u] = result[u]
  BY <1>2, <1>t DEF Proceed, ProceedWith, Goto
<1>3. ASSUME NEW w \in Workers, Begin(w) \/ Record(w)
      PROVE  held'[u] = held[u] /\ (u = w \/ (pc[u] = "check" /\ result'[u] = result[u]))
  <2>1. \E step, v : ProceedWith(w, step, v) \/ Proceed(w, step)
    BY <1>3 DEF Begin, Record
  <2> QED
    BY <1>t, <2>1 DEF Proceed, ProceedWith, Goto
<1>4. ASSUME NEW w \in Workers,
             \/ BeginFails(w) \/ FindByCycleKey(w) \/ SaveInvoice(w) \/ Audit(w)
             \/ ExecuteThrows(w) \/ RecordFails(w) \/ Unwind(w) \/ UnwindFails(w)
      PROVE  pc[u] = "check" /\ held'[u] = held[u] /\ result'[u] = result[u]
  <2>1. \E step, v : (ProceedWith(w, step, v) \/ Proceed(w, step)) /\ step # "check"
    <3>1. CASE FindByCycleKey(w)
      BY <3>1 DEF FindByCycleKey
    <3>2. CASE SaveInvoice(w) \/ Audit(w)
      BY <3>2 DEF SaveInvoice, Audit
    <3>3. CASE ExecuteThrows(w) \/ RecordFails(w)
      BY <3>3 DEF ExecuteThrows, RecordFails
    <3>4. CASE BeginFails(w) \/ Unwind(w) \/ UnwindFails(w)
      <4>1. Proceed(w, "handle") /\ "handle" # "check"
        BY <3>4 DEF BeginFails, Unwind, UnwindFails
      <4> QED
        BY <4>1
    <3> QED
      BY <1>4, <3>1, <3>2, <3>3, <3>4
  <2> QED
    BY <1>2, <2>1
<1>5. ASSUME NEW w \in Workers,
             Finish(w) \/ FinishFails(w) \/ Handle(w) \/ HandleFails(w) \/ Crash(w)
      PROVE  pc[u] = "check" /\ held'[u] = held[u] /\ result'[u] = result[u]
  <2>1. Release(w) \/ Proceed(w, "handle")
    BY <1>5 DEF Finish, FinishFails, Handle, HandleFails, Crash
  <2> QED
    BY <1>1, <1>2, <2>1
<1>6. CASE UNCHANGED <<pc, held, result>>
  BY <1>6
<1> QED
  BY <1>1, <1>3, <1>4, <1>5, <1>6
  DEF Next, vars, Progress, WorkerFaults, Heartbeat, ClaimLost, SendBeat, LandBeat,
    BeatFails, Enqueue, LeaseLapses, DelayPasses, ReplayCheck, ReplayEnqueue, workerVars

\* A job is completed by a worker that reports its response.
LEMMA Completions ==
  ASSUME TypeOK, [Next]_vars
  PROVE  \/ NoCompletion
         \/ \E w \in Workers :
              pc[w] = "check" /\ MarkCompleted(held[w], result[w]) /\ UNCHANGED marker
<1>t. jobs \in [Jobs -> JobRows] /\ beat \in [Workers -> Leases]
  BY DEF TypeOK
<1>1. UNCHANGED jobs => NoCompletion
  BY DEF NoCompletion
<1>2. ASSUME NEW w \in Workers, Claim(w) \/ ClaimLost(w) PROVE NoCompletion
  <2>1. FreshToken \in Tokens /\ \E j \in Jobs : ClaimJob(j, FreshToken)
    BY <1>2, FreshTokenIsFresh DEF Claim, ClaimLost
  <2> QED
    BY <1>t, <2>1, TimeCompletesNothing
<1>3. ASSUME NEW w \in Workers, Finish(w) \/ FinishFails(w), ~ UNCHANGED jobs
      PROVE  pc[w] = "check" /\ MarkCompleted(held[w], result[w]) /\ UNCHANGED marker
  BY <1>3 DEF Finish, FinishFails
<1>4. ASSUME NEW w \in Workers, Handle(w) \/ HandleFails(w) PROVE NoCompletion
  BY <1>1, <1>4, FailureCompletesNothing DEF Handle, HandleFails
<1>5. ASSUME NEW w \in Workers, LandBeat(w) \/ BeatFails(w) PROVE NoCompletion
  BY <1>1, <1>5, <1>t, RenewCompletesNothing DEF LandBeat, BeatFails
<1>6. ASSUME NEW j \in Jobs, Enqueue(j) \/ LeaseLapses(j) \/ DelayPasses(j)
      PROVE  NoCompletion
  BY <1>6, <1>t, TimeCompletesNothing DEF Enqueue, LeaseLapses, DelayPasses
<1>7. ASSUME NEW o \in Operators, ReplayCheck(o) \/ ReplayEnqueue(o) PROVE NoCompletion
  BY <1>1, <1>7, <1>t, TimeCompletesNothing DEF ReplayCheck, ReplayEnqueue
<1>8. ASSUME NEW w \in Workers,
             \/ Begin(w) \/ BeginFails(w) \/ FindByCycleKey(w) \/ SaveInvoice(w)
             \/ Audit(w) \/ ExecuteThrows(w) \/ Record(w) \/ RecordFails(w)
             \/ Unwind(w) \/ UnwindFails(w) \/ Crash(w) \/ SendBeat(w)
      PROVE  UNCHANGED jobs
  BY <1>8 DEF Begin, BeginFails, FindByCycleKey, SaveInvoice, Audit, ExecuteThrows, Record,
    RecordFails, Unwind, UnwindFails, Crash, SendBeat
<1> QED
  BY <1>1, <1>2, <1>3, <1>4, <1>5, <1>6, <1>7, <1>8
  DEF Next, vars, Progress, WorkerFaults, Heartbeat

\* No step writes to a completed record: only executors write to records that
\* were begun, and theirs are in processing.
CompletedKeep == \A j \in Jobs : marker[j].status = "completed" => marker'[j] = marker[j]

LEMMA NextCompletedKeep ==
  ASSUME ~ Ambiguous, TypeOK, Recorded, [Next]_vars
  PROVE  CompletedKeep
<1> SUFFICES ASSUME NEW w \in Workers, NEW m, SetMarker(w, m),
                    marker[held[w].job].status # "completed"
             PROVE  CompletedKeep
  <2>1. ASSUME NEW w \in Workers,
               \/ Begin(w) \/ BeginFails(w) \/ Record(w) \/ RecordFails(w)
               \/ Unwind(w) \/ UnwindFails(w)
        PROVE  UNCHANGED marker
                 \/ (marker[held[w].job].status # "completed" /\ \E m : SetMarker(w, m))
    BY <2>1 DEF Begin, BeginFails, Record, RecordFails, Unwind, UnwindFails, Recorded, Executing
  <2> QED
    BY <2>1, MarkerWriters DEF CompletedKeep
<1> QED
  BY DEF SetMarker, CompletedKeep, TypeOK

LEMMA NextRecorded ==
  ASSUME ~ Ambiguous, TypeOK, OneExecutorPerJob, Recorded, [Next]_vars
  PROVE  Recorded'
<1>t. marker \in [Jobs -> Markers] /\ jobs \in [Jobs -> JobRows]
  BY DEF TypeOK
<1>k. CompletedKeep
  BY NextCompletedKeep
<1>h. \A u \in Workers : pc[u] # "idle" => held[u].job \in Jobs
  BY HeldTyped
<1>1. ASSUME NEW u \in Workers, pc'[u] \in Executing
      PROVE  marker'[held'[u].job].status = "processing"
  <2>1. /\ held'[u] = held[u]
        /\ pc[u] \in Executing \/ (Begin(u) /\ marker[held[u].job].status \in {"absent", "failed"})
    BY <1>1, ExecutionStarts
  <2>2. CASE Begin(u) /\ marker[held[u].job].status \in {"absent", "failed"}
    BY <1>h, <1>t, <2>1, <2>2 DEF Begin, SetMarker, Marker
  <2>3. CASE pc[u] \in Executing
    <3>1. marker[held[u].job].status = "processing" /\ held[u].job \in Jobs
      BY <1>h, <2>3 DEF Recorded, Executing
    <3>2. ASSUME NEW w \in Workers, w # u,
                 \/ Begin(w) \/ BeginFails(w) \/ Record(w) \/ RecordFails(w)
                 \/ Unwind(w) \/ UnwindFails(w)
          PROVE  marker'[held[u].job] = marker[held[u].job]
      <4>1. UNCHANGED marker \/ \E m : SetMarker(w, m)
        BY <3>2 DEF Begin, BeginFails, Record, RecordFails, Unwind, UnwindFails
      <4>2. UNCHANGED marker \/ held[w].job # held[u].job
        BY <2>3, <3>1, <3>2
        DEF Begin, BeginFails, Record, RecordFails, Unwind, UnwindFails, OneExecutorPerJob, Executing
      <4>3. ASSUME NEW m, SetMarker(w, m), held[w].job # held[u].job
            PROVE  marker'[held[u].job] = marker[held[u].job]
        BY <1>t, <3>1, <4>3 DEF SetMarker
      <4> QED
        BY <4>1, <4>2, <4>3
    <3>3. ASSUME \/ Begin(u) \/ BeginFails(u) \/ Record(u) \/ RecordFails(u)
                 \/ Unwind(u) \/ UnwindFails(u)
          PROVE  UNCHANGED marker
      <4>1. ~ (Begin(u) \/ BeginFails(u))
        BY <2>3 DEF Begin, BeginFails, Executing
      <4>2. ~ (Record(u) \/ Unwind(u) \/ UnwindFails(u))
        BY <1>1 DEF Record, Unwind, UnwindFails, Proceed, Goto, TypeOK, WorkersTypeOK, Executing
      <4> QED
        BY <3>3, <4>1, <4>2 DEF RecordFails
    <3> QED
      BY <2>1, <3>1, <3>2, <3>3, MarkerWriters
  <2> QED
    BY <2>1, <2>2, <2>3
<1>2. ASSUME NEW u \in Workers, pc'[u] = "check"
      PROVE  marker'[held'[u].job] = [status |-> "completed", invoice |-> result'[u]]
  <2>1. /\ held'[u] = held[u]
        /\ (pc[u] = "check" /\ result'[u] = result[u]) \/ Begin(u) \/ Record(u)
    BY <1>2, ReportsStart
  <2>h. pc[u] # "idle" /\ held[u].job \in Jobs
    BY <1>h, <2>1 DEF Begin, Record
  <2>2. CASE pc[u] = "check" /\ result'[u] = result[u]
    BY <1>k, <2>1, <2>2, <2>h DEF Recorded, CompletedKeep
  <2>3. CASE Begin(u)
    <3> DEFINE m == marker[held[u].job]
    <3>1. UNCHANGED marker /\ m.status = "completed" /\ result'[u] = m.invoice
      BY <1>2, <2>3 DEF Begin, Proceed, ProceedWith, Goto, TypeOK, WorkersTypeOK
    <3>2. m = [status |-> "completed", invoice |-> m.invoice]
      BY <1>t, <2>h, <3>1 DEF Markers
    <3> QED
      BY <2>1, <3>1, <3>2
  <2>4. CASE Record(u)
    BY <1>t, <2>1, <2>4, <2>h DEF Record, SetMarker, Proceed
  <2> QED
    BY <2>1, <2>2, <2>3, <2>4
<1>3. ASSUME NEW j \in Jobs, jobs'[j].status = "completed"
      PROVE  marker'[j] = [status |-> "completed", invoice |-> jobs'[j].invoice]
  <2>1. CASE NoCompletion
    BY <1>3, <1>k, <2>1 DEF NoCompletion, Recorded, CompletedKeep
  <2>2. ASSUME NEW w \in Workers, pc[w] = "check", MarkCompleted(held[w], result[w]),
               UNCHANGED marker
        PROVE  marker'[j] = [status |-> "completed", invoice |-> jobs'[j].invoice]
    <3> DEFINE i == held[w].job
               row == [[jobs[i] EXCEPT !.status = "completed", !.invoice = result[w]]
                         EXCEPT !.token = None, !.live = FALSE]
    <3>1. i \in Jobs /\ jobs[i] \in JobRows
      BY <1>h, <1>t, <2>2
    <3>2. jobs' = [jobs EXCEPT ![i] = row] /\ row.invoice = result[w]
      BY <2>2, <3>1 DEF MarkCompleted, Mark, JobRows
    <3>3. marker[i] = [status |-> "completed", invoice |-> result[w]]
      BY <2>2 DEF Recorded
    <3> HIDE DEF row, i
    <3>4. jobs'[j] = IF j = i THEN row ELSE jobs[j]
      BY <1>t, <3>1, <3>2
    <3> QED
      BY <1>3, <2>2, <3>2, <3>3, <3>4 DEF Recorded
  <2> QED
    BY <2>1, <2>2, Completions
<1> QED
  BY <1>1, <1>2, <1>3 DEF Recorded

LEMMA OrphanIsOpen ==
  ASSUME NEW j \in Jobs, Recorded, Orphaned(j)
  PROVE  jobs[j].status # "completed"
<1> SUFFICES ASSUME jobs[j].status = "completed"
             PROVE  FALSE
  OBVIOUS
<1>1. marker[j] = [status |-> "completed", invoice |-> jobs[j].invoice]
  BY DEF Recorded
<1> QED
  BY <1>1 DEF Orphaned

\* A job whose worker died while it generated the invoice is lost: no worker
\* takes its record up, however often the job is claimed again ...
THEOREM OrphansStay ==
  ASSUME NEW j \in Jobs
  PROVE  Spec => [](Orphaned(j) => []Orphaned(j))
<1>1. TypeOK /\ Orphaned(j) /\ [Next]_vars => Orphaned(j)'
  BY OrphanStays
<1> QED
  BY <1>1, TypeCorrect, PTL DEF Spec

\* ... what is recorded under a job's key is never changed, and a completed job
\* reports it, where no write is applied that was reported as failed ...
THEOREM ResponsesRecorded ==
  ASSUME ~ Ambiguous
  PROVE  Spec => []Recorded /\ RecordsFinal
<1>1. Init => Recorded
  BY DEF Init, Recorded, Executing, NoJob, Untouched
<1>2. TypeOK /\ OneExecutorPerJob /\ Recorded /\ [Next]_vars => Recorded'
  BY NextRecorded
<1>3. TypeOK /\ Recorded /\ [Next]_vars => [CompletedKeep]_vars
  BY NextCompletedKeep
<1> QED
  BY <1>1, <1>2, <1>3, TypeCorrect, OneExecutor, PTL DEF Spec, RecordsFinal, CompletedKeep

\* ... so that the lost job is never completed (the finding of the run
\* PipelineCrashLoses, for any attempts, workers and leases).
THEOREM OrphansNeverComplete ==
  ASSUME ~ Ambiguous, NEW j \in Jobs
  PROVE  Spec => [](Orphaned(j) => [](jobs[j].status # "completed"))
<1>1. Recorded /\ Orphaned(j) => jobs[j].status # "completed"
  BY OrphanIsOpen
<1> QED
  BY <1>1, OrphansStay, ResponsesRecorded, PTL
=============================================================================
