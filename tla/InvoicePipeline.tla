-------------------------- MODULE InvoicePipeline ---------------------------
(***************************************************************************)
(* The asynchronous invoice pipeline: clients enqueue jobs, workers claim  *)
(* them under a lease and generate the invoice inside executeIdempotent,   *)
(* operators replay dead-lettered jobs.                                    *)
(*                                                                         *)
(* A worker runs processNextInvoiceGenerationJob again and again; each     *)
(* await of it is a step boundary, so that lease renewals, other workers   *)
(* and crashes fall between any two of its calls to the stores.            *)
(***************************************************************************)
EXTENDS InvoiceJobStore

CONSTANTS
  Workers,     \* worker processes
  Operators,   \* operators, or other callers of the replay use case
  Cycles,      \* billing cycles, by their deterministic cycle key
  CycleOf,     \* the cycle each job id is for
  Enqueued,    \* the job ids clients enqueue; the others are for replays
  FaultKinds,  \* the faults that may happen
  MaxFaults    \* bound: how many of them may happen in a behaviour

ASSUME PipelineAssumption ==
  /\ CycleOf \in [Jobs -> Cycles]
  /\ Enqueued \subseteq Jobs
  /\ FaultKinds \subseteq
       {"claim", "begin", "execute", "complete", "fail", "mark", "renew",
        "stall", "crash", "ambiguous"}
  /\ MaxFaults \in Nat

VARIABLES
  marker,     \* the "invoice.process" idempotency record of each job
  invoices,   \* the stored invoice of each cycle
  builds,     \* how many invoices each job built and stored
  pc,         \* the step each worker is at
  held,       \* the job and lease token of each worker's cycle
  tries,      \* attemptCount in the copy of the job the worker claimed
  result,     \* the invoice id the worker's execution yields
  leaseErr,   \* the first error of the worker's heartbeat
  beat,       \* the lease renewal each worker has under way
  replaying,  \* the failed job each operator is replaying
  faults      \* how many faults happened

workerVars == <<pc, held, tries, result, leaseErr>>
vars == <<jobs, marker, invoices, builds, workerVars, beat, replaying, faults>>

Leases == [job : Jobs \cup {None}, token : Tokens \cup {None}]
NoLease == [job |-> None, token |-> None]

Markers ==
  {m \in [status : {"absent", "processing", "completed", "failed"},
          invoice : Invoices \cup {None}] :
     m.status = "completed" <=> m.invoice # None}
Marker(status) == [status |-> status, invoice |-> None]

Executing == {"find", "save", "audit", "record", "unwind"}
Busy == {"begin", "check", "handle"} \cup Executing

\* An idle worker holds nothing, another one a job under a token, and one
\* past the building of the invoice knows its id.
WorkersTypeOK ==
  /\ pc \in [Workers -> Busy \cup {"idle"}]
  /\ held \in [Workers -> Leases]
  /\ \A w \in Workers :
       IF pc[w] = "idle" THEN held[w] = NoLease
       ELSE held[w].job # None /\ held[w].token # None
  /\ tries \in [Workers -> 0..(MaxAttempts - 1)]
  /\ result \in [Workers -> Invoices \cup {None}]
  /\ \A w \in Workers : pc[w] \in {"audit", "record", "check"} => result[w] # None
  /\ leaseErr \in [Workers -> {"none", "lease", "other"}]

TypeOK ==
  /\ jobs \in [Jobs -> JobRows]
  /\ marker \in [Jobs -> Markers]
  /\ invoices \in [Cycles -> Invoices \cup {None}]
  /\ builds \in [Jobs -> Nat]
  /\ WorkersTypeOK
  /\ beat \in [Workers -> Leases]
  /\ replaying \in [Operators -> Jobs \cup {None}]
  /\ faults \in Nat

Init ==
  /\ jobs = [j \in Jobs |-> NoJob]
  /\ marker = [j \in Jobs |-> Marker("absent")]
  /\ invoices = [c \in Cycles |-> None]
  /\ builds = [j \in Jobs |-> 0]
  /\ pc = [w \in Workers |-> "idle"]
  /\ held = [w \in Workers |-> NoLease]
  /\ tries = [w \in Workers |-> 0]
  /\ result = [w \in Workers |-> None]
  /\ leaseErr = [w \in Workers |-> "none"]
  /\ beat = [w \in Workers |-> NoLease]
  /\ replaying = [o \in Operators |-> None]
  /\ faults = 0

-----------------------------------------------------------------------------
(* Helpers. *)

Goto(w, step) == pc' = [pc EXCEPT ![w] = step]

\* The worker's cycle is over, or its process died and was started again.
Release(w) ==
  /\ Goto(w, "idle")
  /\ held' = [held EXCEPT ![w] = NoLease]
  /\ tries' = [tries EXCEPT ![w] = 0]
  /\ result' = [result EXCEPT ![w] = None]
  /\ leaseErr' = [leaseErr EXCEPT ![w] = "none"]

\* A worker's next step, nothing else of it changing.
Proceed(w, step) == Goto(w, step) /\ UNCHANGED <<held, tries, result, leaseErr>>

\* ... and what its execution yields becomes v.
ProceedWith(w, step, v) ==
  /\ Goto(w, step)
  /\ result' = [result EXCEPT ![w] = v]
  /\ UNCHANGED <<held, tries, leaseErr>>

Fault(kind) ==
  /\ kind \in FaultKinds
  /\ faults < MaxFaults
  /\ faults' = faults + 1

\* A write that is reported as failed was applied, or was not.
Ambiguous == "ambiguous" \in FaultKinds

SetMarker(w, m) == marker' = [marker EXCEPT ![held[w].job] = m]

\* A token is a random UUID: one that nothing refers to.
TokensInUse ==
  {jobs[j].token : j \in Jobs} \cup {held[w].token : w \in Workers}
    \cup {beat[w].token : w \in Workers}
FreshToken == CHOOSE t \in Tokens : t \notin TokensInUse

-----------------------------------------------------------------------------
(* Clients. *)

Enqueue(j) ==
  /\ j \in Enqueued
  /\ EnqueueJob(j)
  /\ UNCHANGED <<marker, invoices, builds, workerVars, beat, replaying, faults>>

-----------------------------------------------------------------------------
(* Workers: one cycle. *)

Claim(w) ==
  /\ pc[w] = "idle"
  /\ ~ Tokens \subseteq TokensInUse
  /\ \E j \in Jobs :
       /\ ClaimJob(j, FreshToken)
       /\ held' = [held EXCEPT ![w] = [job |-> j, token |-> FreshToken]]
       /\ tries' = [tries EXCEPT ![w] = jobs[j].attempts]
  /\ Goto(w, "begin")
  /\ UNCHANGED <<marker, invoices, builds, result, leaseErr, beat, replaying, faults>>

\* The claim is committed but reported as failed: the cycle throws, the
\* process exits, and nobody holds the lease.
ClaimLost(w) ==
  /\ pc[w] = "idle"
  /\ ~ Tokens \subseteq TokensInUse
  /\ Fault("claim")
  /\ \E j \in Jobs : ClaimJob(j, FreshToken)
  /\ UNCHANGED <<marker, invoices, builds, workerVars, beat, replaying>>

\* Variant: a record in processing does not stop the worker.
BeginRegardless(w) ==
  LET m == marker[held[w].job]
  IN  /\ pc[w] = "begin"
      /\ \/ /\ m.status # "completed"
            /\ SetMarker(w, Marker("processing"))
            /\ Proceed(w, "find")
         \/ m.status = "completed" /\ ProceedWith(w, "check", m.invoice) /\ UNCHANGED marker
      /\ UNCHANGED <<jobs, invoices, builds, beat, replaying, faults>>

\* executeIdempotent begins on the job's key.
Begin(w) ==
  LET m == marker[held[w].job]
  IN  /\ pc[w] = "begin"
      /\ \/ /\ m.status \in {"absent", "failed"}
            /\ SetMarker(w, Marker("processing"))
            /\ Proceed(w, "find")
         \/ m.status = "processing" /\ Proceed(w, "handle") /\ UNCHANGED marker
         \/ m.status = "completed" /\ ProceedWith(w, "check", m.invoice) /\ UNCHANGED marker
      /\ UNCHANGED <<jobs, invoices, builds, beat, replaying, faults>>

BeginFails(w) ==
  /\ pc[w] = "begin"
  /\ Fault("begin")
  /\ \/ UNCHANGED marker
     \/ /\ Ambiguous
        /\ marker[held[w].job].status \in {"absent", "failed"}
        /\ SetMarker(w, Marker("processing"))
  /\ Proceed(w, "handle")
  /\ UNCHANGED <<jobs, invoices, builds, beat, replaying>>

\* Variant: the cycle's invoice is not looked for.
FindNothing(w) ==
  /\ pc[w] = "find"
  /\ Proceed(w, "save")
  /\ UNCHANGED <<jobs, marker, invoices, builds, beat, replaying, faults>>

\* The cycle's invoice exists, or has to be built.
FindByCycleKey(w) ==
  LET found == invoices[CycleOf[held[w].job]]
  IN  /\ pc[w] = "find"
      /\ \/ found # None /\ ProceedWith(w, "record", found)
         \/ found = None /\ Proceed(w, "save")
      /\ UNCHANGED <<jobs, marker, invoices, builds, beat, replaying, faults>>

NewInvoice(w) == [by |-> held[w].job, nth |-> builds[held[w].job] + 1]

\* save is an upsert on the cycle key.
StoreInvoice(w) ==
  /\ invoices' = [invoices EXCEPT ![CycleOf[held[w].job]] = NewInvoice(w)]
  /\ builds' = [builds EXCEPT ![held[w].job] = @ + 1]

\* Variant: the invoice is not stored.
SaveForgotten(w) ==
  /\ pc[w] = "save"
  /\ ProceedWith(w, "audit", NewInvoice(w))
  /\ UNCHANGED <<jobs, marker, invoices, builds, beat, replaying, faults>>

SaveInvoice(w) ==
  /\ pc[w] = "save"
  /\ StoreInvoice(w)
  /\ ProceedWith(w, "audit", NewInvoice(w))
  /\ UNCHANGED <<jobs, marker, beat, replaying, faults>>

Audit(w) ==
  /\ pc[w] = "audit"
  /\ Proceed(w, "record")
  /\ UNCHANGED <<jobs, marker, invoices, builds, beat, replaying, faults>>

\* Finding, saving or auditing throws.
ExecuteThrows(w) ==
  /\ pc[w] \in {"find", "save", "audit"}
  /\ Fault("execute")
  /\ \/ UNCHANGED <<invoices, builds>>
     \/ Ambiguous /\ pc[w] = "save" /\ StoreInvoice(w)
  /\ ProceedWith(w, "unwind", None)
  /\ UNCHANGED <<jobs, marker, beat, replaying>>

\* The idempotency record is completed, or set to failed.
Record(w) ==
  /\ pc[w] = "record"
  /\ SetMarker(w, [status |-> "completed", invoice |-> result[w]])
  /\ Proceed(w, "check")
  /\ UNCHANGED <<jobs, invoices, builds, beat, replaying, faults>>

RecordFails(w) ==
  /\ pc[w] = "record"
  /\ Fault("complete")
  /\ \/ UNCHANGED marker
     \/ Ambiguous /\ SetMarker(w, [status |-> "completed", invoice |-> result[w]])
  /\ ProceedWith(w, "unwind", None)
  /\ UNCHANGED <<jobs, invoices, builds, beat, replaying>>

Unwind(w) ==
  /\ pc[w] = "unwind"
  /\ SetMarker(w, Marker("failed"))
  /\ Proceed(w, "handle")
  /\ UNCHANGED <<jobs, invoices, builds, beat, replaying, faults>>

UnwindFails(w) ==
  /\ pc[w] = "unwind"
  /\ Fault("fail")
  /\ \/ UNCHANGED marker
     \/ Ambiguous /\ SetMarker(w, Marker("failed"))
  /\ Proceed(w, "handle")
  /\ UNCHANGED <<jobs, invoices, builds, beat, replaying>>

\* The response is there.  A lease the heartbeat found lost ends the cycle,
\* as does one markCompleted finds lost; another heartbeat error is handled
\* like a failure of the job.  (An error the heartbeat finds after the code
\* looked for one is as if found after the mark.)
Finish(w) ==
  /\ pc[w] = "check"
  /\ \/ leaseErr[w] = "other" /\ Proceed(w, "handle") /\ UNCHANGED jobs
     \/ leaseErr[w] = "lease" /\ Release(w) /\ UNCHANGED jobs
     \/ leaseErr[w] = "none" /\ Release(w) /\ MarkCompleted(held[w], result[w])
     \/ leaseErr[w] = "none" /\ Release(w) /\ ~ Owns(held[w]) /\ UNCHANGED jobs
  /\ UNCHANGED <<marker, invoices, builds, beat, replaying, faults>>

\* markCompleted fails for another reason than the lease.
FinishFails(w) ==
  /\ pc[w] = "check"
  /\ leaseErr[w] = "none"
  /\ Fault("mark")
  /\ \/ UNCHANGED jobs
     \/ Ambiguous /\ MarkCompleted(held[w], result[w])
  /\ Proceed(w, "handle")
  /\ UNCHANGED <<marker, invoices, builds, beat, replaying>>

\* Variant: one attempt too many.
MarkFailureLate(w) ==
  IF tries[w] < MaxAttempts
  THEN MarkRetry(held[w], tries[w] + 1)
  ELSE MarkDeadLetter(held[w])

\* The attempt failed: back to the queue, or to the dead letters.
MarkFailure(w) ==
  IF tries[w] + 1 < MaxAttempts
  THEN MarkRetry(held[w], tries[w] + 1)
  ELSE MarkDeadLetter(held[w])

Handle(w) ==
  /\ pc[w] = "handle"
  /\ \/ MarkFailure(w)
     \/ ~ Owns(held[w]) /\ UNCHANGED jobs
  /\ Release(w)
  /\ UNCHANGED <<marker, invoices, builds, beat, replaying, faults>>

\* The mark fails for another reason: the cycle throws, the process exits.
HandleFails(w) ==
  /\ pc[w] = "handle"
  /\ Fault("mark")
  /\ \/ UNCHANGED jobs
     \/ Ambiguous /\ MarkFailure(w)
  /\ Release(w)
  /\ UNCHANGED <<marker, invoices, builds, beat, replaying>>

\* The process dies, or is stopped without waiting for its cycle.
Crash(w) ==
  /\ Fault("crash")
  /\ Release(w)
  /\ UNCHANGED <<jobs, marker, invoices, builds, beat, replaying>>

-----------------------------------------------------------------------------
(* Heartbeats: the interval timer sends a renewal and does not wait; it may *)
(* land after the cycle that sent it is over.  Bound: a worker has one      *)
(* renewal under way at a time.                                             *)

SendBeat(w) ==
  /\ pc[w] # "idle"
  /\ beat[w] = NoLease
  /\ beat' = [beat EXCEPT ![w] = held[w]]
  /\ UNCHANGED <<jobs, marker, invoices, builds, workerVars, replaying, faults>>

\* The first error of a renewal is kept for the cycle that sent it.
NoteBeatError(w, kind) ==
  leaseErr' = [leaseErr EXCEPT ![w] =
                 IF held[w] = beat[w] /\ @ = "none" THEN kind ELSE @]

LandBeat(w) ==
  /\ beat[w] # NoLease
  /\ \/ RenewLease(beat[w]) /\ UNCHANGED leaseErr
     \/ ~ Owns(beat[w]) /\ NoteBeatError(w, "lease") /\ UNCHANGED jobs
  /\ beat' = [beat EXCEPT ![w] = NoLease]
  /\ UNCHANGED <<marker, invoices, builds, pc, held, tries, result, replaying, faults>>

BeatFails(w) ==
  /\ beat[w] # NoLease
  /\ Fault("renew")
  /\ \/ UNCHANGED jobs
     \/ Ambiguous /\ RenewLease(beat[w])
  /\ NoteBeatError(w, "other")
  /\ beat' = [beat EXCEPT ![w] = NoLease]
  /\ UNCHANGED <<marker, invoices, builds, pc, held, tries, result, replaying>>

-----------------------------------------------------------------------------
(* Time. *)

\* A worker that runs renews its lease in time, since the heartbeat interval
\* is configured below the lease; that it does not is a fault.
Attended(j) == \E w \in Workers : held[w].job = j /\ held[w].token = jobs[j].token

LeaseLapses(j) ==
  /\ LeaseRunsOut(j)
  /\ IF Attended(j) THEN Fault("stall") ELSE UNCHANGED faults
  /\ UNCHANGED <<marker, invoices, builds, workerVars, beat, replaying>>

DelayPasses(j) ==
  /\ BecomesDue(j)
  /\ UNCHANGED <<marker, invoices, builds, workerVars, beat, replaying, faults>>

-----------------------------------------------------------------------------
(* Replays. *)

\* Variant: the job need not have failed.
ReplayUnasked(o) ==
  /\ replaying[o] = None
  /\ \E j \in Jobs :
       /\ jobs[j].status # "absent"
       /\ invoices[CycleOf[j]] = None
       /\ replaying' = [replaying EXCEPT ![o] = j]
  /\ UNCHANGED <<jobs, marker, invoices, builds, workerVars, beat, faults>>

\* The job has failed and its cycle has no invoice; were there one, the
\* replay would be skipped.
ReplayCheck(o) ==
  /\ replaying[o] = None
  /\ \E j \in Jobs :
       /\ jobs[j].status = "failed"
       /\ invoices[CycleOf[j]] = None
       /\ replaying' = [replaying EXCEPT ![o] = j]
  /\ UNCHANGED <<jobs, marker, invoices, builds, workerVars, beat, faults>>

\* A new job for the same cycle is enqueued.
ReplayEnqueue(o) ==
  /\ replaying[o] # None
  /\ \E j \in Jobs \ Enqueued :
       /\ CycleOf[j] = CycleOf[replaying[o]]
       /\ EnqueueJob(j)
  /\ replaying' = [replaying EXCEPT ![o] = None]
  /\ UNCHANGED <<marker, invoices, builds, workerVars, beat, faults>>

-----------------------------------------------------------------------------
\* The steps of a cycle that no fault interferes with.
Progress(w) ==
  \/ Claim(w) \/ Begin(w) \/ FindByCycleKey(w) \/ SaveInvoice(w) \/ Audit(w)
  \/ Record(w) \/ Unwind(w) \/ Finish(w) \/ Handle(w)

WorkerFaults(w) ==
  \/ ClaimLost(w) \/ BeginFails(w) \/ ExecuteThrows(w) \/ RecordFails(w)
  \/ UnwindFails(w) \/ FinishFails(w) \/ HandleFails(w) \/ Crash(w)

Heartbeat(w) == SendBeat(w) \/ LandBeat(w) \/ BeatFails(w)

Next ==
  \/ \E w \in Workers : Progress(w) \/ WorkerFaults(w) \/ Heartbeat(w)
  \/ \E j \in Jobs : Enqueue(j) \/ LeaseLapses(j) \/ DelayPasses(j)
  \/ \E o \in Operators : ReplayCheck(o) \/ ReplayEnqueue(o)

Spec == Init /\ [][Next]_vars

\* A running worker polls and goes on, a crashed one is restarted, and time
\* passes; clients, operators and faults are not obliged to act.
Fairness ==
  /\ \A w \in Workers : WF_vars(Progress(w))
  /\ \A j \in Jobs :
       /\ WF_vars(LeaseLapses(j) /\ UNCHANGED faults)
       /\ WF_vars(DelayPasses(j))

FairSpec == Spec /\ Fairness

-----------------------------------------------------------------------------
(* Properties. *)

\* Two workers never generate the invoice of one job together, however the
\* lease moved between them.
OneExecutorPerJob ==
  \A w1, w2 \in Workers :
    pc[w1] \in Executing /\ pc[w2] \in Executing /\ held[w1].job = held[w2].job => w1 = w2

\* What keeps it so: the idempotency record of a job whose invoice is being
\* generated says "processing", or, where the write that completed it was
\* reported as failed, "completed" until it is unwound.
ExecutorsMarked ==
  \A w \in Workers :
    pc[w] \in Executing =>
      \/ marker[held[w].job].status = "processing"
      \/ pc[w] = "unwind" /\ marker[held[w].job].status = "completed"

\* A worker whose lease is still good counted the job's attempts right, though
\* it reads them from the copy it claimed.
TriesCurrent ==
  \A w \in Workers :
    pc[w] # "idle" /\ Owns(held[w]) => tries[w] = jobs[held[w].job].attempts

\* Only the worker whose token the job carries takes it out of processing:
\* a worker whose lease was given to another has no say any more.
Fencing ==
  [][\A j \in Jobs :
       jobs[j].status = "processing" /\ jobs'[j].status # "processing" =>
         \E w \in Workers :
           /\ held[w] = [job |-> j, token |-> jobs[j].token]
           /\ pc[w] \in {"check", "handle"}
           /\ pc'[w] # pc[w]]_vars

\* The invoice stored for a cycle is never replaced by another.
InvoiceStable ==
  [][\A c \in Cycles : invoices[c] # None => invoices'[c] = invoices[c]]_vars

\* What a completed job reports is the invoice stored for its cycle.
CompletedNamesInvoice ==
  \A j \in Jobs :
    jobs[j].status = "completed" => invoices[CycleOf[j]] = jobs[j].invoice

\* Two workers never generate invoices of one cycle together, neither of one
\* job nor of a job and its replay.
OneExecutorPerCycle ==
  \A w1, w2 \in Workers :
    /\ pc[w1] \in Executing /\ pc[w2] \in Executing
    /\ CycleOf[held[w1].job] = CycleOf[held[w2].job]
    => w1 = w2

\* When that is so: a cycle is enqueued under one key and replayed once at
\* most, and no worker is slower than its lease.
SoleJobs ==
  /\ \A i, j \in Enqueued : CycleOf[i] = CycleOf[j] => i = j
  /\ \A i, j \in Jobs \ Enqueued : CycleOf[i] = CycleOf[j] => i = j
  /\ "stall" \notin FaultKinds

\* What keeps it so then: a worker keeps its lease until it handles a failure ...
LeasesHeld ==
  /\ \A w \in Workers :
       pc[w] \notin {"idle", "handle"} => Owns(held[w]) /\ jobs[held[w].job].live
  /\ \A w1, w2 \in Workers :
       pc[w1] # "idle" /\ pc[w2] # "idle" /\ held[w1].token = held[w2].token => w1 = w2

\* ... and a replay comes after the failure of the job clients enqueued.
ReplaysFollow ==
  /\ \A o \in Operators : replaying[o] # None => jobs[replaying[o]].status = "failed"
  /\ \A j \in Jobs \ Enqueued :
       jobs[j].status # "absent" =>
         \E i \in Enqueued : CycleOf[i] = CycleOf[j] /\ jobs[i].status = "failed"

\* With one executor per cycle, whoever is about to store an invoice still
\* finds none, and whatever names an invoice names the one that is stored.
WorkersNamed ==
  \A w \in Workers :
    LET stored == invoices[CycleOf[held[w].job]]
    IN  /\ pc[w] = "save" => stored = None
        /\ pc[w] \in {"audit", "record", "check"} => stored = result[w]

MarkersNamed ==
  \A j \in Jobs :
    marker[j].status = "completed" => invoices[CycleOf[j]] = marker[j].invoice

InvoicesNamed == WorkersNamed /\ MarkersNamed /\ CompletedNamesInvoice

\* Where every write that is reported as failed was not applied: what a worker
\* reports, and then its completed job, is what the job's record holds, and a
\* record being executed is in processing.
Recorded ==
  /\ \A w \in Workers :
       /\ pc[w] \in Executing => marker[held[w].job].status = "processing"
       /\ pc[w] = "check" =>
            marker[held[w].job] = [status |-> "completed", invoice |-> result[w]]
  /\ \A j \in Jobs :
       jobs[j].status = "completed" =>
         marker[j] = [status |-> "completed", invoice |-> jobs[j].invoice]

\* A response is recorded once.
RecordsFinal ==
  [][\A j \in Jobs : marker[j].status = "completed" => marker'[j] = marker[j]]_vars

\* The worker that was generating the job's invoice is gone, its record is not.
Orphaned(j) ==
  /\ marker[j].status = "processing"
  /\ \A w \in Workers : held[w].job = j => pc[w] \notin Executing

\* A job that entered the queue reaches a terminal status.
EventuallyTerminal ==
  \A j \in Jobs :
    (jobs[j].status = "queued") ~> (jobs[j].status \in {"completed", "failed"})

\* A job that a worker began is completed in the end: a restart of the worker
\* does not lose it (ADR-014), and the idempotency record it left in processing
\* is taken over by the next one (ADR-003).
RecoversFromCrash ==
  \A j \in Jobs : (jobs[j].status = "processing") ~> (jobs[j].status = "completed")

\* The queue keeps the promise of JobLifecycle to whoever polls a job.
Lifecycle == INSTANCE JobLifecycle WITH
  status <- [j \in Jobs |-> jobs[j].status],
  attempts <- [j \in Jobs |-> jobs[j].attempts],
  result <- [j \in Jobs |-> jobs[j].invoice]

FollowsLifecycle == Lifecycle!Spec
=============================================================================
