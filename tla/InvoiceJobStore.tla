-------------------------- MODULE InvoiceJobStore ---------------------------
(***************************************************************************)
(* The table of invoice jobs and the operations its store offers: enqueue, *)
(* claim, renew and the three marks, each one transaction.                 *)
(*                                                                         *)
(* The clock is abstract: a lease is live until its time runs out, a       *)
(* retried job is not due until its delay has passed.                      *)
(***************************************************************************)
EXTENDS Naturals

CONSTANTS
  Jobs,         \* job ids
  Tokens,       \* lease tokens
  MaxAttempts,  \* attempts a job is given
  None          \* an absent token, job or invoice

\* An invoice is named for the job that built it and the number of the build.
Invoices == [by : Jobs, nth : Nat]

ASSUME StoreAssumption ==
  /\ MaxAttempts \in Nat \ {0}
  /\ None \notin Jobs \cup Tokens
  /\ None \notin Invoices

VARIABLE jobs   \* the row of each job id

\* A job has a lease exactly while processing, an invoice exactly when
\* completed, and always an attempt left to fail.
JobRows ==
  {r \in [status : {"absent", "queued", "processing", "completed", "failed"},
          attempts : 0..(MaxAttempts - 1),
          token : Tokens \cup {None},
          live : BOOLEAN,
          due : BOOLEAN,
          invoice : Invoices \cup {None}] :
     /\ r.status = "absent" => r.attempts = 0
     /\ r.token # None <=> r.status = "processing"
     /\ r.live => r.status = "processing"
     /\ r.due => r.status = "queued"
     /\ r.invoice # None <=> r.status = "completed"}

\* A row no worker has touched; a new job is due at once.
Untouched(status, due) == [status |-> status, attempts |-> 0, token |-> None,
                           live |-> FALSE, due |-> due, invoice |-> None]
NoJob == Untouched("absent", FALSE)
NewJob == Untouched("queued", TRUE)

EnqueueJob(j) ==
  /\ jobs[j].status = "absent"
  /\ jobs' = [jobs EXCEPT ![j] = NewJob]

IsReady(j) == jobs[j].status = "queued" /\ jobs[j].due
IsExpired(j) == jobs[j].status = "processing" /\ ~ jobs[j].live

\* Variant: expired leases are not looked for.
ClaimableReady(j) == IsReady(j)

\* Ready jobs come before expired ones.
Claimable(j) == IsReady(j) \/ (IsExpired(j) /\ \A i \in Jobs : ~ IsReady(i))

\* A claim replaces whatever lease the job had; it is not an attempt.
ClaimJob(j, t) ==
  /\ Claimable(j)
  /\ jobs' = [jobs EXCEPT ![j].status = "processing", ![j].token = t,
                          ![j].live = TRUE, ![j].due = FALSE]

\* Variant: the guard does not compare tokens.
OwnsUnderAnyToken(lease) ==
  /\ lease.job # None
  /\ jobs[lease.job].status = "processing"

\* The guard of every update by a worker: its token is still the job's.
Owns(lease) ==
  /\ lease.job # None
  /\ jobs[lease.job].status = "processing"
  /\ jobs[lease.job].token = lease.token

RenewLease(lease) ==
  /\ Owns(lease)
  /\ jobs' = [jobs EXCEPT ![lease.job].live = TRUE]

\* Variant: the lease is not dropped.
MarkKeepingLease(lease, row) ==
  /\ Owns(lease)
  /\ jobs' = [jobs EXCEPT ![lease.job] = row]

\* A mark drops the lease and leaves the job in another status.
Mark(lease, row) ==
  /\ Owns(lease)
  /\ jobs' = [jobs EXCEPT ![lease.job] = [row EXCEPT !.token = None, !.live = FALSE]]

MarkCompleted(lease, invoice) ==
  Mark(lease, [jobs[lease.job] EXCEPT !.status = "completed", !.invoice = invoice])

MarkRetry(lease, attempts) ==
  Mark(lease, [jobs[lease.job] EXCEPT !.status = "queued", !.attempts = attempts])

MarkDeadLetter(lease) ==
  Mark(lease, [jobs[lease.job] EXCEPT !.status = "failed"])

\* Time passes.
LeaseRunsOut(j) ==
  /\ jobs[j].status = "processing"
  /\ jobs[j].live
  /\ jobs' = [jobs EXCEPT ![j].live = FALSE]

BecomesDue(j) ==
  /\ jobs[j].status = "queued"
  /\ ~ jobs[j].due
  /\ jobs' = [jobs EXCEPT ![j].due = TRUE]
=============================================================================
