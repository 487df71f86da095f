---------------------------- MODULE JobLifecycle ----------------------------
(***************************************************************************)
(* What the invoice queue promises of a job to whoever polls its status: a *)
(* job is queued, then worked on, goes back to the queue at most           *)
(* MaxAttempts - 1 times, and ends completed, with an invoice, or failed,  *)
(* after its last attempt; and it never leaves a terminal status.          *)
(***************************************************************************)
EXTENDS Naturals

CONSTANTS
  Jobs,         \* job ids
  MaxAttempts,  \* attempts a job is given
  None          \* no invoice

VARIABLES
  status,       \* the status of each job; "absent" before it is enqueued
  attempts,     \* its failed attempts
  result        \* the invoice it ended with, or None

vars == <<status, attempts, result>>

Init ==
  /\ status = [j \in Jobs |-> "absent"]
  /\ attempts = [j \in Jobs |-> 0]
  /\ result = [j \in Jobs |-> None]

Move(j, from, to) ==
  /\ status[j] = from
  /\ status' = [status EXCEPT ![j] = to]

Enqueue(j) == Move(j, "absent", "queued") /\ UNCHANGED <<attempts, result>>
Start(j) == Move(j, "queued", "processing") /\ UNCHANGED <<attempts, result>>

Retry(j) ==
  /\ Move(j, "processing", "queued")
  /\ attempts[j] + 1 < MaxAttempts
  /\ attempts' = [attempts EXCEPT ![j] = @ + 1]
  /\ UNCHANGED result

DeadLetter(j) ==
  /\ Move(j, "processing", "failed")
  /\ attempts[j] + 1 = MaxAttempts
  /\ UNCHANGED <<attempts, result>>

Complete(j) ==
  /\ Move(j, "processing", "completed")
  /\ result'[j] # None
  /\ result' = [result EXCEPT ![j] = result'[j]]
  /\ UNCHANGED attempts

Next == \E j \in Jobs : Enqueue(j) \/ Start(j) \/ Retry(j) \/ DeadLetter(j) \/ Complete(j)

Spec == Init /\ [][Next]_vars
=============================================================================
