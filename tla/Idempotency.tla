---------------------------- MODULE Idempotency -----------------------------
(***************************************************************************)
(* The idempotency executor of packages/application and the stores it      *)
(* runs on: the in-memory map, the Postgres table, a store without an      *)
(* atomic begin, and the synchronous variant.                              *)
(*                                                                         *)
(* A caller is an execution of executeIdempotent for one request, retried  *)
(* by its client; every await of the code is a step boundary.  Callers of  *)
(* the same key race.                                                      *)
(***************************************************************************)
EXTENDS Naturals

CONSTANTS
  Callers,     \* clients, each retrying one request
  Keys,        \* idempotency keys, a scope and a key
  Hashes,      \* payload hashes
  KeyOf,       \* the key each client sends
  HashOf,      \* the hash of the payload each client sends
  None,        \* an absent hash or response
  Stores,      \* of "memory", "postgres", "fallback" and "sync"
  FaultKinds,  \* the faults that may happen
  MaxFaults    \* bound: how many of them may happen in a behaviour of each store

\* A response names the execution it comes from: whose it was and its number.
Responses == [by : Callers, nth : Nat]

ASSUME ConstantsAssumption ==
  /\ KeyOf \in [Callers -> Keys]
  /\ HashOf \in [Callers -> Hashes]
  /\ None \notin Hashes
  /\ None \notin Responses
  /\ Stores \subseteq {"memory", "postgres", "fallback", "sync"}
  /\ FaultKinds \subseteq
       {"execute", "begin", "complete", "fail", "crash", "ambiguous"}
  /\ MaxFaults \in [Stores -> Nat]

VARIABLES
  store,     \* the store, and executor, that is deployed; it never changes
  records,   \* the idempotency record of each key
  pc,        \* where each caller is, or how its last call ended
  seen,      \* the record a caller of the fallback read
  resp,      \* the response an execution in flight has produced
  effects,   \* how many times the operation of each key took effect
  replies,   \* the answers delivered to clients
  cut,       \* history, read by no action: the keys a fault left in processing
  faults     \* how many faults happened

vars == <<store, records, pc, seen, resp, effects, replies, cut, faults>>

\* A record has the hash of its call, and a response exactly when completed.
Records ==
  {r \in [status : {"absent", "processing", "completed", "failed"},
          hash : Hashes \cup {None},
          response : Responses \cup {None}] :
     /\ r.status = "absent" <=> r.hash = None
     /\ r.status = "completed" <=> r.response # None}

Absent == [status |-> "absent", hash |-> None, response |-> None]
Processing(h) == [status |-> "processing", hash |-> h, response |-> None]
\* Variant: the completed record is stored without its response.
CompletedBare(h, v) == [status |-> "completed", hash |-> h, response |-> None]
Completed(h, v) == [status |-> "completed", hash |-> h, response |-> v]
Failed(h) == [status |-> "failed", hash |-> h, response |-> None]

\* How a call can have ended, and the steps of a call in flight.
Resting == {"idle", "answered", "conflict", "in_progress", "error"}
InFlight == {"executing", "completing", "failing"}
Steps == Resting \cup {"calling", "inserting", "fetched"} \cup InFlight

TypeOK ==
  /\ store \in Stores
  /\ records \in [Keys -> Records]
  /\ pc \in [Callers -> Steps]
  /\ seen \in [Callers -> Records]
  /\ resp \in [Callers -> Responses \cup {None}]
  /\ \A c \in Callers : pc[c] = "completing" => resp[c] # None
  /\ effects \in [Keys -> Nat]
  /\ replies \subseteq [to : Callers, response : Responses]
  /\ cut \subseteq Keys
  /\ faults \in Nat

Init ==
  /\ store \in Stores
  /\ records = [k \in Keys |-> Absent]
  /\ pc = [c \in Callers |-> "idle"]
  /\ seen = [c \in Callers |-> Absent]
  /\ resp = [c \in Callers |-> None]
  /\ effects = [k \in Keys |-> 0]
  /\ replies = {}
  /\ cut = {}
  /\ faults = 0

-----------------------------------------------------------------------------
(* Helpers. *)

RecordOf(c) == records[KeyOf[c]]
SetRecord(c, r) == records' = [records EXCEPT ![KeyOf[c]] = r]
Goto(c, step) == pc' = [pc EXCEPT ![c] = step] /\ UNCHANGED store
Deliver(c, v) == replies' = replies \cup {[to |-> c, response |-> v]}

\* A fault of this kind happens, within the bound.
Fault(kind) ==
  /\ kind \in FaultKinds
  /\ faults < MaxFaults[store]
  /\ faults' = faults + 1

\* A call ends without recording its outcome.
LeftInProcessing(c) ==
  cut' = IF RecordOf(c)'.status = "processing" THEN cut \cup {KeyOf[c]} ELSE cut

\* The decision a begin takes on the record it finds.
\* Variants: the status is not looked at; the hash of a failed record is not;
\* nor is that of a completed one.
MayStartAgain(c, r) == r.status = "absent" \/ r.hash = HashOf[c]
MayStartRebound(c, r) == r.status \in {"absent", "failed"}
MayReplayAny(c, r) == r.status = "completed"
MayStart(c, r) == r.status = "absent" \/ (r.status = "failed" /\ r.hash = HashOf[c])
Conflicts(c, r) == r.status # "absent" /\ r.hash # HashOf[c]
IsInProgress(c, r) == r.status = "processing" /\ r.hash = HashOf[c]
MayReplay(c, r) == r.status = "completed" /\ r.hash = HashOf[c]

\* The call starts: its record becomes a processing one.
Start(c) ==
  /\ SetRecord(c, Processing(HashOf[c]))
  /\ Goto(c, "executing")
  /\ UNCHANGED <<resp, effects, replies, cut, faults>>

\* The call ends without executing, on the record r it found.
Refuse(c, r) ==
  /\ \/ Conflicts(c, r) /\ Goto(c, "conflict")
     \/ IsInProgress(c, r) /\ Goto(c, "in_progress")
  /\ UNCHANGED <<records, resp, effects, replies, cut, faults>>

Replay(c, r) ==
  /\ MayReplay(c, r)
  /\ Deliver(c, r.response)
  /\ Goto(c, "answered")
  /\ UNCHANGED <<records, resp, effects, cut, faults>>

\* The effect of the operation, and the response that tells of it.
Effect(c) == effects' = [effects EXCEPT ![KeyOf[c]] = @ + 1]
NewResponse(c) == [by |-> c, nth |-> effects[KeyOf[c]] + 1]

-----------------------------------------------------------------------------
(* Beginning a call. *)

\* A client sends its request, the first time or again.
Call(c) ==
  /\ pc[c] \in Resting
  /\ Goto(c, "calling")
  /\ UNCHANGED <<records, seen, resp, effects, replies, cut, faults>>

\* begin finds a record it can decide on: the map decides in one step, the
\* Postgres transaction holds the row lock of an existing record.
Begin(c) ==
  /\ pc[c] = "calling"
  /\ \/ store = "memory"
     \/ store = "postgres" /\ RecordOf(c).status # "absent"
  /\ \/ MayStart(c, RecordOf(c)) /\ Start(c)
     \/ Refuse(c, RecordOf(c))
     \/ Replay(c, RecordOf(c))
  /\ UNCHANGED seen

\* The Postgres begin finds no row, so it locks nothing, and goes on to
\* insert one.
BeginMissing(c) ==
  /\ store = "postgres"
  /\ pc[c] = "calling"
  /\ RecordOf(c).status = "absent"
  /\ Goto(c, "inserting")
  /\ UNCHANGED <<records, seen, resp, effects, replies, cut, faults>>

\* The insert succeeds, or fails on the primary key because another caller
\* inserted first; the database error is rethrown as it is.
Insert(c) ==
  /\ pc[c] = "inserting"
  /\ \/ RecordOf(c).status = "absent" /\ Start(c)
     \/ /\ RecordOf(c).status # "absent"
        /\ Goto(c, "error")
        /\ UNCHANGED <<records, resp, effects, replies, cut, faults>>
  /\ UNCHANGED seen

\* beginWithFallback: the record is read, and decided on later.
FallbackGet(c) ==
  /\ store = "fallback"
  /\ pc[c] = "calling"
  /\ seen' = [seen EXCEPT ![c] = RecordOf(c)]
  /\ Goto(c, "fetched")
  /\ UNCHANGED <<records, resp, effects, replies, cut, faults>>

FallbackDecide(c) ==
  /\ pc[c] = "fetched"
  /\ \/ MayStart(c, seen[c]) /\ Start(c)
     \/ Refuse(c, seen[c])
     \/ Replay(c, seen[c])
  /\ seen' = [seen EXCEPT ![c] = Absent]

\* A begin under way that would start the call writes its record.
Writes(c) ==
  \/ pc[c] = "calling" /\ store = "postgres" /\ MayStart(c, RecordOf(c))
  \/ pc[c] = "inserting" /\ RecordOf(c).status = "absent"
  \/ pc[c] = "fetched" /\ MayStart(c, seen[c])

\* The store rejects begin, whose write may have been applied all the same:
\* nothing is executed then, and nothing takes the record back.
BeginFails(c) ==
  /\ pc[c] \in {"calling", "inserting", "fetched"}
  /\ store \in {"postgres", "fallback"}
  /\ Fault("begin")
  /\ \/ UNCHANGED <<records, cut>>
     \/ /\ "ambiguous" \in FaultKinds
        /\ Writes(c)
        /\ SetRecord(c, Processing(HashOf[c]))
        /\ LeftInProcessing(c)
  /\ Goto(c, "error")
  /\ seen' = [seen EXCEPT ![c] = Absent]
  /\ UNCHANGED <<resp, effects, replies>>

-----------------------------------------------------------------------------
(* Executing and recording the outcome. *)

Execute(c) ==
  /\ pc[c] = "executing"
  /\ Effect(c)
  /\ resp' = [resp EXCEPT ![c] = NewResponse(c)]
  /\ Goto(c, "completing")
  /\ UNCHANGED <<records, seen, replies, cut, faults>>

\* execute throws, before or after it took effect.
ExecuteThrows(c) ==
  /\ pc[c] = "executing"
  /\ Fault("execute")
  /\ \/ UNCHANGED effects
     \/ Effect(c)
  /\ Goto(c, "failing")
  /\ UNCHANGED <<records, seen, resp, replies, cut>>

\* The completed record is stored and the caller gets the response.
SetCompleted(c) ==
  /\ pc[c] = "completing"
  /\ SetRecord(c, Completed(HashOf[c], resp[c]))
  /\ Deliver(c, resp[c])
  /\ Goto(c, "answered")
  /\ resp' = [resp EXCEPT ![c] = None]
  /\ UNCHANGED <<seen, effects, cut, faults>>

\* Storing it is inside the try: when it throws the record is set to failed,
\* whether or not the write was applied.
SetCompletedFails(c) ==
  /\ pc[c] = "completing"
  /\ Fault("complete")
  /\ \/ UNCHANGED records
     \/ /\ "ambiguous" \in FaultKinds
        /\ SetRecord(c, Completed(HashOf[c], resp[c]))
  /\ Goto(c, "failing")
  /\ resp' = [resp EXCEPT ![c] = None]
  /\ UNCHANGED <<seen, effects, replies, cut>>

\* Variant: the failure is not recorded.
SetFailedForgotten(c) ==
  /\ pc[c] = "failing"
  /\ Goto(c, "error")
  /\ UNCHANGED <<records, seen, resp, effects, replies, cut, faults>>

SetFailed(c) ==
  /\ pc[c] = "failing"
  /\ SetRecord(c, Failed(HashOf[c]))
  /\ Goto(c, "error")
  /\ UNCHANGED <<seen, resp, effects, replies, cut, faults>>

\* Nothing handles a failure to store the failure.
SetFailedFails(c) ==
  /\ pc[c] = "failing"
  /\ Fault("fail")
  /\ \/ UNCHANGED records
     \/ /\ "ambiguous" \in FaultKinds
        /\ SetRecord(c, Failed(HashOf[c]))
  /\ LeftInProcessing(c)
  /\ Goto(c, "error")
  /\ UNCHANGED <<seen, resp, effects, replies>>

\* The process of a caller dies: the store keeps what was written.
Crash(c) ==
  /\ store \in {"postgres", "fallback"}
  /\ pc[c] \notin Resting
  /\ Fault("crash")
  /\ Goto(c, "idle")
  /\ seen' = [seen EXCEPT ![c] = Absent]
  /\ resp' = [resp EXCEPT ![c] = None]
  /\ UNCHANGED <<records, effects, replies>>
  /\ IF pc[c] \in InFlight THEN LeftInProcessing(c) ELSE UNCHANGED cut

\* processWithIdempotency awaits nothing: the whole call is one step.
ProcessSync(c) ==
  /\ store = "sync"
  /\ pc[c] = "calling"
  /\ \/ /\ MayStart(c, RecordOf(c))
        /\ Effect(c)
        /\ SetRecord(c, Completed(HashOf[c], NewResponse(c)))
        /\ Deliver(c, NewResponse(c))
        /\ Goto(c, "answered")
        /\ UNCHANGED <<resp, cut, faults>>
     \/ /\ MayStart(c, RecordOf(c))
        /\ Fault("execute")
        /\ SetRecord(c, Failed(HashOf[c]))
        /\ Goto(c, "error")
        /\ \/ UNCHANGED effects
           \/ Effect(c)
        /\ UNCHANGED <<resp, replies, cut>>
     \/ Refuse(c, RecordOf(c))
     \/ Replay(c, RecordOf(c))
  /\ UNCHANGED seen

-----------------------------------------------------------------------------
\* The steps of a call that no fault interferes with.
Progress(c) ==
  \/ Begin(c) \/ BeginMissing(c) \/ Insert(c)
  \/ FallbackGet(c) \/ FallbackDecide(c)
  \/ Execute(c) \/ SetCompleted(c) \/ SetFailed(c)

Next ==
  \E c \in Callers :
    \/ Call(c) \/ Progress(c) \/ ProcessSync(c)
    \/ BeginFails(c) \/ ExecuteThrows(c) \/ SetCompletedFails(c)
    \/ SetFailedFails(c) \/ Crash(c)

Spec == Init /\ [][Next]_vars

\* The event loop runs every continuation that is ready, and every client
\* retries until it is answered; faults are never obliged to happen.
Fairness == \A c \in Callers : WF_vars(Progress(c)) /\ WF_vars(Call(c))

FairSpec == Spec /\ Fairness

-----------------------------------------------------------------------------
(* Properties. *)

\* Two executions of one key are never in flight together: begin hands the
\* key to one caller until that caller has recorded how it ended.
SingleExecutor ==
  \A c1, c2 \in Callers :
    pc[c1] \in InFlight /\ pc[c2] \in InFlight /\ KeyOf[c1] = KeyOf[c2] => c1 = c2

\* A client is only ever answered with what an execution of its own key and
\* payload produced, even where two callers overwrite each other's record.
ReplyMatches ==
  \A r \in replies :
    /\ KeyOf[r.to] = KeyOf[r.response.by]
    /\ HashOf[r.to] = HashOf[r.response.by]

\* All clients answered for a key got one response: a re-execution with the
\* same key and payload returns the response persisted before.
RepliesAgree ==
  \A r1, r2 \in replies : KeyOf[r1.to] = KeyOf[r2.to] => r1.response = r2.response

\* The operation of a key takes effect at most once more than things went
\* wrong: without a fault, retries and races never repeat it.
EffectsBounded == \A k \in Keys : effects[k] <= faults + 1

\* Once a client of a key was answered, the operation never runs again.
EffectsFinal ==
  [][\A r \in replies : effects'[KeyOf[r.to]] = effects[KeyOf[r.to]]]_vars

\* The record of a key says that it is being executed, and nobody executes it.
Stuck(k) ==
  /\ records[k].status = "processing"
  /\ \A c \in Callers : KeyOf[c] = k => pc[c] \notin InFlight

\* ... because its process died, its begin was applied and reported as failed,
\* or its failure could not be stored: nothing takes such a key over.
Abandoned(k) == k \in cut /\ Stuck(k)

\* A key does not stay in processing for ever, whatever fails, unless a fault
\* abandoned it.
ProcessingEnds ==
  \A k \in Keys :
    (records[k].status = "processing")
      ~> (records[k].status # "processing" \/ Abandoned(k))

\* A client that keeps retrying is answered in the end, whatever fails, unless
\* the key is taken by another payload or a fault abandoned it.
RetriesAnswered ==
  \A c \in Callers :
    (pc[c] = "calling")
      ~> \/ \E r \in replies : r.to = c
         \/ Conflicts(c, RecordOf(c))
         \/ Abandoned(KeyOf[c])

\* Why they hold: the invariants of the proofs.

\* Every response kept anywhere comes from an execution of the same request.
Provenance ==
  /\ \A k \in Keys : records[k].response # None =>
       /\ KeyOf[records[k].response.by] = k
       /\ HashOf[records[k].response.by] = records[k].hash
  /\ \A c \in Callers : seen[c].response # None =>
       /\ KeyOf[seen[c].response.by] = KeyOf[c]
       /\ HashOf[seen[c].response.by] = seen[c].hash
  /\ \A c \in Callers : resp[c] # None => resp[c].by = c

\* An execution in flight owns its record, which is processing for it; only
\* a completion that was applied and yet reported as failed shows otherwise.
OwnsRecord(c) ==
  /\ RecordOf(c).hash = HashOf[c]
  /\ \/ RecordOf(c).status = "processing"
     \/ /\ "ambiguous" \in FaultKinds
        /\ pc[c] = "failing"
        /\ RecordOf(c).status = "completed"

Exclusive ==
  /\ \A c \in Callers : pc[c] # "fetched"
  /\ \A c \in Callers : pc[c] \in InFlight => OwnsRecord(c)
  /\ SingleExecutor

\* A key that may be executed has taken effect at most once per fault.
EffectsAccounted ==
  /\ EffectsBounded
  /\ \A k \in Keys :
       records[k].status \in {"absent", "failed"} => effects[k] <= faults
  /\ \A c \in Callers :
       pc[c] \in {"executing", "failing"} => effects[KeyOf[c]] <= faults

\* What each client was answered is still what the key's record says.
Persisted ==
  \A r \in replies :
    /\ records[KeyOf[r.to]].hash = HashOf[r.to]
    /\ records[KeyOf[r.to]].response = r.response

\* The executor and its store keep the promise of OncePerKey: the record's
\* hash is what the key is bound to, its response what the key yields.
Promise == INSTANCE OncePerKey WITH
  Clients <- Callers,
  bound <- [k \in Keys |-> records[k].hash],
  value <- [k \in Keys |-> records[k].response]

KeepsPromise == Promise!Spec
=============================================================================
