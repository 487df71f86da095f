------------------------- MODULE IdempotencyProofs --------------------------
(***************************************************************************)
(* Proofs about Idempotency, for any clients, keys, payloads and faults.   *)
(***************************************************************************)
EXTENDS Idempotency, TLAPS

-----------------------------------------------------------------------------
(* Types. *)

\* The records an executor writes are well formed.
LEMMA RecordsTyped ==
  ASSUME NEW c \in Callers
  PROVE  /\ Absent \in Records
         /\ Processing(HashOf[c]) \in Records
         /\ Failed(HashOf[c]) \in Records
         /\ \A v \in Responses : Completed(HashOf[c], v) \in Records
  BY ConstantsAssumption DEF Absent, Processing, Failed, Completed, Records

\* A fresh response is one, and the effect counters stay counters.
LEMMA EffectTyped ==
  ASSUME NEW c \in Callers, effects \in [Keys -> Nat]
  PROVE  /\ NewResponse(c) \in Responses
         /\ Effect(c) => effects' \in [Keys -> Nat]
  BY ConstantsAssumption DEF NewResponse, Effect, Responses

\* What a begin decides on a well-formed record keeps the types.
LEMMA DecisionTyped ==
  ASSUME TypeOK, NEW c \in Callers, NEW r \in Records,
         \/ MayStart(c, r) /\ Start(c)
         \/ Refuse(c, r)
         \/ Replay(c, r),
         seen' \in [Callers -> Records]
  PROVE  TypeOK'
<1> USE DEF TypeOK, Goto
<1>1. CASE Start(c)
  BY <1>1, ConstantsAssumption, RecordsTyped
  DEF Start, SetRecord, Steps, InFlight
<1>2. CASE Refuse(c, r)
  BY <1>2 DEF Refuse, Steps, Resting
<1>3. CASE Replay(c, r)
  <2>1. r.response \in Responses
    BY <1>3 DEF Replay, MayReplay, Records
  <2> QED
    BY <1>3, <2>1 DEF Replay, Deliver, Steps, Resting
<1> QED
  BY <1>1, <1>2, <1>3

\* Every step keeps the types.
LEMMA NextTyped == TypeOK /\ [Next]_vars => TypeOK'
<1> SUFFICES ASSUME TypeOK, [Next]_vars
             PROVE  TypeOK'
  OBVIOUS
<1>a. ASSUME NEW c \in Callers PROVE RecordOf(c) \in Records
  BY ConstantsAssumption DEF TypeOK, RecordOf
<1> USE ConstantsAssumption DEF TypeOK, Goto, SetRecord, Steps, Resting, InFlight
<1>1. ASSUME NEW c \in Callers, Call(c) PROVE TypeOK'
  BY <1>1 DEF Call
<1>2. ASSUME NEW c \in Callers, Begin(c) PROVE TypeOK'
  BY <1>2, <1>a, DecisionTyped DEF Begin
<1>3. ASSUME NEW c \in Callers, BeginMissing(c) PROVE TypeOK'
  BY <1>3 DEF BeginMissing
<1>4. ASSUME NEW c \in Callers, Insert(c) PROVE TypeOK'
  BY <1>4, RecordsTyped DEF Insert, Start
<1>5. ASSUME NEW c \in Callers, FallbackGet(c) PROVE TypeOK'
  BY <1>5, <1>a DEF FallbackGet
<1>6. ASSUME NEW c \in Callers, FallbackDecide(c) PROVE TypeOK'
  <2>1. seen' \in [Callers -> Records]
    BY <1>6, RecordsTyped DEF FallbackDecide
  <2>2. seen[c] \in Records
    OBVIOUS
  <2> QED
    BY <1>6, <2>1, <2>2, DecisionTyped DEF FallbackDecide
<1>7. ASSUME NEW c \in Callers, BeginFails(c) PROVE TypeOK'
  BY <1>7, RecordsTyped DEF BeginFails, Fault, LeftInProcessing
<1>8. ASSUME NEW c \in Callers, Execute(c) PROVE TypeOK'
  BY <1>8, EffectTyped DEF Execute
<1>9. ASSUME NEW c \in Callers, ExecuteThrows(c) PROVE TypeOK'
  BY <1>9, EffectTyped DEF ExecuteThrows, Fault
<1>10. ASSUME NEW c \in Callers, SetCompleted(c) PROVE TypeOK'
  BY <1>10, RecordsTyped DEF SetCompleted, Deliver
<1>11. ASSUME NEW c \in Callers, SetCompletedFails(c) PROVE TypeOK'
  BY <1>11, RecordsTyped DEF SetCompletedFails, Fault
<1>12. ASSUME NEW c \in Callers, SetFailed(c) PROVE TypeOK'
  BY <1>12, RecordsTyped DEF SetFailed
<1>13. ASSUME NEW c \in Callers, SetFailedFails(c) PROVE TypeOK'
  BY <1>13, RecordsTyped DEF SetFailedFails, Fault, LeftInProcessing
<1>14. ASSUME NEW c \in Callers, Crash(c) PROVE TypeOK'
  BY <1>14, RecordsTyped DEF Crash, Fault, LeftInProcessing
<1>15. ASSUME NEW c \in Callers, ProcessSync(c) PROVE TypeOK'
  <2>1. CASE Refuse(c, RecordOf(c)) \/ Replay(c, RecordOf(c))
    BY <1>15, <2>1, <1>a, DecisionTyped DEF ProcessSync
  <2>2. CASE ~ (Refuse(c, RecordOf(c)) \/ Replay(c, RecordOf(c)))
    BY <1>15, <2>2, RecordsTyped, EffectTyped DEF ProcessSync, Fault, Deliver
  <2> QED
    BY <2>1, <2>2
<1>16. CASE UNCHANGED vars
  BY <1>16 DEF vars
<1> QED
  BY <1>1, <1>2, <1>3, <1>4, <1>5, <1>6, <1>7, <1>8, <1>9, <1>10, <1>11,
     <1>12, <1>13, <1>14, <1>15, <1>16 DEF Next, Progress

\* The variables always have their types: a completed record, and nothing
\* else, carries a response, and a completing execution has one to record.
THEOREM TypeCorrect == Spec => []TypeOK
<1>1. Init => TypeOK
  BY ConstantsAssumption DEF Init, TypeOK, Absent, Records, Steps, Resting
<1> QED
  BY <1>1, NextTyped, PTL DEF Spec

-----------------------------------------------------------------------------
(* Every client is answered with a response to its own request. *)

\* Every step keeps the provenance of responses, and of the answers.
LEMMA NextProvenance ==
  TypeOK /\ Provenance /\ ReplyMatches /\ [Next]_vars => Provenance' /\ ReplyMatches'
<1> SUFFICES ASSUME TypeOK, Provenance, ReplyMatches, [Next]_vars
             PROVE  Provenance' /\ ReplyMatches'
  OBVIOUS
<1> USE ConstantsAssumption
    DEF TypeOK, Provenance, ReplyMatches, Goto, SetRecord, RecordOf
<1>1. ASSUME NEW c \in Callers, Call(c) PROVE Provenance' /\ ReplyMatches'
  BY <1>1 DEF Call
<1>2. ASSUME NEW c \in Callers, Begin(c) PROVE Provenance' /\ ReplyMatches'
  <2> UNCHANGED seen
    BY <1>2 DEF Begin
  <2>1. CASE Start(c)
    BY <2>1 DEF Start, Processing
  <2>2. CASE Refuse(c, RecordOf(c))
    BY <2>2 DEF Refuse
  <2>3. CASE Replay(c, RecordOf(c))
    BY <2>3 DEF Replay, MayReplay, Deliver, Records
  <2> QED
    BY <1>2, <2>1, <2>2, <2>3 DEF Begin
<1>3. ASSUME NEW c \in Callers, BeginMissing(c) PROVE Provenance' /\ ReplyMatches'
  BY <1>3 DEF BeginMissing
<1>4. ASSUME NEW c \in Callers, Insert(c) PROVE Provenance' /\ ReplyMatches'
  BY <1>4 DEF Insert, Start, Processing
<1>5. ASSUME NEW c \in Callers, FallbackGet(c) PROVE Provenance' /\ ReplyMatches'
  BY <1>5 DEF FallbackGet
<1>6. ASSUME NEW c \in Callers, FallbackDecide(c) PROVE Provenance' /\ ReplyMatches'
  BY <1>6
  DEF FallbackDecide, Start, Processing, Absent, Refuse, Replay, MayReplay, Deliver, Records
<1>7. ASSUME NEW c \in Callers, BeginFails(c) PROVE Provenance' /\ ReplyMatches'
  BY <1>7 DEF BeginFails, Processing, Absent
<1>8. ASSUME NEW c \in Callers, Execute(c) PROVE Provenance' /\ ReplyMatches'
  BY <1>8 DEF Execute, NewResponse
<1>9. ASSUME NEW c \in Callers, ExecuteThrows(c) PROVE Provenance' /\ ReplyMatches'
  BY <1>9 DEF ExecuteThrows
<1>10. ASSUME NEW c \in Callers, SetCompleted(c) PROVE Provenance' /\ ReplyMatches'
  BY <1>10 DEF SetCompleted, Completed, Deliver
<1>11. ASSUME NEW c \in Callers, SetCompletedFails(c) PROVE Provenance' /\ ReplyMatches'
  BY <1>11 DEF SetCompletedFails, Completed
<1>12. ASSUME NEW c \in Callers, SetFailed(c) PROVE Provenance' /\ ReplyMatches'
  BY <1>12 DEF SetFailed, Failed
<1>13. ASSUME NEW c \in Callers, SetFailedFails(c) PROVE Provenance' /\ ReplyMatches'
  BY <1>13 DEF SetFailedFails, Failed
<1>14. ASSUME NEW c \in Callers, Crash(c) PROVE Provenance' /\ ReplyMatches'
  BY <1>14 DEF Crash, Absent
<1>15. ASSUME NEW c \in Callers, ProcessSync(c) PROVE Provenance' /\ ReplyMatches'
  <2> UNCHANGED <<seen, resp>>
    BY <1>15 DEF ProcessSync, Refuse, Replay
  <2>1. CASE /\ SetRecord(c, Completed(HashOf[c], NewResponse(c)))
             /\ Deliver(c, NewResponse(c))
    BY <2>1 DEF Completed, NewResponse, Deliver
  <2>2. CASE SetRecord(c, Failed(HashOf[c])) /\ UNCHANGED replies
    BY <2>2 DEF Failed
  <2>3. CASE Refuse(c, RecordOf(c))
    BY <2>3 DEF Refuse
  <2>4. CASE Replay(c, RecordOf(c))
    BY <2>4 DEF Replay, MayReplay, Deliver, Records
  <2> QED
    BY <1>15, <2>1, <2>2, <2>3, <2>4 DEF ProcessSync
<1>16. CASE UNCHANGED vars
  BY <1>16 DEF vars
<1> QED
  BY <1>1, <1>2, <1>3, <1>4, <1>5, <1>6, <1>7, <1>8, <1>9, <1>10, <1>11,
     <1>12, <1>13, <1>14, <1>15, <1>16 DEF Next, Progress

\* Whatever the store, even one without an atomic begin, a client is answered
\* only with what an execution of its own key and payload produced.
THEOREM RepliesMatch == Spec => []ReplyMatches
<1>1. Init => Provenance /\ ReplyMatches
  BY ConstantsAssumption DEF Init, Provenance, ReplyMatches, Absent
<1> QED
  BY <1>1, NextProvenance, TypeCorrect, PTL DEF Spec

-----------------------------------------------------------------------------
(* One execution at a time, with an atomic begin. *)

\* A key whose record is absent or failed has no execution in flight, so the
\* caller that starts is alone.
LEMMA StartExclusive ==
  ASSUME TypeOK, Exclusive, NEW c \in Callers,
         MayStart(c, RecordOf(c)), Start(c)
  PROVE  Exclusive'
<1> USE ConstantsAssumption DEF TypeOK, Goto, SetRecord, RecordOf
<1>1. \A d \in Callers : pc[d] \in InFlight => KeyOf[d] # KeyOf[c]
  BY DEF Exclusive, OwnsRecord, MayStart
<1>2. /\ pc' = [pc EXCEPT ![c] = "executing"]
      /\ records' = [records EXCEPT ![KeyOf[c]] = Processing(HashOf[c])]
  BY DEF Start
<1>3. \A d \in Callers : d # c => pc'[d] = pc[d]
  BY <1>2
<1>4. ASSUME NEW d \in Callers, pc'[d] \in InFlight PROVE OwnsRecord(d)'
  BY <1>1, <1>2, <1>4 DEF Exclusive, OwnsRecord, Processing
<1>5. SingleExecutor'
  BY <1>1, <1>2 DEF Exclusive, SingleExecutor
<1> QED
  BY <1>2, <1>4, <1>5 DEF Exclusive

\* A step that only takes its caller out of flight, or from one step of its
\* execution to the next while its record stays its own, keeps the others'.
LEMMA OwnStepExclusive ==
  ASSUME TypeOK, Exclusive, NEW c \in Callers, NEW step \in Steps \ {"fetched"},
         pc' = [pc EXCEPT ![c] = step],
         step \in InFlight => pc[c] \in InFlight /\ OwnsRecord(c)',
         \/ UNCHANGED records
         \/ /\ \E r : records' = [records EXCEPT ![KeyOf[c]] = r]
            /\ \A d \in Callers : KeyOf[d] = KeyOf[c] /\ d # c => pc[d] \notin InFlight
  PROVE  Exclusive'
<1>1. pc \in [Callers -> Steps] /\ records \in [Keys -> Records] /\ KeyOf[c] \in Keys
  BY ConstantsAssumption DEF TypeOK
<1>2. /\ pc'[c] = step
      /\ \A d \in Callers : d # c => pc'[d] = pc[d]
  BY <1>1
<1>3. ASSUME NEW d \in Callers, pc'[d] \in InFlight
      PROVE  pc[d] \in InFlight /\ OwnsRecord(d)'
  <2>1. CASE d = c
    BY <1>2, <1>3, <2>1
  <2>2. CASE d # c
    <3>1. pc[d] \in InFlight /\ pc'[d] = pc[d] /\ OwnsRecord(d)
      BY <1>2, <1>3, <2>2 DEF Exclusive
    <3>2. records'[KeyOf[d]] = records[KeyOf[d]]
      BY <1>1, <2>2, <3>1, ConstantsAssumption
    <3> QED
      BY <3>1, <3>2 DEF OwnsRecord, RecordOf
  <2> QED
    BY <2>1, <2>2
<1>4. SingleExecutor'
  BY <1>3 DEF Exclusive, SingleExecutor
<1> QED
  BY <1>2, <1>3, <1>4 DEF Exclusive

\* Every step keeps executions exclusive, when begin is atomic per key.
LEMMA NextExclusive ==
  ASSUME "fallback" \notin Stores
  PROVE  TypeOK /\ Exclusive /\ [Next]_vars => Exclusive'
<1> SUFFICES ASSUME TypeOK, Exclusive, [Next]_vars
             PROVE  Exclusive'
  OBVIOUS
<1>a. ASSUME NEW c \in Callers
      PROVE  /\ RecordOf(c) = records[KeyOf[c]]
             /\ KeyOf[c] \in Keys
             /\ pc[c] \in InFlight =>
                  /\ OwnsRecord(c)
                  /\ \A d \in Callers : KeyOf[d] = KeyOf[c] /\ d # c => pc[d] \notin InFlight
  BY ConstantsAssumption DEF Exclusive, SingleExecutor, RecordOf
<1> USE DEF Goto, Steps, Resting, InFlight
<1>1. ASSUME NEW c \in Callers, Call(c) PROVE Exclusive'
  BY <1>1, OwnStepExclusive DEF Call
<1>2. ASSUME NEW c \in Callers, Begin(c) PROVE Exclusive'
  BY <1>2, StartExclusive, OwnStepExclusive DEF Begin, Refuse, Replay
<1>3. ASSUME NEW c \in Callers, BeginMissing(c) PROVE Exclusive'
  BY <1>3, OwnStepExclusive DEF BeginMissing
<1>4. ASSUME NEW c \in Callers, Insert(c) PROVE Exclusive'
  BY <1>4, StartExclusive, OwnStepExclusive DEF Insert, MayStart
<1>5. ASSUME NEW c \in Callers, FallbackGet(c) PROVE Exclusive'
  BY <1>5 DEF FallbackGet, TypeOK
<1>6. ASSUME NEW c \in Callers, FallbackDecide(c) PROVE Exclusive'
  BY <1>6 DEF FallbackDecide, Exclusive
<1>7. ASSUME NEW c \in Callers, BeginFails(c) PROVE Exclusive'
  <2>1. CASE UNCHANGED records
    BY <1>7, <2>1, OwnStepExclusive DEF BeginFails
  <2>2. CASE MayStart(c, RecordOf(c)) /\ SetRecord(c, Processing(HashOf[c]))
    <3>1. \A d \in Callers : KeyOf[d] = KeyOf[c] => pc[d] \notin InFlight
      BY <2>2 DEF Exclusive, OwnsRecord, MayStart, RecordOf
    <3> QED
      BY <1>7, <2>2, <3>1, OwnStepExclusive DEF BeginFails, SetRecord
  <2> QED
    BY <1>7, <2>1, <2>2 DEF BeginFails, Writes, MayStart, Exclusive
<1>8. ASSUME NEW c \in Callers, Execute(c) PROVE Exclusive'
  <2>1. OwnsRecord(c)'
    BY <1>8, <1>a DEF Execute, OwnsRecord, RecordOf
  <2> QED
    BY <1>8, <2>1, OwnStepExclusive DEF Execute
<1>9. ASSUME NEW c \in Callers, ExecuteThrows(c) PROVE Exclusive'
  <2>1. OwnsRecord(c)'
    BY <1>9, <1>a DEF ExecuteThrows, OwnsRecord, RecordOf
  <2> QED
    BY <1>9, <2>1, OwnStepExclusive DEF ExecuteThrows
<1>10. ASSUME NEW c \in Callers, SetCompleted(c) PROVE Exclusive'
  BY <1>10, <1>a, OwnStepExclusive DEF SetCompleted, SetRecord
<1>11. ASSUME NEW c \in Callers, SetCompletedFails(c) PROVE Exclusive'
  <2>1. OwnsRecord(c)'
    BY <1>11, <1>a DEF SetCompletedFails, SetRecord, Completed, OwnsRecord, RecordOf, TypeOK
  <2> QED
    BY <1>11, <1>a, <2>1, OwnStepExclusive DEF SetCompletedFails, SetRecord
<1>12. ASSUME NEW c \in Callers, SetFailed(c) PROVE Exclusive'
  BY <1>12, <1>a, OwnStepExclusive DEF SetFailed, SetRecord
<1>13. ASSUME NEW c \in Callers, SetFailedFails(c) PROVE Exclusive'
  BY <1>13, <1>a, OwnStepExclusive DEF SetFailedFails, SetRecord
<1>14. ASSUME NEW c \in Callers, Crash(c) PROVE Exclusive'
  BY <1>14, OwnStepExclusive DEF Crash
<1>15. ASSUME NEW c \in Callers, ProcessSync(c) PROVE Exclusive'
  <2>1. CASE MayStart(c, RecordOf(c)) /\ \E r : SetRecord(c, r)
    <3>1. \A d \in Callers : KeyOf[d] = KeyOf[c] => pc[d] \notin InFlight
      BY <2>1 DEF Exclusive, OwnsRecord, MayStart, RecordOf
    <3>2. \E step \in Resting : Goto(c, step)
      BY <1>15 DEF ProcessSync, Refuse, Replay
    <3> QED
      BY <2>1, <3>1, <3>2, OwnStepExclusive DEF SetRecord
  <2>2. CASE Refuse(c, RecordOf(c)) \/ Replay(c, RecordOf(c))
    BY <2>2, OwnStepExclusive DEF Refuse, Replay
  <2> QED
    BY <1>15, <2>1, <2>2 DEF ProcessSync
<1>16. CASE UNCHANGED vars
  BY <1>16 DEF vars, Exclusive, SingleExecutor, OwnsRecord, RecordOf
<1> QED
  BY <1>1, <1>2, <1>3, <1>4, <1>5, <1>6, <1>7, <1>8, <1>9, <1>10, <1>11,
     <1>12, <1>13, <1>14, <1>15, <1>16 DEF Next, Progress

\* With the in-memory store, the Postgres store or the synchronous variant,
\* two executions of a key never overlap, whatever fails or crashes.
THEOREM OneExecutorPerKey ==
  ASSUME "fallback" \notin Stores
  PROVE  Spec => []SingleExecutor
<1>1. Init => Exclusive
  BY DEF Init, Exclusive, SingleExecutor, InFlight
<1>2. Exclusive => SingleExecutor
  BY DEF Exclusive
<1> QED
  BY <1>1, <1>2, NextExclusive, TypeCorrect, PTL DEF Spec

-----------------------------------------------------------------------------
(* The operation of a key takes effect at most once more than faults.      *)

\* Every step keeps the account, when begin is atomic per key.
LEMMA NextAccounted ==
  ASSUME "fallback" \notin Stores
  PROVE  TypeOK /\ Exclusive /\ EffectsAccounted /\ [Next]_vars => EffectsAccounted'
<1> SUFFICES ASSUME TypeOK, Exclusive, EffectsAccounted, [Next]_vars
             PROVE  EffectsAccounted'
  OBVIOUS
<1>a. ASSUME NEW c \in Callers, pc[c] \in InFlight
      PROVE  /\ records[KeyOf[c]].status \notin {"absent", "failed"}
             /\ \A d \in Callers : KeyOf[d] = KeyOf[c] /\ d # c => pc[d] \notin InFlight
  BY <1>a DEF Exclusive, SingleExecutor, OwnsRecord, RecordOf
<1>b. ASSUME NEW c \in Callers, MayStart(c, RecordOf(c))
      PROVE  /\ effects[KeyOf[c]] <= faults
             /\ \A d \in Callers : KeyOf[d] = KeyOf[c] => pc[d] \notin InFlight
  BY <1>b, ConstantsAssumption
  DEF Exclusive, OwnsRecord, RecordOf, MayStart, EffectsAccounted
<1> USE ConstantsAssumption
    DEF TypeOK, EffectsAccounted, EffectsBounded, Goto, SetRecord, Effect
<1>c. ASSUME NEW c \in Callers, MayStart(c, RecordOf(c)), Start(c)
      PROVE  EffectsAccounted'
  BY <1>b, <1>c DEF Start, Processing
<1>1. ASSUME NEW c \in Callers, Call(c) PROVE EffectsAccounted'
  BY <1>1 DEF Call
<1>2. ASSUME NEW c \in Callers, Begin(c) PROVE EffectsAccounted'
  <2>1. CASE Refuse(c, RecordOf(c)) \/ Replay(c, RecordOf(c))
    BY <2>1 DEF Refuse, Replay
  <2> QED
    BY <1>2, <2>1, <1>c DEF Begin
<1>3. ASSUME NEW c \in Callers, BeginMissing(c) PROVE EffectsAccounted'
  BY <1>3 DEF BeginMissing
<1>4. ASSUME NEW c \in Callers, Insert(c) PROVE EffectsAccounted'
  <2>1. CASE RecordOf(c).status = "absent"
    BY <1>4, <2>1, <1>c DEF Insert, MayStart
  <2>2. CASE RecordOf(c).status # "absent"
    BY <1>4, <2>2 DEF Insert
  <2> QED
    BY <2>1, <2>2
<1>5. ASSUME NEW c \in Callers, FallbackGet(c) PROVE EffectsAccounted'
  BY <1>5 DEF FallbackGet
<1>6. ASSUME NEW c \in Callers, FallbackDecide(c) PROVE EffectsAccounted'
  BY <1>6 DEF FallbackDecide, Exclusive
<1>7. ASSUME NEW c \in Callers, BeginFails(c) PROVE EffectsAccounted'
  BY <1>7 DEF BeginFails, Fault, Processing
<1>8. ASSUME NEW c \in Callers, Execute(c) PROVE EffectsAccounted'
  BY <1>8, <1>a DEF Execute, InFlight
<1>9. ASSUME NEW c \in Callers, ExecuteThrows(c) PROVE EffectsAccounted'
  <2>1. CASE UNCHANGED effects
    BY <1>9, <2>1 DEF ExecuteThrows, Fault
  <2>2. CASE Effect(c)
    BY <1>9, <2>2, <1>a DEF ExecuteThrows, Fault, InFlight
  <2> QED
    BY <1>9, <2>1, <2>2 DEF ExecuteThrows
<1>10. ASSUME NEW c \in Callers, SetCompleted(c) PROVE EffectsAccounted'
  BY <1>10 DEF SetCompleted, Completed
<1>11. ASSUME NEW c \in Callers, SetCompletedFails(c) PROVE EffectsAccounted'
  BY <1>11 DEF SetCompletedFails, Completed, Fault
<1>12. ASSUME NEW c \in Callers, SetFailed(c) PROVE EffectsAccounted'
  BY <1>12 DEF SetFailed, Failed
<1>13. ASSUME NEW c \in Callers, SetFailedFails(c) PROVE EffectsAccounted'
  BY <1>13 DEF SetFailedFails, Failed, Fault
<1>14. ASSUME NEW c \in Callers, Crash(c) PROVE EffectsAccounted'
  BY <1>14 DEF Crash, Fault
<1>15. ASSUME NEW c \in Callers, ProcessSync(c) PROVE EffectsAccounted'
  <2>1. CASE Refuse(c, RecordOf(c)) \/ Replay(c, RecordOf(c))
    BY <2>1 DEF Refuse, Replay
  <2>2. CASE /\ MayStart(c, RecordOf(c)) /\ Effect(c) /\ Goto(c, "answered")
             /\ SetRecord(c, Completed(HashOf[c], NewResponse(c)))
             /\ UNCHANGED faults
    BY <2>2, <1>b DEF Completed, InFlight
  <2>3. CASE /\ MayStart(c, RecordOf(c)) /\ Goto(c, "error")
             /\ SetRecord(c, Failed(HashOf[c]))
             /\ faults' = faults + 1
             /\ UNCHANGED effects \/ Effect(c)
    <3>1. CASE UNCHANGED effects
      BY <2>3, <3>1, <1>b DEF Failed
    <3>2. CASE Effect(c)
      BY <2>3, <3>2, <1>b DEF Failed, InFlight
    <3> QED
      BY <2>3, <3>1, <3>2
  <2> QED
    BY <1>15, <2>1, <2>2, <2>3 DEF ProcessSync, Fault
<1>16. CASE UNCHANGED vars
  BY <1>16 DEF vars
<1> QED
  BY <1>1, <1>2, <1>3, <1>4, <1>5, <1>6, <1>7, <1>8, <1>9, <1>10, <1>11,
     <1>12, <1>13, <1>14, <1>15, <1>16 DEF Next, Progress

\* Retries and races never repeat an operation: each time it takes effect
\* again, something had failed or crashed.
THEOREM EffectsAreBounded ==
  ASSUME "fallback" \notin Stores
  PROVE  Spec => []EffectsBounded
<1>1. Init => Exclusive /\ EffectsAccounted
  BY ConstantsAssumption
  DEF Init, Exclusive, SingleExecutor, InFlight, EffectsAccounted, EffectsBounded
<1>2. EffectsAccounted => EffectsBounded
  BY DEF EffectsAccounted
<1> QED
  BY <1>1, <1>2, NextExclusive, NextAccounted, TypeCorrect, PTL DEF Spec

-----------------------------------------------------------------------------
(* One response per key, when a rejected write is never applied.           *)

\* The record of an execution in flight is processing for its payload.
LEMMA InFlightProcessing ==
  ASSUME TypeOK, Exclusive, "ambiguous" \notin FaultKinds,
         NEW c \in Callers, pc[c] \in InFlight
  PROVE  /\ records[KeyOf[c]].status = "processing"
         /\ records[KeyOf[c]].hash = HashOf[c]
         /\ records[KeyOf[c]].response = None
  BY ConstantsAssumption DEF TypeOK, Exclusive, OwnsRecord, RecordOf, Records

\* A key whose record holds no response has answered nobody.
LEMMA NobodyAnswered ==
  ASSUME TypeOK, Persisted, NEW k \in Keys, records[k].response = None
  PROVE  \A r \in replies : KeyOf[r.to] # k
  BY ConstantsAssumption DEF TypeOK, Persisted

\* Every step keeps the answers persisted in the keys' records.
LEMMA NextPersisted ==
  ASSUME "fallback" \notin Stores, "ambiguous" \notin FaultKinds
  PROVE  TypeOK /\ Exclusive /\ Persisted /\ [Next]_vars => Persisted'
<1> SUFFICES ASSUME TypeOK, Exclusive, Persisted, [Next]_vars
             PROVE  Persisted'
  OBVIOUS
<1>a. ASSUME NEW c \in Callers, MayStart(c, RecordOf(c))
      PROVE  \A r \in replies : KeyOf[r.to] # KeyOf[c]
  BY <1>a, NobodyAnswered, ConstantsAssumption DEF MayStart, RecordOf, TypeOK, Records
<1>b. ASSUME NEW c \in Callers, pc[c] \in InFlight
      PROVE  \A r \in replies : KeyOf[r.to] # KeyOf[c]
  BY <1>b, NobodyAnswered, InFlightProcessing, ConstantsAssumption
<1> USE ConstantsAssumption
    DEF TypeOK, Persisted, Goto, SetRecord, RecordOf, InFlight
<1>1. ASSUME NEW c \in Callers, Call(c) PROVE Persisted'
  BY <1>1 DEF Call
<1>2. ASSUME NEW c \in Callers, Begin(c) PROVE Persisted'
  BY <1>2, <1>a DEF Begin, Start, Refuse, Replay, MayReplay, Deliver
<1>3. ASSUME NEW c \in Callers, BeginMissing(c) PROVE Persisted'
  BY <1>3 DEF BeginMissing
<1>4. ASSUME NEW c \in Callers, Insert(c) PROVE Persisted'
  BY <1>4, <1>a DEF Insert, Start, MayStart
<1>5. ASSUME NEW c \in Callers, FallbackGet(c) PROVE Persisted'
  BY <1>5 DEF FallbackGet
<1>6. ASSUME NEW c \in Callers, FallbackDecide(c) PROVE Persisted'
  BY <1>6 DEF FallbackDecide, Exclusive
<1>7. ASSUME NEW c \in Callers, BeginFails(c) PROVE Persisted'
  BY <1>7 DEF BeginFails
<1>8. ASSUME NEW c \in Callers, Execute(c) PROVE Persisted'
  BY <1>8 DEF Execute
<1>9. ASSUME NEW c \in Callers, ExecuteThrows(c) PROVE Persisted'
  BY <1>9 DEF ExecuteThrows
<1>10. ASSUME NEW c \in Callers, SetCompleted(c) PROVE Persisted'
  BY <1>10, <1>b DEF SetCompleted, Completed, Deliver
<1>11. ASSUME NEW c \in Callers, SetCompletedFails(c) PROVE Persisted'
  BY <1>11 DEF SetCompletedFails
<1>12. ASSUME NEW c \in Callers, SetFailed(c) PROVE Persisted'
  BY <1>12, <1>b DEF SetFailed
<1>13. ASSUME NEW c \in Callers, SetFailedFails(c) PROVE Persisted'
  BY <1>13 DEF SetFailedFails
<1>14. ASSUME NEW c \in Callers, Crash(c) PROVE Persisted'
  BY <1>14 DEF Crash
<1>15. ASSUME NEW c \in Callers, ProcessSync(c) PROVE Persisted'
  <2>1. CASE Refuse(c, RecordOf(c)) \/ Replay(c, RecordOf(c))
    BY <2>1 DEF Refuse, Replay, MayReplay, Deliver
  <2>2. CASE /\ MayStart(c, RecordOf(c))
             /\ SetRecord(c, Completed(HashOf[c], NewResponse(c)))
             /\ Deliver(c, NewResponse(c))
    BY <2>2, <1>a DEF Completed, Deliver
  <2>3. CASE /\ MayStart(c, RecordOf(c))
             /\ SetRecord(c, Failed(HashOf[c]))
             /\ UNCHANGED replies
    BY <2>3, <1>a
  <2> QED
    BY <1>15, <2>1, <2>2, <2>3 DEF ProcessSync
<1>16. CASE UNCHANGED vars
  BY <1>16 DEF vars
<1> QED
  BY <1>1, <1>2, <1>3, <1>4, <1>5, <1>6, <1>7, <1>8, <1>9, <1>10, <1>11,
     <1>12, <1>13, <1>14, <1>15, <1>16 DEF Next, Progress

\* The invariants hold together from the start.
LEMMA InitInvariants == Init => Exclusive /\ Persisted
  BY DEF Init, Exclusive, SingleExecutor, InFlight, Persisted

\* All clients answered for a key got one response, as long as the store
\* never applies a write it reports as failed.
THEOREM OneResponsePerKey ==
  ASSUME "fallback" \notin Stores, "ambiguous" \notin FaultKinds
  PROVE  Spec => []RepliesAgree
<1>1. Persisted => RepliesAgree
  BY DEF Persisted, RepliesAgree
<1> QED
  BY <1>1, InitInvariants, NextExclusive, NextPersisted, TypeCorrect, PTL DEF Spec

\* Once a client of a key was answered, no step takes the operation's effect
\* again.
THEOREM NoEffectAfterAnswer ==
  ASSUME "fallback" \notin Stores, "ambiguous" \notin FaultKinds
  PROVE  Spec => EffectsFinal
<1>1. TypeOK /\ Exclusive /\ Persisted /\ [Next]_vars
        => [\A r \in replies : effects'[KeyOf[r.to]] = effects[KeyOf[r.to]]]_vars
  <2> SUFFICES ASSUME TypeOK, Exclusive, Persisted, Next, NEW r \in replies
               PROVE  effects'[KeyOf[r.to]] = effects[KeyOf[r.to]]
    OBVIOUS
  <2> PICK c \in Callers :
         \/ Call(c) \/ Progress(c) \/ ProcessSync(c)
         \/ BeginFails(c) \/ ExecuteThrows(c) \/ SetCompletedFails(c)
         \/ SetFailedFails(c) \/ Crash(c)
    BY DEF Next
  <2>1. CASE UNCHANGED effects
    BY <2>1
  <2>2. CASE Effect(c) /\ (pc[c] \in InFlight \/ MayStart(c, RecordOf(c)))
    <3>1. records[KeyOf[c]].response = None
      BY <2>2, InFlightProcessing, ConstantsAssumption
      DEF MayStart, RecordOf, TypeOK, Records
    <3>2. KeyOf[r.to] # KeyOf[c]
      BY <3>1, NobodyAnswered, ConstantsAssumption
    <3> QED
      BY <2>2, <3>2 DEF Effect, TypeOK
  <2> QED
    BY <2>1, <2>2
    DEF Call, Progress, ProcessSync, BeginFails, ExecuteThrows, SetCompletedFails,
        SetFailedFails, Crash, Begin, BeginMissing, Insert, FallbackGet, FallbackDecide,
        Execute, SetCompleted, SetFailed, Start, Refuse, Replay, InFlight
<1> QED
  BY <1>1, InitInvariants, NextExclusive, NextPersisted, TypeCorrect, PTL
  DEF Spec, EffectsFinal

-----------------------------------------------------------------------------
(* The executor implements OncePerKey.                                     *)

\* Every step of the executor is a binding, an answer, or nothing to the
\* clients' view of a key.
LEMMA StepKeepsPromise ==
  ASSUME "fallback" \notin Stores, "ambiguous" \notin FaultKinds
  PROVE  TypeOK /\ Exclusive /\ [Next]_vars => [Promise!Next]_(Promise!vars)
<1> SUFFICES ASSUME TypeOK, Exclusive, [Next]_vars
             PROVE  [Promise!Next]_(Promise!vars)
  OBVIOUS
<1> DEFINE hashes == [k \in Keys |-> records[k].hash]
           values == [k \in Keys |-> records[k].response]
           Kept == hashes' = hashes /\ values' = values /\ UNCHANGED replies
<1>k. Kept => UNCHANGED Promise!vars
  BY DEF Promise!vars
\* Starting a key binds it, or retries what failed with the same payload.
<1>s. ASSUME NEW c \in Callers, NEW r, MayStart(c, RecordOf(c)),
             r.hash = HashOf[c], r.response = None,
             SetRecord(c, r), UNCHANGED replies
      PROVE  [Promise!Next]_(Promise!vars)
  <2>1. values' = values
    BY <1>s, ConstantsAssumption DEF SetRecord, MayStart, RecordOf, TypeOK, Records
  <2>2. CASE RecordOf(c).status = "absent"
    <3>1. hashes[KeyOf[c]] = None
      BY <2>2, ConstantsAssumption DEF RecordOf, TypeOK, Records
    <3>2. hashes' = [hashes EXCEPT ![KeyOf[c]] = HashOf[c]]
      BY <1>s, ConstantsAssumption DEF SetRecord, TypeOK
    <3>3. Promise!Bind(KeyOf[c], HashOf[c])
      BY <1>s, <2>1, <3>1, <3>2 DEF Promise!Bind
    <3> QED
      BY <3>3, ConstantsAssumption DEF Promise!Next
  <2>3. CASE RecordOf(c).status # "absent"
    <3>1. hashes' = hashes
      BY <1>s, <2>3, ConstantsAssumption DEF SetRecord, MayStart, RecordOf, TypeOK
    <3> QED
      BY <1>s, <1>k, <2>1, <3>1
  <2> QED
    BY <2>2, <2>3
\* Completing a key that yields nothing yet answers the one who completes it.
<1>c. ASSUME NEW c \in Callers, NEW v \in Responses,
             records[KeyOf[c]].hash \in {None, HashOf[c]},
             records[KeyOf[c]].response \in {None, v},
             \/ SetRecord(c, Completed(HashOf[c], v))
             \/ /\ UNCHANGED records
                /\ records[KeyOf[c]].hash = HashOf[c]
                /\ records[KeyOf[c]].response = v,
             Deliver(c, v)
      PROVE  [Promise!Next]_(Promise!vars)
  <2> DEFINE answer == [to |-> c, response |-> v]
  <2>1. /\ hashes' = [hashes EXCEPT ![KeyOf[c]] = HashOf[c]]
        /\ values' = [values EXCEPT ![KeyOf[c]] = v]
    <3> /\ KeyOf[c] \in Keys
        /\ records \in [Keys -> Records]
      BY ConstantsAssumption DEF TypeOK
    <3>1. CASE SetRecord(c, Completed(HashOf[c], v))
      BY <3>1 DEF SetRecord, Completed
    <3>2. CASE /\ UNCHANGED records
               /\ records[KeyOf[c]].hash = HashOf[c]
               /\ records[KeyOf[c]].response = v
      BY <3>2
    <3> QED
      BY <1>c, <3>1, <3>2
  <2>2. replies' = replies \cup {answer}
    BY <1>c DEF Deliver
  <2>3. /\ answer.to = c
        /\ answer.response = v
        /\ hashes[KeyOf[c]] \in {None, HashOf[c]}
        /\ values[KeyOf[c]] \in {None, v}
    BY <1>c, ConstantsAssumption
  <2> HIDE DEF answer, hashes, values
  <2>4. Promise!Answer(answer)
    BY <2>1, <2>2, <2>3 DEF Promise!Answer, hashes, values
  <2> QED
    BY <2>2, <2>4 DEF Promise!Next
<1>r. ASSUME NEW c \in Callers, Replay(c, RecordOf(c))
      PROVE  [Promise!Next]_(Promise!vars)
  <2>1. RecordOf(c).response \in Responses
    BY <1>r, ConstantsAssumption DEF Replay, MayReplay, RecordOf, TypeOK, Records
  <2> QED
    BY <1>r, <1>c, <2>1 DEF Replay, MayReplay, RecordOf
<1>u. ASSUME UNCHANGED <<records, replies>>
      PROVE  [Promise!Next]_(Promise!vars)
  BY <1>u, <1>k
<1>f. ASSUME NEW c \in Callers, SetFailed(c)
      PROVE  [Promise!Next]_(Promise!vars)
  <2>1. hashes' = hashes /\ values' = values
    BY <1>f, InFlightProcessing, ConstantsAssumption
    DEF SetFailed, SetRecord, Failed, InFlight, TypeOK
  <2> QED
    BY <1>f, <1>k, <2>1 DEF SetFailed
<1> HIDE DEF hashes, values, Kept
<1>1. ASSUME NEW c \in Callers, Begin(c) \/ Insert(c)
      PROVE  [Promise!Next]_(Promise!vars)
  BY <1>1, <1>s, <1>r, <1>u DEF Begin, Insert, Start, Refuse, Processing, MayStart
<1>2. ASSUME NEW c \in Callers, FallbackGet(c) \/ FallbackDecide(c)
      PROVE  FALSE
  BY <1>2 DEF FallbackGet, FallbackDecide, Exclusive, TypeOK
<1>3. ASSUME NEW c \in Callers, SetCompleted(c)
      PROVE  [Promise!Next]_(Promise!vars)
  <2>1. resp[c] \in Responses /\ pc[c] \in InFlight
    BY <1>3 DEF SetCompleted, TypeOK, InFlight
  <2> QED
    BY <1>3, <2>1, <1>c, InFlightProcessing DEF SetCompleted
<1>4. ASSUME NEW c \in Callers, ProcessSync(c)
      PROVE  [Promise!Next]_(Promise!vars)
  <2>1. CASE /\ MayStart(c, RecordOf(c))
             /\ SetRecord(c, Completed(HashOf[c], NewResponse(c)))
             /\ Deliver(c, NewResponse(c))
    <3>1. /\ records[KeyOf[c]].hash \in {None, HashOf[c]}
          /\ records[KeyOf[c]].response = None
      BY <2>1, ConstantsAssumption DEF MayStart, RecordOf, TypeOK, Records
    <3>2. NewResponse(c) \in Responses
      BY EffectTyped DEF TypeOK
    <3> QED
      BY <2>1, <3>1, <3>2, <1>c
  <2>2. CASE /\ MayStart(c, RecordOf(c))
             /\ SetRecord(c, Failed(HashOf[c]))
             /\ UNCHANGED replies
    BY <2>2, <1>s DEF Failed
  <2>3. CASE Refuse(c, RecordOf(c))
    BY <2>3, <1>u DEF Refuse
  <2> QED
    BY <1>4, <1>r, <2>1, <2>2, <2>3 DEF ProcessSync
<1>5. ASSUME NEW c \in Callers,
             \/ Call(c) \/ BeginMissing(c) \/ Execute(c) \/ BeginFails(c)
             \/ ExecuteThrows(c) \/ SetCompletedFails(c) \/ SetFailedFails(c) \/ Crash(c)
      PROVE  UNCHANGED <<records, replies>>
  BY <1>5
  DEF Call, BeginMissing, Execute, BeginFails, ExecuteThrows, SetCompletedFails,
      SetFailedFails, Crash
<1>6. CASE UNCHANGED vars
  BY <1>6, <1>u DEF vars
<1> QED
  BY <1>1, <1>2, <1>3, <1>4, <1>5, <1>6, <1>f, <1>u DEF Next, Progress

\* The executor, on any store with an atomic begin that never applies a write
\* it rejects, keeps the promise of OncePerKey to its clients.
THEOREM ExecutorKeepsPromise ==
  ASSUME "fallback" \notin Stores, "ambiguous" \notin FaultKinds
  PROVE  Spec => KeepsPromise
<1>1. Init => Promise!Init
  BY DEF Init, Promise!Init, Absent
<1> QED
  BY <1>1, InitInvariants, NextExclusive, StepKeepsPromise, TypeCorrect, PTL
  DEF Spec, KeepsPromise, Promise!Spec

-----------------------------------------------------------------------------
(* An execution that is cut short. *)

\* No step touches such a key: only a call that finds the key free, or that
\* executes it, writes its record, repeats its effect or answers for it.
LEMMA StuckStep ==
  ASSUME TypeOK, Exclusive, NEW k \in Keys, Stuck(k), [Next]_vars
  PROVE  /\ Stuck(k)'
         /\ effects'[k] = effects[k]
         /\ \A r \in replies' : KeyOf[r.to] = k => r \in replies
<1> DEFINE Untouched == /\ Stuck(k)'
                        /\ effects'[k] = effects[k]
                        /\ \A r \in replies' : KeyOf[r.to] = k => r \in replies
<1> SUFFICES Untouched
  OBVIOUS
<1> USE ConstantsAssumption
<1>t. /\ records \in [Keys -> Records]
      /\ pc \in [Callers -> Steps]
      /\ effects \in [Keys -> Nat]
  BY DEF TypeOK
<1>u. CASE UNCHANGED vars
  BY <1>u DEF vars, Stuck
<1>o. ASSUME NEW c \in Callers, KeyOf[c] # k,
             \A d \in Callers : d # c => pc'[d] = pc[d],
             records'[k] = records[k], effects'[k] = effects[k],
             \A r \in replies' : r \in replies \/ r.to = c
      PROVE  Untouched
  BY <1>o DEF Stuck
<1>s. ASSUME NEW c \in Callers, KeyOf[c] = k, UNCHANGED <<records, effects, replies>>,
             pc'[c] \notin InFlight, \A d \in Callers : d # c => pc'[d] = pc[d]
      PROVE  Untouched
  BY <1>s DEF Stuck
<1>1. ASSUME NEW c \in Callers, Call(c) \/ Progress(c) \/ ProcessSync(c) \/ BeginFails(c)
                                \/ ExecuteThrows(c) \/ SetCompletedFails(c)
                                \/ SetFailedFails(c) \/ Crash(c)
      PROVE  Untouched
  <2>1. \A d \in Callers : d # c => pc'[d] = pc[d]
    BY <1>t, <1>1 DEF Progress, Call, Begin, BeginMissing, Insert, FallbackGet,
       FallbackDecide, Execute, SetCompleted, SetFailed, ProcessSync, BeginFails,
       ExecuteThrows, SetCompletedFails, SetFailedFails, Crash, Goto, Start, Refuse,
       Replay
  <2>2. CASE KeyOf[c] # k
    <3>1. records'[k] = records[k]
      BY <1>t, <1>1, <2>2 DEF Progress, Call, Begin, BeginMissing, Insert,
         FallbackGet, FallbackDecide, Execute, SetCompleted, SetFailed, ProcessSync,
         BeginFails, ExecuteThrows, SetCompletedFails, SetFailedFails, Crash, SetRecord,
         Start, Refuse, Replay
    <3>2. effects'[k] = effects[k]
      BY <1>t, <1>1, <2>2 DEF Progress, Call, Begin, BeginMissing, Insert,
         FallbackGet, FallbackDecide, Execute, SetCompleted, SetFailed, ProcessSync,
         BeginFails, ExecuteThrows, SetCompletedFails, SetFailedFails, Crash, Effect,
         Start, Refuse, Replay
    <3>3. \A r \in replies' : r \in replies \/ r.to = c
      BY <1>1 DEF Progress, Call, Begin, BeginMissing, Insert, FallbackGet,
         FallbackDecide, Execute, SetCompleted, SetFailed, ProcessSync, BeginFails,
         ExecuteThrows, SetCompletedFails, SetFailedFails, Crash, Deliver, Start,
         Refuse, Replay
    <3> QED
      BY <1>o, <2>1, <2>2, <3>1, <3>2, <3>3
  <2>3. CASE KeyOf[c] = k
    <3>1. RecordOf(c).status = "processing" /\ pc[c] \notin InFlight \cup {"fetched"}
      BY <2>3 DEF Stuck, RecordOf, Exclusive
    <3>2. /\ ~ MayStart(c, RecordOf(c)) /\ ~ MayReplay(c, RecordOf(c))
          /\ RecordOf(c).status # "absent"
      BY <3>1 DEF MayStart, MayReplay
    <3>3. UNCHANGED <<records, effects, replies>>
      BY <1>1, <3>1, <3>2 DEF Progress, Call, Begin, BeginMissing, Insert, FallbackGet,
         FallbackDecide, Execute, SetCompleted, SetFailed, ProcessSync, BeginFails, Writes,
         ExecuteThrows, SetCompletedFails, SetFailedFails, Crash, Refuse, Replay, InFlight
    <3>4. pc'[c] \notin InFlight
      BY <1>t, <1>1, <3>1, <3>2 DEF Progress, Call, Begin, BeginMissing, Insert,
         FallbackGet, FallbackDecide, Execute, SetCompleted, SetFailed, ProcessSync,
         BeginFails, ExecuteThrows, SetCompletedFails, SetFailedFails, Crash, Goto,
         Refuse, Replay, InFlight
    <3> QED
      BY <1>s, <2>1, <2>3, <3>3, <3>4
  <2> QED
    BY <2>2, <2>3
<1> QED
  BY <1>u, <1>1 DEF Next

\* A record in processing is that of an execution in flight, or was left so.
Accounted(k) ==
  records[k].status = "processing" =>
    k \in cut \/ \E c \in Callers : KeyOf[c] = k /\ pc[c] \in InFlight

\* A caller that writes a processing record executes its key from then on, or
\* has left it so; one that stops executing it writes another, or leaves it so.
LEMMA AccountedStep ==
  ASSUME TypeOK, \A k \in Keys : Accounted(k), [Next]_vars
  PROVE  \A k \in Keys : Accounted(k)'
<1> USE ConstantsAssumption
<1>t. records \in [Keys -> Records] /\ pc \in [Callers -> Steps] /\ cut \subseteq Keys
  BY DEF TypeOK
<1>u. CASE UNCHANGED vars
  BY <1>u DEF vars, Accounted
\* What a step of c may do: nothing to the records while nobody leaves flight,
\* or something to its own key, of which it then gives account.
<1>o. ASSUME NEW c \in Callers, \A d \in Callers : d # c => pc'[d] = pc[d],
             cut \subseteq cut',
             \A k \in Keys : k # KeyOf[c] => records'[k] = records[k],
             \/ records'[KeyOf[c]].status # "processing"
             \/ KeyOf[c] \in cut'
             \/ pc'[c] \in InFlight
             \/ UNCHANGED records /\ pc[c] \notin InFlight
      PROVE  \A k \in Keys : Accounted(k)'
  <2> SUFFICES ASSUME NEW k \in Keys PROVE Accounted(k)'
    OBVIOUS
  <2>1. Accounted(k)
    OBVIOUS
  <2>2. CASE k # KeyOf[c]
    BY <1>o, <2>1, <2>2 DEF Accounted
  <2>3. CASE k = KeyOf[c]
    BY <1>o, <2>1, <2>3 DEF Accounted
  <2> QED
    BY <2>2, <2>3
<1>1. ASSUME NEW c \in Callers, Call(c) \/ Progress(c) \/ ProcessSync(c) \/ BeginFails(c)
                                \/ ExecuteThrows(c) \/ SetCompletedFails(c)
                                \/ SetFailedFails(c) \/ Crash(c)
      PROVE  \A k \in Keys : Accounted(k)'
  <2>1. \A d \in Callers : d # c => pc'[d] = pc[d]
    BY <1>t, <1>1 DEF Progress, Call, Begin, BeginMissing, Insert, FallbackGet,
       FallbackDecide, Execute, SetCompleted, SetFailed, ProcessSync, BeginFails,
       ExecuteThrows, SetCompletedFails, SetFailedFails, Crash, Goto, Start, Refuse,
       Replay
  <2>2. cut \subseteq cut'
    BY <1>1 DEF Progress, Call, Begin, BeginMissing, Insert, FallbackGet,
       FallbackDecide, Execute, SetCompleted, SetFailed, ProcessSync, BeginFails,
       ExecuteThrows, SetCompletedFails, SetFailedFails, Crash, Start, Refuse,
       Replay, LeftInProcessing
  <2>3. \A k \in Keys : k # KeyOf[c] => records'[k] = records[k]
    BY <1>t, <1>1 DEF Progress, Call, Begin, BeginMissing, Insert,
       FallbackGet, FallbackDecide, Execute, SetCompleted, SetFailed, ProcessSync,
       BeginFails, ExecuteThrows, SetCompletedFails, SetFailedFails, Crash, SetRecord,
       Start, Refuse, Replay
  <2>4. \/ records'[KeyOf[c]].status # "processing"
        \/ KeyOf[c] \in cut'
        \/ pc'[c] \in InFlight
        \/ UNCHANGED records /\ pc[c] \notin InFlight
    <3> USE <1>t DEF Goto, InFlight
    <3>1. CASE Call(c) \/ BeginMissing(c) \/ FallbackGet(c)
      BY <3>1 DEF Call, BeginMissing, FallbackGet, Resting
    <3>2. CASE Begin(c) \/ Insert(c) \/ FallbackDecide(c)
      BY <3>2 DEF Begin, Insert, FallbackDecide, Start, Refuse, Replay
    <3>3. CASE Execute(c) \/ ExecuteThrows(c) \/ SetCompletedFails(c)
      BY <3>3 DEF Execute, ExecuteThrows, SetCompletedFails
    <3>4. CASE SetCompleted(c) \/ SetFailed(c)
      BY <3>4 DEF SetCompleted, SetFailed, SetRecord, Completed, Failed
    <3>5. CASE ProcessSync(c)
      BY <3>5 DEF ProcessSync, SetRecord, Completed, Failed, Refuse, Replay
    <3>6. CASE BeginFails(c)
      BY <3>6 DEF BeginFails, LeftInProcessing, RecordOf
    <3>7. CASE SetFailedFails(c) \/ Crash(c)
      BY <3>7 DEF SetFailedFails, Crash, LeftInProcessing, RecordOf
    <3> QED
      BY <1>1, <3>1, <3>2, <3>3, <3>4, <3>5, <3>6, <3>7 DEF Progress
  <2> QED
    BY <1>o, <2>1, <2>2, <2>3, <2>4
<1> QED
  BY <1>u, <1>1 DEF Next

\* On every store a key is stuck only if a fault left it in processing: a
\* process that died in an execution, a begin applied and reported as failed,
\* or a failure that could not be stored.  No race or retry does it alone, so
\* ProcessingEnds and RetriesAnswered except nothing else.
THEOREM StuckOnlyByFault == Spec => [](\A k \in Keys : Stuck(k) => k \in cut)
<1> DEFINE Account == \A k \in Keys : Accounted(k)
<1>1. Init => Account
  BY DEF Init, Accounted, Absent
<1>2. TypeOK /\ Account /\ [Next]_vars => Account'
  BY AccountedStep
<1>3. Account => \A k \in Keys : Stuck(k) => k \in cut
  BY DEF Accounted, Stuck
<1> HIDE DEF Account
<1> QED
  BY <1>1, <1>2, <1>3, TypeCorrect, PTL DEF Spec

\* On any store with an atomic begin a key whose execution was cut short stays
\* in processing for ever, and its operation neither runs again nor is any
\* client that retries answered: no record expires, so ProcessingEnds and
\* RetriesAnswered cannot do without their exception.
THEOREM StuckForever ==
  ASSUME "fallback" \notin Stores, NEW k \in Keys
  PROVE  Spec => [](Stuck(k) =>
           /\ []Stuck(k)
           /\ [][/\ effects'[k] = effects[k]
                 /\ \A r \in replies' : KeyOf[r.to] = k => r \in replies]_vars)
<1> DEFINE Untouched == /\ effects'[k] = effects[k]
                        /\ \A r \in replies' : KeyOf[r.to] = k => r \in replies
<1>1. TypeOK /\ Exclusive /\ Stuck(k) /\ [Next]_vars => Stuck(k)' /\ [Untouched]_vars
  BY StuckStep
<1>2. Init => Exclusive
  BY DEF Init, Exclusive, SingleExecutor, InFlight
<1> QED
  BY <1>1, <1>2, NextExclusive, TypeCorrect, PTL DEF Spec
=============================================================================
