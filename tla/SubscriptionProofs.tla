------------------------- MODULE SubscriptionProofs -------------------------
(* Proofs about Subscriptions, for any clients, commands, stamps and       *)
(* faults.                                                                 *)
EXTENDS Subscriptions, TLAPS

\* What a command makes of a subscription it is allowed on is a subscription.
LEMMA ApplyYieldsRow ==
  ASSUME NEW m \in Commands, NEW s \in Rows \cup {None}, MayApply(m, s)
  PROVE  Apply(m, s) \in Rows
<1>1. m \in CommandType
  BY ConstantsAssumption
<1>2. CASE m.kind = "create"
  BY <1>1, <1>2 DEF Apply, createSubscriptionAggregate, CommandType, Rows,
     Lifecycle!Rows, Lifecycle!Statuses
<1>3. CASE m.kind \in {"upgrade", "downgrade"}
  BY <1>1, <1>3 DEF MayApply, Apply, applyUpgrade, CommandType, Rows,
     Lifecycle!Rows, Lifecycle!Statuses
<1>4. CASE m.kind = "cancel_now"
  BY <1>1, <1>4 DEF MayApply, Apply, applyCancelNow, CommandType, Rows,
     Lifecycle!Rows, Lifecycle!Statuses
<1>5. CASE m.kind = "cancel_at_period_end"
  BY <1>1, <1>5 DEF MayApply, Apply, applyCancelAtPeriodEnd, CommandType, Rows,
     Lifecycle!Rows, Lifecycle!Statuses
<1> QED
  BY <1>1, <1>2, <1>3, <1>4, <1>5 DEF CommandType, Kinds

\* And the change is a step of the lifecycle.
LEMMA ApplyFollowsLifecycle ==
  ASSUME NEW m \in Commands, row \in Rows \cup {None}, MayApply(m, row),
         row' = Apply(m, row)
  PROVE  Lifecycle!Next
<1>1. m \in CommandType /\ row' \in Rows
  BY ConstantsAssumption, ApplyYieldsRow
<1>2. CASE m.kind = "create"
  BY <1>1, <1>2 DEF MayApply, Apply, createSubscriptionAggregate, Lifecycle!Next,
     Lifecycle!Create, Rows
<1>3. CASE m.kind \in {"upgrade", "downgrade"}
  <2>1. Lifecycle!ChangePlan
    BY <1>1, <1>3 DEF MayApply, MayChangePlan, Apply, applyUpgrade, CommandType,
       Lifecycle!ChangePlan, Lifecycle!Alive
  <2> QED
    BY <2>1 DEF Lifecycle!Next
<1>4. CASE m.kind = "cancel_now"
  <2>1. row \in Rows /\ row.status # "canceled"
    BY <1>4, NoneAssumption DEF MayApply, MayCancelNow, Allowed
  <2>2. row' = [row EXCEPT !.status = "canceled", !.atPeriodEnd = FALSE, !.to = m.at]
    BY <1>4 DEF Apply, applyCancelNow
  <2>3. Lifecycle!Cancel
    BY <1>1, <2>1, <2>2, NoneAssumption DEF Lifecycle!Cancel, Lifecycle!Alive, Rows,
       Lifecycle!Rows
  <2> QED
    BY <2>3 DEF Lifecycle!Next
<1>5. CASE m.kind = "cancel_at_period_end"
  <2>1. Lifecycle!Schedule
    BY <1>1, <1>5 DEF MayApply, MayCancelAtPeriodEnd, Apply, applyCancelAtPeriodEnd,
       Lifecycle!Schedule, Lifecycle!Alive
  <2> QED
    BY <2>1 DEF Lifecycle!Next
<1> QED
  BY <1>1, <1>2, <1>3, <1>4, <1>5 DEF CommandType, Kinds

-----------------------------------------------------------------------------
(* Types. *)

USE NoneAssumption

\* The types hold initially.
LEMMA InitTypes == Init => TypeOK
BY DEF Init, TypeOK, Records, Absent, Steps, Resting, Scopes

\* Where a request goes next, and what becomes of its record, is well typed.
LEMMA StepTypes ==
  ASSUME TypeOK, NEW c \in Clients, pc[c] \notin Resting
  PROVE  /\ req[c] \in Requests
         /\ Command(c) \in Commands
         /\ ScopeOf(c) \in Scopes
         /\ \A st \in {"processing", "completed", "failed"} :
              SetRecord(c, st) => records' \in [Scopes -> Records]
<1>1. req[c] \in Requests
  BY ConstantsAssumption DEF TypeOK
<1>2. Command(c) \in CommandType
  BY <1>1, ConstantsAssumption DEF Command, Requests
<1>3. ScopeOf(c) \in Scopes
  BY <1>2 DEF ScopeOf, Scopes, CommandType
<1> QED
  BY <1>1, <1>2, <1>3 DEF TypeOK, SetRecord, Records, Command, Requests

\* A step preserves the types.
LEMMA NextTypes == TypeOK /\ [Next]_vars => TypeOK'
<1> SUFFICES ASSUME TypeOK, [Next]_vars PROVE TypeOK'
  OBVIOUS
<1> USE ConstantsAssumption
<1>u. CASE UNCHANGED vars
  BY <1>u DEF vars, TypeOK
<1>1. CASE \E c \in Clients : Send(c)
  BY <1>1 DEF TypeOK, Goto, Nothing, Fault, End, Forget, Steps, Resting, InFlight, Send
<1>2. CASE \E c \in Clients : Begin(c)
  <2> PICK c \in Clients : Begin(c)
    BY <1>2
  <2>1. req[c] \in Requests /\ \A st \in {"processing", "completed", "failed"} :
         SetRecord(c, st) => records' \in [Scopes -> Records]
    BY StepTypes DEF Begin, Resting
  <2> QED
    BY <2>1 DEF TypeOK, Goto, Nothing, Fault, End, Forget, Steps, Resting, InFlight, Begin
<1>3. CASE \E c \in Clients : Refuse(c)
  <2> PICK c \in Clients : Refuse(c)
    BY <1>3
  <2>1. req[c] \in Requests /\ \A st \in {"processing", "completed", "failed"} :
         SetRecord(c, st) => records' \in [Scopes -> Records]
    BY StepTypes DEF Refuse, Resting
  <2> QED
    BY <2>1 DEF TypeOK, Goto, Nothing, Fault, End, Forget, Steps, Resting, InFlight, Refuse
<1>4. CASE \E c \in Clients : Replay(c)
  <2> PICK c \in Clients : Replay(c)
    BY <1>4
  <2>1. req[c] \in Requests /\ \A st \in {"processing", "completed", "failed"} :
         SetRecord(c, st) => records' \in [Scopes -> Records]
    BY StepTypes DEF Replay, Resting
  <2> QED
    BY <2>1 DEF TypeOK, Goto, Nothing, Fault, End, Forget, Steps, Resting, InFlight, Replay
<1>5. CASE \E c \in Clients : Read(c)
  <2> PICK c \in Clients : Read(c)
    BY <1>5
  <2>1. Command(c) \in Commands /\ req[c] \in Requests
    BY StepTypes DEF Read, Resting
  <2>2. Apply(Command(c), row) \in Rows
    BY <2>1, ApplyYieldsRow DEF Read, TypeOK
  <2> QED
    BY <2>1, <2>2 DEF TypeOK, Goto, Nothing, Fault, End, Forget, Steps, Resting, InFlight, Read
<1>6. CASE \E c \in Clients : Reject(c)
  <2> PICK c \in Clients : Reject(c)
    BY <1>6
  <2>1. req[c] \in Requests /\ \A st \in {"processing", "completed", "failed"} :
         SetRecord(c, st) => records' \in [Scopes -> Records]
    BY StepTypes DEF Reject, Resting
  <2> QED
    BY <2>1 DEF TypeOK, Goto, Nothing, Fault, End, Forget, Steps, Resting, InFlight, Reject
<1>7. CASE \E c \in Clients : Save(c)
  <2> PICK c \in Clients : Save(c)
    BY <1>7
  <2>1. req[c] \in Requests /\ draft[c] \in Rows
    BY StepTypes DEF Save, Resting, TypeOK
  <2> QED
    BY <2>1 DEF TypeOK, Goto, Nothing, Fault, End, Forget, Steps, Resting, InFlight, Save, Store
<1>8. CASE \E c \in Clients : Publish(c)
  <2> PICK c \in Clients : Publish(c)
    BY <1>8
  <2>1. req[c] \in Requests /\ \A st \in {"processing", "completed", "failed"} :
         SetRecord(c, st) => records' \in [Scopes -> Records]
    BY StepTypes DEF Publish, Resting
  <2> QED
    BY <2>1 DEF TypeOK, Goto, Nothing, Fault, End, Forget, Steps, Resting, InFlight, Publish
<1>9. CASE \E c \in Clients : Audit(c)
  <2> PICK c \in Clients : Audit(c)
    BY <1>9
  <2>1. req[c] \in Requests /\ \A st \in {"processing", "completed", "failed"} :
         SetRecord(c, st) => records' \in [Scopes -> Records]
    BY StepTypes DEF Audit, Resting
  <2> QED
    BY <2>1 DEF TypeOK, Goto, Nothing, Fault, End, Forget, Steps, Resting, InFlight, Audit
<1>10. CASE \E c \in Clients : Complete(c)
  <2> PICK c \in Clients : Complete(c)
    BY <1>10
  <2>1. req[c] \in Requests /\ \A st \in {"processing", "completed", "failed"} :
         SetRecord(c, st) => records' \in [Scopes -> Records]
    BY StepTypes DEF Complete, Resting
  <2> QED
    BY <2>1 DEF TypeOK, Goto, Nothing, Fault, End, Forget, Steps, Resting, InFlight, Complete
<1>11. CASE \E c \in Clients : Fail(c)
  <2> PICK c \in Clients : Fail(c)
    BY <1>11
  <2>1. req[c] \in Requests /\ \A st \in {"processing", "completed", "failed"} :
         SetRecord(c, st) => records' \in [Scopes -> Records]
    BY StepTypes DEF Fail, Resting
  <2> QED
    BY <2>1 DEF TypeOK, Goto, Nothing, Fault, End, Forget, Steps, Resting, InFlight, Fail
<1>12. CASE \E c \in Clients : ReadFails(c)
  <2> PICK c \in Clients : ReadFails(c)
    BY <1>12
  <2>1. req[c] \in Requests /\ \A st \in {"processing", "completed", "failed"} :
         SetRecord(c, st) => records' \in [Scopes -> Records]
    BY StepTypes DEF ReadFails, Resting
  <2> QED
    BY <2>1 DEF TypeOK, Goto, Nothing, Fault, End, Forget, Steps, Resting, InFlight, ReadFails
<1>13. CASE \E c \in Clients : SaveFails(c)
  <2> PICK c \in Clients : SaveFails(c)
    BY <1>13
  <2>1. req[c] \in Requests /\ draft[c] \in Rows
    BY StepTypes DEF SaveFails, Resting, TypeOK
  <2> QED
    BY <2>1 DEF TypeOK, Goto, Nothing, Fault, End, Forget, Steps, Resting, InFlight, SaveFails, Store
<1>14. CASE \E c \in Clients : PublishFails(c)
  <2> PICK c \in Clients : PublishFails(c)
    BY <1>14
  <2>1. req[c] \in Requests /\ \A st \in {"processing", "completed", "failed"} :
         SetRecord(c, st) => records' \in [Scopes -> Records]
    BY StepTypes DEF PublishFails, Resting
  <2> QED
    BY <2>1 DEF TypeOK, Goto, Nothing, Fault, End, Forget, Steps, Resting, InFlight, PublishFails
<1>15. CASE \E c \in Clients : AuditFails(c)
  <2> PICK c \in Clients : AuditFails(c)
    BY <1>15
  <2>1. req[c] \in Requests /\ \A st \in {"processing", "completed", "failed"} :
         SetRecord(c, st) => records' \in [Scopes -> Records]
    BY StepTypes DEF AuditFails, Resting
  <2> QED
    BY <2>1 DEF TypeOK, Goto, Nothing, Fault, End, Forget, Steps, Resting, InFlight, AuditFails
<1>16. CASE \E c \in Clients : CompleteFails(c)
  <2> PICK c \in Clients : CompleteFails(c)
    BY <1>16
  <2>1. req[c] \in Requests /\ \A st \in {"processing", "completed", "failed"} :
         SetRecord(c, st) => records' \in [Scopes -> Records]
    BY StepTypes DEF CompleteFails, Resting
  <2> QED
    BY <2>1 DEF TypeOK, Goto, Nothing, Fault, End, Forget, Steps, Resting, InFlight, CompleteFails
<1>17. CASE \E c \in Clients : Crash(c)
  <2> PICK c \in Clients : Crash(c)
    BY <1>17
  <2>1. req[c] \in Requests /\ \A st \in {"processing", "completed", "failed"} :
         SetRecord(c, st) => records' \in [Scopes -> Records]
    BY StepTypes DEF Crash, Resting
  <2> QED
    BY <2>1 DEF TypeOK, Goto, Nothing, Fault, End, Forget, Steps, Resting, InFlight, Crash
<1> QED
  BY <1>u, <1>1, <1>2, <1>3, <1>4, <1>5, <1>6, <1>7, <1>8, <1>9, <1>10, <1>11, <1>12, <1>13, <1>14, <1>15, <1>16, <1>17 DEF Next

\* TypeOK is an invariant.
THEOREM SubscriptionTypes == Spec => []TypeOK
<1> QED
  BY InitTypes, NextTypes, PTL DEF Spec

-----------------------------------------------------------------------------
(* The lifecycle. *)

\* A step preserves DraftsApply: only Read writes a draft, and a request that
\* is to save keeps its command and what it read.
LEMMA NextDrafts == TypeOK /\ DraftsApply /\ [Next]_vars => DraftsApply'
<1> SUFFICES ASSUME TypeOK, DraftsApply, [Next]_vars,
                    NEW d \in Clients, pc'[d] = "saving"
             PROVE  /\ MayApply(Command(d), seen[d])'
                    /\ (draft[d] = Apply(Command(d), seen[d]))'
  BY DEF DraftsApply
<1>1. CASE UNCHANGED <<pc[d], req[d], seen[d], draft[d]>>
  BY <1>1 DEF DraftsApply, Command, MayApply, Apply, MayChangePlan, MayCancelNow,
     MayCancelAtPeriodEnd, createSubscriptionAggregate, applyUpgrade, applyCancelNow,
     applyCancelAtPeriodEnd, InCurrentPeriod, Allowed
<1>2. CASE Read(d)
  BY <1>2 DEF Read, TypeOK, Goto, Nothing, Command, MayApply, Apply, MayChangePlan,
     MayCancelNow, MayCancelAtPeriodEnd, createSubscriptionAggregate, applyUpgrade,
     applyCancelNow, applyCancelAtPeriodEnd, InCurrentPeriod, Allowed
<1>3. UNCHANGED <<pc[d], req[d], seen[d], draft[d]>> \/ Read(d)
  <2>1. CASE UNCHANGED vars
    BY <2>1 DEF vars
  <2>2. CASE \E c \in Clients : Send(c) \/ Begin(c) \/ Refuse(c) \/ Replay(c)
    BY <2>2 DEF TypeOK, Send, Begin, Refuse, Replay, Goto, End, Resting
  <2>3. CASE \E c \in Clients : Read(c) \/ Reject(c) \/ Save(c) \/ Publish(c)
    BY <2>3 DEF TypeOK, Read, Reject, Save, Publish, Goto, Forget
  <2>4. CASE \E c \in Clients : Audit(c) \/ Complete(c) \/ Fail(c) \/ ReadFails(c)
    BY <2>4 DEF TypeOK, Audit, Complete, Fail, ReadFails, Goto, End
  <2>5. CASE \E c \in Clients : SaveFails(c) \/ PublishFails(c) \/ AuditFails(c)
                              \/ CompleteFails(c) \/ Crash(c)
    BY <2>5 DEF TypeOK, SaveFails, PublishFails, AuditFails, CompleteFails, Crash,
       Goto, End, Forget
  <2> QED
    BY <2>1, <2>2, <2>3, <2>4, <2>5 DEF Next
<1> QED
  BY <1>1, <1>2, <1>3

\* Only a save writes the row.
LEMMA OnlySavesWrite ==
  ASSUME [Next]_vars, row' # row
  PROVE  \E c \in Clients : pc[c] = "saving" /\ row' = draft[c]
<1>1. \E c \in Clients : Save(c) \/ SaveFails(c)
  BY DEF Next, vars, Send, Begin, Refuse, Replay, Read, Reject, Publish, Audit,
     Complete, Fail, ReadFails, PublishFails, AuditFails, CompleteFails, Crash, Nothing
<1> QED
  BY <1>1 DEF Save, SaveFails, Store

\* Of all that may happen to a subscription, only a save on top of one its
\* command did not read departs from the lifecycle.
THEOREM OnlyStaleSaves == Spec => OnlyStaleSavesDeviate
<1>1. Init => DraftsApply /\ Lifecycle!Init
  BY DEF Init, DraftsApply, Lifecycle!Init
<1>2. TypeOK /\ DraftsApply /\ [Next]_vars
        => [Lifecycle!Next \/ \E c \in Clients : StaleSave(c)]_row
  <2> SUFFICES ASSUME TypeOK, DraftsApply, [Next]_vars, row' # row
               PROVE  Lifecycle!Next \/ \E c \in Clients : StaleSave(c)
    OBVIOUS
  <2> PICK c \in Clients : pc[c] = "saving" /\ row' = draft[c]
    BY OnlySavesWrite
  <2>1. CASE seen[c] # row
    BY <2>1 DEF StaleSave
  <2>2. CASE seen[c] = row
    <3>1. Command(c) \in Commands
      BY StepTypes DEF Resting
    <3>2. MayApply(Command(c), row) /\ row' = Apply(Command(c), row)
      BY <2>2 DEF DraftsApply
    <3> QED
      BY <3>1, <3>2, ApplyFollowsLifecycle DEF TypeOK
  <2> QED
    BY <2>1, <2>2
<1> QED
  BY <1>1, <1>2, SubscriptionTypes, NextDrafts, PTL DEF Spec, OnlyStaleSavesDeviate

\* Where no two commands are between their read and their save at once, what
\* a request saves over is what it read: the one save that writes the row is
\* that of the only request that has read it.
LEMMA NextFresh ==
  TypeOK /\ CommandsApart /\ DraftsFresh /\ [Next]_vars => DraftsFresh'
<1> SUFFICES ASSUME TypeOK, CommandsApart, DraftsFresh, [Next]_vars,
                    NEW d \in Clients, pc'[d] = "saving"
             PROVE  seen'[d] = row'
  BY DEF DraftsFresh
<1>1. CASE row' # row
  <2> PICK c \in Clients : (Save(c) \/ SaveFails(c))
    BY <1>1 DEF Next, vars, Send, Begin, Refuse, Replay, Read, Reject, Publish,
       Audit, Complete, Fail, ReadFails, PublishFails, AuditFails, CompleteFails,
       Crash, Nothing
  <2>1. pc[c] = "saving" /\ pc'[c] # "saving"
    BY DEF Save, SaveFails, Goto, TypeOK
  <2>2. c # d /\ pc'[d] = pc[d]
    BY <2>1 DEF Save, SaveFails, Goto, TypeOK
  <2> QED
    BY <2>1, <2>2 DEF CommandsApart
<1>2. CASE row' = row
  <2>1. (UNCHANGED <<pc[d], seen[d]>>) \/ Read(d)
    <3>1. CASE UNCHANGED vars
      BY <3>1 DEF vars
    <3>2. CASE \E c \in Clients : Send(c) \/ Begin(c) \/ Refuse(c) \/ Replay(c)
      BY <3>2 DEF TypeOK, Send, Begin, Refuse, Replay, Goto, End, Resting
    <3>3. CASE \E c \in Clients : Read(c) \/ Reject(c) \/ Save(c) \/ Publish(c)
      BY <3>3 DEF TypeOK, Read, Reject, Save, Publish, Goto, Forget
    <3>4. CASE \E c \in Clients : Audit(c) \/ Complete(c) \/ Fail(c) \/ ReadFails(c)
      BY <3>4 DEF TypeOK, Audit, Complete, Fail, ReadFails, Goto, End
    <3>5. CASE \E c \in Clients : SaveFails(c) \/ PublishFails(c) \/ AuditFails(c)
                                \/ CompleteFails(c) \/ Crash(c)
      BY <3>5 DEF TypeOK, SaveFails, PublishFails, AuditFails, CompleteFails, Crash,
         Goto, End, Forget
    <3> QED
      BY <3>1, <3>2, <3>3, <3>4, <3>5 DEF Next
  <2>2. CASE Read(d)
    BY <1>2, <2>2 DEF Read, TypeOK
  <2> QED
    BY <1>2, <2>1, <2>2 DEF DraftsFresh
<1> QED
  BY <1>1, <1>2

\* Commands of which no two are between their read and their save at once
\* implement the lifecycle, whatever fails and however often they are retried.
THEOREM ApartKeepLifecycle == Spec /\ []CommandsApart => Lifecycle!Spec
<1>1. Init => DraftsApply /\ DraftsFresh /\ Lifecycle!Init
  BY DEF Init, DraftsApply, DraftsFresh, Lifecycle!Init
<1>2. TypeOK /\ DraftsApply /\ DraftsFresh /\ [Next]_vars => [Lifecycle!Next]_row
  <2> SUFFICES ASSUME TypeOK, DraftsApply, DraftsFresh, [Next]_vars, row' # row
               PROVE  Lifecycle!Next
    OBVIOUS
  <2> PICK c \in Clients : pc[c] = "saving" /\ row' = draft[c]
    BY OnlySavesWrite
  <2>1. Command(c) \in Commands
    BY StepTypes DEF Resting
  <2>2. MayApply(Command(c), row) /\ row' = Apply(Command(c), row)
    BY DEF DraftsApply, DraftsFresh
  <2> QED
    BY <2>1, <2>2, ApplyFollowsLifecycle DEF TypeOK
<1> QED
  BY <1>1, <1>2, SubscriptionTypes, NextDrafts, NextFresh, PTL DEF Spec, Lifecycle!Spec

\* Nothing in the lifecycle brings a canceled subscription back.
LEMMA LifecycleKeepsCanceled ==
  [Lifecycle!Next]_row =>
    (row # None /\ row.status = "canceled" => row'.status = "canceled")
BY DEF Lifecycle!Next, Lifecycle!Create, Lifecycle!ChangePlan, Lifecycle!Schedule,
   Lifecycle!Cancel, Lifecycle!Alive

\* So a canceled subscription stays canceled: what SubscriptionResurrected
\* finds takes two commands that overlap.
THEOREM ApartKeepCanceled == Spec /\ []CommandsApart => CanceledIsFinal
<1>1. [Lifecycle!Next]_row =>
        [row # None /\ row.status = "canceled" => row'.status = "canceled"]_row
  BY LifecycleKeepsCanceled
<1> QED
  BY <1>1, ApartKeepLifecycle, PTL DEF Lifecycle!Spec, CanceledIsFinal

-----------------------------------------------------------------------------
(* What an answer, an event and an audit line stand for. *)

Accounted == StepsInOrder /\ AnsweredInFull /\ EventsTellOfSaves

\* They hold initially.
LEMMA InitAccounted == Init => Accounted
BY DEF Init, Accounted, StepsInOrder, AnsweredInFull, EventsTellOfSaves, Absent, Scopes

\* A step preserves them, action by action.
LEMMA NextAccounted == TypeOK /\ Accounted /\ [Next]_vars => Accounted'
<1> SUFFICES ASSUME TypeOK, Accounted, [Next]_vars PROVE Accounted'
  OBVIOUS
<1> USE ConstantsAssumption DEF Accounted, StepsInOrder, AnsweredInFull, EventsTellOfSaves
<1>u. CASE UNCHANGED vars
  BY <1>u DEF vars
<1>1. CASE \E c \in Clients : Send(c)
  BY <1>1 DEF Send, TypeOK, Goto, Nothing, End, Resting, InFlight
<1>2. CASE \E c \in Clients : Begin(c)
  <2> PICK c \in Clients : Begin(c)
    BY <1>2
  <2>1. ScopeOf(c) \in Scopes
    BY StepTypes DEF Begin, Resting
  <2> QED
    BY <2>1 DEF Begin, TypeOK, Goto, Nothing, End, Resting, InFlight, SetRecord
<1>3. CASE \E c \in Clients : Refuse(c)
  <2> PICK c \in Clients : Refuse(c)
    BY <1>3
  <2>1. ScopeOf(c) \in Scopes
    BY StepTypes DEF Refuse, Resting
  <2> QED
    BY <2>1 DEF Refuse, TypeOK, Goto, Nothing, End, Resting, InFlight
<1>4. CASE \E c \in Clients : Replay(c)
  <2> PICK c \in Clients : Replay(c)
    BY <1>4
  <2>1. ScopeOf(c) \in Scopes
    BY StepTypes DEF Replay, Resting
  <2> QED
    BY <2>1 DEF Replay, TypeOK, Goto, Nothing, End, Resting, InFlight, SameFingerprint, RecordOf
<1>5. CASE \E c \in Clients : Read(c)
  <2> PICK c \in Clients : Read(c)
    BY <1>5
  <2>1. ScopeOf(c) \in Scopes
    BY StepTypes DEF Read, Resting
  <2> QED
    BY <2>1 DEF Read, TypeOK, Goto, Nothing, End, Resting, InFlight
<1>6. CASE \E c \in Clients : Reject(c)
  <2> PICK c \in Clients : Reject(c)
    BY <1>6
  <2>1. ScopeOf(c) \in Scopes
    BY StepTypes DEF Reject, Resting
  <2> QED
    BY <2>1 DEF Reject, TypeOK, Goto, Nothing, End, Resting, InFlight
<1>7. CASE \E c \in Clients : Save(c)
  <2> PICK c \in Clients : Save(c)
    BY <1>7
  <2>1. ScopeOf(c) \in Scopes
    BY StepTypes DEF Save, Resting
  <2> QED
    BY <2>1 DEF Save, TypeOK, Goto, Nothing, End, Resting, InFlight, Store
<1>8. CASE \E c \in Clients : Publish(c)
  <2> PICK c \in Clients : Publish(c)
    BY <1>8
  <2>1. ScopeOf(c) \in Scopes
    BY StepTypes DEF Publish, Resting
  <2> QED
    BY <2>1 DEF Publish, TypeOK, Goto, Nothing, End, Resting, InFlight
<1>9. CASE \E c \in Clients : Audit(c)
  <2> PICK c \in Clients : Audit(c)
    BY <1>9
  <2>1. ScopeOf(c) \in Scopes
    BY StepTypes DEF Audit, Resting
  <2> QED
    BY <2>1 DEF Audit, TypeOK, Goto, Nothing, End, Resting, InFlight
<1>10. CASE \E c \in Clients : Complete(c)
  <2> PICK c \in Clients : Complete(c)
    BY <1>10
  <2>1. ScopeOf(c) \in Scopes
    BY StepTypes DEF Complete, Resting
  <2> QED
    BY <2>1 DEF Complete, TypeOK, Goto, Nothing, End, Resting, InFlight, SetRecord
<1>11. CASE \E c \in Clients : Fail(c)
  <2> PICK c \in Clients : Fail(c)
    BY <1>11
  <2>1. ScopeOf(c) \in Scopes
    BY StepTypes DEF Fail, Resting
  <2> QED
    BY <2>1 DEF Fail, TypeOK, Goto, Nothing, End, Resting, InFlight, SetRecord
<1>12. CASE \E c \in Clients : ReadFails(c)
  <2> PICK c \in Clients : ReadFails(c)
    BY <1>12
  <2>1. ScopeOf(c) \in Scopes
    BY StepTypes DEF ReadFails, Resting
  <2> QED
    BY <2>1 DEF ReadFails, TypeOK, Goto, Nothing, End, Resting, InFlight
<1>13. CASE \E c \in Clients : SaveFails(c)
  <2> PICK c \in Clients : SaveFails(c)
    BY <1>13
  <2>1. ScopeOf(c) \in Scopes
    BY StepTypes DEF SaveFails, Resting
  <2> QED
    BY <2>1 DEF SaveFails, TypeOK, Goto, Nothing, End, Resting, InFlight, Store
<1>14. CASE \E c \in Clients : PublishFails(c)
  <2> PICK c \in Clients : PublishFails(c)
    BY <1>14
  <2>1. ScopeOf(c) \in Scopes
    BY StepTypes DEF PublishFails, Resting
  <2> QED
    BY <2>1 DEF PublishFails, TypeOK, Goto, Nothing, End, Resting, InFlight
<1>15. CASE \E c \in Clients : AuditFails(c)
  <2> PICK c \in Clients : AuditFails(c)
    BY <1>15
  <2>1. ScopeOf(c) \in Scopes
    BY StepTypes DEF AuditFails, Resting
  <2> QED
    BY <2>1 DEF AuditFails, TypeOK, Goto, Nothing, End, Resting, InFlight
<1>16. CASE \E c \in Clients : CompleteFails(c)
  <2> PICK c \in Clients : CompleteFails(c)
    BY <1>16
  <2>1. ScopeOf(c) \in Scopes
    BY StepTypes DEF CompleteFails, Resting
  <2> QED
    BY <2>1 DEF CompleteFails, TypeOK, Goto, Nothing, End, Resting, InFlight, SetRecord
<1>17. CASE \E c \in Clients : Crash(c)
  <2> PICK c \in Clients : Crash(c)
    BY <1>17
  <2>1. ScopeOf(c) \in Scopes
    BY StepTypes DEF Crash, Resting
  <2> QED
    BY <2>1 DEF Crash, TypeOK, Goto, Nothing, End, Resting, InFlight
<1> QED
  BY <1>u, <1>1, <1>2, <1>3, <1>4, <1>5, <1>6, <1>7, <1>8, <1>9, <1>10, <1>11, <1>12, <1>13, <1>14, <1>15, <1>16, <1>17 DEF Next

\* A command answered with success was stored, published and audited.
THEOREM AnswersInFull == Spec => []AnsweredInFull
<1>1. Accounted => AnsweredInFull
  BY DEF Accounted
<1> QED
  BY <1>1, InitAccounted, NextAccounted, SubscriptionTypes, PTL DEF Spec

\* Events and audit lines tell of stored changes.
THEOREM EventsTell == Spec => []EventsTellOfSaves
<1>1. Accounted => EventsTellOfSaves
  BY DEF Accounted
<1> QED
  BY <1>1, InitAccounted, NextAccounted, SubscriptionTypes, PTL DEF Spec

-----------------------------------------------------------------------------
(* Creation. *)

Creations == OneCreation /\ NothingBeforeCreation

\* A step preserves them: only saves count, and on Postgres a creation is
\* saved only where there is no row yet.
LEMMA NextCreations == TypeOK /\ Creations /\ [Next]_vars => Creations'
<1> SUFFICES ASSUME TypeOK, Creations, [Next]_vars PROVE Creations'
  OBVIOUS
<1>1. CASE \E c \in Clients : (Save(c) \/ SaveFails(c)) /\ Store(c)
  <2> PICK c \in Clients : (Save(c) \/ SaveFails(c)) /\ Store(c)
    BY <1>1
  <2>1. draft[c] \in Rows /\ driver' = driver
    BY DEF Save, SaveFails, TypeOK, Goto
  <2>2. row' # None
    BY <2>1 DEF Store
  <2> QED
    BY <2>1, <2>2 DEF Creations, OneCreation, NothingBeforeCreation, Store, InsertFails,
       Command
<1>2. CASE UNCHANGED <<row, saved>>
  <2>1. driver' = driver
    BY DEF Next, vars, Send, Begin, Refuse, Replay, Read, Reject, Save, Publish,
       Audit, Complete, Fail, ReadFails, SaveFails, PublishFails, AuditFails,
       CompleteFails, Crash, Goto, End
  <2> QED
    BY <1>2, <2>1 DEF Creations, OneCreation, NothingBeforeCreation
<1>3. \/ UNCHANGED <<row, saved>>
      \/ \E c \in Clients : (Save(c) \/ SaveFails(c)) /\ Store(c)
  BY DEF Next, vars, Send, Begin, Refuse, Replay, Read, Reject, Save, Publish, Audit,
     Complete, Fail, ReadFails, SaveFails, PublishFails, AuditFails, CompleteFails,
     Crash, Nothing
<1> QED
  BY <1>1, <1>2, <1>3

\* On Postgres the subscription is created by one request at most.
THEOREM CreatedOnce == Spec => []OneCreation
<1>1. Init => Creations
  BY DEF Init, Creations, OneCreation, NothingBeforeCreation
<1>2. Creations => OneCreation
  BY DEF Creations
<1> QED
  BY <1>1, <1>2, NextCreations, SubscriptionTypes, PTL DEF Spec
=============================================================================
