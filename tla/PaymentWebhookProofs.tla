----------------------- MODULE PaymentWebhookProofs -----------------------
(***************************************************************************)
(* Proofs about PaymentWebhooks, for any deliverers, events and faults.    *)
(* What makes an event processed once is that one delivery executes it at  *)
(* a time and that its record says so while it does; what bounds its       *)
(* publications is that every way back to a record that may be executed    *)
(* passes a fault.                                                         *)
(***************************************************************************)
EXTENDS PaymentWebhooks, TLAPS

USE ConstantsAssumption

-----------------------------------------------------------------------------
(* The invariants. *)

\* The deliveries of an event that execute it, or did and are about to say so.
Owning(d) == pc[d] \in Executing \cup {"processed"}

\* Only an event whose type is supported goes beyond its verification.
OnlySupportedRun ==
  \A d \in Deliverers :
    pc[d] \notin {"idle", "verifying", "rejecting"} => EventOf[d] \in Supported

\* One delivery at a time executes an event.
OneOwner ==
  \A d, o \in Deliverers :
    (EventOf[d] = EventOf[o] /\ Owning(d) /\ Owning(o)) => d = o

\* The record of an event says that it is being executed, and from the answer of
\* the last write on that it was; a write that failed may have done so before.
OwnersMarked ==
  \A d \in Deliverers :
    /\ pc[d] \in {"publishing", "completing"} => RecordOf(d) = "processing"
    /\ pc[d] = "failing" => RecordOf(d) \in {"processing", "completed"}
    /\ pc[d] = "processed" => RecordOf(d) = "completed"

\* Once an event is told to be processed it is completed, and nobody executes it.
ProcessedIsFinal ==
  \A e \in Events :
    \/ processed[e] = 0
    \/ /\ processed[e] = 1 /\ records[e] = "completed"
       /\ \A d \in Deliverers : EventOf[d] = e => ~Owning(d)

\* An event is only called completed, processed or a duplicate when published.
SuccessIsPublished ==
  /\ \A e \in Events : records[e] = "completed" => published[e] > 0
  /\ \A d \in Deliverers :
       pc[d] \in {"completing", "processed", "duplicate"} =>
         published[EventOf[d]] > 0
  /\ AckedIsPublished

\* Where an event may be published again, a fault was there for each time it was.
PublicationsPaid ==
  /\ \A e \in Events :
       /\ published[e] <= faults + 1
       /\ records[e] \in {"absent", "failed"} => published[e] <= faults
  /\ \A d \in Deliverers :
       pc[d] \in {"publishing", "failing"} => published[EventOf[d]] <= faults

-----------------------------------------------------------------------------
(* Types. *)

\* The types hold in the beginning and after every step: that an audit line of
\* success names a supported event needs that no other is ever executed.
THEOREM WebhookTypes == Spec => []TypeOK
<1> DEFINE Typed == TypeOK /\ OnlySupportedRun
<1>1. Init => Typed
  BY DEF Init, TypeOK, Steps, OnlySupportedRun
<1>2. Typed /\ [Next]_vars => Typed'
  <2> SUFFICES ASSUME TypeOK, OnlySupportedRun, [Next]_vars
               PROVE  TypeOK' /\ OnlySupportedRun'
    OBVIOUS
  <2>u. CASE UNCHANGED vars
    BY <2>u DEF vars, TypeOK, OnlySupportedRun
  <2>d. ASSUME NEW d \in Deliverers PROVE EventOf[d] \in Events
    OBVIOUS
  <2>1. ASSUME NEW d \in Deliverers, Deliver(d)
         PROVE  TypeOK' /\ OnlySupportedRun'
    BY <2>1, <2>d DEF TypeOK, OnlySupportedRun, Steps, Executing,
       AuditLines, RecordOf, SetRecord, Goto, Deliver
  <2>2. ASSUME NEW d \in Deliverers, Verify(d)
         PROVE  TypeOK' /\ OnlySupportedRun'
    BY <2>2, <2>d DEF TypeOK, OnlySupportedRun, Steps, Executing,
       AuditLines, RecordOf, SetRecord, Goto, Verify
  <2>3. ASSUME NEW d \in Deliverers, Begin(d)
         PROVE  TypeOK' /\ OnlySupportedRun'
    BY <2>3, <2>d DEF TypeOK, OnlySupportedRun, Steps, Executing,
       AuditLines, RecordOf, SetRecord, Goto, MayStart, IsInProgress, Begin
  <2>4. ASSUME NEW d \in Deliverers, Publish(d)
         PROVE  TypeOK' /\ OnlySupportedRun'
    BY <2>4, <2>d DEF TypeOK, OnlySupportedRun, Steps, Executing,
       AuditLines, RecordOf, SetRecord, Goto, CountPublication, Publish
  <2>5. ASSUME NEW d \in Deliverers, Complete(d)
         PROVE  TypeOK' /\ OnlySupportedRun'
    BY <2>5, <2>d DEF TypeOK, OnlySupportedRun, Steps, Executing,
       AuditLines, RecordOf, SetRecord, Goto, Complete
  <2>6. ASSUME NEW d \in Deliverers, SetFailed(d)
         PROVE  TypeOK' /\ OnlySupportedRun'
    BY <2>6, <2>d DEF TypeOK, OnlySupportedRun, Steps, Executing,
       AuditLines, RecordOf, SetRecord, Goto, SetFailed
  <2>7. ASSUME NEW d \in Deliverers, AuditSuccess(d)
         PROVE  TypeOK' /\ OnlySupportedRun'
    BY <2>7, <2>d DEF TypeOK, OnlySupportedRun, Steps, Executing,
       AuditLines, RecordOf, SetRecord, Goto, SaveRaw, AuditSuccess
  <2>8. ASSUME NEW d \in Deliverers, AuditRejected(d)
         PROVE  TypeOK' /\ OnlySupportedRun'
    BY <2>8, <2>d DEF TypeOK, OnlySupportedRun, Steps, Executing,
       AuditLines, RecordOf, SetRecord, Goto, SaveRaw, AuditRejected
  <2>9. ASSUME NEW d \in Deliverers, VerifyFails(d)
         PROVE  TypeOK' /\ OnlySupportedRun'
    BY <2>9, <2>d DEF TypeOK, OnlySupportedRun, Steps, Executing,
       AuditLines, RecordOf, SetRecord, Goto, Fault, VerifyFails
  <2>10. ASSUME NEW d \in Deliverers, BeginFails(d)
         PROVE  TypeOK' /\ OnlySupportedRun'
    BY <2>10, <2>d DEF TypeOK, OnlySupportedRun, Steps, Executing,
       AuditLines, RecordOf, SetRecord, Goto, MayStart, Fault, BeginFails
  <2>11. ASSUME NEW d \in Deliverers, PublishFails(d)
         PROVE  TypeOK' /\ OnlySupportedRun'
    BY <2>11, <2>d DEF TypeOK, OnlySupportedRun, Steps, Executing,
       AuditLines, RecordOf, SetRecord, Goto, CountPublication, Fault,
       PublishFails
  <2>12. ASSUME NEW d \in Deliverers, CompleteFails(d)
         PROVE  TypeOK' /\ OnlySupportedRun'
    BY <2>12, <2>d DEF TypeOK, OnlySupportedRun, Steps, Executing,
       AuditLines, RecordOf, SetRecord, Goto, Fault, CompleteFails
  <2>13. ASSUME NEW d \in Deliverers, SetFailedFails(d)
         PROVE  TypeOK' /\ OnlySupportedRun'
    BY <2>13, <2>d DEF TypeOK, OnlySupportedRun, Steps, Executing,
       AuditLines, RecordOf, SetRecord, Goto, Fault, SetFailedFails
  <2>14. ASSUME NEW d \in Deliverers, AuditSuccessFails(d)
         PROVE  TypeOK' /\ OnlySupportedRun'
    BY <2>14, <2>d DEF TypeOK, OnlySupportedRun, Steps, Executing,
       AuditLines, RecordOf, SetRecord, Goto, SaveRaw, Fault,
       AuditSuccessFails
  <2>15. ASSUME NEW d \in Deliverers, AuditRejectedFails(d)
         PROVE  TypeOK' /\ OnlySupportedRun'
    BY <2>15, <2>d DEF TypeOK, OnlySupportedRun, Steps, Executing,
       AuditLines, RecordOf, SetRecord, Goto, Fault, AuditRejectedFails
  <2>16. ASSUME NEW d \in Deliverers, Crash(d)
         PROVE  TypeOK' /\ OnlySupportedRun'
    BY <2>16, <2>d DEF TypeOK, OnlySupportedRun, Steps, Executing,
       AuditLines, RecordOf, SetRecord, Goto, Fault, Crash
  <2> QED
    BY <2>u, <2>1, <2>2, <2>3, <2>4, <2>5, <2>6, <2>7, <2>8, <2>9, <2>10,
       <2>11, <2>12, <2>13, <2>14, <2>15, <2>16 DEF Next, Progress
<1>3. Typed => TypeOK
  OBVIOUS
<1> HIDE DEF Typed
<1> QED
  BY <1>1, <1>2, <1>3, PTL DEF Spec

-----------------------------------------------------------------------------
(* One delivery executes an event, and it is processed once. *)

\* A step keeps one owner of an event, marked by its record: only the record of an
\* event nobody owns lets a delivery begin.
LEMMA OwnershipStep ==
  ASSUME TypeOK, OneOwner, OwnersMarked, [Next]_vars
  PROVE  (OneOwner /\ OwnersMarked)'
<1>u. CASE UNCHANGED vars
  BY <1>u DEF vars, RecordOf, OneOwner, OwnersMarked, Owning
<1>d. \A d \in Deliverers : EventOf[d] \in Events
  OBVIOUS
<1>1. ASSUME NEW d \in Deliverers, Deliver(d) PROVE (OneOwner /\ OwnersMarked)'
  BY <1>1, <1>d DEF TypeOK, Executing, OneOwner, OwnersMarked, Owning,
     RecordOf, SetRecord, Goto, Deliver
<1>2. ASSUME NEW d \in Deliverers, Verify(d) PROVE (OneOwner /\ OwnersMarked)'
  BY <1>2, <1>d DEF TypeOK, Executing, OneOwner, OwnersMarked, Owning,
     RecordOf, SetRecord, Goto, Verify
<1>3. ASSUME NEW d \in Deliverers, Begin(d) PROVE (OneOwner /\ OwnersMarked)'
  BY <1>3, <1>d DEF TypeOK, Executing, OneOwner, OwnersMarked, Owning,
     RecordOf, SetRecord, Goto, MayStart, IsInProgress, Begin
<1>4. ASSUME NEW d \in Deliverers, Publish(d) PROVE (OneOwner /\ OwnersMarked)'
  BY <1>4, <1>d DEF TypeOK, Executing, OneOwner, OwnersMarked, Owning,
     RecordOf, SetRecord, Goto, CountPublication, Publish
<1>5. ASSUME NEW d \in Deliverers, Complete(d) PROVE (OneOwner /\ OwnersMarked)'
  BY <1>5, <1>d DEF TypeOK, Executing, OneOwner, OwnersMarked, Owning,
     RecordOf, SetRecord, Goto, Complete
<1>6. ASSUME NEW d \in Deliverers, SetFailed(d) PROVE (OneOwner /\ OwnersMarked)'
  BY <1>6, <1>d DEF TypeOK, Executing, OneOwner, OwnersMarked, Owning,
     RecordOf, SetRecord, Goto, SetFailed
<1>7. ASSUME NEW d \in Deliverers, AuditSuccess(d) PROVE (OneOwner /\ OwnersMarked)'
  BY <1>7, <1>d DEF TypeOK, Executing, OneOwner, OwnersMarked, Owning,
     RecordOf, SetRecord, Goto, SaveRaw, AuditSuccess
<1>8. ASSUME NEW d \in Deliverers, AuditRejected(d) PROVE (OneOwner /\ OwnersMarked)'
  BY <1>8, <1>d DEF TypeOK, Executing, OneOwner, OwnersMarked, Owning,
     RecordOf, SetRecord, Goto, SaveRaw, AuditRejected
<1>9. ASSUME NEW d \in Deliverers, VerifyFails(d) PROVE (OneOwner /\ OwnersMarked)'
  BY <1>9, <1>d DEF TypeOK, Executing, OneOwner, OwnersMarked, Owning,
     RecordOf, SetRecord, Goto, Fault, VerifyFails
<1>10. ASSUME NEW d \in Deliverers, BeginFails(d) PROVE (OneOwner /\ OwnersMarked)'
  BY <1>10, <1>d DEF TypeOK, Executing, OneOwner, OwnersMarked, Owning,
     RecordOf, SetRecord, Goto, MayStart, Fault, BeginFails
<1>11. ASSUME NEW d \in Deliverers, PublishFails(d) PROVE (OneOwner /\ OwnersMarked)'
  BY <1>11, <1>d DEF TypeOK, Executing, OneOwner, OwnersMarked, Owning,
     RecordOf, SetRecord, Goto, CountPublication, Fault, PublishFails
<1>12. ASSUME NEW d \in Deliverers, CompleteFails(d) PROVE (OneOwner /\ OwnersMarked)'
  BY <1>12, <1>d DEF TypeOK, Executing, OneOwner, OwnersMarked, Owning,
     RecordOf, SetRecord, Goto, Fault, CompleteFails
<1>13. ASSUME NEW d \in Deliverers, SetFailedFails(d) PROVE (OneOwner /\ OwnersMarked)'
  BY <1>13, <1>d DEF TypeOK, Executing, OneOwner, OwnersMarked, Owning,
     RecordOf, SetRecord, Goto, Fault, SetFailedFails
<1>14. ASSUME NEW d \in Deliverers, AuditSuccessFails(d) PROVE (OneOwner /\ OwnersMarked)'
  BY <1>14, <1>d DEF TypeOK, Executing, OneOwner, OwnersMarked, Owning,
     RecordOf, SetRecord, Goto, SaveRaw, Fault, AuditSuccessFails
<1>15. ASSUME NEW d \in Deliverers, AuditRejectedFails(d) PROVE (OneOwner /\ OwnersMarked)'
  BY <1>15, <1>d DEF TypeOK, Executing, OneOwner, OwnersMarked, Owning,
     RecordOf, SetRecord, Goto, Fault, AuditRejectedFails
<1>16. ASSUME NEW d \in Deliverers, Crash(d) PROVE (OneOwner /\ OwnersMarked)'
  BY <1>16, <1>d DEF TypeOK, Executing, OneOwner, OwnersMarked, Owning,
     RecordOf, SetRecord, Goto, Fault, Crash
<1> QED
  BY <1>u, <1>1, <1>2, <1>3, <1>4, <1>5, <1>6, <1>7, <1>8, <1>9, <1>10,
     <1>11, <1>12, <1>13, <1>14, <1>15, <1>16 DEF Next, Progress

\* A step tells an event to be processed once: by its owner, which then leaves,
\* and a completed record lets nobody own it again.
LEMMA FinalityStep ==
  ASSUME TypeOK, OneOwner, OwnersMarked, ProcessedIsFinal, [Next]_vars
  PROVE  ProcessedIsFinal'
<1>u. CASE UNCHANGED vars
  BY <1>u DEF vars, RecordOf, ProcessedIsFinal, OneOwner, OwnersMarked, Owning
<1>d. \A d \in Deliverers : EventOf[d] \in Events
  OBVIOUS
<1>1. ASSUME NEW d \in Deliverers, Deliver(d) PROVE ProcessedIsFinal'
  BY <1>1, <1>d DEF TypeOK, Executing, ProcessedIsFinal, OneOwner,
     OwnersMarked, Owning, RecordOf, SetRecord, Goto, Deliver
<1>2. ASSUME NEW d \in Deliverers, Verify(d) PROVE ProcessedIsFinal'
  BY <1>2, <1>d DEF TypeOK, Executing, ProcessedIsFinal, OneOwner,
     OwnersMarked, Owning, RecordOf, SetRecord, Goto, Verify
<1>3. ASSUME NEW d \in Deliverers, Begin(d) PROVE ProcessedIsFinal'
  BY <1>3, <1>d DEF TypeOK, Executing, ProcessedIsFinal, OneOwner,
     OwnersMarked, Owning, RecordOf, SetRecord, Goto, MayStart,
     IsInProgress, Begin
<1>4. ASSUME NEW d \in Deliverers, Publish(d) PROVE ProcessedIsFinal'
  BY <1>4, <1>d DEF TypeOK, Executing, ProcessedIsFinal, OneOwner,
     OwnersMarked, Owning, RecordOf, SetRecord, Goto, CountPublication,
     Publish
<1>5. ASSUME NEW d \in Deliverers, Complete(d) PROVE ProcessedIsFinal'
  BY <1>5, <1>d DEF TypeOK, Executing, ProcessedIsFinal, OneOwner,
     OwnersMarked, Owning, RecordOf, SetRecord, Goto, Complete
<1>6. ASSUME NEW d \in Deliverers, SetFailed(d) PROVE ProcessedIsFinal'
  BY <1>6, <1>d DEF TypeOK, Executing, ProcessedIsFinal, OneOwner,
     OwnersMarked, Owning, RecordOf, SetRecord, Goto, SetFailed
<1>7. ASSUME NEW d \in Deliverers, AuditSuccess(d) PROVE ProcessedIsFinal'
  BY <1>7, <1>d DEF TypeOK, Executing, ProcessedIsFinal, OneOwner,
     OwnersMarked, Owning, RecordOf, SetRecord, Goto, SaveRaw, AuditSuccess
<1>8. ASSUME NEW d \in Deliverers, AuditRejected(d) PROVE ProcessedIsFinal'
  BY <1>8, <1>d DEF TypeOK, Executing, ProcessedIsFinal, OneOwner,
     OwnersMarked, Owning, RecordOf, SetRecord, Goto, SaveRaw, AuditRejected
<1>9. ASSUME NEW d \in Deliverers, VerifyFails(d) PROVE ProcessedIsFinal'
  BY <1>9, <1>d DEF TypeOK, Executing, ProcessedIsFinal, OneOwner,
     OwnersMarked, Owning, RecordOf, SetRecord, Goto, Fault, VerifyFails
<1>10. ASSUME NEW d \in Deliverers, BeginFails(d) PROVE ProcessedIsFinal'
  BY <1>10, <1>d DEF TypeOK, Executing, ProcessedIsFinal, OneOwner,
     OwnersMarked, Owning, RecordOf, SetRecord, Goto, MayStart, Fault,
     BeginFails
<1>11. ASSUME NEW d \in Deliverers, PublishFails(d) PROVE ProcessedIsFinal'
  BY <1>11, <1>d DEF TypeOK, Executing, ProcessedIsFinal, OneOwner,
     OwnersMarked, Owning, RecordOf, SetRecord, Goto, CountPublication,
     Fault, PublishFails
<1>12. ASSUME NEW d \in Deliverers, CompleteFails(d) PROVE ProcessedIsFinal'
  BY <1>12, <1>d DEF TypeOK, Executing, ProcessedIsFinal, OneOwner,
     OwnersMarked, Owning, RecordOf, SetRecord, Goto, Fault, CompleteFails
<1>13. ASSUME NEW d \in Deliverers, SetFailedFails(d) PROVE ProcessedIsFinal'
  BY <1>13, <1>d DEF TypeOK, Executing, ProcessedIsFinal, OneOwner,
     OwnersMarked, Owning, RecordOf, SetRecord, Goto, Fault, SetFailedFails
<1>14. ASSUME NEW d \in Deliverers, AuditSuccessFails(d) PROVE ProcessedIsFinal'
  BY <1>14, <1>d DEF TypeOK, Executing, ProcessedIsFinal, OneOwner,
     OwnersMarked, Owning, RecordOf, SetRecord, Goto, SaveRaw, Fault,
     AuditSuccessFails
<1>15. ASSUME NEW d \in Deliverers, AuditRejectedFails(d) PROVE ProcessedIsFinal'
  BY <1>15, <1>d DEF TypeOK, Executing, ProcessedIsFinal, OneOwner,
     OwnersMarked, Owning, RecordOf, SetRecord, Goto, Fault,
     AuditRejectedFails
<1>16. ASSUME NEW d \in Deliverers, Crash(d) PROVE ProcessedIsFinal'
  BY <1>16, <1>d DEF TypeOK, Executing, ProcessedIsFinal, OneOwner,
     OwnersMarked, Owning, RecordOf, SetRecord, Goto, Fault, Crash
<1> QED
  BY <1>u, <1>1, <1>2, <1>3, <1>4, <1>5, <1>6, <1>7, <1>8, <1>9, <1>10,
     <1>11, <1>12, <1>13, <1>14, <1>15, <1>16 DEF Next, Progress

\* An event is told to be processed at most once, whichever of its deliveries
\* race and whatever fails between.
THEOREM EventsProcessedOnce == Spec => []ProcessedOnce
<1> DEFINE IInv == OneOwner /\ OwnersMarked /\ ProcessedIsFinal
<1>1. Init => IInv
  BY DEF Init, OneOwner, OwnersMarked, ProcessedIsFinal, Owning, Executing
<1>2. TypeOK /\ IInv /\ [Next]_vars => IInv'
  BY OwnershipStep, FinalityStep
<1>3. IInv /\ TypeOK => ProcessedOnce
  BY DEF ProcessedIsFinal, ProcessedOnce, TypeOK
<1> HIDE DEF IInv
<1> QED
  BY <1>1, <1>2, <1>3, WebhookTypes, PTL DEF Spec

-----------------------------------------------------------------------------
(* Success stands for a publication. *)

\* A step calls an event completed only after it was published, and takes no
\* publication back.
LEMMA SuccessStep ==
  ASSUME TypeOK, SuccessIsPublished, [Next]_vars
  PROVE  SuccessIsPublished'
<1>u. CASE UNCHANGED vars
  BY <1>u DEF vars, RecordOf, SuccessIsPublished, AckedIsPublished, Succeeded
<1>d. \A d \in Deliverers : EventOf[d] \in Events
  OBVIOUS
<1>1. ASSUME NEW d \in Deliverers, Deliver(d) PROVE SuccessIsPublished'
  BY <1>1, <1>d DEF TypeOK, Executing, SuccessIsPublished,
     AckedIsPublished, Succeeded, RecordOf, SetRecord, Goto, Deliver
<1>2. ASSUME NEW d \in Deliverers, Verify(d) PROVE SuccessIsPublished'
  BY <1>2, <1>d DEF TypeOK, Executing, SuccessIsPublished,
     AckedIsPublished, Succeeded, RecordOf, SetRecord, Goto, Verify
<1>3. ASSUME NEW d \in Deliverers, Begin(d) PROVE SuccessIsPublished'
  BY <1>3, <1>d DEF TypeOK, Executing, SuccessIsPublished,
     AckedIsPublished, Succeeded, RecordOf, SetRecord, Goto, MayStart,
     IsInProgress, Begin
<1>4. ASSUME NEW d \in Deliverers, Publish(d) PROVE SuccessIsPublished'
  BY <1>4, <1>d DEF TypeOK, Executing, SuccessIsPublished,
     AckedIsPublished, Succeeded, RecordOf, SetRecord, Goto,
     CountPublication, Publish
<1>5. ASSUME NEW d \in Deliverers, Complete(d) PROVE SuccessIsPublished'
  BY <1>5, <1>d DEF TypeOK, Executing, SuccessIsPublished,
     AckedIsPublished, Succeeded, RecordOf, SetRecord, Goto, Complete
<1>6. ASSUME NEW d \in Deliverers, SetFailed(d) PROVE SuccessIsPublished'
  BY <1>6, <1>d DEF TypeOK, Executing, SuccessIsPublished,
     AckedIsPublished, Succeeded, RecordOf, SetRecord, Goto, SetFailed
<1>7. ASSUME NEW d \in Deliverers, AuditSuccess(d) PROVE SuccessIsPublished'
  BY <1>7, <1>d DEF TypeOK, Executing, SuccessIsPublished,
     AckedIsPublished, Succeeded, RecordOf, SetRecord, Goto, SaveRaw,
     AuditSuccess
<1>8. ASSUME NEW d \in Deliverers, AuditRejected(d) PROVE SuccessIsPublished'
  BY <1>8, <1>d DEF TypeOK, Executing, SuccessIsPublished,
     AckedIsPublished, Succeeded, RecordOf, SetRecord, Goto, SaveRaw,
     AuditRejected
<1>9. ASSUME NEW d \in Deliverers, VerifyFails(d) PROVE SuccessIsPublished'
  BY <1>9, <1>d DEF TypeOK, Executing, SuccessIsPublished,
     AckedIsPublished, Succeeded, RecordOf, SetRecord, Goto, Fault,
     VerifyFails
<1>10. ASSUME NEW d \in Deliverers, BeginFails(d) PROVE SuccessIsPublished'
  BY <1>10, <1>d DEF TypeOK, Executing, SuccessIsPublished,
     AckedIsPublished, Succeeded, RecordOf, SetRecord, Goto, MayStart,
     Fault, BeginFails
<1>11. ASSUME NEW d \in Deliverers, PublishFails(d) PROVE SuccessIsPublished'
  BY <1>11, <1>d DEF TypeOK, Executing, SuccessIsPublished,
     AckedIsPublished, Succeeded, RecordOf, SetRecord, Goto,
     CountPublication, Fault, PublishFails
<1>12. ASSUME NEW d \in Deliverers, CompleteFails(d) PROVE SuccessIsPublished'
  BY <1>12, <1>d DEF TypeOK, Executing, SuccessIsPublished,
     AckedIsPublished, Succeeded, RecordOf, SetRecord, Goto, Fault,
     CompleteFails
<1>13. ASSUME NEW d \in Deliverers, SetFailedFails(d) PROVE SuccessIsPublished'
  BY <1>13, <1>d DEF TypeOK, Executing, SuccessIsPublished,
     AckedIsPublished, Succeeded, RecordOf, SetRecord, Goto, Fault,
     SetFailedFails
<1>14. ASSUME NEW d \in Deliverers, AuditSuccessFails(d) PROVE SuccessIsPublished'
  BY <1>14, <1>d DEF TypeOK, Executing, SuccessIsPublished,
     AckedIsPublished, Succeeded, RecordOf, SetRecord, Goto, SaveRaw, Fault,
     AuditSuccessFails
<1>15. ASSUME NEW d \in Deliverers, AuditRejectedFails(d) PROVE SuccessIsPublished'
  BY <1>15, <1>d DEF TypeOK, Executing, SuccessIsPublished,
     AckedIsPublished, Succeeded, RecordOf, SetRecord, Goto, Fault,
     AuditRejectedFails
<1>16. ASSUME NEW d \in Deliverers, Crash(d) PROVE SuccessIsPublished'
  BY <1>16, <1>d DEF TypeOK, Executing, SuccessIsPublished,
     AckedIsPublished, Succeeded, RecordOf, SetRecord, Goto, Fault, Crash
<1> QED
  BY <1>u, <1>1, <1>2, <1>3, <1>4, <1>5, <1>6, <1>7, <1>8, <1>9, <1>10,
     <1>11, <1>12, <1>13, <1>14, <1>15, <1>16 DEF Next, Progress

\* The provider is answered with success, and the audit trail tells of success,
\* only for events that were published.
THEOREM AcksArePublished == Spec => []AckedIsPublished
<1>1. Init => SuccessIsPublished
  BY DEF Init, SuccessIsPublished, AckedIsPublished, Succeeded
<1>2. TypeOK /\ SuccessIsPublished /\ [Next]_vars => SuccessIsPublished'
  BY SuccessStep
<1>3. SuccessIsPublished => AckedIsPublished
  BY DEF SuccessIsPublished
<1> QED
  BY <1>1, <1>2, <1>3, WebhookTypes, PTL DEF Spec

-----------------------------------------------------------------------------
(* Publications are bounded by faults. *)

\* A step publishes an event again only where a fault has paid for it.
LEMMA PaymentStep ==
  ASSUME TypeOK, OneOwner, OwnersMarked, PublicationsPaid, [Next]_vars
  PROVE  PublicationsPaid'
<1>u. CASE UNCHANGED vars
  BY <1>u DEF vars, RecordOf, PublicationsPaid, OneOwner, OwnersMarked, Owning
<1>d. \A d \in Deliverers : EventOf[d] \in Events
  OBVIOUS
<1>1. ASSUME NEW d \in Deliverers, Deliver(d) PROVE PublicationsPaid'
  BY <1>1, <1>d DEF TypeOK, Executing, PublicationsPaid, OneOwner,
     OwnersMarked, Owning, RecordOf, SetRecord, Goto, Deliver
<1>2. ASSUME NEW d \in Deliverers, Verify(d) PROVE PublicationsPaid'
  BY <1>2, <1>d DEF TypeOK, Executing, PublicationsPaid, OneOwner,
     OwnersMarked, Owning, RecordOf, SetRecord, Goto, Verify
<1>3. ASSUME NEW d \in Deliverers, Begin(d) PROVE PublicationsPaid'
  BY <1>3, <1>d DEF TypeOK, Executing, PublicationsPaid, OneOwner,
     OwnersMarked, Owning, RecordOf, SetRecord, Goto, MayStart,
     IsInProgress, Begin
<1>4. ASSUME NEW d \in Deliverers, Publish(d) PROVE PublicationsPaid'
  BY <1>4, <1>d DEF TypeOK, Executing, PublicationsPaid, OneOwner,
     OwnersMarked, Owning, RecordOf, SetRecord, Goto, CountPublication,
     Publish
<1>5. ASSUME NEW d \in Deliverers, Complete(d) PROVE PublicationsPaid'
  BY <1>5, <1>d DEF TypeOK, Executing, PublicationsPaid, OneOwner,
     OwnersMarked, Owning, RecordOf, SetRecord, Goto, Complete
<1>6. ASSUME NEW d \in Deliverers, SetFailed(d) PROVE PublicationsPaid'
  BY <1>6, <1>d DEF TypeOK, Executing, PublicationsPaid, OneOwner,
     OwnersMarked, Owning, RecordOf, SetRecord, Goto, SetFailed
<1>7. ASSUME NEW d \in Deliverers, AuditSuccess(d) PROVE PublicationsPaid'
  BY <1>7, <1>d DEF TypeOK, Executing, PublicationsPaid, OneOwner,
     OwnersMarked, Owning, RecordOf, SetRecord, Goto, SaveRaw, AuditSuccess
<1>8. ASSUME NEW d \in Deliverers, AuditRejected(d) PROVE PublicationsPaid'
  BY <1>8, <1>d DEF TypeOK, Executing, PublicationsPaid, OneOwner,
     OwnersMarked, Owning, RecordOf, SetRecord, Goto, SaveRaw, AuditRejected
<1>9. ASSUME NEW d \in Deliverers, VerifyFails(d) PROVE PublicationsPaid'
  BY <1>9, <1>d DEF TypeOK, Executing, PublicationsPaid, OneOwner,
     OwnersMarked, Owning, RecordOf, SetRecord, Goto, Fault, VerifyFails
<1>10. ASSUME NEW d \in Deliverers, BeginFails(d) PROVE PublicationsPaid'
  BY <1>10, <1>d DEF TypeOK, Executing, PublicationsPaid, OneOwner,
     OwnersMarked, Owning, RecordOf, SetRecord, Goto, MayStart, Fault,
     BeginFails
<1>11. ASSUME NEW d \in Deliverers, PublishFails(d) PROVE PublicationsPaid'
  BY <1>11, <1>d DEF TypeOK, Executing, PublicationsPaid, OneOwner,
     OwnersMarked, Owning, RecordOf, SetRecord, Goto, CountPublication,
     Fault, PublishFails
<1>12. ASSUME NEW d \in Deliverers, CompleteFails(d) PROVE PublicationsPaid'
  BY <1>12, <1>d DEF TypeOK, Executing, PublicationsPaid, OneOwner,
     OwnersMarked, Owning, RecordOf, SetRecord, Goto, Fault, CompleteFails
<1>13. ASSUME NEW d \in Deliverers, SetFailedFails(d) PROVE PublicationsPaid'
  BY <1>13, <1>d DEF TypeOK, Executing, PublicationsPaid, OneOwner,
     OwnersMarked, Owning, RecordOf, SetRecord, Goto, Fault, SetFailedFails
<1>14. ASSUME NEW d \in Deliverers, AuditSuccessFails(d) PROVE PublicationsPaid'
  BY <1>14, <1>d DEF TypeOK, Executing, PublicationsPaid, OneOwner,
     OwnersMarked, Owning, RecordOf, SetRecord, Goto, SaveRaw, Fault,
     AuditSuccessFails
<1>15. ASSUME NEW d \in Deliverers, AuditRejectedFails(d) PROVE PublicationsPaid'
  BY <1>15, <1>d DEF TypeOK, Executing, PublicationsPaid, OneOwner,
     OwnersMarked, Owning, RecordOf, SetRecord, Goto, Fault,
     AuditRejectedFails
<1>16. ASSUME NEW d \in Deliverers, Crash(d) PROVE PublicationsPaid'
  BY <1>16, <1>d DEF TypeOK, Executing, PublicationsPaid, OneOwner,
     OwnersMarked, Owning, RecordOf, SetRecord, Goto, Fault, Crash
<1> QED
  BY <1>u, <1>1, <1>2, <1>3, <1>4, <1>5, <1>6, <1>7, <1>8, <1>9, <1>10,
     <1>11, <1>12, <1>13, <1>14, <1>15, <1>16 DEF Next, Progress

\* An event is published once, and once more for a fault at most.
THEOREM PublicationsBounded == Spec => []PublishedBounded
<1> DEFINE IInv == OneOwner /\ OwnersMarked /\ PublicationsPaid
<1>1. Init => IInv
  BY DEF Init, OneOwner, OwnersMarked, PublicationsPaid, Owning, Executing
<1>2. TypeOK /\ IInv /\ [Next]_vars => IInv'
  BY OwnershipStep, PaymentStep
<1>3. IInv => PublishedBounded
  BY DEF PublicationsPaid, PublishedBounded
<1> HIDE DEF IInv
<1> QED
  BY <1>1, <1>2, <1>3, WebhookTypes, PTL DEF Spec

-----------------------------------------------------------------------------
(* An execution that is cut short. *)

\* The record of an abandoned event is written by nobody: only an execution
\* writes it, and none begins while it says that one is in progress.
LEMMA AbandonedStep ==
  ASSUME TypeOK, NEW e \in Events, Abandoned(e), [Next]_vars
  PROVE  /\ Abandoned(e)'
         /\ \A d \in Deliverers :
              EventOf[d] = e /\ pc'[d] \in {"processed", "duplicate"} => pc'[d] = pc[d]
<1> DEFINE Kept == /\ Abandoned(e)'
                   /\ \A d \in Deliverers :
                        EventOf[d] = e /\ pc'[d] \in {"processed", "duplicate"}
                          => pc'[d] = pc[d]
<1> SUFFICES Kept
  OBVIOUS
<1>t. records \in [Events -> {"absent", "processing", "completed", "failed"}]
      /\ pc \in [Deliverers -> Steps]
  BY DEF TypeOK
<1>d. ASSUME NEW d \in Deliverers PROVE EventOf[d] \in Events
  OBVIOUS
<1>u. CASE UNCHANGED vars
  BY <1>u DEF vars, Abandoned
<1>1. ASSUME NEW d \in Deliverers,
             \/ Deliver(d) \/ Verify(d) \/ VerifyFails(d) \/ AuditSuccess(d)
             \/ AuditSuccessFails(d) \/ AuditRejected(d) \/ AuditRejectedFails(d)
             \/ Crash(d)
      PROVE  Kept
  <2>1. records' = records
    BY <1>1 DEF Deliver, Verify, VerifyFails, AuditSuccess, AuditSuccessFails,
       AuditRejected, AuditRejectedFails, Crash
  <2>2. \E step \in {"idle", "verifying", "calling", "rejecting"} :
          pc' = [pc EXCEPT ![d] = step]
    BY <1>1 DEF Deliver, Verify, VerifyFails, AuditSuccess, AuditSuccessFails,
       AuditRejected, AuditRejectedFails, Crash, Goto
  <2> QED
    BY <1>t, <2>1, <2>2 DEF Abandoned, Executing
<1>2. ASSUME NEW d \in Deliverers, Begin(d) \/ BeginFails(d)
      PROVE  Kept
  <2>1. CASE EventOf[d] = e
    <3>1. records' = records /\ pc' = [pc EXCEPT ![d] = "rejecting"]
      BY <1>2, <2>1 DEF Begin, BeginFails, Abandoned, MayStart, IsInProgress, RecordOf, Goto
    <3> QED
      BY <1>t, <3>1 DEF Abandoned, Executing
  <2>2. CASE EventOf[d] # e
    <3>1. records'[e] = records[e]
      BY <1>t, <1>d, <1>2, <2>2 DEF Begin, BeginFails, SetRecord
    <3>2. \A o \in Deliverers : EventOf[o] = e => pc'[o] = pc[o]
      BY <1>t, <1>2, <2>2 DEF Begin, BeginFails, Goto
    <3> QED
      BY <3>1, <3>2 DEF Abandoned
  <2> QED
    BY <2>1, <2>2
<1>3. ASSUME NEW d \in Deliverers,
             \/ Publish(d) \/ PublishFails(d) \/ Complete(d) \/ CompleteFails(d)
             \/ SetFailed(d) \/ SetFailedFails(d)
      PROVE  Kept
  <2>1. pc[d] \in Executing
    BY <1>3 DEF Publish, PublishFails, Complete, CompleteFails, SetFailed,
       SetFailedFails, Executing
  <2>2. EventOf[d] # e
    BY <2>1 DEF Abandoned
  <2>3. records'[e] = records[e]
    BY <1>t, <1>d, <1>3, <2>2 DEF Publish, PublishFails, Complete, CompleteFails,
       SetFailed, SetFailedFails, SetRecord
  <2>4. \A o \in Deliverers : EventOf[o] = e => pc'[o] = pc[o]
    BY <1>t, <1>3, <2>2 DEF Publish, PublishFails, Complete, CompleteFails,
       SetFailed, SetFailedFails, Goto
  <2> QED
    BY <2>3, <2>4 DEF Abandoned
<1> QED
  BY <1>u, <1>1, <1>2, <1>3 DEF Next, Progress

\* An event whose execution was cut short before it could record how it ended
\* stays so: no delivery of it executes it again.
THEOREM AbandonedStays ==
  ASSUME NEW e \in Events
  PROVE  Spec => [](Abandoned(e) => []Abandoned(e))
<1>1. TypeOK /\ Abandoned(e) /\ [Next]_vars => Abandoned(e)'
  BY AbandonedStep
<1> QED
  BY <1>1, WebhookTypes, PTL DEF Spec

\* The provider was not answered for the event, and no delivery of it is about
\* to be answered with success.
Unanswered(e) ==
  /\ e \notin acked
  /\ \A d \in Deliverers : EventOf[d] = e => pc[d] \notin {"processed", "duplicate"}

\* And every delivery of it that is still to come is answered with an error,
\* however often the provider retries: the exception EventuallyAcked makes
\* cannot be left out.
THEOREM AbandonedNeverAcked ==
  ASSUME NEW e \in Events
  PROVE  Spec => [](Abandoned(e) /\ Unanswered(e) => [](e \notin acked))
<1> DEFINE Lost == Abandoned(e) /\ Unanswered(e)
<1>1. TypeOK /\ Lost /\ [Next]_vars => Lost'
  <2> SUFFICES ASSUME TypeOK, Abandoned(e), Unanswered(e), [Next]_vars PROVE Lost'
    OBVIOUS
  <2>1. e \notin acked'
    <3>1. CASE \E d \in Deliverers : AuditSuccess(d)
      BY <3>1 DEF AuditSuccess, Unanswered
    <3>2. CASE UNCHANGED acked
      BY <3>2 DEF Unanswered
    <3> QED
      BY <3>1, <3>2 DEF Next, Progress, vars, Deliver, Verify, VerifyFails, Begin,
         BeginFails, Publish, PublishFails, Complete, CompleteFails, SetFailed,
         SetFailedFails, AuditSuccessFails, AuditRejected, AuditRejectedFails, Crash
  <2> QED
    BY <2>1, AbandonedStep DEF Unanswered
<1>2. Lost => e \notin acked
  BY DEF Unanswered
<1> QED
  BY <1>1, <1>2, WebhookTypes, PTL DEF Spec
=============================================================================
