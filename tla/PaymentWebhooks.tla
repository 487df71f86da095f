--------------------------- MODULE PaymentWebhooks --------------------------
(***************************************************************************)
(* The processing of payment webhooks: a delivery is verified, its event   *)
(* is published through the idempotency executor, which knows events by    *)
(* provider and id, and the delivery is audited as processed, duplicate or *)
(* rejected.  The provider delivers an event again until it is answered    *)
(* with success, and sometimes after that; deliveries of one event race.   *)
(*                                                                         *)
(* Every delivery of an event has the same fingerprint, for the payload is *)
(* null, so a key is never in conflict.                                    *)
(***************************************************************************)
EXTENDS Naturals

CONSTANTS
  Deliverers,  \* each delivers one event, one delivery at a time
  Events,      \* events of the provider
  Supported,   \* the events with a canonical type
  EventOf,     \* the event of each deliverer
  None,        \* an absent event id
  Drivers,     \* of "memory" and "postgres"
  FaultKinds,  \* the faults that may happen
  MaxFaults    \* bound: how many of them may happen in a behaviour

ASSUME ConstantsAssumption ==
  /\ EventOf \in [Deliverers -> Events]
  /\ Supported \subseteq Events
  /\ None \notin Events
  /\ Drivers \subseteq {"memory", "postgres"}
  /\ FaultKinds \subseteq
       {"signature", "begin", "publish", "complete", "fail", "audit", "crash"}
  /\ MaxFaults \in Nat

VARIABLES
  driver,     \* the persistence that is deployed; it never changes
  records,    \* the status of the idempotency record of each event
  pc,         \* where each delivery is
  published,  \* how many times each event was published
  processed,  \* how many audit lines tell that an event was processed
  audits,     \* the audit lines written
  acked,      \* the events the provider was answered for with success
  faults      \* how many faults happened

vars == <<driver, records, pc, published, processed, audits, acked, faults>>

Executing == {"publishing", "completing", "failing"}
Steps ==
  {"idle", "verifying", "calling", "processed", "duplicate", "rejecting"} \cup Executing

\* A rejected line names its event only when the type is not supported.
AuditLines ==
  [event : Supported, status : {"processed", "duplicate"}]
    \cup [event : (Events \ Supported) \cup {None}, status : {"rejected"}]

TypeOK ==
  /\ driver \in Drivers
  /\ records \in [Events -> {"absent", "processing", "completed", "failed"}]
  /\ pc \in [Deliverers -> Steps]
  /\ published \in [Events -> Nat]
  /\ processed \in [Events -> Nat]
  /\ audits \subseteq AuditLines
  /\ acked \subseteq Events
  /\ faults \in Nat

Init ==
  /\ driver \in Drivers
  /\ records = [e \in Events |-> "absent"]
  /\ pc = [d \in Deliverers |-> "idle"]
  /\ published = [e \in Events |-> 0]
  /\ processed = [e \in Events |-> 0]
  /\ audits = {}
  /\ acked = {}
  /\ faults = 0

-----------------------------------------------------------------------------
(* Helpers. *)

RecordOf(d) == records[EventOf[d]]
SetRecord(d, status) == records' = [records EXCEPT ![EventOf[d]] = status]
Goto(d, step) == pc' = [pc EXCEPT ![d] = step] /\ UNCHANGED driver
CountPublication(d) == published' = [published EXCEPT ![EventOf[d]] = @ + 1]

\* A line of the audit trail; only a line that tells of an event it has
\* processed is counted.
SaveRaw(id, status) ==
  /\ audits' = audits \cup {[event |-> id, status |-> status]}
  /\ processed' = IF status = "processed"
                    THEN [processed EXCEPT ![id] = @ + 1] ELSE processed

\* A fault of this kind happens, within the bound.
Fault(kind) ==
  /\ kind \in FaultKinds
  /\ faults < MaxFaults
  /\ faults' = faults + 1

-----------------------------------------------------------------------------
(* Verification and the beginning of the execution. *)

\* The provider delivers an event, for the first time or again.
Deliver(d) ==
  /\ pc[d] = "idle"
  /\ Goto(d, "verifying")
  /\ UNCHANGED <<records, published, processed, audits, acked, faults>>

\* The signature verifies and the type is mapped, or is not supported.
Verify(d) ==
  /\ pc[d] = "verifying"
  /\ \/ EventOf[d] \in Supported /\ Goto(d, "calling")
     \/ EventOf[d] \notin Supported /\ Goto(d, "rejecting")
  /\ UNCHANGED <<records, published, processed, audits, acked, faults>>

\* The signature is missing, wrong or older than is tolerated, or the body
\* does not parse.
VerifyFails(d) ==
  /\ pc[d] = "verifying"
  /\ Fault("signature")
  /\ Goto(d, "rejecting")
  /\ UNCHANGED <<records, published, processed, audits, acked>>

\* Variant: an execution in progress does not matter.
MayStartAgain(d) == RecordOf(d) # "completed"

MayStart(d) == RecordOf(d) \in {"absent", "failed"}

\* Variant: a failed record refuses too.
RefusesFailed(d) == RecordOf(d) \in {"processing", "failed"}
IsInProgress(d) == RecordOf(d) = "processing"

Begin(d) ==
  /\ pc[d] = "calling"
  /\ \/ MayStart(d) /\ SetRecord(d, "processing") /\ Goto(d, "publishing")
     \/ IsInProgress(d) /\ Goto(d, "rejecting") /\ UNCHANGED records
     \/ RecordOf(d) = "completed" /\ Goto(d, "duplicate") /\ UNCHANGED records
  /\ UNCHANGED <<published, processed, audits, acked, faults>>

\* The store rejects begin, whose transaction may have committed all the same.
BeginFails(d) ==
  /\ pc[d] = "calling" /\ driver = "postgres" /\ Fault("begin")
  /\ \/ UNCHANGED records
     \/ MayStart(d) /\ SetRecord(d, "processing")
  /\ Goto(d, "rejecting")
  /\ UNCHANGED <<published, processed, audits, acked>>

-----------------------------------------------------------------------------
(* The execution and its outcome. *)

Publish(d) ==
  /\ pc[d] = "publishing"
  /\ CountPublication(d)
  /\ Goto(d, "completing")
  /\ UNCHANGED <<records, processed, audits, acked, faults>>

\* Variant: an event that cannot be published is given up.
PublishFailsQuietly(d) ==
  /\ pc[d] = "publishing" /\ Fault("publish")
  /\ Goto(d, "completing")
  /\ UNCHANGED <<records, published, processed, audits, acked>>

\* The event may have been delivered all the same.
PublishFails(d) ==
  /\ pc[d] = "publishing" /\ Fault("publish")
  /\ CountPublication(d) \/ UNCHANGED published
  /\ Goto(d, "failing")
  /\ UNCHANGED <<records, processed, audits, acked>>

\* Variant: the completed record is stored as failed.
CompleteAsFailed(d) ==
  /\ pc[d] = "completing"
  /\ SetRecord(d, "failed")
  /\ Goto(d, "processed")
  /\ UNCHANGED <<published, processed, audits, acked, faults>>

Complete(d) ==
  /\ pc[d] = "completing"
  /\ SetRecord(d, "completed")
  /\ Goto(d, "processed")
  /\ UNCHANGED <<published, processed, audits, acked, faults>>

\* Whether or not the completed record was written, it is set to failed.
CompleteFails(d) ==
  /\ pc[d] = "completing" /\ driver = "postgres" /\ Fault("complete")
  /\ UNCHANGED records \/ SetRecord(d, "completed")
  /\ Goto(d, "failing")
  /\ UNCHANGED <<published, processed, audits, acked>>

SetFailed(d) ==
  /\ pc[d] = "failing"
  /\ SetRecord(d, "failed")
  /\ Goto(d, "rejecting")
  /\ UNCHANGED <<published, processed, audits, acked, faults>>

\* The error of storing the failure takes the place of the failure.
SetFailedFails(d) ==
  /\ pc[d] = "failing" /\ driver = "postgres" /\ Fault("fail")
  /\ UNCHANGED records \/ SetRecord(d, "failed")
  /\ Goto(d, "rejecting")
  /\ UNCHANGED <<published, processed, audits, acked>>

-----------------------------------------------------------------------------
(* The audit trail and the answer. *)

\* A delivery that executed, or was replayed, is audited and answered with
\* success.
AuditSuccess(d) ==
  /\ pc[d] \in {"processed", "duplicate"}
  /\ SaveRaw(EventOf[d], pc[d])
  /\ acked' = acked \cup {EventOf[d]}
  /\ Goto(d, "idle")
  /\ UNCHANGED <<records, published, faults>>

\* That line is inside the try too: when it fails, whether or not it was
\* written, the delivery is audited again as rejected.
AuditSuccessFails(d) ==
  /\ pc[d] \in {"processed", "duplicate"} /\ Fault("audit")
  /\ SaveRaw(EventOf[d], pc[d]) \/ UNCHANGED <<audits, processed>>
  /\ Goto(d, "rejecting")
  /\ UNCHANGED <<records, published, acked>>

\* Variant: the event is always named.
AuditRejectedById(d) ==
  /\ pc[d] = "rejecting"
  /\ SaveRaw(EventOf[d], "rejected")
  /\ Goto(d, "idle")
  /\ UNCHANGED <<records, published, acked, faults>>

\* A rejected delivery is audited, with its event id only when the type of the
\* event is not supported, and answered with an error.
AuditRejected(d) ==
  /\ pc[d] = "rejecting"
  /\ SaveRaw(IF EventOf[d] \in Supported THEN None ELSE EventOf[d], "rejected")
  /\ Goto(d, "idle")
  /\ UNCHANGED <<records, published, acked, faults>>

AuditRejectedFails(d) ==
  /\ pc[d] = "rejecting" /\ Fault("audit")
  /\ Goto(d, "idle")
  /\ UNCHANGED <<records, published, processed, audits, acked>>

\* The process that serves a delivery dies.
Crash(d) ==
  /\ pc[d] # "idle" /\ driver = "postgres" /\ Fault("crash")
  /\ Goto(d, "idle")
  /\ UNCHANGED <<records, published, processed, audits, acked>>

-----------------------------------------------------------------------------
\* The steps of a delivery that no fault interferes with.
Progress(d) ==
  \/ Verify(d) \/ Begin(d) \/ Publish(d) \/ Complete(d) \/ SetFailed(d)
  \/ AuditSuccess(d) \/ AuditRejected(d)

Next ==
  \E d \in Deliverers :
    \/ Deliver(d) \/ Progress(d)
    \/ VerifyFails(d) \/ BeginFails(d) \/ PublishFails(d) \/ CompleteFails(d)
    \/ SetFailedFails(d) \/ AuditSuccessFails(d) \/ AuditRejectedFails(d) \/ Crash(d)

Spec == Init /\ [][Next]_vars

\* The event loop runs every continuation that is ready, and the provider
\* delivers again.
Fairness == \A d \in Deliverers : WF_vars(Progress(d)) /\ WF_vars(Deliver(d))

FairSpec == Spec /\ Fairness

-----------------------------------------------------------------------------
(* Properties. *)

\* The provider is only answered with success, and the audit trail only tells of
\* success, for events that were published: the provider may forget them.
Succeeded(e) == e \in acked \/ \E l \in audits : l.event = e /\ l.status # "rejected"
AckedIsPublished == \A e \in Events : Succeeded(e) => published[e] > 0

\* An event is told to be processed once, and every other delivery of it to be
\* a duplicate, whatever failed between.
ProcessedOnce == \A e \in Events : processed[e] <= 1

\* An event is published at most once more than things went wrong, however
\* many of its deliveries race.
PublishedBounded == \A e \in Events : published[e] <= faults + 1

\* A supported event that is delivered until it is answered is acknowledged in
\* the end, unless an execution of it was cut short before it could record how
\* it ended.
Abandoned(e) ==
  /\ records[e] = "processing"
  /\ \A d \in Deliverers : EventOf[d] = e => pc[d] \notin Executing
EventuallyAcked ==
  \A e \in Supported :
    (\E d \in Deliverers : EventOf[d] = e /\ pc[d] = "verifying")
      ~> (e \in acked \/ Abandoned(e))
=============================================================================
