---------------------------- MODULE Subscriptions ---------------------------
(***************************************************************************)
(* The commands on one subscription, from the HTTP handler down to its     *)
(* row: each is an idempotent execution that reads the subscription,       *)
(* applies the domain rule to what it read, saves the whole result,        *)
(* publishes the event and writes the audit line.  Every await is a step   *)
(* boundary, so commands of several clients interleave.                    *)
(*                                                                         *)
(* The idempotency executor is taken at the grain of its outcomes; the     *)
(* steps inside it and what can go wrong there are those of Idempotency.   *)
(***************************************************************************)
EXTENDS Naturals

CONSTANTS
  Clients,     \* HTTP clients, each with one request under way
  Keys,        \* idempotency keys
  Plans,       \* plans
  Commands,    \* the commands clients may send
  None,        \* an absent row, record or request
  Drivers,     \* of "memory" and "postgres"
  FaultKinds,  \* the faults that may happen
  Stamps,      \* what the handler adds to a command: the time, a trace id
  MaxFaults    \* bound: how many faults may happen in a behaviour

Kinds == {"create", "upgrade", "downgrade", "cancel_now", "cancel_at_period_end"}

\* at is the end of the period to create, effectiveAt or canceledAt.
CommandType ==
  [kind : Kinds, key : Keys, plan : Plans, trial : BOOLEAN, from : Nat, at : Nat]

\* What the handler passes on: the command, and a context with the time it was
\* received at and the trace id, which is generated where the client sends none.
Requests == [command : Commands, stamp : Stamps]

ASSUME ConstantsAssumption ==
  /\ Commands \subseteq CommandType
  /\ None \notin Requests
  /\ Drivers \subseteq {"memory", "postgres"}
  /\ FaultKinds \subseteq {"read", "save", "publish", "audit", "complete", "crash"}
  /\ MaxFaults \in Nat

VARIABLES
  driver,   \* the persistence that is deployed; it never changes
  row,      \* the stored subscription
  records,  \* the idempotency record of each scope and key
  pc,       \* where each client's request is, or how its last one ended
  req,      \* the request each client has under way, if any
  seen,     \* the subscription a request read
  draft,    \* the subscription a request is to save
  saved,    \* the requests whose change was stored
  events,   \* the requests whose event was published
  audits,   \* the requests whose audit line was written
  answers,  \* the requests answered with success
  faults    \* how many faults happened

vars == <<driver, row, records, pc, req, seen, draft, saved, events, audits,
          answers, faults>>

Lifecycle == INSTANCE SubscriptionLifecycle

Rows == Lifecycle!Rows

ASSUME NoneAssumption == None \notin Rows

Scopes == Kinds \X Keys

\* A client at rest; the refusal of a key used with another input is told
\* apart from the other ways a request may have ended.
Resting == {"idle", "conflict"}
InFlight ==
  {"reading", "saving", "publishing", "auditing", "completing", "failing"}
Steps == Resting \cup {"calling"} \cup InFlight

Records ==
  [status : {"absent", "processing", "completed", "failed"},
   request : Requests \cup {None}]
Absent == [status |-> "absent", request |-> None]

TypeOK ==
  /\ driver \in Drivers
  /\ row \in Rows \cup {None}
  /\ records \in [Scopes -> Records]
  /\ pc \in [Clients -> Steps]
  /\ req \in [Clients -> Requests \cup {None}]
  /\ \A c \in Clients : pc[c] \in Resting <=> req[c] = None
  /\ seen \in [Clients -> Rows \cup {None}]
  /\ draft \in [Clients -> Rows \cup {None}]
  /\ \A c \in Clients : (pc[c] = "saving") <=> (draft[c] # None)
  /\ saved \subseteq Requests
  /\ events \subseteq Requests
  /\ audits \subseteq Requests
  /\ answers \subseteq Requests
  /\ faults \in Nat

Init ==
  /\ driver \in Drivers
  /\ row = None
  /\ records = [k \in Scopes |-> Absent]
  /\ pc = [c \in Clients |-> "idle"]
  /\ req = [c \in Clients |-> None]
  /\ seen = [c \in Clients |-> None]
  /\ draft = [c \in Clients |-> None]
  /\ saved = {} /\ events = {} /\ audits = {} /\ answers = {}
  /\ faults = 0

-----------------------------------------------------------------------------
(* The domain rules. *)

\* ALLOWED_STATUS_TRANSITIONS
Allowed ==
  [trialing |-> {"active", "past_due", "canceled"},
   active |-> {"past_due", "canceled"},
   past_due |-> {"active", "canceled"},
   canceled |-> {}]

InCurrentPeriod(s, t) == s.from <= t /\ t <= s.to

createSubscriptionAggregate(m) ==
  [status |-> IF m.trial THEN "trialing" ELSE "active",
   plan |-> m.plan, atPeriodEnd |-> FALSE, from |-> m.from, to |-> m.at]

\* Variant: a canceled subscription may change plan.
MayChangeAnyPlan(s, m) == InCurrentPeriod(s, m.at)
MayChangePlan(s, m) == s.status # "canceled" /\ InCurrentPeriod(s, m.at)

\* applyUpgrade and applyDowngrade make the same change.
applyUpgrade(s, m) == [s EXCEPT !.plan = m.plan]

MayCancelNow(s) == "canceled" \in Allowed[s.status]
applyCancelNow(s, m) ==
  [s EXCEPT !.status = "canceled", !.atPeriodEnd = FALSE, !.to = m.at]

MayCancelAtPeriodEnd(s) == s.status # "canceled"
applyCancelAtPeriodEnd(s) == [s EXCEPT !.atPeriodEnd = TRUE]

\* The command m is allowed on the subscription s, as it was read, and what it
\* makes of it.
MayApply(m, s) ==
  \/ m.kind = "create" /\ s = None
  \/ /\ s # None
     /\ \/ m.kind \in {"upgrade", "downgrade"} /\ MayChangePlan(s, m)
        \/ m.kind = "cancel_now" /\ MayCancelNow(s)
        \/ m.kind = "cancel_at_period_end" /\ MayCancelAtPeriodEnd(s)

Apply(m, s) ==
  CASE m.kind = "create" -> createSubscriptionAggregate(m)
    [] m.kind \in {"upgrade", "downgrade"} -> applyUpgrade(s, m)
    [] m.kind = "cancel_now" -> applyCancelNow(s, m)
    [] m.kind = "cancel_at_period_end" -> applyCancelAtPeriodEnd(s)

-----------------------------------------------------------------------------
(* Helpers. *)

Command(c) == req[c].command
ScopeOf(c) == <<Command(c).kind, Command(c).key>>
RecordOf(c) == records[ScopeOf(c)]
SetRecord(c, status) ==
  records' = [records EXCEPT ![ScopeOf(c)] = [status |-> status, request |-> req[c]]]
Goto(c, step) == pc' = [pc EXCEPT ![c] = step] /\ UNCHANGED driver

\* A fault of this kind happens, within the bound.
Fault(kind) ==
  /\ kind \in FaultKinds
  /\ faults < MaxFaults
  /\ faults' = faults + 1

\* The request of a client ends.
End(c, how) == Goto(c, how) /\ req' = [req EXCEPT ![c] = None]

\* Variant: what a request is to save is kept.
ForgetSeen(c) ==
  /\ seen' = [seen EXCEPT ![c] = None]
  /\ UNCHANGED draft

\* What a request read and is to save is not used again.
Forget(c) ==
  /\ seen' = [seen EXCEPT ![c] = None]
  /\ draft' = [draft EXCEPT ![c] = None]

\* Nothing is stored, published, audited or answered.
Nothing == UNCHANGED <<row, records, saved, events, audits, answers>>

-----------------------------------------------------------------------------
(* The handler and the idempotency executor. *)

\* A client sends a command, a new one or one it sent before; the handler
\* stamps it afresh.
Send(c) ==
  /\ pc[c] \in Resting
  /\ \E r \in Requests : req' = [req EXCEPT ![c] = r]
  /\ Goto(c, "calling")
  /\ Nothing
  /\ UNCHANGED <<seen, draft, faults>>

\* The fingerprint of a call is the whole input, context and all.
SameFingerprint(c) == RecordOf(c).request = req[c]

Begin(c) ==
  /\ pc[c] = "calling"
  /\ \/ RecordOf(c).status = "absent"
     \/ RecordOf(c).status = "failed" /\ SameFingerprint(c)
  /\ SetRecord(c, "processing")
  /\ Goto(c, "reading")
  /\ UNCHANGED <<row, req, seen, draft, saved, events, audits, answers, faults>>

Refuse(c) ==
  /\ pc[c] = "calling"
  /\ RecordOf(c).status # "absent"
  /\ \/ ~SameFingerprint(c) /\ End(c, "conflict")
     \/ /\ SameFingerprint(c)
        /\ RecordOf(c).status = "processing"
        /\ End(c, "idle")
  /\ Nothing
  /\ UNCHANGED <<seen, draft, faults>>

Replay(c) ==
  /\ pc[c] = "calling"
  /\ RecordOf(c).status = "completed"
  /\ SameFingerprint(c)
  /\ answers' = answers \cup {req[c]}
  /\ End(c, "idle")
  /\ UNCHANGED <<row, records, seen, draft, saved, events, audits, faults>>

-----------------------------------------------------------------------------
(* The use case. *)

\* findById, and the domain rule applied to what it found.
Read(c) ==
  /\ pc[c] = "reading"
  /\ MayApply(Command(c), row)
  /\ draft' = [draft EXCEPT ![c] = Apply(Command(c), row)]
  /\ seen' = [seen EXCEPT ![c] = row]
  /\ Goto(c, "saving")
  /\ Nothing
  /\ UNCHANGED <<req, faults>>

\* The subscription is missing, exists already, or the rule forbids it.
Reject(c) ==
  /\ pc[c] = "reading"
  /\ ~MayApply(Command(c), row)
  /\ Goto(c, "failing")
  /\ Nothing
  /\ UNCHANGED <<req, seen, draft, faults>>

\* Variant: an insert overwrites the row that is there.
ToleratesAnyRow(c) == FALSE

\* An insert meets the primary key; the map sets the row whatever is there.
InsertFails(c) ==
  Command(c).kind = "create" /\ driver = "postgres" /\ row # None

\* The whole row is written, wherever the stored one may have gone meanwhile.
Store(c) ==
  /\ ~InsertFails(c)
  /\ row' = draft[c]
  /\ saved' = saved \cup {req[c]}

Save(c) ==
  /\ pc[c] = "saving"
  /\ \/ Store(c) /\ Goto(c, "publishing")
     \/ InsertFails(c) /\ Goto(c, "failing") /\ UNCHANGED <<row, saved>>
  /\ Forget(c)
  /\ UNCHANGED <<records, req, events, audits, answers, faults>>

Publish(c) ==
  /\ pc[c] = "publishing"
  /\ events' = events \cup {req[c]}
  /\ Goto(c, "auditing")
  /\ UNCHANGED <<row, records, req, seen, draft, saved, audits, answers, faults>>

Audit(c) ==
  /\ pc[c] = "auditing"
  /\ audits' = audits \cup {req[c]}
  /\ Goto(c, "completing")
  /\ UNCHANGED <<row, records, req, seen, draft, saved, events, answers, faults>>

Complete(c) ==
  /\ pc[c] = "completing"
  /\ SetRecord(c, "completed")
  /\ answers' = answers \cup {req[c]}
  /\ End(c, "idle")
  /\ UNCHANGED <<row, seen, draft, saved, events, audits, faults>>

Fail(c) ==
  /\ pc[c] = "failing"
  /\ SetRecord(c, "failed")
  /\ End(c, "idle")
  /\ UNCHANGED <<row, seen, draft, saved, events, audits, answers, faults>>

-----------------------------------------------------------------------------
(* What can go wrong. *)

ReadFails(c) ==
  /\ pc[c] = "reading" /\ driver = "postgres" /\ Fault("read")
  /\ Goto(c, "failing")
  /\ Nothing
  /\ UNCHANGED <<req, seen, draft>>

\* Variant: the failure goes unnoticed.
SaveFailsQuietly(c) ==
  /\ pc[c] = "saving" /\ driver = "postgres" /\ Fault("save")
  /\ Goto(c, "publishing")
  /\ Forget(c)
  /\ Nothing
  /\ UNCHANGED req

\* The transaction may have committed all the same.
SaveFails(c) ==
  /\ pc[c] = "saving" /\ driver = "postgres" /\ Fault("save")
  /\ Store(c) \/ UNCHANGED <<row, saved>>
  /\ Goto(c, "failing")
  /\ Forget(c)
  /\ UNCHANGED <<records, req, events, audits, answers>>

\* Variant: an event that cannot be published is given up.
PublishFailsQuietly(c) ==
  /\ pc[c] = "publishing" /\ Fault("publish")
  /\ Goto(c, "auditing")
  /\ Nothing
  /\ UNCHANGED <<req, seen, draft>>

\* The event may have been delivered all the same.
PublishFails(c) ==
  /\ pc[c] = "publishing" /\ Fault("publish")
  /\ events' \in {events, events \cup {req[c]}}
  /\ Goto(c, "failing")
  /\ UNCHANGED <<row, records, req, seen, draft, saved, audits, answers>>

AuditFails(c) ==
  /\ pc[c] = "auditing" /\ Fault("audit")
  /\ audits' \in {audits, audits \cup {req[c]}}
  /\ Goto(c, "failing")
  /\ UNCHANGED <<row, records, req, seen, draft, saved, events, answers>>

\* Storing the completed record fails, whether or not it was written.
CompleteFails(c) ==
  /\ pc[c] = "completing" /\ driver = "postgres" /\ Fault("complete")
  /\ UNCHANGED records \/ SetRecord(c, "completed")
  /\ Goto(c, "failing")
  /\ UNCHANGED <<row, req, seen, draft, saved, events, audits, answers>>

\* The process that serves a client dies: the database keeps what it has, and
\* nothing resumes the request.
Crash(c) ==
  /\ pc[c] \notin Resting /\ driver = "postgres" /\ Fault("crash")
  /\ End(c, "idle")
  /\ Forget(c)
  /\ Nothing

Next ==
  \E c \in Clients :
    \/ Send(c) \/ Begin(c) \/ Refuse(c) \/ Replay(c)
    \/ Read(c) \/ Reject(c) \/ Save(c) \/ Publish(c) \/ Audit(c)
    \/ Complete(c) \/ Fail(c)
    \/ ReadFails(c) \/ SaveFails(c) \/ PublishFails(c) \/ AuditFails(c)
    \/ CompleteFails(c) \/ Crash(c)

Spec == Init /\ [][Next]_vars

-----------------------------------------------------------------------------
(* Properties. *)

\* A save departs from the subscription's lifecycle only when another command
\* saved between its read and its save: commands that do not overlap keep
\* SubscriptionLifecycle, whatever fails and however often they are retried.
StaleSave(c) == pc[c] = "saving" /\ seen[c] # row /\ row' = draft[c]
OnlyStaleSavesDeviate ==
  /\ Lifecycle!Init
  /\ [][Lifecycle!Next \/ \E c \in Clients : StaleSave(c)]_row

\* A command answered with success, by its execution or by a replay, has had
\* its change stored, its event published and its audit line written.
AnsweredInFull == answers \subseteq saved \cap events \cap audits

\* No event and no audit line tell of a change that was not stored.
EventsTellOfSaves == events \cup audits \subseteq saved

\* On Postgres one request at most has created the subscription, however many
\* race to do so.
OneCreation ==
  driver = "postgres" =>
    \A r1, r2 \in saved :
      r1.command.kind = "create" /\ r2.command.kind = "create" => r1 = r2

\* A canceled subscription stays canceled (assertTransitionAllowed, and the
\* test that a canceled subscription cannot be made active).
CanceledIsFinal ==
  [][row # None /\ row.status = "canceled" => row'.status = "canceled"]_row

\* Why they hold: the invariants of the proofs.

\* What a request is to save is what its command made of what it read.
DraftsApply ==
  \A c \in Clients : pc[c] = "saving" =>
    /\ MayApply(Command(c), seen[c])
    /\ draft[c] = Apply(Command(c), seen[c])

\* Never are two commands between their read and their save at once.
CommandsApart ==
  \A c, d \in Clients : pc[c] = "saving" /\ pc[d] = "saving" => c = d

\* Then the row a request saves over is the one it read.
DraftsFresh == \A c \in Clients : pc[c] = "saving" => seen[c] = row

\* A request has done what comes before the step it is at, and a completed
\* record stands for one that has done it all.
StepsInOrder ==
  /\ \A c \in Clients :
       /\ pc[c] \in {"publishing", "auditing", "completing"} => req[c] \in saved
       /\ pc[c] \in {"auditing", "completing"} => req[c] \in events
       /\ pc[c] = "completing" => req[c] \in audits
  /\ \A k \in Scopes : records[k].status = "completed" =>
       records[k].request \in saved \cap events \cap audits

\* On Postgres nothing was saved before the subscription was created.
NothingBeforeCreation == driver = "postgres" /\ row = None => saved = {}
=============================================================================
