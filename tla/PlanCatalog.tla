---------------------------- MODULE PlanCatalog -----------------------------
(***************************************************************************)
(* The versions of a plan: creating one checks, on a list read before,     *)
(* that its validity window meets no other's; publishing and deactivating  *)
(* read a version and save it whole, whatever its status.                  *)
(*                                                                         *)
(* The repository is a port that nothing implements: its calls are taken   *)
(* to be atomic, each of them.  Plans share nothing, so one is enough.     *)
(***************************************************************************)
EXTENDS Naturals

CONSTANTS
  Versions,  \* version ids
  Editors,   \* callers of the use cases, one call at a time each
  Instants,  \* the instants of time
  Forever,   \* an instant after all others: the end of an open range
  None       \* no version

\* Nothing asks a window to end after it starts.
Windows == [startsAt : Instants, endsAt : Instants \cup {Forever}]
Statuses == {"draft", "published", "deactivated"}
PlanVersions == [status : Statuses, window : Windows]

ASSUME CatalogAssumption ==
  /\ Instants \subseteq Nat
  /\ Forever \in Nat /\ \A t \in Instants : t < Forever
  /\ None \notin PlanVersions

VARIABLES
  versions,  \* the version of each id
  listed,    \* the versions each creation's check was made against
  calls      \* what each editor's call is about to do, with what it has read

vars == <<versions, listed, calls>>

Exists(v) == versions[v] # None

\* What a call has yet to do, with what it has read.
Steps == [step : {"create"}, window : Windows, seen : SUBSET Versions]
           \cup [step : {"save"}, of : Versions, next : PlanVersions]
           \cup [step : {"audit", "none"}]

TypeOK ==
  /\ versions \in [Versions -> PlanVersions \cup {None}]
  /\ listed \in [Versions -> SUBSET Versions]
  /\ calls \in [Editors -> Steps]

Init ==
  /\ versions = [v \in Versions |-> None]
  /\ listed = [v \in Versions |-> {}]
  /\ calls = [e \in Editors |-> [step |-> "none"]]

-----------------------------------------------------------------------------
(* The rules of the domain. *)

\* Variant: a window may start when another ends.
RangesOverlapInside(a, b) == a.startsAt < b.endsAt /\ b.startsAt < a.endsAt

RangesOverlap(a, b) == a.startsAt <= b.endsAt /\ b.startsAt <= a.endsAt

\* Every version of the plan counts, whatever its status.
OverlapFound(window, vs) == \E v \in vs : RangesOverlap(window, versions[v].window)

IsValidAt(window, t) == window.startsAt <= t /\ t <= window.endsAt

\* The published versions that are valid at t; a lookup takes the one of them
\* that started last and, of several, the one the list has first.
ValidAt(t) ==
  {v \in Versions :
     Exists(v) /\ versions[v].status = "published" /\ IsValidAt(versions[v].window, t)}

-----------------------------------------------------------------------------
(* The use cases. *)

Goto(e, call) == calls' = [calls EXCEPT ![e] = call]
Resting(e) == calls[e].step = "none"

\* createPlanVersion lists the versions; where one overlaps it is refused.
ListPlanVersions(e) ==
  LET all == {v \in Versions : Exists(v)}
  IN  /\ Resting(e)
      /\ \E window \in Windows :
           /\ ~ OverlapFound(window, all)
           /\ Goto(e, [step |-> "create", window |-> window, seen |-> all])
      /\ UNCHANGED <<versions, listed>>

CreatePlanVersion(e) ==
  /\ calls[e].step = "create"
  /\ \E v \in Versions :
       /\ ~ Exists(v)
       /\ versions' = [versions EXCEPT ![v] = [status |-> "draft", window |-> calls[e].window]]
       /\ listed' = [listed EXCEPT ![v] = calls[e].seen]
  /\ Goto(e, [step |-> "audit"])

\* Variant: a version is given the status of a plan that is not offered.
GetForInactive(e, status) ==
  /\ Resting(e)
  /\ \E v \in Versions :
       /\ Exists(v)
       /\ Goto(e, [step |-> "save", of |-> v,
                   next |-> [versions[v] EXCEPT
                               !.status = IF status = "deactivated" THEN "inactive" ELSE status]])
  /\ UNCHANGED <<versions, listed>>

\* publishPlanVersion and deactivatePlanVersion; a version that is not found
\* is an error.
GetPlanVersion(e, status) ==
  /\ Resting(e)
  /\ \E v \in Versions :
       /\ Exists(v)
       /\ Goto(e, [step |-> "save", of |-> v, next |-> [versions[v] EXCEPT !.status = status]])
  /\ UNCHANGED <<versions, listed>>

SavePlanVersion(e) ==
  /\ calls[e].step = "save"
  /\ versions' = [versions EXCEPT ![calls[e].of] = calls[e].next]
  /\ Goto(e, [step |-> "audit"])
  /\ UNCHANGED listed

\* The audit line is written and the call is answered; or a call to the
\* repository or to the audit trail fails.
Return(e) ==
  /\ ~ Resting(e)
  /\ Goto(e, [step |-> "none"])
  /\ UNCHANGED <<versions, listed>>

Next ==
  \E e \in Editors :
    \/ ListPlanVersions(e) \/ CreatePlanVersion(e)
    \/ GetPlanVersion(e, "published") \/ GetPlanVersion(e, "deactivated") \/ SavePlanVersion(e)
    \/ Return(e)

Spec == Init /\ [][Next]_vars

-----------------------------------------------------------------------------
(* Properties. *)

\* Two versions neither of whose creations was checked against the other.
Raced(v, w) == v \notin listed[w] /\ w \notin listed[v]

\* The check at creation is about what lookups find: whatever was published or
\* deactivated since, two versions are valid at one instant only when their
\* creations raced, each having listed the versions before the other was saved.
OneVersionPerInstant ==
  \A t \in Instants : \A v, w \in ValidAt(t) : v # w => Raced(v, w)

\* What keeps it so: the windows never change, so versions, drafts included,
\* still stand as the check found them.
CheckedApart ==
  /\ \A v, w \in Versions :
       Exists(v) /\ Exists(w) /\ w \in listed[v] =>
         ~ RangesOverlap(versions[v].window, versions[w].window)
  /\ \A v, w \in Versions : Exists(v) /\ w \in listed[v] => Exists(w)
  /\ \A e \in Editors :
       /\ calls[e].step = "create" =>
            \A v \in calls[e].seen :
              Exists(v) /\ ~ RangesOverlap(calls[e].window, versions[v].window)
       /\ calls[e].step = "save" =>
            /\ Exists(calls[e].of)
            /\ calls[e].next.window = versions[calls[e].of].window
=============================================================================
