------------------------- MODULE PlanCatalogProofs --------------------------
(***************************************************************************)
(* Proofs about PlanCatalog, for any versions, editors and instants.       *)
(***************************************************************************)
EXTENDS PlanCatalog, TLAPS

LEMMA NextTyped == TypeOK /\ [Next]_vars => TypeOK'
<1> SUFFICES ASSUME TypeOK, [Next]_vars
             PROVE  TypeOK'
  OBVIOUS
<1>t. /\ versions \in [Versions -> PlanVersions \cup {None}]
      /\ listed \in [Versions -> SUBSET Versions]
      /\ calls \in [Editors -> Steps]
  BY DEF TypeOK
<1>s. [step |-> "none"] \in Steps /\ [step |-> "audit"] \in Steps
  BY DEF Steps
<1>1. ASSUME NEW e \in Editors, ListPlanVersions(e) PROVE TypeOK'
  <2>1. PICK window \in Windows :
          Goto(e, [step |-> "create", window |-> window, seen |-> {v \in Versions : Exists(v)}])
    BY <1>1 DEF ListPlanVersions
  <2>2. [step |-> "create", window |-> window, seen |-> {v \in Versions : Exists(v)}] \in Steps
    BY DEF Steps
  <2> QED
    BY <1>1, <1>t, <2>1, <2>2 DEF ListPlanVersions, Goto, TypeOK
<1>2. ASSUME NEW e \in Editors, CreatePlanVersion(e) PROVE TypeOK'
  <2>1. calls[e] \in Steps /\ calls[e].step = "create"
    BY <1>2, <1>t DEF CreatePlanVersion
  <2>2. calls[e].window \in Windows /\ calls[e].seen \in SUBSET Versions
    BY <2>1 DEF Steps
  <2>3. [status |-> "draft", window |-> calls[e].window] \in PlanVersions
    BY <2>2 DEF PlanVersions, Statuses
  <2> QED
    BY <1>2, <1>t, <1>s, <2>2, <2>3 DEF CreatePlanVersion, Goto, TypeOK
<1>3. ASSUME NEW e \in Editors, NEW status \in {"published", "deactivated"},
             GetPlanVersion(e, status)
      PROVE  TypeOK'
  <2>1. PICK v \in Versions :
          /\ Exists(v)
          /\ Goto(e, [step |-> "save", of |-> v, next |-> [versions[v] EXCEPT !.status = status]])
    BY <1>3 DEF GetPlanVersion
  <2>2. [versions[v] EXCEPT !.status = status] \in PlanVersions
    BY <1>t, <2>1 DEF Exists, PlanVersions, Statuses
  <2>3. [step |-> "save", of |-> v, next |-> [versions[v] EXCEPT !.status = status]] \in Steps
    BY <2>2 DEF Steps
  <2> QED
    BY <1>3, <1>t, <2>1, <2>3 DEF GetPlanVersion, Goto, TypeOK
<1>4. ASSUME NEW e \in Editors, SavePlanVersion(e) PROVE TypeOK'
  <2>1. calls[e] \in Steps /\ calls[e].step = "save"
    BY <1>4, <1>t DEF SavePlanVersion
  <2>2. calls[e].next \in PlanVersions
    BY <2>1 DEF Steps
  <2> QED
    BY <1>4, <1>t, <1>s, <2>2 DEF SavePlanVersion, Goto, TypeOK
<1>5. ASSUME NEW e \in Editors, Return(e) PROVE TypeOK'
  BY <1>5, <1>t, <1>s DEF Return, Goto, TypeOK
<1>6. CASE UNCHANGED vars
  BY <1>6 DEF vars, TypeOK
<1> QED
  BY <1>1, <1>2, <1>3, <1>4, <1>5, <1>6 DEF Next

\* Versions, what their creations saw and calls under way keep their types:
\* a call saves a version it has read, with a status of a version.
THEOREM TypeCorrect == Spec => []TypeOK
<1>1. Init => TypeOK
  BY DEF Init, TypeOK, Steps
<1> QED
  BY <1>1, NextTyped, PTL DEF Spec

-----------------------------------------------------------------------------
\* Two windows that are valid at one instant overlap.
LEMMA ValidTogether ==
  ASSUME NEW a \in Windows, NEW b \in Windows, NEW t \in Instants,
         IsValidAt(a, t), IsValidAt(b, t)
  PROVE  RangesOverlap(a, b)
<1>1. /\ a.startsAt \in Nat /\ a.endsAt \in Nat
      /\ b.startsAt \in Nat /\ b.endsAt \in Nat
      /\ t \in Nat
  BY CatalogAssumption DEF Windows
<1> QED
  BY <1>1 DEF IsValidAt, RangesOverlap

LEMMA NextApart == TypeOK /\ CheckedApart /\ [Next]_vars => CheckedApart'
<1> SUFFICES ASSUME TypeOK, CheckedApart, [Next]_vars
             PROVE  CheckedApart'
  OBVIOUS
<1>t. /\ versions \in [Versions -> PlanVersions \cup {None}]
      /\ listed \in [Versions -> SUBSET Versions]
      /\ calls \in [Editors -> Steps]
  BY DEF TypeOK
<1>1. ASSUME NEW e \in Editors, ListPlanVersions(e) PROVE CheckedApart'
  <2> DEFINE all == {v \in Versions : Exists(v)}
  <2>1. PICK window \in Windows :
          /\ ~ OverlapFound(window, all)
          /\ Goto(e, [step |-> "create", window |-> window, seen |-> all])
          /\ UNCHANGED <<versions, listed>>
    BY <1>1 DEF ListPlanVersions
  <2>2. \A x \in Editors :
          calls'[x] = IF x = e THEN [step |-> "create", window |-> window, seen |-> all]
                               ELSE calls[x]
    BY <1>t, <2>1 DEF Goto
  <2>3. \A v \in all : Exists(v) /\ ~ RangesOverlap(window, versions[v].window)
    BY <2>1 DEF OverlapFound
  <2> QED
    BY <2>1, <2>2, <2>3 DEF CheckedApart, Exists
<1>2. ASSUME NEW e \in Editors, CreatePlanVersion(e) PROVE CheckedApart'
  <2>1. PICK n \in Versions :
          /\ ~ Exists(n)
          /\ versions' = [versions EXCEPT ![n] = [status |-> "draft", window |-> calls[e].window]]
          /\ listed' = [listed EXCEPT ![n] = calls[e].seen]
    BY <1>2 DEF CreatePlanVersion
  <2>2. calls[e].step = "create" /\ \A x \in Editors :
          calls'[x] = IF x = e THEN [step |-> "audit"] ELSE calls[x]
    BY <1>2, <1>t DEF CreatePlanVersion, Goto
  <2>3. /\ \A v \in Versions : v # n => versions'[v] = versions[v] /\ listed'[v] = listed[v]
        /\ versions'[n] = [status |-> "draft", window |-> calls[e].window]
        /\ listed'[n] = calls[e].seen
    BY <1>t, <2>1
  <2>4. versions'[n] # None /\ versions'[n].window = calls[e].window
    <3>1. calls[e] \in Steps
      BY <1>t
    <3>2. calls[e].window \in Windows
      BY <2>2, <3>1 DEF Steps
    <3>3. versions'[n] \in PlanVersions
      BY <2>3, <3>2 DEF PlanVersions, Statuses
    <3> QED
      BY <2>3, <3>3, CatalogAssumption
  <2>5. \A v \in Versions : Exists(v) => v # n /\ versions'[v] = versions[v] /\ Exists(v)'
    BY <2>1, <2>3 DEF Exists
  <2>6. \A v \in calls[e].seen : Exists(v) /\ ~ RangesOverlap(calls[e].window, versions[v].window)
    BY <2>2 DEF CheckedApart
  <2>7. calls[e].seen \subseteq Versions
    <3>1. calls[e] \in Steps
      BY <1>t
    <3> QED
      BY <2>2, <3>1 DEF Steps
  <2>8. \A v, w \in Versions :
          Exists(v)' /\ w \in listed'[v] =>
            /\ Exists(w)'
            /\ ~ RangesOverlap(versions'[v].window, versions'[w].window)
    <3> SUFFICES ASSUME NEW v \in Versions, NEW w \in Versions, Exists(v)', w \in listed'[v]
                 PROVE  /\ Exists(w)'
                        /\ ~ RangesOverlap(versions'[v].window, versions'[w].window)
      OBVIOUS
    <3>1. CASE v = n
      BY <2>3, <2>4, <2>5, <2>6, <3>1
    <3>2. CASE v # n
      <4>1. Exists(v) /\ w \in listed[v]
        BY <2>3, <3>2 DEF Exists
      <4> QED
        BY <2>5, <4>1 DEF CheckedApart
    <3> QED
      BY <3>1, <3>2
  <2>9. \A x \in Editors :
          /\ calls'[x].step = "create" =>
               \A v \in calls'[x].seen :
                 Exists(v)' /\ ~ RangesOverlap(calls'[x].window, versions'[v].window)
          /\ calls'[x].step = "save" =>
               /\ versions'[calls'[x].of] # None
               /\ calls'[x].next.window = versions'[calls'[x].of].window
    <3> SUFFICES ASSUME NEW x \in Editors, x # e
                 PROVE  /\ calls[x].step = "create" =>
                             \A v \in calls[x].seen :
                               Exists(v)' /\ ~ RangesOverlap(calls[x].window, versions'[v].window)
                        /\ calls[x].step = "save" =>
                             /\ versions'[calls[x].of] # None
                             /\ calls[x].next.window = versions'[calls[x].of].window
      BY <2>2 DEF Exists
    <3>1. calls[x] \in Steps
      BY <1>t
    <3>2. CASE calls[x].step = "create"
      <4>1. calls[x].seen \subseteq Versions
        BY <3>1, <3>2 DEF Steps
      <4> QED
        BY <2>5, <3>2, <4>1 DEF CheckedApart
    <3>3. CASE calls[x].step = "save"
      <4>1. calls[x].of \in Versions
        BY <3>1, <3>3 DEF Steps
      <4> QED
        BY <2>5, <3>3, <4>1 DEF CheckedApart, Exists
    <3> QED
      BY <3>2, <3>3
  <2> QED
    BY <2>8, <2>9 DEF CheckedApart, Exists
<1>3. ASSUME NEW e \in Editors, NEW status, GetPlanVersion(e, status) PROVE CheckedApart'
  <2>1. PICK v \in Versions :
          /\ Exists(v)
          /\ Goto(e, [step |-> "save", of |-> v, next |-> [versions[v] EXCEPT !.status = status]])
          /\ UNCHANGED <<versions, listed>>
    BY <1>3 DEF GetPlanVersion
  <2>2. \A x \in Editors :
          calls'[x] = IF x = e
                      THEN [step |-> "save", of |-> v, next |-> [versions[v] EXCEPT !.status = status]]
                      ELSE calls[x]
    BY <1>t, <2>1 DEF Goto
  <2>3. [versions[v] EXCEPT !.status = status].window = versions[v].window
    BY <1>t, <2>1 DEF Exists, PlanVersions
  <2>4. \A x \in Editors :
          /\ calls'[x].step = "create" =>
               \A u \in calls'[x].seen :
                 Exists(u) /\ ~ RangesOverlap(calls'[x].window, versions[u].window)
          /\ calls'[x].step = "save" =>
               /\ versions[calls'[x].of] # None
               /\ calls'[x].next.window = versions[calls'[x].of].window
    <3> SUFFICES ASSUME NEW x \in Editors
                 PROVE  /\ calls'[x].step = "create" =>
                             \A u \in calls'[x].seen :
                               Exists(u) /\ ~ RangesOverlap(calls'[x].window, versions[u].window)
                        /\ calls'[x].step = "save" =>
                             /\ versions[calls'[x].of] # None
                             /\ calls'[x].next.window = versions[calls'[x].of].window
      OBVIOUS
    <3>1. CASE x = e
      <4> DEFINE next == [versions[v] EXCEPT !.status = status]
      <4> HIDE DEF next
      <4>1. calls'[x] = [step |-> "save", of |-> v, next |-> next]
        BY <2>2, <3>1 DEF next
      <4>2. next.window = versions[v].window
        BY <2>3 DEF next
      <4> QED
        BY <2>1, <4>1, <4>2 DEF Exists
    <3>2. CASE x # e
      BY <2>2, <3>2 DEF CheckedApart, Exists
    <3> QED
      BY <3>1, <3>2
  <2>5. versions' = versions /\ listed' = listed
    BY <2>1
  <2> QED
    BY <2>4, <2>5 DEF CheckedApart, Exists
<1>4. ASSUME NEW e \in Editors, SavePlanVersion(e) PROVE CheckedApart'
  <2> DEFINE n == calls[e].of
  <2>1. calls[e] \in Steps /\ calls[e].step = "save"
    BY <1>4, <1>t DEF SavePlanVersion
  <2>2. n \in Versions /\ calls[e].next \in PlanVersions
    BY <2>1 DEF Steps
  <2>3. Exists(n) /\ calls[e].next.window = versions[n].window
    BY <2>1 DEF CheckedApart
  <2>4. \A v \in Versions : versions'[v] = IF v = n THEN calls[e].next ELSE versions[v]
    BY <1>4, <1>t DEF SavePlanVersion
  <2>5. \A v \in Versions :
          /\ Exists(v)' <=> Exists(v)
          /\ Exists(v) => versions'[v].window = versions[v].window
    BY <2>2, <2>3, <2>4, CatalogAssumption DEF Exists
  <2> HIDE DEF n
  <2>6. listed' = listed /\ \A x \in Editors :
          calls'[x] = IF x = e THEN [step |-> "audit"] ELSE calls[x]
    BY <1>4, <1>t DEF SavePlanVersion, Goto
  <2>7. \A v, w \in Versions :
          Exists(v)' /\ w \in listed'[v] =>
            /\ Exists(w)'
            /\ ~ RangesOverlap(versions'[v].window, versions'[w].window)
    BY <2>5, <2>6 DEF CheckedApart
  <2>8. \A x \in Editors :
          /\ calls'[x].step = "create" =>
               \A v \in calls'[x].seen :
                 Exists(v)' /\ ~ RangesOverlap(calls'[x].window, versions'[v].window)
          /\ calls'[x].step = "save" =>
               /\ versions'[calls'[x].of] # None
               /\ calls'[x].next.window = versions'[calls'[x].of].window
    <3> SUFFICES ASSUME NEW x \in Editors, x # e
                 PROVE  /\ calls[x].step = "create" =>
                             \A v \in calls[x].seen :
                               Exists(v)' /\ ~ RangesOverlap(calls[x].window, versions'[v].window)
                        /\ calls[x].step = "save" =>
                             /\ versions'[calls[x].of] # None
                             /\ calls[x].next.window = versions'[calls[x].of].window
      BY <2>6 DEF Exists
    <3>1. calls[x] \in Steps
      BY <1>t
    <3>2. CASE calls[x].step = "create"
      <4>1. calls[x].seen \subseteq Versions
        BY <3>1, <3>2 DEF Steps
      <4> QED
        BY <2>5, <3>2, <4>1 DEF CheckedApart
    <3>3. CASE calls[x].step = "save"
      <4>1. calls[x].of \in Versions
        BY <3>1, <3>3 DEF Steps
      <4> QED
        BY <2>5, <3>3, <4>1 DEF CheckedApart, Exists
    <3> QED
      BY <3>2, <3>3
  <2> QED
    BY <2>7, <2>8 DEF CheckedApart, Exists
<1>5. ASSUME NEW e \in Editors, Return(e) PROVE CheckedApart'
  <2>1. \A x \in Editors : calls'[x] = IF x = e THEN [step |-> "none"] ELSE calls[x]
    BY <1>5, <1>t DEF Return, Goto
  <2> QED
    BY <1>5, <2>1 DEF Return, CheckedApart, Exists
<1>6. CASE UNCHANGED vars
  BY <1>6 DEF vars, CheckedApart, Exists
<1> QED
  BY <1>1, <1>2, <1>3, <1>4, <1>5, <1>6 DEF Next

\* For any editors and any windows, two versions of a plan are valid at one
\* instant only when their creations raced.
THEOREM OneVersionUnlessRaced == Spec => []OneVersionPerInstant
<1>1. Init => CheckedApart
  BY DEF Init, CheckedApart, Exists
<1>2. TypeOK /\ CheckedApart => OneVersionPerInstant
  <2> SUFFICES ASSUME TypeOK, CheckedApart, NEW t \in Instants,
                      NEW v \in ValidAt(t), NEW w \in ValidAt(t), v # w
               PROVE  Raced(v, w)
    BY DEF OneVersionPerInstant
  <2>1. /\ v \in Versions /\ Exists(v) /\ IsValidAt(versions[v].window, t)
        /\ w \in Versions /\ Exists(w) /\ IsValidAt(versions[w].window, t)
    BY DEF ValidAt
  <2>2. versions[v].window \in Windows /\ versions[w].window \in Windows
    BY <2>1 DEF TypeOK, Exists, PlanVersions
  <2>3. /\ RangesOverlap(versions[v].window, versions[w].window)
        /\ RangesOverlap(versions[w].window, versions[v].window)
    BY <2>1, <2>2, ValidTogether
  <2> QED
    BY <2>1, <2>3 DEF CheckedApart, Raced
<1> QED
  BY <1>1, <1>2, TypeCorrect, NextApart, PTL DEF Spec

-----------------------------------------------------------------------------
(* Creations that do not overlap. *)

\* Never are two creations between their check and their save at once.
CreationsApart ==
  \A e, f \in Editors :
    calls[e].step = "create" /\ calls[f].step = "create" => e = f

\* Then no two have raced, and the one that is under way has listed all the
\* versions there are.
NoneRaced ==
  /\ \A v, w \in Versions : Exists(v) /\ Exists(w) /\ v # w => ~ Raced(v, w)
  /\ \A e \in Editors : calls[e].step = "create" =>
       \A v \in Versions : Exists(v) => v \in calls[e].seen

\* A step keeps it so: only the one creation under way adds a version.
LEMMA NextNoneRaced ==
  TypeOK /\ CheckedApart /\ CreationsApart /\ NoneRaced /\ [Next]_vars => NoneRaced'
<1> SUFFICES ASSUME TypeOK, CheckedApart, CreationsApart, NoneRaced, [Next]_vars
             PROVE  NoneRaced'
  OBVIOUS
<1>t. /\ versions \in [Versions -> PlanVersions \cup {None}]
      /\ listed \in [Versions -> SUBSET Versions]
      /\ calls \in [Editors -> Steps]
  BY DEF TypeOK
<1>1. ASSUME NEW e \in Editors, ListPlanVersions(e) PROVE NoneRaced'
  <2> DEFINE all == {v \in Versions : Exists(v)}
  <2>1. /\ UNCHANGED <<versions, listed>>
        /\ \E window \in Windows :
             calls' = [calls EXCEPT ![e] = [step |-> "create", window |-> window, seen |-> all]]
    BY <1>1 DEF ListPlanVersions, Goto
  <2> QED
    BY <1>t, <2>1 DEF NoneRaced, Raced, Exists
<1>2. ASSUME NEW e \in Editors, CreatePlanVersion(e) PROVE NoneRaced'
  <2>1. PICK n \in Versions :
          /\ ~ Exists(n)
          /\ versions' = [versions EXCEPT ![n] = [status |-> "draft", window |-> calls[e].window]]
          /\ listed' = [listed EXCEPT ![n] = calls[e].seen]
    BY <1>2 DEF CreatePlanVersion
  <2>2. calls[e].step = "create" /\ calls' = [calls EXCEPT ![e] = [step |-> "audit"]]
    BY <1>2 DEF CreatePlanVersion, Goto
  <2>3. \A f \in Editors : calls'[f].step # "create"
    BY <1>t, <2>2 DEF CreationsApart
  <2>4. \A v \in Versions : v # n =>
          (Exists(v)' <=> Exists(v)) /\ listed'[v] = listed[v]
    BY <1>t, <2>1 DEF Exists
  <2>5. \A v \in Versions : v # n /\ Exists(v) => v \in listed'[n]
    BY <1>t, <2>1, <2>2 DEF NoneRaced
  <2>6. ASSUME NEW v \in Versions, NEW w \in Versions, Exists(v)', Exists(w)', v # w
        PROVE  ~ Raced(v, w)'
    BY <2>4, <2>5, <2>6 DEF NoneRaced, Raced
  <2> QED
    BY <2>3, <2>6 DEF NoneRaced
<1>3. ASSUME NEW e \in Editors,
             \/ GetPlanVersion(e, "published") \/ GetPlanVersion(e, "deactivated")
             \/ Return(e)
      PROVE  NoneRaced'
  <2>1. /\ UNCHANGED <<versions, listed>>
        /\ \E call : call.step # "create" /\ calls' = [calls EXCEPT ![e] = call]
    BY <1>3 DEF GetPlanVersion, Return, Goto
  <2> QED
    BY <1>t, <2>1 DEF NoneRaced, Raced, Exists
<1>4. ASSUME NEW e \in Editors, SavePlanVersion(e) PROVE NoneRaced'
  <2>1. /\ calls[e].step = "save"
        /\ versions' = [versions EXCEPT ![calls[e].of] = calls[e].next]
        /\ calls' = [calls EXCEPT ![e] = [step |-> "audit"]]
        /\ listed' = listed
    BY <1>4 DEF SavePlanVersion, Goto
  <2>2. Exists(calls[e].of)
    BY <2>1 DEF CheckedApart
  <2>3. \A v \in Versions : Exists(v)' => Exists(v)
    BY <1>t, <2>1, <2>2 DEF Exists
  <2>4. \A f \in Editors : calls'[f].step = "create" => calls'[f] = calls[f]
    BY <1>t, <2>1
  <2> QED
    BY <2>1, <2>3, <2>4 DEF NoneRaced, Raced
<1>5. CASE UNCHANGED vars
  BY <1>5 DEF vars, NoneRaced, Raced, Exists
<1> QED
  BY <1>1, <1>2, <1>3, <1>4, <1>5 DEF Next

\* Where no two creations are between their check and their save at once, one
\* version of the plan at most is valid at any instant, so the lookup has none
\* to choose from.
THEOREM OneVersionWhenApart ==
  Spec /\ []CreationsApart
    => [](\A t \in Instants : \A v, w \in ValidAt(t) : v = w)
<1>1. Init => CheckedApart /\ NoneRaced
  BY DEF Init, CheckedApart, NoneRaced, Exists
<1>2. OneVersionPerInstant /\ NoneRaced
        => \A t \in Instants : \A v, w \in ValidAt(t) : v = w
  BY DEF OneVersionPerInstant, NoneRaced, ValidAt
<1> QED
  BY <1>1, <1>2, TypeCorrect, NextApart, NextNoneRaced, OneVersionUnlessRaced, PTL
  DEF Spec
=============================================================================
