----------------------- MODULE DialectArrival_proofs ------------------------
(***************************************************************************)
(* Proofs about DialectArrival for any tabs, dialects and deployments.     *)
(***************************************************************************)
EXTENDS DialectArrival, TLAPS

\* A dialect a bundle registers is a dialect.
LEMMA RegisteredIsDialect ==
    ASSUME NEW d \in Deployments, NEW id \in d.registry
    PROVE  id \in Dialects
  BY DEF Dialects

\* setById never leaves the registry it started in.
LEMMA SetByIdStays ==
    ASSUME NEW d \in Deployments, NEW id, NEW current \in d.registry
    PROVE  SetById(id, current, d.registry) \in d.registry
  BY DEF SetById

\* A tab shows a dialect its bundle registers, whatever links it landed at,
\* whatever was stored and however releases change the registry.
THEOREM ArrivalTypeCorrect == Spec => []TypeOK
<1>1. Init => TypeOK
  BY ArrivalAssumption DEF Init, TypeOK
<1>2. TypeOK /\ [Next]_vars => TypeOK'
  <2>. SUFFICES ASSUME TypeOK, [Next]_vars PROVE TypeOK'
    OBVIOUS
  <2>1. ASSUME NEW t \in Tabs, NEW param \in Dialects \cup {None}, Land(t, param)
        PROVE  TypeOK'
    <3>. DEFINE shown == SetById(ResolveArrivalDialect(param, stored, deployed.registry),
                                 deployed.default, deployed.registry)
    <3>1. deployed \in Deployments /\ deployed.default \in deployed.registry
      BY ArrivalAssumption DEF TypeOK
    <3>2. shown \in deployed.registry /\ shown \in Dialects
      BY <3>1, SetByIdStays, RegisteredIsDialect
    <3>3. /\ active' = [active EXCEPT ![t] = shown]
          /\ bundle' = [bundle EXCEPT ![t] = deployed]
          /\ toggled' = [toggled EXCEPT ![t] = None]
      BY <2>1 DEF Land, Apply
    <3>4. stored' \in Dialects \cup {None} /\ lastMove' \in Dialects \cup {None}
      BY <2>1, <3>2 DEF Land, Apply, Persisted, TypeOK
    <3>5. \A u \in Tabs : bundle'[u] # None => active'[u] \in bundle'[u].registry
      BY <3>2, <3>3 DEF TypeOK
    <3>. HIDE DEF shown
    <3>. QED
      BY <2>1, <3>1, <3>2, <3>3, <3>4, <3>5 DEF Land, TypeOK
  <2>2. ASSUME NEW t \in Tabs, NEW param \in Dialects \cup {None}, Navigate(t, param)
        PROVE  TypeOK'
    BY <2>2 DEF Navigate, Untracked, TypeOK
  <2>3. ASSUME NEW t \in Tabs, NEW id \in Dialects, Toggle(t, id) PROVE TypeOK'
    BY <2>3 DEF Toggle, Persisted, TypeOK
  <2>4. CASE Deploy
    BY <2>4 DEF Deploy, TypeOK
  <2>5. CASE UNCHANGED vars
    BY <2>5 DEF vars, TypeOK
  <2>. QED
    BY <2>1, <2>2, <2>3, <2>4, <2>5 DEF Next
<1>. QED
  BY <1>1, <1>2, PTL DEF Spec

\* A choice made in a session stands until the next one or the next landing.
THEOREM ChoiceAlwaysStands == Spec => []ChoiceStands
<1>1. Init => ChoiceStands
  BY DEF Init, ChoiceStands
<1>2. TypeOK /\ ChoiceStands /\ [Next]_vars => ChoiceStands'
  <2>. SUFFICES ASSUME TypeOK, ChoiceStands, [Next]_vars PROVE ChoiceStands'
    OBVIOUS
  <2>1. ASSUME NEW t \in Tabs, NEW param \in Dialects \cup {None}, Land(t, param)
        PROVE  ChoiceStands'
    BY <2>1 DEF Land, Apply, TypeOK, ChoiceStands
  <2>2. ASSUME NEW t \in Tabs, NEW param \in Dialects \cup {None}, Navigate(t, param)
        PROVE  ChoiceStands'
    BY <2>2 DEF Navigate, Untracked, ChoiceStands
  <2>3. ASSUME NEW t \in Tabs, NEW id \in Dialects, Toggle(t, id) PROVE ChoiceStands'
    BY <2>3 DEF Toggle, TypeOK, ChoiceStands
  <2>4. CASE Deploy \/ UNCHANGED vars
    BY <2>4 DEF Deploy, vars, ChoiceStands
  <2>. QED
    BY <2>1, <2>2, <2>3, <2>4 DEF Next
<1>. QED
  BY <1>1, <1>2, ArrivalTypeCorrect, PTL DEF Spec

\* If no release ever retires a dialect, storage holds what was last asked
\* for, and nothing when that was nothing or a default.
THEOREM StorageKeepsTheLastMove ==
    ASSUME \A d, e \in Deployments : d.registry = e.registry
    PROVE  Spec => []StorageIsLastMove
<1>. DEFINE Resumable == /\ StorageIsLastMove
                         /\ \A t \in Tabs : active[t] # None /\ stored = None =>
                               bundle[t] # None /\ active[t] = bundle[t].default
<1>1. Init => Resumable
  BY DEF Init, StorageIsLastMove
<1>2. TypeOK /\ Resumable /\ [Next]_vars => Resumable'
  <2>. SUFFICES ASSUME TypeOK, Resumable, [Next]_vars PROVE Resumable'
    OBVIOUS
  <2>0. \A d \in Deployments : d.registry = Dialects
    BY DEF Dialects
  <2>1. ASSUME NEW t \in Tabs, NEW param \in Dialects \cup {None}, Land(t, param)
        PROVE  Resumable'
    <3>. DEFINE shown == SetById(ResolveArrivalDialect(param, stored, deployed.registry),
                                 deployed.default, deployed.registry)
    <3>1. /\ deployed \in Deployments /\ deployed.registry = Dialects
          /\ deployed.default \in Dialects /\ None \notin Dialects
      BY <2>0, ArrivalAssumption DEF TypeOK
    <3>2. shown = IF param # None THEN param ELSE IF stored # None THEN stored
                  ELSE deployed.default
      BY <3>1 DEF SetById, ResolveArrivalDialect, TypeOK
    <3>3. /\ active' = [active EXCEPT ![t] = shown]
          /\ bundle' = [bundle EXCEPT ![t] = deployed]
          /\ stored' = Persisted(shown, stored, deployed.default)
          /\ lastMove' = IF param # None THEN param ELSE lastMove
      BY <2>1, <3>1 DEF Land, Apply
    <3>. HIDE DEF shown
    <3>4. StorageIsLastMove'
      BY <3>1, <3>2, <3>3 DEF StorageIsLastMove, Persisted
    <3>5. \A u \in Tabs : active'[u] # None /\ stored' = None =>
            bundle'[u] # None /\ active'[u] = bundle'[u].default
      BY <3>1, <3>2, <3>3, ArrivalAssumption DEF Persisted, TypeOK
    <3>. QED
      BY <3>4, <3>5
  <2>2. ASSUME NEW t \in Tabs, NEW param \in Dialects \cup {None}, Navigate(t, param)
        PROVE  Resumable'
    BY <2>2 DEF Navigate, Untracked, StorageIsLastMove
  <2>3. ASSUME NEW t \in Tabs, NEW id \in Dialects, Toggle(t, id) PROVE Resumable'
    <3>1. None \notin Dialects /\ bundle[t] \in Deployments
      BY <2>3, ArrivalAssumption DEF Toggle, TypeOK
    <3>2. StorageIsLastMove'
      BY <2>3, <3>1 DEF Toggle, Persisted, StorageIsLastMove
    <3>3. \A u \in Tabs : active'[u] # None /\ stored' = None =>
            bundle'[u] # None /\ active'[u] = bundle'[u].default
      BY <2>3, <3>1 DEF Toggle, Persisted, TypeOK
    <3>. QED
      BY <3>2, <3>3
  <2>4. CASE Deploy \/ UNCHANGED vars
    BY <2>4 DEF Deploy, vars, StorageIsLastMove
  <2>. QED
    BY <2>1, <2>2, <2>3, <2>4 DEF Next
<1>. QED
  BY <1>1, <1>2, ArrivalTypeCorrect, PTL DEF Spec
=============================================================================
