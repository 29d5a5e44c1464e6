-------------------------- MODULE CmsStore_proofs ---------------------------
(***************************************************************************)
(* Proofs about CmsStore for any number of slugs, drafts, revisions,       *)
(* grammars, page loads and calls cut short.  That publishing fails closed *)
(* is proved for any number of threads over the same temporary files; the  *)
(* second half assumes the single writer of the design.                    *)
(***************************************************************************)
EXTENDS CmsStore, CommonLemmas

(* Type correctness.                                                       *)

\* A call in progress is typed by its task.
LEMMA CallTyping ==
    ASSUME TypeOK, NEW w \in Writers
    PROVE  /\ Working(w, "create") => call[w] \in Creates
           /\ Working(w, "publish") => call[w] \in Publishes
  BY DEF TypeOK, Working, Creates, Publishes

\* Every path a call writes is a path of the store.
LEMMA TargetTyping ==
    ASSUME TypeOK, NEW w \in Writers, Working(w, "create")
    PROVE  Target(w) \in Paths
  BY CallTyping DEF Creates, Target, Path, Paths

Texts == Content \cup Unreadable

\* Where a create's text may land, and what may become of it there.
Landed(w, t) ==
    /\ temps' = temps \/ temps' = [temps EXCEPT ![Target(w)] = t]
    /\ files' = files \/ files' = [files EXCEPT ![Target(w)] = t]
    /\ opened' = [opened EXCEPT ![w] = "temp"]
    /\ UNCHANGED <<publications, draftPointers>>

\* A text lands as it is or torn, under the temporary or the final name of
\* the path it was meant for, and nowhere else.
LEMMA TextLands ==
    ASSUME NEW w \in Writers, NEW text, Land(w, text)
    PROVE  Landed(w, text) \/ Landed(w, Torn)
  BY Zenon DEF Land, Landed, Over

LandedPointers(w, t) ==
    /\ draftPointers' = draftPointers \/ draftPointers' = t
    /\ publications' = publications \/ publications' = t
    /\ opened' = [opened EXCEPT ![w] = "temp"]
    /\ UNCHANGED <<files, temps>>

\* So does a text of pointers.
LEMMA PointersLand ==
    ASSUME NEW w \in Writers, NEW text, LandPointers(w, text)
    PROVE  LandedPointers(w, text) \/ LandedPointers(w, Torn)
  BY Zenon DEF LandPointers, LandedPointers, Over

\* What lands is well typed.
LEMMA LandedTyping ==
    ASSUME TypeOK, NEW w \in Writers, Working(w, "create"), NEW t \in Texts, Landed(w, t)
    PROVE  /\ files' \in [Paths -> Content \cup Unreadable \cup {Nothing}]
           /\ temps' \in [Paths -> Content \cup Unreadable \cup {Nothing}]
           /\ opened' \in [Writers -> {"temp", "final", "gone"}]
           /\ UNCHANGED <<publications, draftPointers>>
  BY TargetTyping DEF Landed, TypeOK, Texts

\* A rename leaves every thread's open file somewhere.
LEMMA AfterRenameTyping ==
    ASSUME TypeOK, NEW w \in Writers
    PROVE  AfterRename(w) \in [Writers -> {"temp", "final", "gone"}]
  BY DEF TypeOK, AfterRename

\* The store, its temporary files and the calls over it are well typed,
\* whatever is written concurrently and wherever calls are cut short.
THEOREM StoreTypeCorrect == Spec => []TypeOK
<1>1. Init => TypeOK
  BY DEF Init, TypeOK, Pointers
<1>2. TypeOK /\ [Next]_vars => TypeOK'
  <2>. SUFFICES ASSUME TypeOK, [Next]_vars PROVE TypeOK'
    OBVIOUS
  <2>1. ASSUME NEW w \in Writers, NEW s \in Slugs, NEW d \in Drafts, BeginCreate(w, s, d)
        PROVE  TypeOK'
    <3>1. [task |-> "create", slug |-> s, revision |-> NextRevision(s),
           content |-> [draft |-> d, grammar |-> grammar, passed |-> d \in Passing[grammar]],
           kind |-> "artifact", step |-> "check"] \in Creates
      BY <2>1 DEF BeginCreate, TypeOK, Creates, Content, Kinds, Steps
    <3>. QED
      BY <2>1, <3>1 DEF BeginCreate, TypeOK, store, history
  <2>2. ASSUME NEW w \in Writers, CheckUnwritten(w) PROVE TypeOK'
    <3>1. call[w] \in Creates
      BY <2>2, CallTyping DEF CheckUnwritten, At
    <3>2. [call[w] EXCEPT !.step = "open"] \in Creates
      BY <3>1 DEF Creates, Steps
    <3>. QED
      BY <2>2, <3>2 DEF CheckUnwritten, StepTo, TypeOK, store, history
  <2>14. ASSUME NEW w \in Writers, OpenTemp(w) PROVE TypeOK'
    <3>1. call[w] \in Creates /\ Target(w) \in Paths
      BY <2>14, CallTyping, TargetTyping DEF OpenTemp, At
    <3>2. [call[w] EXCEPT !.step = "write"] \in Creates
      BY <3>1 DEF Creates, Steps
    <3>. QED
      BY <2>14, <3>1, <3>2 DEF OpenTemp, StepTo, TypeOK, Unreadable, history
  <2>3. ASSUME NEW w \in Writers, WriteTemp(w) PROVE TypeOK'
    <3>1. Working(w, "create") /\ call[w] \in Creates
      BY <2>3, CallTyping DEF WriteTemp, At
    <3>2. [call[w] EXCEPT !.step = "rename"] \in Creates /\ call[w].content \in Texts
      BY <3>1 DEF Creates, Steps, Texts
    <3>3. Landed(w, call[w].content) \/ Landed(w, Torn)
      BY <2>3, TextLands DEF WriteTemp
    <3>4. /\ files' \in [Paths -> Content \cup Unreadable \cup {Nothing}]
          /\ temps' \in [Paths -> Content \cup Unreadable \cup {Nothing}]
          /\ opened' \in [Writers -> {"temp", "final", "gone"}]
          /\ UNCHANGED <<publications, draftPointers>>
      BY <3>1, <3>2, <3>3, LandedTyping DEF Texts, Unreadable
    <3>. QED
      BY <2>3, <3>2, <3>4 DEF WriteTemp, StepTo, TypeOK, history
  <2>4. ASSUME NEW w \in Writers, Rename(w) PROVE TypeOK'
    <3>1. call[w] \in Creates /\ Target(w) \in Paths
      BY <2>4, CallTyping, TargetTyping DEF Rename, At
    <3>2. /\ files' \in [Paths -> Content \cup Unreadable \cup {Nothing}]
          /\ temps' \in [Paths -> Content \cup Unreadable \cup {Nothing}]
          /\ opened' \in [Writers -> {"temp", "final", "gone"}]
      BY <2>4, <3>1, AfterRenameTyping DEF Rename, TypeOK
    <3>3. \A kind \in KindAfter(call[w]) :
            [call[w] EXCEPT !.kind = kind, !.step = "check"] \in Creates
      BY <3>1 DEF KindAfter, Creates, Kinds, Steps
    <3>4. /\ call[w].slug \in Slugs /\ call[w].revision \in Revisions
          /\ call[w].content \in Content
      BY <3>1 DEF Creates
    <3>5. \/ call' = [call EXCEPT ![w] = Nothing] /\ UNCHANGED answered
          \/ \E kind \in KindAfter(call[w]) :
               call' = [call EXCEPT ![w].kind = kind, ![w].step = "check"] /\ UNCHANGED answered
          \/ /\ call' = [call EXCEPT ![w] = Nothing]
             /\ answered' = [answered EXCEPT ![call[w].slug][call[w].revision] = call[w].content]
      BY <2>4 DEF Rename
    <3>6. call' \in [Writers -> Creates \cup Publishes \cup {Nothing}]
      <4>1. CASE call' = [call EXCEPT ![w] = Nothing]
        BY <4>1 DEF TypeOK
      <4>2. ASSUME NEW kind \in KindAfter(call[w]),
                   call' = [call EXCEPT ![w].kind = kind, ![w].step = "check"]
            PROVE  call' \in [Writers -> Creates \cup Publishes \cup {Nothing}]
        <5>1. call' = [call EXCEPT ![w] = [call[w] EXCEPT !.kind = kind, !.step = "check"]]
          BY <4>2
        <5>. QED
          BY <5>1, <3>3 DEF TypeOK
      <4>. QED
        BY <3>5, <4>1, <4>2
    <3>7. answered' \in [Slugs -> [Revisions -> Content \cup {Nothing}]]
      <4>1. CASE UNCHANGED answered
        BY <4>1 DEF TypeOK
      <4>2. CASE answered' = [answered EXCEPT ![call[w].slug][call[w].revision] = call[w].content]
        <5>1. /\ answered[call[w].slug] \in [Revisions -> Content \cup {Nothing}]
              /\ answered' = [answered EXCEPT ![call[w].slug] =
                               [answered[call[w].slug] EXCEPT ![call[w].revision] = call[w].content]]
          BY <3>4, <4>2 DEF TypeOK
        <5>2. [answered[call[w].slug] EXCEPT ![call[w].revision] = call[w].content]
                \in [Revisions -> Content \cup {Nothing}]
          BY <3>4, <5>1
        <5>. QED
          BY <5>1, <5>2 DEF TypeOK
      <4>. QED
        BY <3>5, <4>1, <4>2
    <3>. QED
      BY <2>4, <3>2, <3>6, <3>7 DEF Rename, TypeOK
  <2>5. ASSUME NEW w \in Writers, NEW s \in Slugs, NEW r \in Revisions, BeginPublish(w, s, r)
        PROVE  TypeOK'
    <3>1. [task |-> "publish", slug |-> s, revision |-> r,
           read |-> [x \in Slugs |-> Nothing], step |-> "check"] \in Publishes
      BY DEF Publishes, Pointers, Steps
    <3>. QED
      BY <2>5, <3>1 DEF BeginPublish, TypeOK, store, history
  <2>6. ASSUME NEW w \in Writers, ReadPublications(w) PROVE TypeOK'
    <3>1. call[w] \in Publishes
      BY <2>6, CallTyping DEF ReadPublications, At
    <3>2. publications \notin Unreadable =>
            [call[w] EXCEPT !.read = publications, !.step = "open"] \in Publishes
      BY <3>1 DEF Publishes, Steps, TypeOK
    <3>. QED
      BY <2>6, <3>2 DEF ReadPublications, TypeOK, store, history
  <2>15. ASSUME NEW w \in Writers, OpenPublicationsTemp(w) PROVE TypeOK'
    <3>1. call[w] \in Publishes
      BY <2>15, CallTyping DEF OpenPublicationsTemp, At
    <3>2. [call[w] EXCEPT !.step = "write"] \in Publishes
      BY <3>1 DEF Publishes, Steps
    <3>. QED
      BY <2>15, <3>2 DEF OpenPublicationsTemp, StepTo, TypeOK, Unreadable, history
  <2>7. ASSUME NEW w \in Writers, WritePublicationsTemp(w) PROVE TypeOK'
    <3>1. call[w] \in Publishes
      BY <2>7, CallTyping DEF WritePublicationsTemp, At
    <3>2. [call[w] EXCEPT !.step = "rename"] \in Publishes
      BY <3>1 DEF Publishes, Steps
    <3>. DEFINE text == Moved(call[w].read, call[w].slug, call[w].revision)
    <3>3. text \in Pointers
      BY <3>1 DEF Publishes, Moved, Pointers
    <3>4. LandedPointers(w, text) \/ LandedPointers(w, Torn)
      BY <2>7, PointersLand DEF WritePublicationsTemp
    <3>. HIDE DEF text
    <3>. QED
      BY <2>7, <3>2, <3>3, <3>4
      DEF WritePublicationsTemp, StepTo, LandedPointers, TypeOK, Unreadable, history
  <2>8. ASSUME NEW w \in Writers, RenamePublications(w) PROVE TypeOK'
    <3>1. opened' \in [Writers -> {"temp", "final", "gone"}]
      BY <2>8, AfterRenameTyping DEF RenamePublications, TypeOK
    <3>. QED
      BY <2>8, <3>1 DEF RenamePublications, TypeOK, history
  <2>9. ASSUME NEW w \in Writers, Fail(w) PROVE TypeOK'
    <3>1. \/ /\ opened' = [opened EXCEPT ![w] = "temp"]
             /\ UNCHANGED <<files, temps, publications, draftPointers>>
          \/ Working(w, "create") /\ Landed(w, Torn)
          \/ LandedPointers(w, Torn)
      BY <2>9, TextLands, PointersLand DEF Fail, At
    <3>2. /\ files' \in [Paths -> Content \cup Unreadable \cup {Nothing}]
          /\ temps' \in [Paths -> Content \cup Unreadable \cup {Nothing}]
          /\ opened' \in [Writers -> {"temp", "final", "gone"}]
          /\ publications' \in Pointers \cup Unreadable
          /\ draftPointers' \in Pointers \cup Unreadable \cup {Nothing}
      BY <3>1, LandedTyping DEF LandedPointers, Texts, Unreadable, TypeOK
    <3>3. /\ call' = [call EXCEPT ![w] = Nothing] /\ failures' = failures + 1
          /\ UNCHANGED <<grammar, loading, answered>>
      BY <2>9 DEF Fail
    <3>4. call' \in [Writers -> Creates \cup Publishes \cup {Nothing}]
      BY <3>3 DEF TypeOK
    <3>. QED
      BY <3>2, <3>3, <3>4 DEF TypeOK
  <2>10. ASSUME NEW s \in Slugs, BeginLoad(s) PROVE TypeOK'
    BY <2>10 DEF BeginLoad, TypeOK, store, history, Pointers
  <2>11. CASE EndLoad
    BY <2>11 DEF EndLoad, TypeOK, store, history
  <2>12. CASE Upgrade
    BY <2>12 DEF Upgrade, TypeOK, store, history
  <2>13. CASE UNCHANGED vars
    BY <2>13 DEF vars, TypeOK, store, history
  <2>. QED
    BY <2>1, <2>2, <2>3, <2>4, <2>5, <2>6, <2>7, <2>8, <2>9, <2>10, <2>11, <2>12, <2>13,
       <2>14, <2>15
    DEF Next
<1>. QED
  BY <1>1, <1>2, PTL DEF Spec

-----------------------------------------------------------------------------
(* Pointers resolve.                                                       *)

\* What parses is of a draft that passed.
Good(c) == c \notin Unreadable => c.passed /\ c.draft \in Passing[c.grammar]

\* Only trees of passing drafts are written, or about to be renamed in place.
TreesAreGood ==
    \A s \in Slugs, r \in Revisions :
        /\ files[Path("compiled", s, r)] # Nothing => Good(files[Path("compiled", s, r)])
        /\ temps[Path("compiled", s, r)] # Nothing => Good(temps[Path("compiled", s, r)])

\* A create carries the gate's verdict, and reaches the tree only if it passed.
VerdictsAreGates ==
    \A w \in Writers : Working(w, "create") =>
        /\ call[w].content.passed => call[w].content.draft \in Passing[call[w].content.grammar]
        /\ call[w].kind = "compiled" => call[w].content.passed

TreeInv == TypeOK /\ TreesAreGood /\ VerdictsAreGates

\* Steps that leave the files and temporary files alone, and every create
\* in progress at its content and kind, keep TreeInv.
LEMMA TreesUntouched ==
    ASSUME TreeInv, TypeOK', UNCHANGED <<files, temps>>,
           \A w \in Writers : Working(w, "create")' =>
               /\ Working(w, "create")
               /\ call'[w].content = call[w].content
               /\ call'[w].kind = call[w].kind
    PROVE  TreeInv'
  BY DEF TreeInv, TreesAreGood, VerdictsAreGates, Good, Working

\* A text of the gate's, or a torn one, leaves the trees good where it lands.
LEMMA TreesLandGood ==
    ASSUME TypeOK, TreesAreGood, NEW w \in Writers, Working(w, "create"), NEW t, Landed(w, t),
           call[w].kind = "compiled" => Good(t)
    PROVE  TreesAreGood'
<1>1. Target(w) \in Paths
  BY TargetTyping
<1>2. \A s \in Slugs, r \in Revisions :
        /\ Path("compiled", s, r) \in Paths
        /\ Path("compiled", s, r) = Target(w) => Good(t)
  BY DEF Target, Path, Paths, Kinds
<1>3. \A path \in Paths :
        /\ temps'[path] = temps[path] \/ (path = Target(w) /\ temps'[path] = t)
        /\ files'[path] = files[path] \/ (path = Target(w) /\ files'[path] = t)
  BY <1>1 DEF Landed, TypeOK
<1>. SUFFICES ASSUME NEW s \in Slugs, NEW r \in Revisions
              PROVE  /\ files'[Path("compiled", s, r)] # Nothing => Good(files'[Path("compiled", s, r)])
                     /\ temps'[Path("compiled", s, r)] # Nothing => Good(temps'[Path("compiled", s, r)])
  BY DEF TreesAreGood, Good
<1>4. PICK path \in Paths : path = Path("compiled", s, r)
  BY <1>2
<1>5. /\ files[path] # Nothing => Good(files[path])
      /\ temps[path] # Nothing => Good(temps[path])
      /\ path = Target(w) => Good(t)
  BY <1>2, <1>4, Zenon DEF TreesAreGood
<1>6. /\ temps'[path] = temps[path] \/ (path = Target(w) /\ temps'[path] = t)
      /\ files'[path] = files[path] \/ (path = Target(w) /\ files'[path] = t)
  BY <1>3
<1>. QED
  BY <1>4, <1>5, <1>6, Zenon

\* No step stores a tree the gate refused.
LEMMA TreeInvInductive == TreeInv /\ TypeOK' /\ [Next]_vars => TreeInv'
<1>. SUFFICES ASSUME TreeInv, TypeOK', [Next]_vars PROVE TreeInv'
  OBVIOUS
<1>. USE DEF TreeInv
<1>1. ASSUME NEW w \in Writers, NEW s \in Slugs, NEW d \in Drafts, BeginCreate(w, s, d)
      PROVE  TreeInv'
  <2>1. TreesAreGood'
    BY <1>1 DEF BeginCreate, store, TreesAreGood, Good
  <2>2. VerdictsAreGates'
    BY <1>1 DEF BeginCreate, VerdictsAreGates, Working, TypeOK
  <2>. QED
    BY <2>1, <2>2
<1>2. ASSUME NEW w \in Writers, CheckUnwritten(w) PROVE TreeInv'
  <2>1. /\ Working(w, "create") /\ call[w] \in Creates
        /\ call' = [call EXCEPT ![w].step = "open"] \/ call' = [call EXCEPT ![w] = Nothing]
        /\ UNCHANGED <<files, temps>>
    BY <1>2, CallTyping DEF CheckUnwritten, StepTo, At, store
  <2>2. \A v \in Writers : Working(v, "create")' =>
          /\ Working(v, "create")
          /\ call'[v].content = call[v].content
          /\ call'[v].kind = call[v].kind
    BY <2>1 DEF Working, TypeOK, Creates
  <2>. QED
    BY <2>1, <2>2, TreesUntouched
<1>12. ASSUME NEW w \in Writers, OpenTemp(w) PROVE TreeInv'
  <2>1. Working(w, "create") /\ call[w] \in Creates /\ Target(w) \in Paths
    BY <1>12, CallTyping, TargetTyping DEF OpenTemp, At
  <2>2. VerdictsAreGates'
    BY <1>12, <2>1 DEF OpenTemp, StepTo, VerdictsAreGates, Working, TypeOK, Creates
  <2>3. \A s \in Slugs, r \in Revisions : Path("compiled", s, r) \in Paths
    BY DEF Path, Paths, Kinds
  <2>4. TreesAreGood'
    BY <1>12, <2>1, <2>3 DEF OpenTemp, TreesAreGood, Good, Unreadable, TypeOK
  <2>. QED
    BY <2>2, <2>4
<1>3. ASSUME NEW w \in Writers, WriteTemp(w) PROVE TreeInv'
  <2>1. Working(w, "create") /\ call[w] \in Creates
    BY <1>3, CallTyping DEF WriteTemp, At
  <2>2. VerdictsAreGates'
    BY <1>3, <2>1 DEF WriteTemp, StepTo, VerdictsAreGates, Working, TypeOK, Creates
  <2>3. call[w].kind = "compiled" => Good(call[w].content)
    BY <2>1 DEF VerdictsAreGates, Good
  <2>4. Landed(w, call[w].content) \/ Landed(w, Torn)
    BY <1>3, TextLands DEF WriteTemp
  <2>5. TreesAreGood'
    BY <2>1, <2>3, <2>4, TreesLandGood DEF Good, Unreadable
  <2>. QED
    BY <2>2, <2>5
<1>4. ASSUME NEW w \in Writers, Rename(w) PROVE TreeInv'
  <2>1. Working(w, "create") /\ call[w] \in Creates /\ Target(w) \in Paths
    BY <1>4, CallTyping, TargetTyping DEF Rename, At
  <2>2. \A s \in Slugs, r \in Revisions : Path("compiled", s, r) \in Paths
    BY DEF Path, Paths, Kinds
  <2>3. TreesAreGood'
    <3>1. CASE UNCHANGED <<files, temps>>
      BY <3>1 DEF TreesAreGood, Good
    <3>2. CASE /\ files' = [files EXCEPT ![Target(w)] = temps[Target(w)]]
               /\ temps' = [temps EXCEPT ![Target(w)] = Nothing]
      BY <3>2, <2>1, <2>2 DEF TreesAreGood, Good, TypeOK
    <3>. QED
      BY <1>4, <3>1, <3>2 DEF Rename
  <2>4. VerdictsAreGates'
    <3>1. CASE call' = [call EXCEPT ![w] = Nothing]
      BY <3>1 DEF VerdictsAreGates, Working, TypeOK
    <3>2. ASSUME NEW kind \in KindAfter(call[w]),
                 call' = [call EXCEPT ![w].kind = kind, ![w].step = "check"]
          PROVE  VerdictsAreGates'
      <4>1. kind = "compiled" => call[w].content.passed
        BY <3>2 DEF KindAfter
      <4>2. /\ call'[w].content = call[w].content
            /\ call'[w].kind = kind
        BY <3>2, <2>1 DEF TypeOK, Creates
      <4>3. \A v \in Writers \ {w} : call'[v] = call[v]
        BY <3>2 DEF TypeOK
      <4>. QED
        BY <4>1, <4>2, <4>3, <2>1 DEF VerdictsAreGates, Working
    <3>. QED
      BY <1>4, <3>1, <3>2 DEF Rename
  <2>. QED
    BY <2>3, <2>4
<1>5. ASSUME NEW w \in Writers, NEW s \in Slugs, NEW r \in Revisions, BeginPublish(w, s, r)
      PROVE  TreeInv'
  BY <1>5, TreesUntouched DEF BeginPublish, store, Working, TypeOK
<1>6. ASSUME NEW w \in Writers, ReadPublications(w) PROVE TreeInv'
  BY <1>6, CallTyping, TreesUntouched
  DEF ReadPublications, At, store, Working, TypeOK, Publishes
<1>13. ASSUME NEW w \in Writers, OpenPublicationsTemp(w) PROVE TreeInv'
  BY <1>13, CallTyping, TreesUntouched
  DEF OpenPublicationsTemp, StepTo, At, Working, TypeOK, Publishes
<1>7. ASSUME NEW w \in Writers, WritePublicationsTemp(w) PROVE TreeInv'
  <2>1. UNCHANGED <<files, temps>>
    BY <1>7, PointersLand DEF WritePublicationsTemp, LandedPointers
  <2>. QED
    BY <1>7, <2>1, CallTyping, TreesUntouched
    DEF WritePublicationsTemp, StepTo, At, Working, TypeOK, Publishes
<1>8. ASSUME NEW w \in Writers, RenamePublications(w) PROVE TreeInv'
  BY <1>8, TreesUntouched DEF RenamePublications, Working, TypeOK
<1>9. ASSUME NEW w \in Writers, Fail(w) PROVE TreeInv'
  <2>1. call' = [call EXCEPT ![w] = Nothing]
    BY <1>9 DEF Fail
  <2>2. \A v \in Writers : Working(v, "create")' => Working(v, "create") /\ call'[v] = call[v]
    BY <2>1 DEF Working, TypeOK
  <2>3. CASE UNCHANGED <<files, temps>>
    BY <2>2, <2>3, TreesUntouched
  <2>4. CASE Working(w, "create") /\ Landed(w, Torn)
    <3>1. TreesAreGood'
      BY <2>4, TreesLandGood DEF Good, Unreadable
    <3>. QED
      BY <2>2, <3>1 DEF VerdictsAreGates
  <2>. QED
    BY <1>9, <2>3, <2>4, TextLands, PointersLand DEF Fail, At, LandedPointers
<1>10. ASSUME NEW s \in Slugs, BeginLoad(s) PROVE TreeInv'
  BY <1>10, TreesUntouched DEF BeginLoad, store, Working
<1>11. CASE EndLoad \/ Upgrade \/ UNCHANGED vars
  BY <1>11, TreesUntouched DEF EndLoad, Upgrade, vars, store, Working
<1>. QED
  BY <1>1, <1>2, <1>3, <1>4, <1>5, <1>6, <1>7, <1>8, <1>9, <1>10, <1>11, <1>12, <1>13
  DEF Next

\* No tree the gate refused is ever stored.
LEMMA TreeInvHolds == Spec => []TreeInv
<1>1. Init => TreeInv
  <2>1. Init => TypeOK
    BY DEF Init, TypeOK, Pointers
  <2>2. Init => TreesAreGood
    BY DEF Init, TreesAreGood, Path, Paths, Kinds
  <2>3. Init => VerdictsAreGates
    BY DEF Init, VerdictsAreGates, Working
  <2>. QED
    BY <2>1, <2>2, <2>3 DEF TreeInv
<1>. QED
  BY <1>1, TreeInvInductive, StoreTypeCorrect, PTL DEF Spec

\* Gated, and its lifting to pointers, over given files: what a pointer read
\* before a step says of the files after it.  A publications.json that does
\* not parse points nowhere.
GatedIn(f, s, r) == f[Path("compiled", s, r)] # Nothing /\ Good(f[Path("compiled", s, r)])
ResolvesIn(f, pointers) ==
    pointers \in Pointers =>
        \A s \in Slugs : pointers[s] # Nothing => GatedIn(f, s, pointers[s])

\* A file that is there stays there: no step removes one.
LEMMA FilesStay ==
    ASSUME TypeOK, [Next]_vars, NEW path \in Paths, files[path] # Nothing
    PROVE  files'[path] # Nothing
<1>1. CASE UNCHANGED files
  BY <1>1
<1>2. ASSUME NEW w \in Writers, Rename(w) PROVE files'[path] # Nothing
  <2>1. Target(w) \in Paths
    BY <1>2, TargetTyping DEF Rename, At
  <2>. QED
    BY <1>2, <2>1 DEF Rename, TypeOK
<1>3. ASSUME NEW w \in Writers, NEW t \in Texts, Working(w, "create"), Landed(w, t)
      PROVE  files'[path] # Nothing
  <2>1. Target(w) \in Paths /\ t # Nothing
    BY <1>3, TargetTyping, StoreAssumption DEF Texts
  <2>. QED
    BY <1>3, <2>1 DEF Landed, TypeOK
<1>4. ASSUME NEW w \in Writers, WriteTemp(w) PROVE files'[path] # Nothing
  <2>1. Working(w, "create") /\ call[w].content \in Texts
    BY <1>4, CallTyping DEF WriteTemp, At, Creates, Texts
  <2>2. Landed(w, call[w].content) \/ Landed(w, Torn)
    BY <1>4, TextLands DEF WriteTemp
  <2>. QED
    BY <1>3, <2>1, <2>2 DEF Texts, Unreadable
<1>5. ASSUME NEW w \in Writers, Fail(w) PROVE files'[path] # Nothing
  <2>1. UNCHANGED files \/ (Working(w, "create") /\ Landed(w, Torn))
    BY <1>5, TextLands, PointersLand DEF Fail, At, LandedPointers
  <2>. QED
    BY <1>1, <1>3, <2>1 DEF Texts, Unreadable
<1>6. ASSUME NEW w \in Writers, WritePublicationsTemp(w) PROVE UNCHANGED files
  BY <1>6, PointersLand DEF WritePublicationsTemp, LandedPointers
<1>7. (\A w \in Writers : ~Rename(w) /\ ~WriteTemp(w) /\ ~Fail(w) /\ ~WritePublicationsTemp(w))
        => UNCHANGED files
  BY DEF Next, vars, store, BeginCreate, CheckUnwritten, OpenTemp, BeginPublish,
         ReadPublications, OpenPublicationsTemp, RenamePublications, BeginLoad, EndLoad, Upgrade
<1>. QED
  BY <1>1, <1>2, <1>4, <1>5, <1>6, <1>7

\* A stored tree stays: what lands on it is torn or another good one.
LEMMA GatedStays ==
    ASSUME TypeOK, TreesAreGood', [Next]_vars, NEW s \in Slugs, NEW r \in Revisions,
           GatedIn(files, s, r)
    PROVE  GatedIn(files', s, r)
<1>1. files'[Path("compiled", s, r)] # Nothing
  BY FilesStay DEF GatedIn, Path, Paths, Kinds
<1>. QED
  BY <1>1 DEF GatedIn, TreesAreGood, Good

\* Pointers that resolve before a step resolve after it.
LEMMA ResolvingStays ==
    ASSUME TypeOK, TreesAreGood', [Next]_vars, NEW pointers, ResolvesIn(files, pointers)
    PROVE  ResolvesIn(files', pointers)
  BY GatedStays DEF ResolvesIn, Pointers

\* A publish in progress has checked the tree it is to point to, and has read
\* pointers that resolve.
PublishResolves(f, c) == GatedIn(f, c.slug, c.revision) /\ ResolvesIn(f, c.read)

PointerInv ==
    /\ ResolvesIn(files, publications)
    /\ ResolvesIn(files, draftPointers)
    /\ loading # Nothing => GatedIn(files, loading[1], loading[2])
    /\ \A w \in Writers : Working(w, "publish") => PublishResolves(files, call[w])

\* A file of pointers without text, or torn, or missing, points nowhere.
LEMMA NoneResolves == \A f : ResolvesIn(f, Empty) /\ ResolvesIn(f, Torn) /\ ResolvesIn(f, Nothing)
  BY StoreAssumption DEF ResolvesIn, Unreadable

\* No step breaks a pointer.
LEMMA PointerInvInductive == TreeInv /\ TreeInv' /\ PointerInv /\ [Next]_vars => PointerInv'
<1>. SUFFICES ASSUME TreeInv, TreeInv', PointerInv, [Next]_vars PROVE PointerInv'
  OBVIOUS
<1>1. ResolvesIn(files', publications)
  BY ResolvingStays DEF PointerInv, TreeInv
<1>2. ResolvesIn(files', draftPointers)
  BY ResolvingStays DEF PointerInv, TreeInv
<1>3. loading # Nothing => GatedIn(files', loading[1], loading[2])
  BY GatedStays DEF PointerInv, TreeInv, TypeOK
<1>4. \A w \in Writers : Working(w, "publish") =>
        call[w] \in Publishes /\ PublishResolves(files', call[w])
  BY CallTyping, GatedStays, ResolvingStays
  DEF PointerInv, PublishResolves, TreeInv, Publishes
<1>5. ASSUME ResolvesIn(files', publications'), ResolvesIn(files', draftPointers'),
             UNCHANGED loading,
             \A w \in Writers : Working(w, "publish")' =>
                 Working(w, "publish") /\ call'[w].slug = call[w].slug
                 /\ call'[w].revision = call[w].revision /\ call'[w].read = call[w].read
      PROVE  PointerInv'
  BY <1>3, <1>4, <1>5 DEF PointerInv, PublishResolves
<1>6. ASSUME NEW w \in Writers, NEW s \in Slugs, NEW r \in Revisions, BeginPublish(w, s, r)
      PROVE  PointerInv'
  <2>1. GatedIn(files', s, r) /\ UNCHANGED <<files, publications, draftPointers, loading>>
    BY <1>6 DEF BeginPublish, HasValidatedRevision, Readable, GatedIn, TreeInv, TreesAreGood, store
  <2>2. ResolvesIn(files', [x \in Slugs |-> Nothing])
    BY DEF ResolvesIn
  <2>3. \A v \in Writers : Working(v, "publish")' => PublishResolves(files', call'[v])
    BY <1>6, <1>4, <2>1, <2>2 DEF BeginPublish, Working, PublishResolves, TreeInv, TypeOK
  <2>. QED
    BY <1>1, <1>2, <1>3, <2>1, <2>3 DEF PointerInv
<1>7. ASSUME NEW w \in Writers, ReadPublications(w) PROVE PointerInv'
  <2>1. \A v \in Writers : Working(v, "publish")' => PublishResolves(files', call'[v])
    BY <1>7, <1>1, <1>4 DEF ReadPublications, At, Working, PublishResolves, TreeInv, TypeOK, Publishes
  <2>. QED
    BY <1>7, <1>1, <1>2, <1>3, <2>1 DEF ReadPublications, PointerInv, store
<1>18. ASSUME NEW w \in Writers, OpenPublicationsTemp(w) PROVE PointerInv'
  <2>1. ResolvesIn(files', draftPointers')
    BY <1>18, NoneResolves DEF OpenPublicationsTemp
  <2>2. \A v \in Writers : Working(v, "publish")' => PublishResolves(files', call'[v])
    BY <1>18, <1>4 DEF OpenPublicationsTemp, StepTo, At, Working, PublishResolves, TreeInv,
                      TypeOK, Publishes
  <2>. QED
    BY <1>18, <1>1, <1>3, <2>1, <2>2 DEF OpenPublicationsTemp, PointerInv
<1>8. ASSUME NEW w \in Writers, WritePublicationsTemp(w) PROVE PointerInv'
  <2>. DEFINE text == Moved(call[w].read, call[w].slug, call[w].revision)
  <2>1. Working(w, "publish") /\ call[w] \in Publishes /\ PublishResolves(files', call[w])
    BY <1>8, <1>4 DEF WritePublicationsTemp, At
  <2>2. ResolvesIn(files', text)
    BY <2>1 DEF Moved, ResolvesIn, PublishResolves, Publishes, Pointers
  <2>3. \A v \in Writers : Working(v, "publish")' => PublishResolves(files', call'[v])
    BY <1>8, <1>4 DEF WritePublicationsTemp, StepTo, At, Working, PublishResolves, TreeInv,
                      TypeOK, Publishes
  <2>4. LandedPointers(w, text) \/ LandedPointers(w, Torn)
    BY <1>8, PointersLand DEF WritePublicationsTemp
  <2>. HIDE DEF text
  <2>5. ResolvesIn(files', publications') /\ ResolvesIn(files', draftPointers')
    BY <1>1, <1>2, <2>2, <2>4, NoneResolves DEF LandedPointers
  <2>6. UNCHANGED loading
    BY <1>8 DEF WritePublicationsTemp
  <2>. QED
    BY <1>3, <2>3, <2>5, <2>6 DEF PointerInv
<1>9. ASSUME NEW w \in Writers, RenamePublications(w) PROVE PointerInv'
  <2>1. \A v \in Writers : Working(v, "publish")' => PublishResolves(files', call'[v])
    BY <1>9, <1>4 DEF RenamePublications, Working, TreeInv, TypeOK
  <2>2. ResolvesIn(files', publications') /\ ResolvesIn(files', draftPointers')
    BY <1>9, <1>1, <1>2, NoneResolves DEF RenamePublications
  <2>3. UNCHANGED loading
    BY <1>9 DEF RenamePublications
  <2>. QED
    BY <1>3, <2>1, <2>2, <2>3 DEF PointerInv
<1>10. ASSUME NEW s \in Slugs, BeginLoad(s) PROVE PointerInv'
  <2>1. /\ loading' = <<s, publications[s]>> /\ publications[s] # Nothing
        /\ publications \in Pointers
    BY <1>10 DEF BeginLoad, TreeInv, TypeOK
  <2>2. GatedIn(files', loading'[1], loading'[2])
    BY <1>1, <2>1 DEF ResolvesIn
  <2>. QED
    BY <1>10, <1>1, <1>2, <1>4, <2>2 DEF BeginLoad, PointerInv, Working, store
<1>11. CASE EndLoad \/ Upgrade
  BY <1>11, <1>1, <1>2, <1>4 DEF EndLoad, Upgrade, PointerInv, Working, store
<1>12. ASSUME NEW w \in Writers, NEW s \in Slugs, NEW d \in Drafts, BeginCreate(w, s, d)
       PROVE  PointerInv'
  BY <1>12, <1>1, <1>2, <1>5 DEF BeginCreate, Working, TreeInv, TypeOK, store
<1>13. ASSUME NEW w \in Writers, CheckUnwritten(w) PROVE PointerInv'
  <2>1. /\ Working(w, "create") /\ call[w] \in Creates
        /\ call' = [call EXCEPT ![w].step = "open"] \/ call' = [call EXCEPT ![w] = Nothing]
        /\ UNCHANGED <<files, publications, draftPointers, loading>>
    BY <1>13, CallTyping DEF CheckUnwritten, StepTo, At, store, TreeInv
  <2>2. ~Working(w, "publish")' /\ \A v \in Writers \ {w} : call'[v] = call[v]
    BY <2>1 DEF Working, TreeInv, TypeOK, Creates
  <2>3. \A v \in Writers : Working(v, "publish")' => Working(v, "publish") /\ call'[v] = call[v]
    BY <2>2 DEF Working
  <2>4. ResolvesIn(files', publications') /\ ResolvesIn(files', draftPointers')
    BY <1>1, <1>2, <2>1
  <2>. QED
    BY <1>5, <2>1, <2>3, <2>4
<1>19. ASSUME NEW w \in Writers, OpenTemp(w) PROVE PointerInv'
  BY <1>19, <1>1, <1>2, <1>5, CallTyping
  DEF OpenTemp, StepTo, At, Working, TreeInv, TypeOK, Creates
<1>14. ASSUME NEW w \in Writers, WriteTemp(w) PROVE PointerInv'
  <2>1. UNCHANGED <<publications, draftPointers, loading>>
    BY <1>14, TextLands DEF WriteTemp, Landed
  <2>. QED
    BY <1>14, <1>1, <1>2, <1>5, <2>1, CallTyping
    DEF WriteTemp, StepTo, At, Working, TreeInv, TypeOK, Creates
<1>15. ASSUME NEW w \in Writers, Rename(w) PROVE PointerInv'
  <2>1. /\ call[w].task = "create"
        /\ \/ call' = [call EXCEPT ![w] = Nothing]
           \/ \E kind \in Kinds : call' = [call EXCEPT ![w].kind = kind, ![w].step = "check"]
    BY <1>15 DEF Rename, At, Working, KindAfter, Kinds
  <2>2. call'[w] = Nothing \/ call'[w].task = "create"
    <3>1. call[w] \in Creates /\ call \in [Writers -> Creates \cup Publishes \cup {Nothing}]
      BY <1>15, CallTyping DEF Rename, At, TreeInv, TypeOK
    <3>2. \A kind \in Kinds : [call[w] EXCEPT !.kind = kind, !.step = "check"].task = "create"
      BY <3>1 DEF Creates
    <3>. QED
      BY <2>1, <3>1, <3>2
  <2>3. \A v \in Writers \ {w} : call'[v] = call[v]
    BY <2>1 DEF TreeInv, TypeOK
  <2>. QED
    BY <1>15, <1>1, <1>2, <1>5, <2>2, <2>3 DEF Rename, Working
<1>16. ASSUME NEW w \in Writers, Fail(w) PROVE PointerInv'
  <2>1. /\ publications' = publications \/ publications' = Torn
        /\ draftPointers' = draftPointers \/ draftPointers' = Torn
    BY <1>16, TextLands, PointersLand DEF Fail, Landed, LandedPointers
  <2>2. UNCHANGED loading /\ call' = [call EXCEPT ![w] = Nothing]
    BY <1>16 DEF Fail
  <2>3. ResolvesIn(files', publications') /\ ResolvesIn(files', draftPointers')
    BY <1>1, <1>2, <2>1, NoneResolves
  <2>. QED
    BY <1>5, <2>2, <2>3 DEF Working, TreeInv, TypeOK
<1>17. CASE UNCHANGED vars
  BY <1>17, <1>1, <1>2, <1>5 DEF vars, store, Working
<1>. QED
  BY <1>18, <1>19, <1>6, <1>7, <1>8, <1>9, <1>10, <1>11, <1>12, <1>13, <1>14, <1>15, <1>16, <1>17 DEF Next

\* Publishing fails closed, for any number of threads over the same temporary
\* files, crashes and releases: a pointer that can be read has its tree file,
\* and a tree that can be read was let through by the gate.
THEOREM PointersAlwaysResolve == Spec => []PointersResolve
<1>1. Init => PointerInv
  <2>1. Init => ResolvesIn(files, publications) /\ ResolvesIn(files, draftPointers)
    BY NoneResolves DEF Init, ResolvesIn
  <2>. QED
    BY <2>1 DEF Init, PointerInv, Working
<1>2. TreeInv /\ PointerInv => PointersResolve
  BY DEF PointerInv, TreeInv, TypeOK, ResolvesIn, GatedIn, Good, PointersResolve, Gated
<1>. QED
  BY <1>1, <1>2, TreeInvHolds, PointerInvInductive, PTL DEF Spec

-----------------------------------------------------------------------------
(* One writer: numbers are fresh, the files of a revision agree, answers   *)
(* stand, and the store implements RevisionLog.                            *)

\* The design's assumption: one thread at a time runs the tools.
OneWriter == \A v, w \in Writers : v = w

\* The number a create takes has no file and no temporary file yet.
LEMMA NextIsFresh ==
    ASSUME NEW s \in Slugs, NextRevision(s) \in Revisions
    PROVE  \A kind \in Kinds :
             /\ files[Path(kind, s, NextRevision(s))] = Nothing
             /\ temps[Path(kind, s, NextRevision(s))] = Nothing
<1>1. NextRevision(s) \notin Numbered(s)
  <2>1. CASE Numbered(s) = {}
    BY <2>1
  <2>2. CASE Numbered(s) # {}
    <3>1. Numbered(s) \in SUBSET (1 .. MaxRevision) /\ MaxRevision \in Nat
      BY StoreAssumption DEF Numbered, Revisions
    <3>2. \E r \in Numbered(s) : \A q \in Numbered(s) : q <= r
      BY <2>2, <3>1, Greatest
    <3>. DEFINE top == CHOOSE r \in Numbered(s) : \A q \in Numbered(s) : q <= r
    <3>3. top \in Numbered(s) /\ \A q \in Numbered(s) : q <= top
      BY <3>2
    <3>4. NextRevision(s) = top + 1
      BY <2>2 DEF NextRevision
    <3>. HIDE DEF top
    <3>5. top + 1 \notin Numbered(s)
      BY <3>1, <3>3
    <3>. QED
      BY <3>4, <3>5
  <2>. QED
    BY <2>1, <2>2
<1>. QED
  BY <1>1 DEF Numbered, Stored

-----------------------------------------------------------------------------
(* The inductive invariant of a create.                                    *)

\* The files create writes after the one it is at.
Later(kind) ==
    CASE kind = "artifact" -> {"diagnostics", "compiled"}
      [] kind = "diagnostics" -> {"compiled"}
      [] OTHER -> {}

Earlier(kind) ==
    CASE kind = "compiled" -> {"artifact", "diagnostics"}
      [] kind = "diagnostics" -> {"artifact"}
      [] OTHER -> {}

\* What a create in progress has written of its revision, what it has about
\* to be renamed, and that nothing else of the revision is there.
CreateOf(c) ==
    LET file(kind) == files[Path(kind, c.slug, c.revision)]
        temp(kind) == temps[Path(kind, c.slug, c.revision)] IN
      /\ \A kind \in Earlier(c.kind) : file(kind) = c.content
      /\ file(c.kind) = Nothing
      /\ temp(c.kind) = CASE c.step = "rename" -> c.content
                           [] c.step = "write" -> Empty
                           [] OTHER -> Nothing
      /\ \A kind \in Later(c.kind) : file(kind) = Nothing /\ temp(kind) = Nothing
      /\ answered[c.slug][c.revision] = Nothing

CreatesAreFresh == \A w \in Writers : Working(w, "create") => CreateOf(call[w])

\* Revision r of slug s is coherent, and stands by its answer, given what
\* its three files hold.
Coherent(artifact, diagnostics, compiled, answer) ==
    /\ artifact \notin Unreadable /\ diagnostics \notin Unreadable /\ compiled \notin Unreadable
    /\ compiled # Nothing => compiled = diagnostics /\ compiled.passed
    /\ diagnostics # Nothing => diagnostics = artifact
    /\ answer # Nothing => artifact = answer /\ (compiled # Nothing <=> answer.passed)

RevisionCoherent(s, r) ==
    Coherent(files[Path("artifact", s, r)], files[Path("diagnostics", s, r)],
             files[Path("compiled", s, r)], answered[s][r])

AllCoherent == \A s \in Slugs, r \in Revisions : RevisionCoherent(s, r)

\* Nobody else renames the file a thread has open.
FilesStayPut == \A w \in Writers : opened[w] = "temp"

SerialInv == CreatesAreFresh /\ AllCoherent /\ FilesStayPut

\* A step that touches no file and no answer keeps every revision coherent, and
\* every create in progress that it leaves as it was.
LEMMA RevisionsUntouched ==
    ASSUME SerialInv, UNCHANGED <<files, temps, answered>>, FilesStayPut',
           \A w \in Writers : Working(w, "create")' =>
             Working(w, "create") /\ call'[w] = call[w]
    PROVE  SerialInv'
  BY DEF SerialInv, CreatesAreFresh, CreateOf, AllCoherent, RevisionCoherent, Working

\* With one writer, a rename finds nobody with its file open, and every
\* text lands in the temporary file.
LEMMA FilesStayPutInductive ==
    ASSUME OneWriter
    PROVE  TypeOK /\ FilesStayPut /\ [Next]_vars => FilesStayPut'
<1>. SUFFICES ASSUME TypeOK, FilesStayPut, [Next]_vars PROVE FilesStayPut'
  OBVIOUS
<1>1. ASSUME NEW w \in Writers, At(w, "create", "rename") \/ At(w, "publish", "rename")
      PROVE  AfterRename(w) = opened
  BY <1>1 DEF AfterRename, At, OneWriter, TypeOK
<1>2. ASSUME NEW w \in Writers, opened' = [opened EXCEPT ![w] = "temp"] PROVE FilesStayPut'
  BY <1>2 DEF FilesStayPut, TypeOK
<1>3. ASSUME NEW w \in Writers, WriteTemp(w) \/ WritePublicationsTemp(w) \/ Fail(w)
      PROVE  FilesStayPut'
  <2>1. opened' = [opened EXCEPT ![w] = "temp"]
    BY <1>3 DEF WriteTemp, WritePublicationsTemp, Fail, Land, LandPointers
  <2>. QED
    BY <1>2, <2>1
<1>4. ASSUME NEW w \in Writers, Rename(w) \/ RenamePublications(w) PROVE FilesStayPut'
  <2>1. opened' = opened \/ opened' = AfterRename(w)
    BY <1>4 DEF Rename, RenamePublications
  <2>. QED
    BY <1>1, <1>4, <2>1 DEF Rename, RenamePublications, FilesStayPut
<1>5. (\A w \in Writers : /\ ~WriteTemp(w) /\ ~WritePublicationsTemp(w) /\ ~Fail(w)
                          /\ ~Rename(w) /\ ~RenamePublications(w))
        => UNCHANGED opened
  BY DEF Next, vars, store, BeginCreate, CheckUnwritten, OpenTemp, BeginPublish,
         ReadPublications, OpenPublicationsTemp, BeginLoad, EndLoad, Upgrade
<1>. QED
  BY <1>3, <1>4, <1>5 DEF FilesStayPut

\* A text of a create's lands in its temporary file, whole if it found that
\* empty.
LEMMA LandsInTemp ==
    ASSUME TypeOK, FilesStayPut, NEW w \in Writers, NEW text, Land(w, text)
    PROVE  /\ \E t \in Over(temps[Target(w)], text) : temps' = [temps EXCEPT ![Target(w)] = t]
           /\ UNCHANGED files
  BY DEF Land, InFile, FilesStayPut

\* So does a publish's.
LEMMA PointersLandInTemp ==
    ASSUME TypeOK, FilesStayPut, NEW w \in Writers, NEW text, LandPointers(w, text)
    PROVE  /\ draftPointers' \in Over(draftPointers, text)
           /\ UNCHANGED <<files, temps, publications>>
  BY DEF LandPointers, InFile, FilesStayPut

\* With one writer every step keeps SerialInv.
LEMMA SerialInvInductive ==
    ASSUME OneWriter
    PROVE  TreeInv /\ SerialInv /\ [Next]_vars => SerialInv'
<1>. SUFFICES ASSUME TreeInv, SerialInv, [Next]_vars PROVE SerialInv'
  OBVIOUS
<1>. USE DEF TreeInv
<1>0. FilesStayPut /\ FilesStayPut'
  BY FilesStayPutInductive DEF SerialInv
<1>1. ASSUME NEW w \in Writers, NEW s \in Slugs, NEW d \in Drafts, BeginCreate(w, s, d)
      PROVE  SerialInv'
  <2>0. PICK c : c = [task |-> "create", slug |-> s, revision |-> NextRevision(s),
                      content |-> [draft |-> d, grammar |-> grammar,
                                   passed |-> d \in Passing[grammar]],
                      kind |-> "artifact", step |-> "check"]
    OBVIOUS
  <2>1. /\ NextRevision(s) \in Revisions
        /\ call' = [call EXCEPT ![w] = c]
        /\ UNCHANGED <<files, temps, answered>>
    BY <1>1, <2>0 DEF BeginCreate, store, history
  <2>2. \A kind \in Kinds : /\ files[Path(kind, s, NextRevision(s))] = Nothing
                            /\ temps[Path(kind, s, NextRevision(s))] = Nothing
    BY <2>1, NextIsFresh
  <2>3. answered[s][NextRevision(s)] = Nothing
    BY <2>1, <2>2 DEF SerialInv, AllCoherent, RevisionCoherent, Coherent, Kinds
  <2>4. CreateOf(c)
    BY <2>0, <2>2, <2>3 DEF CreateOf, Earlier, Later, Kinds
  <2>5. CreateOf(c)'
    BY <2>1, <2>4 DEF CreateOf
  <2>6. call'[w] = c
    BY <2>1 DEF TypeOK
  <2>7. CreatesAreFresh'
    BY <2>5, <2>6 DEF CreatesAreFresh, OneWriter
  <2>8. AllCoherent'
    BY <2>1 DEF SerialInv, AllCoherent, RevisionCoherent
  <2>. QED
    BY <1>0, <2>7, <2>8 DEF SerialInv
<1>2. ASSUME NEW w \in Writers, CheckUnwritten(w) PROVE SerialInv'
  <2>1. Working(w, "create") /\ call[w].step = "check" /\ call[w] \in Creates
    BY <1>2, CallTyping DEF CheckUnwritten, At
  <2>2. PICK c : c = call[w]
    OBVIOUS
  <2>3. CreateOf(c) /\ files[Target(w)] = Nothing
    BY <2>1, <2>2 DEF SerialInv, CreatesAreFresh, CreateOf, Target
  <2>4. call' = [call EXCEPT ![w].step = "open"] /\ UNCHANGED <<files, temps, answered>>
    BY <1>2, <2>3 DEF CheckUnwritten, StepTo, store, history
  <2>5. call'[w] = [c EXCEPT !.step = "open"]
    BY <2>2, <2>4 DEF TypeOK
  <2>6. CreateOf(call[w])'
    BY <2>1, <2>2, <2>3, <2>4, <2>5 DEF CreateOf, Creates
  <2>7. CreatesAreFresh'
    BY <2>6 DEF CreatesAreFresh, OneWriter
  <2>8. AllCoherent'
    BY <2>4 DEF SerialInv, AllCoherent, RevisionCoherent
  <2>. QED
    BY <1>0, <2>7, <2>8 DEF SerialInv
<1>12. ASSUME NEW w \in Writers, OpenTemp(w) PROVE SerialInv'
  <2>1. Working(w, "create") /\ call[w].step = "open" /\ call[w] \in Creates /\ Target(w) \in Paths
    BY <1>12, CallTyping, TargetTyping DEF OpenTemp, At
  <2>2. PICK c : c = call[w]
    OBVIOUS
  <2>3. CreateOf(c)
    BY <2>1, <2>2 DEF SerialInv, CreatesAreFresh
  <2>4. /\ temps' = [temps EXCEPT ![Target(w)] = Empty]
        /\ call' = [call EXCEPT ![w].step = "write"]
        /\ UNCHANGED <<files, answered>>
    BY <1>12 DEF OpenTemp, StepTo, history
  <2>5. call'[w] = [c EXCEPT !.step = "write"]
    BY <2>2, <2>4 DEF TypeOK
  <2>6. /\ temps'[Path(c.kind, c.slug, c.revision)] = Empty
        /\ \A kind \in Later(c.kind) :
             temps'[Path(kind, c.slug, c.revision)] = temps[Path(kind, c.slug, c.revision)]
    BY <2>1, <2>2, <2>4 DEF TypeOK, Target, Path, Paths, Later, Creates, Kinds
  <2>7. CreateOf(call[w])'
    BY <2>1, <2>2, <2>3, <2>4, <2>5, <2>6 DEF CreateOf, Creates
  <2>8. CreatesAreFresh'
    BY <2>7 DEF CreatesAreFresh, OneWriter
  <2>9. AllCoherent'
    BY <2>4 DEF SerialInv, AllCoherent, RevisionCoherent
  <2>. QED
    BY <1>0, <2>8, <2>9 DEF SerialInv
<1>3. ASSUME NEW w \in Writers, WriteTemp(w) PROVE SerialInv'
  <2>1. Working(w, "create") /\ call[w].step = "write" /\ call[w] \in Creates /\ Target(w) \in Paths
    BY <1>3, CallTyping, TargetTyping DEF WriteTemp, At
  <2>2. PICK c : c = call[w]
    OBVIOUS
  <2>3. CreateOf(c)
    BY <2>1, <2>2 DEF SerialInv, CreatesAreFresh
  <2>4. /\ temps' = [temps EXCEPT ![Target(w)] = c.content]
        /\ call' = [call EXCEPT ![w].step = "rename"]
        /\ UNCHANGED <<files, answered>>
    <3>1. temps[Target(w)] = Empty
      BY <2>1, <2>2, <2>3 DEF CreateOf, Target
    <3>2. temps' = [temps EXCEPT ![Target(w)] = c.content] /\ UNCHANGED files
      BY <1>0, <1>3, <2>2, <3>1, LandsInTemp DEF WriteTemp, Over
    <3>. QED
      BY <1>3, <3>2 DEF WriteTemp, StepTo, history
  <2>5. call'[w] = [c EXCEPT !.step = "rename"]
    BY <2>2, <2>4 DEF TypeOK
  <2>6. /\ temps'[Path(c.kind, c.slug, c.revision)] = c.content
        /\ \A kind \in Later(c.kind) :
             temps'[Path(kind, c.slug, c.revision)] = temps[Path(kind, c.slug, c.revision)]
    BY <2>1, <2>2, <2>4 DEF TypeOK, Target, Path, Paths, Later, Creates, Kinds
  <2>7. CreateOf(call[w])'
    BY <2>1, <2>2, <2>3, <2>4, <2>5, <2>6 DEF CreateOf, Creates
  <2>8. CreatesAreFresh'
    BY <2>7 DEF CreatesAreFresh, OneWriter
  <2>9. AllCoherent'
    BY <2>4 DEF SerialInv, AllCoherent, RevisionCoherent
  <2>. QED
    BY <1>0, <2>8, <2>9 DEF SerialInv
<1>4. ASSUME NEW w \in Writers, Rename(w) PROVE SerialInv'
  <2>1. Working(w, "create") /\ call[w].step = "rename" /\ call[w] \in Creates /\ Target(w) \in Paths
    BY <1>4, CallTyping, TargetTyping DEF Rename, At
  <2>2. PICK c : c = call[w]
    OBVIOUS
  <2>3. /\ CreateOf(c) /\ c.kind \in Kinds /\ c.slug \in Slugs /\ c.revision \in Revisions
        /\ c.content \in Content /\ c.content # Nothing
        /\ c.content \notin Unreadable /\ Nothing \notin Unreadable
        /\ c.kind = "compiled" => c.content.passed
    BY <2>1, <2>2, StoreAssumption
    DEF SerialInv, CreatesAreFresh, Creates, VerdictsAreGates
  <2>4. temps[Target(w)] = c.content
    BY <2>1, <2>2, <2>3 DEF CreateOf, Target
  <2>5. /\ files' = [files EXCEPT ![Target(w)] = c.content]
        /\ temps' = [temps EXCEPT ![Target(w)] = Nothing]
        /\ \/ /\ \E kind \in KindAfter(c) :
                   call' = [call EXCEPT ![w].kind = kind, ![w].step = "check"]
              /\ UNCHANGED answered
           \/ /\ KindAfter(c) = {}
              /\ call' = [call EXCEPT ![w] = Nothing]
              /\ answered' = [answered EXCEPT ![c.slug][c.revision] = c.content]
    BY <1>4, <2>2, <2>3, <2>4 DEF Rename
  <2>6. \A kind \in Kinds, s \in Slugs, r \in Revisions :
          /\ files'[Path(kind, s, r)] =
               IF kind = c.kind /\ s = c.slug /\ r = c.revision
               THEN c.content ELSE files[Path(kind, s, r)]
          /\ kind # c.kind \/ s # c.slug \/ r # c.revision =>
               temps'[Path(kind, s, r)] = temps[Path(kind, s, r)]
    BY <2>1, <2>2, <2>3, <2>5 DEF TypeOK, Target, Path, Paths
  <2>7. CreatesAreFresh'
    <3>1. CASE call' = [call EXCEPT ![w] = Nothing]
      BY <3>1 DEF CreatesAreFresh, OneWriter, Working, TypeOK
    <3>2. ASSUME NEW kind \in KindAfter(c), UNCHANGED answered,
                 call' = [call EXCEPT ![w].kind = kind, ![w].step = "check"]
          PROVE  CreatesAreFresh'
      <4>1. call'[w] = [c EXCEPT !.kind = kind, !.step = "check"]
        BY <2>2, <3>2 DEF TypeOK
      <4>2. /\ call'[w].kind = kind /\ call'[w].step = "check" /\ call'[w].slug = c.slug
            /\ call'[w].revision = c.revision /\ call'[w].content = c.content
        BY <2>1, <2>2, <4>1 DEF Creates
      <4>3. \/ c.kind = "artifact" /\ kind = "diagnostics"
            \/ c.kind = "diagnostics" /\ kind = "compiled"
        BY <3>2 DEF KindAfter
      <4>4. CreateOf(call[w])'
        <5>1. /\ files'[Path(c.kind, c.slug, c.revision)] = c.content
              /\ \A k \in Earlier(c.kind) : files'[Path(k, c.slug, c.revision)] = c.content
              /\ \A k \in Later(c.kind) : /\ files'[Path(k, c.slug, c.revision)] = Nothing
                                        /\ temps'[Path(k, c.slug, c.revision)] = Nothing
              /\ answered'[c.slug][c.revision] = Nothing
          BY <2>3, <2>6, <3>2, <4>3 DEF CreateOf, Earlier, Later, Kinds
        <5>2. kind \in Later(c.kind) /\ Earlier(kind) = Earlier(c.kind) \cup {c.kind}
              /\ Later(kind) \subseteq Later(c.kind)
          BY <4>3 DEF Earlier, Later
        <5>. QED
          BY <4>2, <5>1, <5>2 DEF CreateOf
      <4>. QED
        BY <4>4 DEF CreatesAreFresh, OneWriter
    <3>. QED
      BY <2>5, <3>1, <3>2
  <2>8. AllCoherent'
    <3>. SUFFICES ASSUME NEW s \in Slugs, NEW r \in Revisions PROVE RevisionCoherent(s, r)'
      BY DEF AllCoherent
    <3>1. CASE s # c.slug \/ r # c.revision
      <4>1. answered'[s][r] = answered[s][r]
        BY <2>3, <2>5, <3>1 DEF TypeOK
      <4>. QED
        BY <2>6, <3>1, <4>1 DEF SerialInv, AllCoherent, RevisionCoherent, Kinds
    <3>2. CASE s = c.slug /\ r = c.revision
      <4>1. CASE UNCHANGED answered
        <5>1. answered'[s][r] = Nothing
          BY <2>3, <3>2, <4>1 DEF CreateOf
        <5>2. CASE c.kind = "artifact"
          BY <2>3, <2>6, <3>2, <5>1, <5>2
          DEF RevisionCoherent, Coherent, CreateOf, Later, Kinds
        <5>3. CASE c.kind = "diagnostics"
          BY <2>3, <2>6, <3>2, <5>1, <5>3
          DEF RevisionCoherent, Coherent, CreateOf, Earlier, Later, Kinds
        <5>4. CASE c.kind = "compiled"
          BY <2>3, <2>6, <3>2, <5>1, <5>4
          DEF RevisionCoherent, Coherent, CreateOf, Earlier, Kinds
        <5>. QED
          BY <2>3, <5>2, <5>3, <5>4 DEF Kinds
      <4>2. CASE KindAfter(c) = {} /\ answered' = [answered EXCEPT ![c.slug][c.revision] = c.content]
        <5>1. answered'[s][r] = c.content
          <6>1. /\ answered[c.slug] \in [Revisions -> Content \cup {Nothing}]
                /\ answered' = [answered EXCEPT ![c.slug] =
                                 [answered[c.slug] EXCEPT ![c.revision] = c.content]]
            BY <2>3, <4>2 DEF TypeOK
          <6>2. answered'[c.slug] = [answered[c.slug] EXCEPT ![c.revision] = c.content]
            BY <2>3, <6>1 DEF TypeOK
          <6>. QED
            BY <2>3, <3>2, <6>1, <6>2
        <5>2. c.kind = "compiled" \/ (c.kind = "diagnostics" /\ ~c.content.passed)
          BY <2>3, <4>2 DEF KindAfter, Kinds
        <5>. QED
          <6>1. CASE c.kind = "compiled" /\ c.content.passed
            BY <2>3, <2>6, <3>2, <5>1, <6>1
            DEF RevisionCoherent, Coherent, CreateOf, Earlier, Kinds
          <6>2. CASE c.kind = "diagnostics" /\ ~c.content.passed
            BY <2>3, <2>6, <3>2, <5>1, <6>2
            DEF RevisionCoherent, Coherent, CreateOf, Earlier, Later, Kinds
          <6>. QED
            BY <2>3, <5>2, <6>1, <6>2
      <4>. QED
        BY <2>5, <4>1, <4>2
    <3>. QED
      BY <3>1, <3>2
  <2>. QED
    BY <1>0, <2>7, <2>8 DEF SerialInv
<1>5. ASSUME NEW w \in Writers, NEW s \in Slugs, NEW r \in Revisions, BeginPublish(w, s, r)
      PROVE  SerialInv'
  BY <1>0, <1>5, RevisionsUntouched DEF BeginPublish, store, history, Working, TypeOK
<1>6. ASSUME NEW w \in Writers, ReadPublications(w) PROVE SerialInv'
  BY <1>0, <1>6, CallTyping, RevisionsUntouched
  DEF ReadPublications, At, store, history, Working, TypeOK, Publishes
<1>13. ASSUME NEW w \in Writers, OpenPublicationsTemp(w) PROVE SerialInv'
  BY <1>0, <1>13, CallTyping, RevisionsUntouched
  DEF OpenPublicationsTemp, StepTo, At, Working, TypeOK, Publishes, history
<1>7. ASSUME NEW w \in Writers, WritePublicationsTemp(w) PROVE SerialInv'
  <2>1. UNCHANGED <<files, temps>>
    BY <1>0, <1>7, PointersLandInTemp DEF WritePublicationsTemp
  <2>. QED
    BY <1>0, <1>7, <2>1, CallTyping, RevisionsUntouched
    DEF WritePublicationsTemp, StepTo, At, Working, TypeOK, Publishes, history
<1>8. ASSUME NEW w \in Writers, RenamePublications(w) PROVE SerialInv'
  BY <1>0, <1>8, RevisionsUntouched DEF RenamePublications, Working, TypeOK, history
<1>9. ASSUME NEW w \in Writers, Fail(w) PROVE SerialInv'
  <2>1. UNCHANGED <<files, answered>> /\ call' = [call EXCEPT ![w] = Nothing]
    BY <1>0, <1>9, LandsInTemp, PointersLandInTemp DEF Fail
  <2>2. CreatesAreFresh'
    BY <2>1 DEF CreatesAreFresh, OneWriter, Working, TypeOK
  <2>3. AllCoherent'
    BY <2>1 DEF SerialInv, AllCoherent, RevisionCoherent
  <2>. QED
    BY <1>0, <2>2, <2>3 DEF SerialInv
<1>10. ASSUME NEW s \in Slugs, BeginLoad(s) PROVE SerialInv'
  BY <1>0, <1>10, RevisionsUntouched DEF BeginLoad, store, history, Working
<1>11. CASE EndLoad \/ Upgrade \/ UNCHANGED vars
  BY <1>0, <1>11, RevisionsUntouched DEF EndLoad, Upgrade, vars, store, history, Working
<1>. QED
  BY <1>1, <1>2, <1>3, <1>4, <1>5, <1>6, <1>7, <1>8, <1>9, <1>10, <1>11, <1>12, <1>13
  DEF Next

-----------------------------------------------------------------------------
(* The store's promises.                                                   *)

\* With one writer every reachable state satisfies SerialInv.
LEMMA SerialInvHolds == ASSUME OneWriter PROVE Spec => []SerialInv
<1>1. Init => SerialInv
  <2>. SUFFICES ASSUME Init PROVE SerialInv
    OBVIOUS
  <2>1. CreatesAreFresh
    BY DEF Init, CreatesAreFresh, Working
  <2>2. AllCoherent
    BY StoreAssumption
    DEF Init, AllCoherent, RevisionCoherent, Coherent, Unreadable, Path, Paths, Kinds
  <2>. QED
    BY <2>1, <2>2 DEF SerialInv, FilesStayPut, Init
<1>2. TreeInv /\ SerialInv /\ [Next]_vars => SerialInv'
  BY SerialInvInductive
<1>. QED
  BY <1>1, <1>2, TreeInvHolds, PTL DEF Spec

\* The files of a revision agree wherever its create was cut short: none is
\* empty or torn, no tree is without its diagnostics and artifact, and all are
\* of one draft and verdict.
THEOREM RevisionsAreCoherent == ASSUME OneWriter PROVE Spec => []RevisionIsCoherent
<1>1. SerialInv => RevisionIsCoherent
  BY DEF SerialInv, AllCoherent, RevisionCoherent, Coherent, RevisionIsCoherent, Stored, Readable, Kinds
<1>. QED
  BY <1>1, SerialInvHolds, PTL

\* What create answered stands, whatever calls come, fail or are cut short.
THEOREM AnswersStand == ASSUME OneWriter PROVE Spec => []AnsweredStands
<1>1. SerialInv => AnsweredStands
  BY DEF SerialInv, AllCoherent, RevisionCoherent, Coherent, AnsweredStands, Stored
<1>. QED
  BY <1>1, SerialInvHolds, PTL

\* No create is refused over a number already taken.
THEOREM NumbersAreAlwaysFresh == ASSUME OneWriter PROVE Spec => []NumbersAreFresh
<1>1. SerialInv => NumbersAreFresh
  BY DEF SerialInv, CreatesAreFresh, CreateOf, NumbersAreFresh, Target
<1>. QED
  BY <1>1, SerialInvHolds, PTL

-----------------------------------------------------------------------------
(* To its readers the store is a RevisionLog.                              *)

\* The pointers parse.  A publish in progress moves them as they are, and has
\* them, with its own moved, in the temporary file when it comes to the rename.
PublishesAreCurrent ==
    /\ publications \in Pointers
    /\ \A w \in Writers : Working(w, "publish") =>
        /\ call[w].step # "check" => call[w].read = publications
        /\ call[w].step = "write" => draftPointers = Empty
        /\ call[w].step = "rename" =>
             draftPointers = Moved(call[w].read, call[w].slug, call[w].revision)

\* With one writer every step keeps PublishesAreCurrent.
LEMMA PublishesAreCurrentInductive ==
    ASSUME OneWriter
    PROVE  TypeOK /\ FilesStayPut /\ PublishesAreCurrent /\ [Next]_vars => PublishesAreCurrent'
<1>. SUFFICES ASSUME TypeOK, FilesStayPut, PublishesAreCurrent, [Next]_vars
              PROVE  PublishesAreCurrent'
  OBVIOUS
<1>1. ASSUME UNCHANGED <<publications, draftPointers>>,
             \A w \in Writers : Working(w, "publish")' =>
               \/ Working(w, "publish") /\ call'[w] = call[w]
               \/ call'[w].step = "check"
      PROVE  PublishesAreCurrent'
  BY <1>1 DEF PublishesAreCurrent, Working
<1>2. ASSUME NEW w \in Writers, ~Working(w, "publish")', publications' \in Pointers
      PROVE  PublishesAreCurrent'
  BY <1>2 DEF PublishesAreCurrent, OneWriter
<1>3. ASSUME NEW w \in Writers, call' = [call EXCEPT ![w] = Nothing]
      PROVE  ~Working(w, "publish")'
  BY <1>3 DEF Working, TypeOK
<1>4. ASSUME NEW w \in Writers, NEW s \in Slugs, NEW d \in Drafts, BeginCreate(w, s, d)
      PROVE  PublishesAreCurrent'
  BY <1>1, <1>4 DEF BeginCreate, store, Working, TypeOK
<1>5. ASSUME NEW w \in Writers,
             CheckUnwritten(w) \/ OpenTemp(w) \/ WriteTemp(w) \/ Rename(w)
      PROVE  PublishesAreCurrent'
  <2>1. Working(w, "create") /\ call[w] \in Creates /\ publications' = publications
    BY <1>5, CallTyping, TextLands
    DEF CheckUnwritten, OpenTemp, WriteTemp, Rename, At, Landed, store
  <2>2. \/ call' = [call EXCEPT ![w] = Nothing]
        \/ \E step \in Steps : call' = [call EXCEPT ![w].step = step]
        \/ \E kind \in KindAfter(call[w]) :
              call' = [call EXCEPT ![w].kind = kind, ![w].step = "check"]
    BY <1>5 DEF CheckUnwritten, OpenTemp, WriteTemp, Rename, StepTo, Steps
  <2>3. ASSUME NEW step \in Steps, call' = [call EXCEPT ![w].step = step]
        PROVE  ~Working(w, "publish")'
    BY <2>1, <2>3 DEF Working, TypeOK, Creates
  <2>4. ASSUME NEW kind \in KindAfter(call[w]),
               call' = [call EXCEPT ![w].kind = kind, ![w].step = "check"]
        PROVE  ~Working(w, "publish")'
    <3>1. call' = [call EXCEPT ![w] = [call[w] EXCEPT !.kind = kind, !.step = "check"]]
      BY <2>4
    <3>. QED
      BY <2>1, <3>1 DEF Working, TypeOK, Creates
  <2>5. ~Working(w, "publish")'
    BY <1>3, <2>2, <2>3, <2>4
  <2>. QED
    BY <1>2, <2>1, <2>5 DEF PublishesAreCurrent
<1>6. ASSUME NEW w \in Writers, Fail(w) PROVE PublishesAreCurrent'
  <2>1. publications' = publications /\ call' = [call EXCEPT ![w] = Nothing]
    BY <1>6, TextLands, PointersLandInTemp DEF Fail, Landed
  <2>. QED
    BY <1>2, <1>3, <2>1 DEF PublishesAreCurrent
<1>7. ASSUME NEW w \in Writers, NEW s \in Slugs, NEW r \in Revisions, BeginPublish(w, s, r)
      PROVE  PublishesAreCurrent'
  BY <1>1, <1>7 DEF BeginPublish, store, Working, TypeOK
<1>8. ASSUME NEW w \in Writers, ReadPublications(w) PROVE PublishesAreCurrent'
  <2>1. call[w] \in Publishes /\ UNCHANGED <<publications, draftPointers>>
        /\ call' = [call EXCEPT ![w] = [call[w] EXCEPT !.read = publications, !.step = "open"]]
    BY <1>8, CallTyping, StoreAssumption DEF ReadPublications, At, store, PublishesAreCurrent
  <2>2. call'[w].read = publications /\ call'[w].step = "open"
    BY <2>1 DEF TypeOK, Publishes
  <2>. QED
    BY <2>1, <2>2 DEF PublishesAreCurrent, OneWriter
<1>9. ASSUME NEW w \in Writers, OpenPublicationsTemp(w) PROVE PublishesAreCurrent'
  <2>1. /\ Working(w, "publish") /\ call[w].step = "open" /\ call[w] \in Publishes
        /\ call' = [call EXCEPT ![w].step = "write"] /\ UNCHANGED publications
        /\ draftPointers' = Empty
    BY <1>9, CallTyping DEF OpenPublicationsTemp, StepTo, At
  <2>2. call'[w].read = publications /\ call'[w].step = "write"
    BY <2>1 DEF TypeOK, Publishes, PublishesAreCurrent
  <2>. QED
    BY <2>1, <2>2 DEF PublishesAreCurrent, OneWriter
<1>10. ASSUME NEW w \in Writers, WritePublicationsTemp(w) PROVE PublishesAreCurrent'
  <2>. DEFINE text == Moved(call[w].read, call[w].slug, call[w].revision)
  <2>1. /\ Working(w, "publish") /\ call[w].step = "write" /\ call[w] \in Publishes
        /\ call' = [call EXCEPT ![w].step = "rename"]
        /\ draftPointers' \in Over(draftPointers, text) /\ UNCHANGED publications
    BY <1>10, CallTyping, PointersLandInTemp DEF WritePublicationsTemp, StepTo, At
  <2>2. call[w].read = publications /\ draftPointers' = text
    BY <2>1 DEF PublishesAreCurrent, Over
  <2>3. /\ call'[w].read = call[w].read /\ call'[w].slug = call[w].slug
        /\ call'[w].revision = call[w].revision /\ call'[w].step = "rename"
    BY <2>1 DEF TypeOK, Publishes
  <2>. QED
    BY <2>1, <2>2, <2>3 DEF PublishesAreCurrent, OneWriter, Moved
<1>11. ASSUME NEW w \in Writers, RenamePublications(w) PROVE PublishesAreCurrent'
  <2>1. /\ Working(w, "publish") /\ call[w].step = "rename" /\ call[w] \in Publishes
        /\ call' = [call EXCEPT ![w] = Nothing]
        /\ publications' = publications \/ publications' = draftPointers
    BY <1>11, CallTyping DEF RenamePublications, At
  <2>2. draftPointers \in Pointers
    BY <2>1 DEF PublishesAreCurrent, Moved, Publishes, Pointers
  <2>. QED
    BY <1>2, <1>3, <2>1, <2>2 DEF PublishesAreCurrent
<1>12. CASE (\E s \in Slugs : BeginLoad(s)) \/ EndLoad \/ Upgrade \/ UNCHANGED vars
  BY <1>1, <1>12 DEF BeginLoad, EndLoad, Upgrade, vars, store, Working
<1>. QED
  BY <1>4, <1>5, <1>6, <1>7, <1>8, <1>9, <1>10, <1>11, <1>12 DEF Next

\* With one writer every reachable state satisfies PublishesAreCurrent.
LEMMA PublishesAreCurrentHolds == ASSUME OneWriter PROVE Spec => []PublishesAreCurrent
<1>1. Init => PublishesAreCurrent
  BY DEF Init, PublishesAreCurrent, Pointers, Working
<1>2. TypeOK /\ FilesStayPut /\ PublishesAreCurrent /\ [Next]_vars => PublishesAreCurrent'
  BY PublishesAreCurrentInductive
<1>3. SerialInv => FilesStayPut
  BY DEF SerialInv
<1>. QED
  BY <1>1, <1>2, <1>3, StoreTypeCorrect, SerialInvHolds, PTL DEF Spec

\* The log's trees: what the compiled files hold.
TreesIn(f) == [s \in Slugs |-> [r \in Revisions |-> f[Path("compiled", s, r)]]]

\* A rename of a compiled file is the log's Store; any other step leaves the
\* trees alone.
LEMMA TreesAreStored ==
    ASSUME TreeInv, SerialInv, NEW w \in Writers, Rename(w)
    PROVE  \/ TreesIn(files') = TreesIn(files)
           \/ \E s \in Slugs, r \in Revisions,
                 t \in [draft : Drafts, grammar : Grammars, passed : {TRUE}] :
                /\ TreesIn(files)[s][r] = Nothing
                /\ TreesIn(files') = [TreesIn(files) EXCEPT ![s][r] = t]
<1>1. Working(w, "create") /\ call[w].step = "rename" /\ call[w] \in Creates /\ Target(w) \in Paths
  BY CallTyping, TargetTyping DEF Rename, At, TreeInv
<1>. DEFINE c == call[w]
<1>2. /\ c.kind \in Kinds /\ c.slug \in Slugs /\ c.revision \in Revisions /\ c.content \in Content
      /\ c.kind = "compiled" => c.content.passed
      /\ temps[Target(w)] = c.content /\ files[Target(w)] = Nothing
  BY <1>1 DEF Creates, TreeInv, VerdictsAreGates, SerialInv, CreatesAreFresh, CreateOf, Target
<1>3. files' = [files EXCEPT ![Target(w)] = c.content]
  BY <1>2, StoreAssumption DEF Rename
<1>4. \A s \in Slugs, r \in Revisions :
        files'[Path("compiled", s, r)] =
          IF c.kind = "compiled" /\ s = c.slug /\ r = c.revision
          THEN c.content ELSE files[Path("compiled", s, r)]
  BY <1>1, <1>2, <1>3 DEF TreeInv, TypeOK, Target, Path, Paths, Kinds
<1>5. CASE c.kind # "compiled"
  BY <1>4, <1>5 DEF TreesIn
<1>6. CASE c.kind = "compiled"
  <2>1. c.content \in [draft : Drafts, grammar : Grammars, passed : {TRUE}]
    BY <1>2, <1>6 DEF Content
  <2>2. TreesIn(files)[c.slug][c.revision] = Nothing
    BY <1>2, <1>6 DEF TreesIn, Target
  <2>3. TreesIn(files') = [TreesIn(files) EXCEPT ![c.slug] =
                            [TreesIn(files)[c.slug] EXCEPT ![c.revision] = c.content]]
    <3>1. \A s \in Slugs : TreesIn(files)[s] = [r \in Revisions |-> files[Path("compiled", s, r)]]
      BY DEF TreesIn
    <3>2. \A s \in Slugs : TreesIn(files')[s] = [r \in Revisions |-> files'[Path("compiled", s, r)]]
      BY DEF TreesIn
    <3>3. TreesIn(files')[c.slug] = [TreesIn(files)[c.slug] EXCEPT ![c.revision] = c.content]
      <4>1. \A r \in Revisions : files'[Path("compiled", c.slug, r)] =
              IF r = c.revision THEN c.content ELSE files[Path("compiled", c.slug, r)]
        BY <1>2, <1>4, <1>6
      <4>2. [r \in Revisions |-> files'[Path("compiled", c.slug, r)]] =
            [[r \in Revisions |-> files[Path("compiled", c.slug, r)]] EXCEPT ![c.revision] = c.content]
        BY <1>2, <4>1
      <4>. QED
        BY <1>2, <3>1, <3>2, <4>2
    <3>4. ASSUME NEW s \in Slugs, s # c.slug PROVE TreesIn(files')[s] = TreesIn(files)[s]
      <4>1. \A r \in Revisions : files'[Path("compiled", s, r)] = files[Path("compiled", s, r)]
        BY <1>4, <3>4
      <4>2. [r \in Revisions |-> files'[Path("compiled", s, r)]] =
            [r \in Revisions |-> files[Path("compiled", s, r)]]
        BY <4>1
      <4>. QED
        BY <3>1, <3>2, <4>2
    <3>5. /\ TreesIn(files) = [s \in Slugs |-> TreesIn(files)[s]]
          /\ TreesIn(files') = [s \in Slugs |-> TreesIn(files')[s]]
      BY DEF TreesIn
    <3>. QED
      BY <1>2, <3>3, <3>4, <3>5
  <2>4. TreesIn(files') = [TreesIn(files) EXCEPT ![c.slug][c.revision] = c.content]
    BY <2>3
  <2>. QED
    BY <1>2, <2>1, <2>2, <2>4
<1>. QED
  BY <1>5, <1>6

\* Every step of the store is a step of the log, or leaves it alone.
LEMMA StepsOfTheLog ==
    ASSUME TreeInv, SerialInv, PointerInv, PublishesAreCurrent, [Next]_vars
    PROVE  [Log!Next]_(Log!vars)
<1>. USE DEF TreeInv
<1>1. ASSUME TreesIn(files') = TreesIn(files), UNCHANGED publications
      PROVE  UNCHANGED Log!vars
  BY <1>1 DEF Log!vars, TreesIn
<1>2. ASSUME UNCHANGED <<files, publications>> PROVE UNCHANGED Log!vars
  BY <1>1, <1>2
<1>3. ASSUME NEW w \in Writers, Rename(w) PROVE [Log!Next]_(Log!vars)
  <2>1. UNCHANGED publications
    BY <1>3 DEF Rename
  <2>2. ASSUME NEW s \in Slugs, NEW r \in Revisions,
               NEW t \in [draft : Drafts, grammar : Grammars, passed : {TRUE}],
               TreesIn(files)[s][r] = Nothing,
               TreesIn(files') = [TreesIn(files) EXCEPT ![s][r] = t]
        PROVE  Log!Next
    BY <2>1, <2>2 DEF Log!Next, Log!Store, TreesIn
  <2>. QED
    BY <1>1, <1>3, <2>1, <2>2, TreesAreStored
<1>4. ASSUME NEW w \in Writers, RenamePublications(w) PROVE [Log!Next]_(Log!vars)
  <2>1. /\ Working(w, "publish") /\ call[w].step = "rename" /\ call[w] \in Publishes
        /\ UNCHANGED files
        /\ publications' = publications \/ publications' = draftPointers
    BY <1>4, CallTyping DEF RenamePublications, At
  <2>2. /\ call[w].slug \in Slugs /\ call[w].revision \in Revisions
        /\ draftPointers = [publications EXCEPT ![call[w].slug] = call[w].revision]
        /\ files[Path("compiled", call[w].slug, call[w].revision)] # Nothing
    BY <2>1 DEF PublishesAreCurrent, Moved, Publishes, PointerInv, PublishResolves, GatedIn
  <2>3. CASE publications' = publications
    BY <1>2, <2>1, <2>3
  <2>4. CASE publications' = [publications EXCEPT ![call[w].slug] = call[w].revision]
    <3>1. TreesIn(files)[call[w].slug][call[w].revision] # Nothing
      BY <2>2 DEF TreesIn
    <3>2. Log!Point(call[w].slug, call[w].revision)
      BY <2>1, <2>4, <3>1 DEF Log!Point, TreesIn
    <3>. QED
      BY <2>2, <3>2 DEF Log!Next
  <2>. QED
    BY <2>1, <2>2, <2>3, <2>4
<1>5. ASSUME NEW w \in Writers, WriteTemp(w) \/ WritePublicationsTemp(w) \/ Fail(w)
      PROVE  UNCHANGED <<files, publications>>
  BY <1>5, LandsInTemp, PointersLandInTemp, TextLands
  DEF SerialInv, WriteTemp, WritePublicationsTemp, Fail, Landed
<1>6. ASSUME \A w \in Writers : /\ ~Rename(w) /\ ~RenamePublications(w)
                                /\ ~WriteTemp(w) /\ ~WritePublicationsTemp(w) /\ ~Fail(w)
      PROVE  UNCHANGED <<files, publications>>
  BY <1>6 DEF Next, vars, store, BeginCreate, CheckUnwritten, OpenTemp, BeginPublish,
         ReadPublications, OpenPublicationsTemp, BeginLoad, EndLoad, Upgrade
<1>. QED
  BY <1>2, <1>3, <1>4, <1>5, <1>6

\* The store implements RevisionLog: trees are written once and never change,
\* and one pointer moves at a time, always to a tree that is there, in a
\* publications.json that always parses.
THEOREM StoreImplementsLog == ASSUME OneWriter PROVE Spec => ImplementsLog
<1>1. Init => Log!Init
  BY DEF Init, Log!Init, Path, Paths, Kinds
<1>2. TreeInv /\ SerialInv /\ PointerInv /\ PublishesAreCurrent /\ [Next]_vars
        => [Log!Next]_(Log!vars)
  BY StepsOfTheLog
<1>3. Init => PointerInv
  <2>1. Init => ResolvesIn(files, publications) /\ ResolvesIn(files, draftPointers)
    BY NoneResolves DEF Init, ResolvesIn
  <2>. QED
    BY <2>1 DEF Init, PointerInv, Working
<1>. QED
  BY <1>1, <1>2, <1>3, TreeInvHolds, SerialInvHolds, PointerInvInductive,
     PublishesAreCurrentHolds, PTL
  DEF Spec, ImplementsLog, Log!Spec
=============================================================================
