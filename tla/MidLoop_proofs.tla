--------------------------- MODULE MidLoop_proofs ---------------------------
(***************************************************************************)
(* Proofs about MidLoop for every value of its constants: any ids, any     *)
(* trees and resolvers, any policy, any packets, any number of ingresses.  *)
(***************************************************************************)
EXTENDS MidLoop, TLAPS

-----------------------------------------------------------------------------
(* Lemmas about the operators.                                             *)

\* What the page keeps of a log is a log no longer than LedgerSize.
LEMMA KeptTyping ==
    ASSUME NEW S, NEW log \in Seq(S)
    PROVE  Kept(log) \in Seq(S) /\ Len(Kept(log)) <= LedgerSize
<1>. DEFINE n == Len(log)
            lo == Larger(1, n - LedgerSize + 1)
<1>1. n \in Nat /\ LedgerSize \in Nat \ {0} /\ lo \in Nat \ {0}
  BY ConstantsAssumption DEF Larger
<1>2. lo >= 1 /\ lo >= n - LedgerSize + 1
  BY <1>1 DEF Larger
<1>3. \A k \in lo .. n : log[k] \in S
  BY <1>1, <1>2
<1>4. SubSeq(log, lo, n) \in Seq(S)
  BY <1>1, <1>2, <1>3
<1>5. Len(SubSeq(log, lo, n)) <= LedgerSize
  BY <1>1, <1>2
<1>. QED
  BY <1>4, <1>5 DEF Kept

\* A choice that fits an occurrence is rendered by it unclamped.
LEMMA FittingChoiceIsNotClamped ==
    ASSUME NEW c \in Int, NEW o \in Int \X Int, IsInteger(c), Within(o, c)
    PROVE  ClampedIntegerChoice(c, o) = c
BY DEF IsInteger, Within, ClampedIntegerChoice, Truncated, Smaller, Larger

-----------------------------------------------------------------------------
(* Type correctness.                                                       *)

\* A record written during an ingress is an evidence record.
LEMMA RecordTyping ==
    ASSUME TypeOK, NEW k \in Nat, NEW status \in Statuses
    PROVE  Record(k, status) \in Evidence
BY DEF TypeOK, Record, Evidence

\* An ingress that ends in one record keeps the evidence well typed.
LEMMA OneRecordTyping ==
    ASSUME TypeOK, NEW status \in Statuses, OneRecord(status)
    PROVE  /\ nextSequence' \in Nat /\ nextGroup' \in Nat /\ sequence' \in Nat
           /\ ledger' \in Seq(Evidence) /\ Len(ledger') <= LedgerSize
<1>1. Record(0, status) \in Evidence
  BY RecordTyping
<1>2. Append(ledger, Record(0, status)) \in Seq(Evidence)
  BY <1>1 DEF TypeOK
<1>3. ledger' \in Seq(Evidence) /\ Len(ledger') <= LedgerSize
  BY <1>2, KeptTyping DEF OneRecord
<1>. QED
  BY <1>3 DEF OneRecord, TypeOK

\* Every reachable state of the circuit is well typed and its ledger bounded
\* (midLoopRuntime.ts, +page.svelte:203), for any packet and any constants.
THEOREM TypeCorrect == Spec => []TypeOK
<1>1. Init => TypeOK
  BY ConstantsAssumption DEF Init, TypeOK, ChoiceMaps
<1>2. TypeOK /\ [Next]_vars => TypeOK'
  <2>. SUFFICES ASSUME TypeOK, [Next]_vars PROVE TypeOK'
    OBVIOUS
  <2>. USE DEF state, draft, history
  <2>1. CASE RejectIngress
    <3>1. OneRecord("rejected")
      BY <2>1 DEF RejectIngress
    <3>2. /\ nextSequence' \in Nat /\ nextGroup' \in Nat /\ sequence' \in Nat
          /\ ledger' \in Seq(Evidence) /\ Len(ledger') <= LedgerSize
      BY <3>1, OneRecordTyping DEF Statuses
    <3>. QED
      BY <2>1, <3>2 DEF RejectIngress, TypeOK
  <2>2. ASSUME NEW who \in {"delegate", "user"}, NEW length \in Nat, BeginIngress(who, length)
        PROVE  TypeOK'
    BY <2>2 DEF BeginIngress, TypeOK
  <2>3. CASE AdmitMalformed
    <3>1. Record(0, "rejected") \in Evidence
      BY RecordTyping DEF Statuses
    <3>2. Append(records, Record(0, "rejected")) \in Seq(Evidence)
      BY <3>1 DEF TypeOK
    <3>. QED
      BY <2>3, <3>2 DEF AdmitMalformed, Admitting, TypeOK
  <2>4. ASSUME NEW d \in Delta, AdmitRefused(d)
        PROVE  TypeOK'
    <3>1. RefusedStatus(d) \in Statuses
      BY DEF RefusedStatus, Statuses
    <3>2. Record(0, "proposed") \in Evidence /\ Record(1, RefusedStatus(d)) \in Evidence
      BY <3>1, RecordTyping DEF Statuses
    <3>3. records \o <<Record(0, "proposed"), Record(1, RefusedStatus(d))>> \in Seq(Evidence)
      BY <3>2 DEF TypeOK
    <3>. QED
      BY <2>4, <3>3 DEF AdmitRefused, Admitting, TypeOK
  <2>5. ASSUME NEW d \in Delta, AdmitAccepted(d)
        PROVE  TypeOK'
    <3>1. /\ Record(0, "proposed") \in Evidence
          /\ Record(1, "superseded") \in Evidence
          /\ Record(1, "accepted") \in Evidence
          /\ Record(2, "accepted") \in Evidence
      BY RecordTyping DEF Statuses
    <3>2. AcceptedRecords(d) \in Seq(Evidence)
      BY <3>1 DEF AcceptedRecords
    <3>3. records' \in Seq(Evidence)
      BY <2>5, <3>2 DEF AdmitAccepted, TypeOK
    <3>4. sequence' \in Nat /\ left' \in Nat
      BY <2>5 DEF AdmitAccepted, Admitting, SequenceAfterAccept, TypeOK
    <3>5. draftChoices' \in ChoiceMaps /\ userChoice' \in ChoiceMaps
      BY <2>5 DEF AdmitAccepted, Delta, ChoiceMaps, TypeOK
    <3>6. draftLocks' \subseteq Ids /\ admittedUnder' \in [Ids -> SUBSET Bindings]
      BY <2>5 DEF AdmitAccepted, Delta, TypeOK
    <3>. QED
      BY <2>5, <3>3, <3>4, <3>5, <3>6 DEF AdmitAccepted, TypeOK
  <2>6. CASE CommitIngress
    <3>1. ledger \o records \in Seq(Evidence)
      BY DEF TypeOK
    <3>2. ledger' \in Seq(Evidence) /\ Len(ledger') <= LedgerSize
      BY <2>6, <3>1, KeptTyping DEF CommitIngress
    <3>. QED
      BY <2>6, <3>2 DEF CommitIngress, TypeOK
  <2>7. ASSUME NEW next \in Numbers, RefuseReemission(next)
        PROVE  TypeOK'
    <3>1. OneRecord("rejected")
      BY <2>7 DEF RefuseReemission
    <3>2. /\ nextSequence' \in Nat /\ nextGroup' \in Nat /\ sequence' \in Nat
          /\ ledger' \in Seq(Evidence) /\ Len(ledger') <= LedgerSize
      BY <3>1, OneRecordTyping DEF Statuses
    <3>. QED
      BY <2>7, <3>2 DEF RefuseReemission, TypeOK
  <2>8. ASSUME NEW next \in Numbers, NEW emitted \in EmittedChoices, Reemit(next, emitted)
        PROVE  TypeOK'
    <3>1. OneRecord("superseded")
      BY <2>8 DEF Reemit
    <3>2. /\ nextSequence' \in Nat /\ nextGroup' \in Nat /\ sequence' \in Nat
          /\ ledger' \in Seq(Evidence) /\ Len(ledger') <= LedgerSize
      BY <3>1, OneRecordTyping DEF Statuses
    <3>. QED
      BY <2>8, <3>2, ConstantsAssumption
      DEF Reemit, LocksAfterReemission, ChoiceMaps, TypeOK
  <2>9. CASE SwitchDialect
    BY <2>9 DEF SwitchDialect, TypeOK
  <2>10. CASE UNCHANGED vars
    BY <2>10 DEF vars, TypeOK
  <2>. QED
    BY <2>1, <2>2, <2>3, <2>4, <2>5, <2>6, <2>7, <2>8, <2>9, <2>10, ConstantsAssumption
    DEF Next, RunMidLoop, ApplyUserOverride
<1>. QED
  BY <1>1, <1>2, PTL DEF Spec

-----------------------------------------------------------------------------
(* The user's choice stands.                                               *)

\* Between ingresses the locals of admitProposals are the state.  While one
\* runs it is the locals that relate to the history; they become the state
\* when it returns.  Locks and user choices always cover the same ids.
DraftAgrees == Idle => draftChoices = choices /\ draftLocks = lockedIds

DraftHoldsUserChoice ==
    \A i \in Ids : /\ userChoice[i] # NoChoice => draftChoices[i] = userChoice[i]
                   /\ i \in draftLocks <=> userChoice[i] # NoChoice

UserInv == TypeOK /\ DraftAgrees /\ DraftHoldsUserChoice

\* No step of the circuit loses the user's choice or its lock.
LEMMA UserInvInductive == UserInv /\ [Next]_vars /\ TypeOK' => UserInv'
<1>. SUFFICES ASSUME UserInv, [Next]_vars, TypeOK'
              PROVE  DraftAgrees' /\ DraftHoldsUserChoice'
  BY DEF UserInv
<1>. USE DEF UserInv, DraftAgrees, DraftHoldsUserChoice, Idle, state, draft, history
<1>1. CASE RejectIngress
  BY <1>1 DEF RejectIngress, OneRecord
<1>2. ASSUME NEW who \in {"delegate", "user"}, NEW length \in Nat, BeginIngress(who, length)
      PROVE  DraftAgrees' /\ DraftHoldsUserChoice'
  BY <1>2 DEF BeginIngress
<1>3. CASE AdmitMalformed
  BY <1>3 DEF AdmitMalformed, Admitting
<1>4. ASSUME NEW d \in Delta, AdmitRefused(d)
      PROVE  DraftAgrees' /\ DraftHoldsUserChoice'
  BY <1>4 DEF AdmitRefused, Admitting
<1>5. ASSUME NEW d \in Delta, AdmitAccepted(d)
      PROVE  DraftAgrees' /\ DraftHoldsUserChoice'
  <2>1. d.id \in Ids /\ d.choice \in Numbers /\ d.choice # NoChoice
    BY ConstantsAssumption DEF Delta
  <2>2. DraftAgrees'
    BY <1>5 DEF AdmitAccepted, Admitting
  <2>3. CASE source = "user"
    <3>1. /\ draftChoices' = [draftChoices EXCEPT ![d.id] = d.choice]
          /\ userChoice' = [userChoice EXCEPT ![d.id] = d.choice]
          /\ draftLocks' = draftLocks \cup {d.id}
      BY <1>5, <2>3 DEF AdmitAccepted
    <3>2. DraftHoldsUserChoice'
      BY <2>1, <3>1 DEF TypeOK, ChoiceMaps
    <3>. QED
      BY <2>2, <3>2
  <2>4. CASE source = "delegate"
    <3>1. d.id \notin draftLocks
      BY <1>5, <2>4 DEF AdmitAccepted, Admissible, HeldByUser
    <3>2. /\ draftChoices' = [draftChoices EXCEPT ![d.id] = d.choice]
          /\ UNCHANGED <<userChoice, draftLocks>>
      BY <1>5, <2>4 DEF AdmitAccepted
    <3>3. DraftHoldsUserChoice'
      BY <2>1, <3>1, <3>2 DEF TypeOK, ChoiceMaps
    <3>. QED
      BY <2>2, <3>3
  <2>. QED
    BY <1>5, <2>3, <2>4 DEF AdmitAccepted, Admitting, TypeOK
<1>6. CASE CommitIngress
  BY <1>6 DEF CommitIngress
<1>7. ASSUME NEW next \in Numbers, RefuseReemission(next)
      PROVE  DraftAgrees' /\ DraftHoldsUserChoice'
  BY <1>7 DEF RefuseReemission, OneRecord
<1>8. ASSUME NEW next \in Numbers, NEW emitted \in EmittedChoices, Reemit(next, emitted)
      PROVE  DraftAgrees' /\ DraftHoldsUserChoice'
  BY <1>8 DEF Reemit, OneRecord, LocksAfterReemission
<1>9. CASE SwitchDialect
  BY <1>9 DEF SwitchDialect
<1>10. CASE UNCHANGED vars
  BY <1>10 DEF vars
<1>. QED
  BY <1>1, <1>2, <1>3, <1>4, <1>5, <1>6, <1>7, <1>8, <1>9, <1>10, ConstantsAssumption
  DEF Next, RunMidLoop, ApplyUserOverride

\* So every reachable state keeps it.
LEMMA UserInvHolds == Spec => []UserInv
<1>1. Init => UserInv
  BY ConstantsAssumption
  DEF Init, UserInv, TypeOK, ChoiceMaps, DraftAgrees, DraftHoldsUserChoice
<1>. QED
  BY <1>1, UserInvInductive, TypeCorrect, PTL DEF Spec

\* The last choice the user had admitted in an epoch is what the envelope
\* carries, locked, until a higher epoch is emitted (ADR-0024 point 4).
THEOREM UserChoiceIsSafe == Spec => []UserChoiceStands
<1>1. UserInv => UserChoiceStands
  BY DEF UserInv, DraftAgrees, DraftHoldsUserChoice, UserChoiceStands
<1>. QED
  BY <1>1, UserInvHolds, PTL

-----------------------------------------------------------------------------
(* An admitted choice renders as itself.                                   *)

\* Stronger than the property: a choice fits every binding it was admitted
\* under, the one in force or not, so a later switch back needs no re-check.
AdmittedFits ==
    \A i \in Ids : \A b \in admittedUnder[i] :
        /\ draftChoices[i] \in Int
        /\ IsInteger(draftChoices[i])
        /\ \A o \in Occurrences[b][i] : Within(o, draftChoices[i])

\* No step of the circuit lets in a choice that misfits its binding.
LEMMA AdmittedFitsInductive == TypeOK /\ AdmittedFits /\ [Next]_vars => AdmittedFits'
<1>. SUFFICES ASSUME TypeOK, AdmittedFits, [Next]_vars PROVE AdmittedFits'
  OBVIOUS
<1>. USE DEF AdmittedFits, state, draft, history
<1>1. CASE UNCHANGED <<draftChoices, admittedUnder>>
  BY <1>1
<1>2. ASSUME NEW d \in Delta, AdmitAccepted(d)
      PROVE  AdmittedFits'
  <2>1. d.id \in Ids /\ d.choice \in Int
    BY ConstantsAssumption DEF Delta
  <2>2. IsInteger(d.choice) /\ \A o \in Occurrences[binding][d.id] : Within(o, d.choice)
    BY <1>2 DEF AdmitAccepted, Admissible, Applies, ChoiceFitsAll
  <2>3. /\ draftChoices' = [draftChoices EXCEPT ![d.id] = d.choice]
        /\ admittedUnder' = [admittedUnder EXCEPT ![d.id] = {binding}]
    BY <1>2 DEF AdmitAccepted
  <2>. SUFFICES ASSUME NEW i \in Ids, NEW b \in admittedUnder'[i]
                PROVE  /\ draftChoices'[i] \in Int
                       /\ IsInteger(draftChoices'[i])
                       /\ \A o \in Occurrences[b][i] : Within(o, draftChoices'[i])
    OBVIOUS
  <2>4. CASE i = d.id
    BY <2>1, <2>2, <2>3, <2>4 DEF TypeOK, ChoiceMaps
  <2>5. CASE i # d.id
    BY <2>1, <2>3, <2>5 DEF TypeOK, ChoiceMaps
  <2>. QED
    BY <2>4, <2>5
<1>3. ASSUME NEW next \in Numbers, NEW emitted \in EmittedChoices, Reemit(next, emitted)
      PROVE  AdmittedFits'
  BY <1>3 DEF Reemit
<1>. QED
  BY <1>1, <1>2, <1>3
  DEF Next, RunMidLoop, ApplyUserOverride, RejectIngress, BeginIngress, AdmitMalformed,
      AdmitRefused, CommitIngress, RefuseReemission, SwitchDialect, vars

\* The renderer's clamp never corrects a choice admission let in under the
\* binding in force (applyDelta.ts:161 against resolveChoice.ts:72).
THEOREM AdmittedIsVerbatim == Spec => []AdmittedRendersVerbatim
<1>1. Init => AdmittedFits
  BY DEF Init, AdmittedFits
<1>2. TypeOK /\ AdmittedFits => AdmittedRendersVerbatim
  <2>. SUFFICES ASSUME TypeOK, AdmittedFits,
                       NEW i \in Ids, binding \in admittedUnder[i],
                       NEW o \in Occurrences[binding][i]
                PROVE  ClampedIntegerChoice(draftChoices[i], o) = draftChoices[i]
    BY DEF AdmittedRendersVerbatim
  <2>1. o \in Int \X Int
    BY ConstantsAssumption DEF TypeOK
  <2>2. draftChoices[i] \in Int /\ IsInteger(draftChoices[i]) /\ Within(o, draftChoices[i])
    BY DEF AdmittedFits
  <2>. QED
    BY <2>1, <2>2, FittingChoiceIsNotClamped
<1>. QED
  BY <1>1, <1>2, AdmittedFitsInductive, TypeCorrect, PTL DEF Spec

-----------------------------------------------------------------------------
(* The evidence is a log.                                                  *)

\* b is the record a log may have right after a.
Follows(a, b) ==
    /\ b.sequence = a.sequence + 1
    /\ b.group >= a.group
    /\ a.status = "proposed" => b.status # "proposed" /\ b.group = a.group

IsLog(s) == \A k \in 1 .. Len(s) - 1 : Follows(s[k], s[k + 1])

\* A log whose next record is number `next` and whose next group is `bound`.
IsLedger(s, next, bound) ==
    /\ s \in Seq(Evidence)
    /\ IsLog(s)
    /\ s # <<>> => /\ s[Len(s)].sequence = next - 1
                   /\ s[Len(s)].status # "proposed"
                   /\ s[Len(s)].group < bound

\* The records of one group numbered from `first` up to `next`.
IsBlock(s, first, next, group) ==
    /\ s \in Seq(Evidence)
    /\ IsLog(s)
    /\ \A k \in 1 .. Len(s) : s[k].group = group
    /\ s = <<>> => first = next
    /\ s # <<>> => /\ s[1].sequence = first
                   /\ s[Len(s)].sequence = next - 1
                   /\ s[Len(s)].status # "proposed"

\* Two logs of which the second goes on where the first stopped are one.
LEMMA LogsJoin ==
    ASSUME NEW s \in Seq(Evidence), NEW t \in Seq(Evidence), IsLog(s), IsLog(t),
           s # <<>> /\ t # <<>> => Follows(s[Len(s)], t[1])
    PROVE  /\ s \o t \in Seq(Evidence)
           /\ Len(s \o t) = Len(s) + Len(t)
           /\ \A k \in 1 .. Len(s) : (s \o t)[k] = s[k]
           /\ \A k \in 1 .. Len(t) : (s \o t)[Len(s) + k] = t[k]
           /\ IsLog(s \o t)
<1>1. /\ s \o t \in Seq(Evidence)
      /\ Len(s \o t) = Len(s) + Len(t)
      /\ \A k \in 1 .. Len(s) : (s \o t)[k] = s[k]
  OBVIOUS
<1>2. \A k \in 1 .. Len(t) : (s \o t)[Len(s) + k] = t[k]
  OBVIOUS
<1>3. ASSUME NEW k \in 1 .. Len(s \o t) - 1
      PROVE  Follows((s \o t)[k], (s \o t)[k + 1])
  <2>. DEFINE n == Len(s)
              m == Len(t)
  <2>1. n \in Nat /\ m \in Nat /\ k \in 1 .. n + m - 1
    BY <1>1
  <2>2. CASE k < n
    <3>1. k \in 1 .. n - 1 /\ k \in 1 .. n /\ k + 1 \in 1 .. n
      BY <2>1, <2>2
    <3>2. Follows(s[k], s[k + 1])
      BY <3>1 DEF IsLog
    <3>. QED
      BY <1>1, <3>1, <3>2
  <2>3. CASE k = n
    <3>1. s # <<>> /\ t # <<>> /\ n \in 1 .. n /\ 1 \in 1 .. m
      BY <2>1, <2>3
    <3>. QED
      BY <1>1, <1>2, <2>3, <3>1
  <2>4. CASE k > n
    <3>1. PICK j \in 1 .. m - 1 : k = n + j
      <4>. HIDE DEF n, m
      <4>1. k - n \in 1 .. m - 1 /\ k = n + (k - n)
        BY <2>1, <2>4
      <4>. QED
        BY <4>1
    <3>2. Follows(t[j], t[j + 1])
      BY DEF IsLog
    <3>3. j \in 1 .. m /\ j + 1 \in 1 .. m /\ k + 1 = n + (j + 1)
      BY <2>1, <3>1
    <3>. QED
      BY <1>2, <3>1, <3>2, <3>3
  <2>. QED
    BY <2>1, <2>2, <2>3, <2>4
<1>. QED
  BY <1>1, <1>2, <1>3 DEF IsLog

\* What the page keeps of a log is a log that ends with the same record.
LEMMA KeptIsALog ==
    ASSUME NEW s \in Seq(Evidence), IsLog(s)
    PROVE  /\ Kept(s) \in Seq(Evidence)
           /\ IsLog(Kept(s))
           /\ Kept(s) # <<>> => s # <<>> /\ Kept(s)[Len(Kept(s))] = s[Len(s)]
<1>. DEFINE n == Len(s)
            lo == Larger(1, n - LedgerSize + 1)
            kept == SubSeq(s, lo, n)
<1>1. n \in Nat /\ lo \in Nat \ {0} /\ lo <= n + 1
  BY ConstantsAssumption DEF Larger
<1>2. Kept(s) = kept
  BY DEF Kept
<1>3. Kept(s) \in Seq(Evidence)
  BY KeptTyping
<1>4. Len(kept) = n - lo + 1 /\ \A k \in 1 .. n - lo + 1 : kept[k] = s[lo + k - 1]
  BY <1>1
<1>. HIDE DEF n, lo, kept
<1>5. ASSUME NEW k \in 1 .. Len(kept) - 1
      PROVE  Follows(kept[k], kept[k + 1])
  <2>1. PICK j \in 1 .. n - 1 : j = lo + k - 1
    BY <1>1, <1>4
  <2>2. k \in 1 .. n - lo + 1 /\ k + 1 \in 1 .. n - lo + 1 /\ lo + (k + 1) - 1 = j + 1
    BY <1>1, <1>4, <2>1
  <2>3. kept[k] = s[j] /\ kept[k + 1] = s[j + 1]
    BY <1>4, <2>1, <2>2
  <2>. QED
    BY <2>3 DEF IsLog, n
<1>6. ASSUME kept # <<>>
      PROVE  s # <<>> /\ kept[Len(kept)] = s[n]
  <2>1. Len(kept) \in Nat \ {0}
    BY <1>2, <1>3, <1>6
  <2>2. n # 0 /\ Len(kept) \in 1 .. n - lo + 1 /\ lo + Len(kept) - 1 = n
    BY <1>1, <1>4, <2>1
  <2>3. kept[Len(kept)] = s[n]
    BY <1>4, <2>2
  <2>. QED
    BY <2>2, <2>3 DEF n
<1>. QED
  BY <1>2, <1>3, <1>5, <1>6 DEF IsLog, n

\* Records of the same group may be added to a block.
LEMMA BlocksJoin ==
    ASSUME NEW s, NEW t, NEW a \in Nat, NEW b \in Nat, NEW c \in Nat, NEW g \in Nat,
           IsBlock(s, a, b, g), IsBlock(t, b, c, g)
    PROVE  IsBlock(s \o t, a, c, g)
<1>1. s \in Seq(Evidence) /\ t \in Seq(Evidence) /\ IsLog(s) /\ IsLog(t)
  BY DEF IsBlock
<1>2. ASSUME s # <<>>, t # <<>>
      PROVE  Follows(s[Len(s)], t[1])
  <2>1. 1 \in 1 .. Len(t) /\ Len(s) \in 1 .. Len(s)
    BY <1>1, <1>2
  <2>2. s[Len(s)].group = g /\ t[1].group = g
    BY <2>1 DEF IsBlock
  <2>. QED
    BY <1>2, <2>2 DEF IsBlock, Follows
<1>3. /\ s \o t \in Seq(Evidence)
      /\ Len(s \o t) = Len(s) + Len(t)
      /\ \A k \in 1 .. Len(s) : (s \o t)[k] = s[k]
      /\ \A k \in 1 .. Len(t) : (s \o t)[Len(s) + k] = t[k]
      /\ IsLog(s \o t)
  BY <1>1, <1>2, LogsJoin
<1>4. CASE s = <<>>
  <2>1. s \o t = t
    BY <1>1, <1>4
  <2>. QED
    BY <1>4, <2>1 DEF IsBlock
<1>5. CASE t = <<>>
  <2>1. s \o t = s
    BY <1>1, <1>5
  <2>. QED
    BY <1>5, <2>1 DEF IsBlock
<1>6. CASE s # <<>> /\ t # <<>>
  <2>. DEFINE n == Len(s)
              m == Len(t)
  <2>1. n \in Nat \ {0} /\ m \in Nat \ {0} /\ Len(s \o t) = n + m /\ s \o t # <<>>
    BY <1>1, <1>3, <1>6
  <2>2. ASSUME NEW k \in 1 .. n + m
        PROVE  (s \o t)[k].group = g
    <3>1. CASE k <= n
      BY <1>3, <2>1, <3>1 DEF IsBlock
    <3>2. CASE k > n
      <4>1. PICK j \in 1 .. m : k = n + j
        <5>. HIDE DEF n, m
        <5>1. k - n \in 1 .. m /\ k = n + (k - n)
          BY <2>1, <3>2
        <5>. QED
          BY <5>1
      <4>. QED
        BY <1>3, <4>1 DEF IsBlock
    <3>. QED
      BY <2>1, <3>1, <3>2
  <2>3. (s \o t)[1] = s[1] /\ (s \o t)[n + m] = t[m]
    BY <1>3, <2>1
  <2>. QED
    BY <1>3, <1>6, <2>1, <2>2, <2>3 DEF IsBlock
<1>. QED
  BY <1>4, <1>5, <1>6

\* A ledger to which the records of its next group are appended, and of which
\* the tail is kept, is a ledger.
LEMMA LedgerGrows ==
    ASSUME NEW s, NEW t, NEW a \in Nat, NEW b \in Nat, NEW g \in Nat,
           IsLedger(s, a, g), IsBlock(t, a, b, g)
    PROVE  IsLedger(Kept(s \o t), b, g + 1)
<1>1. s \in Seq(Evidence) /\ t \in Seq(Evidence) /\ IsLog(s) /\ IsLog(t)
  BY DEF IsBlock, IsLedger
<1>2. ASSUME s # <<>>, t # <<>>
      PROVE  Follows(s[Len(s)], t[1])
  <2>1. 1 \in 1 .. Len(t) /\ Len(s) \in 1 .. Len(s)
    BY <1>1, <1>2
  <2>2. s[Len(s)] \in Evidence
    BY <1>1, <2>1
  <2>3. t[1].group = g /\ t[1].sequence = a
    BY <1>2, <2>1 DEF IsBlock
  <2>. QED
    BY <1>2, <2>2, <2>3 DEF IsLedger, Follows, Evidence
<1>3. /\ s \o t \in Seq(Evidence)
      /\ Len(s \o t) = Len(s) + Len(t)
      /\ \A k \in 1 .. Len(s) : (s \o t)[k] = s[k]
      /\ \A k \in 1 .. Len(t) : (s \o t)[Len(s) + k] = t[k]
      /\ IsLog(s \o t)
  BY <1>1, <1>2, LogsJoin
<1>4. /\ Kept(s \o t) \in Seq(Evidence)
      /\ IsLog(Kept(s \o t))
      /\ Kept(s \o t) # <<>> =>
           s \o t # <<>> /\ Kept(s \o t)[Len(Kept(s \o t))] = (s \o t)[Len(s \o t)]
  BY <1>3, KeptIsALog
<1>5. ASSUME s \o t # <<>>
      PROVE  LET r == (s \o t)[Len(s \o t)]
             IN  r.sequence = b - 1 /\ r.status # "proposed" /\ r.group < g + 1
  <2>1. CASE t = <<>>
    <3>1. s \o t = s /\ s # <<>>
      BY <1>1, <1>5, <2>1
    <3>2. s[Len(s)] \in Evidence
      BY <1>1, <3>1
    <3>. QED
      BY <2>1, <3>1, <3>2 DEF IsLedger, IsBlock, Evidence
  <2>2. CASE t # <<>>
    <3>1. Len(t) \in 1 .. Len(t)
      BY <1>1, <2>2
    <3>2. (s \o t)[Len(s \o t)] = t[Len(t)]
      BY <1>3, <3>1
    <3>. QED
      BY <2>2, <3>1, <3>2 DEF IsBlock
  <2>. QED
    BY <2>1, <2>2
<1>. QED
  BY <1>4, <1>5 DEF IsLedger

\* While an ingress is admitted its records are a block of the next group.
EvidenceInv ==
    /\ TypeOK
    /\ IsLedger(ledger, nextSequence, nextGroup)
    /\ IsBlock(records, nextSequence, sequence, nextGroup)
    /\ Idle => records = <<>>

\* The records an ingress writes for one proposal.
LEMMA ProposalIsABlock ==
    ASSUME TypeOK, NEW status \in Statuses \ {"proposed"}
    PROVE  /\ IsBlock(<<Record(0, status)>>, sequence, sequence + 1, nextGroup)
           /\ IsBlock(<<Record(0, "proposed"), Record(1, status)>>,
                      sequence, sequence + 2, nextGroup)
           /\ IsBlock(<<Record(0, "proposed"), Record(1, "superseded"), Record(2, status)>>,
                      sequence, sequence + 3, nextGroup)
<1>1. /\ Record(0, status) \in Evidence
      /\ Record(0, "proposed") \in Evidence
      /\ Record(1, "superseded") \in Evidence
      /\ Record(1, status) \in Evidence
      /\ Record(2, status) \in Evidence
  BY RecordTyping DEF Statuses
<1>2. sequence \in Nat /\ nextGroup \in Nat
  BY DEF TypeOK
<1>3. IsBlock(<<Record(0, status)>>, sequence, sequence + 1, nextGroup)
  BY <1>1, <1>2 DEF IsBlock, IsLog, Follows, Record
<1>4. IsBlock(<<Record(0, "proposed"), Record(1, status)>>, sequence, sequence + 2, nextGroup)
  BY <1>1, <1>2 DEF IsBlock, IsLog, Follows, Record
<1>5. IsBlock(<<Record(0, "proposed"), Record(1, "superseded"), Record(2, status)>>,
              sequence, sequence + 3, nextGroup)
  BY <1>1, <1>2 DEF IsBlock, IsLog, Follows, Record
<1>. QED
  BY <1>3, <1>4, <1>5

\* An ingress that ends in one record leaves a ledger.
LEMMA OneRecordLogged ==
    ASSUME EvidenceInv, NEW status \in Statuses \ {"proposed"}, OneRecord(status)
    PROVE  /\ IsLedger(ledger', nextSequence', nextGroup')
           /\ records = <<>> /\ nextSequence' = sequence'
<1>1. records = <<>> /\ sequence = nextSequence
  BY DEF EvidenceInv, OneRecord, IsBlock
<1>2. sequence \in Nat /\ nextGroup \in Nat
  BY DEF EvidenceInv, TypeOK
<1>3. IsBlock(<<Record(0, status)>>, sequence, sequence + 1, nextGroup)
  BY ProposalIsABlock DEF EvidenceInv
<1>4. IsLedger(Kept(ledger \o <<Record(0, status)>>), sequence + 1, nextGroup + 1)
  BY <1>1, <1>2, <1>3, LedgerGrows DEF EvidenceInv
<1>5. Append(ledger, Record(0, status)) = ledger \o <<Record(0, status)>>
  BY DEF EvidenceInv, TypeOK
<1>. QED
  BY <1>1, <1>4, <1>5 DEF OneRecord

\* What one iteration of admitProposals adds goes on where the records stopped.
LEMMA ProposalLogged ==
    ASSUME EvidenceInv, ~Idle, NEW batch, NEW next \in Nat,
           IsBlock(batch, sequence, next, nextGroup),
           records' = records \o batch, sequence' = next,
           UNCHANGED <<nextSequence, nextGroup, source, ledger>>
    PROVE  /\ IsLedger(ledger', nextSequence', nextGroup')
           /\ IsBlock(records', nextSequence', sequence', nextGroup')
           /\ ~Idle'
<1>1. nextSequence \in Nat /\ sequence \in Nat /\ nextGroup \in Nat
  BY DEF EvidenceInv, TypeOK
<1>2. IsBlock(records \o batch, nextSequence, next, nextGroup)
  BY <1>1, BlocksJoin DEF EvidenceInv
<1>. QED
  BY <1>2 DEF EvidenceInv, Idle

\* No step of the circuit breaks the log.
LEMMA EvidenceInvInductive == EvidenceInv /\ [Next]_vars /\ TypeOK' => EvidenceInv'
<1>. DEFINE Goal == /\ IsLedger(ledger', nextSequence', nextGroup')
                    /\ IsBlock(records', nextSequence', sequence', nextGroup')
                    /\ Idle' => records' = <<>>
<1>. SUFFICES ASSUME EvidenceInv, [Next]_vars, TypeOK'
              PROVE  Goal
  BY DEF EvidenceInv, Idle
<1>. USE DEF Idle
<1>0. sequence \in Nat
  BY DEF EvidenceInv, TypeOK
<1>1. \A s, a, g : s = <<>> => IsBlock(s, a, a, g)
  BY DEF IsBlock, IsLog
<1>2. CASE RejectIngress
  <2>1. OneRecord("rejected") /\ UNCHANGED records
    BY <1>2 DEF RejectIngress
  <2>2. IsLedger(ledger', nextSequence', nextGroup') /\ records = <<>> /\ nextSequence' = sequence'
    BY <2>1, OneRecordLogged DEF Statuses
  <2>. QED
    BY <1>1, <2>1, <2>2
<1>3. ASSUME NEW who \in {"delegate", "user"}, NEW length \in Nat, BeginIngress(who, length)
      PROVE  Goal
  BY <1>3 DEF BeginIngress, EvidenceInv, state
<1>4. CASE AdmitMalformed
  <2>. DEFINE batch == <<Record(0, "rejected")>>
              next == sequence + 1
  <2>1. IsBlock(batch, sequence, next, nextGroup)
    BY ProposalIsABlock DEF EvidenceInv, Statuses
  <2>2. records' = records \o batch /\ sequence' = next /\ next \in Nat
    BY <1>0, <1>4 DEF AdmitMalformed, EvidenceInv, TypeOK
  <2>. HIDE DEF batch, next
  <2>. QED
    BY <1>4, <2>1, <2>2, ProposalLogged DEF AdmitMalformed, Admitting, state
<1>5. ASSUME NEW d \in Delta, AdmitRefused(d)
      PROVE  Goal
  <2>. DEFINE batch == <<Record(0, "proposed"), Record(1, RefusedStatus(d))>>
              next == sequence + 2
  <2>1. RefusedStatus(d) \in Statuses \ {"proposed"}
    BY DEF RefusedStatus, Statuses
  <2>2. IsBlock(batch, sequence, next, nextGroup)
    BY <2>1, ProposalIsABlock DEF EvidenceInv
  <2>3. records' = records \o batch /\ sequence' = next /\ next \in Nat
    BY <1>0, <1>5 DEF AdmitRefused
  <2>. HIDE DEF batch, next
  <2>. QED
    BY <1>5, <2>2, <2>3, ProposalLogged DEF AdmitRefused, Admitting, state
<1>6. ASSUME NEW d \in Delta, AdmitAccepted(d)
      PROVE  Goal
  <2>1. IsBlock(AcceptedRecords(d), sequence, SequenceAfterAccept(d), nextGroup)
    BY ProposalIsABlock DEF AcceptedRecords, SequenceAfterAccept, EvidenceInv, Statuses
  <2>2. SequenceAfterAccept(d) \in Nat
    BY <1>0 DEF SequenceAfterAccept
  <2>. QED
    BY <1>6, <2>1, <2>2, ProposalLogged DEF AdmitAccepted, Admitting, state
<1>7. CASE CommitIngress
  <2>1. nextSequence \in Nat /\ nextGroup \in Nat
    BY DEF EvidenceInv, TypeOK
  <2>2. IsLedger(Kept(ledger \o records), sequence, nextGroup + 1)
    BY <1>0, <2>1, LedgerGrows DEF EvidenceInv
  <2>. QED
    BY <1>1, <1>7, <2>2 DEF CommitIngress
<1>8. ASSUME NEW next \in Numbers, RefuseReemission(next)
      PROVE  Goal
  <2>1. OneRecord("rejected") /\ UNCHANGED records
    BY <1>8 DEF RefuseReemission
  <2>2. IsLedger(ledger', nextSequence', nextGroup') /\ records = <<>> /\ nextSequence' = sequence'
    BY <2>1, OneRecordLogged DEF Statuses
  <2>. QED
    BY <1>1, <2>1, <2>2
<1>9. ASSUME NEW next \in Numbers, NEW emitted \in EmittedChoices, Reemit(next, emitted)
      PROVE  Goal
  <2>1. OneRecord("superseded") /\ UNCHANGED records
    BY <1>9 DEF Reemit
  <2>2. IsLedger(ledger', nextSequence', nextGroup') /\ records = <<>> /\ nextSequence' = sequence'
    BY <2>1, OneRecordLogged DEF Statuses
  <2>. QED
    BY <1>1, <2>1, <2>2
<1>10. CASE SwitchDialect
  BY <1>10 DEF SwitchDialect, EvidenceInv, state, draft
<1>11. CASE UNCHANGED vars
  BY <1>11 DEF vars, EvidenceInv, state, draft
<1>. QED
  BY <1>2, <1>3, <1>4, <1>5, <1>6, <1>7, <1>8, <1>9, <1>10, <1>11, ConstantsAssumption
  DEF Next, RunMidLoop, ApplyUserOverride

\* The evidence the page keeps is numbered without gap or repetition up to the
\* next number, in groups that never go back, each proposal followed by its
\* disposition (midLoopRuntime.ts, +page.svelte:203).
THEOREM EvidenceIsSafe == Spec => []EvidenceIsALog
<1>1. Init => EvidenceInv
  <2>1. Init => TypeOK
    BY ConstantsAssumption DEF Init, TypeOK, ChoiceMaps
  <2>. QED
    BY <2>1 DEF Init, EvidenceInv, IsLedger, IsBlock, IsLog, Idle
<1>2. EvidenceInv => EvidenceIsALog
  BY DEF EvidenceInv, IsLedger, IsLog, Follows, EvidenceIsALog
<1>. QED
  BY <1>1, <1>2, EvidenceInvInductive, TypeCorrect, PTL DEF Spec

-----------------------------------------------------------------------------
(* Refinement.                                                             *)

\* Every step of the circuit is a step of the authority, or a stutter.
LEMMA AuthorityStep ==
    UserInv /\ [Next]_vars => [Authority!Next]_(Authority!vars)
<1>. SUFFICES ASSUME UserInv, [Next]_vars PROVE [Authority!Next]_(Authority!vars)
  OBVIOUS
<1>. USE DEF Authority!Next, Authority!vars, state, draft, history
<1>1. CASE UNCHANGED <<epoch, draftChoices, draftLocks, source>>
  BY <1>1
<1>2. ASSUME NEW d \in Delta, AdmitAccepted(d)
      PROVE  Authority!Next
  <2>1. d.id \in Ids /\ d.choice \in Numbers
    BY DEF Delta
  <2>2. <<d.id, d.choice>> \in Granted
    BY <1>2, <2>1 DEF AdmitAccepted, Admissible, Applies, InPolicy, Live, Granted, UserInv, TypeOK
  <2>3. Authority!Choose(d.id, d.choice)
    BY <1>2, <2>2 DEF AdmitAccepted, Authority!Choose
  <2>4. CASE source = "user"
    BY <1>2, <2>1, <2>3, <2>4 DEF AdmitAccepted, Authority!UserChooses
  <2>5. CASE source = "delegate"
    BY <1>2, <2>1, <2>3, <2>5
    DEF AdmitAccepted, Admissible, HeldByUser, Authority!DelegateChooses
  <2>. QED
    BY <1>2, <2>4, <2>5 DEF AdmitAccepted, Admitting, Idle, UserInv, TypeOK
<1>3. ASSUME NEW next \in Numbers, NEW emitted \in EmittedChoices, Reemit(next, emitted)
      PROVE  Authority!Next
  BY <1>3 DEF Reemit, OneRecord, Idle, IsStrictlyNewEpoch, LocksAfterReemission, Authority!Emit
<1>4. ASSUME NEW who \in {"delegate", "user"}, NEW length, BeginIngress(who, length)
      PROVE  Authority!Next
  BY <1>4 DEF BeginIngress, Idle, Authority!Actors, Authority!TakeTurn
<1>5. CASE CommitIngress
  BY <1>5 DEF CommitIngress, Authority!PassTurn
<1>. QED
  BY <1>1, <1>2, <1>3, <1>4, <1>5
  DEF Next, RunMidLoop, ApplyUserOverride, RejectIngress, AdmitMalformed, AdmitRefused,
       RefuseReemission, SwitchDialect, vars

\* The circuit implements ChoiceAuthority: choices move only inside the
\* granted authority and in somebody's turn, a delegate's turn never moves a
\* held id, and only a higher epoch, emitted in nobody's turn, releases one.
THEOREM Refinement == Spec => ImplementsAuthority
<1>1. Init => Authority!Init
  BY DEF Init, Authority!Init
<1>. QED
  BY <1>1, AuthorityStep, UserInvHolds, PTL DEF Spec, ImplementsAuthority, Authority!Spec
=============================================================================
