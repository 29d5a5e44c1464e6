------------------------------ MODULE MidLoop ------------------------------
(***************************************************************************)
(* The host circuit of src/lib/delegation: one emission envelope, a        *)
(* delegate that proposes packets of deltas, a user who overrides, and     *)
(* re-emission, as driven by src/routes/substrate/+page.svelte, where a    *)
(* dialect switch rebinds the policy to another tree/resolver pair while   *)
(* the envelope stays.                                                     *)
(*                                                                         *)
(* The runtime is synchronous: while an ingress is being admitted nothing  *)
(* else runs.  `source` says whose ingress that is; draftChoices,          *)
(* draftLocks and records are the locals of admitProposals, which it       *)
(* commits when it returns (between ingresses they equal the state).       *)
(*                                                                         *)
(* Numbers are counted in halves, so that an odd number is a fractional    *)
(* one; a number JSON cannot carry (NaN, an infinity) is a malformed       *)
(* proposal.                                                               *)
(***************************************************************************)
EXTENDS Integers, Sequences, FiniteSets

CONSTANTS
    Ids,             \* variation ids a delta may name, live or not
    Bindings,        \* tree/resolver pairs the host may bind the policy to
    Occurrences,     \* [Bindings -> [Ids -> set of live occurrence bounds]]
    PolicyTargets,   \* ids the policy names
    Allowed,         \* [Ids -> the choices the policy allows a target]
    Numbers,         \* the numbers a delta or an emitted epoch may carry
    EmittedChoices,  \* choice maps an emitted envelope may start from
    NoChoice,        \* the value of an id the choice map has no entry for
    MaxSafeInteger,  \* Number.MAX_SAFE_INTEGER, in halves
    MaxPacket,       \* MAX_PROPOSAL_PACKET_LENGTH
    LedgerSize,      \* evidence records the host page keeps
    MaxGroups        \* bound of the model: ingresses and re-emissions in a run

ChoiceMaps == [Ids -> Numbers \cup {NoChoice}]

ASSUME ConstantsAssumption ==
    /\ Numbers \subseteq Int
    /\ NoChoice \notin Int
    /\ Bindings # {}
    /\ Occurrences \in [Bindings -> [Ids -> SUBSET (Int \X Int)]]
    /\ PolicyTargets \subseteq Ids
    /\ Allowed \in [Ids -> SUBSET Int]
    /\ EmittedChoices \subseteq ChoiceMaps
    /\ MaxSafeInteger \in Nat
    /\ MaxPacket \in Nat
    /\ LedgerSize \in Nat \ {0}
    /\ MaxGroups \in Nat

VARIABLES
    epoch,           \* state.envelope.epoch
    choices,         \* state.envelope.choices
    lockedIds,       \* state.lockedIds
    nextSequence,    \* state.nextSequence
    nextGroup,       \* state.nextGroup
    binding,         \* the pair runtime.policy is bound to
    source,          \* whose ingress is being admitted, or "none"
    left,            \* its proposals still to be looked at
    draftChoices,    \* admitProposals' local envelope.choices
    draftLocks,      \* admitProposals' local lockedIds
    sequence,        \* its local sequence counter
    records,         \* its local records, as [sequence, group, status]
    ledger,          \* the host page's tail of the evidence
    userChoice,      \* history: the user's last admitted choice this epoch
    admittedUnder    \* history: the binding an id's choice was admitted under

state == <<epoch, choices, lockedIds, nextSequence, nextGroup>>
draft == <<source, left, draftChoices, draftLocks, sequence, records>>
history == <<userChoice, admittedUnder>>
vars == <<state, binding, draft, ledger, history>>

-----------------------------------------------------------------------------
(* Numbers.                                                                *)


Smaller(a, b) == IF a <= b THEN a ELSE b
Larger(a, b) == IF a <= b THEN b ELSE a
IsInteger(n) == (n % 2) = 0
Truncated(n) == IF n >= 0 THEN n - (n % 2) ELSE n + (n % 2)
IsSafeInteger(n) == IsInteger(n) /\ n <= MaxSafeInteger /\ -n <= MaxSafeInteger

(* applyDelta.ts: which deltas the bound index admits.                     *)

Within(o, c) == Smaller(o[1], o[2]) <= c /\ c <= Larger(o[1], o[2])

\* A fault: one fitting occurrence of a duplicated id is taken for all of them.
ChoiceFitsOnce(bounds, c) == IsInteger(c) /\ \E o \in bounds : Within(o, c)

ChoiceFitsAll(bounds, c) == IsInteger(c) /\ \A o \in bounds : Within(o, c)

Live(i) == Occurrences[binding][i] # {}

Delta == [id : Ids, choice : Numbers, epoch : Numbers]

Applies(d) ==
    /\ d.epoch = epoch
    /\ Live(d.id)
    /\ ChoiceFitsAll(Occurrences[binding][d.id], d.choice)

(* admitProposals: the policy gate behind the structural one.              *)

InPolicy(d) == d.id \in PolicyTargets /\ d.choice \in Allowed[d.id]

\* A fault: a delegate's delta is admitted whether the user holds the id or not.
HeldByNobody(d) == d.id \notin Ids

HeldByUser(d) == source = "delegate" /\ d.id \in draftLocks

Admissible(d) == Applies(d) /\ InPolicy(d) /\ ~HeldByUser(d)

(* resolveChoice.ts: what an occurrence of a chosen id renders.            *)

ClampedIntegerChoice(raw, o) ==
    Smaller(Larger(Truncated(raw), Smaller(o[1], o[2])), Larger(o[1], o[2]))

-----------------------------------------------------------------------------
(* Evidence.                                                               *)

Statuses == {"proposed", "accepted", "rejected", "superseded"}
Evidence == [sequence : Nat, group : Nat, status : Statuses]

\* The record written k records after the counter's present value.
Record(k, status) ==
    [sequence |-> sequence + k, group |-> nextGroup, status |-> status]

\* +page.svelte keeps the newest LedgerSize records.
Kept(log) == SubSeq(log, Larger(1, Len(log) - LedgerSize + 1), Len(log))

Idle == source = "none"

\* Bound of the model: every ingress takes a group of evidence.
RoomForIngress == nextGroup < MaxGroups

-----------------------------------------------------------------------------
Init ==
    /\ epoch \in Numbers
    /\ choices \in EmittedChoices
    /\ lockedIds = {}
    /\ nextSequence = 0
    /\ nextGroup = 0
    /\ binding \in Bindings
    /\ source = "none"
    /\ left = 0
    /\ draftChoices = choices
    /\ draftLocks = {}
    /\ sequence = 0
    /\ records = <<>>
    /\ ledger = <<>>
    /\ userChoice = [i \in Ids |-> NoChoice]
    /\ admittedUnder = [i \in Ids |-> {}]

\* An ingress that ends in the single record `status` and changes nothing else.
OneRecord(status) ==
    /\ Idle
    /\ RoomForIngress
    /\ ledger' = Kept(Append(ledger, Record(0, status)))
    /\ nextSequence' = nextSequence + 1
    /\ sequence' = nextSequence + 1
    /\ nextGroup' = nextGroup + 1

\* rejectIngress: the delegate threw, or answered something that is no packet.
RejectIngress ==
    /\ OneRecord("rejected")
    /\ UNCHANGED <<epoch, choices, lockedIds, binding, history>>
    /\ UNCHANGED <<source, left, draftChoices, draftLocks, records>>

BeginIngress(who, length) ==
    /\ Idle
    /\ RoomForIngress
    /\ source' = who
    /\ left' = length
    /\ UNCHANGED <<state, binding, draftChoices, draftLocks, sequence, records>>
    /\ UNCHANGED <<ledger, history>>

\* runMidLoop: the delegate is called with the projected digest and the live ids.
RunMidLoop ==
    \/ RejectIngress
    \/ \E length \in 0 .. MaxPacket : BeginIngress("delegate", length)

ApplyUserOverride == BeginIngress("user", 1)

-----------------------------------------------------------------------------
(* The loop of admitProposals, one iteration per step.                     *)

Admitting == ~Idle /\ left > 0

AdmitMalformed ==
    /\ Admitting
    /\ left' = left - 1
    /\ records' = Append(records, Record(0, "rejected"))
    /\ sequence' = sequence + 1
    /\ UNCHANGED <<state, binding, source, draftChoices, draftLocks, ledger, history>>

RefusedStatus(d) ==
    IF d.epoch # epoch \/ (Applies(d) /\ InPolicy(d)) THEN "superseded" ELSE "rejected"

AdmitRefused(d) ==
    /\ Admitting
    /\ ~Admissible(d)
    /\ left' = left - 1
    /\ records' = records \o <<Record(0, "proposed"), Record(1, RefusedStatus(d))>>
    /\ sequence' = sequence + 2
    /\ UNCHANGED <<state, binding, source, draftChoices, draftLocks, ledger, history>>

\* A user's override of another choice records what it supersedes.
Overrides(d) == source = "user" /\ draftChoices[d.id] \notin {NoChoice, d.choice}

AcceptedRecords(d) ==
    IF Overrides(d)
    THEN <<Record(0, "proposed"), Record(1, "superseded"), Record(2, "accepted")>>
    ELSE <<Record(0, "proposed"), Record(1, "accepted")>>

\* A fault: the record of the superseded choice does not advance the counter.
SequenceSkipsOverride(d) == sequence + 2

SequenceAfterAccept(d) == IF Overrides(d) THEN sequence + 3 ELSE sequence + 2

AdmitAccepted(d) ==
    /\ Admitting
    /\ Admissible(d)
    /\ left' = left - 1
    /\ records' = records \o AcceptedRecords(d)
    /\ sequence' = SequenceAfterAccept(d)
    /\ draftChoices' = [draftChoices EXCEPT ![d.id] = d.choice]
    /\ draftLocks' = IF source = "user" THEN draftLocks \cup {d.id} ELSE draftLocks
    /\ userChoice' =
         IF source = "user" THEN [userChoice EXCEPT ![d.id] = d.choice] ELSE userChoice
    /\ admittedUnder' = [admittedUnder EXCEPT ![d.id] = {binding}]
    /\ UNCHANGED <<state, binding, source, ledger>>

\* admitProposals returns and the page assigns the state and appends the records.
CommitIngress ==
    /\ ~Idle
    /\ left = 0
    /\ choices' = draftChoices
    /\ lockedIds' = draftLocks
    /\ nextSequence' = sequence
    /\ nextGroup' = nextGroup + 1
    /\ ledger' = Kept(ledger \o records)
    /\ source' = "none"
    /\ records' = <<>>
    /\ UNCHANGED <<epoch, binding, left, draftChoices, draftLocks, sequence, history>>

-----------------------------------------------------------------------------
(* reemitMidLoop, and the page's dialect switch.                           *)

IsStrictlyNewEpoch(next) == IsSafeInteger(epoch) /\ IsSafeInteger(next) /\ next > epoch

LocksAfterReemission == {}

Reemit(next, emitted) ==
    /\ IsStrictlyNewEpoch(next)
    /\ OneRecord("superseded")
    /\ epoch' = next
    /\ choices' = emitted
    /\ draftChoices' = emitted
    /\ lockedIds' = LocksAfterReemission
    /\ draftLocks' = LocksAfterReemission
    /\ userChoice' = [i \in Ids |-> NoChoice]
    /\ admittedUnder' = [i \in Ids |-> {}]
    /\ UNCHANGED <<binding, source, left, records>>

RefuseReemission(next) ==
    /\ ~IsStrictlyNewEpoch(next)
    /\ OneRecord("rejected")
    /\ UNCHANGED <<epoch, choices, lockedIds, binding, history>>
    /\ UNCHANGED <<source, left, draftChoices, draftLocks, records>>

SwitchDialect ==
    /\ Idle
    /\ binding' \in Bindings \ {binding}
    /\ UNCHANGED <<state, draft, ledger, history>>

Next ==
    \/ RunMidLoop
    \/ ApplyUserOverride
    \/ AdmitMalformed
    \/ \E d \in Delta : AdmitRefused(d) \/ AdmitAccepted(d)
    \/ CommitIngress
    \/ \E next \in Numbers :
         RefuseReemission(next) \/ \E emitted \in EmittedChoices : Reemit(next, emitted)
    \/ SwitchDialect

Spec == Init /\ [][Next]_vars

-----------------------------------------------------------------------------
(* Properties.                                                             *)

\* Every variable has its type.
TypeOK ==
    /\ epoch \in Numbers
    /\ choices \in ChoiceMaps
    /\ lockedIds \subseteq Ids
    /\ nextSequence \in Nat
    /\ nextGroup \in Nat
    /\ binding \in Bindings
    /\ source \in {"none", "delegate", "user"}
    /\ left \in Nat
    /\ draftChoices \in ChoiceMaps
    /\ draftLocks \subseteq Ids
    /\ sequence \in Nat
    /\ records \in Seq(Evidence)
    /\ ledger \in Seq(Evidence)
    /\ Len(ledger) <= LedgerSize
    /\ userChoice \in ChoiceMaps
    /\ admittedUnder \in [Ids -> SUBSET Bindings]

\* Whatever delegates propose, however often, and however the dialect moves,
\* the last choice the user had admitted in this epoch is the one the
\* envelope carries, and its id is locked ("locks that id against delegates
\* for the current epoch", ADR-0024 point 4; midLoopRuntime.ts:318, 364).
UserChoiceStands ==
    Idle => \A i \in Ids : /\ userChoice[i] # NoChoice => choices[i] = userChoice[i]
                           /\ i \in lockedIds <=> userChoice[i] # NoChoice

\* A choice admitted under the binding in force renders as itself in every
\* live occurrence of its id, duplicates and reversed ranges included: the
\* clamp of resolveChoice.ts never has to correct what applyDelta let in.
AdmittedRendersVerbatim ==
    \A i \in Ids : binding \in admittedUnder[i] =>
        \A o \in Occurrences[binding][i] : ClampedIntegerChoice(draftChoices[i], o) = draftChoices[i]

\* The evidence the page keeps is a log: numbered without gap or repetition
\* across thrown, malformed, refused and overriding ingresses and refused
\* re-emissions, up to the next number to be given; a "proposed" record is
\* followed by its disposition in the same group.
EvidenceIsALog ==
    Idle =>
        /\ \A k \in 1 .. Len(ledger) - 1 :
             /\ ledger[k + 1].sequence = ledger[k].sequence + 1
             /\ ledger[k + 1].group >= ledger[k].group
             /\ ledger[k].status = "proposed" =>
                  /\ ledger[k + 1].status # "proposed"
                  /\ ledger[k + 1].group = ledger[k].group
        /\ ledger # <<>> =>
             /\ ledger[Len(ledger)].sequence = nextSequence - 1
             /\ ledger[Len(ledger)].status # "proposed"
             /\ ledger[Len(ledger)].group < nextGroup

(* MidLoop implements the authority it was specified to have.              *)

Granted ==
    {g \in Ids \X Numbers :
        /\ g[1] \in PolicyTargets
        /\ g[2] \in Allowed[g[1]]
        /\ \E b \in Bindings : /\ Occurrences[b][g[1]] # {}
                               /\ ChoiceFitsAll(Occurrences[b][g[1]], g[2])}

Authority == INSTANCE ChoiceAuthority WITH
    Choices <- Numbers,
    Epochs <- Numbers,
    epoch <- epoch,
    choice <- draftChoices,
    held <- draftLocks,
    turn <- source

\* Every run of the circuit is a run of ChoiceAuthority: a choice moves only
\* inside the granted authority and in somebody's turn, no delta of a
\* delegate's ingress moves an id the user holds, only the user's own
\* ingress takes hold of one, and only an envelope of a higher epoch, emitted
\* between ingresses, releases one (midLoopRuntime.ts:318, 364, 189).
ImplementsAuthority == Authority!Spec
=============================================================================
