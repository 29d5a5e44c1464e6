--------------------------- MODULE DialectArrival ---------------------------
(***************************************************************************)
(* Which dialect a visitor sees: the landing link, the choice kept in      *)
(* localStorage and the shipped default (src/lib/dialects/arrival.ts,      *)
(* active.svelte.ts, registry.ts), as src/routes/+layout.svelte wires them *)
(* in its two effects.                                                     *)
(*                                                                         *)
(* Every tab runs the bundle that was deployed when it landed, and has its *)
(* own active dialect; the tabs share localStorage.  Effects flush after   *)
(* the event that caused them and before the next one, so landing is one   *)
(* step (both effects) and so is a toggle (the write-back effect).         *)
(***************************************************************************)
EXTENDS FiniteSets, Naturals

CONSTANTS
    Tabs,
    Deployments,     \* bundles that may ship, as [registry, default]
    None             \* no bundle, nothing stored, nothing chosen

Dialects == UNION {d.registry : d \in Deployments}

ASSUME ArrivalAssumption ==
    /\ \A d \in Deployments : d.default \in d.registry
    /\ None \notin Dialects \cup Deployments

VARIABLES
    deployed,        \* the bundle a landing tab gets
    bundle,          \* [Tabs -> the bundle the tab runs, or None]
    active,          \* [Tabs -> activeDialect.id, or None]
    stored,          \* localStorage["mo-dialect.v2"], or None
    toggled,         \* history: [Tabs -> the visitor's choice this session]
    lastMove         \* history: the last dialect a choice or a link asked for

vars == <<deployed, bundle, active, stored, toggled, lastMove>>

-----------------------------------------------------------------------------
(* arrival.ts.                                                             *)

\* A fault: the stored choice outranks the link.
ResolveStoredFirst(param, persisted, registry) ==
    IF persisted # None THEN persisted ELSE param

ResolveArrivalDialect(param, persisted, registry) ==
    IF param \in registry THEN param ELSE persisted

\* A fault: the untouched default is stored.
PersistAlways(id, kept, default) == id

\* What storage holds after the write-back effect has run.
Persisted(id, kept, default) ==
    IF kept = None /\ id = default THEN None ELSE id

\* A fault: any id is set.
SetUnchecked(id, current, registry) == id

\* activeDialect.setById: an unknown id is no reset.
SetById(id, current, registry) == IF id \in registry THEN id ELSE current

-----------------------------------------------------------------------------
Init ==
    /\ deployed \in Deployments
    /\ bundle = [t \in Tabs |-> None]
    /\ active = [t \in Tabs |-> None]
    /\ stored = None
    /\ toggled = [t \in Tabs |-> None]
    /\ lastMove = None

\* What a landing or a re-run of its effect shows and stores.
Apply(t, d, current, param) ==
    LET resolved == ResolveArrivalDialect(param, stored, d.registry)
        shown == SetById(resolved, current, d.registry) IN
        /\ active' = [active EXCEPT ![t] = shown]
        /\ stored' = Persisted(shown, stored, d.default)
        /\ lastMove' = IF param \in d.registry THEN param ELSE lastMove

\* A tab lands, or reloads, at a link that may carry ?dialect=.
Land(t, param) ==
    /\ bundle' = [bundle EXCEPT ![t] = deployed]
    /\ toggled' = [toggled EXCEPT ![t] = None]
    /\ Apply(t, deployed, deployed.default, param)
    /\ UNCHANGED deployed

\* A fault: the arrival effect tracks the URL and runs on every navigation.
Tracked(t, param) == Apply(t, bundle[t], active[t], param)

\* The arrival effect reads the URL untracked: navigation does not re-run it.
Untracked(t, param) == UNCHANGED <<active, stored, lastMove>>

\* Client-side navigation to a link that may carry ?dialect=.
Navigate(t, param) ==
    /\ bundle[t] # None
    /\ Untracked(t, param)
    /\ UNCHANGED <<deployed, bundle, toggled>>

\* The visitor picks another dialect.
Toggle(t, id) ==
    /\ bundle[t] # None
    /\ id \in bundle[t].registry \ {active[t]}
    /\ active' = [active EXCEPT ![t] = id]
    /\ stored' = Persisted(id, stored, bundle[t].default)
    /\ toggled' = [toggled EXCEPT ![t] = id]
    /\ lastMove' = id
    /\ UNCHANGED <<deployed, bundle>>

Deploy ==
    /\ deployed' \in Deployments \ {deployed}
    /\ UNCHANGED <<bundle, active, stored, toggled, lastMove>>

Next ==
    \/ \E t \in Tabs, param \in Dialects \cup {None} : Land(t, param) \/ Navigate(t, param)
    \/ \E t \in Tabs, id \in Dialects : Toggle(t, id)
    \/ Deploy

Spec == Init /\ [][Next]_vars

-----------------------------------------------------------------------------
(* Properties.                                                             *)

\* Every variable has its type, and a tab shows a dialect its bundle has
\* ("a stray/legacy id can never make the renderer non-total",
\* registry.ts:73).
TypeOK ==
    /\ deployed \in Deployments
    /\ bundle \in [Tabs -> Deployments \cup {None}]
    /\ active \in [Tabs -> Dialects \cup {None}]
    /\ \A t \in Tabs : bundle[t] # None => active[t] \in bundle[t].registry
    /\ stored \in Dialects \cup {None}
    /\ toggled \in [Tabs -> Dialects \cup {None}]
    /\ lastMove \in Dialects \cup {None}

\* An in-session choice stands against every link followed and every other
\* tab until the visitor chooses again or lands anew ("attribution must never
\* fight the user", arrival.ts:23).
ChoiceStands == \A t \in Tabs : toggled[t] # None => active[t] = toggled[t]

\* Storage holds the last dialect any tab was asked for, and never a default
\* nobody asked for, so that a flipped default reaches every visitor who
\* expressed nothing (arrival.ts:61).
StorageIsLastMove ==
    IF stored = None
    THEN lastMove \in {None} \cup {d.default : d \in Deployments}
    ELSE stored = lastMove

(* A statement of arrival.ts that the layout's wiring does not keep.       *)

\* "the untouched default is not a choice. Persisting it would freeze the
\* shipped default into every visitor's storage" (arrival.ts:61), with "a
\* stale persisted id is harmless downstream" (arrival.ts:34): what is
\* stored was asked for.
UntouchedDefaultIsNoChoice == stored \in {None, lastMove}
=============================================================================
