----------------------------- MODULE Tier1Store -----------------------------
(***************************************************************************)
(* The client store a Morphe root gives its bound primitives               *)
(* (src/lib/state/store.svelte.ts): values by path, the subscribers of a   *)
(* path, and the window of recent tier-1 events that a digest pairs with   *)
(* the values (digest.ts).                                                 *)
(*                                                                         *)
(* A commit sets the value, calls the subscribers of the path one by one   *)
(* and only then records its event, all on one call stack.  A subscriber   *)
(* is host code: while it runs it may commit, subscribe, dispose of a      *)
(* subscription, or throw; the throw unwinds to whichever host code on the *)
(* stack catches it.                                                       *)
(*                                                                         *)
(* The subscribers of a path are a JavaScript Set: what is deleted leaves  *)
(* a hole, what is added goes to the end, and an iteration under way sees  *)
(* both.  Emptied, the Set is dropped from the store's Map; a closure that *)
(* unsubscribes still holds it.                                            *)
(***************************************************************************)
EXTENDS Naturals, Sequences

CONSTANTS
    Paths,
    Values,
    Unset,                \* the value of a path nobody wrote
    Subscribers,          \* callback functions
    Nobody,               \* a hole in a Set; no callback running
    NoSet,                \* the Map has no entry for the path
    WindowSize,           \* TIER1_WINDOW_SIZE
    SubscribesOnce,       \* hosts subscribe no function to a path that it is
                          \* subscribed to
    DisposesOnce,         \* hosts call no unsubscribe closure twice
    MaxCommits,           \* bound: commits begun
    MaxSubscriptions      \* bound: subscriptions made

ASSUME Tier1Assumption ==
    /\ Unset \notin Values
    /\ Nobody \notin Subscribers
    /\ NoSet \notin Nat
    /\ WindowSize \in Nat \ {0}
    /\ SubscribesOnce \in BOOLEAN
    /\ DisposesOnce \in BOOLEAN

VARIABLES
    values,          \* #values
    registry,        \* #subscribers: [Paths -> index in sets, or NoSet]
    sets,            \* every Set made: the path it was made for, its entries
    subscriptions,   \* every closure subscribe returned; live until called
    events,          \* #events, oldest first
    stack,           \* commits under way, the innermost last
    commits,         \* commits begun
    heard,           \* history: [Subscribers \X Paths -> last value told]
    torn             \* history: paths whose last commit was cut or overtaken

vars == <<values, registry, sets, subscriptions, events, stack, commits, heard, torn>>

-----------------------------------------------------------------------------
(* A frame of the stack: the value #notify took, the Set it iterates, the  *)
(* position it is to look at next, the callback that is running, and       *)
(* whether another commit of the path began meanwhile.                     *)

Frame(p, v) ==
    [path |-> p, value |-> v, set |-> registry[p], next |-> 1,
     running |-> Nobody, overtaken |-> FALSE]

Top == stack[Len(stack)]

\* The frame replaces the innermost one.
WithTop(frame) == [stack EXCEPT ![Len(stack)] = frame]

\* The frame runs callback s, found at position i.
Calling(frame, i, s) == [frame EXCEPT !.next = i + 1, !.running = s]

\* Host code is running: an event handler, or a callback it subscribed.
HostHasControl == stack # <<>> => Top.running # Nobody

\* The entries the innermost notification iterates; none without a Set.
Entries == IF Top.set = NoSet THEN <<>> ELSE sets[Top.set].entries

\* The position of the next callback that is due, holes skipped.
IsDue(i) ==
    /\ i \in Top.next..Len(Entries)
    /\ Entries[i] # Nobody
    /\ \A j \in Top.next..(i - 1) : Entries[j] = Nobody

Holds(s, p) ==
    \E i \in DOMAIN subscriptions :
        /\ subscriptions[i].live
        /\ subscriptions[i].subscriber = s
        /\ subscriptions[i].path = p

-----------------------------------------------------------------------------
\* A fault: the window is one too long.
TrimmedLate(log) ==
    IF Len(log) > WindowSize + 1 THEN SubSeq(log, Len(log) - WindowSize, Len(log)) ELSE log

\* A fault: the newest events are the ones dropped.
TrimmedAtTheEnd(log) ==
    IF Len(log) > WindowSize THEN SubSeq(log, 1, WindowSize) ELSE log

Trimmed(log) ==
    IF Len(log) > WindowSize
    THEN SubSeq(log, Len(log) - WindowSize + 1, Len(log))
    ELSE log

Init ==
    /\ values = [p \in Paths |-> Unset]
    /\ registry = [p \in Paths |-> NoSet]
    /\ sets = <<>>
    /\ subscriptions = <<>>
    /\ events = <<>>
    /\ stack = <<>>
    /\ commits = 0
    /\ heard = [h \in Subscribers \X Paths |-> Unset]
    /\ torn = {}

\* commitTier1 as far as the loop of #notify.
Commit(p, v) ==
    /\ HostHasControl
    /\ commits < MaxCommits
    /\ commits' = commits + 1
    /\ values' = [values EXCEPT ![p] = v]
    /\ stack' = Append([i \in DOMAIN stack |->
                           [stack[i] EXCEPT !.overtaken = (@ \/ stack[i].path = p)]],
                       Frame(p, v))
    /\ UNCHANGED <<registry, sets, subscriptions, events, heard, torn>>

\* #notify calls the next subscriber.
Call ==
    /\ ~HostHasControl
    /\ \E i \in DOMAIN Entries :
        /\ IsDue(i)
        /\ stack' = WithTop(Calling(Top, i, Entries[i]))
        /\ heard' = [heard EXCEPT ![<<Entries[i], Top.path>>] = Top.value]
    /\ UNCHANGED <<values, registry, sets, subscriptions, events, commits, torn>>

\* The subscriber returns to #notify.
Return ==
    /\ stack # <<>>
    /\ Top.running # Nobody
    /\ stack' = WithTop([Top EXCEPT !.running = Nobody])
    /\ UNCHANGED <<values, registry, sets, subscriptions, events, commits, heard, torn>>

\* #notify has called everyone; recordEvent, and commitTier1 returns.
EndCommit ==
    /\ ~HostHasControl
    /\ \A i \in DOMAIN Entries : ~IsDue(i)
    /\ events' = Trimmed(Append(events, [path |-> Top.path, value |-> Top.value]))
    /\ stack' = SubSeq(stack, 1, Len(stack) - 1)
    /\ torn' = IF Top.overtaken THEN torn \cup {Top.path} ELSE torn \ {Top.path}
    /\ UNCHANGED <<values, registry, sets, subscriptions, commits, heard>>

\* The running subscriber throws; the callback of frame k, or for k = 0 the
\* host code that made the outermost commit, catches.
Throw(k) ==
    /\ stack # <<>>
    /\ Top.running # Nobody
    /\ stack' = SubSeq(stack, 1, k)
    /\ torn' = torn \cup {stack[i].path : i \in (k + 1)..Len(stack)}
    /\ UNCHANGED <<values, registry, sets, subscriptions, events, commits, heard>>

-----------------------------------------------------------------------------
Members(entries) == {entries[i] : i \in DOMAIN entries} \ {Nobody}

\* Set.prototype.add.
Added(entries, s) == IF s \in Members(entries) THEN entries ELSE Append(entries, s)

\* A fault: a Set about to be dropped from the Map keeps its last member.
RemovedUnlessLast(entries, s) ==
    IF Members(entries) = {s} THEN entries
    ELSE [i \in DOMAIN entries |-> IF entries[i] = s THEN Nobody ELSE entries[i]]

\* Set.prototype.delete.
Removed(entries, s) ==
    [i \in DOMAIN entries |-> IF entries[i] = s THEN Nobody ELSE entries[i]]

\* The Sets when the j-th has the entries.
WithEntries(j, entries) == [sets EXCEPT ![j].entries = entries]

\* The host subscribes s and reads the value as it does.
Subscribe(s, p) ==
    /\ HostHasControl
    /\ Len(subscriptions) < MaxSubscriptions
    /\ SubscribesOnce => ~Holds(s, p)
    /\ LET made == registry[p] = NoSet
           set == IF made THEN Len(sets) + 1 ELSE registry[p]
       IN  /\ sets' = IF made THEN Append(sets, [path |-> p, entries |-> <<s>>])
                      ELSE WithEntries(set, Added(sets[set].entries, s))
           /\ registry' = [registry EXCEPT ![p] = set]
           /\ subscriptions' = Append(subscriptions,
                [subscriber |-> s, path |-> p, set |-> set, live |-> TRUE])
    /\ heard' = [heard EXCEPT ![<<s, p>>] = values[p]]
    /\ UNCHANGED <<values, events, stack, commits, torn>>

\* A fault: the Map's entry goes with any of its subscribers.
DroppedAlways(entries) == TRUE

\* The Map's entry is deleted, whichever Set it holds.
Dropped(entries) == Members(entries) = {}

\* The closure of subscription i is called.
Unsubscribe(i) ==
    /\ HostHasControl
    /\ DisposesOnce => subscriptions[i].live
    /\ LET gone == subscriptions[i]
           rest == Removed(sets[gone.set].entries, gone.subscriber)
       IN  /\ sets' = WithEntries(gone.set, rest)
           /\ registry' = [registry EXCEPT ![gone.path] = IF Dropped(rest) THEN NoSet ELSE @]
    /\ subscriptions' = [subscriptions EXCEPT ![i].live = FALSE]
    /\ UNCHANGED <<values, events, stack, commits, heard, torn>>

Next ==
    \/ \E p \in Paths, v \in Values : Commit(p, v)
    \/ Call
    \/ Return
    \/ EndCommit
    \/ \E k \in 0..(Len(stack) - 1) : Throw(k)
    \/ \E s \in Subscribers, p \in Paths : Subscribe(s, p)
    \/ \E i \in DOMAIN subscriptions : Unsubscribe(i)

Spec == Init /\ [][Next]_vars

-----------------------------------------------------------------------------
\* The digest an escalation carries.
DigestOf == [state |-> values, recentEvents |-> events]

Event == [path : Paths, value : Values]

Frames ==
    [path : Paths, value : Values, set : Nat \cup {NoSet}, next : Nat \ {0},
     running : Subscribers \cup {Nobody}, overtaken : BOOLEAN]

Subscription == [subscriber : Subscribers, path : Paths, set : Nat, live : BOOLEAN]

JsSet == [path : Paths, entries : Seq(Subscribers \cup {Nobody})]

\* The types; indices of Sets are of Sets that exist.
TypeOK ==
    /\ values \in [Paths -> Values \cup {Unset}]
    /\ registry \in [Paths -> DOMAIN sets \cup {NoSet}]
    /\ sets \in Seq(JsSet)
    /\ subscriptions \in Seq(Subscription)
    /\ events \in Seq(Event)
    /\ Len(events) =< WindowSize
    /\ stack \in Seq(Frames)
    /\ commits \in Nat
    /\ heard \in [Subscribers \X Paths -> Values \cup {Unset}]
    /\ torn \subseteq Paths
    /\ \A i \in DOMAIN subscriptions : subscriptions[i].set \in DOMAIN sets
    /\ \A i \in DOMAIN stack : stack[i].set \in DOMAIN sets \cup {NoSet}

\* A callback is called for a path only while a subscription of it to that
\* path has not been disposed of: not by an iteration that was under way when
\* it was (store.svelte.ts 96-99, 127-132).
OnlyHoldersAreCalled ==
    [][\A s \in Subscribers, p \in Paths :
        Call /\ Top.path = p /\ Top'.running = s => Holds(s, p)]_vars

Newest(p) ==
    {i \in DOMAIN events :
        events[i].path = p /\ \A j \in (i + 1)..Len(events) : events[j].path # p}

\* With no commit under way, a digest's events tell its values: the newest
\* event of a path carries the path's value, and a written path is without an
\* event only once the window is full.  A commit that a throw cut short, or
\* that another of the path overtook, forfeits this until the path's next
\* commit; no other path is affected (commitTier1, digestOf).
DigestAgrees ==
    stack = <<>> => \A p \in Paths \ torn :
        /\ \A i \in Newest(p) : DigestOf.recentEvents[i].value = DigestOf.state[p]
        /\ Newest(p) = {} /\ DigestOf.state[p] # Unset => Len(events) = WindowSize

\* With no commit under way, every subscriber that has not disposed of its
\* subscription was told the value its path has, however subscriptions came
\* and went while it was being told (subscribe, #notify).
EveryHolderHasHeard ==
    stack = <<>> => \A s \in Subscribers, p \in Paths \ torn :
        Holds(s, p) => heard[<<s, p>>] = values[p]
=============================================================================
