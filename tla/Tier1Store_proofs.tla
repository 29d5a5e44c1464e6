------------------------- MODULE Tier1Store_proofs --------------------------
(***************************************************************************)
(* Proofs about Tier1Store for any paths, values, callbacks and window,    *)
(* whatever the hosts do.                                                  *)
(***************************************************************************)
EXTENDS Tier1Store, CommonLemmas

\* Host code keeps control of a stack it has; otherwise there is a top frame.
LEMMA TopIsAFrame ==
    ASSUME stack \in Seq(Frames), stack # <<>>
    PROVE  Len(stack) \in DOMAIN stack /\ Top \in Frames
  BY DEF Top

\* A frame stays a frame, of the same path, value and Set, while the stack moves.
LEMMA FrameMoves ==
    ASSUME NEW f \in Frames
    PROVE  /\ \A b \in BOOLEAN :
                LET g == [f EXCEPT !.overtaken = b]
                IN  g \in Frames /\ g.set = f.set /\ g.path = f.path
           /\ \A i \in Nat, s \in Subscribers :
                LET g == Calling(f, i, s)
                IN  g \in Frames /\ g.set = f.set /\ g.path = f.path /\ g.running = s
           /\ LET g == [f EXCEPT !.running = Nobody]
              IN  g \in Frames /\ g.set = f.set /\ g.path = f.path
<1>1. \A b \in BOOLEAN :
        LET g == [f EXCEPT !.overtaken = b]
        IN  g \in Frames /\ g.set = f.set /\ g.path = f.path
  BY DEF Frames
<1>2. \A i \in Nat, s \in Subscribers :
        LET g == Calling(f, i, s)
        IN  g \in Frames /\ g.set = f.set /\ g.path = f.path /\ g.running = s
  <2>. TAKE i \in Nat, s \in Subscribers
  <2>. DEFINE h == [f EXCEPT !.next = i + 1]
  <2>1. h \in Frames /\ h.set = f.set /\ h.path = f.path
    BY DEF Frames
  <2>2. Calling(f, i, s) = [h EXCEPT !.running = s]
    BY DEF Calling
  <2>. HIDE DEF h
  <2>. QED
    BY <2>1, <2>2 DEF Frames
<1>3. LET g == [f EXCEPT !.running = Nobody]
      IN  g \in Frames /\ g.set = f.set /\ g.path = f.path
  BY DEF Frames
<1>. QED
  BY <1>1, <1>2, <1>3

\* A Set stays a Set, of the same path, when its entries change.
LEMMA SetChanges ==
    ASSUME sets \in Seq(JsSet), NEW j \in DOMAIN sets,
           NEW rest \in Seq(Subscribers \cup {Nobody})
    PROVE  LET changed == WithEntries(j, rest)
           IN  /\ changed \in Seq(JsSet)
               /\ DOMAIN changed = DOMAIN sets
               /\ changed[j].entries = rest
               /\ \A k \in DOMAIN sets : changed[k].path = sets[k].path
               /\ \A k \in DOMAIN sets \ {j} : changed[k] = sets[k]
<1>. DEFINE one == [sets[j] EXCEPT !.entries = rest]
<1>1. sets[j] \in JsSet
  OBVIOUS
<1>2. one \in JsSet /\ one.entries = rest /\ one.path = sets[j].path
  BY <1>1 DEF JsSet
<1>3. WithEntries(j, rest) = [sets EXCEPT ![j] = one]
  BY DEF WithEntries
<1>. HIDE DEF one
<1>. QED
  BY <1>2, <1>3

\* Who is due in the innermost notification is a callback.
LEMMA DueIsASubscriber ==
    ASSUME TypeOK, stack # <<>>, NEW i \in DOMAIN Entries, IsDue(i)
    PROVE  Entries[i] \in Subscribers /\ i \in Nat
<1>1. Top \in Frames /\ Top.set \in DOMAIN sets \cup {NoSet}
  BY TopIsAFrame DEF TypeOK, Top
<1>2. Top.set # NoSet => sets[Top.set] \in JsSet
  BY <1>1 DEF TypeOK
<1>3. Entries \in Seq(Subscribers \cup {Nobody})
  BY <1>2 DEF Entries, JsSet
<1>. QED
  BY <1>3 DEF IsDue

\* Trimming keeps a log of events a log of events, and bounds it.
LEMMA TrimmedIsBounded ==
    ASSUME NEW log \in Seq(Event)
    PROVE  Trimmed(log) \in Seq(Event) /\ Len(Trimmed(log)) =< WindowSize
<1>. WindowSize \in Nat
  BY Tier1Assumption
<1>1. CASE Len(log) =< WindowSize
  BY <1>1 DEF Trimmed
<1>2. CASE Len(log) > WindowSize
  <2>. DEFINE m == Len(log) - WindowSize + 1
  <2>1. m \in Nat /\ m >= 1 /\ m =< Len(log) + 1
    BY <1>2
  <2>2. SubSeq(log, m, Len(log)) \in Seq(Event) /\ Len(SubSeq(log, m, Len(log))) = WindowSize
    BY <2>1
  <2>. QED
    BY <1>2, <2>2 DEF Trimmed
<1>. QED
  BY <1>1, <1>2

\* A Set's entries stay entries when a callback is added or deleted.
LEMMA EntriesStayEntries ==
    ASSUME NEW entries \in Seq(Subscribers \cup {Nobody}), NEW s \in Subscribers
    PROVE  /\ Added(entries, s) \in Seq(Subscribers \cup {Nobody})
           /\ Removed(entries, s) \in Seq(Subscribers \cup {Nobody})
           /\ Members(Added(entries, s)) = Members(entries) \cup {s}
           /\ Members(Removed(entries, s)) = Members(entries) \ {s}
<1>. s # Nobody
  BY Tier1Assumption
<1>1. /\ Removed(entries, s) \in Seq(Subscribers \cup {Nobody})
      /\ Members(Removed(entries, s)) = Members(entries) \ {s}
  BY DEF Removed, Members
<1>2. CASE s \in Members(entries)
  BY <1>1, <1>2 DEF Added
<1>3. CASE s \notin Members(entries)
  <2>. DEFINE longer == Append(entries, s)
  <2>1. /\ longer \in Seq(Subscribers \cup {Nobody})
        /\ DOMAIN longer = DOMAIN entries \cup {Len(entries) + 1}
        /\ longer[Len(entries) + 1] = s
        /\ \A i \in DOMAIN entries : longer[i] = entries[i]
    OBVIOUS
  <2>2. Members(longer) = Members(entries) \cup {s}
    BY <2>1 DEF Members
  <2>. QED
    BY <1>1, <1>3, <2>1, <2>2 DEF Added
<1>. QED
  BY <1>2, <1>3

\* The store is well typed, its window bounded, and every Set a closure, a
\* notification or the Map refers to is a Set that was made.
THEOREM Tier1TypeCorrect == Spec => []TypeOK
<1>1. Init => TypeOK
  BY Tier1Assumption DEF Init, TypeOK
<1>2. TypeOK /\ [Next]_vars => TypeOK'
  <2>. SUFFICES ASSUME TypeOK, [Next]_vars PROVE TypeOK'
    OBVIOUS
  <2>1. ASSUME NEW p \in Paths, NEW v \in Values, Commit(p, v) PROVE TypeOK'
    <3>. DEFINE marked == [i \in DOMAIN stack |->
                              [stack[i] EXCEPT !.overtaken = (@ \/ stack[i].path = p)]]
    <3>1. /\ marked \in Seq(Frames) /\ DOMAIN marked = DOMAIN stack
          /\ \A i \in DOMAIN marked : marked[i].set = stack[i].set
      <4>1. \A i \in DOMAIN stack : stack[i] \in Frames
        BY DEF TypeOK
      <4>2. \A i \in DOMAIN stack : marked[i] \in Frames /\ marked[i].set = stack[i].set
        <5>. TAKE i \in DOMAIN stack
        <5>1. (stack[i].overtaken \/ stack[i].path = p) \in BOOLEAN
          OBVIOUS
        <5>2. marked[i] = [stack[i] EXCEPT !.overtaken =
                              (stack[i].overtaken \/ stack[i].path = p)]
          OBVIOUS
        <5>. QED
          BY <4>1, <5>1, <5>2, FrameMoves
      <4>. HIDE DEF marked
      <4>3. DOMAIN marked = 1..Len(stack) /\ DOMAIN stack = 1..Len(stack) /\ Len(stack) \in Nat
        BY DEF marked, TypeOK
      <4>4. marked = [i \in 1..Len(stack) |-> marked[i]]
        BY <4>3 DEF marked
      <4>. QED
        BY <4>2, <4>3, <4>4
    <3>2. Frame(p, v) \in Frames /\ Frame(p, v).set \in DOMAIN sets \cup {NoSet}
      BY Tier1Assumption DEF TypeOK, Frame, Frames
    <3>3. stack' = Append(marked, Frame(p, v))
      BY <2>1 DEF Commit
    <3>. DEFINE frame == Frame(p, v)
    <3>4. /\ marked \in Seq(Frames) /\ frame \in Frames /\ stack' = Append(marked, frame)
          /\ \A i \in DOMAIN marked : marked[i].set \in DOMAIN sets \cup {NoSet}
          /\ frame.set \in DOMAIN sets \cup {NoSet}
      BY <3>1, <3>2, <3>3 DEF TypeOK
    <3>. HIDE DEF marked, frame
    <3>5. /\ stack' \in Seq(Frames)
          /\ \A i \in DOMAIN stack' : stack'[i].set \in DOMAIN sets \cup {NoSet}
      BY <3>4
    <3>. QED
      BY <2>1, <3>5 DEF Commit, TypeOK
  <2>2. CASE Call
    <3>. stack # <<>>
      BY <2>2 DEF Call, HostHasControl
    <3>. DEFINE calls(i) ==
                    /\ IsDue(i)
                    /\ stack' = WithTop(Calling(Top, i, Entries[i]))
                    /\ heard' = [heard EXCEPT ![<<Entries[i], Top.path>>] = Top.value]
    <3>1. PICK i \in DOMAIN Entries : calls(i)
      BY <2>2 DEF Call
    <3>2. Len(stack) \in DOMAIN stack /\ Top \in Frames /\ Top = stack[Len(stack)]
      BY TopIsAFrame DEF TypeOK, Top
    <3>4. Entries[i] \in Subscribers /\ i \in Nat
      BY <3>1, DueIsASubscriber
    <3>. DEFINE frame == Calling(Top, i, Entries[i])
    <3>5. frame \in Frames /\ frame.set = Top.set
      BY <3>2, <3>4, FrameMoves
    <3>6. stack' = [stack EXCEPT ![Len(stack)] = frame]
      BY <3>1 DEF WithTop
    <3>. HIDE DEF frame
    <3>7. /\ stack' \in Seq(Frames)
          /\ \A j \in DOMAIN stack' : stack'[j].set \in DOMAIN sets \cup {NoSet}
      BY <3>2, <3>5, <3>6 DEF TypeOK
    <3>8. heard' \in [Subscribers \X Paths -> Values \cup {Unset}]
      BY <3>1, <3>2, <3>4 DEF TypeOK, Frames
    <3>. QED
      BY <2>2, <3>7, <3>8 DEF Call, TypeOK
  <2>3. CASE Return
    <3>. DEFINE frame == [Top EXCEPT !.running = Nobody]
    <3>1. Len(stack) \in DOMAIN stack /\ Top \in Frames /\ Top = stack[Len(stack)]
      BY <2>3, TopIsAFrame DEF TypeOK, Return, Top
    <3>2. frame \in Frames /\ frame.set = Top.set
      BY <3>1, FrameMoves
    <3>3. stack' = [stack EXCEPT ![Len(stack)] = frame]
      BY <2>3 DEF Return, WithTop
    <3>. HIDE DEF frame
    <3>4. /\ stack' \in Seq(Frames)
          /\ \A j \in DOMAIN stack' : stack'[j].set \in DOMAIN sets \cup {NoSet}
      BY <3>1, <3>2, <3>3 DEF TypeOK
    <3>. QED
      BY <2>3, <3>4 DEF Return, TypeOK
  <2>4. CASE EndCommit
    <3>. stack # <<>>
      BY <2>4 DEF EndCommit, HostHasControl
    <3>1. Len(stack) \in DOMAIN stack /\ Top \in Frames /\ Top = stack[Len(stack)]
      BY TopIsAFrame DEF TypeOK, Top
    <3>. DEFINE event == [path |-> Top.path, value |-> Top.value]
    <3>2. event \in Event
      BY <3>1 DEF Event, Frames
    <3>. HIDE DEF event
    <3>3. Append(events, event) \in Seq(Event)
      BY <3>2 DEF TypeOK
    <3>4. events' \in Seq(Event) /\ Len(events') =< WindowSize
      BY <2>4, <3>3, TrimmedIsBounded DEF EndCommit, event
    <3>5. /\ stack' \in Seq(Frames)
          /\ \A j \in DOMAIN stack' : stack'[j].set \in DOMAIN sets \cup {NoSet}
      BY <2>4, <3>1 DEF EndCommit, TypeOK
    <3>6. torn' \subseteq Paths
      BY <2>4, <3>1 DEF EndCommit, TypeOK, Frames
    <3>. QED
      BY <2>4, <3>4, <3>5, <3>6 DEF EndCommit, TypeOK
  <2>5. ASSUME NEW k \in 0..(Len(stack) - 1), Throw(k) PROVE TypeOK'
    <3>1. /\ stack' \in Seq(Frames)
          /\ \A j \in DOMAIN stack' : stack'[j].set \in DOMAIN sets \cup {NoSet}
      BY <2>5 DEF Throw, TypeOK
    <3>2. torn' \subseteq Paths
      <4>1. \A i \in (k + 1)..Len(stack) : stack[i] \in Frames
        BY DEF TypeOK
      <4>. QED
        BY <2>5, <4>1 DEF Throw, TypeOK, Frames
    <3>. QED
      BY <2>5, <3>1, <3>2 DEF Throw, TypeOK
  <2>6. ASSUME NEW s \in Subscribers, NEW p \in Paths, Subscribe(s, p) PROVE TypeOK'
    <3>. DEFINE new == [path |-> p, entries |-> <<s>>]
                at(set) == [subscriber |-> s, path |-> p, set |-> set, live |-> TRUE]
    <3>1. heard' \in [Subscribers \X Paths -> Values \cup {Unset}]
      BY <2>6 DEF Subscribe, TypeOK
    <3>2. CASE registry[p] = NoSet
      <4>. DEFINE set == Len(sets) + 1
      <4>1. /\ sets' = Append(sets, new)
            /\ registry' = [registry EXCEPT ![p] = set]
            /\ subscriptions' = Append(subscriptions, at(set))
        BY <2>6, <3>2 DEF Subscribe
      <4>2. new \in JsSet
        BY DEF JsSet
      <4>3. /\ sets' \in Seq(JsSet)
            /\ DOMAIN sets' = DOMAIN sets \cup {set}
            /\ set \in Nat
        BY <4>1, <4>2 DEF TypeOK
      <4>4. at(set) \in Subscription /\ at(set).set = set
        BY <4>3 DEF Subscription
      <4>. HIDE DEF new, at, set
      <4>5. /\ subscriptions' \in Seq(Subscription)
            /\ \A i \in DOMAIN subscriptions' : subscriptions'[i].set \in DOMAIN sets'
        BY <4>1, <4>3, <4>4 DEF TypeOK
      <4>6. registry' \in [Paths -> DOMAIN sets' \cup {NoSet}]
        BY <4>1, <4>3 DEF TypeOK
      <4>. QED
        BY <2>6, <3>1, <4>3, <4>5, <4>6 DEF Subscribe, TypeOK
    <3>3. CASE registry[p] # NoSet
      <4>. DEFINE set == registry[p]
                  more == Added(sets[set].entries, s)
      <4>1. set \in DOMAIN sets
        BY <3>3 DEF TypeOK
      <4>2. /\ sets' = WithEntries(set, more)
            /\ registry' = [registry EXCEPT ![p] = set]
            /\ subscriptions' = Append(subscriptions, at(set))
        BY <2>6, <3>3 DEF Subscribe
      <4>3. more \in Seq(Subscribers \cup {Nobody})
        <5>1. sets[set] \in JsSet
          BY <4>1 DEF TypeOK
        <5>. QED
          BY <5>1, EntriesStayEntries DEF JsSet
      <4>4. at(set) \in Subscription /\ at(set).set = set
        BY <4>1 DEF Subscription, TypeOK
      <4>. HIDE DEF at, set, more
      <4>5. sets' \in Seq(JsSet) /\ DOMAIN sets' = DOMAIN sets
        BY <4>1, <4>2, <4>3, SetChanges DEF TypeOK
      <4>6. /\ subscriptions' \in Seq(Subscription)
            /\ \A i \in DOMAIN subscriptions' : subscriptions'[i].set \in DOMAIN sets'
        BY <4>1, <4>2, <4>4, <4>5 DEF TypeOK
      <4>7. registry' \in [Paths -> DOMAIN sets' \cup {NoSet}]
        BY <4>1, <4>2, <4>5 DEF TypeOK
      <4>. QED
        BY <2>6, <3>1, <4>5, <4>6, <4>7 DEF Subscribe, TypeOK
    <3>. QED
      BY <3>2, <3>3
  <2>7. ASSUME NEW i \in DOMAIN subscriptions, Unsubscribe(i) PROVE TypeOK'
    <3>. DEFINE gone == subscriptions[i]
                rest == Removed(sets[gone.set].entries, gone.subscriber)
    <3>1. gone \in Subscription /\ gone.set \in DOMAIN sets
      BY DEF TypeOK
    <3>2. rest \in Seq(Subscribers \cup {Nobody})
      <4>1. sets[gone.set] \in JsSet
        BY <3>1 DEF TypeOK
      <4>. QED
        BY <3>1, <4>1, EntriesStayEntries DEF JsSet, Subscription
    <3>3. /\ sets' = WithEntries(gone.set, rest)
          /\ registry' = [registry EXCEPT ![gone.path] = IF Dropped(rest) THEN NoSet ELSE @]
          /\ subscriptions' = [subscriptions EXCEPT ![i].live = FALSE]
      BY <2>7 DEF Unsubscribe
    <3>. HIDE DEF rest
    <3>4. sets' \in Seq(JsSet) /\ DOMAIN sets' = DOMAIN sets
      BY <3>1, <3>2, <3>3, SetChanges DEF TypeOK
    <3>5. registry' \in [Paths -> DOMAIN sets' \cup {NoSet}]
      BY <3>1, <3>3, <3>4 DEF TypeOK, Subscription
    <3>6. /\ subscriptions' \in Seq(Subscription)
          /\ \A j \in DOMAIN subscriptions' : subscriptions'[j].set \in DOMAIN sets'
      <4>. DEFINE spent == [gone EXCEPT !.live = FALSE]
      <4>1. spent \in Subscription /\ spent.set = gone.set
        BY <3>1 DEF Subscription
      <4>2. subscriptions' = [subscriptions EXCEPT ![i] = spent]
        BY <3>3
      <4>. HIDE DEF spent
      <4>. QED
        BY <3>1, <3>4, <4>1, <4>2 DEF TypeOK
    <3>. QED
      BY <2>7, <3>4, <3>5, <3>6 DEF Unsubscribe, TypeOK
  <2>8. CASE UNCHANGED vars
    BY <2>8 DEF vars, TypeOK
  <2>. QED
    BY <2>1, <2>2, <2>3, <2>4, <2>5, <2>6, <2>7, <2>8 DEF Next
<1>. QED
  BY <1>1, <1>2, PTL DEF Spec

-----------------------------------------------------------------------------
\* A callback in a Set has a subscription to that Set that was not disposed of.
MembersHold ==
    \A j \in DOMAIN sets : \A s \in Members(sets[j].entries) :
        \E i \in DOMAIN subscriptions :
            /\ subscriptions[i].live
            /\ subscriptions[i].subscriber = s
            /\ subscriptions[i].set = j

\* A Set serves one path: that of its subscriptions, of the Map's entry for it
\* and of the notifications that iterate it.
SubscriptionsFit == \A i \in DOMAIN subscriptions :
    sets[subscriptions[i].set].path = subscriptions[i].path

RegistryFits == \A p \in Paths :
    registry[p] # NoSet => sets[registry[p]].path = p

FramesFit == \A i \in DOMAIN stack :
    stack[i].set # NoSet => sets[stack[i].set].path = stack[i].path

Ownership == MembersHold /\ SubscriptionsFit /\ RegistryFits /\ FramesFit

\* What a host does to the subscriptions leaves ownership in place.
LEMMA SubscribeKeepsOwnership ==
    ASSUME TypeOK, Ownership, NEW s \in Subscribers, NEW p \in Paths, Subscribe(s, p)
    PROVE  Ownership'
<1>. DEFINE new == [path |-> p, entries |-> <<s>>]
            at(set) == [subscriber |-> s, path |-> p, set |-> set, live |-> TRUE]
<1>. stack' = stack
  BY DEF Subscribe
<1>. NoSet \notin Nat /\ s # Nobody
  BY Tier1Assumption
<1>1. CASE registry[p] = NoSet
  <2>. DEFINE set == Len(sets) + 1
  <2>1. /\ sets' = Append(sets, new)
        /\ registry' = [registry EXCEPT ![p] = set]
        /\ subscriptions' = Append(subscriptions, at(set))
    BY <1>1 DEF Subscribe
  <2>2. Members(<<s>>) = {s}
    BY DEF Members
  <2>3. /\ DOMAIN sets' = DOMAIN sets \cup {set}
        /\ set \notin DOMAIN sets
        /\ \A j \in DOMAIN sets : sets'[j] = sets[j]
        /\ sets'[set].path = p
        /\ Members(sets'[set].entries) = {s}
    <3>1. /\ sets \in Seq(JsSet) /\ Len(sets) \in Nat
          /\ DOMAIN sets = 1..Len(sets)
      BY DEF TypeOK
    <3>2. /\ DOMAIN Append(sets, new) = 1..(Len(sets) + 1)
          /\ Append(sets, new)[Len(sets) + 1] = new
          /\ \A j \in DOMAIN sets : Append(sets, new)[j] = sets[j]
      BY <3>1
    <3>. QED
      BY <2>1, <2>2, <3>1, <3>2
  <2>4. /\ DOMAIN subscriptions' = DOMAIN subscriptions \cup {Len(subscriptions) + 1}
        /\ \A i \in DOMAIN subscriptions : subscriptions'[i] = subscriptions[i]
        /\ subscriptions'[Len(subscriptions) + 1] = at(set)
    BY <2>1 DEF TypeOK
  <2>. HIDE DEF new, set
  <2>5. MembersHold'
    BY <2>3, <2>4 DEF Ownership, MembersHold
  <2>6. SubscriptionsFit'
    BY <2>3, <2>4 DEF Ownership, SubscriptionsFit, TypeOK
  <2>7. RegistryFits'
    BY <2>1, <2>3 DEF Ownership, RegistryFits, TypeOK
  <2>8. FramesFit'
    BY <2>3 DEF Ownership, FramesFit, TypeOK
  <2>. QED
    BY <2>5, <2>6, <2>7, <2>8 DEF Ownership
<1>2. CASE registry[p] # NoSet
  <2>. DEFINE set == registry[p]
              more == Added(sets[set].entries, s)
  <2>1. set \in DOMAIN sets /\ sets[set].path = p
    BY <1>2 DEF TypeOK, Ownership, RegistryFits
  <2>2. /\ sets' = WithEntries(set, more)
        /\ registry' = registry
        /\ subscriptions' = Append(subscriptions, at(set))
    BY <1>2 DEF Subscribe, TypeOK
  <2>3. /\ more \in Seq(Subscribers \cup {Nobody})
        /\ Members(more) = Members(sets[set].entries) \cup {s}
    <3>1. sets[set] \in JsSet
      BY <2>1 DEF TypeOK
    <3>. QED
      BY <3>1, EntriesStayEntries DEF JsSet
  <2>4. /\ DOMAIN subscriptions' = DOMAIN subscriptions \cup {Len(subscriptions) + 1}
        /\ \A i \in DOMAIN subscriptions : subscriptions'[i] = subscriptions[i]
        /\ subscriptions'[Len(subscriptions) + 1] = at(set)
    BY <2>2 DEF TypeOK
  <2>. HIDE DEF set, more
  <2>5. /\ DOMAIN sets' = DOMAIN sets
        /\ \A j \in DOMAIN sets : sets'[j].path = sets[j].path
        /\ \A j \in DOMAIN sets \ {set} : sets'[j] = sets[j]
        /\ sets'[set].entries = more
    <3>1. sets \in Seq(JsSet)
      BY DEF TypeOK
    <3>. QED
      BY <2>1, <2>2, <2>3, <3>1, SetChanges
  <2>6. MembersHold'
    <3>. SUFFICES ASSUME NEW j \in DOMAIN sets, NEW r \in Members(sets'[j].entries)
                  PROVE  \E i \in DOMAIN subscriptions' :
                             /\ subscriptions'[i].live
                             /\ subscriptions'[i].subscriber = r
                             /\ subscriptions'[i].set = j
      BY <2>5 DEF MembersHold
    <3>1. CASE r \in Members(sets[j].entries)
      <4>1. PICK i \in DOMAIN subscriptions :
                 /\ subscriptions[i].live
                 /\ subscriptions[i].subscriber = r
                 /\ subscriptions[i].set = j
        BY <3>1 DEF Ownership, MembersHold
      <4>. QED
        BY <2>4, <4>1
    <3>2. CASE r \notin Members(sets[j].entries)
      <4>1. j = set /\ r = s
        BY <2>3, <2>5, <3>2
      <4>. QED
        BY <2>4, <4>1
    <3>. QED
      BY <3>1, <3>2
  <2>7. SubscriptionsFit'
    <3>1. \A i \in DOMAIN subscriptions : subscriptions[i].set \in DOMAIN sets
      BY DEF TypeOK
    <3>2. at(set).set = set /\ at(set).path = p
      OBVIOUS
    <3>. HIDE DEF at
    <3>. QED
      BY <2>1, <2>4, <2>5, <3>1, <3>2 DEF Ownership, SubscriptionsFit
  <2>8. RegistryFits'
    BY <2>2, <2>5 DEF Ownership, RegistryFits, TypeOK
  <2>9. FramesFit'
    BY <2>5 DEF Ownership, FramesFit, TypeOK
  <2>. QED
    BY <2>6, <2>7, <2>8, <2>9 DEF Ownership
<1>. QED
  BY <1>1, <1>2

LEMMA UnsubscribeKeepsOwnership ==
    ASSUME TypeOK, Ownership, NEW i \in DOMAIN subscriptions, Unsubscribe(i)
    PROVE  Ownership'
<1>. DEFINE gone == subscriptions[i]
            spent == [gone EXCEPT !.live = FALSE]
            rest == Removed(sets[gone.set].entries, gone.subscriber)
<1>. stack' = stack
  BY DEF Unsubscribe
<1>1. gone \in Subscription /\ gone.set \in DOMAIN sets
  BY DEF TypeOK
<1>2. /\ rest \in Seq(Subscribers \cup {Nobody})
      /\ Members(rest) = Members(sets[gone.set].entries) \ {gone.subscriber}
  <2>1. sets[gone.set] \in JsSet
    BY <1>1 DEF TypeOK
  <2>. QED
    BY <1>1, <2>1, EntriesStayEntries DEF JsSet, Subscription
<1>3. /\ sets' = WithEntries(gone.set, rest)
      /\ registry' = [registry EXCEPT ![gone.path] = IF Dropped(rest) THEN NoSet ELSE @]
      /\ subscriptions' = [subscriptions EXCEPT ![i] = spent]
  BY DEF Unsubscribe
<1>4. spent.set = gone.set /\ spent.path = gone.path
  BY <1>1 DEF Subscription
<1>. HIDE DEF rest, spent
<1>5. /\ DOMAIN sets' = DOMAIN sets
      /\ \A j \in DOMAIN sets : sets'[j].path = sets[j].path
      /\ \A j \in DOMAIN sets \ {gone.set} : sets'[j] = sets[j]
      /\ sets'[gone.set].entries = rest
  <2>1. sets \in Seq(JsSet)
    BY DEF TypeOK
  <2>. QED
    BY <1>1, <1>2, <1>3, <2>1, SetChanges
<1>6. /\ DOMAIN subscriptions' = DOMAIN subscriptions
      /\ subscriptions'[i] = spent
      /\ \A k \in DOMAIN subscriptions \ {i} : subscriptions'[k] = subscriptions[k]
  BY <1>3 DEF TypeOK
<1>7. MembersHold'
  <2>. SUFFICES ASSUME NEW j \in DOMAIN sets, NEW s \in Members(sets'[j].entries)
                PROVE  \E k \in DOMAIN subscriptions :
                           /\ subscriptions'[k].live
                           /\ subscriptions'[k].subscriber = s
                           /\ subscriptions'[k].set = j
    BY <1>5, <1>6 DEF MembersHold
  <2>1. s \in Members(sets[j].entries) /\ (j = gone.set => s # gone.subscriber)
    BY <1>2, <1>5
  <2>2. PICK k \in DOMAIN subscriptions :
             subscriptions[k].live /\ subscriptions[k].subscriber = s /\ subscriptions[k].set = j
    BY <2>1 DEF Ownership, MembersHold
  <2>3. k # i
    BY <2>1, <2>2
  <2>. QED
    BY <1>6, <2>2, <2>3
<1>8. SubscriptionsFit'
  <2>1. \A k \in DOMAIN subscriptions : subscriptions[k].set \in DOMAIN sets
    BY DEF TypeOK
  <2>2. sets[gone.set].path = gone.path
    BY DEF Ownership, SubscriptionsFit
  <2>. HIDE DEF gone
  <2>. QED
    BY <1>1, <1>4, <1>5, <1>6, <2>1, <2>2 DEF Ownership, SubscriptionsFit
<1>9. RegistryFits'
  BY <1>3, <1>5 DEF Ownership, RegistryFits, TypeOK
<1>10. FramesFit'
  BY <1>5 DEF Ownership, FramesFit, TypeOK
<1>. QED
  BY <1>7, <1>8, <1>9, <1>10 DEF Ownership

\* A step of a commit touches the stack alone.
LEMMA StackStepKeepsOwnership ==
    ASSUME Ownership, FramesFit', sets' = sets, subscriptions' = subscriptions,
           registry' = registry
    PROVE  Ownership'
  BY DEF Ownership, MembersHold, SubscriptionsFit, RegistryFits

LEMMA OwnershipIsInductive ==
    ASSUME TypeOK, Ownership, [Next]_vars
    PROVE  Ownership'
<1>1. ASSUME NEW p \in Paths, NEW v \in Values, Commit(p, v) PROVE Ownership'
  <2>. DEFINE marked == [i \in DOMAIN stack |->
                            [stack[i] EXCEPT !.overtaken = (@ \/ stack[i].path = p)]]
              frame == Frame(p, v)
  <2>1. \A i \in DOMAIN stack : marked[i].set = stack[i].set /\ marked[i].path = stack[i].path
    <3>. TAKE i \in DOMAIN stack
    <3>1. stack[i] \in Frames /\ (stack[i].overtaken \/ stack[i].path = p) \in BOOLEAN
      BY DEF TypeOK
    <3>2. marked[i] = [stack[i] EXCEPT !.overtaken = (stack[i].overtaken \/ stack[i].path = p)]
      OBVIOUS
    <3>. QED
      BY <3>1, <3>2, FrameMoves
  <2>2. /\ DOMAIN marked = 1..Len(stack) /\ Len(stack) \in Nat
        /\ DOMAIN stack = 1..Len(stack)
        /\ stack' = Append(marked, frame)
    BY <1>1 DEF Commit, TypeOK
  <2>3. frame.path = p /\ frame.set = registry[p]
    BY DEF Frame
  <2>4. marked \in Seq({marked[i] : i \in DOMAIN stack})
    BY <2>2
  <2>. HIDE DEF marked, frame
  <2>5. \A i \in DOMAIN stack' :
            \/ i \in DOMAIN stack /\ stack'[i] = marked[i]
            \/ stack'[i] = frame
    BY <2>2, <2>4
  <2>6. sets' = sets /\ subscriptions' = subscriptions /\ registry' = registry
    BY <1>1 DEF Commit
  <2>7. FramesFit'
    BY <2>1, <2>3, <2>5, <2>6 DEF Ownership, FramesFit, RegistryFits
  <2>. QED
    BY <2>6, <2>7, StackStepKeepsOwnership
<1>2. CASE Call
  <2>. stack # <<>>
    BY <1>2 DEF Call, HostHasControl
  <2>. DEFINE calls(i) ==
                  /\ IsDue(i)
                  /\ stack' = WithTop(Calling(Top, i, Entries[i]))
                  /\ heard' = [heard EXCEPT ![<<Entries[i], Top.path>>] = Top.value]
  <2>1. PICK i \in DOMAIN Entries : calls(i)
    BY <1>2 DEF Call
  <2>. DEFINE frame == Calling(Top, i, Entries[i])
  <2>2. frame.set = Top.set /\ frame.path = Top.path
    <3>1. Top \in Frames
      BY TopIsAFrame DEF TypeOK
    <3>2. Entries[i] \in Subscribers /\ i \in Nat
      BY <2>1, DueIsASubscriber
    <3>. QED
      BY <3>1, <3>2, FrameMoves
  <2>3. stack' = [stack EXCEPT ![Len(stack)] = frame] /\ Top = stack[Len(stack)]
    BY <2>1 DEF WithTop, Top
  <2>4. sets' = sets /\ subscriptions' = subscriptions /\ registry' = registry
    BY <1>2 DEF Call
  <2>. HIDE DEF frame
  <2>5. FramesFit'
    BY <2>2, <2>3, <2>4, TopIsAFrame DEF Ownership, FramesFit, TypeOK
  <2>. QED
    BY <2>4, <2>5, StackStepKeepsOwnership
<1>3. CASE Return
  <2>. DEFINE frame == [Top EXCEPT !.running = Nobody]
  <2>1. stack # <<>> /\ stack' = [stack EXCEPT ![Len(stack)] = frame] /\ Top = stack[Len(stack)]
    BY <1>3 DEF Return, WithTop, Top
  <2>2. frame.set = Top.set /\ frame.path = Top.path
    BY <2>1, TopIsAFrame, FrameMoves DEF TypeOK
  <2>3. sets' = sets /\ subscriptions' = subscriptions /\ registry' = registry
    BY <1>3 DEF Return
  <2>. HIDE DEF frame
  <2>4. FramesFit'
    BY <2>1, <2>2, <2>3, TopIsAFrame DEF Ownership, FramesFit, TypeOK
  <2>. QED
    BY <2>3, <2>4, StackStepKeepsOwnership
<1>4. CASE EndCommit
  <2>. stack # <<>>
    BY <1>4 DEF EndCommit, HostHasControl
  <2>1. \A i \in DOMAIN stack' : i \in DOMAIN stack /\ stack'[i] = stack[i]
    BY <1>4 DEF EndCommit, TypeOK
  <2>. QED
    BY <1>4, <2>1 DEF EndCommit, Ownership, MembersHold, SubscriptionsFit, RegistryFits, FramesFit
<1>5. ASSUME NEW k \in 0..(Len(stack) - 1), Throw(k) PROVE Ownership'
  <2>1. \A i \in DOMAIN stack' : i \in DOMAIN stack /\ stack'[i] = stack[i]
    BY <1>5 DEF Throw, TypeOK
  <2>. QED
    BY <1>5, <2>1 DEF Throw, Ownership, MembersHold, SubscriptionsFit, RegistryFits, FramesFit
<1>6. ASSUME NEW s \in Subscribers, NEW p \in Paths, Subscribe(s, p) PROVE Ownership'
  BY <1>6, SubscribeKeepsOwnership
<1>7. ASSUME NEW i \in DOMAIN subscriptions, Unsubscribe(i) PROVE Ownership'
  BY <1>7, UnsubscribeKeepsOwnership
<1>8. CASE UNCHANGED vars
  BY <1>8 DEF vars, Ownership, MembersHold, SubscriptionsFit, RegistryFits, FramesFit
<1>. QED
  BY <1>1, <1>2, <1>3, <1>4, <1>5, <1>6, <1>7, <1>8 DEF Next

\* No callback is called for a path it has no undisposed subscription to,
\* whatever is subscribed and disposed of, once or twice, while commits of any
\* depth are telling their subscribers.
THEOREM HoldersAlone == Spec => OnlyHoldersAreCalled
<1>1. Init => Ownership
  BY DEF Init, Ownership, MembersHold, SubscriptionsFit, RegistryFits, FramesFit
<1>2. TypeOK /\ Ownership /\ [Next]_vars => Ownership'
  BY OwnershipIsInductive
<1>3. TypeOK /\ Ownership /\ [Next]_vars =>
        [\A s \in Subscribers, p \in Paths :
            Call /\ Top.path = p /\ Top'.running = s => Holds(s, p)]_vars
  <2>. SUFFICES ASSUME TypeOK, Ownership, Call,
                       NEW s \in Subscribers, Top'.running = s
                PROVE  Holds(s, Top.path)
    OBVIOUS
  <2>. stack # <<>>
    BY DEF Call, HostHasControl
  <2>. DEFINE calls(i) ==
                  /\ IsDue(i)
                  /\ stack' = WithTop(Calling(Top, i, Entries[i]))
                  /\ heard' = [heard EXCEPT ![<<Entries[i], Top.path>>] = Top.value]
  <2>1. PICK i \in DOMAIN Entries : calls(i)
    BY DEF Call
  <2>2. Len(stack) \in DOMAIN stack /\ Top \in Frames /\ Top = stack[Len(stack)]
    BY TopIsAFrame DEF TypeOK, Top
  <2>3. Top'.running = Entries[i]
    <3>1. Top' = Calling(Top, i, Entries[i])
      BY <2>1, <2>2 DEF WithTop, Top, TypeOK
    <3>. QED
      <4>1. Entries[i] \in Subscribers /\ i \in Nat
        BY <2>1, DueIsASubscriber
      <4>. QED
        BY <2>2, <3>1, <4>1, FrameMoves
  <2>4. Top.set # NoSet /\ Top.set \in DOMAIN sets
    BY <2>1, <2>2 DEF Entries, TypeOK
  <2>5. s \in Members(sets[Top.set].entries)
    BY <2>1, <2>3, <2>4, Tier1Assumption DEF Entries, Members
  <2>6. PICK k \in DOMAIN subscriptions :
             /\ subscriptions[k].live
             /\ subscriptions[k].subscriber = s
             /\ subscriptions[k].set = Top.set
    BY <2>4, <2>5 DEF Ownership, MembersHold
  <2>7. subscriptions[k].path = Top.path
    BY <2>2, <2>4, <2>6 DEF Ownership, SubscriptionsFit, FramesFit
  <2>. QED
    BY <2>6, <2>7 DEF Holds
<1>. QED
  BY <1>1, <1>2, <1>3, Tier1TypeCorrect, PTL DEF Spec, OnlyHoldersAreCalled

-----------------------------------------------------------------------------
(* What a step does to the stack.                                          *)

\* Frame g is frame f but for the callback it runs and its next position.
Continues(f, g) ==
    /\ g.path = f.path
    /\ g.value = f.value
    /\ g.set = f.set
    /\ g.overtaken = f.overtaken

\* A commit pushes a frame and overtakes the frames of its path.
LEMMA CommitPushes ==
    ASSUME TypeOK, NEW p \in Paths, NEW v \in Values, Commit(p, v)
    PROVE  /\ DOMAIN stack' = DOMAIN stack \cup {Len(stack) + 1}
           /\ \A i \in DOMAIN stack :
                /\ i # Len(stack) + 1
                /\ stack'[i].path = stack[i].path
                /\ stack'[i].value = stack[i].value
                /\ stack'[i].set = stack[i].set
                /\ stack'[i].next = stack[i].next
                /\ stack'[i].overtaken <=> stack[i].overtaken \/ stack[i].path = p
           /\ stack'[Len(stack) + 1] = Frame(p, v)
<1>. DEFINE marked == [i \in DOMAIN stack |->
                          [stack[i] EXCEPT !.overtaken = (@ \/ stack[i].path = p)]]
            frame == Frame(p, v)
<1>1. \A i \in DOMAIN stack :
        /\ marked[i].path = stack[i].path
        /\ marked[i].value = stack[i].value
        /\ marked[i].set = stack[i].set
        /\ marked[i].next = stack[i].next
        /\ marked[i].overtaken <=> stack[i].overtaken \/ stack[i].path = p
  <2>. TAKE i \in DOMAIN stack
  <2>. DEFINE f == stack[i]
              b == f.overtaken \/ f.path = p
  <2>1. f \in Frames /\ b \in BOOLEAN
    BY DEF TypeOK
  <2>2. marked[i] = [f EXCEPT !.overtaken = b]
    OBVIOUS
  <2>. HIDE DEF f, b, marked
  <2>3. /\ marked[i].path = f.path
        /\ marked[i].value = f.value
        /\ marked[i].set = f.set
        /\ marked[i].next = f.next
        /\ marked[i].overtaken = b
    BY <2>1, <2>2 DEF Frames
  <2>. QED
    BY <2>3 DEF f, b
<1>2. /\ DOMAIN marked = 1..Len(stack) /\ Len(stack) \in Nat
      /\ DOMAIN stack = 1..Len(stack)
      /\ stack' = Append(marked, frame)
  BY DEF Commit, TypeOK
<1>3. marked \in Seq({marked[i] : i \in DOMAIN stack}) /\ Len(marked) = Len(stack)
  BY <1>2
<1>. HIDE DEF marked, frame
<1>4. /\ DOMAIN stack' = 1..(Len(stack) + 1)
      /\ \A i \in DOMAIN stack : stack'[i] = marked[i]
      /\ stack'[Len(stack) + 1] = frame
  BY <1>2, <1>3
<1>. QED
  BY <1>1, <1>2, <1>4 DEF frame

\* Calling the next subscriber moves the innermost frame past it.
LEMMA CallMoves ==
    ASSUME TypeOK, Call
    PROVE  /\ stack # <<>>
           /\ Len(stack) \in DOMAIN stack /\ Top = stack[Len(stack)] /\ Top \in Frames
           /\ DOMAIN stack' = DOMAIN stack
           /\ \A j \in DOMAIN stack \ {Len(stack)} : stack'[j] = stack[j]
           /\ Continues(Top, stack'[Len(stack)])
           /\ \E i \in DOMAIN Entries :
                /\ IsDue(i)
                /\ Entries[i] \in Subscribers /\ i \in Nat
                /\ heard' = [heard EXCEPT ![<<Entries[i], Top.path>>] = Top.value]
                /\ stack'[Len(stack)].next = i + 1
<1>1. stack # <<>>
  BY DEF Call, HostHasControl
<1>2. Len(stack) \in DOMAIN stack /\ Top \in Frames /\ Top = stack[Len(stack)]
  BY <1>1, TopIsAFrame DEF TypeOK, Top
<1>. DEFINE calls(i) ==
                /\ IsDue(i)
                /\ stack' = WithTop(Calling(Top, i, Entries[i]))
                /\ heard' = [heard EXCEPT ![<<Entries[i], Top.path>>] = Top.value]
<1>3. PICK i \in DOMAIN Entries : calls(i)
  BY DEF Call
<1>4. Entries[i] \in Subscribers /\ i \in Nat
  BY <1>1, <1>3, DueIsASubscriber
<1>. DEFINE frame == Calling(Top, i, Entries[i])
            moved == [Top EXCEPT !.next = i + 1]
<1>5. Continues(Top, frame) /\ frame.next = i + 1
  <2>1. moved \in Frames /\ Continues(Top, moved) /\ moved.next = i + 1
    BY <1>2, <1>4 DEF Frames, Continues
  <2>2. frame = [moved EXCEPT !.running = Entries[i]]
    BY DEF Calling
  <2>. HIDE DEF moved, frame
  <2>. QED
    BY <2>1, <2>2 DEF Frames, Continues
<1>6. stack' = [stack EXCEPT ![Len(stack)] = frame]
  BY <1>3 DEF WithTop
<1>. HIDE DEF frame
<1>7. /\ DOMAIN stack' = DOMAIN stack
      /\ \A j \in DOMAIN stack \ {Len(stack)} : stack'[j] = stack[j]
      /\ stack'[Len(stack)] = frame
  BY <1>2, <1>6
<1>. QED
  BY <1>1, <1>2, <1>3, <1>4, <1>5, <1>7

\* A subscriber's return changes nothing but who is running.
LEMMA ReturnStays ==
    ASSUME TypeOK, Return
    PROVE  /\ DOMAIN stack' = DOMAIN stack
           /\ \A j \in DOMAIN stack :
                Continues(stack[j], stack'[j]) /\ stack'[j].next = stack[j].next
<1>. DEFINE frame == [Top EXCEPT !.running = Nobody]
<1>1. Len(stack) \in DOMAIN stack /\ Top \in Frames /\ Top = stack[Len(stack)]
  BY TopIsAFrame DEF TypeOK, Return, Top
<1>2. Continues(Top, frame) /\ frame.next = Top.next
  BY <1>1 DEF Frames, Continues
<1>3. stack' = [stack EXCEPT ![Len(stack)] = frame]
  BY DEF Return, WithTop
<1>. HIDE DEF frame
<1>. QED
  BY <1>1, <1>2, <1>3 DEF Continues

\* A commit that ends, or that a throw cuts, leaves the frames below it alone.
LEMMA FramesArePopped ==
    ASSUME TypeOK, stack # <<>>, NEW k \in 0..(Len(stack) - 1), stack' = SubSeq(stack, 1, k)
    PROVE  /\ DOMAIN stack' = 1..k
           /\ DOMAIN stack = 1..Len(stack) /\ Len(stack) \in Nat
           /\ \A i \in 1..k : i \in DOMAIN stack /\ stack'[i] = stack[i]
  BY DEF TypeOK

-----------------------------------------------------------------------------
(* The digest agrees with itself.                                          *)

\* No commit of the path is under way.
Quiet(p) == \A i \in DOMAIN stack : stack[i].path # p

\* A commit that no other of its path overtook still tells the path's value.
FramesTell ==
    \A i \in DOMAIN stack : ~stack[i].overtaken => stack[i].value = values[stack[i].path]

NewestIn(log, p) ==
    {i \in DOMAIN log : log[i].path = p /\ \A j \in (i + 1)..Len(log) : log[j].path # p}

\* The events tell that the value of path p is v.
Tells(log, p, v) ==
    /\ \A i \in NewestIn(log, p) : log[i].value = v
    /\ NewestIn(log, p) = {} /\ v # Unset => Len(log) = WindowSize

\* Whatever is under way elsewhere, a path that is quiet and not torn agrees.
DigestInv == FramesTell /\ \A p \in Paths \ torn : Quiet(p) => Tells(events, p, values[p])

\* A window keeps the newest events.
LEMMA WhatTrimmedKeeps ==
    ASSUME NEW log \in Seq(Event)
    PROVE  \E d \in Nat :
             /\ d =< Len(log)
             /\ Trimmed(log) \in Seq(Event)
             /\ Len(Trimmed(log)) = Len(log) - d
             /\ \A i \in 1..(Len(log) - d) : Trimmed(log)[i] = log[i + d]
             /\ d > 0 => Len(log) - d = WindowSize
             /\ d = 0 => Len(log) =< WindowSize
<1>. WindowSize \in Nat \ {0}
  BY Tier1Assumption
<1>1. CASE Len(log) > WindowSize
  <2>. DEFINE d == Len(log) - WindowSize
  <2>1. d \in Nat /\ d > 0 /\ d =< Len(log) /\ Len(log) - d = WindowSize
    BY <1>1
  <2>2. Trimmed(log) = SubSeq(log, d + 1, Len(log))
    BY <1>1 DEF Trimmed
  <2>. HIDE DEF d
  <2>3. /\ Trimmed(log) \in Seq(Event)
        /\ Len(Trimmed(log)) = Len(log) - d
        /\ \A i \in 1..(Len(log) - d) : Trimmed(log)[i] = log[i + d]
    BY <2>1, <2>2
  <2>. QED
    BY <2>1, <2>3
<1>2. CASE ~(Len(log) > WindowSize)
  <2>1. Trimmed(log) = log /\ Len(log) =< WindowSize
    BY <1>2 DEF Trimmed
  <2>2. \A i \in 1..(Len(log) - 0) : log[i] = log[i + 0]
    OBVIOUS
  <2>. QED
    BY <2>1, <2>2
<1>. QED
  BY <1>1, <1>2

\* An event of the path brings it up to date; one of another path, and the
\* trimming that may follow, leave it in agreement.
LEMMA RecordingTells ==
    ASSUME NEW log \in Seq(Event), Len(log) =< WindowSize, NEW e \in Event,
           NEW p \in Paths, NEW v,
           e.path = p => e.value = v,
           e.path # p => Tells(log, p, v)
    PROVE  Tells(Trimmed(Append(log, e)), p, v)
<1>. DEFINE n == Len(log)
            longer == Append(log, e)
            kept == Trimmed(longer)
<1>1. /\ n \in Nat /\ longer \in Seq(Event) /\ Len(longer) = n + 1
      /\ longer[n + 1] = e /\ \A i \in 1..n : longer[i] = log[i]
  OBVIOUS
<1>. HIDE DEF longer
<1>2. PICK d \in Nat :
        /\ d =< Len(longer)
        /\ kept \in Seq(Event)
        /\ Len(kept) = Len(longer) - d
        /\ \A i \in 1..(Len(longer) - d) : kept[i] = longer[i + d]
        /\ d > 0 => Len(longer) - d = WindowSize
        /\ d = 0 => Len(longer) =< WindowSize
  BY <1>1, WhatTrimmedKeeps
<1>. HIDE DEF kept
<1>. WindowSize \in Nat \ {0}
  BY Tier1Assumption
<1>. DEFINE m == n + 1 - d
<1>3. /\ m \in Nat \ {0} /\ Len(kept) = m /\ DOMAIN kept = 1..m /\ d =< n
      /\ kept[m] = e
      /\ \A i \in 1..(m - 1) : i + d \in 1..n /\ kept[i] = log[i + d]
  <2>1. m \in Nat \ {0} /\ d =< n
    BY <1>1, <1>2
  <2>2. Len(kept) = m /\ DOMAIN kept = 1..m
    BY <1>1, <1>2
  <2>3. kept[m] = longer[m + d] /\ m + d = n + 1
    BY <1>1, <1>2, <2>1
  <2>4. ASSUME NEW i \in 1..(m - 1) PROVE i + d \in 1..n /\ kept[i] = log[i + d]
    <3>1. i + d \in 1..n /\ i \in 1..(Len(longer) - d)
      BY <1>1, <1>2, <2>1
    <3>. QED
      BY <1>1, <1>2, <3>1
  <2>. QED
    BY <1>1, <2>1, <2>2, <2>3, <2>4
<1>. HIDE DEF m, n
<1>4. CASE e.path = p
  <2>1. m \in NewestIn(kept, p)
    BY <1>3, <1>4 DEF NewestIn
  <2>2. ASSUME NEW i \in NewestIn(kept, p) PROVE i = m
    <3>1. i \in 1..m /\ \A j \in (i + 1)..m : kept[j].path # p
      BY <1>3 DEF NewestIn
    <3>2. m \notin (i + 1)..m
      BY <1>3, <1>4, <3>1
    <3>. QED
      BY <1>3, <3>1, <3>2
  <2>. QED
    BY <1>3, <1>4, <2>1, <2>2 DEF Tells, kept, longer
<1>5. CASE e.path # p
  <2>. Tells(log, p, v)
    BY <1>5
  <2>1. ASSUME NEW i \in NewestIn(kept, p)
        PROVE  i + d \in NewestIn(log, p) /\ kept[i] = log[i + d]
    <3>1. i \in 1..m /\ kept[i].path = p /\ \A j \in (i + 1)..m : kept[j].path # p
      BY <1>3 DEF NewestIn
    <3>2. i \in 1..(m - 1)
      BY <1>3, <1>5, <3>1
    <3>3. i + d \in 1..n /\ kept[i] = log[i + d]
      BY <1>3, <3>2
    <3>4. ASSUME NEW j \in (i + d + 1)..n PROVE log[j].path # p
      <4>1. PICK k \in (i + 1)..(m - 1) : k + d = j
        <5>1. j - d \in (i + 1)..(m - 1) /\ (j - d) + d = j
          BY <1>1, <1>3, <3>2 DEF m, n
        <5>. QED
          BY <5>1
      <4>2. k \in 1..(m - 1) /\ k \in (i + 1)..m
        BY <1>3, <3>2
      <4>. QED
        BY <1>3, <3>1, <4>1, <4>2
    <3>. QED
      BY <3>1, <3>3, <3>4 DEF NewestIn, n
  <2>2. ASSUME NewestIn(kept, p) = {}, v # Unset
        PROVE  Len(kept) = WindowSize
    <3>1. CASE d > 0
      BY <1>2, <3>1
    <3>2. CASE d = 0
      <4>1. NewestIn(log, p) = {}
        <5>. SUFFICES ASSUME NEW i \in NewestIn(log, p) PROVE FALSE
          OBVIOUS
        <5>1. i \in 1..n /\ log[i].path = p /\ \A j \in (i + 1)..n : log[j].path # p
          BY DEF NewestIn, n
        <5>2. m = n + 1 /\ \A j \in 1..n : kept[j] = log[j]
          BY <1>1, <1>3, <3>2 DEF m, n
        <5>3. ASSUME NEW j \in (i + 1)..m PROVE kept[j].path # p
          <6>1. n \in Nat
            BY <1>1
          <6>2. j \in (i + 1)..n \/ j = m
            BY <5>1, <5>2, <6>1
          <6>3. j \in (i + 1)..n => j \in 1..n
            BY <5>1, <6>1
          <6>. QED
            BY <1>3, <1>5, <5>1, <5>2, <6>2, <6>3
        <5>4. i \in 1..m /\ kept[i].path = p
          BY <1>1, <5>1, <5>2
        <5>5. i \in NewestIn(kept, p)
          BY <1>3, <5>3, <5>4 DEF NewestIn
        <5>. QED
          BY <2>2, <5>5
      <4>2. n = WindowSize
        BY <2>2, <4>1 DEF Tells, n
      <4>. QED
        BY <1>1, <1>2, <3>2, <4>2 DEF n
    <3>. QED
      BY <3>1, <3>2
  <2>3. \A i \in NewestIn(kept, p) : kept[i].value = v
    BY <2>1 DEF Tells
  <2>. QED
    BY <2>2, <2>3 DEF Tells, kept, longer
<1>. QED
  BY <1>4, <1>5

LEMMA DigestInvIsInductive ==
    ASSUME TypeOK, DigestInv, [Next]_vars
    PROVE  DigestInv'
<1>1. ASSUME NEW p \in Paths, NEW v \in Values, Commit(p, v) PROVE DigestInv'
  <2>1. /\ values' = [values EXCEPT ![p] = v]
        /\ UNCHANGED <<events, torn>>
    BY <1>1 DEF Commit
  <2>2. /\ Frame(p, v).path = p
        /\ Frame(p, v).value = v
    BY DEF Frame
  <2>3. \A i \in DOMAIN stack : stack[i].path \in Paths
    <3>1. \A i \in DOMAIN stack : stack[i] \in Frames
      BY DEF TypeOK
    <3>. QED
      BY <3>1 DEF Frames
  <2>4. FramesTell'
    BY <1>1, <2>1, <2>2, <2>3, CommitPushes DEF DigestInv, FramesTell, TypeOK
  <2>5. ASSUME NEW q \in Paths \ torn, Quiet(q)' PROVE Tells(events, q, values[q])'
    <3>1. q # p /\ Quiet(q)
      BY <1>1, <2>2, <2>5, CommitPushes DEF Quiet
    <3>2. values'[q] = values[q] /\ events' = events
      BY <2>1, <3>1 DEF TypeOK
    <3>3. Tells(events, q, values[q])
      BY <3>1 DEF DigestInv
    <3>. QED
      BY <3>2, <3>3 DEF Tells, NewestIn
  <2>. QED
    BY <2>1, <2>4, <2>5 DEF DigestInv
<1>2. CASE Call
  <2>1. UNCHANGED <<values, events, torn>>
    BY <1>2 DEF Call
  <2>2. \A i \in DOMAIN stack : Continues(stack[i], stack'[i])
    BY <1>2, CallMoves DEF Continues
  <2>3. DOMAIN stack' = DOMAIN stack
    BY <1>2, CallMoves
  <2>. QED
    BY <2>1, <2>2, <2>3 DEF DigestInv, FramesTell, Continues, Quiet, Tells, NewestIn
<1>3. CASE Return
  <2>1. UNCHANGED <<values, events, torn>>
    BY <1>3 DEF Return
  <2>. QED
    BY <1>3, <2>1, ReturnStays DEF DigestInv, FramesTell, Continues, Quiet, Tells, NewestIn
<1>4. CASE EndCommit
  <2>. DEFINE e == [path |-> Top.path, value |-> Top.value]
  <2>1. /\ stack # <<>>
        /\ stack' = SubSeq(stack, 1, Len(stack) - 1)
        /\ values' = values
        /\ events' = Trimmed(Append(events, e))
        /\ torn' = IF Top.overtaken THEN torn \cup {Top.path} ELSE torn \ {Top.path}
    BY <1>4 DEF EndCommit, HostHasControl
  <2>2. Len(stack) \in DOMAIN stack /\ Top \in Frames /\ Top = stack[Len(stack)]
    BY <2>1, TopIsAFrame DEF TypeOK, Top
  <2>3. e \in Event /\ e.path = Top.path /\ e.value = Top.value
    BY <2>2 DEF Event, Frames
  <2>. HIDE DEF e
  <2>4. /\ DOMAIN stack = DOMAIN stack' \cup {Len(stack)}
        /\ \A i \in DOMAIN stack' : stack'[i] = stack[i]
    <3>1. Len(stack) - 1 \in 0..(Len(stack) - 1) /\ Len(stack) \in Nat \ {0}
      BY <2>1 DEF TypeOK
    <3>2. /\ DOMAIN stack' = 1..(Len(stack) - 1)
          /\ DOMAIN stack = 1..Len(stack)
          /\ \A i \in 1..(Len(stack) - 1) : stack'[i] = stack[i]
      BY <2>1, <3>1, FramesArePopped
    <3>. QED
      BY <3>1, <3>2
  <2>5. FramesTell'
    BY <2>1, <2>4 DEF DigestInv, FramesTell
  <2>6. ASSUME NEW q \in Paths \ torn', Quiet(q)' PROVE Tells(events, q, values[q])'
    <3>1. CASE Top.path = q
      <4>1. ~Top.overtaken
        BY <2>1, <3>1
      <4>2. Top.value = values[q]
        BY <2>2, <3>1, <4>1 DEF DigestInv, FramesTell
      <4>3. Tells(Trimmed(Append(events, e)), q, values[q])
        BY <2>3, <3>1, <4>2, RecordingTells DEF TypeOK
      <4>. QED
        BY <2>1, <4>3 DEF Tells, NewestIn
    <3>2. CASE Top.path # q
      <4>1. q \in Paths \ torn /\ Quiet(q)
        BY <2>1, <2>2, <2>4, <2>6, <3>2 DEF Quiet
      <4>2. Tells(events, q, values[q])
        BY <4>1 DEF DigestInv
      <4>3. Tells(Trimmed(Append(events, e)), q, values[q])
        BY <2>3, <3>2, <4>2, RecordingTells DEF TypeOK
      <4>. QED
        BY <2>1, <4>3 DEF Tells, NewestIn
    <3>. QED
      BY <3>1, <3>2
  <2>. QED
    BY <2>5, <2>6 DEF DigestInv
<1>5. ASSUME NEW k \in 0..(Len(stack) - 1), Throw(k) PROVE DigestInv'
  <2>1. /\ stack # <<>>
        /\ stack' = SubSeq(stack, 1, k)
        /\ torn' = torn \cup {stack[i].path : i \in (k + 1)..Len(stack)}
        /\ UNCHANGED <<values, events>>
    BY <1>5 DEF Throw
  <2>2. /\ DOMAIN stack' = 1..k
        /\ DOMAIN stack = 1..Len(stack) /\ Len(stack) \in Nat
        /\ \A i \in 1..k : i \in DOMAIN stack /\ stack'[i] = stack[i]
    BY <2>1, FramesArePopped
  <2>3. FramesTell'
    BY <2>1, <2>2 DEF DigestInv, FramesTell
  <2>4. ASSUME NEW q \in Paths \ torn', Quiet(q)' PROVE Tells(events, q, values[q])'
    <3>1. ASSUME NEW i \in DOMAIN stack PROVE stack[i].path # q
      <4>1. i \in 1..k \/ i \in (k + 1)..Len(stack)
        BY <2>2
      <4>. QED
        BY <2>1, <2>2, <2>4, <4>1 DEF Quiet
    <3>. QED
      BY <2>1, <3>1 DEF DigestInv, Quiet, Tells, NewestIn
  <2>. QED
    BY <2>3, <2>4 DEF DigestInv
<1>6. CASE UNCHANGED <<values, events, stack, torn>>
  BY <1>6 DEF DigestInv, FramesTell, Quiet, Tells, NewestIn
<1>. QED
  BY <1>1, <1>2, <1>3, <1>4, <1>5, <1>6 DEF Next, Subscribe, Unsubscribe, vars

\* With no commit under way the events of a digest tell its values: the newest
\* event of a path not torn carries the path's value, and a written path has
\* no event only once the window is full (commitTier1, digestOf), however
\* deep commits nest and wherever throws are caught.
THEOREM DigestsAgree == Spec => []DigestAgrees
<1>1. Init => DigestInv
  BY DEF Init, DigestInv, FramesTell, Quiet, Tells, NewestIn
<1>2. TypeOK /\ DigestInv /\ [Next]_vars => DigestInv'
  BY DigestInvIsInductive
<1>3. DigestInv => DigestAgrees
  <2>. SUFFICES ASSUME DigestInv, stack = <<>>, NEW p \in Paths \ torn
                PROVE  /\ \A i \in Newest(p) : DigestOf.recentEvents[i].value = DigestOf.state[p]
                       /\ Newest(p) = {} /\ DigestOf.state[p] # Unset => Len(events) = WindowSize
    BY DEF DigestAgrees
  <2>1. Quiet(p)
    BY DEF Quiet
  <2>2. Newest(p) = NewestIn(events, p)
    BY DEF Newest, NewestIn
  <2>3. DigestOf.recentEvents = events /\ DigestOf.state = values
    BY DEF DigestOf
  <2>4. Tells(events, p, values[p])
    BY <2>1 DEF DigestInv
  <2>. QED
    BY <2>2, <2>3, <2>4 DEF Tells
<1>. QED
  BY <1>1, <1>2, <1>3, Tier1TypeCorrect, PTL DEF Spec

-----------------------------------------------------------------------------
(* Every holder has heard: hosts subscribe a callback to a path once at a  *)
(* time and dispose of a subscription once.                                *)

Disciplined == SubscribesOnce /\ DisposesOnce

\* A callback has one undisposed subscription to a path.
HoldsOnce ==
    \A i, j \in DOMAIN subscriptions :
        /\ subscriptions[i].live /\ subscriptions[j].live
        /\ subscriptions[i].subscriber = subscriptions[j].subscriber
        /\ subscriptions[i].path = subscriptions[j].path
        => i = j

\* Who holds a subscription is in the Set the Map has for its path.
HoldersAreRegistered ==
    \A i \in DOMAIN subscriptions : subscriptions[i].live =>
        /\ registry[subscriptions[i].path] = subscriptions[i].set
        /\ subscriptions[i].subscriber \in Members(sets[subscriptions[i].set].entries)

RegistryInv == HoldsOnce /\ HoldersAreRegistered

\* Of the commits of a path under way only the innermost is not overtaken.
InnerOvertakes ==
    \A i, j \in DOMAIN stack :
        i < j /\ stack[i].path = stack[j].path => stack[i].overtaken

\* The notification of the i-th frame has yet to come to s.
Awaits(i, s, p) ==
    LET f == stack[i]
    IN  /\ f.set = registry[p]
        /\ f.set # NoSet
        /\ \E k \in DOMAIN sets[f.set].entries : k >= f.next /\ sets[f.set].entries[k] = s

Up(s, p) == heard[<<s, p>>] = values[p]

QuietHaveHeard ==
    \A s \in Subscribers, p \in Paths \ torn : Holds(s, p) /\ Quiet(p) => Up(s, p)

TellingReaches ==
    \A s \in Subscribers, p \in Paths : Holds(s, p) =>
        \A i \in DOMAIN stack :
            stack[i].path = p /\ ~stack[i].overtaken => Up(s, p) \/ Awaits(i, s, p)

HeardInv == RegistryInv /\ InnerOvertakes /\ QuietHaveHeard /\ TellingReaches

\* What subscribing does to the subscriptions and the Sets.
LEMMA SubscribeAdds ==
    ASSUME TypeOK, Ownership, NEW s \in Subscribers, NEW p \in Paths, Subscribe(s, p)
    PROVE  /\ DOMAIN subscriptions' = DOMAIN subscriptions \cup {Len(subscriptions) + 1}
           /\ \A i \in DOMAIN subscriptions :
                i # Len(subscriptions) + 1 /\ subscriptions'[i] = subscriptions[i]
           /\ LET new == subscriptions'[Len(subscriptions) + 1]
              IN  /\ new.subscriber = s /\ new.path = p
                  /\ registry'[p] = new.set
                  /\ s \in Members(sets'[new.set].entries)
           /\ \A q \in Paths : registry[q] # NoSet \/ q # p => registry'[q] = registry[q]
           /\ \A j \in DOMAIN sets : \A k \in DOMAIN sets[j].entries :
                /\ k \in DOMAIN sets'[j].entries
                /\ sets'[j].entries[k] = sets[j].entries[k]
<1>. DEFINE first == [path |-> p, entries |-> <<s>>]
            at(set) == [subscriber |-> s, path |-> p, set |-> set, live |-> TRUE]
<1>1. \A set : at(set).subscriber = s /\ at(set).path = p /\ at(set).set = set
  OBVIOUS
<1>2. Len(subscriptions) \in Nat /\ DOMAIN subscriptions = 1..Len(subscriptions)
  BY DEF TypeOK
<1>3. CASE registry[p] = NoSet
  <2>. DEFINE set == Len(sets) + 1
  <2>1. /\ sets' = Append(sets, first)
        /\ registry' = [registry EXCEPT ![p] = set]
        /\ subscriptions' = Append(subscriptions, at(set))
    BY <1>3 DEF Subscribe
  <2>2. /\ DOMAIN subscriptions' = DOMAIN subscriptions \cup {Len(subscriptions) + 1}
        /\ \A i \in DOMAIN subscriptions :
             i # Len(subscriptions) + 1 /\ subscriptions'[i] = subscriptions[i]
        /\ subscriptions'[Len(subscriptions) + 1] = at(set)
    BY <1>2, <2>1 DEF TypeOK
  <2>3. Members(<<s>>) = {s}
    BY Tier1Assumption DEF Members
  <2>4. /\ \A j \in DOMAIN sets : sets'[j] = sets[j]
        /\ s \in Members(sets'[set].entries)
    <3>1. sets \in Seq(JsSet) /\ Len(sets) \in Nat /\ DOMAIN sets = 1..Len(sets)
      BY DEF TypeOK
    <3>2. /\ Append(sets, first)[Len(sets) + 1] = first
          /\ \A j \in DOMAIN sets : Append(sets, first)[j] = sets[j]
      BY <3>1
    <3>. QED
      BY <2>1, <2>3, <3>2
  <2>. HIDE DEF at, set
  <2>5. registry'[p] = set /\ \A q \in Paths : q # p => registry'[q] = registry[q]
    BY <2>1 DEF TypeOK
  <2>. QED
    BY <1>1, <1>3, <2>2, <2>4, <2>5
<1>4. CASE registry[p] # NoSet
  <2>. DEFINE set == registry[p]
              old == sets[set].entries
              more == Added(old, s)
  <2>1. set \in DOMAIN sets /\ sets[set] \in JsSet
    BY <1>4 DEF TypeOK
  <2>2. /\ sets' = WithEntries(set, more)
        /\ registry' = registry
        /\ subscriptions' = Append(subscriptions, at(set))
    BY <1>4 DEF Subscribe, TypeOK
  <2>3. /\ DOMAIN subscriptions' = DOMAIN subscriptions \cup {Len(subscriptions) + 1}
        /\ \A i \in DOMAIN subscriptions :
             i # Len(subscriptions) + 1 /\ subscriptions'[i] = subscriptions[i]
        /\ subscriptions'[Len(subscriptions) + 1] = at(set)
    BY <1>2, <2>2 DEF TypeOK
  <2>4. old \in Seq(Subscribers \cup {Nobody})
    BY <2>1 DEF JsSet
  <2>5. more \in Seq(Subscribers \cup {Nobody}) /\ s \in Members(more)
    BY <2>4, EntriesStayEntries
  <2>6. \A k \in DOMAIN old : k \in DOMAIN more /\ more[k] = old[k]
    <3>. HIDE DEF old
    <3>. QED
      BY <2>4 DEF Added
  <2>. HIDE DEF at, more
  <2>7. /\ \A j \in DOMAIN sets \ {set} : sets'[j] = sets[j]
        /\ sets'[set].entries = more
    BY <2>1, <2>2, <2>5, SetChanges DEF TypeOK
  <2>8. \A j \in DOMAIN sets : \A k \in DOMAIN sets[j].entries :
          k \in DOMAIN sets'[j].entries /\ sets'[j].entries[k] = sets[j].entries[k]
    BY <2>6, <2>7
  <2>. HIDE DEF set
  <2>. QED
    BY <1>1, <2>2, <2>3, <2>5, <2>7, <2>8 DEF set
<1>. QED
  BY <1>3, <1>4

\* What disposing of a subscription once does to the holders that remain.
LEMMA UnsubscribeTakesOne ==
    ASSUME Disciplined, TypeOK, Ownership, RegistryInv,
           NEW i \in DOMAIN subscriptions, Unsubscribe(i)
    PROVE  /\ subscriptions[i].live
           /\ DOMAIN subscriptions' = DOMAIN subscriptions
           /\ ~subscriptions'[i].live
           /\ \A j \in DOMAIN subscriptions :
                j # i => subscriptions'[j] = subscriptions[j]
           /\ \A s \in Subscribers, p \in Paths, k \in Nat :
                /\ s # subscriptions[i].subscriber \/ p # subscriptions[i].path
                /\ registry[p] # NoSet
                /\ k \in DOMAIN sets[registry[p]].entries
                /\ sets[registry[p]].entries[k] = s
                => /\ registry'[p] = registry[p]
                   /\ k \in DOMAIN sets'[registry[p]].entries
                   /\ sets'[registry[p]].entries[k] = s
<1>. DEFINE gone == subscriptions[i]
            spent == [gone EXCEPT !.live = FALSE]
            old == sets[gone.set].entries
            rest == Removed(old, gone.subscriber)
<1>1. gone.live
  BY DEF Unsubscribe, Disciplined
<1>2. gone \in Subscription /\ gone.set \in DOMAIN sets /\ registry[gone.path] = gone.set
  BY <1>1 DEF TypeOK, RegistryInv, HoldersAreRegistered
<1>3. /\ sets' = WithEntries(gone.set, rest)
      /\ registry' = [registry EXCEPT ![gone.path] = IF Dropped(rest) THEN NoSet ELSE @]
      /\ subscriptions' = [subscriptions EXCEPT ![i] = spent]
  BY DEF Unsubscribe
<1>4. old \in Seq(Subscribers \cup {Nobody})
  <2>1. sets[gone.set] \in JsSet
    BY <1>2 DEF TypeOK
  <2>. QED
    BY <2>1 DEF JsSet
<1>5. rest \in Seq(Subscribers \cup {Nobody})
  BY <1>2, <1>4, EntriesStayEntries DEF Subscription
<1>6. \A k \in DOMAIN old : old[k] # gone.subscriber => k \in DOMAIN rest /\ rest[k] = old[k]
  <2>. HIDE DEF old, gone
  <2>. QED
    BY DEF Removed
<1>7. ~spent.live
  BY <1>2 DEF Subscription
<1>8. /\ DOMAIN subscriptions' = DOMAIN subscriptions
      /\ subscriptions'[i] = spent
      /\ \A j \in DOMAIN subscriptions : j # i => subscriptions'[j] = subscriptions[j]
  BY <1>3 DEF TypeOK
<1>9. /\ \A j \in DOMAIN sets \ {gone.set} : sets'[j] = sets[j]
      /\ sets'[gone.set].entries = rest
  <2>. HIDE DEF rest
  <2>. QED
    BY <1>2, <1>3, <1>5, SetChanges DEF TypeOK
<1>10. ASSUME NEW s \in Subscribers, NEW p \in Paths, NEW k \in Nat,
              s # gone.subscriber \/ p # gone.path,
              registry[p] # NoSet,
              k \in DOMAIN sets[registry[p]].entries,
              sets[registry[p]].entries[k] = s
       PROVE  /\ registry'[p] = registry[p]
              /\ k \in DOMAIN sets'[registry[p]].entries
              /\ sets'[registry[p]].entries[k] = s
  <2>1. CASE p = gone.path
    <3>1. k \in DOMAIN old /\ old[k] = s /\ s # gone.subscriber
      BY <1>2, <1>10, <2>1
    <3>2. k \in DOMAIN rest /\ rest[k] = s
      BY <1>6, <3>1
    <3>3. s # Nobody
      BY Tier1Assumption
    <3>4. ~Dropped(rest)
      <4>. HIDE DEF rest
      <4>. QED
        BY <3>2, <3>3 DEF Dropped, Members
    <3>5. registry'[p] = registry[p]
      BY <1>3, <2>1, <3>4 DEF TypeOK
    <3>. QED
      BY <1>2, <1>9, <2>1, <3>2, <3>5
  <2>2. CASE p # gone.path
    <3>1. registry'[p] = registry[p]
      BY <1>3, <2>2 DEF TypeOK
    <3>2. registry[p] \in DOMAIN sets /\ sets[registry[p]].path = p
      BY <1>10 DEF TypeOK, Ownership, RegistryFits
    <3>3. sets[gone.set].path = gone.path
      BY DEF Ownership, SubscriptionsFit
    <3>4. registry[p] # gone.set
      BY <2>2, <3>2, <3>3
    <3>. QED
      BY <1>9, <1>10, <3>1, <3>2, <3>4
  <2>. QED
    BY <2>1, <2>2
<1>. QED
  BY <1>1, <1>7, <1>8, <1>10

\* No step makes a holder miss the Set of its path.
LEMMA RegistryInvIsInductive ==
    ASSUME Disciplined, TypeOK, TypeOK', Ownership, RegistryInv, [Next]_vars
    PROVE  RegistryInv'
<1>1. CASE UNCHANGED <<registry, sets, subscriptions>>
  BY <1>1 DEF RegistryInv, HoldsOnce, HoldersAreRegistered
<1>2. ASSUME NEW s \in Subscribers, NEW p \in Paths, Subscribe(s, p) PROVE RegistryInv'
  <2>. DEFINE n == Len(subscriptions) + 1
              new == subscriptions'[n]
  <2>1. ~Holds(s, p)
    BY <1>2 DEF Subscribe, Disciplined
  <2>2. /\ DOMAIN subscriptions' = DOMAIN subscriptions \cup {n}
        /\ \A i \in DOMAIN subscriptions : i # n /\ subscriptions'[i] = subscriptions[i]
        /\ new.subscriber = s /\ new.path = p
        /\ registry'[p] = new.set
        /\ s \in Members(sets'[new.set].entries)
        /\ \A q \in Paths : registry[q] # NoSet \/ q # p => registry'[q] = registry[q]
        /\ \A j \in DOMAIN sets : \A k \in DOMAIN sets[j].entries :
             /\ k \in DOMAIN sets'[j].entries
             /\ sets'[j].entries[k] = sets[j].entries[k]
    BY <1>2, SubscribeAdds
  <2>. HIDE DEF n
  <2>3. \A i \in DOMAIN subscriptions :
          subscriptions[i].live => subscriptions[i].subscriber # s \/ subscriptions[i].path # p
    BY <2>1 DEF Holds
  <2>4. HoldsOnce'
    BY <2>2, <2>3 DEF RegistryInv, HoldsOnce
  <2>5. ASSUME NEW i \in DOMAIN subscriptions, subscriptions[i].live
        PROVE  /\ registry'[subscriptions[i].path] = subscriptions[i].set
               /\ subscriptions[i].subscriber \in Members(sets'[subscriptions[i].set].entries)
    <3>. DEFINE sub == subscriptions[i]
    <3>1. sub \in Subscription /\ sub.set \in DOMAIN sets
      BY DEF TypeOK
    <3>2. registry[sub.path] = sub.set /\ sub.subscriber \in Members(sets[sub.set].entries)
      BY <2>5 DEF RegistryInv, HoldersAreRegistered
    <3>. HIDE DEF sub
    <3>3. sub.set # NoSet /\ sub.path \in Paths
      BY <3>1, Tier1Assumption DEF Subscription
    <3>4. Members(sets[sub.set].entries) \subseteq Members(sets'[sub.set].entries)
      BY <2>2, <3>1 DEF Members
    <3>. QED
      BY <2>2, <3>2, <3>3, <3>4 DEF sub
  <2>6. HoldersAreRegistered'
    BY <2>2, <2>5 DEF HoldersAreRegistered
  <2>. QED
    BY <2>4, <2>6 DEF RegistryInv
<1>3. ASSUME NEW i \in DOMAIN subscriptions, Unsubscribe(i) PROVE RegistryInv'
  <2>. DEFINE gone == subscriptions[i]
  <2>1. /\ gone.live
        /\ DOMAIN subscriptions' = DOMAIN subscriptions
        /\ ~subscriptions'[i].live
        /\ \A j \in DOMAIN subscriptions : j # i => subscriptions'[j] = subscriptions[j]
        /\ \A s \in Subscribers, p \in Paths, k \in Nat :
             /\ s # gone.subscriber \/ p # gone.path
             /\ registry[p] # NoSet
             /\ k \in DOMAIN sets[registry[p]].entries
             /\ sets[registry[p]].entries[k] = s
             => /\ registry'[p] = registry[p]
                /\ k \in DOMAIN sets'[registry[p]].entries
                /\ sets'[registry[p]].entries[k] = s
    BY <1>3, UnsubscribeTakesOne
  <2>2. HoldsOnce'
    BY <2>1 DEF RegistryInv, HoldsOnce
  <2>3. ASSUME NEW j \in DOMAIN subscriptions, j # i, subscriptions[j].live
        PROVE  /\ registry'[subscriptions[j].path] = subscriptions[j].set
               /\ subscriptions[j].subscriber \in Members(sets'[subscriptions[j].set].entries)
    <3>. DEFINE sub == subscriptions[j]
    <3>1. sub \in Subscription /\ sub.set \in DOMAIN sets
      BY DEF TypeOK
    <3>2. registry[sub.path] = sub.set /\ sub.subscriber \in Members(sets[sub.set].entries)
      BY <2>3 DEF RegistryInv, HoldersAreRegistered
    <3>3. sub.subscriber # gone.subscriber \/ sub.path # gone.path
      BY <2>1, <2>3 DEF RegistryInv, HoldsOnce
    <3>. HIDE DEF sub, gone
    <3>4. sub.set # NoSet /\ sub.path \in Paths /\ sub.subscriber \in Subscribers
      BY <3>1, Tier1Assumption DEF Subscription
    <3>5. PICK k \in DOMAIN sets[sub.set].entries : sets[sub.set].entries[k] = sub.subscriber
      BY <3>2 DEF Members
    <3>6. k \in Nat
      <4>1. sets[sub.set] \in JsSet
        BY <3>1 DEF TypeOK
      <4>. QED
        BY <4>1 DEF JsSet
    <3>7. /\ registry'[sub.path] = registry[sub.path]
          /\ k \in DOMAIN sets'[sub.set].entries
          /\ sets'[sub.set].entries[k] = sub.subscriber
      BY <2>1, <3>2, <3>3, <3>4, <3>5, <3>6
    <3>8. sub.subscriber # Nobody
      BY <3>4, Tier1Assumption
    <3>. QED
      BY <3>2, <3>7, <3>8 DEF Members, sub
  <2>4. HoldersAreRegistered'
    BY <2>1, <2>3 DEF HoldersAreRegistered
  <2>. QED
    BY <2>2, <2>4 DEF RegistryInv
<1>. QED
  BY <1>1, <1>2, <1>3 DEF Next, Commit, Call, Return, EndCommit, Throw, vars

\* A commit starts with every holder of its path to be told.
LEMMA CommitKeepsHeard ==
    ASSUME TypeOK, HeardInv, NEW p \in Paths, NEW v \in Values, Commit(p, v)
    PROVE  InnerOvertakes' /\ QuietHaveHeard' /\ TellingReaches'
<1>. DEFINE n == Len(stack) + 1
<1>1. /\ values' = [values EXCEPT ![p] = v]
      /\ UNCHANGED <<registry, sets, subscriptions, heard, torn>>
  BY DEF Commit
<1>2. /\ DOMAIN stack' = DOMAIN stack \cup {n}
      /\ \A i \in DOMAIN stack :
           /\ i # n
           /\ stack'[i].path = stack[i].path
           /\ stack'[i].set = stack[i].set
           /\ stack'[i].next = stack[i].next
           /\ stack'[i].overtaken <=> stack[i].overtaken \/ stack[i].path = p
      /\ stack'[n] = Frame(p, v)
  BY CommitPushes
<1>3. /\ Frame(p, v).path = p
      /\ Frame(p, v).set = registry[p]
      /\ Frame(p, v).next = 1
  BY DEF Frame
<1>4. n \in Nat /\ \A i \in DOMAIN stack : i < n /\ i \in Nat
  BY DEF TypeOK
<1>. HIDE DEF n
<1>5. InnerOvertakes'
  BY <1>2, <1>3, <1>4 DEF HeardInv, InnerOvertakes
<1>6. \A s \in Subscribers, q \in Paths : Holds(s, q)' = Holds(s, q)
  BY <1>1 DEF Holds
<1>7. \A s \in Subscribers, q \in Paths : q # p => Up(s, q)' = Up(s, q)
  BY <1>1 DEF Up, TypeOK
<1>8. QuietHaveHeard'
  <2>. SUFFICES ASSUME NEW s \in Subscribers, NEW q \in Paths \ torn, Holds(s, q), Quiet(q)'
                PROVE  Up(s, q)'
    BY <1>1, <1>6 DEF QuietHaveHeard
  <2>1. q # p /\ Quiet(q)
    BY <1>2, <1>3 DEF Quiet
  <2>. QED
    BY <1>7, <2>1 DEF HeardInv, QuietHaveHeard
<1>9. TellingReaches'
  <2>. SUFFICES ASSUME NEW s \in Subscribers, NEW q \in Paths, Holds(s, q),
                       NEW i \in DOMAIN stack', stack'[i].path = q, ~stack'[i].overtaken
                PROVE  Up(s, q)' \/ Awaits(i, s, q)'
    BY <1>6 DEF TellingReaches
  <2>1. CASE i \in DOMAIN stack
    <3>1. q # p /\ stack[i].path = q /\ ~stack[i].overtaken
      BY <1>2, <2>1
    <3>2. Up(s, q) \/ Awaits(i, s, q)
      BY <2>1, <3>1 DEF HeardInv, TellingReaches
    <3>3. Awaits(i, s, q) => Awaits(i, s, q)'
      BY <1>1, <1>2, <2>1 DEF Awaits
    <3>. QED
      BY <1>7, <3>1, <3>2, <3>3
  <2>2. CASE i = n
    <3>1. q = p /\ stack'[i].set = registry[p] /\ stack'[i].next = 1
      BY <1>2, <1>3, <2>2
    <3>2. PICK j \in DOMAIN subscriptions :
            subscriptions[j].live /\ subscriptions[j].subscriber = s /\ subscriptions[j].path = p
      BY <3>1 DEF Holds
    <3>3. registry[p] = subscriptions[j].set /\ s \in Members(sets[registry[p]].entries)
      BY <3>2 DEF HeardInv, RegistryInv, HoldersAreRegistered
    <3>4. registry[p] \in DOMAIN sets /\ registry[p] # NoSet
      BY <3>3, Tier1Assumption DEF TypeOK
    <3>5. sets[registry[p]].entries \in Seq(Subscribers \cup {Nobody})
      <4>1. sets[registry[p]] \in JsSet
        BY <3>4 DEF TypeOK
      <4>. QED
        BY <4>1 DEF JsSet
    <3>6. PICK k \in DOMAIN sets[registry[p]].entries : sets[registry[p]].entries[k] = s
      BY <3>3 DEF Members
    <3>7. k >= 1
      BY <3>5, <3>6
    <3>. QED
      BY <1>1, <3>1, <3>4, <3>6, <3>7 DEF Awaits
  <2>. QED
    BY <1>2, <2>1, <2>2
<1>. QED
  BY <1>5, <1>8, <1>9

\* A call tells its subscriber and passes over nobody else.
LEMMA CallKeepsHeard ==
    ASSUME TypeOK, DigestInv, HeardInv, Call
    PROVE  InnerOvertakes' /\ QuietHaveHeard' /\ TellingReaches'
<1>. DEFINE n == Len(stack)
<1>1. UNCHANGED <<values, registry, sets, subscriptions, torn>>
  BY DEF Call
<1>2. /\ stack # <<>>
      /\ n \in DOMAIN stack /\ Top = stack[n] /\ Top \in Frames
      /\ DOMAIN stack' = DOMAIN stack
      /\ \A j \in DOMAIN stack \ {n} : stack'[j] = stack[j]
      /\ Continues(Top, stack'[n])
  BY CallMoves
<1>3. PICK i \in DOMAIN Entries :
        /\ IsDue(i)
        /\ Entries[i] \in Subscribers /\ i \in Nat
        /\ heard' = [heard EXCEPT ![<<Entries[i], Top.path>>] = Top.value]
        /\ stack'[n].next = i + 1
  BY CallMoves
<1>. PICK called : called = Entries[i]
  OBVIOUS
<1>. PICK path : path = Top.path
  OBVIOUS
<1>4. \A j \in DOMAIN stack : j \in Nat /\ j <= n
  BY DEF TypeOK
<1>5. path \in Paths /\ Top.next \in Nat \ {0}
  BY <1>2 DEF Frames
<1>6. /\ Top.set # NoSet /\ Entries = sets[Top.set].entries
      /\ \A j \in Top.next..(i - 1) : Entries[j] = Nobody
      /\ DOMAIN Entries = 1..Len(Entries) /\ Len(Entries) \in Nat
  <2>1. Top.set # NoSet
    BY <1>3 DEF Entries
  <2>2. Top.set \in DOMAIN sets
    BY <1>2, <2>1 DEF TypeOK
  <2>3. sets[Top.set] \in JsSet
    BY <2>2 DEF TypeOK
  <2>4. Entries = sets[Top.set].entries
    BY <2>1 DEF Entries
  <2>5. Entries \in Seq(Subscribers \cup {Nobody})
    BY <2>3, <2>4 DEF JsSet
  <2>. QED
    BY <1>3, <2>1, <2>4, <2>5 DEF IsDue
<1>7. InnerOvertakes'
  BY <1>2 DEF HeardInv, InnerOvertakes, Continues
<1>8. \A s \in Subscribers, q \in Paths :
        /\ Holds(s, q)' = Holds(s, q)
        /\ Quiet(q)' = Quiet(q)
        /\ s # called \/ q # path => Up(s, q)' = Up(s, q)
  <2>1. \A s \in Subscribers, q \in Paths : Holds(s, q)' = Holds(s, q)
    BY <1>1 DEF Holds
  <2>2. \A q \in Paths : Quiet(q)' = Quiet(q)
    BY <1>2 DEF Quiet, Continues
  <2>3. ASSUME NEW s \in Subscribers, NEW q \in Paths, s # called \/ q # path
        PROVE  Up(s, q)' = Up(s, q)
    <3>1. <<s, q>> \in Subscribers \X Paths /\ <<s, q>> # <<called, path>>
      BY <2>3
    <3>2. heard' = [heard EXCEPT ![<<called, path>>] = Top.value]
      BY <1>3
    <3>3. heard'[<<s, q>>] = heard[<<s, q>>]
      BY <3>1, <3>2 DEF TypeOK
    <3>. QED
      BY <1>1, <3>3 DEF Up
  <2>. QED
    BY <2>1, <2>2, <2>3
<1>9. ASSUME ~Top.overtaken PROVE Up(called, path)'
  <2>1. Top.value = values[path]
    BY <1>2, <1>9 DEF DigestInv, FramesTell
  <2>2. <<called, path>> \in Subscribers \X Paths
    BY <1>3, <1>5
  <2>3. heard'[<<called, path>>] = Top.value
    BY <1>3, <2>2 DEF TypeOK
  <2>. QED
    BY <1>1, <2>1, <2>3 DEF Up
<1>10. QuietHaveHeard'
  <2>1. ~Quiet(path)
    BY <1>2 DEF Quiet
  <2>. QED
    BY <1>1, <1>8, <2>1 DEF HeardInv, QuietHaveHeard
<1>11. TellingReaches'
  <2>. SUFFICES ASSUME NEW s \in Subscribers, NEW q \in Paths, Holds(s, q),
                       NEW j \in DOMAIN stack, stack'[j].path = q, ~stack'[j].overtaken
                PROVE  Up(s, q)' \/ Awaits(j, s, q)'
    BY <1>2, <1>8 DEF TellingReaches
  <2>1. stack[j].path = q /\ ~stack[j].overtaken
    BY <1>2 DEF Continues
  <2>2. Up(s, q) \/ Awaits(j, s, q)
    BY <2>1 DEF HeardInv, TellingReaches
  <2>3. CASE s = called /\ q = path
    <3>1. j = n
      <4>1. ~(j < n)
        BY <1>2, <2>1, <2>3 DEF HeardInv, InnerOvertakes
      <4>2. j \in Nat /\ j <= n /\ n \in Nat
        BY <1>2, <1>4
      <4>. HIDE DEF n
      <4>. QED
        BY <4>1, <4>2
    <3>. QED
      BY <1>2, <1>9, <2>1, <2>3, <3>1
  <2>4. CASE ~(s = called /\ q = path) /\ Up(s, q)
    BY <1>8, <2>4
  <2>5. CASE ~(s = called /\ q = path) /\ Awaits(j, s, q) /\ j # n
    BY <1>1, <1>2, <2>5 DEF Awaits
  <2>6. CASE ~(s = called /\ q = path) /\ Awaits(j, s, q) /\ j = n
    <3>1. q = path /\ s # called
      BY <1>2, <2>1, <2>6
    <3>2. PICK k \in DOMAIN Entries : k >= Top.next /\ Entries[k] = s
      BY <1>2, <1>6, <2>6 DEF Awaits
    <3>3. s # Nobody
      BY Tier1Assumption
    <3>4. k \notin Top.next..(i - 1) /\ k # i
      BY <1>6, <3>1, <3>2, <3>3
    <3>5. k >= i + 1
      <4>1. k \in Nat /\ i \in Nat /\ Top.next \in Nat
        BY <1>3, <1>5, <1>6, <3>2
      <4>. QED
        BY <3>2, <3>4, <4>1
    <3>. QED
      BY <1>1, <1>2, <1>3, <1>6, <2>6, <3>2, <3>5 DEF Awaits, Continues
  <2>. QED
    BY <2>2, <2>3, <2>4, <2>5, <2>6
<1>. QED
  BY <1>7, <1>10, <1>11

\* A commit that ends has told everyone who holds its path.
LEMMA EndCommitKeepsHeard ==
    ASSUME TypeOK, HeardInv, EndCommit
    PROVE  InnerOvertakes' /\ QuietHaveHeard' /\ TellingReaches'
<1>1. /\ stack # <<>>
      /\ stack' = SubSeq(stack, 1, Len(stack) - 1)
      /\ torn' = IF Top.overtaken THEN torn \cup {Top.path} ELSE torn \ {Top.path}
      /\ UNCHANGED <<values, registry, sets, subscriptions, heard>>
  BY DEF EndCommit, HostHasControl
<1>2. Len(stack) \in DOMAIN stack /\ Top \in Frames /\ Top = stack[Len(stack)]
  BY <1>1, TopIsAFrame DEF TypeOK, Top
<1>3. /\ DOMAIN stack = DOMAIN stack' \cup {Len(stack)}
      /\ \A i \in DOMAIN stack' : stack'[i] = stack[i]
  <2>1. Len(stack) - 1 \in 0..(Len(stack) - 1) /\ Len(stack) \in Nat \ {0}
    BY <1>1 DEF TypeOK
  <2>2. /\ DOMAIN stack' = 1..(Len(stack) - 1)
        /\ DOMAIN stack = 1..Len(stack)
        /\ \A i \in 1..(Len(stack) - 1) : stack'[i] = stack[i]
    BY <1>1, <2>1, FramesArePopped
  <2>. QED
    BY <2>1, <2>2
<1>4. \A s \in Subscribers, p \in Paths : ~Awaits(Len(stack), s, p)
  <2>. SUFFICES ASSUME NEW s \in Subscribers, NEW p \in Paths, Awaits(Len(stack), s, p) PROVE FALSE
    OBVIOUS
  <2>1. Top.set # NoSet /\ Entries = sets[Top.set].entries
    BY <1>2 DEF Awaits, Entries
  <2>2. Entries \in Seq(Subscribers \cup {Nobody}) /\ Top.next \in Nat \ {0}
    <3>1. Top.set \in DOMAIN sets
      BY <1>2, <2>1 DEF TypeOK
    <3>2. sets[Top.set] \in JsSet
      BY <3>1 DEF TypeOK
    <3>. QED
      BY <1>2, <2>1, <3>2 DEF JsSet, Frames
  <2>. DEFINE Due == {k \in DOMAIN Entries : k >= Top.next /\ Entries[k] # Nobody}
  <2>3. Due \subseteq Nat /\ Due # {}
    BY <1>2, <2>1, <2>2, Tier1Assumption DEF Awaits
  <2>4. PICK k \in Due : \A j \in Due : k <= j
    <3>. HIDE DEF Due
    <3>. QED
      BY <2>3, Least
  <2>5. k \in Top.next..Len(Entries) /\ \A j \in Top.next..(k - 1) : j \in DOMAIN Entries
    <3>1. DOMAIN Entries = 1..Len(Entries) /\ Len(Entries) \in Nat
      BY <2>2
    <3>2. k \in 1..Len(Entries) /\ k >= Top.next
      BY <3>1
    <3>. QED
      BY <2>2, <3>1, <3>2
  <2>6. ASSUME NEW j \in Top.next..(k - 1) PROVE ~(k <= j) /\ j >= Top.next
    <3>1. k \in Nat /\ Top.next \in Nat
      BY <2>2
    <3>. HIDE DEF Due
    <3>. QED
      BY <3>1
  <2>7. \A j \in Top.next..(k - 1) : Entries[j] = Nobody
    BY <2>4, <2>5, <2>6
  <2>8. IsDue(k)
    BY <2>5, <2>7 DEF IsDue
  <2>. QED
    BY <2>8 DEF EndCommit
<1>5. InnerOvertakes'
  BY <1>3 DEF HeardInv, InnerOvertakes
<1>6. \A s \in Subscribers, p \in Paths :
        /\ Holds(s, p)' = Holds(s, p)
        /\ Up(s, p)' = Up(s, p)
  BY <1>1 DEF Holds, Up
<1>7. QuietHaveHeard'
  <2>. SUFFICES ASSUME NEW s \in Subscribers, NEW p \in Paths \ torn', Holds(s, p), Quiet(p)'
                PROVE  Up(s, p)
    BY <1>6 DEF QuietHaveHeard
  <2>1. CASE Top.path = p
    <3>1. ~Top.overtaken
      BY <1>1, <2>1
    <3>2. Up(s, p) \/ Awaits(Len(stack), s, p)
      BY <1>2, <2>1, <3>1 DEF HeardInv, TellingReaches
    <3>. QED
      BY <1>4, <3>2
  <2>2. CASE Top.path # p
    <3>1. p \in Paths \ torn /\ Quiet(p)
      BY <1>1, <1>2, <1>3, <2>2 DEF Quiet
    <3>. QED
      BY <3>1 DEF HeardInv, QuietHaveHeard
  <2>. QED
    BY <2>1, <2>2
<1>8. TellingReaches'
  <2>. SUFFICES ASSUME NEW s \in Subscribers, NEW p \in Paths, Holds(s, p),
                       NEW i \in DOMAIN stack', stack'[i].path = p, ~stack'[i].overtaken
                PROVE  Up(s, p) \/ Awaits(i, s, p)'
    BY <1>6 DEF TellingReaches
  <2>1. Up(s, p) \/ Awaits(i, s, p)
    BY <1>3 DEF HeardInv, TellingReaches
  <2>. QED
    BY <1>1, <1>3, <2>1 DEF Awaits
<1>. QED
  BY <1>5, <1>7, <1>8

\* A throw tears the paths of what it cuts.
LEMMA ThrowKeepsHeard ==
    ASSUME TypeOK, HeardInv, NEW k \in 0..(Len(stack) - 1), Throw(k)
    PROVE  InnerOvertakes' /\ QuietHaveHeard' /\ TellingReaches'
<1>1. /\ stack # <<>>
      /\ stack' = SubSeq(stack, 1, k)
      /\ torn' = torn \cup {stack[i].path : i \in (k + 1)..Len(stack)}
      /\ UNCHANGED <<values, registry, sets, subscriptions, heard>>
  BY DEF Throw
<1>2. /\ DOMAIN stack' = 1..k
      /\ DOMAIN stack = 1..Len(stack) /\ Len(stack) \in Nat
      /\ \A i \in 1..k : i \in DOMAIN stack /\ stack'[i] = stack[i]
  BY <1>1, FramesArePopped
<1>3. InnerOvertakes'
  BY <1>2 DEF HeardInv, InnerOvertakes
<1>4. \A s \in Subscribers, p \in Paths :
        /\ Holds(s, p)' = Holds(s, p)
        /\ Up(s, p)' = Up(s, p)
  BY <1>1 DEF Holds, Up
<1>5. QuietHaveHeard'
  <2>. SUFFICES ASSUME NEW s \in Subscribers, NEW p \in Paths \ torn', Holds(s, p), Quiet(p)'
                PROVE  Up(s, p)
    BY <1>4 DEF QuietHaveHeard
  <2>1. ASSUME NEW i \in DOMAIN stack PROVE stack[i].path # p
    <3>1. i \in 1..k \/ i \in (k + 1)..Len(stack)
      BY <1>2
    <3>. QED
      BY <1>1, <1>2, <3>1 DEF Quiet
  <2>. QED
    BY <1>1, <2>1 DEF HeardInv, QuietHaveHeard, Quiet
<1>6. TellingReaches'
  <2>. SUFFICES ASSUME NEW s \in Subscribers, NEW p \in Paths, Holds(s, p),
                       NEW i \in DOMAIN stack', stack'[i].path = p, ~stack'[i].overtaken
                PROVE  Up(s, p) \/ Awaits(i, s, p)'
    BY <1>4 DEF TellingReaches
  <2>1. Up(s, p) \/ Awaits(i, s, p)
    BY <1>2 DEF HeardInv, TellingReaches
  <2>. QED
    BY <1>1, <1>2, <2>1 DEF Awaits
<1>. QED
  BY <1>3, <1>5, <1>6

\* Who subscribes reads the value; nobody else is passed over.
LEMMA SubscribeKeepsHeard ==
    ASSUME TypeOK, Ownership, HeardInv, NEW s \in Subscribers, NEW p \in Paths, Subscribe(s, p)
    PROVE  InnerOvertakes' /\ QuietHaveHeard' /\ TellingReaches'
<1>1. /\ UNCHANGED <<values, stack, torn>>
      /\ heard' = [heard EXCEPT ![<<s, p>>] = values[p]]
  BY DEF Subscribe
<1>2. /\ DOMAIN subscriptions' = DOMAIN subscriptions \cup {Len(subscriptions) + 1}
      /\ \A i \in DOMAIN subscriptions : subscriptions'[i] = subscriptions[i]
      /\ subscriptions'[Len(subscriptions) + 1].subscriber = s
      /\ subscriptions'[Len(subscriptions) + 1].path = p
      /\ \A q \in Paths : registry[q] # NoSet \/ q # p => registry'[q] = registry[q]
      /\ \A j \in DOMAIN sets : \A k \in DOMAIN sets[j].entries :
           /\ k \in DOMAIN sets'[j].entries
           /\ sets'[j].entries[k] = sets[j].entries[k]
  BY SubscribeAdds
<1>3. InnerOvertakes'
  BY <1>1 DEF HeardInv, InnerOvertakes
<1>4. Up(s, p)'
  BY <1>1 DEF Up, TypeOK
<1>5. ASSUME NEW r \in Subscribers, NEW q \in Paths, ~(r = s /\ q = p)
      PROVE  (Holds(r, q)' => Holds(r, q)) /\ Up(r, q)' = Up(r, q)
  <2>1. Holds(r, q)' => Holds(r, q)
    BY <1>2, <1>5 DEF Holds
  <2>2. heard'[<<r, q>>] = heard[<<r, q>>]
    <3>1. <<r, q>> \in Subscribers \X Paths /\ <<r, q>> # <<s, p>>
      BY <1>5
    <3>. QED
      BY <1>1, <3>1 DEF TypeOK
  <2>. QED
    BY <1>1, <2>1, <2>2 DEF Up
<1>6. QuietHaveHeard'
  BY <1>1, <1>4, <1>5 DEF HeardInv, QuietHaveHeard, Quiet
<1>7. TellingReaches'
  <2>. SUFFICES ASSUME NEW r \in Subscribers, NEW q \in Paths, Holds(r, q)', ~(r = s /\ q = p),
                       NEW i \in DOMAIN stack, stack[i].path = q, ~stack[i].overtaken
                PROVE  Up(r, q)' \/ Awaits(i, r, q)'
    BY <1>1, <1>4 DEF TellingReaches, Awaits
  <2>1. Up(r, q) \/ Awaits(i, r, q)
    BY <1>5 DEF HeardInv, TellingReaches
  <2>2. ASSUME Awaits(i, r, q) PROVE Awaits(i, r, q)'
    <3>1. registry[q] # NoSet /\ stack[i].set = registry[q] /\ registry[q] \in DOMAIN sets
      BY <2>2 DEF Awaits, TypeOK
    <3>2. registry'[q] = registry[q]
      BY <1>2, <3>1
    <3>. QED
      BY <1>1, <1>2, <2>2, <3>1, <3>2 DEF Awaits
  <2>. QED
    BY <1>5, <2>1, <2>2
<1>. QED
  BY <1>3, <1>6, <1>7

\* Disposing of a subscription hides nobody else from a notification.
LEMMA UnsubscribeKeepsHeard ==
    ASSUME Disciplined, TypeOK, Ownership, HeardInv,
           NEW i \in DOMAIN subscriptions, Unsubscribe(i)
    PROVE  InnerOvertakes' /\ QuietHaveHeard' /\ TellingReaches'
<1>. DEFINE gone == subscriptions[i]
<1>1. UNCHANGED <<values, stack, torn, heard>>
  BY DEF Unsubscribe
<1>2. /\ gone.live
      /\ DOMAIN subscriptions' = DOMAIN subscriptions
      /\ ~subscriptions'[i].live
      /\ \A j \in DOMAIN subscriptions : j # i => subscriptions'[j] = subscriptions[j]
      /\ \A s \in Subscribers, p \in Paths, k \in Nat :
           /\ s # gone.subscriber \/ p # gone.path
           /\ registry[p] # NoSet
           /\ k \in DOMAIN sets[registry[p]].entries
           /\ sets[registry[p]].entries[k] = s
           => /\ registry'[p] = registry[p]
              /\ k \in DOMAIN sets'[registry[p]].entries
              /\ sets'[registry[p]].entries[k] = s
  BY UnsubscribeTakesOne DEF HeardInv
<1>3. InnerOvertakes'
  BY <1>1 DEF HeardInv, InnerOvertakes
<1>4. ASSUME NEW s \in Subscribers, NEW p \in Paths, Holds(s, p)'
      PROVE  Holds(s, p) /\ (s # gone.subscriber \/ p # gone.path)
  <2>1. PICK j \in DOMAIN subscriptions :
          /\ subscriptions'[j].live
          /\ subscriptions'[j].subscriber = s
          /\ subscriptions'[j].path = p
    BY <1>2, <1>4 DEF Holds
  <2>2. j # i /\ subscriptions[j] = subscriptions'[j]
    BY <1>2, <2>1
  <2>. QED
    BY <1>2, <2>1, <2>2 DEF Holds, HeardInv, RegistryInv, HoldsOnce
<1>. HIDE DEF gone
<1>5. QuietHaveHeard'
  BY <1>1, <1>4 DEF HeardInv, QuietHaveHeard, Quiet, Up
<1>6. TellingReaches'
  <2>. SUFFICES ASSUME NEW s \in Subscribers, NEW p \in Paths, Holds(s, p)',
                       NEW j \in DOMAIN stack, stack[j].path = p, ~stack[j].overtaken
                PROVE  Up(s, p)' \/ Awaits(j, s, p)'
    BY <1>1 DEF TellingReaches, Awaits
  <2>1. Up(s, p) \/ Awaits(j, s, p)
    BY <1>4 DEF HeardInv, TellingReaches
  <2>2. ASSUME Awaits(j, s, p) PROVE Awaits(j, s, p)'
    <3>1. stack[j].set = registry[p] /\ registry[p] # NoSet
      BY <2>2 DEF Awaits
    <3>2. PICK k \in DOMAIN sets[registry[p]].entries :
            k >= stack[j].next /\ sets[registry[p]].entries[k] = s
      BY <2>2, <3>1 DEF Awaits
    <3>3. k \in Nat
      <4>1. registry[p] \in DOMAIN sets
        BY <3>1 DEF TypeOK
      <4>2. sets[registry[p]] \in JsSet
        BY <4>1 DEF TypeOK
      <4>. QED
        BY <4>2 DEF JsSet
    <3>4. /\ registry'[p] = registry[p]
          /\ k \in DOMAIN sets'[registry[p]].entries
          /\ sets'[registry[p]].entries[k] = s
      BY <1>2, <1>4, <3>1, <3>2, <3>3
    <3>. QED
      BY <1>1, <3>1, <3>2, <3>4 DEF Awaits
  <2>. QED
    BY <1>1, <2>1, <2>2 DEF Up
<1>. QED
  BY <1>3, <1>5, <1>6

LEMMA HeardInvIsInductive ==
    ASSUME Disciplined, TypeOK, TypeOK', Ownership, DigestInv, HeardInv, [Next]_vars
    PROVE  HeardInv'
<1>1. RegistryInv'
  BY RegistryInvIsInductive DEF HeardInv
<1>. DEFINE Goal == InnerOvertakes' /\ QuietHaveHeard' /\ TellingReaches'
<1>. SUFFICES Goal
  BY <1>1 DEF HeardInv
<1>2. ASSUME NEW p \in Paths, NEW v \in Values, Commit(p, v) PROVE Goal
  BY <1>2, CommitKeepsHeard
<1>3. CASE Call
  BY <1>3, CallKeepsHeard
<1>4. CASE Return
  <2>1. UNCHANGED <<values, registry, sets, subscriptions, heard, torn>>
    BY <1>4 DEF Return
  <2>2. /\ DOMAIN stack' = DOMAIN stack
        /\ \A j \in DOMAIN stack :
             Continues(stack[j], stack'[j]) /\ stack'[j].next = stack[j].next
    BY <1>4, ReturnStays
  <2>3. InnerOvertakes'
    BY <2>2 DEF HeardInv, InnerOvertakes, Continues
  <2>4. QuietHaveHeard'
    BY <2>1, <2>2 DEF HeardInv, QuietHaveHeard, Quiet, Continues, Up, Holds
  <2>5. TellingReaches'
    <3>1. \A s \in Subscribers, p \in Paths : Holds(s, p)' = Holds(s, p) /\ Up(s, p)' = Up(s, p)
      BY <2>1 DEF Holds, Up
    <3>2. \A s \in Subscribers, p \in Paths, j \in DOMAIN stack :
            Awaits(j, s, p) => Awaits(j, s, p)'
      BY <2>1, <2>2 DEF Awaits, Continues
    <3>. QED
      BY <2>2, <3>1, <3>2 DEF HeardInv, TellingReaches, Continues
  <2>. QED
    BY <2>3, <2>4, <2>5
<1>5. CASE EndCommit
  BY <1>5, EndCommitKeepsHeard
<1>6. ASSUME NEW k \in 0..(Len(stack) - 1), Throw(k) PROVE Goal
  BY <1>6, ThrowKeepsHeard
<1>7. ASSUME NEW s \in Subscribers, NEW p \in Paths, Subscribe(s, p) PROVE Goal
  BY <1>7, SubscribeKeepsHeard
<1>8. ASSUME NEW i \in DOMAIN subscriptions, Unsubscribe(i) PROVE Goal
  BY <1>8, UnsubscribeKeepsHeard
<1>9. CASE UNCHANGED vars
  BY <1>9
  DEF vars, HeardInv, InnerOvertakes, QuietHaveHeard, TellingReaches, Quiet, Up, Holds, Awaits
<1>. QED
  BY <1>1, <1>2, <1>3, <1>4, <1>5, <1>6, <1>7, <1>8, <1>9 DEF Next

\* Where hosts subscribe once at a time and dispose once, whoever holds a
\* subscription was told the value of its path whenever no commit is under
\* way, however subscriptions came and went while it was being told.
THEOREM HoldersHaveHeard ==
    ASSUME SubscribesOnce, DisposesOnce
    PROVE  Spec => []EveryHolderHasHeard
<1>. Disciplined
  BY DEF Disciplined
<1>1. Init => Ownership /\ DigestInv /\ HeardInv
  <2>1. Init => Ownership
    BY DEF Init, Ownership, MembersHold, SubscriptionsFit, RegistryFits, FramesFit
  <2>2. Init => DigestInv
    BY DEF Init, DigestInv, FramesTell, Quiet, Tells, NewestIn
  <2>3. Init => HeardInv
    BY DEF Init, HeardInv, RegistryInv, HoldsOnce, HoldersAreRegistered, InnerOvertakes,
           QuietHaveHeard, TellingReaches, Holds
  <2>. QED
    BY <2>1, <2>2, <2>3
<1>2. TypeOK /\ Ownership /\ [Next]_vars => Ownership'
  BY OwnershipIsInductive
<1>3. TypeOK /\ DigestInv /\ [Next]_vars => DigestInv'
  BY DigestInvIsInductive
<1>4. TypeOK /\ TypeOK' /\ Ownership /\ DigestInv /\ HeardInv /\ [Next]_vars => HeardInv'
  BY HeardInvIsInductive
<1>5. HeardInv => EveryHolderHasHeard
  BY DEF HeardInv, QuietHaveHeard, Quiet, Up, EveryHolderHasHeard
<1>. QED
  BY <1>1, <1>2, <1>3, <1>4, <1>5, Tier1TypeCorrect, PTL DEF Spec
=============================================================================
