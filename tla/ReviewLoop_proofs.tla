-------------------------- MODULE ReviewLoop_proofs --------------------------
(***************************************************************************)
(* Proofs about ReviewLoop, for any number of heads, openings and moves,   *)
(* any reading of the meter and any commits that no longer resolve.        *)
(***************************************************************************)
EXTENDS ReviewLoop, CommonLemmas, FiniteSetTheorems

-----------------------------------------------------------------------------
(* The invariant.  It is stated over a record t and a set S of wakes, so   *)
(* that what a run knows can be carried to a longer record.                *)

ChasePcs == {"chase", "chase head", "wake chase", "post chase"}
SendPcs == {"wake", "dispatch", "wake retrospective", "wake substitute"}

\* The event of entry i is a CLEAN.
CleanAt(t, i) == \E e \in codex_result_events(t, Len(t)) : e.at = i /\ e.kind = "clean"

\* No retarget after `on' was on the record when the run last looked.
Subject(t, closed, on) == closed > 0 /\ ~base_retarget_after(t, closed, on)

NoneAfter(t, n, h, on) == \A e \in codex_result_events(t, n) : e.head = h => e.at <= on

IsMarker(e, lane, marks, h, about) ==
    e.via = "marker" /\ e.lane = lane /\ e.marks = marks /\ e.head = h /\ e.about = about

Unposted(t, lane, marks, h, about) ==
    \A i \in 1 .. Len(t) : ~IsMarker(t[i], lane, marks, h, about)

Woken(S, kind, h) == \E w \in S : w.kind = kind /\ w.head = h

Attempts(t, r) == retrospective_chase_attempts(t, r.seen, r.head)

(* Which request goes with which aim, in which leg.                        *)
Placed(r) ==
    /\ r.pc \notin {"idle", "start"} => r.head \in Heads
    /\ r.pc \in {"idle", "start", "pin", "scan", "post skip"} \cup ChasePcs => r.doing = ""
    /\ r.pc = "close" => r.doing \in {"clean_wake", "redelivery"}
    /\ r.pc = "gate" => r.doing = "exhaustion_gate"
    /\ r.pc = "post gate" => r.doing \in {"gate", "exhaustion_gate"}
    /\ r.pc = "check" => r.doing # ""
    /\ r.pc \in {"wake", "dispatch"} =>
         r.doing \in {"clean_wake", "exhaustion_gate", "burn_wake", "redelivery"}
    /\ r.pc = "reread" => r.doing \in {"redelivery", "nudge", "summon", "gate"}
    /\ r.pc \in {"retrospective", "wake retrospective", "receipt"} =>
         r.doing = "exhaustion_gate"
    /\ r.pc = "post nudge" => r.doing = "nudge"
    /\ r.pc \in {"wake substitute", "post summon"} => r.doing = "summon"
    /\ r.pc = "mark" => r.doing = "redelivery"
    /\ r.pc = "pin" => r.leg = "route"
    /\ r.doing \in {"clean_wake", "exhaustion_gate", "burn_wake"} => r.leg = "route"
    /\ r.doing \in {"redelivery", "nudge", "summon", "gate"} => r.leg # "route"
    /\ r.pc \in {"scan", "post skip"} \cup ChasePcs => r.leg # "route"
    /\ r.doing \notin {"redelivery", "nudge", "summon", "gate"} => r.reread = 0

(* A marker to come stands for a wake that was posted.                     *)
Sent(r, t, S) ==
    /\ r.pc = "mark" =>
         \E w \in S : w.kind = "redelivery" /\ w.head = r.head /\ w.on = r.on
    /\ r.pc = "receipt" => Woken(S, "retrospective", r.head)
    /\ r.pc = "post summon" => Woken(S, "summon", r.head)
    /\ (r.pc = "post chase" /\ Attempts(t, r) = 0) => Woken(S, "chase", r.head)

Looked(r, t) ==
    (r.pc # "close" /\ \/ r.doing = "clean_wake"
                       \/ r.doing = "redelivery" /\ CleanAt(t, r.on)) =>
        Subject(t, r.closed, r.on)

Unreviewed(r, t) ==
    r.doing \in {"nudge", "summon", "gate"} =>
        r.head \notin codex_result_heads(t, IF r.pc = "reread" THEN r.seen ELSE r.reread)

Newest(r, t) ==
    r.doing = "redelivery" =>
        IF r.pc \in {"close", "reread"}
          THEN /\ NoneAfter(t, r.seen, r.head, r.on)
               /\ \E e \in codex_result_events(t, r.seen) : e.head = r.head /\ e.at = r.on
          ELSE NoneAfter(t, r.reread, r.head, r.on)

Verdict(t, n, h, on) == \E e \in codex_result_events(t, n) : e.head = h /\ e.at = on

(* A seat may be sent to fix what verdict `on' found at h: it was on a     *)
(* record whose rounds were not spent.                                     *)
Below(t, h, on) ==
    \E n \in 0 .. Len(t) :
        Verdict(t, n, h, on) /\ Cardinality(codex_result_heads(t, n)) < MaxRounds

SendsBack(kind, t, on) == kind = "burn_wake" \/ (kind = "redelivery" /\ ~CleanAt(t, on))

GivenAt(t, h, kind) == \E e \in codex_result_events(t, Len(t)) : e.head = h /\ e.kind = kind

(* What a wake about verdict `on' at h says, a verdict at h said.          *)
Rightly(kind, t, h, on) ==
    /\ SendsBack(kind, t, on) => Below(t, h, on) /\ GivenAt(t, h, "findings")
    /\ kind \in {"exhaustion_gate", "retrospective"} => GivenAt(t, h, "findings")
    /\ (kind = "clean_wake" \/ (kind = "redelivery" /\ CleanAt(t, on))) => GivenAt(t, h, "clean")

(* A CLEAN that a route has not put to the closure tests.                  *)
Unproven(r) == r.doing = "clean_wake" /\ r.pc = "close"

AtBound(r, t) ==
    /\ r.doing \in {"gate", "exhaustion_gate"} =>
         MaxRounds <= Cardinality(codex_result_heads(t, r.seen))
    /\ r.pc = "pin" \/ Unproven(r) => Verdict(t, r.seen, r.head, r.on)
    /\ Unproven(r) => ~HasDigest(t[r.on])
    /\ Unproven(r) \/ Rightly(r.doing, t, r.head, r.on)
    /\ r.leg = "route" => r.on >= 1

Core(r, t, S) ==
    /\ r \in RunsOver(Len(t))
    /\ Placed(r) /\ Sent(r, t, S) /\ Looked(r, t)
    /\ Unreviewed(r, t) /\ Newest(r, t) /\ AtBound(r, t)

(* What a run is about to post its lane has not posted yet.                *)
ScanAims == {"redelivery", "nudge", "summon", "gate"}

About(r) ==
    CASE r.doing = "redelivery" -> r.on [] r.doing = "gate" -> MaxRounds [] OTHER -> 0

Pending(l, r, t) ==
    /\ r.doing \in ScanAims => Unposted(t, l, r.doing, r.head, About(r))
    /\ r.pc = "post gate" => Unposted(t, l, "gate", r.head, MaxRounds)
    /\ r.pc = "post skip" => Unposted(t, l, "skip", r.head, 0)
    /\ r.pc \in ChasePcs =>
         /\ Attempts(t, r) <= 1
         /\ \A i \in r.seen + 1 .. Len(t) : ~(t[i].via = "marker" /\ t[i].lane = l)

Sends(r) == r.pc \in SendPcs => r.live

RunOK(l, r, t, S) == Core(r, t, S) /\ Pending(l, r, t) /\ Sends(r)

Fresh(r, t) ==
    \/ r \in {Idle, Noise, Run("push", 0)}
    \/ \E i \in 1 .. Len(t) : r = Run("route", i)

LanesBut(ls, l, t, S) ==
    /\ ls \in [Lanes -> [run : RunsOver(Len(t)), wait : RunsOver(Len(t))]]
    /\ \A k \in Lanes : Fresh(ls[k].wait, t)
    /\ \A k \in Lanes \ {l} :
         RunOK(k, ls[k].run, t, S) /\ (ls[k].run = Idle => ls[k].wait = Idle)

LanesOK(ls, t, S) ==
    \A l \in Lanes :
        /\ LanesBut(ls, l, t, S)
        /\ RunOK(l, ls[l].run, t, S) /\ (ls[l].run = Idle => ls[l].wait = Idle)

(* What the record says of what was posted.                                *)
MarkOK(m, t, S) ==
    /\ m.reread <= Len(t)
    /\ m.marks = "redelivery" =>
         \E w \in S : w.kind = "redelivery" /\ w.head = m.head /\ w.on = m.about
    /\ m.marks = "summon" => Woken(S, "summon", m.head)
    /\ m.marks = "request" => Woken(S, "retrospective", m.head)
    /\ m.marks = "chase-1" => Woken(S, "chase", m.head)
    /\ m.marks \in {"nudge", "summon", "gate"} => m.head \notin codex_result_heads(t, m.reread)
    /\ m.marks = "gate" => /\ m.about = MaxRounds
                           /\ MaxRounds <= Cardinality(codex_result_heads(t, Len(t)))

MarksOK(t, S) == \A i \in 1 .. Len(t) : t[i].via = "marker" => MarkOK(t[i], t, S)

Once(t) ==
    \A i, j \in 1 .. Len(t) :
        (i # j /\ t[i].via = "marker" /\ t[i].lane \in Lanes) =>
            ~IsMarker(t[j], t[i].lane, t[i].marks, t[i].head, t[i].about)

WakeOK(w, t) ==
    /\ w \in WakesOver(Len(t))
    /\ w.kind # "chase" => w.live
    /\ w.kind \in {"redelivery", "summon"} => w.latest
    /\ (w.kind = "clean_wake" \/ (w.kind = "redelivery" /\ CleanAt(t, w.on))) => w.subject
    /\ Rightly(w.kind, t, w.head, w.on)
    /\ w.kind \in {"exhaustion_gate", "retrospective"} =>
         MaxRounds <= Cardinality(codex_result_heads(t, Len(t)))

WakesOK(t, S) == \A w \in S : WakeOK(w, t)

IInv ==
    /\ TypeOK
    /\ LanesOK(lanes, thread, slack)
    /\ MarksOK(thread, slack) /\ Once(thread) /\ WakesOK(thread, slack)

-----------------------------------------------------------------------------
(* The record: what an entry says is settled by the entry alone.           *)

\* The event, if any, of an entry at position i.
EventsAt(e, i) ==
    {x \in {[at |-> i, head |-> e.head, kind |-> review_kind(e), source |-> "codex"]} : IsReview(e)}
    \cup
    {x \in {[at |-> i, kind |-> "clean", source |-> "codex",
            head |-> IF clean_comment_head(e) # NoHead THEN clean_comment_head(e)
                     ELSE unresolved(clean_comment_commitish(e))]} :
        clean_comment_commitish(e) # NoHead}
    \cup
    {x \in {[at |-> i, head |-> e.head, kind |-> e.arg, source |-> "substitute"]} :
        substitute_accepted(e)}

\* The events of a record are those of its entries (codex_result_events).
LEMMA EventsAreOfEntries ==
    ASSUME NEW t, NEW n, NEW x
    PROVE  x \in codex_result_events(t, n) <=> \E i \in 1 .. n : x \in EventsAt(t[i], i)
BY DEF codex_result_events, EventsAt

Events == [at : Nat, head : Int, kind : {"clean", "findings"}, source : {"codex", "substitute"}]

\* The commit that a comment names is a head of the pull request.
LEMMA CommitOfComment ==
    ASSUME NEW e \in Entries
    PROVE  /\ clean_comment_commitish(e) \in Heads \cup {NoHead}
           /\ clean_comment_commitish(e) # NoHead => e.via = "comment"
           /\ clean_comment_head(e) \in {clean_comment_commitish(e), NoHead}
           /\ clean_comment_head(e) # NoHead => clean_comment_commitish(e) # NoHead
<1>1. ASSUME NEW b \in Bodies
      PROVE  clean_verdict_commitish(b) \in Heads \cup {NoHead}
  <2>1. CASE b = FindingsBody
    <3>1. b.opens # "heading" /\ b.footer = NoHead /\ b.links = {}
      BY <2>1 DEF FindingsBody, Says
    <3>2. permalink_commit(b) = NoHead
      BY <3>1, FS_EmptySet DEF permalink_commit
    <3>. QED
      BY <3>1, <3>2 DEF clean_verdict_commitish, task_verdict_clean_head
  <2>2. CASE b = RefusalBody
    <3>1. b.opens # "heading" /\ b.footer = NoHead /\ b.links = {}
      BY <2>2 DEF RefusalBody, Says
    <3>2. permalink_commit(b) = NoHead
      BY <3>1, FS_EmptySet DEF permalink_commit
    <3>. QED
      BY <3>1, <3>2 DEF clean_verdict_commitish, task_verdict_clean_head
  <2>3. ASSUME NEW h \in Heads, b = ConnectorClean(h)
        PROVE  clean_verdict_commitish(b) \in Heads \cup {NoHead}
    BY <2>3, ReviewAssumption
       DEF ConnectorClean, Says, clean_verdict_commitish, task_verdict_clean_head
  <2>4. ASSUME NEW h \in Heads, b = ExactClean(h)
        PROVE  clean_verdict_commitish(b) \in Heads \cup {NoHead}
    BY <2>4, ReviewAssumption
       DEF ExactClean, Says, clean_verdict_commitish, task_verdict_clean_head, _asserted_sentence
  <2>. QED
    BY <2>1, <2>2, <2>3, <2>4 DEF Bodies
<1>2. e.via = "comment" => e.body \in Bodies
  BY DEF Entries, Unmarked, Pushes, Retargets, Reviews, Remarks, Markers, Marks
<1>. QED
  BY <1>1, <1>2 DEF clean_comment_commitish, clean_comment_head

\* An entry has one event at most, of its position.
LEMMA EventOfEntry ==
    ASSUME NEW e \in Entries, NEW i \in Nat, NEW x \in EventsAt(e, i)
    PROVE  /\ x \in Events /\ x.at = i
           /\ x.head \in 0 - MaxHeads .. MaxHeads
           /\ EventsAt(e, i) = {x}
<1>. USE ReviewAssumption
<1>1. CASE IsReview(e)
  <2>1. e.via = "review" /\ e.head \in Heads
    BY <1>1 DEF IsReview, Entries, Unmarked, Pushes, Retargets, Reviews, Remarks, Markers, Marks
  <2>2. clean_comment_commitish(e) = NoHead /\ ~substitute_accepted(e)
    BY <2>1, CommitOfComment DEF substitute_accepted, substitute_verdict
  <2>3. EventsAt(e, i) =
          {[at |-> i, head |-> e.head, kind |-> review_kind(e), source |-> "codex"]}
    BY <1>1, <2>2 DEF EventsAt
  <2>4. review_kind(e) \in {"clean", "findings"}
    BY DEF review_kind
  <2>. QED
    BY <2>1, <2>3, <2>4 DEF Events, Heads
<1>2. CASE clean_comment_commitish(e) # NoHead
  <2>. DEFINE h == IF clean_comment_head(e) # NoHead THEN clean_comment_head(e)
                   ELSE unresolved(clean_comment_commitish(e))
  <2>1. e.via = "comment"
    BY <1>2, CommitOfComment
  <2>2. ~IsReview(e) /\ ~substitute_accepted(e)
    BY <2>1 DEF substitute_accepted, substitute_verdict, IsReview
  <2>3. EventsAt(e, i) = {[at |-> i, kind |-> "clean", source |-> "codex", head |-> h]}
    BY <1>2, <2>2 DEF EventsAt
  <2>4. h \in 0 - MaxHeads .. MaxHeads
    <3>1. clean_comment_commitish(e) \in Heads
      BY <1>2, CommitOfComment
    <3>2. clean_comment_head(e) # NoHead => clean_comment_head(e) \in Heads
      BY <3>1, CommitOfComment
    <3>. QED
      BY <3>1, <3>2 DEF unresolved, Heads
  <2>. HIDE DEF h
  <2>. QED
    BY <2>3, <2>4 DEF Events
<1>3. CASE substitute_accepted(e)
  <2>1. e.via = "marker" /\ e.head \in Heads /\ e \in Markers
    BY <1>3 DEF substitute_accepted, substitute_verdict, Entries, Unmarked, Pushes, Retargets,
       Reviews, Remarks, Markers, Marks
  <2>2. clean_comment_commitish(e) = NoHead /\ ~IsReview(e)
    BY <2>1, CommitOfComment DEF IsReview
  <2>3. EventsAt(e, i) = {[at |-> i, head |-> e.head, kind |-> e.arg, source |-> "substitute"]}
    BY <1>3, <2>2 DEF EventsAt
  <2>4. e.arg \in {"clean", "findings"}
    BY <1>3, <2>1 DEF substitute_accepted, substitute_verdict, Markers, Marks
  <2>. QED
    BY <2>1, <2>3, <2>4 DEF Events, Heads
<1>. QED
  BY <1>1, <1>2, <1>3 DEF EventsAt

\* Events are positions of the record that was read, each at most once.
LEMMA EventsTyped ==
    ASSUME NEW t \in Seq(Entries), NEW n \in 0 .. Len(t)
    PROVE  \A x \in codex_result_events(t, n) :
             /\ x \in Events /\ x.at \in 1 .. n
             /\ x.head \in 0 - MaxHeads .. MaxHeads
             /\ \A y \in codex_result_events(t, n) : y.at = x.at => y = x
<1>1. ASSUME NEW x \in codex_result_events(t, n)
      PROVE  \E i \in 1 .. n : /\ x \in Events /\ x.at = i
                               /\ x.head \in 0 - MaxHeads .. MaxHeads
                               /\ EventsAt(t[i], i) = {x}
  <2>1. PICK i \in 1 .. n : x \in EventsAt(t[i], i)
    BY EventsAreOfEntries
  <2>2. t[i] \in Entries /\ i \in Nat
    OBVIOUS
  <2>. QED
    BY <2>1, <2>2, EventOfEntry
<1>2. ASSUME NEW x \in codex_result_events(t, n), NEW y \in codex_result_events(t, n),
             y.at = x.at
      PROVE  y = x
  <2>1. PICK i \in 1 .. n : x.at = i /\ EventsAt(t[i], i) = {x}
    BY <1>1
  <2>2. PICK j \in 1 .. n : y.at = j /\ EventsAt(t[j], j) = {y}
    BY <1>1
  <2>. QED
    BY <1>2, <2>1, <2>2
<1>. QED
  BY <1>1, <1>2

\* What was read stays what it was, however the record grows.
LEMMA EventsGrow ==
    ASSUME NEW t \in Seq(Entries), NEW e \in Entries, NEW n \in 0 .. Len(t)
    PROVE  codex_result_events(Append(t, e), n) = codex_result_events(t, n)
<1>1. \A i \in 1 .. n : Append(t, e)[i] = t[i]
  OBVIOUS
<1>2. ASSUME NEW x
      PROVE  x \in codex_result_events(Append(t, e), n) <=> x \in codex_result_events(t, n)
  BY <1>1, EventsAreOfEntries
<1>. QED
  BY <1>2

\* A longer look adds only later events.
LEMMA EventsLater ==
    ASSUME NEW t \in Seq(Entries), NEW m \in 0 .. Len(t), NEW n \in 0 .. m
    PROVE  /\ codex_result_events(t, n) \subseteq codex_result_events(t, m)
           /\ \A x \in codex_result_events(t, m) :
                x.at <= n => x \in codex_result_events(t, n)
<1>1. codex_result_events(t, n) \subseteq codex_result_events(t, m)
  BY EventsAreOfEntries
<1>2. ASSUME NEW x \in codex_result_events(t, m), x.at <= n
      PROVE  x \in codex_result_events(t, n)
  <2>1. PICK i \in 1 .. m : x \in EventsAt(t[i], i)
    BY EventsAreOfEntries
  <2>2. t[i] \in Entries /\ i \in Nat
    OBVIOUS
  <2>3. x.at = i
    BY <2>1, <2>2, EventOfEntry
  <2>4. i \in 1 .. n
    BY <1>2, <2>3
  <2>. QED
    BY <2>1, <2>4, EventsAreOfEntries
<1>. QED
  BY <1>1, <1>2

\* The heads with a result are finitely many, and only grow.
LEMMA HeadsGrow ==
    ASSUME NEW t \in Seq(Entries), NEW m \in 0 .. Len(t), NEW n \in 0 .. m
    PROVE  /\ codex_result_heads(t, n) \subseteq codex_result_heads(t, m)
           /\ IsFiniteSet(codex_result_heads(t, m))
           /\ Cardinality(codex_result_heads(t, n)) \in Nat
           /\ Cardinality(codex_result_heads(t, n)) <= Cardinality(codex_result_heads(t, m))
           /\ \A e \in Entries :
                codex_result_heads(Append(t, e), n) = codex_result_heads(t, n)
<1>1. codex_result_heads(t, n) \subseteq codex_result_heads(t, m)
  BY EventsLater DEF codex_result_heads, result_heads_from_events
<1>2. codex_result_heads(t, m) \subseteq 0 - MaxHeads .. MaxHeads
  BY EventsTyped DEF codex_result_heads, result_heads_from_events
<1>3. IsFiniteSet(0 - MaxHeads .. MaxHeads)
  BY ReviewAssumption, FS_Interval
<1>4. IsFiniteSet(codex_result_heads(t, m))
  BY <1>2, <1>3, FS_Subset
<1>5. /\ Cardinality(codex_result_heads(t, n)) \in Nat
      /\ Cardinality(codex_result_heads(t, n)) <= Cardinality(codex_result_heads(t, m))
  BY <1>1, <1>4, FS_Subset, FS_CardinalityType
<1>6. \A e \in Entries : codex_result_heads(Append(t, e), n) = codex_result_heads(t, n)
  BY EventsGrow DEF codex_result_heads
<1>. QED
  BY <1>1, <1>4, <1>5, <1>6

\* The result that stands at a head is its latest event (latest_result_by_head).
LEMMA LatestResult ==
    ASSUME NEW t \in Seq(Entries), NEW n \in 0 .. Len(t), NEW h
    PROVE  LET won == latest_result_by_head(codex_result_events(t, n), h)
           IN  IF h \in codex_result_heads(t, n)
                 THEN /\ won \in codex_result_events(t, n) /\ won \in Events
                      /\ won.head = h /\ won.at \in 1 .. n
                      /\ \A e \in codex_result_events(t, n) : e.head = h => e.at <= won.at
                 ELSE won = NoResult
<1>. DEFINE mine == {e \in codex_result_events(t, n) : e.head = h}
<1>1. CASE h \in codex_result_heads(t, n)
  <2>1. mine # {}
    BY <1>1 DEF codex_result_heads, result_heads_from_events
  <2>2. \A e \in mine : e.at \in 1 .. n
    BY EventsTyped
  <2>3. {e.at : e \in mine} \in SUBSET (1 .. n) /\ {e.at : e \in mine} # {}
    BY <2>1, <2>2
  <2>4. n \in Nat
    OBVIOUS
  <2>5. PICK a \in {e.at : e \in mine} : \A b \in {e.at : e \in mine} : b <= a
    BY <2>3, <2>4, Greatest
  <2>6. \E e \in mine : \A f \in mine : f.at <= e.at
    BY <2>5
  <2>7. latest_result_by_head(codex_result_events(t, n), h)
          = CHOOSE e \in mine : \A f \in mine : f.at <= e.at
    BY <2>1 DEF latest_result_by_head
  <2>. QED
    BY <1>1, <2>6, <2>7, EventsTyped
<1>2. CASE h \notin codex_result_heads(t, n)
  BY <1>2 DEF latest_result_by_head, codex_result_heads, result_heads_from_events
<1>. QED
  BY <1>1, <1>2

\* A head has a result exactly if its latest is one.
LEMMA NoResultIsNone ==
    ASSUME NEW t \in Seq(Entries), NEW n \in 0 .. Len(t), NEW h
    PROVE  latest_result_by_head(codex_result_events(t, n), h) = NoResult
             <=> h \notin codex_result_heads(t, n)
<1>1. NoResult \notin Events
  BY ReviewAssumption DEF Events
<1>. QED
  BY <1>1, LatestResult

\* What stands at a head is the entry of its latest event
\* (standing_verdict_time against latest_result_by_head).
LEMMA StandingIsLatest ==
    ASSUME NEW t \in Seq(Entries), NEW n \in 0 .. Len(t), NEW h \in Heads,
           h \in codex_result_heads(t, n)
    PROVE  standing_verdict_time(t, n, h)
             = latest_result_by_head(codex_result_events(t, n), h).at
<1>. DEFINE won == latest_result_by_head(codex_result_events(t, n), h)
            stamps == exact_head_codex_reviews(t, n, h)
                      \cup {i \in 1 .. n : clean_comment_head(t[i]) = h}
                      \cup {i \in 1 .. n : substitute_accepted(t[i]) /\ t[i].head = h}
<1>1. /\ won \in codex_result_events(t, n) /\ won.head = h /\ won.at \in 1 .. n
      /\ \A e \in codex_result_events(t, n) : e.head = h => e.at <= won.at
  BY LatestResult
<1>2. ASSUME NEW i \in stamps
      PROVE  \E e \in codex_result_events(t, n) : e.at = i /\ e.head = h
  <2>1. i \in 1 .. n
    BY DEF exact_head_codex_reviews
  <2>2. t[i] \in Entries
    BY <2>1
  <2>3. h # NoHead
    BY ReviewAssumption
  <2>4. \E x \in EventsAt(t[i], i) : x.at = i /\ x.head = h
    <3>1. CASE IsReview(t[i]) /\ t[i].head = h
      <4>1. [at |-> i, head |-> h, kind |-> review_kind(t[i]), source |-> "codex"]
              \in EventsAt(t[i], i)
        BY <3>1 DEF EventsAt
      <4>. QED
        BY <4>1
    <3>2. CASE clean_comment_head(t[i]) = h
      <4>1. clean_comment_commitish(t[i]) # NoHead
        BY <2>2, <2>3, <3>2, CommitOfComment
      <4>2. [at |-> i, kind |-> "clean", source |-> "codex", head |-> h] \in EventsAt(t[i], i)
        BY <2>3, <3>2, <4>1 DEF EventsAt
      <4>. QED
        BY <4>2
    <3>3. CASE substitute_accepted(t[i]) /\ t[i].head = h
      <4>1. [at |-> i, head |-> h, kind |-> t[i].arg, source |-> "substitute"]
              \in EventsAt(t[i], i)
        BY <3>3 DEF EventsAt
      <4>. QED
        BY <4>1
    <3>. QED
      BY <3>1, <3>2, <3>3 DEF exact_head_codex_reviews
  <2>. QED
    BY <2>1, <2>4, EventsAreOfEntries
<1>3. won.at \in stamps
  <2>1. PICK i \in 1 .. n : won \in EventsAt(t[i], i)
    BY <1>1, EventsAreOfEntries
  <2>2. t[i] \in Entries /\ i \in Nat
    OBVIOUS
  <2>3. won.at = i
    BY <2>1, <2>2, EventOfEntry
  <2>4. CASE IsReview(t[i])
    <3>1. [at |-> i, head |-> t[i].head, kind |-> review_kind(t[i]), source |-> "codex"]
            \in EventsAt(t[i], i)
      BY <2>4 DEF EventsAt
    <3>2. t[i].head = h
      BY <1>1, <2>1, <2>2, <3>1, EventOfEntry
    <3>. QED
      BY <2>3, <2>4, <3>2 DEF exact_head_codex_reviews
  <2>5. CASE clean_comment_commitish(t[i]) # NoHead
    <3>. DEFINE g == IF clean_comment_head(t[i]) # NoHead THEN clean_comment_head(t[i])
                     ELSE unresolved(clean_comment_commitish(t[i]))
    <3>1. [at |-> i, kind |-> "clean", source |-> "codex", head |-> g] \in EventsAt(t[i], i)
      BY <2>5 DEF EventsAt
    <3>2. won = [at |-> i, kind |-> "clean", source |-> "codex", head |-> g]
      BY <2>1, <2>2, <3>1, EventOfEntry
    <3>3. g = h
      BY <1>1, <3>2
    <3>4. clean_comment_commitish(t[i]) \in Heads
      BY <2>2, <2>5, CommitOfComment
    <3>5. clean_comment_head(t[i]) # NoHead
      BY <3>3, <3>4, ReviewAssumption DEF unresolved, Heads
    <3>. QED
      BY <2>3, <3>3, <3>5
  <2>6. CASE substitute_accepted(t[i])
    <3>1. [at |-> i, head |-> t[i].head, kind |-> t[i].arg, source |-> "substitute"]
            \in EventsAt(t[i], i)
      BY <2>6 DEF EventsAt
    <3>2. t[i].head = h
      BY <1>1, <2>1, <2>2, <3>1, EventOfEntry
    <3>. QED
      BY <2>3, <2>6, <3>2
  <2>. QED
    BY <2>1, <2>4, <2>5, <2>6 DEF EventsAt
<1>4. stamps \subseteq 1 .. n
  BY DEF exact_head_codex_reviews
<1>. HIDE DEF won
<1>5. \A j \in stamps : j <= won.at
  BY <1>1, <1>2
<1>6. Latest(stamps) = won.at
  <2>1. \A i \in stamps : (\A j \in stamps : j <= i) => i = won.at
    BY <1>1, <1>3, <1>4, <1>5
  <2>. HIDE DEF stamps
  <2>. QED
    BY <1>3, <1>5, <2>1 DEF Latest
<1>7. standing_verdict_time(t, n, h) = Latest(stamps)
  BY <1>3 DEF standing_verdict_time
<1>. QED
  BY <1>6, <1>7 DEF won

\* The markers that were read stay what they were.
LEMMA MarkersGrow ==
    ASSUME NEW t \in Seq(Entries), NEW e \in Entries, NEW n \in 0 .. Len(t)
    PROVE  /\ \A marks, h : Marked(Append(t, e), n, marks, h) = Marked(t, n, marks, h)
           /\ \A h : retrospective_chase_attempts(Append(t, e), n, h)
                       = retrospective_chase_attempts(t, n, h)
           /\ \A v : base_retarget_after(Append(t, e), n, v) <=> base_retarget_after(t, n, v)
<1>1. \A i \in 1 .. n : Append(t, e)[i] = t[i]
  OBVIOUS
<1>2. \A marks, h : Marked(Append(t, e), n, marks, h) = Marked(t, n, marks, h)
  BY <1>1 DEF Marked
<1>3. \A v : base_retarget_after(Append(t, e), n, v) <=> base_retarget_after(t, n, v)
  BY <1>1 DEF base_retarget_after
<1>. QED
  BY <1>2, <1>3 DEF retrospective_chase_attempts, marker_comment_exists

\* Whether an entry is a CLEAN does not change.
LEMMA CleanAtGrows ==
    ASSUME NEW t \in Seq(Entries), NEW e \in Entries, NEW i \in 0 .. Len(t)
    PROVE  CleanAt(Append(t, e), i) <=> CleanAt(t, i)
<1>. DEFINE u == Append(t, e)
<1>1. u \in Seq(Entries) /\ Len(u) = Len(t) + 1 /\ Len(t) \in 0 .. Len(u) /\ Len(u) \in 0 .. Len(u)
  OBVIOUS
<1>2. codex_result_events(u, Len(t)) = codex_result_events(t, Len(t))
  BY EventsGrow
<1>. HIDE DEF u
<1>3. /\ codex_result_events(u, Len(t)) \subseteq codex_result_events(u, Len(u))
      /\ \A x \in codex_result_events(u, Len(u)) :
           x.at <= Len(t) => x \in codex_result_events(u, Len(t))
  BY <1>1, EventsLater
<1>4. i <= Len(t)
  OBVIOUS
<1>5. CleanAt(u, i) <=> CleanAt(t, i)
  BY <1>2, <1>3, <1>4 DEF CleanAt
<1>. QED
  BY <1>5 DEF u

\* What was below the bound stays so, and the rounds spent stay spent.
LEMMA RoundsGrow ==
    ASSUME NEW t \in Seq(Entries), NEW e \in Entries
    PROVE  /\ \A h, on : Below(t, h, on) => Below(Append(t, e), h, on)
           /\ MaxRounds <= Cardinality(codex_result_heads(t, Len(t))) =>
                MaxRounds <= Cardinality(codex_result_heads(Append(t, e), Len(Append(t, e))))
<1>. DEFINE u == Append(t, e)
<1>1. /\ u \in Seq(Entries) /\ Len(t) \in 0 .. Len(u) /\ Len(u) \in 0 .. Len(u)
      /\ Len(t) \in 0 .. Len(t) /\ 0 .. Len(t) \subseteq 0 .. Len(u)
  OBVIOUS
<1>2. \A n \in 0 .. Len(t) : /\ codex_result_events(u, n) = codex_result_events(t, n)
                             /\ codex_result_heads(u, n) = codex_result_heads(t, n)
  BY EventsGrow DEF codex_result_heads
<1>. HIDE DEF u
<1>3. ASSUME NEW h, NEW on, Below(t, h, on) PROVE Below(u, h, on)
  BY <1>1, <1>2, <1>3 DEF Below, Verdict
<1>4. /\ Cardinality(codex_result_heads(t, Len(t))) \in Nat
      /\ Cardinality(codex_result_heads(t, Len(t))) <= Cardinality(codex_result_heads(u, Len(u)))
      /\ Cardinality(codex_result_heads(u, Len(u))) \in Nat
  BY <1>1, <1>2, HeadsGrow
<1>5. \A a, b, c \in Nat : a <= b /\ b <= c => a <= c
  OBVIOUS
<1>6. MaxRounds \in Nat
  BY BeltAssumption
<1>. QED
  BY <1>3, <1>4, <1>5, <1>6 DEF u

\* What a verdict said it still says.
LEMMA RightlyGrows ==
    ASSUME NEW t \in Seq(Entries), NEW e \in Entries, NEW kind, NEW h, NEW on \in 0 .. Len(t),
           Rightly(kind, t, h, on)
    PROVE  Rightly(kind, Append(t, e), h, on)
<1>. DEFINE u == Append(t, e)
<1>1. /\ u \in Seq(Entries)
      /\ Len(t) \in 0 .. Len(u) /\ Len(u) \in 0 .. Len(u) /\ Len(t) \in 0 .. Len(t)
  OBVIOUS
<1>2. codex_result_events(t, Len(t)) \subseteq codex_result_events(u, Len(u))
  <2>1. codex_result_events(u, Len(t)) = codex_result_events(t, Len(t))
    BY <1>1, EventsGrow
  <2>2. codex_result_events(u, Len(t)) \subseteq codex_result_events(u, Len(u))
    <3>. HIDE DEF u
    <3>. QED
      BY <1>1, EventsLater
  <2>. QED
    BY <2>1, <2>2
<1>3. CleanAt(u, on) <=> CleanAt(t, on)
  BY CleanAtGrows
<1>4. Below(t, h, on) => Below(u, h, on)
  BY RoundsGrow
<1>. HIDE DEF u
<1>5. \A k : GivenAt(t, h, k) => GivenAt(u, h, k)
  BY <1>2 DEF GivenAt
<1>6. Rightly(kind, u, h, on)
  BY <1>3, <1>4, <1>5 DEF Rightly, SendsBack
<1>. QED
  BY <1>6 DEF u

-----------------------------------------------------------------------------
(* What a run knows holds of a longer record.                              *)

\* A run over a record is one over a longer record.
LEMMA RunsGrow ==
    ASSUME NEW m \in Nat, NEW n \in 0 .. m
    PROVE  RunsOver(n) \subseteq RunsOver(m) /\ WakesOver(n) \subseteq WakesOver(m)
<1>1. 0 .. n \subseteq 0 .. m
  OBVIOUS
<1>2. ASSUME NEW r \in RunsOver(n) PROVE r \in RunsOver(m)
  BY <1>1 DEF RunsOver
<1>3. ASSUME NEW w \in WakesOver(n) PROVE w \in WakesOver(m)
  BY <1>1 DEF WakesOver
<1>. QED
  BY <1>2, <1>3

\* Another entry, and more wakes, leave what a run knows.
LEMMA CoreGrows ==
    ASSUME NEW t \in Seq(Entries), NEW e \in Entries, NEW S, NEW S2, S \subseteq S2,
           NEW r, Core(r, t, S)
    PROVE  Core(r, Append(t, e), S2)
<1>. DEFINE u == Append(t, e)
<1>0. Len(t) \in Nat /\ Len(u) = Len(t) + 1 /\ Len(t) \in 0 .. Len(u) /\ Len(u) \in Nat
  OBVIOUS
<1>1. r \in RunsOver(Len(t))
  BY DEF Core
<1>2. /\ r.on \in 0 .. Len(t) /\ r.seen \in 0 .. Len(t)
      /\ r.reread \in 0 .. Len(t) /\ r.closed \in 0 .. Len(t)
  BY <1>1 DEF RunsOver
<1>3. r \in RunsOver(Len(u))
  BY <1>0, <1>1, RunsGrow
<1>4. /\ codex_result_events(u, r.seen) = codex_result_events(t, r.seen)
      /\ codex_result_events(u, r.reread) = codex_result_events(t, r.reread)
      /\ codex_result_heads(u, r.seen) = codex_result_heads(t, r.seen)
      /\ codex_result_heads(u, r.reread) = codex_result_heads(t, r.reread)
  BY <1>2, EventsGrow DEF codex_result_heads
<1>5. Attempts(u, r) = Attempts(t, r)
  BY <1>2, MarkersGrow DEF Attempts
<1>6. CleanAt(u, r.on) <=> CleanAt(t, r.on)
  BY <1>2, CleanAtGrows
<1>7. Subject(u, r.closed, r.on) <=> Subject(t, r.closed, r.on)
  BY <1>2, MarkersGrow DEF Subject
<1>70. Rightly(r.doing, t, r.head, r.on) => Rightly(r.doing, u, r.head, r.on)
  BY <1>2, RightlyGrows
<1>71. Unproven(r) => u[r.on] = t[r.on]
  <2>1. Unproven(r) => r.on >= 1
    BY DEF Core, Placed, AtBound, Unproven
  <2>2. \A i \in 1 .. Len(t) : u[i] = t[i]
    OBVIOUS
  <2>. QED
    BY <1>2, <2>1, <2>2
<1>. HIDE DEF u
<1>8. Sent(r, u, S2)
  BY <1>5 DEF Core, Sent, Woken
<1>9. Looked(r, u)
  BY <1>6, <1>7 DEF Core, Looked
<1>10. Unreviewed(r, u) /\ Newest(r, u)
  BY <1>4 DEF Core, Unreviewed, Newest, NoneAfter
<1>12. AtBound(r, u)
  BY <1>4, <1>70, <1>71 DEF Core, AtBound, Verdict
<1>11. Core(r, u, S2)
  BY <1>3, <1>8, <1>9, <1>10, <1>12 DEF Core
<1>. QED
  BY <1>11 DEF u

\* More wakes leave what a run knows.
LEMMA CoreMore ==
    ASSUME NEW t, NEW S, NEW S2, S \subseteq S2, NEW r, Core(r, t, S)
    PROVE  Core(r, t, S2)
BY DEF Core, Sent, Woken

\* What a lane has not posted it has not posted when another posts.
LEMMA PendingGrows ==
    ASSUME NEW t \in Seq(Entries), NEW e \in Entries, NEW l, NEW r \in RunsOver(Len(t)),
           Pending(l, r, t), e.via = "marker" => e.lane # l
    PROVE  Pending(l, r, Append(t, e))
<1>. DEFINE u == Append(t, e)
<1>0. Len(t) \in Nat /\ Len(u) = Len(t) + 1 /\ u[Len(u)] = e /\ \A i \in 1 .. Len(t) : u[i] = t[i]
  OBVIOUS
<1>1. r.seen \in 0 .. Len(t)
  BY DEF RunsOver
<1>2. Attempts(u, r) = Attempts(t, r)
  BY <1>1, MarkersGrow DEF Attempts
<1>3. \A i \in 1 .. Len(u) : i \in 1 .. Len(t) \/ i = Len(u)
  BY <1>0
<1>. HIDE DEF u
<1>4. ASSUME NEW marks, NEW h, NEW about, Unposted(t, l, marks, h, about)
      PROVE  Unposted(u, l, marks, h, about)
  BY <1>0, <1>3, <1>4 DEF Unposted, IsMarker
<1>5. ASSUME \A i \in r.seen + 1 .. Len(t) : ~(t[i].via = "marker" /\ t[i].lane = l)
      PROVE  \A i \in r.seen + 1 .. Len(u) : ~(u[i].via = "marker" /\ u[i].lane = l)
  <2>1. \A i \in r.seen + 1 .. Len(u) : i \in r.seen + 1 .. Len(t) \/ i = Len(u)
    BY <1>0, <1>1
  <2>2. \A i \in r.seen + 1 .. Len(t) : i \in 1 .. Len(t)
    BY <1>0, <1>1
  <2>. QED
    BY <1>0, <1>5, <2>1, <2>2
<1>6. /\ r.doing \in ScanAims => Unposted(u, l, r.doing, r.head, About(r))
      /\ r.pc = "post gate" => Unposted(u, l, "gate", r.head, MaxRounds)
      /\ r.pc = "post skip" => Unposted(u, l, "skip", r.head, 0)
  BY <1>4 DEF Pending
<1>7. Pending(l, r, u)
  BY <1>2, <1>5, <1>6 DEF Pending
<1>. QED
  BY <1>7 DEF u

\* A record with one entry more.
LEMMA Appended ==
    ASSUME NEW t \in Seq(Entries), NEW e \in Entries
    PROVE  /\ Len(t) \in Nat /\ Len(Append(t, e)) = Len(t) + 1
           /\ Append(t, e)[Len(t) + 1] = e
           /\ \A i \in 1 .. Len(t) : Append(t, e)[i] = t[i] /\ t[i] \in Entries
           /\ \A i \in 1 .. Len(t) + 1 : i \in 1 .. Len(t) \/ i = Len(t) + 1
           /\ Append(t, e) \in Seq(Entries)
OBVIOUS

\* A marker leaves the aims of its own lane that are not about it.
LEMMA PendingPosts ==
    ASSUME NEW t \in Seq(Entries), NEW e \in Entries, NEW l, NEW r \in RunsOver(Len(t)),
           r.doing \in ScanAims => Pending(l, r, t) /\ e.marks # r.doing,
           r.pc \notin ChasePcs \cup {"post gate", "post skip"}
    PROVE  Pending(l, r, Append(t, e))
<1>. DEFINE u == Append(t, e)
<1>0. /\ Len(t) \in Nat /\ Len(u) = Len(t) + 1
      /\ u[Len(t) + 1] = e /\ \A i \in 1 .. Len(t) : u[i] = t[i]
      /\ \A i \in 1 .. Len(t) + 1 : i \in 1 .. Len(t) \/ i = Len(t) + 1
  BY Appended
<1>. HIDE DEF u
<1>4. ASSUME NEW about, r.doing \in ScanAims, Unposted(t, l, r.doing, r.head, about)
      PROVE  Unposted(u, l, r.doing, r.head, about)
  BY <1>0, <1>4 DEF Unposted, IsMarker
<1>6. r.doing \in ScanAims => Unposted(u, l, r.doing, r.head, About(r))
  BY <1>4 DEF Pending
<1>7. Pending(l, r, u)
  BY <1>6 DEF Pending
<1>. QED
  BY <1>7 DEF u

-----------------------------------------------------------------------------
(* The lanes.                                                              *)

\* A run that has not started.
LEMMA NewRun ==
    ASSUME NEW n \in Nat, NEW leg \in Legs, NEW on \in 0 .. n
    PROVE  Run(leg, on) \in RunsOver(n) /\ Run(leg, on) # Idle
<1>1. Run(leg, on) \in RunsOver(n)
  <2>1. 0 \in 0 .. MaxHeads /\ 0 \in 0 .. n
    BY ReviewAssumption
  <2>2. "start" \in Requests /\ "" \in Aims
    BY DEF Requests, Aims
  <2>. QED
    BY <2>1, <2>2 DEF Run, RunsOver
<1>2. Run(leg, on).pc = "start" /\ Idle.pc = "idle"
  BY DEF Idle, At, Run
<1>. QED
  BY <1>1, <1>2

\* Idle is a run that knows nothing.
LEMMA IdleRun ==
    ASSUME NEW n \in Nat
    PROVE  /\ Idle \in RunsOver(n) /\ Idle # Noise
           /\ Idle.leg = "" /\ Idle.on = 0 /\ Idle.pc = "idle" /\ Idle.doing = "" /\ Idle.head = 0
           /\ Idle.seen = 0 /\ Idle.base = "" /\ Idle.live = TRUE
           /\ Idle.reread = 0 /\ Idle.closed = 0
<1>0. "" \in Legs /\ "noise" \in Legs /\ "idle" \in Requests /\ 0 \in 0 .. n
  BY DEF Legs, Requests
<1>1. Run("", 0) \in RunsOver(n) /\ Noise # Idle
  BY <1>0, NewRun DEF Noise
<1>2. Idle \in RunsOver(n)
  BY <1>0, <1>1 DEF Idle, At, RunsOver
<1>4. /\ Idle.leg = "" /\ Idle.on = 0 /\ Idle.pc = "idle" /\ Idle.doing = "" /\ Idle.head = 0
      /\ Idle.seen = 0 /\ Idle.base = "" /\ Idle.live = TRUE
      /\ Idle.reread = 0 /\ Idle.closed = 0
  BY DEF Idle, At, Run
<1>. QED
  BY <1>1, <1>2, <1>4

\* A run that has not started knows nothing.
LEMMA FreshIsOK ==
    ASSUME NEW t \in Seq(Entries), NEW r, Fresh(r, t), NEW l, NEW S
    PROVE  r \in RunsOver(Len(t)) /\ RunOK(l, r, t, S)
<1>0. Len(t) \in Nat
  OBVIOUS
<1>1. /\ "noise" \in Legs /\ "push" \in Legs /\ "route" \in Legs /\ 0 \in 0 .. Len(t)
      /\ \A i \in 1 .. Len(t) : i \in 0 .. Len(t)
  BY <1>0 DEF Legs
<1>2. r \in RunsOver(Len(t))
  BY <1>0, <1>1, NewRun, IdleRun DEF Fresh, Noise
<1>6. /\ r.pc \in {"start", "idle"} /\ r.doing = "" /\ r.reread = 0
       /\ (r.leg = "route" => r.on >= 1)
  <2>1. CASE r = Idle
    BY <2>1 DEF Idle, At, Run
  <2>2. CASE r = Noise
    BY <2>2 DEF Noise, Run
  <2>3. CASE r = Run("push", 0)
    BY <2>3 DEF Run
  <2>4. ASSUME NEW i \in 1 .. Len(t), r = Run("route", i)
        PROVE  r.on >= 1 /\ r.pc = "start" /\ r.doing = "" /\ r.reread = 0
    <3>1. r.on = i /\ r.pc = "start" /\ r.doing = "" /\ r.reread = 0
      BY <2>4 DEF Run
    <3>2. i >= 1
      BY <1>0
    <3>. QED
      BY <3>1, <3>2
  <2>. QED
    BY <2>1, <2>2, <2>3, <2>4 DEF Fresh
<1>3. Placed(r) /\ Sent(r, t, S) /\ Looked(r, t)
  BY <1>6 DEF Placed, Sent, Looked, ChasePcs
<1>4. Unreviewed(r, t) /\ Newest(r, t) /\ AtBound(r, t)
  BY <1>6 DEF Unreviewed, Newest, AtBound, Unproven, Rightly, SendsBack
<1>5. Pending(l, r, t) /\ Sends(r)
  BY <1>6 DEF Pending, ScanAims, ChasePcs, Sends, SendPcs
<1>. QED
  BY <1>2, <1>3, <1>4, <1>5 DEF RunOK, Core

\* A waiting run still waits on a longer record.
LEMMA FreshGrows ==
    ASSUME NEW t \in Seq(Entries), NEW e \in Entries, NEW r, Fresh(r, t)
    PROVE  Fresh(r, Append(t, e))
<1>1. \A i \in 1 .. Len(t) : i \in 1 .. Len(Append(t, e))
  OBVIOUS
<1>. QED
  BY <1>1 DEF Fresh

\* The lanes on a longer record, with more wakes.
LEMMA LanesGrow ==
    ASSUME NEW t \in Seq(Entries), NEW e \in Entries, NEW S, NEW S2, S \subseteq S2,
           NEW ls, LanesOK(ls, t, S), NEW l \in Lanes,
           e.via = "marker" => e.lane \in {l, "seat"}
    PROVE  /\ LanesBut(ls, l, Append(t, e), S2)
           /\ (e.via = "marker" => e.lane # l) => LanesOK(ls, Append(t, e), S2)
<1>. DEFINE u == Append(t, e)
<1>1. u \in Seq(Entries) /\ Len(t) \in 0 .. Len(u) /\ Len(u) \in Nat
  OBVIOUS
<1>2. ls \in [Lanes -> [run : RunsOver(Len(t)), wait : RunsOver(Len(t))]]
  BY DEF LanesOK, LanesBut
<1>3. RunsOver(Len(t)) \subseteq RunsOver(Len(u))
  BY <1>1, RunsGrow
<1>4. ls \in [Lanes -> [run : RunsOver(Len(u)), wait : RunsOver(Len(u))]]
  BY <1>2, <1>3
<1>5. \A k \in Lanes : Fresh(ls[k].wait, u)
  BY FreshGrows DEF LanesOK, LanesBut
<1>6. ASSUME NEW k \in Lanes, e.via = "marker" => e.lane # k
      PROVE  RunOK(k, ls[k].run, u, S2) /\ (ls[k].run = Idle => ls[k].wait = Idle)
  <2>1. RunOK(k, ls[k].run, t, S) /\ (ls[k].run = Idle => ls[k].wait = Idle)
    BY DEF LanesOK
  <2>2. ls[k].run \in RunsOver(Len(t))
    BY <1>2
  <2>3. Core(ls[k].run, u, S2)
    BY <2>1, CoreGrows DEF RunOK
  <2>4. Pending(k, ls[k].run, u)
    BY <1>6, <2>1, <2>2, PendingGrows DEF RunOK
  <2>. QED
    BY <2>1, <2>3, <2>4 DEF RunOK
<1>. HIDE DEF u
<1>7. LanesBut(ls, l, u, S2)
  <2>1. \A k \in Lanes \ {l} : e.via = "marker" => e.lane # k
    BY DEF Lanes
  <2>. QED
    BY <1>4, <1>5, <1>6, <2>1 DEF LanesBut
<1>8. (e.via = "marker" => e.lane # l) => LanesOK(ls, u, S2)
  <2>1. SUFFICES ASSUME e.via = "marker" => e.lane # l PROVE LanesOK(ls, u, S2)
    OBVIOUS
  <2>2. \A k \in Lanes : e.via = "marker" => e.lane # k
    BY <2>1 DEF Lanes
  <2>. QED
    BY <1>4, <1>5, <1>6, <2>2 DEF LanesBut, LanesOK
<1>. QED
  BY <1>7, <1>8 DEF u

\* The lanes with more wakes.
LEMMA LanesMore ==
    ASSUME NEW t \in Seq(Entries), NEW S, NEW S2, S \subseteq S2, NEW ls, LanesOK(ls, t, S)
    PROVE  LanesOK(ls, t, S2)
BY CoreMore DEF LanesOK, LanesBut, RunOK

\* The waiting run starts when the one before it is done.
LEMMA FinishOK ==
    ASSUME NEW t \in Seq(Entries), NEW S, NEW ls, NEW l \in Lanes, LanesBut(ls, l, t, S)
    PROVE  LanesOK(Finish(ls, l), t, S)
<1>. DEFINE w == ls[l].wait
            next == IF w = Noise THEN Idle ELSE w
            new == Finish(ls, l)
<1>1. Fresh(w, t) /\ Fresh(Idle, t) /\ Fresh(next, t)
  BY DEF LanesBut, Fresh
<1>2. next \in RunsOver(Len(t)) /\ Idle \in RunsOver(Len(t)) /\ RunOK(l, next, t, S)
  BY <1>1, FreshIsOK
<1>3. new = [ls EXCEPT ![l] = [run |-> next, wait |-> Idle]]
  BY DEF Finish
<1>4. ls \in [Lanes -> [run : RunsOver(Len(t)), wait : RunsOver(Len(t))]]
  BY DEF LanesBut
<1>. HIDE DEF new, next, w
<1>5. /\ new \in [Lanes -> [run : RunsOver(Len(t)), wait : RunsOver(Len(t))]]
      /\ new[l].run = next /\ new[l].wait = Idle
      /\ \A k \in Lanes \ {l} : new[k] = ls[k]
  BY <1>2, <1>3, <1>4
<1>6. LanesOK(new, t, S)
  BY <1>1, <1>2, <1>5 DEF LanesOK, LanesBut
<1>. QED
  BY <1>6 DEF new

\* A run goes on.
LEMMA PutOK ==
    ASSUME NEW t \in Seq(Entries), NEW S, NEW ls, NEW l \in Lanes, LanesBut(ls, l, t, S),
           NEW r, r # Idle, RunOK(l, r, t, S)
    PROVE  LanesOK([ls EXCEPT ![l] = [ls[l] EXCEPT !.run = r]], t, S)
<1>. DEFINE new == [ls EXCEPT ![l] = [ls[l] EXCEPT !.run = r]]
<1>1. r \in RunsOver(Len(t))
  BY DEF RunOK, Core
<1>2. ls \in [Lanes -> [run : RunsOver(Len(t)), wait : RunsOver(Len(t))]]
  BY DEF LanesBut
<1>3. /\ new \in [Lanes -> [run : RunsOver(Len(t)), wait : RunsOver(Len(t))]]
      /\ new[l].run = r /\ new[l].wait = ls[l].wait
      /\ \A k \in Lanes \ {l} : new[k] = ls[k]
  BY <1>1, <1>2
<1>. HIDE DEF new
<1>4. LanesOK(new, t, S)
  BY <1>3 DEF LanesOK, LanesBut
<1>. QED
  BY <1>4 DEF new

\* An event starts a run, or takes the waiting place.
LEMMA EnqueueOK ==
    ASSUME NEW t \in Seq(Entries), NEW S, NEW ls, NEW l \in Lanes, LanesOK(ls, t, S),
           NEW r, Fresh(r, t), r # Idle
    PROVE  LanesOK(Enqueue(ls, l, r), t, S)
<1>1. r \in RunsOver(Len(t)) /\ RunOK(l, r, t, S)
  BY FreshIsOK
<1>2. CASE ls[l].run # Idle
  <2>. DEFINE new == [ls EXCEPT ![l] = [ls[l] EXCEPT !.wait = r]]
  <2>1. Enqueue(ls, l, r) = new
    BY <1>2 DEF Enqueue
  <2>2. ls \in [Lanes -> [run : RunsOver(Len(t)), wait : RunsOver(Len(t))]]
    BY DEF LanesOK, LanesBut
  <2>3. /\ new \in [Lanes -> [run : RunsOver(Len(t)), wait : RunsOver(Len(t))]]
        /\ new[l].run = ls[l].run /\ new[l].wait = r
        /\ \A k \in Lanes \ {l} : new[k] = ls[k]
    BY <1>1, <2>2
  <2>. HIDE DEF new
  <2>. QED
    BY <1>2, <2>1, <2>3 DEF LanesOK, LanesBut
<1>3. CASE ls[l].run = Idle /\ r # Noise
  <2>1. Enqueue(ls, l, r) = [ls EXCEPT ![l] = [ls[l] EXCEPT !.run = r]]
    BY <1>3 DEF Enqueue
  <2>2. LanesBut(ls, l, t, S)
    BY DEF LanesOK

  <2>3. LanesOK([ls EXCEPT ![l] = [ls[l] EXCEPT !.run = r]], t, S)
    BY <1>1, <2>2, PutOK
  <2>. QED
    BY <2>1, <2>3
<1>4. CASE ls[l].run = Idle /\ r = Noise
  BY <1>4 DEF Enqueue
<1>. QED
  BY <1>2, <1>3, <1>4

-----------------------------------------------------------------------------
(* What the record says holds of a longer one.                             *)

\* What a marker says is not undone by later entries and wakes.
LEMMA MarkGrows ==
    ASSUME NEW t \in Seq(Entries), NEW e \in Entries, NEW S, NEW S2, S \subseteq S2,
           NEW m, m.reread \in Nat, MarkOK(m, t, S)
    PROVE  MarkOK(m, Append(t, e), S2)
<1>. DEFINE u == Append(t, e)
<1>1. Len(t) \in Nat /\ Len(u) = Len(t) + 1 /\ u \in Seq(Entries)
  BY Appended
<1>2. m.reread \in 0 .. Len(t) /\ Len(t) \in 0 .. Len(t) /\ Len(t) \in 0 .. Len(u)
      /\ Len(u) \in 0 .. Len(u)
  BY <1>1 DEF MarkOK
<1>3. codex_result_heads(u, m.reread) = codex_result_heads(t, m.reread)
  BY <1>2, HeadsGrow
<1>4. codex_result_heads(u, Len(t)) = codex_result_heads(t, Len(t))
  BY <1>2, HeadsGrow
<1>. HIDE DEF u
<1>5. /\ Cardinality(codex_result_heads(u, Len(t))) \in Nat
      /\ Cardinality(codex_result_heads(u, Len(u))) \in Nat
      /\ Cardinality(codex_result_heads(u, Len(t))) <= Cardinality(codex_result_heads(u, Len(u)))
  BY <1>1, <1>2, HeadsGrow
<1>6. MaxRounds <= Cardinality(codex_result_heads(t, Len(t)))
        => MaxRounds <= Cardinality(codex_result_heads(u, Len(u)))
  BY <1>4, <1>5, BeltAssumption
<1>7. MarkOK(m, u, S2)
  BY <1>1, <1>2, <1>3, <1>6 DEF MarkOK, Woken
<1>. QED
  BY <1>7 DEF u

\* A wake stands when the record grows.
LEMMA WakeGrows ==
    ASSUME NEW t \in Seq(Entries), NEW e \in Entries, NEW w, WakeOK(w, t)
    PROVE  WakeOK(w, Append(t, e))
<1>. DEFINE u == Append(t, e)
<1>1. Len(t) \in 0 .. Len(u) /\ Len(u) \in Nat
  BY Appended
<1>2. w \in WakesOver(Len(t))
  BY DEF WakeOK
<1>3. w.on \in 0 .. Len(t)
  BY <1>2 DEF WakesOver
<1>4. w \in WakesOver(Len(u))
  BY <1>1, <1>2, RunsGrow
<1>5. CleanAt(u, w.on) <=> CleanAt(t, w.on)
  BY <1>3, CleanAtGrows
<1>7. /\ Rightly(w.kind, t, w.head, w.on) => Rightly(w.kind, u, w.head, w.on)
      /\ MaxRounds <= Cardinality(codex_result_heads(t, Len(t))) =>
           MaxRounds <= Cardinality(codex_result_heads(u, Len(u)))
  BY <1>3, RoundsGrow, RightlyGrows
<1>. HIDE DEF u
<1>6. WakeOK(w, u)
  BY <1>4, <1>5, <1>7 DEF WakeOK
<1>. QED
  BY <1>6 DEF u

\* An entry that is no marker, or says what it may, leaves the record in order.
LEMMA RecordGrows ==
    ASSUME NEW t \in Seq(Entries), NEW e \in Entries, NEW S,
           MarksOK(t, S), Once(t), WakesOK(t, S),
           e.via = "marker" => /\ MarkOK(e, t, S)
                               /\ e.lane \in Lanes => Unposted(t, e.lane, e.marks, e.head, e.about)
    PROVE  MarksOK(Append(t, e), S) /\ Once(Append(t, e)) /\ WakesOK(Append(t, e), S)
<1>. DEFINE u == Append(t, e)
<1>1. /\ Len(t) \in Nat /\ Len(u) = Len(t) + 1 /\ u[Len(t) + 1] = e
      /\ \A i \in 1 .. Len(t) : u[i] = t[i] /\ t[i] \in Entries
      /\ \A i \in 1 .. Len(t) + 1 : i \in 1 .. Len(t) \/ i = Len(t) + 1
      /\ u \in Seq(Entries)
  BY Appended
<1>2. \A m \in Entries : m.via = "marker" => m.reread \in Nat
  BY DEF Entries, Unmarked, Pushes, Retargets, Reviews, Remarks, Markers, Marks
<1>3. \A m \in Entries : m.via = "marker" /\ MarkOK(m, t, S) => MarkOK(m, u, S)
  BY <1>2, MarkGrows
<1>4. WakesOK(u, S)
  BY WakeGrows DEF WakesOK
<1>. HIDE DEF u
<1>5. MarksOK(u, S)
  BY <1>1, <1>3 DEF MarksOK
<1>6. Once(u)
  <2>1. SUFFICES ASSUME NEW i \in 1 .. Len(u), NEW j \in 1 .. Len(u), i # j,
                        u[i].via = "marker", u[i].lane \in Lanes,
                        IsMarker(u[j], u[i].lane, u[i].marks, u[i].head, u[i].about)
                 PROVE  FALSE
    BY DEF Once
  <2>2. CASE i \in 1 .. Len(t) /\ j \in 1 .. Len(t)
    BY <1>1, <2>1, <2>2 DEF Once
  <2>3. CASE i = Len(t) + 1 /\ j \in 1 .. Len(t)
    BY <1>1, <2>1, <2>3 DEF Unposted
  <2>4. CASE i \in 1 .. Len(t) /\ j = Len(t) + 1
    <3>1. e.via = "marker" /\ IsMarker(t[i], e.lane, e.marks, e.head, e.about) /\ e.lane \in Lanes
      BY <1>1, <2>1, <2>4 DEF IsMarker
    <3>. QED
      BY <2>4, <3>1 DEF Unposted
  <2>. QED
    BY <1>1, <2>1, <2>2, <2>3, <2>4
<1>. QED
  BY <1>4, <1>5, <1>6 DEF u

\* The lanes of the invariant are lanes.
LEMMA LanesTyped ==
    ASSUME NEW ls, NEW t, NEW S, LanesOK(ls, t, S)
    PROVE  /\ ls \in [Lanes -> [run : RunsOver(Len(t)), wait : RunsOver(Len(t))]]
           /\ \A l \in Lanes : ls[l].run = Idle => ls[l].wait = Idle
<1>1. "push" \in Lanes
  BY DEF Lanes
<1>. QED
  BY <1>1 DEF LanesOK, LanesBut

\* A run goes on with what it knows, or ends (Goes).
LEMMA GoesOK ==
    ASSUME NEW t \in Seq(Entries), NEW S, NEW l \in Lanes, LanesBut(lanes, l, t, S),
           open \in BOOLEAN, NEW r,
           r # Idle => /\ r.pc # "idle" /\ Core(r, t, S) /\ Pending(l, r, t)
                       /\ r.pc \in SendPcs => Live(r.head)
    PROVE  LanesOK(Goes(l, r), t, S)
<1>1. CASE r = Idle
  BY <1>1, FinishOK DEF Goes
<1>2. CASE r # Idle
  <2>. DEFINE live == Live(r.head)
              s == [r EXCEPT !.live = live]
  <2>1. live \in BOOLEAN
    BY DEF Live
  <2>2. r \in RunsOver(Len(t))
    BY <1>2 DEF Core
  <2>. HIDE DEF live
  <2>3. /\ s \in RunsOver(Len(t))
        /\ s.leg = r.leg /\ s.on = r.on /\ s.pc = r.pc /\ s.doing = r.doing /\ s.head = r.head
        /\ s.seen = r.seen /\ s.reread = r.reread /\ s.closed = r.closed /\ s.live = live
    BY <2>1, <2>2 DEF RunsOver
  <2>. HIDE DEF s
  <2>4. Placed(s) /\ Sent(s, t, S)
    <3>1. Placed(s)
      BY <1>2, <2>3 DEF Core, Placed
    <3>2. Sent(s, t, S)
      BY <1>2, <2>3 DEF Core, Sent, Attempts
    <3>. QED
      BY <3>1, <3>2
  <2>5. Looked(s, t) /\ Unreviewed(s, t)
    BY <1>2, <2>3 DEF Core, Looked, Unreviewed
  <2>6. Newest(s, t) /\ AtBound(s, t)
    BY <1>2, <2>3 DEF Core, Newest, AtBound, Unproven
  <2>7. Pending(l, s, t)
    BY <1>2, <2>3 DEF Pending, Attempts, About
  <2>8. Sends(s)
    BY <1>2, <2>3 DEF Sends, live
  <2>9. RunOK(l, s, t, S)
    BY <2>3, <2>4, <2>5, <2>6, <2>7, <2>8 DEF RunOK, Core
  <2>10. s # Idle
    <3>1. Idle.pc = "idle"
      BY DEF Idle, At, Run
    <3>. QED
      BY <1>2, <2>3, <3>1
  <2>11. LanesOK([lanes EXCEPT ![l] = [lanes[l] EXCEPT !.run = s]], t, S)
    BY <2>9, <2>10, PutOK
  <2>12. Goes(l, r) = [lanes EXCEPT ![l] = [lanes[l] EXCEPT !.run = s]]
    BY <1>2 DEF Goes, s, live
  <2>. QED
    BY <2>11, <2>12
<1>. QED
  BY <1>1, <1>2

-----------------------------------------------------------------------------
(* The requests: each keeps the invariant, if the run goes on with what it *)
(* knows and what it posts is so.                                          *)

GoesOn(r, l, t, S) ==
    r # Idle => /\ r.pc # "idle" /\ Core(r, t, S) /\ Pending(l, r, t)
                /\ r.pc \in SendPcs => Live(r.head)

GoesOnAfter(marks, r, l, t, S) ==
    r # Idle => /\ r.pc \notin {"idle", "post gate", "post skip"} \cup ChasePcs \cup SendPcs
                /\ Core(r, t, S)
                /\ r.doing \in ScanAims => Pending(l, r, t) /\ marks # r.doing

MayPost(m, t, S) ==
    m \in Markers /\ MarkOK(m, t, S) /\ Unposted(t, m.lane, m.marks, m.head, m.about)

MayWake(kind, r, t) ==
    /\ kind \in {"clean_wake", "exhaustion_gate", "burn_wake", "redelivery", "summon",
                "retrospective", "chase"}
    /\ r.head \in Heads
    /\ kind # "chase" => r.live
    /\ kind \in {"redelivery", "summon"} => NoneAfter(t, r.reread, r.head, r.on)
    /\ (kind = "clean_wake" \/ (kind = "redelivery" /\ CleanAt(t, r.on))) =>
         Subject(t, r.closed, r.on)
    /\ Rightly(kind, t, r.head, r.on)
    /\ kind \in {"exhaustion_gate", "retrospective"} =>
         MaxRounds <= Cardinality(codex_result_heads(t, Len(t)))

GoesOnAwake(r, l, t, S) ==
    r # Idle => /\ r.pc \notin {"idle"} \cup SendPcs
                /\ Core(r, t, S) /\ Pending(l, r, t)

\* A request that reads.
LEMMA ReadsStep ==
    ASSUME IInv, NEW l \in Lanes, NEW r, Reads(l, r), GoesOn(r, l, thread, slack)
    PROVE  IInv'
<1>1. /\ UNCHANGED thread /\ UNCHANGED slack /\ UNCHANGED told /\ UNCHANGED head
      /\ UNCHANGED open /\ UNCHANGED base /\ UNCHANGED lapsed /\ UNCHANGED moves
      /\ lanes' = Goes(l, r)
  BY DEF Reads, Still
<1>2. LanesBut(lanes, l, thread, slack) /\ thread \in Seq(Entries) /\ open \in BOOLEAN
  BY DEF IInv, LanesOK, TypeOK
<1>3. LanesOK(lanes', thread, slack)
  BY <1>1, <1>2, GoesOK DEF GoesOn
<1>4. /\ lanes' \in [Lanes -> [run : RunsOver(Len(thread)), wait : RunsOver(Len(thread))]]
      /\ \A k \in Lanes : lanes'[k].run = Idle => lanes'[k].wait = Idle
  BY <1>3, LanesTyped
<1>5. TypeOK'
  BY <1>1, <1>4 DEF IInv, TypeOK, Now
<1>. QED
  BY <1>1, <1>3, <1>5 DEF IInv

\* A request that posts a marker.
LEMMA CommentsStep ==
    ASSUME IInv, NEW l \in Lanes, NEW marks, NEW arg, NEW about, NEW r,
           Comments(l, marks, arg, about, r),
           MayPost(Marker(marks, lanes[l].run.head, arg, about, l, lanes[l].run.reread),
                   thread, slack),
           GoesOnAfter(marks, r, l, thread, slack)
    PROVE  IInv'
<1>. DEFINE m == Marker(marks, lanes[l].run.head, arg, about, l, lanes[l].run.reread)
            t == thread
<1>1. /\ UNCHANGED slack /\ UNCHANGED told /\ UNCHANGED head
      /\ UNCHANGED open /\ UNCHANGED base /\ UNCHANGED lapsed /\ UNCHANGED moves
      /\ lanes' = Echo(l, Goes(l, r)) /\ thread' = Append(t, m)
  BY DEF Comments, Still
<1>2. /\ m \in Entries /\ m.via = "marker" /\ m.lane = l /\ m.marks = marks /\ m.about = about
      /\ m.head = lanes[l].run.head
  BY DEF Marker, Entries, MayPost
<1>3. /\ t \in Seq(Entries) /\ open \in BOOLEAN /\ LanesOK(lanes, t, slack)
      /\ MarksOK(t, slack) /\ Once(t) /\ WakesOK(t, slack)
  BY DEF IInv, TypeOK
<1>4. MarkOK(m, t, slack) /\ Unposted(t, m.lane, m.marks, m.head, m.about)
  BY DEF MayPost
<1>. HIDE DEF m
<1>5. MarksOK(thread', slack) /\ Once(thread') /\ WakesOK(thread', slack)
  <2>1. m.via = "marker" =>
            /\ MarkOK(m, t, slack)
            /\ m.lane \in Lanes => Unposted(t, m.lane, m.marks, m.head, m.about)
    BY <1>4
  <2>. QED
    BY <1>1, <1>2, <1>3, <2>1, RecordGrows
<1>6. LanesBut(lanes, l, thread', slack)
  BY <1>1, <1>2, <1>3, LanesGrow
<1>7. r # Idle => /\ r.pc # "idle" /\ Core(r, thread', slack) /\ Pending(l, r, thread')
                  /\ r.pc \in SendPcs => Live(r.head)
  <2>1. SUFFICES ASSUME r # Idle
                 PROVE  /\ r.pc # "idle" /\ Core(r, thread', slack) /\ Pending(l, r, thread')
                        /\ r.pc \notin SendPcs
    OBVIOUS
  <2>2. Core(r, t, slack) /\ r \in RunsOver(Len(t))
    BY <2>1 DEF Core, GoesOnAfter
  <2>3. Core(r, thread', slack)
    BY <1>1, <1>2, <1>3, <2>2, CoreGrows
  <2>4. Pending(l, r, Append(t, m))
    BY <1>2, <1>3, <2>1, <2>2, PendingPosts DEF GoesOnAfter
  <2>. QED
    BY <1>1, <2>1, <2>3, <2>4 DEF GoesOnAfter
<1>8. /\ thread' \in Seq(Entries) /\ Len(t) \in Nat /\ Len(thread') = Len(t) + 1
      /\ Len(t) \in 0 .. Len(thread')
  BY <1>1, <1>2, <1>3, Appended
<1>9. LanesOK(Goes(l, r), thread', slack)
  BY <1>3, <1>6, <1>7, <1>8, GoesOK
<1>10. LanesOK(lanes', thread', slack)
  <2>1. "verdict" \in Lanes /\ Fresh(Noise, thread')
    BY DEF Lanes, Fresh
  <2>2. Noise # Idle
    BY IdleRun
  <2>3. LanesOK(Enqueue(Goes(l, r), "verdict", Noise), thread', slack)
    BY <1>8, <1>9, <2>1, <2>2, EnqueueOK
  <2>. QED
    BY <1>1, <1>9, <2>3 DEF Echo
<1>11. TypeOK'
  <2>1. /\ lanes' \in [Lanes -> [run : RunsOver(Len(thread')), wait : RunsOver(Len(thread'))]]
        /\ \A k \in Lanes : lanes'[k].run = Idle => lanes'[k].wait = Idle
    BY <1>10, LanesTyped
  <2>2. WakesOver(Len(t)) \subseteq WakesOver(Len(thread'))
    BY <1>8, RunsGrow
  <2>3. /\ slack \subseteq WakesOver(Len(t)) /\ lapsed \in 0 .. Len(t)
        /\ told \in [Heads -> 0 .. Len(t)]
        /\ head \in Heads /\ open \in BOOLEAN /\ base \in Bases /\ moves \in 0 .. MaxMoves
    BY DEF IInv, TypeOK, Now
  <2>4. 0 .. Len(t) \subseteq 0 .. Len(thread')
    BY <1>8
  <2>. HIDE DEF t
  <2>5. lapsed \in 0 .. Len(thread') /\ told \in [Heads -> 0 .. Len(thread')]
    BY <2>3, <2>4
  <2>. QED
    BY <1>1, <1>8, <2>1, <2>2, <2>3, <2>5 DEF TypeOK, Now
<1>. QED
  BY <1>1, <1>5, <1>10, <1>11 DEF IInv

\* A request that posts to Slack.
LEMMA WakesStep ==
    ASSUME IInv, NEW l \in Lanes, NEW kind, NEW r, Wakes(l, kind, r),
           MayWake(kind, lanes[l].run, thread), GoesOnAwake(r, l, thread, slack'),
           told' \in [Heads -> 0 .. Len(thread)]
    PROVE  IInv'
<1>. DEFINE mine == lanes[l].run
            newer == {e \in codex_result_events(thread, mine.reread) :
                        e.head = mine.head /\ e.at > mine.on}
            subject == mine.closed > 0 /\ ~base_retarget_after(thread, mine.closed, mine.on)
            w == [kind |-> kind, head |-> mine.head, on |-> mine.on, live |-> mine.live,
                  latest |-> newer = {}, subject |-> subject]
<1>0. /\ kind \in {"clean_wake", "exhaustion_gate", "burn_wake", "redelivery", "summon",
                  "retrospective", "chase"}
      /\ mine.head \in Heads
      /\ kind # "chase" => mine.live
      /\ kind \in {"redelivery", "summon"} => NoneAfter(thread, mine.reread, mine.head, mine.on)
  BY DEF MayWake
<1>1. /\ UNCHANGED thread /\ UNCHANGED head /\ UNCHANGED open /\ UNCHANGED base
      /\ UNCHANGED lapsed /\ UNCHANGED moves
      /\ lanes' = Goes(l, r) /\ slack' = slack \cup {w}
  BY DEF Wakes, Still
<1>2. /\ thread \in Seq(Entries) /\ open \in BOOLEAN /\ LanesOK(lanes, thread, slack)
      /\ MarksOK(thread, slack) /\ Once(thread) /\ WakesOK(thread, slack)
      /\ lanes \in [Lanes -> [run : RunsOver(Len(thread)), wait : RunsOver(Len(thread))]]
  BY DEF IInv, TypeOK, Now
<1>3. mine \in RunsOver(Len(thread))
  BY <1>2
<1>4. mine.on \in 0 .. Len(thread) /\ mine.live \in BOOLEAN /\ mine.reread \in 0 .. Len(thread)
  BY <1>3 DEF RunsOver
<1>5. kind \in {"redelivery", "summon"} => newer = {}
  <2>1. SUFFICES ASSUME kind \in {"redelivery", "summon"}, NEW e \in newer PROVE FALSE
    OBVIOUS
  <2>2. e.at \in Nat /\ e.at <= mine.on
    BY <1>0, <1>2, <1>4, <2>1, EventsTyped DEF NoneAfter
  <2>. QED
    BY <1>4, <2>2
<1>6. (newer = {}) \in BOOLEAN /\ subject \in BOOLEAN
  OBVIOUS
<1>7. (kind = "clean_wake" \/ (kind = "redelivery" /\ CleanAt(thread, mine.on))) => subject
  BY DEF Subject, MayWake
<1>70. /\ Rightly(kind, thread, mine.head, mine.on)
       /\ kind \in {"exhaustion_gate", "retrospective"} =>
            MaxRounds <= Cardinality(codex_result_heads(thread, Len(thread)))
  BY DEF MayWake
<1>. HIDE DEF newer, subject
<1>8. w \in WakesOver(Len(thread))
  BY <1>0, <1>4, <1>6 DEF WakesOver
<1>9. WakeOK(w, thread)
  <2>1. /\ w.kind = kind /\ w.on = mine.on /\ w.live = mine.live /\ w.head = mine.head
        /\ w.latest = (newer = {}) /\ w.subject = subject
    OBVIOUS
  <2>. HIDE DEF w, mine
  <2>2. w.kind # "chase" => w.live
    BY <1>0, <2>1
  <2>3. w.kind \in {"redelivery", "summon"} => w.latest
    BY <1>5, <2>1
  <2>4. (w.kind = "clean_wake" \/ (w.kind = "redelivery" /\ CleanAt(thread, w.on))) => w.subject
    BY <1>7, <2>1
  <2>5. /\ Rightly(w.kind, thread, w.head, w.on)
        /\ w.kind \in {"exhaustion_gate", "retrospective"} =>
             MaxRounds <= Cardinality(codex_result_heads(thread, Len(thread)))
    BY <1>70, <2>1
  <2>. QED
    BY <1>8, <2>2, <2>3, <2>4, <2>5 DEF WakeOK
<1>. HIDE DEF w, mine
<1>10. MarksOK(thread, slack') /\ WakesOK(thread, slack')
  <2>1. slack \subseteq slack'
    BY <1>1
  <2>2. \A m : MarkOK(m, thread, slack) => MarkOK(m, thread, slack')
    BY <2>1 DEF MarkOK, Woken
  <2>. QED
    BY <1>1, <1>2, <1>9, <2>2 DEF MarksOK, WakesOK
<1>11. LanesOK(lanes', thread, slack')
  <2>1. LanesOK(lanes, thread, slack')
    BY <1>1, <1>2, LanesMore
  <2>2. LanesBut(lanes, l, thread, slack')
    BY <2>1 DEF LanesOK
  <2>. QED
    BY <1>1, <1>2, <2>2, GoesOK DEF GoesOnAwake
<1>12. TypeOK'
  <2>1. /\ lanes' \in [Lanes -> [run : RunsOver(Len(thread)), wait : RunsOver(Len(thread))]]
        /\ \A k \in Lanes : lanes'[k].run = Idle => lanes'[k].wait = Idle
    BY <1>11, LanesTyped
  <2>2. slack' \subseteq WakesOver(Len(thread))
    BY <1>1, <1>8 DEF IInv, TypeOK, Now
  <2>. QED
    BY <1>1, <2>1, <2>2 DEF IInv, TypeOK, Now
<1>. QED
  BY <1>1, <1>2, <1>10, <1>11, <1>12 DEF IInv

-----------------------------------------------------------------------------
(* People, reviewers and GitHub.                                           *)

\* A step that leaves the record.
LEMMA QuietStep ==
    ASSUME IInv, UNCHANGED thread, UNCHANGED slack, UNCHANGED told,
           LanesOK(lanes', thread, slack), head' \in Heads, open' \in BOOLEAN, base' \in Bases,
           lapsed' \in 0 .. Len(thread), moves' \in 0 .. MaxMoves
    PROVE  IInv'
<1>1. /\ lanes' \in [Lanes -> [run : RunsOver(Len(thread)), wait : RunsOver(Len(thread))]]
      /\ \A k \in Lanes : lanes'[k].run = Idle => lanes'[k].wait = Idle
  BY LanesTyped
<1>2. TypeOK'
  BY <1>1 DEF IInv, TypeOK, Now
<1>. QED
  BY <1>2 DEF IInv

\* A step that adds an entry of people, reviewers or GitHub.
LEMMA EntryStep ==
    ASSUME IInv, NEW e \in Entries, thread' = Append(thread, e),
           e.via = "marker" => e.lane = "seat" /\ MarkOK(e, thread, slack),
           UNCHANGED slack, UNCHANGED told, UNCHANGED lapsed,
           LanesOK(lanes', thread', slack), head' \in Heads, open' \in BOOLEAN, base' \in Bases,
           moves' \in 0 .. MaxMoves
    PROVE  IInv'
<1>1. /\ thread \in Seq(Entries) /\ MarksOK(thread, slack) /\ Once(thread) /\ WakesOK(thread, slack)
      /\ lapsed \in 0 .. Len(thread) /\ told \in [Heads -> 0 .. Len(thread)]
      /\ slack \subseteq WakesOver(Len(thread))
  BY DEF IInv, TypeOK, Now
<1>2. MarksOK(thread', slack) /\ Once(thread') /\ WakesOK(thread', slack)
  <2>1. "seat" \notin Lanes
    BY DEF Lanes
  <2>2. e.via = "marker" =>
          /\ MarkOK(e, thread, slack)
          /\ e.lane \in Lanes => Unposted(thread, e.lane, e.marks, e.head, e.about)
    BY <2>1
  <2>. QED
    BY <1>1, <2>2, RecordGrows
<1>3. /\ thread' \in Seq(Entries) /\ Len(thread) \in Nat /\ Len(thread') = Len(thread) + 1
  BY <1>1, Appended
<1>4. Len(thread) \in 0 .. Len(thread') /\ Len(thread') \in Nat
      /\ 0 .. Len(thread) \subseteq 0 .. Len(thread')
  BY <1>3
<1>5. /\ lanes' \in [Lanes -> [run : RunsOver(Len(thread')), wait : RunsOver(Len(thread'))]]
      /\ \A k \in Lanes : lanes'[k].run = Idle => lanes'[k].wait = Idle
  BY LanesTyped
<1>6. slack \subseteq WakesOver(Len(thread'))
  BY <1>1, <1>4, RunsGrow
<1>7. lapsed \in 0 .. Len(thread') /\ told \in [Heads -> 0 .. Len(thread')]
  BY <1>1, <1>4
<1>8. TypeOK'
  BY <1>3, <1>5, <1>6, <1>7 DEF TypeOK, Now
<1>. QED
  BY <1>2, <1>8 DEF IInv

\* An entry that raises an event in a lane.
LEMMA HappensStep ==
    ASSUME IInv, NEW e \in Entries, NEW lane \in Lanes, NEW r, Happens(e, lane, r),
           e.via = "marker" => e.lane = "seat" /\ MarkOK(e, thread, slack),
           Fresh(r, Append(thread, e)), r # Idle,
           head' \in Heads, open' \in BOOLEAN, base' \in Bases
    PROVE  IInv'
<1>1. /\ thread' = Append(thread, e) /\ lanes' = Enqueue(lanes, lane, r)
      /\ UNCHANGED slack /\ UNCHANGED told /\ UNCHANGED lapsed
      /\ moves < MaxMoves /\ moves' = moves + 1
  BY DEF Happens, Moves
<1>2. /\ thread \in Seq(Entries) /\ LanesOK(lanes, thread, slack) /\ moves \in 0 .. MaxMoves
  BY DEF IInv, TypeOK
<1>3. moves' \in 0 .. MaxMoves
  BY <1>1, <1>2, ReviewAssumption
<1>4. e.via = "marker" => e.lane \in {lane, "seat"} /\ e.lane # lane
  BY DEF Lanes
<1>5. LanesOK(lanes, thread', slack)
  BY <1>1, <1>2, <1>4, LanesGrow
<1>6. thread' \in Seq(Entries)
  BY <1>1, <1>2, Appended
<1>7. LanesOK(lanes', thread', slack)
  BY <1>1, <1>5, <1>6, EnqueueOK
<1>. QED
  BY <1>1, <1>3, <1>7, EntryStep

\* A push makes the next head.
LEMMA NextHead ==
    ASSUME NEW h \in Heads, h < MaxHeads
    PROVE  h + 1 \in Heads
<1>1. MaxHeads \in Nat
  BY ReviewAssumption
<1>. QED
  BY <1>1 DEF Heads

\* What people, reviewers and GitHub write are entries of the record.
LEMMA EntriesWritten ==
    ASSUME NEW h \in Heads
    PROVE  /\ \A arg \in {"", "skip"} : [via |-> "push", head |-> h, arg |-> arg] \in Entries
           /\ \A b \in Bases : [via |-> "base", arg |-> b] \in Entries
           /\ \A b \in Bodies, s \in Seq(Nat) :
                [via |-> "review", by |-> Codex, head |-> h, body |-> b, badges |-> s] \in Entries
           /\ \A b \in Bodies : [via |-> "comment", by |-> Codex, body |-> b] \in Entries
<1>1. \A arg \in {"", "skip"} : [via |-> "push", head |-> h, arg |-> arg] \in Entries
  BY DEF Entries, Unmarked, Pushes
<1>2. \A b \in Bases : [via |-> "base", arg |-> b] \in Entries
  BY DEF Entries, Unmarked, Retargets
<1>3. \A b \in Bodies, s \in Seq(Nat) :
        [via |-> "review", by |-> Codex, head |-> h, body |-> b, badges |-> s] \in Entries
  BY DEF Entries, Unmarked, Reviews
<1>4. \A b \in Bodies : [via |-> "comment", by |-> Codex, body |-> b] \in Entries
  BY DEF Entries, Unmarked, Remarks
<1>. QED
  BY <1>1, <1>2, <1>3, <1>4

\* Environment keeps the invariant.
LEMMA EnvironmentKeeps ==
    ASSUME IInv, Environment
    PROVE  IInv'
<1>. DEFINE next == Len(thread) + 1
<1>0. /\ thread \in Seq(Entries) /\ LanesOK(lanes, thread, slack) /\ head \in Heads
      /\ open \in BOOLEAN /\ base \in Bases /\ moves \in 0 .. MaxMoves
      /\ lapsed \in 0 .. Len(thread)
  BY DEF IInv, TypeOK, Now
<1>01. Moves => moves' \in 0 .. MaxMoves
  BY <1>0, ReviewAssumption DEF Moves
<1>02. \A e \in Entries : /\ Fresh(Run("push", 0), Append(thread, e))
                               /\ Fresh(Noise, Append(thread, e))
                          /\ Fresh(Run("route", next), Append(thread, e))
  <2>1. \A e \in Entries : next \in 1 .. Len(Append(thread, e))
    BY <1>0, Appended
  <2>. HIDE DEF next
  <2>. QED
    BY <2>1 DEF Fresh
<1>03. /\ Run("push", 0) # Idle /\ Noise # Idle /\ Run("route", next) # Idle
       /\ "push" \in Lanes /\ "verdict" \in Lanes
  <2>1. Run("push", 0).pc = "start" /\ Run("route", next).pc = "start" /\ Idle.pc = "idle"
    BY DEF Run, Idle, At
  <2>. QED
    BY <2>1, IdleRun DEF Lanes
<1>. HIDE DEF next
<1>1. CASE push
  <2>1. PICK arg \in {"", "skip"} :
          /\ head < MaxHeads /\ head' = head + 1 /\ UNCHANGED <<open, base>>
          /\ Happens([via |-> "push", head |-> head + 1, arg |-> arg], "push", Run("push", 0))
    BY <1>1 DEF push
  <2>2. head + 1 \in Heads
    <3>1. head < MaxHeads
      BY <2>1
    <3>. QED
      BY <1>0, <3>1, NextHead
  <2>. DEFINE e == [via |-> "push", head |-> head + 1, arg |-> arg]
  <2>3. e \in Entries /\ e.via # "marker"
    BY <2>2, EntriesWritten
  <2>. HIDE DEF e
  <2>4. Happens(e, "push", Run("push", 0))
    BY <2>1 DEF e
  <2>5. head' \in Heads /\ open' \in BOOLEAN /\ base' \in Bases
    BY <1>0, <2>1, <2>2
  <2>. QED
    BY <1>02, <1>03, <2>3, <2>4, <2>5, HappensStep
<1>2. CASE submit_review
  <2>1. PICK h \in UnderReview, says \in {<<FindingsBody, <<1>>>>, <<FindingsBody, <<>>>>,
                                          <<ExactClean(head), <<>>>>} :
          /\ UNCHANGED <<head, open, base>>
          /\ Happens([via |-> "review", by |-> Codex, head |-> h, body |-> says[1],
                      badges |-> says[2]], "verdict", Run("route", Now + 1))
    BY <1>2 DEF submit_review
  <2>. DEFINE e == [via |-> "review", by |-> Codex, head |-> h, body |-> says[1],
                    badges |-> says[2]]
  <2>2. h \in Heads /\ says[1] \in Bodies /\ says[2] \in Seq(Nat)
    <3>1. /\ FindingsBody \in Bodies /\ ExactClean(head) \in Bodies /\ h \in Heads
          /\ <<1>> \in Seq(Nat) /\ <<>> \in Seq(Nat)
      BY <1>0 DEF UnderReview, Bodies
    <3>2. CASE says = <<FindingsBody, <<1>>>>
      BY <3>1, <3>2
    <3>3. CASE says = <<FindingsBody, <<>>>>
      BY <3>1, <3>3
    <3>4. CASE says = <<ExactClean(head), <<>>>>
      BY <3>1, <3>4
    <3>. QED
      BY <3>2, <3>3, <3>4
  <2>3. e \in Entries /\ e.via # "marker"
    BY <2>2, EntriesWritten
  <2>. HIDE DEF e
  <2>4. Happens(e, "verdict", Run("route", next))
    BY <2>1 DEF e, next, Now
  <2>5. head' \in Heads /\ open' \in BOOLEAN /\ base' \in Bases
    BY <1>0, <2>1
  <2>. QED
    BY <1>02, <1>03, <2>3, <2>4, <2>5, HappensStep
<1>3. CASE comment_codex
  <2>1. PICK body \in {ConnectorClean(h) : h \in UnderReview} \cup {RefusalBody} :
          /\ UNCHANGED <<head, open, base>>
          /\ Happens([via |-> "comment", by |-> Codex, body |-> body], "verdict",
                     Run("route", Now + 1))
    BY <1>3 DEF comment_codex
  <2>. DEFINE e == [via |-> "comment", by |-> Codex, body |-> body]
  <2>2. body \in Bodies
    BY DEF UnderReview, Bodies
  <2>3. e \in Entries /\ e.via # "marker"
    BY <1>0, <2>2, EntriesWritten
  <2>. HIDE DEF e
  <2>4. Happens(e, "verdict", Run("route", next))
    BY <2>1 DEF e, next, Now
  <2>5. head' \in Heads /\ open' \in BOOLEAN /\ base' \in Bases
    BY <1>0, <2>1
  <2>. QED
    BY <1>02, <1>03, <2>3, <2>4, <2>5, HappensStep
<1>4. ASSUME NEW marks \in {"substitute-verdict", "hold", "delivered"}, NEW arg, NEW about \in Nat,
             marks = "substitute-verdict" => arg \in {"clean", "findings"},
             marks # "substitute-verdict" => arg = "",
             arg = "clean" => about = 0
      PROVE  /\ Marker(marks, head, arg, about, "seat", 0) \in Entries
             /\ Marker(marks, head, arg, about, "seat", 0).lane = "seat"
             /\ MarkOK(Marker(marks, head, arg, about, "seat", 0), thread, slack)
  <2>. DEFINE e == Marker(marks, head, arg, about, "seat", 0)
  <2>1. e.lane = "seat" /\ e.reread = 0 /\ e.marks = marks
    BY DEF Marker
  <2>2. e \in Entries
    <3>1. CASE marks = "substitute-verdict"
      BY <1>0, <1>4, <3>1 DEF Marker, Marks, Markers, Entries
    <3>2. CASE marks # "substitute-verdict"
      BY <1>0, <1>4, <3>2 DEF Marker, Marks, Markers, Entries
    <3>. QED
      BY <3>1, <3>2
  <2>3. 0 <= Len(thread)
    BY <1>0
  <2>4. MarkOK(e, thread, slack)
    BY <2>1, <2>3 DEF MarkOK
  <2>. QED
    BY <2>1, <2>2, <2>4
<1>5. CASE comment_substitute
  <2>1. PICK arg \in {"clean", "findings"} :
          /\ UNCHANGED <<head, open, base>>
          /\ Happens(Marker("substitute-verdict", head, arg, IF arg = "findings" THEN 2 ELSE 0,
                            "seat", 0), "verdict", Run("route", Now + 1))
    BY <1>5 DEF comment_substitute
  <2>2. PICK about \in Nat : about = IF arg = "findings" THEN 2 ELSE 0
    OBVIOUS
  <2>. DEFINE e == Marker("substitute-verdict", head, arg, about, "seat", 0)
  <2>3. e \in Entries /\ e.lane = "seat" /\ MarkOK(e, thread, slack)
    <3>1. arg = "clean" => about = 0
      BY <2>2
    <3>. QED
      BY <1>4, <3>1
  <2>. HIDE DEF e
  <2>4. Happens(e, "verdict", Run("route", next))
    BY <2>1, <2>2 DEF e, next, Now
  <2>5. head' \in Heads /\ open' \in BOOLEAN /\ base' \in Bases
    BY <1>0, <2>1
  <2>. QED
    BY <1>02, <1>03, <2>3, <2>4, <2>5, HappensStep
<1>6. CASE comment_seat
  <2>1. PICK marks \in {"hold", "delivered"} :
          /\ UNCHANGED <<head, open, base>>
          /\ Happens(Marker(marks, head, "", 0, "seat", 0), "verdict", Noise)
    BY <1>6 DEF comment_seat
  <2>. DEFINE e == Marker(marks, head, "", 0, "seat", 0)
  <2>2. PICK about, arg : about = 0 /\ arg = "" /\ about \in Nat
    OBVIOUS
  <2>3. e \in Entries /\ e.lane = "seat" /\ MarkOK(e, thread, slack)
    <3>1. marks # "substitute-verdict" /\ marks \in {"substitute-verdict", "hold", "delivered"}
      OBVIOUS
    <3>2. /\ Marker(marks, head, arg, about, "seat", 0) \in Entries
          /\ Marker(marks, head, arg, about, "seat", 0).lane = "seat"
          /\ MarkOK(Marker(marks, head, arg, about, "seat", 0), thread, slack)
      BY <1>4, <2>2, <3>1
    <3>. QED
      BY <2>2, <3>2
  <2>. HIDE DEF e
  <2>4. Happens(e, "verdict", Noise)
    BY <2>1 DEF e
  <2>5. head' \in Heads /\ open' \in BOOLEAN /\ base' \in Bases
    BY <1>0, <2>1
  <2>. QED
    BY <1>02, <1>03, <2>3, <2>4, <2>5, HappensStep
<1>7. CASE chatter
  <2>1. /\ Moves /\ lanes' = Enqueue(lanes, "verdict", Noise)
        /\ UNCHANGED thread /\ UNCHANGED slack /\ UNCHANGED told /\ UNCHANGED head
        /\ UNCHANGED open /\ UNCHANGED base /\ UNCHANGED lapsed
    BY <1>7 DEF chatter
  <2>2. Fresh(Noise, thread)
    BY DEF Fresh
  <2>3. LanesOK(lanes', thread, slack)
    BY <1>0, <1>03, <2>1, <2>2, EnqueueOK
  <2>. QED
    BY <1>0, <1>01, <2>1, <2>3, QuietStep
<1>8. CASE retarget
  <2>1. /\ Moves /\ base' = IF base = "main" THEN "release" ELSE "main"
        /\ thread' = Append(thread, [via |-> "base", arg |-> base'])
        /\ UNCHANGED slack /\ UNCHANGED told /\ UNCHANGED head
        /\ UNCHANGED open /\ UNCHANGED lapsed /\ UNCHANGED lanes
    BY <1>8 DEF retarget
  <2>2. base' \in Bases
    BY <2>1 DEF Bases
  <2>3. PICK b \in Bases : b = base'
    BY <2>2
  <2>. DEFINE e == [via |-> "base", arg |-> b]
  <2>4. e \in Entries /\ e.via # "marker"
    BY <1>0, EntriesWritten
  <2>5. thread' = Append(thread, e)
    BY <2>1, <2>3
  <2>. HIDE DEF e
  <2>6. LanesOK(lanes', thread', slack)
    <3>1. LanesOK(lanes, Append(thread, e), slack)
      BY <1>0, <1>03, <2>4, LanesGrow
    <3>. QED
      BY <2>1, <2>5, <3>1
  <2>7. head' \in Heads /\ open' \in BOOLEAN /\ moves' \in 0 .. MaxMoves
    BY <1>0, <1>01, <2>1
  <2>. QED
    BY <2>1, <2>2, <2>4, <2>5, <2>6, <2>7, EntryStep
<1>9. CASE close_pull
  <2>1. /\ Moves /\ open' = FALSE
        /\ UNCHANGED thread /\ UNCHANGED slack /\ UNCHANGED told /\ UNCHANGED head
        /\ UNCHANGED lanes /\ UNCHANGED base /\ UNCHANGED lapsed
    BY <1>9 DEF close_pull
  <2>. QED
    BY <1>0, <1>01, <2>1, QuietStep
<1>. QED
  BY <1>1, <1>2, <1>3, <1>5, <1>6, <1>7, <1>8, <1>9 DEF Environment

\* The passing of an hour, and a request that fails.
LEMMA HourAndFailureKeep ==
    ASSUME IInv, an_hour_passes \/ \E l \in Lanes : request_fails(l)
    PROVE  IInv'
<1>0. /\ thread \in Seq(Entries) /\ LanesOK(lanes, thread, slack) /\ head \in Heads
      /\ open \in BOOLEAN /\ base \in Bases /\ moves \in 0 .. MaxMoves
      /\ lapsed \in 0 .. Len(thread)
  BY DEF IInv, TypeOK, Now
<1>1. CASE an_hour_passes
  <2>1. /\ lapsed' = Len(thread)
        /\ UNCHANGED thread /\ UNCHANGED slack /\ UNCHANGED told /\ UNCHANGED head
        /\ UNCHANGED open /\ UNCHANGED base /\ UNCHANGED lanes /\ UNCHANGED moves
    BY <1>1 DEF an_hour_passes, Now
  <2>2. lapsed' \in 0 .. Len(thread)
    BY <1>0, <2>1
  <2>. QED
    BY <1>0, <2>1, <2>2, QuietStep
<1>2. ASSUME NEW l \in Lanes, request_fails(l) PROVE IInv'
  <2>1. /\ Moves /\ lanes' = Finish(lanes, l)
        /\ UNCHANGED thread /\ UNCHANGED slack /\ UNCHANGED told /\ UNCHANGED head
        /\ UNCHANGED open /\ UNCHANGED base /\ UNCHANGED lapsed
    BY <1>2 DEF request_fails
  <2>2. moves' \in 0 .. MaxMoves
    BY <1>0, <2>1, ReviewAssumption DEF Moves
  <2>3. LanesOK(lanes', thread, slack)
    BY <1>0, <2>1, FinishOK DEF LanesOK
  <2>. QED
    BY <1>0, <2>1, <2>2, <2>3, QuietStep
<1>. QED
  BY <1>1, <1>2

-----------------------------------------------------------------------------
(* The runs.                                                               *)

\* Positions of the record.
LEMMA UpTo ==
    ASSUME NEW n \in Nat, NEW i \in 0 .. n
    PROVE  i \in Nat /\ i <= n /\ i \in 0 .. i /\ n \in 0 .. n /\ (i >= 1 => i \in 1 .. n)
OBVIOUS

\* Heads are counted from 1.
LEMMA HeadWithin ==
    ASSUME NEW h \in Heads
    PROVE  h \in 0 .. MaxHeads
BY ReviewAssumption DEF Heads

\* The run of a lane.
LEMMA RunOfLane ==
    ASSUME IInv, NEW l \in Lanes
    PROVE  /\ lanes[l].run \in RunsOver(Len(thread))
           /\ RunOK(l, lanes[l].run, thread, slack)
           /\ thread \in Seq(Entries) /\ Len(thread) \in Nat
           /\ MarksOK(thread, slack)
BY DEF IInv, TypeOK, LanesOK, Now

SameRun(s, r) ==
    /\ s.leg = r.leg /\ s.on = r.on /\ s.head = r.head /\ s.seen = r.seen
    /\ s.reread = r.reread /\ s.closed = r.closed

\* A run that goes on to another request (At).
LEMMA AtIs ==
    ASSUME NEW n \in Nat, NEW r \in RunsOver(n), NEW pc \in Requests
    PROVE  /\ At(r, pc) \in RunsOver(n) /\ SameRun(At(r, pc), r)
           /\ At(r, pc).pc = pc /\ At(r, pc).doing = r.doing
BY DEF At, RunsOver, SameRun

\* It keeps what it knows, when nothing it is to know is new.
LEMMA AtGoesOn ==
    ASSUME NEW t \in Seq(Entries), NEW S, NEW S2, S \subseteq S2, NEW l, NEW r \in RunsOver(Len(t)),
           RunOK(l, r, t, S),
           r.pc \notin {"close", "reread"}, NEW s \in RunsOver(Len(t)), SameRun(s, r),
           s.doing = r.doing, s.pc \notin {"close", "reread", "pin", "start"},
           Placed(s), Sent(s, t, S2),
           s.pc = "post gate" => Unposted(t, l, "gate", r.head, MaxRounds),
           s.pc = "post skip" => Unposted(t, l, "skip", r.head, 0),
           s.pc \in ChasePcs => r.pc \in ChasePcs
    PROVE  Core(s, t, S2) /\ Pending(l, s, t)
<1>1. Looked(s, t)
  BY DEF RunOK, Core, Looked, SameRun
<1>2. Unreviewed(s, t) /\ AtBound(s, t)
  BY DEF RunOK, Core, Unreviewed, AtBound, Unproven, SameRun
<1>3. Newest(s, t)
  BY DEF RunOK, Core, Newest, SameRun
<1>4. Pending(l, s, t)
  BY DEF RunOK, Pending, SameRun, Attempts, About
<1>. QED
  BY <1>1, <1>2, <1>3, <1>4 DEF Core

\* A family that has no marker at a head was posted there by nobody.
LEMMA MarkersMarked ==
    ASSUME NEW t \in Seq(Entries), NEW marks, NEW h, Marked(t, Len(t), marks, h) = {}
    PROVE  \A lane, about : Unposted(t, lane, marks, h, about)
<1>1. \A m \in Entries : m.via = "marker" => m.by = Trusted
  BY DEF Entries, Unmarked, Pushes, Retargets, Reviews, Remarks, Markers, Marks
<1>2. \A i \in 1 .. Len(t) : t[i] \in Entries
  OBVIOUS
<1>. QED
  BY <1>1, <1>2 DEF Unposted, IsMarker, Marked

\* record_request leaves one receipt a head, after the request.
LEMMA RecordRequestKeeps ==
    ASSUME IInv, NEW l \in Lanes, record_request(l)
    PROVE  IInv'
<1>. DEFINE r == lanes[l].run
            m == Marker("request", r.head, "", 0, l, r.reread)
<1>1. /\ r \in RunsOver(Len(thread)) /\ RunOK(l, r, thread, slack) /\ r.pc = "receipt"
      /\ thread \in Seq(Entries)
  BY RunOfLane DEF record_request
<1>2. CASE marker_comment_exists(thread, Now, "request", r.head)
  <2>1. Reads(l, Idle)
    BY <1>2 DEF record_request
  <2>. QED
    BY <2>1, ReadsStep DEF GoesOn
<1>3. CASE ~marker_comment_exists(thread, Now, "request", r.head)
  <2>1. Comments(l, "request", "", 0, Idle)
    BY <1>3 DEF record_request
  <2>2. r.head \in Heads /\ r.reread \in 0 .. Len(thread) /\ Woken(slack, "retrospective", r.head)
    BY <1>1 DEF RunOK, Core, Placed, Sent, RunsOver
  <2>3. m \in Markers
    BY <2>2 DEF Marker, Markers, Marks
  <2>4. MarkOK(m, thread, slack)
    BY <2>2 DEF Marker, MarkOK
  <2>5. Unposted(thread, l, "request", r.head, 0)
    BY <1>1, <1>3, MarkersMarked DEF marker_comment_exists, Now
  <2>6. MayPost(m, thread, slack)
    BY <2>3, <2>4, <2>5 DEF MayPost, Marker
  <2>. QED
    BY <2>1, <2>6, CommentsStep DEF GoesOnAfter
<1>. QED
  BY <1>2, <1>3

\* What the heads read and the lane since did not post, the lane did not post.
LEMMA MarkersSeen ==
    ASSUME NEW t \in Seq(Entries), NEW n \in 0 .. Len(t), NEW lane, NEW marks, NEW h, NEW about,
           \A i \in Marked(t, n, marks, h) : t[i].about # about,
           \A i \in n + 1 .. Len(t) :
             ~(t[i].via = "marker" /\ t[i].lane = lane /\ t[i].marks = marks)
    PROVE  Unposted(t, lane, marks, h, about)
<1>1. \A m \in Entries : m.via = "marker" => m.by = Trusted
  BY DEF Entries, Unmarked, Pushes, Retargets, Reviews, Remarks, Markers, Marks
<1>2. \A i \in 1 .. Len(t) : t[i] \in Entries
  OBVIOUS
<1>3. \A i \in 1 .. Len(t) : i \in 1 .. n \/ i \in n + 1 .. Len(t)
  OBVIOUS
<1>. QED
  BY <1>1, <1>2, <1>3 DEF Unposted, IsMarker, Marked

\* A head that is not gated has no gate under the bound in force.
LEMMA NotTerminal ==
    ASSUME NEW t, NEW n, NEW h, exhaustion_marker_state(t, n, h) # "terminal"
    PROVE  \A i \in Marked(t, n, "gate", h) : t[i].about # MaxRounds
BY DEF exhaustion_marker_state

\* Nobody has a result before the record begins.
LEMMA NoHeadsYet ==
    ASSUME NEW t
    PROVE  codex_result_heads(t, 0) = {}
<1>1. \A x : x \notin codex_result_events(t, 0)
  BY EventsAreOfEntries
<1>. QED
  BY <1>1 DEF codex_result_heads, result_heads_from_events

\* A wake that was posted can be found.
LEMMA WakePosted ==
    ASSUME NEW l, NEW kind, NEW r, Wakes(l, kind, r)
    PROVE  /\ slack \subseteq slack'
           /\ Woken(slack', kind, lanes[l].run.head)
           /\ \E w \in slack' : /\ w.kind = kind /\ w.head = lanes[l].run.head
                                /\ w.on = lanes[l].run.on
<1>. DEFINE mine == lanes[l].run
            latest == {e \in codex_result_events(thread, mine.reread) :
                        e.head = mine.head /\ e.at > mine.on} = {}
            subject == mine.closed > 0 /\ ~base_retarget_after(thread, mine.closed, mine.on)
            w == [kind |-> kind, head |-> mine.head, on |-> mine.on, live |-> mine.live,
                  latest |-> latest, subject |-> subject]
<1>1. slack' = slack \cup {w}
  BY DEF Wakes
<1>2. w.kind = kind /\ w.head = mine.head /\ w.on = mine.on
  OBVIOUS
<1>. HIDE DEF w
<1>. QED
  BY <1>1, <1>2 DEF Woken

\* A run that says the rounds are spent read a record that says so, and they
\* still are.
LEMMA SpentNow ==
    ASSUME NEW t \in Seq(Entries), NEW r \in RunsOver(Len(t)), AtBound(r, t), r.pc # "close"
    PROVE  /\ Rightly(r.doing, t, r.head, r.on)
           /\ r.doing = "exhaustion_gate" => MaxRounds <= Cardinality(codex_result_heads(t, Len(t)))
<1>0. r.seen \in 0 .. Len(t)
  BY DEF RunsOver
<1>10. Len(t) \in Nat
  OBVIOUS
<1>1. r.seen \in 0 .. Len(t) /\ Len(t) \in 0 .. Len(t) /\ r.seen \in 0 .. r.seen
  BY <1>0, <1>10, UpTo
<1>2. /\ Cardinality(codex_result_heads(t, r.seen)) <= Cardinality(codex_result_heads(t, Len(t)))
      /\ Cardinality(codex_result_heads(t, r.seen)) \in Nat
      /\ Cardinality(codex_result_heads(t, Len(t))) \in Nat
  BY <1>1, HeadsGrow
<1>3. \A a, b, c \in Nat : a <= b /\ b <= c => a <= c
  OBVIOUS
<1>4. MaxRounds \in Nat
  BY BeltAssumption
<1>5. Rightly(r.doing, t, r.head, r.on)
  BY DEF AtBound, Unproven
<1>6. r.doing = "exhaustion_gate" => MaxRounds <= Cardinality(codex_result_heads(t, r.seen))
  BY DEF AtBound
<1>7. r.doing = "exhaustion_gate" => MaxRounds <= Cardinality(codex_result_heads(t, Len(t)))
  BY ONLY <1>2, <1>3, <1>4, <1>6
<1>. QED
  BY <1>5, <1>7

\* A verdict that a route admits is a result at its head (Routable).
LEMMA VerdictIsResult ==
    ASSUME NEW t \in Seq(Entries), NEW i \in 1 .. Len(t), Routable(t[i]),
           verdict_head(t[i]) \in Heads
    PROVE  Verdict(t, Len(t), verdict_head(t[i]), i)
<1>. DEFINE v == t[i]
            h == verdict_head(v)
<1>1. v \in Entries
  OBVIOUS
<1>2. \E x \in EventsAt(v, i) : x.head = h /\ x.at = i
  <2>1. CASE IsReview(v)
    <3>1. h = v.head
      BY <2>1 DEF IsReview, verdict_head
    <3>2. [at |-> i, head |-> v.head, kind |-> review_kind(v), source |-> "codex"]
            \in EventsAt(v, i)
      BY <2>1 DEF EventsAt
    <3>. HIDE DEF v, h
    <3>. QED
      BY <3>1, <3>2
  <2>2. CASE v.via = "comment" /\ clean_comment_head(v) # NoHead
    <3>1. h = clean_comment_head(v)
      BY <2>2 DEF verdict_head
    <3>2. clean_comment_commitish(v) # NoHead
      BY <1>1, <2>2, CommitOfComment
    <3>3. [at |-> i, kind |-> "clean", source |-> "codex", head |-> clean_comment_head(v)]
            \in EventsAt(v, i)
      BY <2>2, <3>2 DEF EventsAt
    <3>. HIDE DEF v, h
    <3>. QED
      BY <3>1, <3>3
  <2>3. CASE substitute_accepted(v)
    <3>1. h = v.head
      BY <2>3 DEF substitute_accepted, substitute_verdict, verdict_head
    <3>2. [at |-> i, head |-> v.head, kind |-> v.arg, source |-> "substitute"] \in EventsAt(v, i)
      BY <2>3 DEF EventsAt
    <3>. HIDE DEF v, h
    <3>. QED
      BY <3>1, <3>2
  <2>. QED
    BY <2>1, <2>2, <2>3 DEF Routable
<1>3. \E x \in codex_result_events(t, Len(t)) : x.head = h /\ x.at = i
  BY <1>2, EventsAreOfEntries
<1>. QED
  BY <1>3 DEF Verdict

\* A verdict with a digest is findings, and one without is a CLEAN if it is a
\* review whose text says so, a clean comment or a clean verdict of the
\* substitute (review_kind, explicit_clean_signal).
LEMMA KindOfVerdict ==
    ASSUME NEW t \in Seq(Entries), NEW n \in 0 .. Len(t), NEW h, NEW on, Verdict(t, n, h, on)
    PROVE  /\ HasDigest(t[on]) => GivenAt(t, h, "findings")
           /\ (/\ ~HasDigest(t[on])
               /\ t[on].via = "review" => clean_verdict_binds_head(t[on].body, h)) =>
                GivenAt(t, h, "clean")
<1>1. PICK e \in codex_result_events(t, n) : e.head = h /\ e.at = on
  BY DEF Verdict
<1>2. PICK i \in 1 .. n : e \in EventsAt(t[i], i)
  BY <1>1, EventsAreOfEntries
<1>3. PICK v : v = t[i]
  OBVIOUS
<1>4. v \in Entries /\ i \in Nat /\ e \in EventsAt(v, i)
  BY <1>2, <1>3
<1>5. i = on /\ v = t[on] /\ e \in Events
  BY <1>1, <1>3, <1>4, EventOfEntry
<1>6. e \in codex_result_events(t, Len(t))
  <2>1. Len(t) \in 0 .. Len(t) /\ n \in 0 .. Len(t)
    OBVIOUS
  <2>. QED
    BY <1>1, <2>1, EventsLater
<1>7. GivenAt(t, h, e.kind)
  BY <1>1, <1>6 DEF GivenAt
<1>8. /\ HasDigest(v) => e.kind = "findings"
      /\ (~HasDigest(v) /\ (v.via = "review" => clean_verdict_binds_head(v.body, h))) =>
            e.kind = "clean"
  <2>1. CASE IsReview(v) /\ e = [at |-> i, head |-> v.head, kind |-> review_kind(v),
                                source |-> "codex"]
    <3>1. v.via = "review" /\ e.kind = review_kind(v) /\ v.head = h
      BY <1>1, <2>1 DEF IsReview
    <3>. QED
      BY <3>1 DEF HasDigest, review_kind
  <2>2. CASE clean_comment_commitish(v) # NoHead /\ e.kind = "clean"
    <3>1. v.via = "comment"
      BY <1>4, <2>2, CommitOfComment
    <3>. QED
      BY <2>2, <3>1 DEF HasDigest
  <2>3. CASE /\ substitute_accepted(v)
             /\ e = [at |-> i, head |-> v.head, kind |-> v.arg, source |-> "substitute"]
    <3>1. v.via = "marker" /\ e.kind = v.arg /\ e.kind \in {"clean", "findings"}
      BY <1>5, <2>3 DEF substitute_accepted, substitute_verdict, Events
    <3>. QED
      BY <3>1 DEF HasDigest
  <2>4. \/ IsReview(v) /\ e = [at |-> i, head |-> v.head, kind |-> review_kind(v),
                               source |-> "codex"]
        \/ clean_comment_commitish(v) # NoHead /\ e.kind = "clean"
        \/ /\ substitute_accepted(v)
           /\ e = [at |-> i, head |-> v.head, kind |-> v.arg, source |-> "substitute"]
    BY <1>4 DEF EventsAt
  <2>. QED
    BY <2>1, <2>2, <2>3, <2>4
<1>. QED
  BY <1>5, <1>7, <1>8

\* A clean comment that names a head is a CLEAN of that head.
LEMMA CleanComment ==
    ASSUME NEW t \in Seq(Entries), NEW i \in 1 .. Len(t), NEW h \in Heads,
           clean_comment_head(t[i]) = h
    PROVE  GivenAt(t, h, "clean")
<1>1. PICK v : v = t[i]
  OBVIOUS
<1>2. v \in Entries /\ clean_comment_head(v) = h /\ h # NoHead
  BY <1>1, ReviewAssumption
<1>3. clean_comment_commitish(v) # NoHead
  BY <1>2, CommitOfComment
<1>4. [at |-> i, kind |-> "clean", source |-> "codex", head |-> h] \in EventsAt(v, i)
  BY <1>2, <1>3 DEF EventsAt
<1>5. [at |-> i, kind |-> "clean", source |-> "codex", head |-> h] \in
        codex_result_events(t, Len(t))
  BY <1>1, <1>4, EventsAreOfEntries
<1>. QED
  BY <1>5 DEF GivenAt

-----------------------------------------------------------------------------
(* The event route.                                                        *)

\* What a route decides, it may go on with.
LEMMA RoutedGoesOn ==
    ASSUME NEW t \in Seq(Entries), t = thread, Len(t) \in Nat, NEW S, NEW l,
           NEW a \in RunsOver(Len(t)),
           a.doing = "", a.leg = "route", a.head \in Heads, a.reread = 0, a.on >= 1,
           Verdict(t, a.seen, a.head, a.on)
    PROVE  /\ Core(Routed(a), t, S) /\ Pending(l, Routed(a), t)
           /\ Routed(a).pc \in {"close", "gate", "check"} /\ Routed(a).doing \notin ScanAims
<1>0. /\ a.head \in codex_result_heads(t, a.seen) /\ a.seen \in 0 .. Len(t)
      /\ RoundOf(a) = Cardinality(codex_result_heads(t, a.seen))
      /\ Cardinality(codex_result_heads(t, a.seen)) \in Nat
  <2>1. a.head \in codex_result_heads(t, a.seen)
    BY DEF Verdict, codex_result_heads, result_heads_from_events
  <2>2. codex_result_heads(t, a.seen) \cup {a.head} = codex_result_heads(t, a.seen)
    BY <2>1
  <2>3. a.seen \in 0 .. Len(t)
    BY DEF RunsOver
  <2>4. a.seen \in 0 .. a.seen
    BY <2>3, UpTo
  <2>5. Cardinality(codex_result_heads(t, a.seen)) \in Nat
    BY <2>3, <2>4, HeadsGrow
  <2>. QED
    BY <2>1, <2>2, <2>3, <2>5 DEF RoundOf, result_round_for_head
<1>1. ASSUME NEW doing \in Aims, NEW pc \in Requests,
             <<doing, pc>> \in {<<"clean_wake", "close">>, <<"burn_wake", "check">>,
                                <<"exhaustion_gate", "gate">>},
             doing = "exhaustion_gate" => MaxRounds <= Cardinality(codex_result_heads(t, a.seen)),
             doing = "clean_wake" => ~HasDigest(t[a.on]),
             doing \in {"burn_wake", "exhaustion_gate"} => GivenAt(t, a.head, "findings"),
             doing = "burn_wake" => Below(t, a.head, a.on)
      PROVE  /\ Core(Doing(a, doing, pc), t, S) /\ Pending(l, Doing(a, doing, pc), t)
             /\ Doing(a, doing, pc).pc \in {"close", "gate", "check"}
             /\ Doing(a, doing, pc).doing \notin ScanAims
  <2>. DEFINE s == Doing(a, doing, pc)
  <2>1. /\ s \in RunsOver(Len(t)) /\ SameRun(s, a) /\ s.doing = doing /\ s.pc = pc
    BY DEF Doing, RunsOver, SameRun
  <2>2. \/ doing = "clean_wake" /\ pc = "close"
        \/ doing = "burn_wake" /\ pc = "check"
        \/ doing = "exhaustion_gate" /\ pc = "gate"
    BY <1>1
  <2>. HIDE DEF s
  <2>3. Placed(s)
    BY <2>1, <2>2 DEF Placed, SameRun, ChasePcs
  <2>4. Sent(s, t, S)
    BY <2>1, <2>2 DEF Sent
  <2>5. Looked(s, t)
    BY <2>1, <2>2 DEF Looked
  <2>6. Unreviewed(s, t) /\ Newest(s, t)
    BY <2>1, <2>2 DEF Unreviewed, Newest
  <2>7. AtBound(s, t)
    <3>1. CASE doing = "clean_wake" /\ pc = "close"
      BY <1>1, <2>1, <3>1 DEF AtBound, SameRun, Unproven
    <3>2. CASE doing # "clean_wake" /\ pc # "pin"
      <4>1. Rightly(doing, t, a.head, a.on)
        BY <1>1, <2>2, <3>2 DEF Rightly, SendsBack
      <4>. QED
        BY <1>1, <2>1, <3>2, <4>1 DEF AtBound, SameRun, Unproven
    <3>. QED
      BY <2>2, <3>1, <3>2
  <2>8. Pending(l, s, t) /\ s.pc \in {"close", "gate", "check"} /\ s.doing \notin ScanAims
    BY <2>1, <2>2 DEF Pending, ScanAims, ChasePcs
  <2>. QED
    BY <2>1, <2>3, <2>4, <2>5, <2>6, <2>7, <2>8 DEF Core, s
<1>2. "close" \in Requests /\ "gate" \in Requests /\ "check" \in Requests
      /\ "clean_wake" \in Aims /\ "exhaustion_gate" \in Aims /\ "burn_wake" \in Aims
  BY DEF Requests, Aims
<1>20. HasDigest(t[a.on]) => GivenAt(t, a.head, "findings")
  BY <1>0, KindOfVerdict
<1>3. CASE Routed(a) = CleanWake(a) /\ ~HasDigest(t[a.on])
  BY <1>1, <1>2, <1>3 DEF CleanWake
<1>4. CASE Routed(a) = BurnWake(a) /\ ~(RoundOf(a) >= MaxRounds) /\ HasDigest(t[a.on])
  <2>0. ~(RoundOf(a) >= MaxRounds) /\ MaxRounds \in Nat
    BY <1>4, BeltAssumption
  <2>1. Cardinality(codex_result_heads(t, a.seen)) < MaxRounds
    BY ONLY <1>0, <2>0
  <2>2. Below(t, a.head, a.on)
    BY <1>0, <2>1 DEF Below
  <2>. QED
    BY <1>1, <1>2, <1>4, <1>20, <2>2 DEF BurnWake
<1>5. CASE Routed(a) = ExhaustionGate(a) /\ RoundOf(a) >= MaxRounds /\ HasDigest(t[a.on])
  <2>1. MaxRounds <= Cardinality(codex_result_heads(t, a.seen))
    BY <1>0, <1>5, BeltAssumption
  <2>. QED
    BY <1>1, <1>2, <1>5, <1>20, <2>1 DEF ExhaustionGate
<1>. QED
  BY <1>3, <1>4, <1>5 DEF Routed

\* A scan is about to be made.
LEMMA ScanGoesOn ==
    ASSUME NEW t, NEW S, NEW l, NEW s \in RunsOver(Len(t)), s.pc = "scan",
           s.doing = "", s.leg \notin {"route"}, s.head \in Heads, s.reread = 0
    PROVE  Core(s, t, S) /\ Pending(l, s, t)
<1>1. Placed(s)
  BY DEF Placed, ChasePcs
<1>2. Sent(s, t, S) /\ Looked(s, t) /\ Unreviewed(s, t) /\ Newest(s, t)
  BY DEF Sent, Looked, Unreviewed, Newest
<1>3. AtBound(s, t)
  BY DEF AtBound, Unproven, Rightly, SendsBack
<1>4. Pending(l, s, t)
  BY DEF Pending, ScanAims, ChasePcs
<1>. QED
  BY <1>1, <1>2, <1>3, <1>4 DEF Core

\* What a run reads of the pull request.
SetHead(r, h) == [r EXCEPT !.head = h]
SetSeen(r, n) == [r EXCEPT !.seen = n]
SetBase(r, b) == [r EXCEPT !.base = b]

\* A run that has read the head.
LEMMA HeadRead ==
    ASSUME NEW n \in Nat, NEW r \in RunsOver(n), NEW h \in Heads
    PROVE  SetHead(r, h) \in RunsOver(n) /\ SetHead(r, h) = [r EXCEPT !.head = h]
<1>1. h \in 0 .. MaxHeads
  BY HeadWithin
<1>. QED
  BY <1>1 DEF RunsOver, SetHead

\* A run that has read the record.
LEMMA RecordRead ==
    ASSUME NEW n \in Nat, NEW r \in RunsOver(n)
    PROVE  SetSeen(r, n) \in RunsOver(n) /\ SetSeen(r, n) = [r EXCEPT !.seen = n]
<1>1. n \in 0 .. n
  OBVIOUS
<1>. QED
  BY <1>1 DEF RunsOver, SetSeen

\* A run that has read the base.
LEMMA BaseRead ==
    ASSUME NEW n \in Nat, NEW r \in RunsOver(n), NEW b \in Bases
    PROVE  SetBase(r, b) \in RunsOver(n) /\ SetBase(r, b) = [r EXCEPT !.base = b]
BY DEF RunsOver, SetBase

AdmitsFrom(a, r, n, h) ==
    /\ a \in RunsOver(n) /\ a.head = h /\ a.seen = n /\ a.doing = r.doing
    /\ a.leg = r.leg /\ a.on = r.on /\ a.reread = r.reread /\ a.pc = r.pc

\* What a route read when it admitted a verdict (Admitted).
LEMMA AdmittedIs ==
    ASSUME NEW n \in Nat, NEW r \in RunsOver(n), NEW h \in Heads, NEW b \in Bases,
           NEW a, a = SetBase(SetSeen(SetHead(r, h), n), b)
    PROVE  AdmitsFrom(a, r, n, h)
<1>. DEFINE x == SetHead(r, h)
            y == SetSeen(x, n)
<1>0. a = SetBase(y, b)
  OBVIOUS
<1>1. x \in RunsOver(n) /\ x = [r EXCEPT !.head = h]
  BY HeadRead
<1>. HIDE DEF x
<1>2. y \in RunsOver(n) /\ y = [x EXCEPT !.seen = n]
  BY <1>1, RecordRead
<1>. HIDE DEF y
<1>3. a \in RunsOver(n) /\ a = [y EXCEPT !.base = b]
  <2>1. y \in RunsOver(n)
    BY <1>2
  <2>2. a \in RunsOver(n)
    BY <1>0, <2>1, BaseRead
  <2>3. a = [y EXCEPT !.base = b]
    BY <1>0 DEF SetBase
  <2>. QED
    BY <2>2, <2>3
<1>4. a.head = h /\ a.seen = n /\ a.doing = r.doing
  BY <1>1, <1>2, <1>3 DEF RunsOver
<1>5. a.leg = r.leg /\ a.on = r.on /\ a.reread = r.reread /\ a.pc = r.pc
  BY <1>1, <1>2, <1>3 DEF RunsOver
<1>. QED
  BY <1>3, <1>4, <1>5 DEF AdmitsFrom

ScanOf(s, leg, n, h) ==
    /\ s \in RunsOver(n) /\ s.pc = "scan" /\ s.doing = "" /\ s.leg = leg
    /\ s.head = h /\ s.reread = 0

\* A scan that is about to start (the run that a refusal starts).
LEMMA ScanIs ==
    ASSUME NEW n \in Nat, NEW h \in Heads, NEW leg \in Legs,
           NEW s, s = SetHead(At(Run(leg, 0), "scan"), h)
    PROVE  ScanOf(s, leg, n, h)
<1>. DEFINE b == Run(leg, 0)
            c == At(b, "scan")
<1>0. s = SetHead(c, h)
  OBVIOUS
<1>1. "scan" \in Requests /\ 0 \in 0 .. n
  BY DEF Requests
<1>2. b \in RunsOver(n) /\ b.doing = "" /\ b.leg = leg /\ b.reread = 0
  <2>1. b \in RunsOver(n)
    BY <1>1, NewRun
  <2>. QED
    BY <2>1 DEF Run
<1>. HIDE DEF b
<1>3. c \in RunsOver(n) /\ c.pc = "scan" /\ c.doing = "" /\ c.leg = leg /\ c.reread = 0
  BY <1>1, <1>2, AtIs DEF SameRun
<1>. HIDE DEF c
<1>4. s \in RunsOver(n) /\ s = [c EXCEPT !.head = h]
  BY <1>0, <1>3, HeadRead
<1>5. s.pc = "scan" /\ s.doing = "" /\ s.leg = leg /\ s.head = h /\ s.reread = 0
  BY <1>3, <1>4 DEF RunsOver
<1>. QED
  BY <1>4, <1>5 DEF ScanOf

\* The route: it drops the verdict, scans for a substitute, pins or decides.
LEMMA RouteKeeps ==
    ASSUME IInv, NEW l \in Lanes, route_codex_result(l)
    PROVE  IInv'
<1>0. PICK r, t, n, h, b : /\ r = lanes[l].run /\ t = thread /\ n = Len(t)
                           /\ h = head /\ b = base
  OBVIOUS
<1>1. /\ r \in RunsOver(n) /\ RunOK(l, r, t, slack) /\ r.pc = "start" /\ r.leg = "route"
      /\ t \in Seq(Entries) /\ n \in Nat
  BY <1>0, RunOfLane DEF route_codex_result
<1>2. h \in Heads /\ b \in Bases
  BY <1>0 DEF IInv, TypeOK
<1>3. r.on \in 1 .. n /\ r.on >= 1 /\ r.doing = "" /\ r.reread = 0
  <2>1. r.on \in 0 .. n
    BY <1>1 DEF RunsOver
  <2>2. r.on >= 1
    BY <1>1 DEF RunOK, Core, AtBound
  <2>3. r.doing = "" /\ r.reread = 0
    BY <1>1 DEF RunOK, Core, Placed
  <2>. QED
    BY <1>1, <2>1, <2>2, <2>3, UpTo
<1>4. CASE Reads(l, Idle)
  BY <1>4, ReadsStep DEF GoesOn
<1>5. CASE Reads(l, [Run("refusal", 0) EXCEPT !.pc = "scan", !.head = head])
  <2>1. [Run("refusal", 0) EXCEPT !.pc = "scan", !.head = head]
          = SetHead(At(Run("refusal", 0), "scan"), h)
    BY <1>0 DEF SetHead, At
  <2>2. PICK s : s = SetHead(At(Run("refusal", 0), "scan"), h)
    OBVIOUS
  <2>3. /\ s \in RunsOver(n) /\ s.pc = "scan" /\ s.doing = "" /\ s.leg = "refusal"
        /\ s.head = h /\ s.reread = 0
    <3>1. "refusal" \in Legs
      BY DEF Legs
    <3>2. ScanOf(s, "refusal", n, h)
      BY <1>1, <1>2, <2>2, <3>1, ScanIs
    <3>. QED
      BY <3>2 DEF ScanOf
  <2>4. s.leg \notin {"route"} /\ s.head \in Heads
    BY <1>2, <2>3
  <2>5. Core(s, t, slack) /\ Pending(l, s, t)
    BY <1>0, <2>3, <2>4, ScanGoesOn
  <2>6. GoesOn(s, l, thread, slack)
    BY <1>0, <2>3, <2>5 DEF GoesOn, SendPcs
  <2>. QED
    BY <1>5, <2>1, <2>2, <2>6, ReadsStep
<1>6. ASSUME Routable(t[r.on]), Live(verdict_head(t[r.on])),
             \/ Reads(l, Routed(Admitted(r)))
             \/ Reads(l, At(Admitted(r), "pin"))
      PROVE  IInv'
  <2>1. PICK a : a = SetBase(SetSeen(SetHead(r, h), n), b)
    OBVIOUS
  <2>2. Admitted(r) = a
    BY <1>0, <2>1 DEF Admitted, SetBase, SetSeen, SetHead, Now
  <2>3. /\ a \in RunsOver(n) /\ a.head = h /\ a.seen = n /\ a.doing = "" /\ a.leg = "route"
        /\ a.on = r.on /\ a.reread = 0 /\ a.pc = "start"
    <3>1. AdmitsFrom(a, r, n, h)
      BY <1>1, <1>2, <2>1, AdmittedIs
    <3>. QED
      BY <1>1, <1>3, <3>1 DEF AdmitsFrom
  <2>4. verdict_head(t[r.on]) = h
    BY <1>0, <1>6 DEF Live
  <2>5. Verdict(t, n, h, r.on)
    <3>1. PICK i : i = r.on
      OBVIOUS
    <3>2. i \in 1 .. Len(t) /\ Routable(t[i]) /\ verdict_head(t[i]) = h
      BY <1>0, <1>3, <1>6, <2>4, <3>1
    <3>3. Verdict(t, Len(t), verdict_head(t[i]), i)
      BY <1>1, <1>2, <3>2, VerdictIsResult
    <3>. QED
      BY <1>0, <3>1, <3>2, <3>3
  <2>6. a.head \in Heads /\ a.on >= 1 /\ Verdict(t, a.seen, a.head, a.on)
    BY <1>2, <1>3, <2>3, <2>5
  <2>7. CASE Reads(l, Routed(a))
    <3>1. /\ Core(Routed(a), t, slack) /\ Pending(l, Routed(a), t)
          /\ Routed(a).pc \in {"close", "gate", "check"}
      BY <1>0, <1>1, <2>3, <2>6, RoutedGoesOn
    <3>2. GoesOn(Routed(a), l, thread, slack)
      BY <1>0, <3>1 DEF GoesOn, SendPcs
    <3>. QED
      BY <2>7, <3>2, ReadsStep
  <2>8. CASE Reads(l, At(a, "pin"))
    <3>1. PICK s : s = At(a, "pin")
      OBVIOUS
    <3>2. s \in RunsOver(n) /\ SameRun(s, a) /\ s.pc = "pin" /\ s.doing = a.doing
      <4>1. "pin" \in Requests
        BY DEF Requests
      <4>. QED
        BY <1>1, <2>3, <3>1, <4>1, AtIs
    <3>3. Placed(s) /\ Sent(s, t, slack)
      BY <2>3, <2>6, <3>2 DEF Placed, Sent, SameRun, ChasePcs
    <3>4. Looked(s, t) /\ Unreviewed(s, t) /\ Newest(s, t) /\ AtBound(s, t)
      BY <2>3, <2>6, <3>2
         DEF Looked, Unreviewed, Newest, AtBound, Unproven, Rightly, SendsBack, SameRun
    <3>5. Pending(l, s, t)
      BY <2>3, <3>2 DEF Pending, ScanAims, ChasePcs
    <3>6. GoesOn(s, l, thread, slack)
      BY <1>0, <3>2, <3>3, <3>4, <3>5 DEF GoesOn, Core, SendPcs
    <3>. QED
      BY <2>8, <3>1, <3>6, ReadsStep
  <2>. QED
    BY <1>6, <2>2, <2>7, <2>8
<1>. QED
  BY <1>0, <1>4, <1>5, <1>6 DEF route_codex_result

\* The pin: one a head, then the decision (record_reviewed_head_base).
LEMMA PinKeeps ==
    ASSUME IInv, NEW l \in Lanes, record_reviewed_head_base(l)
    PROVE  IInv'
<1>0. PICK r, t, m : /\ r = lanes[l].run /\ t = thread
                     /\ m = Marker("head-base", r.head, r.base, 0, l, r.reread)
  OBVIOUS
<1>1. /\ r \in RunsOver(Len(t)) /\ RunOK(l, r, t, slack) /\ r.pc = "pin"
      /\ t \in Seq(Entries) /\ Len(t) \in Nat
  BY <1>0, RunOfLane DEF record_reviewed_head_base
<1>2. /\ r.doing = "" /\ r.leg = "route" /\ r.head \in Heads /\ r.reread = 0 /\ r.on >= 1
      /\ Verdict(t, r.seen, r.head, r.on)
  <2>1. Placed(r) /\ AtBound(r, t)
    BY <1>1 DEF RunOK, Core
  <2>2. r.doing = "" /\ r.head \in Heads /\ r.reread = 0
    BY <1>1, <2>1 DEF Placed
  <2>3. r.leg = "route"
    BY <1>1, <2>1 DEF Placed
  <2>4. Verdict(t, r.seen, r.head, r.on)
    BY <1>1, <2>1 DEF AtBound
  <2>5. r.on >= 1
    BY <2>1, <2>3 DEF AtBound
  <2>. QED
    BY <2>2, <2>3, <2>4, <2>5
<1>3. /\ Core(Routed(r), t, slack) /\ Pending(l, Routed(r), t)
      /\ Routed(r).pc \in {"close", "gate", "check"} /\ Routed(r).doing \notin ScanAims
  BY <1>0, <1>1, <1>2, RoutedGoesOn
<1>4. CASE Reads(l, Idle)
  BY <1>4, ReadsStep DEF GoesOn
<1>5. CASE Reads(l, Routed(r))
  <2>1. GoesOn(Routed(r), l, thread, slack)
    BY <1>0, <1>3 DEF GoesOn, SendPcs
  <2>. QED
    BY <1>5, <2>1, ReadsStep
<1>6. CASE /\ ~head_base_recorded(thread, Now, r.head)
           /\ Comments(l, "head-base", r.base, 0, Routed(r))
  <2>1. r.base \in Bases \cup {""} /\ r.reread \in 0 .. Len(t) /\ 0 \in Nat
    BY <1>1 DEF RunsOver
  <2>2. m \in Markers
    <3>1. \A h \in Heads, b \in Bases \cup {""}, k \in Lanes :
            Marker("head-base", h, b, 0, k, 0) \in Markers
      BY DEF Marker, Markers, Marks
    <3>. QED
      BY <1>0, <1>2, <2>1, <3>1
  <2>3. MarkOK(m, t, slack)
    <3>1. m.reread = r.reread /\ m.marks = "head-base"
      BY <1>0 DEF Marker
    <3>2. r.reread <= Len(t)
      BY <1>1, <2>1, UpTo
    <3>. QED
      BY <3>1, <3>2 DEF MarkOK
  <2>4. Unposted(t, l, "head-base", r.head, 0)
    BY <1>0, <1>1, <1>6, MarkersMarked DEF head_base_recorded, marker_comment_exists, Now
  <2>5. MayPost(m, t, slack)
    BY <1>0, <2>2, <2>3, <2>4 DEF MayPost, Marker
  <2>6. GoesOnAfter("head-base", Routed(r), l, t, slack)
    BY <1>3 DEF GoesOnAfter, ChasePcs, SendPcs
  <2>. QED
    BY <1>0, <1>6, <2>5, <2>6, CommentsStep
<1>. QED
  BY <1>0, <1>4, <1>5, <1>6 DEF record_reviewed_head_base

\* The closure tests of a CLEAN (close).
LEMMA CloseKeeps ==
    ASSUME IInv, NEW l \in Lanes, close(l)
    PROVE  IInv'
<1>. DEFINE r == lanes[l].run
            t == thread
            n == Len(thread)
            c == [r EXCEPT !.closed = n]
<1>1. /\ r \in RunsOver(n) /\ RunOK(l, r, t, slack) /\ r.pc = "close"
      /\ t \in Seq(Entries) /\ n \in Nat
  BY RunOfLane DEF close
<1>2. r.doing \in {"clean_wake", "redelivery"} /\ r.head \in Heads /\ r.on \in 0 .. n
      /\ r.seen \in 0 .. n
  BY <1>1 DEF RunOK, Core, Placed, RunsOver
<1>3. CASE Reads(l, Idle)
  BY <1>3, ReadsStep DEF GoesOn
<1>4. n >= 1
  <2>1. CASE r.doing = "clean_wake"
    BY <1>1, <1>2, <2>1 DEF RunOK, Core, Placed, AtBound
  <2>2. CASE r.doing = "redelivery"
    <3>1. PICK e \in codex_result_events(t, r.seen) : e.at = r.on
      BY <1>1, <2>2 DEF RunOK, Core, Newest
    <3>2. e.at \in 1 .. r.seen
      BY <1>1, <1>2, EventsTyped
    <3>. QED
      BY <1>2, <3>2
  <2>. QED
    BY <1>2, <2>1, <2>2
<1>5. /\ c \in RunsOver(n) /\ c.leg = r.leg /\ c.on = r.on /\ c.head = r.head /\ c.seen = r.seen
      /\ c.reread = r.reread /\ c.closed = n /\ c.doing = r.doing
  <2>1. n \in 0 .. n
    BY <1>1
  <2>. QED
    BY <1>1, <2>1 DEF RunsOver
<1>. HIDE DEF c
<1>6. ASSUME NEW pc \in {"reread", "check"}, Reads(l, At(c, pc)),
             ~base_retarget_after(t, n, r.on), pc = "reread" <=> r.doing = "redelivery",
             pc = "check" => explicit_clean_signal(c)
      PROVE  IInv'
  <2>. DEFINE s == At(c, pc)
  <2>1. s \in RunsOver(n) /\ SameRun(s, c) /\ s.pc = pc /\ s.doing = r.doing
    <3>1. pc \in Requests
      BY DEF Requests
    <3>. QED
      BY <1>1, <1>5, <3>1, AtIs
  <2>. HIDE DEF s
  <2>2. SameRun(s, c) /\ s.leg = r.leg /\ s.on = r.on /\ s.head = r.head /\ s.seen = r.seen
        /\ s.reread = r.reread /\ s.closed = n
    BY <1>5, <2>1 DEF SameRun
  <2>3. Placed(s)
    BY <1>1, <1>2, <1>6, <2>1, <2>2 DEF RunOK, Core, Placed, ChasePcs
  <2>4. Sent(s, t, slack)
    BY <2>1 DEF Sent
  <2>5. Looked(s, t)
    <3>1. Subject(t, n, r.on)
      BY <1>1, <1>4, <1>6 DEF Subject
    <3>. QED
      BY <2>2, <3>1 DEF Looked
  <2>6. Unreviewed(s, t)
    BY <1>1, <1>2, <2>1, <2>2 DEF RunOK, Core, Unreviewed
  <2>10. AtBound(s, t)
    <3>1. AtBound(r, t) /\ r.pc = "close" /\ Placed(r)
      BY <1>1 DEF RunOK, Core
    <3>2. CASE pc = "reread"
      BY <1>6, <2>1, <2>2, <3>1, <3>2 DEF AtBound, Unproven
    <3>3. CASE pc = "check"
      <4>1. r.doing = "clean_wake" /\ r.head \in Heads
        BY <1>6, <3>1, <3>3 DEF Placed
      <4>2. Verdict(t, r.seen, r.head, r.on) /\ ~HasDigest(t[r.on])
        BY <3>1, <4>1 DEF AtBound, Unproven
      <4>3. r.seen \in 0 .. Len(t) /\ t \in Seq(Entries)
        BY <1>1 DEF RunsOver
      <4>4. \/ t[r.on].via = "review" => clean_verdict_binds_head(t[r.on].body, r.head)
            \/ \E i \in 1 .. r.seen : clean_comment_head(t[i]) = r.head
        BY <1>5, <1>6, <3>3 DEF explicit_clean_signal
      <4>5. GivenAt(t, r.head, "clean")
        BY <4>1, <4>2, <4>3, <4>4, KindOfVerdict, CleanComment
      <4>6. Rightly("clean_wake", t, r.head, r.on)
        BY <4>5 DEF Rightly, SendsBack
      <4>. QED
        BY <2>1, <2>2, <3>1, <3>3, <4>1, <4>6 DEF AtBound, Unproven
    <3>. QED
      BY <1>6, <3>2, <3>3
  <2>7. Newest(s, t)
    BY <1>1, <1>6, <2>1, <2>2 DEF RunOK, Core, Newest
  <2>8. Pending(l, s, t)
    BY <1>1, <2>1, <2>2 DEF RunOK, Pending, ChasePcs, About
  <2>9. GoesOn(s, l, t, slack)
    BY <2>1, <2>3, <2>4, <2>5, <2>6, <2>7, <2>8, <2>10 DEF GoesOn, Core, SendPcs
  <2>. QED
    BY <1>6, <2>9, ReadsStep DEF s
<1>7. CASE ~base_retarget_after(t, n, r.on) /\ r.doing = "redelivery" /\ Reads(l, At(c, "reread"))
  BY <1>6, <1>7
<1>8. CASE /\ ~base_retarget_after(t, n, r.on) /\ r.doing # "redelivery"
           /\ explicit_clean_signal(c) /\ Reads(l, At(c, "check"))
  BY <1>6, <1>8
<1>9. \/ Reads(l, Idle)
      \/ ~closure_refused(c) /\ r.doing = "redelivery" /\ Reads(l, At(c, "reread"))
      \/ /\ ~closure_refused(c) /\ r.doing # "redelivery"
         /\ explicit_clean_signal(c) /\ Reads(l, At(c, "check"))
  BY <1>5 DEF close, Now, c
<1>10. ~closure_refused(c) => ~base_retarget_after(t, n, r.on)
  BY <1>5 DEF closure_refused, Now
<1>. QED
  BY <1>3, <1>7, <1>8, <1>9, <1>10

\* All of the record.
LEMMA Whole ==
    ASSUME NEW n \in Nat
    PROVE  n \in 0 .. n /\ n + 1 .. n = {}
OBVIOUS

Onward(l, r, t, pc) ==
    /\ r.pc \notin {"close", "reread"}
    /\ pc \in Requests /\ pc \notin {"close", "reread", "pin", "start", "idle", "post skip"}
    /\ pc \in ChasePcs => r.pc \in ChasePcs
    /\ pc = "post gate" => Unposted(t, l, "gate", r.head, MaxRounds)

\* A run that goes on to another request, knowing what it knew.
LEMMA AtKeeps ==
    ASSUME NEW t \in Seq(Entries), Len(t) \in Nat, NEW S, NEW S2, S2 = S \/ S \subseteq S2, NEW l,
           NEW r \in RunsOver(Len(t)), RunOK(l, r, t, S), NEW pc, Onward(l, r, t, pc),
           NEW s, s = At(r, pc), Placed(s), Sent(s, t, S2)
    PROVE  Core(s, t, S2) /\ Pending(l, s, t) /\ s.pc = pc /\ s.pc # "idle"
<1>1. s \in RunsOver(Len(t)) /\ SameRun(s, r) /\ s.pc = pc /\ s.doing = r.doing
  BY AtIs DEF Onward
<1>2. s.pc \notin {"close", "reread", "pin", "start"} /\ s.pc # "post skip" /\ s.pc # "idle"
  BY <1>1 DEF Onward
<1>3. s.pc = "post gate" => Unposted(t, l, "gate", r.head, MaxRounds)
  BY <1>1 DEF Onward
<1>4. s.pc \in ChasePcs => r.pc \in ChasePcs
  BY <1>1 DEF Onward
<1>5. r.pc \notin {"close", "reread"}
  BY DEF Onward
<1>6. Core(s, t, S2) /\ Pending(l, s, t)
  <2>1. S \subseteq S2
    OBVIOUS
  <2>. QED
    BY <1>1, <1>2, <1>3, <1>4, <1>5, <2>1, AtGoesOn
<1>. QED
  BY <1>1, <1>2, <1>6

\* The gate: looked for, then posted (ensure_exhaustion_gate_at_head).
LEMMA GateCheckKeeps ==
    ASSUME IInv, NEW l \in Lanes, ensure_exhaustion_gate_at_head(l)
    PROVE  IInv'
<1>0. PICK r, t : r = lanes[l].run /\ t = thread
  OBVIOUS
<1>1. /\ r \in RunsOver(Len(t)) /\ RunOK(l, r, t, slack) /\ r.pc = "gate"
      /\ t \in Seq(Entries) /\ Len(t) \in Nat
  BY <1>0, RunOfLane DEF ensure_exhaustion_gate_at_head
<1>2. r.head \in Heads /\ r.doing = "exhaustion_gate" /\ r.leg = "route" /\ r.reread = 0
  BY <1>1 DEF RunOK, Core, Placed
<1>3. CASE Reads(l, Idle)
  BY <1>3, ReadsStep DEF GoesOn
<1>4. ASSUME NEW pc, pc \in {"check", "post gate"}, Reads(l, At(r, pc)),
             pc = "post gate" => Unposted(t, l, "gate", r.head, MaxRounds)
      PROVE  IInv'
  <2>1. PICK s : s = At(r, pc)
    OBVIOUS
  <2>2. pc \in Requests /\ pc \notin ChasePcs
    BY <1>4 DEF Requests, ChasePcs
  <2>3. SameRun(s, r) /\ s.pc = pc /\ s.doing = r.doing
    BY <1>1, <2>1, <2>2, AtIs
  <2>4. Placed(s) /\ Sent(s, t, slack)
    BY <1>2, <1>4, <2>3 DEF Placed, Sent, SameRun, ChasePcs
  <2>7. Onward(l, r, t, pc)
    BY <1>1, <1>4, <2>2 DEF Onward
  <2>5. Core(s, t, slack) /\ Pending(l, s, t) /\ s.pc = pc
    BY <1>1, <2>1, <2>4, <2>7, AtKeeps
  <2>6. GoesOn(s, l, thread, slack)
    BY <1>0, <1>4, <2>5 DEF GoesOn, SendPcs
  <2>. QED
    BY <1>4, <2>1, <2>6, ReadsStep
<1>5. CASE exhaustion_marker_state(t, Len(t), r.head) # "terminal" /\ Reads(l, At(r, "post gate"))
  <2>1. \A i \in Marked(t, Len(t), "gate", r.head) : t[i].about # MaxRounds
    BY <1>5, NotTerminal
  <2>2. Len(t) \in 0 .. Len(t) /\ Len(t) + 1 .. Len(t) = {}
    BY <1>1, Whole
  <2>3. Unposted(t, l, "gate", r.head, MaxRounds)
    BY <1>1, <2>1, <2>2, MarkersSeen
  <2>. QED
    BY <1>4, <1>5, <2>3
<1>6. CASE Reads(l, At(r, "check"))
  BY <1>4, <1>6
<1>. QED
  BY <1>0, <1>3, <1>5, <1>6 DEF ensure_exhaustion_gate_at_head, Now

\* A gate is posted at a head nobody reviewed, or by the route at its verdict's.
LEMMA PostGateKeeps ==
    ASSUME IInv, NEW l \in Lanes, post_gate(l)
    PROVE  IInv'
<1>0. PICK r, t, m : /\ r = lanes[l].run /\ t = thread
                     /\ m = Marker("gate", r.head, "", MaxRounds, l, r.reread)
  OBVIOUS
<1>1. /\ r \in RunsOver(Len(t)) /\ RunOK(l, r, t, slack) /\ r.pc = "post gate"
      /\ t \in Seq(Entries) /\ Len(t) \in Nat
  BY <1>0, RunOfLane DEF post_gate
<1>2. r.head \in Heads /\ r.doing \in {"gate", "exhaustion_gate"}
  BY <1>1 DEF RunOK, Core, Placed
<1>3. r.seen \in 0 .. Len(t) /\ r.reread \in 0 .. Len(t)
  BY <1>1 DEF RunsOver
<1>4. r.head \notin codex_result_heads(t, r.reread)
  <2>1. CASE r.doing = "gate"
    BY <1>1, <2>1 DEF RunOK, Core, Unreviewed
  <2>2. CASE r.doing = "exhaustion_gate"
    <3>1. r.reread = 0
      BY <1>1, <2>2 DEF RunOK, Core, Placed
    <3>. QED
      BY <3>1, NoHeadsYet
  <2>. QED
    BY <1>2, <2>1, <2>2
<1>5. MaxRounds <= Cardinality(codex_result_heads(t, Len(t)))
  <2>1. MaxRounds <= Cardinality(codex_result_heads(t, r.seen))
    <3>1. AtBound(r, t)
      BY <1>1 DEF RunOK, Core
    <3>. QED
      BY <1>2, <3>1 DEF AtBound
  <2>2. Len(t) \in 0 .. Len(t)
    BY <1>1, Whole
  <2>3. /\ Cardinality(codex_result_heads(t, r.seen)) \in Nat
        /\ Cardinality(codex_result_heads(t, r.seen)) <= Cardinality(codex_result_heads(t, Len(t)))
    BY <1>1, <1>3, <2>2, HeadsGrow
  <2>4. Cardinality(codex_result_heads(t, Len(t))) \in Nat
    BY <1>1, <2>2, HeadsGrow
  <2>5. MaxRounds \in Nat
    BY BeltAssumption
  <2>. QED
    BY <2>1, <2>3, <2>4, <2>5
<1>6. m \in Markers /\ m.marks = "gate" /\ m.head = r.head /\ m.about = MaxRounds /\ m.lane = l
      /\ m.reread = r.reread
  <2>1. \A h \in Heads, k \in Lanes, i \in Nat :
          Marker("gate", h, "", MaxRounds, k, i) \in Markers
    BY BeltAssumption DEF Marker, Markers, Marks
  <2>2. r.reread \in Nat
    BY <1>1, <1>3, UpTo
  <2>. QED
    BY <1>0, <1>2, <2>1, <2>2 DEF Marker
<1>7. MarkOK(m, t, slack)
  <2>1. r.reread <= Len(t)
    BY <1>1, <1>3, UpTo
  <2>. QED
    BY <1>4, <1>5, <1>6, <2>1 DEF MarkOK
<1>8. Unposted(t, l, "gate", r.head, MaxRounds)
  BY <1>1 DEF RunOK, Pending
<1>9. MayPost(m, t, slack)
  BY <1>6, <1>7, <1>8 DEF MayPost
<1>10. CASE Comments(l, "gate", "", MaxRounds, Idle)
  <2>1. GoesOnAfter("gate", Idle, l, thread, slack)
    BY DEF GoesOnAfter
  <2>. QED
    BY <1>0, <1>9, <1>10, <2>1, CommentsStep
<1>11. CASE r.leg = "route" /\ Comments(l, "gate", "", MaxRounds, At(r, "check"))
  <2>1. PICK s : s = At(r, "check")
    OBVIOUS
  <2>2. "check" \in Requests /\ "check" \notin ChasePcs
    BY DEF Requests, ChasePcs
  <2>3. SameRun(s, r) /\ s.pc = "check" /\ s.doing = r.doing
    BY <1>1, <2>1, <2>2, AtIs
  <2>4. Placed(s) /\ Sent(s, t, slack) /\ r.doing = "exhaustion_gate"
    BY <1>1, <1>2, <1>11, <2>3 DEF RunOK, Core, Placed, Sent, SameRun, ChasePcs
  <2>7. Onward(l, r, t, "check")
    BY <1>1, <2>2 DEF Onward
  <2>5. Core(s, t, slack)
    BY <1>1, <2>1, <2>4, <2>7, AtKeeps
  <2>6. GoesOnAfter("gate", s, l, thread, slack)
    BY <1>0, <2>3, <2>4, <2>5 DEF GoesOnAfter, SendPcs, ChasePcs, ScanAims
  <2>. QED
    BY <1>0, <1>9, <1>11, <2>1, <2>6, CommentsStep
<1>. QED
  BY <1>0, <1>10, <1>11 DEF post_gate

\* The last look before a post (publishable_at_head).
LEMMA PublishableKeeps ==
    ASSUME IInv, NEW l \in Lanes, publishable_at_head(l)
    PROVE  IInv'
<1>0. PICK r, t : r = lanes[l].run /\ t = thread
  OBVIOUS
<1>1. /\ r \in RunsOver(Len(t)) /\ RunOK(l, r, t, slack) /\ r.pc = "check"
      /\ t \in Seq(Entries) /\ Len(t) \in Nat
  BY <1>0, RunOfLane DEF publishable_at_head
<1>2. r.head \in Heads /\ r.doing # "" /\ r.doing \in Aims
  BY <1>1 DEF RunOK, Core, Placed, RunsOver
<1>3. CASE Reads(l, Idle)
  BY <1>3, ReadsStep DEF GoesOn
<1>4. CASE Live(r.head) /\ Reads(l, At(r, NextPost(r)))
  <2>1. PICK s, pc : s = At(r, pc) /\ pc = NextPost(r)
    OBVIOUS
  <2>2. /\ pc \in Requests /\ pc \in {"post nudge", "wake substitute", "post gate", "wake"}
        /\ pc = "post nudge" => r.doing = "nudge"
        /\ pc = "wake substitute" => r.doing = "summon"
        /\ pc = "post gate" => r.doing = "gate"
        /\ pc = "wake" => r.doing \in {"clean_wake", "exhaustion_gate", "burn_wake", "redelivery"}
    BY <1>2, <2>1 DEF NextPost, Requests, Aims
  <2>3. SameRun(s, r) /\ s.pc = pc /\ s.doing = r.doing
    BY <1>1, <2>1, <2>2, AtIs
  <2>4. Placed(s)
    BY <1>1, <1>2, <2>2, <2>3 DEF RunOK, Core, Placed, SameRun, ChasePcs
  <2>5. Sent(s, t, slack)
    BY <2>2, <2>3 DEF Sent
  <2>6. pc = "post gate" => Unposted(t, l, "gate", r.head, MaxRounds)
    <3>1. SUFFICES ASSUME r.doing = "gate" PROVE Unposted(t, l, "gate", r.head, MaxRounds)
      BY <2>2
    <3>2. "gate" \in ScanAims
      BY DEF ScanAims
    <3>. QED
      BY <1>1, <3>1, <3>2 DEF RunOK, Pending, About
  <2>10. Onward(l, r, t, pc)
    BY <1>1, <2>2, <2>6 DEF Onward, ChasePcs
  <2>7. Core(s, t, slack) /\ Pending(l, s, t) /\ s.pc # "idle"
    BY <1>1, <2>1, <2>4, <2>5, <2>10, AtKeeps
  <2>8. Live(s.head)
    BY <1>4, <2>3 DEF SameRun
  <2>9. GoesOn(s, l, thread, slack)
    BY <1>0, <2>7, <2>8 DEF GoesOn
  <2>. QED
    BY <1>4, <2>1, <2>9, ReadsStep
<1>. QED
  BY <1>0, <1>3, <1>4 DEF publishable_at_head

\* Evidence in a thread, and the look before the message that dispatches
\* (post_threaded_messages, retrospective_check).
LEMMA ThreadedKeeps ==
    ASSUME IInv, NEW l \in Lanes, post_threaded_messages(l) \/ retrospective_check(l)
    PROVE  IInv'
<1>0. PICK r, t : r = lanes[l].run /\ t = thread
  OBVIOUS
<1>1. /\ r \in RunsOver(Len(t)) /\ RunOK(l, r, t, slack) /\ r.pc \in {"wake", "retrospective"}
      /\ t \in Seq(Entries) /\ Len(t) \in Nat
  BY <1>0, RunOfLane DEF post_threaded_messages, retrospective_check
<1>2. CASE Reads(l, Idle)
  BY <1>2, ReadsStep DEF GoesOn
<1>3. ASSUME NEW pc, pc \in {"dispatch", "wake retrospective"},
             pc = "dispatch" => r.pc = "wake",
             pc = "wake retrospective" => r.pc = "retrospective",
             Live(r.head), Reads(l, At(r, pc))
      PROVE  IInv'
  <2>1. PICK s : s = At(r, pc)
    OBVIOUS
  <2>2. pc \in Requests /\ pc \notin ChasePcs
    BY <1>3 DEF Requests, ChasePcs
  <2>3. SameRun(s, r) /\ s.pc = pc /\ s.doing = r.doing
    BY <1>1, <2>1, <2>2, AtIs
  <2>4. Placed(s)
    BY <1>1, <1>3, <2>3 DEF RunOK, Core, Placed, SameRun, ChasePcs
  <2>5. Sent(s, t, slack)
    BY <1>3, <2>3 DEF Sent
  <2>9. Onward(l, r, t, pc)
    BY <1>1, <1>3, <2>2 DEF Onward
  <2>6. Core(s, t, slack) /\ Pending(l, s, t) /\ s.pc # "idle"
    BY <1>1, <2>1, <2>4, <2>5, <2>9, AtKeeps
  <2>7. Live(s.head)
    BY <1>3, <2>3 DEF SameRun
  <2>8. GoesOn(s, l, thread, slack)
    BY <1>0, <2>6, <2>7 DEF GoesOn
  <2>. QED
    BY <1>3, <2>1, <2>8, ReadsStep
<1>4. CASE post_threaded_messages(l)
  <2>1. Reads(l, Idle) \/ (r.pc = "wake" /\ Live(r.head) /\ Reads(l, At(r, "dispatch")))
    BY <1>0, <1>4 DEF post_threaded_messages
  <2>. QED
    BY <1>2, <1>3, <2>1
<1>5. CASE retrospective_check(l)
  <2>1. Reads(l, Idle)
        \/ (r.pc = "retrospective" /\ Live(r.head) /\ Reads(l, At(r, "wake retrospective")))
    BY <1>0, <1>5 DEF retrospective_check
  <2>. QED
    BY <1>2, <1>3, <2>1
<1>. QED
  BY <1>4, <1>5

\* A wake of the route or of a redelivery (deliver_wake).
LEMMA DeliverKeeps ==
    ASSUME IInv, NEW l \in Lanes, deliver_wake(l)
    PROVE  IInv'
<1>. DEFINE After(x) == CASE x.doing = "exhaustion_gate" -> At(x, "retrospective")
                          [] x.doing = "redelivery" -> At(x, "mark")
                          [] OTHER -> Idle
<1>0. PICK r, t, S2 : r = lanes[l].run /\ t = thread /\ S2 = slack'
  OBVIOUS
<1>1. /\ r \in RunsOver(Len(t)) /\ RunOK(l, r, t, slack) /\ r.pc \in {"wake", "dispatch"}
      /\ t \in Seq(Entries) /\ Len(t) \in Nat
  BY <1>0, RunOfLane DEF deliver_wake
<1>2. /\ r.head \in Heads
      /\ r.doing \in {"clean_wake", "exhaustion_gate", "burn_wake", "redelivery"}
  BY <1>1 DEF RunOK, Core, Placed
<1>3. Wakes(l, r.doing, After(r)) /\ told' = [told EXCEPT ![r.head] = r.on]
  BY <1>0 DEF deliver_wake
<1>4. MayWake(r.doing, r, t)
  <2>1. r.live
    BY <1>1 DEF RunOK, Sends, SendPcs
  <2>2. r.doing = "redelivery" => NoneAfter(t, r.reread, r.head, r.on)
    BY <1>1 DEF RunOK, Core, Newest
  <2>3. (r.doing = "clean_wake" \/ (r.doing = "redelivery" /\ CleanAt(t, r.on))) =>
          Subject(t, r.closed, r.on)
    BY <1>1 DEF RunOK, Core, Looked
  <2>4. /\ Rightly(r.doing, t, r.head, r.on)
        /\ r.doing = "exhaustion_gate" => MaxRounds <= Cardinality(codex_result_heads(t, Len(t)))
    BY <1>1, SpentNow DEF RunOK, Core
  <2>. QED
    BY <1>2, <2>1, <2>2, <2>3, <2>4 DEF MayWake
<1>5. told' \in [Heads -> 0 .. Len(thread)]
  <2>1. told \in [Heads -> 0 .. Len(t)]
    BY <1>0 DEF IInv, TypeOK, Now
  <2>2. r.on \in 0 .. Len(t)
    BY <1>1 DEF RunsOver
  <2>. QED
    BY <1>0, <1>2, <1>3, <2>1, <2>2
<1>6. /\ slack \subseteq S2
      /\ \E w \in S2 : w.kind = r.doing /\ w.head = r.head /\ w.on = r.on
  BY <1>0, <1>3, WakePosted
<1>7. ASSUME NEW pc, pc \in {"retrospective", "mark"},
             pc = "retrospective" => r.doing = "exhaustion_gate",
             pc = "mark" => r.doing = "redelivery",
             NEW s, s = At(r, pc)
      PROVE  GoesOnAwake(s, l, thread, slack')
  <2>1. pc \in Requests /\ pc \notin ChasePcs
    BY <1>7 DEF Requests, ChasePcs
  <2>2. SameRun(s, r) /\ s.pc = pc /\ s.doing = r.doing
    BY <1>1, <1>7, <2>1, AtIs
  <2>3. Placed(s)
    BY <1>1, <1>2, <1>7, <2>2 DEF RunOK, Core, Placed, SameRun, ChasePcs
  <2>4. Sent(s, t, S2)
    BY <1>6, <1>7, <2>2 DEF Sent, SameRun
  <2>5. Onward(l, r, t, pc)
    BY <1>1, <1>7, <2>1 DEF Onward
  <2>6. Core(s, t, S2) /\ Pending(l, s, t)
    BY <1>1, <1>6, <1>7, <2>3, <2>4, <2>5, AtKeeps
  <2>. QED
    BY <1>0, <1>7, <2>2, <2>6 DEF GoesOnAwake, SendPcs
<1>8. GoesOnAwake(After(r), l, thread, slack')
  <2>1. PICK s : s = After(r)
    OBVIOUS
  <2>2. CASE r.doing = "exhaustion_gate"
    <3>1. s = At(r, "retrospective")
      BY <2>1, <2>2
    <3>2. GoesOnAwake(s, l, thread, slack')
      BY <1>7, <2>2, <3>1
    <3>. QED
      BY <2>1, <3>2
  <2>3. CASE r.doing = "redelivery"
    <3>1. s = At(r, "mark")
      BY <2>1, <2>3
    <3>2. GoesOnAwake(s, l, thread, slack')
      BY <1>7, <2>3, <3>1
    <3>. QED
      BY <2>1, <3>2
  <2>4. CASE r.doing \notin {"exhaustion_gate", "redelivery"}
    BY <2>4 DEF GoesOnAwake
  <2>. QED
    BY <2>2, <2>3, <2>4
<1>. QED
  BY <1>0, <1>3, <1>4, <1>5, <1>8, WakesStep

\* A wake that a marker or a receipt follows
\* (publish_exhaustion_retrospective, wake_substitute, wake_chase).
LEMMA WakeAndMarkKeeps ==
    ASSUME IInv, NEW l \in Lanes,
           publish_exhaustion_retrospective(l) \/ wake_substitute(l) \/ wake_chase(l)
    PROVE  IInv'
<1>0. PICK r, t, S2 : r = lanes[l].run /\ t = thread /\ S2 = slack'
  OBVIOUS
<1>1. /\ r \in RunsOver(Len(t)) /\ RunOK(l, r, t, slack)
      /\ t \in Seq(Entries) /\ Len(t) \in Nat
  BY <1>0, RunOfLane
<1>2. ASSUME NEW kind, NEW pc, Wakes(l, kind, At(r, pc)), UNCHANGED told,
             \/ r.pc = "wake retrospective" /\ kind = "retrospective" /\ pc = "receipt"
             \/ r.pc = "wake substitute" /\ kind = "summon" /\ pc = "post summon"
             \/ r.pc = "wake chase" /\ kind = "chase" /\ pc = "post chase"
      PROVE  IInv'
  <2>1. r.head \in Heads
    BY <1>1, <1>2 DEF RunOK, Core, Placed
  <2>2. MayWake(kind, r, t)
    <3>1. kind # "chase" => r.live
      BY <1>1, <1>2 DEF RunOK, Sends, SendPcs
    <3>2. kind = "summon" => NoneAfter(t, r.reread, r.head, r.on)
      <4>1. SUFFICES ASSUME r.pc = "wake substitute" PROVE NoneAfter(t, r.reread, r.head, r.on)
        BY <1>2
      <4>2. r.head \notin codex_result_heads(t, r.reread)
        BY <1>1, <4>1 DEF RunOK, Core, Unreviewed, Placed
      <4>. QED
        BY <4>2 DEF NoneAfter, codex_result_heads, result_heads_from_events
    <3>3. kind = "retrospective" => MaxRounds <= Cardinality(codex_result_heads(t, Len(t)))
      BY <1>1, <1>2, SpentNow DEF RunOK, Core, Placed
    <3>4. Rightly(kind, t, r.head, r.on)
      <4>1. kind = "retrospective" => Rightly("exhaustion_gate", t, r.head, r.on)
        BY <1>1, <1>2, SpentNow DEF RunOK, Core, Placed
      <4>. QED
        BY <1>2, <4>1 DEF Rightly, SendsBack
    <3>. QED
      BY <1>2, <2>1, <3>1, <3>2, <3>3, <3>4 DEF MayWake
  <2>3. told' \in [Heads -> 0 .. Len(thread)]
    BY <1>2 DEF IInv, TypeOK, Now
  <2>4. slack \subseteq S2 /\ Woken(S2, kind, r.head)
    BY <1>0, <1>2, WakePosted
  <2>5. PICK s : s = At(r, pc)
    OBVIOUS
  <2>6. pc \in Requests /\ (pc \in ChasePcs => r.pc \in ChasePcs)
    BY <1>2 DEF Requests, ChasePcs
  <2>7. SameRun(s, r) /\ s.pc = pc /\ s.doing = r.doing
    BY <1>1, <2>5, <2>6, AtIs
  <2>8. Placed(s)
    BY <1>1, <1>2, <2>1, <2>7 DEF RunOK, Core, Placed, SameRun, ChasePcs
  <2>9. Sent(s, t, S2)
    BY <1>2, <2>4, <2>7 DEF Sent, SameRun
  <2>10. Onward(l, r, t, pc)
    BY <1>2, <2>6 DEF Onward
  <2>11. Core(s, t, S2) /\ Pending(l, s, t)
    BY <1>1, <2>4, <2>5, <2>8, <2>9, <2>10, AtKeeps
  <2>12. GoesOnAwake(s, l, thread, slack')
    BY <1>0, <1>2, <2>7, <2>11 DEF GoesOnAwake, SendPcs
  <2>. QED
    BY <1>0, <1>2, <2>2, <2>3, <2>5, <2>12, WakesStep
<1>3. CASE publish_exhaustion_retrospective(l)
  BY <1>0, <1>2, <1>3 DEF publish_exhaustion_retrospective
<1>4. CASE wake_substitute(l)
  BY <1>0, <1>2, <1>4 DEF wake_substitute
<1>5. CASE wake_chase(l)
  BY <1>0, <1>2, <1>5 DEF wake_chase
<1>. QED
  BY <1>3, <1>4, <1>5

-----------------------------------------------------------------------------
(* The scan.                                                               *)

\* A run's last request is a marker.
LEMMA LastPostKeeps ==
    ASSUME IInv, NEW l \in Lanes, NEW marks, marks \in {"nudge", "summon", "redelivery", "skip"},
           NEW about \in Nat, NEW r, r = lanes[l].run, NEW t, t = thread, r.head \in Heads,
           Comments(l, marks, "", about, Idle),
           MarkOK(Marker(marks, r.head, "", about, l, r.reread), t, slack),
           Unposted(t, l, marks, r.head, about)
    PROVE  IInv'
<1>1. r \in RunsOver(Len(t)) /\ Len(t) \in Nat
  BY RunOfLane
<1>2. r.reread \in Nat
  <2>1. r.reread \in 0 .. Len(t)
    BY <1>1 DEF RunsOver
  <2>. QED
    BY <1>1, <2>1, UpTo
<1>3. PICK m : m = Marker(marks, r.head, "", about, l, r.reread)
  OBVIOUS
<1>4. m \in Markers /\ m.lane = l /\ m.marks = marks /\ m.head = r.head /\ m.about = about
  <2>1. \A h \in Heads, k \in Lanes, i \in Nat, j \in Nat :
          Marker(marks, h, "", j, k, i) \in Markers
    BY DEF Marker, Markers, Marks
  <2>. QED
    BY <1>2, <1>3, <2>1 DEF Marker
<1>5. MayPost(m, thread, slack)
  BY <1>3, <1>4 DEF MayPost
<1>6. GoesOnAfter(marks, Idle, l, thread, slack)
  BY DEF GoesOnAfter
<1>. QED
  BY <1>3, <1>5, <1>6, CommentsStep

\* The markers of the scan (post_nudge, post_summon, mark_redelivery,
\* record_review_skip).
LEMMA ScanPostsKeep ==
    ASSUME IInv, NEW l \in Lanes,
           post_nudge(l) \/ post_summon(l) \/ mark_redelivery(l) \/ record_review_skip(l)
    PROVE  IInv'
<1>0. PICK r, t : r = lanes[l].run /\ t = thread
  OBVIOUS
<1>1. /\ r \in RunsOver(Len(t)) /\ RunOK(l, r, t, slack)
      /\ t \in Seq(Entries) /\ Len(t) \in Nat
  BY <1>0, RunOfLane
<1>2. r.reread <= Len(t) /\ r.on \in Nat
  <2>1. r.reread \in 0 .. Len(t) /\ r.on \in 0 .. Len(t)
    BY <1>1 DEF RunsOver
  <2>. QED
    BY <1>1, <2>1, UpTo
<1>3. ASSUME NEW marks, NEW about, Comments(l, marks, "", about, Idle), about \in Nat,
             \/ r.pc = "post nudge" /\ marks = "nudge" /\ about = 0
             \/ r.pc = "post summon" /\ marks = "summon" /\ about = 0
             \/ r.pc = "mark" /\ marks = "redelivery" /\ about = r.on
             \/ r.pc = "post skip" /\ marks = "skip" /\ about = 0
      PROVE  IInv'
  <2>1. /\ r.head \in Heads
        /\ marks \in {"nudge", "summon", "redelivery"} => r.doing = marks
    BY <1>1, <1>3 DEF RunOK, Core, Placed
  <2>2. Unposted(t, l, marks, r.head, about)
    <3>1. CASE marks = "skip"
      BY <1>1, <1>3, <3>1 DEF RunOK, Pending
    <3>2. CASE marks \in {"nudge", "summon", "redelivery"}
      <4>1. r.doing \in ScanAims
        BY <2>1, <3>2 DEF ScanAims
      <4>2. Pending(l, r, t)
        BY <1>1 DEF RunOK
      <4>3. CASE marks = "redelivery"
        <5>1. Unposted(t, l, r.doing, r.head, r.on)
          BY <2>1, <4>1, <4>2, <4>3 DEF Pending, About
        <5>. QED
          BY <1>3, <2>1, <4>3, <5>1
      <4>4. CASE marks \in {"nudge", "summon"}
        <5>1. Unposted(t, l, r.doing, r.head, 0)
          BY <2>1, <4>1, <4>2, <4>4 DEF Pending, About
        <5>. QED
          BY <1>3, <2>1, <4>4, <5>1
      <4>. QED
        BY <3>2, <4>3, <4>4
    <3>. QED
      BY <1>3, <3>1, <3>2
  <2>3. PICK m : m = Marker(marks, r.head, "", about, l, r.reread)
    OBVIOUS
  <2>4. m.marks = marks /\ m.head = r.head /\ m.about = about /\ m.reread = r.reread
    BY <2>3 DEF Marker
  <2>5. marks \in {"nudge", "summon"} => r.head \notin codex_result_heads(t, r.reread)
    BY <1>1, <1>3, <2>1 DEF RunOK, Core, Unreviewed
  <2>6. /\ marks = "summon" => Woken(slack, "summon", r.head)
        /\ marks = "redelivery" =>
             \E w \in slack : w.kind = "redelivery" /\ w.head = r.head /\ w.on = about
    BY <1>1, <1>3 DEF RunOK, Core, Sent
  <2>7. MarkOK(m, t, slack)
    BY <1>2, <1>3, <2>4, <2>5, <2>6 DEF MarkOK
  <2>. QED
    BY <1>0, <1>3, <2>1, <2>2, <2>3, <2>7, LastPostKeeps
<1>4. CASE post_nudge(l)
  BY <1>0, <1>3, <1>4 DEF post_nudge
<1>5. CASE post_summon(l)
  BY <1>0, <1>3, <1>5 DEF post_summon
<1>6. CASE mark_redelivery(l)
  BY <1>0, <1>2, <1>3, <1>6 DEF mark_redelivery
<1>7. CASE record_review_skip(l)
  BY <1>0, <1>3, <1>7 DEF record_review_skip
<1>. QED
  BY <1>4, <1>5, <1>6, <1>7

\* A push starts a scan, or is marked as skipped (summon_on_push).
LEMMA PushKeeps ==
    ASSUME IInv, NEW l \in Lanes, summon_on_push(l)
    PROVE  IInv'
<1>0. PICK r, t, h : r = lanes[l].run /\ t = thread /\ h = head
  OBVIOUS
<1>1. /\ r \in RunsOver(Len(t)) /\ RunOK(l, r, t, slack) /\ r.pc = "start" /\ r.leg = "push"
      /\ t \in Seq(Entries) /\ Len(t) \in Nat
  <2>1. lanes[l].run \in RunsOver(Len(thread))
    BY RunOfLane
  <2>2. [lanes[l].run EXCEPT !.head = head].pc = lanes[l].run.pc
        /\ [lanes[l].run EXCEPT !.head = head].leg = lanes[l].run.leg
    BY <2>1 DEF RunsOver
  <2>. QED
    BY <1>0, <2>2, RunOfLane DEF summon_on_push
<1>2. h \in Heads
  BY <1>0 DEF IInv, TypeOK
<1>3. r.doing = "" /\ r.reread = 0
  BY <1>1 DEF RunOK, Core, Placed
<1>4. PICK a : a = SetHead(r, h)
  OBVIOUS
<1>5. a \in RunsOver(Len(t)) /\ a.head = h /\ a.doing = "" /\ a.reread = 0 /\ a.leg = "push"
  <2>1. a \in RunsOver(Len(t))
    BY <1>1, <1>2, <1>4, HeadRead
  <2>2. a = [r EXCEPT !.head = h]
    BY <1>4 DEF SetHead
  <2>. QED
    BY <1>1, <1>3, <2>1, <2>2 DEF RunsOver
<1>6. a = [lanes[l].run EXCEPT !.head = head]
  BY <1>0, <1>4 DEF SetHead
<1>7. CASE Reads(l, Idle)
  BY <1>7, ReadsStep DEF GoesOn
<1>8. CASE Reads(l, At(a, "scan"))
  <2>1. PICK s : s = At(a, "scan")
    OBVIOUS
  <2>2. "scan" \in Requests
    BY DEF Requests
  <2>3. s \in RunsOver(Len(t)) /\ SameRun(s, a) /\ s.pc = "scan" /\ s.doing = a.doing
    BY <1>1, <1>5, <2>1, <2>2, AtIs
  <2>4. s.leg = "push" /\ s.doing = "" /\ s.head \in Heads /\ s.reread = 0
    BY <1>2, <1>5, <2>3 DEF SameRun
  <2>5. Core(s, t, slack) /\ Pending(l, s, t)
    BY <2>3, <2>4, ScanGoesOn
  <2>6. GoesOn(s, l, thread, slack)
    BY <1>0, <2>3, <2>5 DEF GoesOn, SendPcs
  <2>. QED
    BY <1>8, <2>1, <2>6, ReadsStep
<1>9. CASE ~marker_comment_exists(t, Len(t), "skip", h) /\ Reads(l, At(a, "post skip"))
  <2>1. PICK s : s = At(a, "post skip")
    OBVIOUS
  <2>2. "post skip" \in Requests
    BY DEF Requests
  <2>3. s \in RunsOver(Len(t)) /\ SameRun(s, a) /\ s.pc = "post skip" /\ s.doing = a.doing
    BY <1>1, <1>5, <2>1, <2>2, AtIs
  <2>4. s.leg = "push" /\ s.doing = "" /\ s.head = h /\ s.reread = 0
    BY <1>2, <1>5, <2>3 DEF SameRun
  <2>5. Placed(s)
    BY <1>2, <2>3, <2>4 DEF Placed, ChasePcs
  <2>6. Sent(s, t, slack) /\ Looked(s, t) /\ Unreviewed(s, t) /\ Newest(s, t)
    BY <2>3, <2>4 DEF Sent, Looked, Unreviewed, Newest
  <2>7. AtBound(s, t)
    BY <2>3, <2>4 DEF AtBound, Unproven, Rightly, SendsBack
  <2>8. Unposted(t, l, "skip", h, 0)
    BY <1>1, <1>9, MarkersMarked DEF marker_comment_exists
  <2>9. Pending(l, s, t)
    BY <2>3, <2>4, <2>8 DEF Pending, ScanAims, ChasePcs
  <2>10. GoesOn(s, l, thread, slack)
    BY <1>0, <2>3, <2>5, <2>6, <2>7, <2>9 DEF GoesOn, Core, SendPcs
  <2>. QED
    BY <1>9, <2>1, <2>10, ReadsStep
<1>10. PICK f : f = [lanes[l].run EXCEPT !.head = head]
  OBVIOUS
<1>11. \/ Reads(l, Idle) \/ Reads(l, At(f, "scan"))
       \/ ~marker_comment_exists(t, Len(t), "skip", h) /\ Reads(l, At(f, "post skip"))
  BY <1>0, <1>10 DEF summon_on_push, Now
<1>. QED
  BY <1>6, <1>7, <1>8, <1>9, <1>10, <1>11

SetOn(r, at) == [r EXCEPT !.on = at]
SetReread(r, n) == [r EXCEPT !.reread = n]

\* The lane has posted nothing since the run read the record.
NotSince(l, t, n) == \A i \in n + 1 .. Len(t) : ~(t[i].via = "marker" /\ t[i].lane = l)

\* A run that takes an aim (Doing).
LEMMA DoingIs ==
    ASSUME NEW n \in Nat, NEW r \in RunsOver(n), NEW doing \in Aims, NEW pc \in Requests
    PROVE  /\ Doing(r, doing, pc) \in RunsOver(n) /\ SameRun(Doing(r, doing, pc), r)
           /\ Doing(r, doing, pc).pc = pc /\ Doing(r, doing, pc).doing = doing
BY DEF Doing, RunsOver, SameRun

(* A scan knows the pull request it read, and has no aim yet.              *)
Scanning(l, r, t) ==
    /\ r \in RunsOver(Len(t)) /\ r.doing = "" /\ r.leg # "route" /\ r.head \in Heads
    /\ r.reread = 0 /\ NotSince(l, t, r.seen)

(* What a scan aims at: s is what it goes on with.                         *)
Aimed(s, r) ==
    /\ s.leg = r.leg /\ s.head = r.head /\ s.seen = r.seen /\ s.reread = r.reread
    /\ s.doing \in ScanAims /\ s.pc \in {"close", "reread"}
    /\ s.pc = "close" => s.doing = "redelivery"

\* A scan goes on with an aim that the record gives it.
LEMMA AimGoesOn ==
    ASSUME NEW t, NEW S, NEW l, NEW r, Scanning(l, r, t), NEW s \in RunsOver(Len(t)), Aimed(s, r),
           Looked(s, t), Unreviewed(s, t), Newest(s, t), AtBound(s, t),
           Unposted(t, l, s.doing, s.head, About(s))
    PROVE  Core(s, t, S) /\ Pending(l, s, t)
<1>1. s.doing \in {"redelivery", "nudge", "summon", "gate"} /\ s.pc \in {"close", "reread"}
      /\ s.leg # "route" /\ s.head \in Heads /\ (s.pc = "close" => s.doing = "redelivery")
  BY DEF Aimed, Scanning, ScanAims
<1>2. Placed(s)
  BY <1>1 DEF Placed, ChasePcs
<1>3. Sent(s, t, S)
  BY <1>1 DEF Sent
<1>4. Pending(l, s, t)
  BY <1>1 DEF Pending, ChasePcs
<1>. QED
  BY <1>2, <1>3, <1>4 DEF Core

GoesFromScan(next, l, t, S) ==
    next # Idle => /\ next.pc \in {"close", "reread"} /\ next.doing \in ScanAims
                   /\ Core(next, t, S) /\ Pending(l, next, t)

\* The redelivery (redeliver_standing_wake).
LEMMA RedeliveryGoesOn ==
    ASSUME NEW t \in Seq(Entries), t = thread, Len(t) \in Nat, NEW S, NEW l, NEW r,
           Scanning(l, r, t), r.head \in codex_result_heads(t, r.seen)
    PROVE  GoesFromScan(redeliver_standing_wake(r), l, t, S)
<1>. DEFINE at == standing_verdict_time(t, r.seen, r.head)
            won == latest_result_by_head(codex_result_events(t, r.seen), r.head)
<1>1. r \in RunsOver(Len(t)) /\ r.head \in Heads /\ r.seen \in 0 .. Len(t)
  BY DEF Scanning, RunsOver
<1>2. /\ won \in codex_result_events(t, r.seen) /\ won.head = r.head /\ won.at \in 1 .. r.seen
      /\ \A e \in codex_result_events(t, r.seen) : e.head = r.head => e.at <= won.at
      /\ won \in Events
  BY <1>1, LatestResult
<1>3. at = won.at
  BY <1>1, StandingIsLatest
<1>. HIDE DEF at, won
<1>4. at \in 0 .. Len(t)
  BY <1>1, <1>2, <1>3
<1>5. ASSUME NEW pc, pc = (IF won.kind = "clean" THEN "close" ELSE "reread"),
             MarkedAbout(t, r.seen, "redelivery", r.head, at) = {},
             won.kind = "findings" => Cardinality(codex_result_heads(t, r.seen)) < MaxRounds,
             NEW s, s = SetOn(Doing(r, "redelivery", pc), at)
      PROVE  GoesFromScan(s, l, t, S)
  <2>1. pc \in {"close", "reread"} /\ pc \in Requests /\ "redelivery" \in Aims
    BY <1>5 DEF Requests, Aims
  <2>2. PICK d : d = Doing(r, "redelivery", pc)
    OBVIOUS
  <2>3. d \in RunsOver(Len(t)) /\ SameRun(d, r) /\ d.pc = pc /\ d.doing = "redelivery"
    BY <1>1, <2>1, <2>2, DoingIs
  <2>4. s = [d EXCEPT !.on = at]
    BY <1>5, <2>2 DEF SetOn
  <2>5. s \in RunsOver(Len(t))
    BY <1>4, <2>3, <2>4 DEF RunsOver
  <2>6. /\ s.on = at /\ s.pc = pc /\ s.doing = "redelivery" /\ s.leg = r.leg /\ s.head = r.head
        /\ s.seen = r.seen /\ s.reread = r.reread
    BY <1>4, <2>3, <2>4 DEF RunsOver, SameRun
  <2>7. Aimed(s, r)
    BY <2>1, <2>6 DEF Aimed, ScanAims
  <2>8. Newest(s, t)
    <3>1. NoneAfter(t, r.seen, r.head, at)
      BY <1>2, <1>3 DEF NoneAfter
    <3>2. \E e \in codex_result_events(t, r.seen) : e.head = r.head /\ e.at = at
      BY <1>2, <1>3
    <3>. QED
      BY <2>1, <2>6, <3>1, <3>2 DEF Newest
  <2>9. Looked(s, t)
    <3>1. SUFFICES ASSUME pc = "reread", CleanAt(t, at) PROVE FALSE
      BY <2>1, <2>6 DEF Looked
    <3>2. PICK e \in codex_result_events(t, Len(t)) : e.at = at /\ e.kind = "clean"
      BY <3>1 DEF CleanAt
    <3>3. Len(t) \in 0 .. Len(t)
      BY Whole
    <3>4. won \in codex_result_events(t, Len(t))
      BY <1>1, <1>2, <3>3, EventsLater
    <3>5. won = e
      BY <1>3, <3>2, <3>3, <3>4, EventsTyped
    <3>. QED
      BY <1>5, <3>1, <3>2, <3>5
  <2>10. Unreviewed(s, t)
    BY <2>6 DEF Unreviewed
  <2>20. AtBound(s, t)
    <3>1. SUFFICES Rightly("redelivery", t, r.head, at)
      BY <2>1, <2>6 DEF AtBound, Unproven, Scanning
    <3>2. Len(t) \in 0 .. Len(t)
      BY Whole
    <3>3. won \in codex_result_events(t, Len(t)) /\ won.kind \in {"clean", "findings"}
      BY <1>1, <1>2, <3>2, EventsLater DEF Events
    <3>4. Verdict(t, r.seen, r.head, at)
      BY <1>2, <1>3 DEF Verdict
    <3>5. CASE won.kind = "findings"
      <4>1. Below(t, r.head, at)
        BY <1>1, <1>5, <3>4, <3>5 DEF Below
      <4>2. GivenAt(t, r.head, "findings")
        BY <1>2, <3>3, <3>5 DEF GivenAt
      <4>3. ~CleanAt(t, at)
        <5>1. SUFFICES ASSUME CleanAt(t, at) PROVE FALSE
          OBVIOUS
        <5>2. PICK e \in codex_result_events(t, Len(t)) : e.at = at /\ e.kind = "clean"
          BY <5>1 DEF CleanAt
        <5>3. won = e
          BY <1>3, <3>2, <3>3, <5>2, EventsTyped
        <5>. QED
          BY <3>5, <5>2, <5>3
      <4>. QED
        BY <4>1, <4>2, <4>3 DEF Rightly
    <3>6. CASE won.kind = "clean"
      <4>1. CleanAt(t, at)
        BY <1>3, <3>3, <3>6 DEF CleanAt
      <4>2. GivenAt(t, r.head, "clean")
        BY <1>2, <3>3, <3>6 DEF GivenAt
      <4>. QED
        BY <4>1, <4>2 DEF Rightly, SendsBack
    <3>. QED
      BY <3>3, <3>5, <3>6
  <2>11. Unposted(t, l, "redelivery", r.head, at)
    <3>1. \A i \in Marked(t, r.seen, "redelivery", r.head) : t[i].about # at
      BY <1>5 DEF MarkedAbout
    <3>2. \A i \in r.seen + 1 .. Len(t) :
            ~(t[i].via = "marker" /\ t[i].lane = l /\ t[i].marks = "redelivery")
      BY DEF Scanning, NotSince
    <3>. QED
      BY <1>1, <3>1, <3>2, MarkersSeen
  <2>12. Unposted(t, l, s.doing, s.head, About(s))
    BY <2>6, <2>11 DEF About
  <2>13. Core(s, t, S) /\ Pending(l, s, t)
    BY <2>5, <2>7, <2>8, <2>9, <2>10, <2>12, <2>20, AimGoesOn
  <2>. QED
    BY <2>7, <2>13 DEF GoesFromScan, Aimed
<1>6. PICK pc : pc = IF won.kind = "clean" THEN "close" ELSE "reread"
  OBVIOUS
<1>7. \/ redeliver_standing_wake(r) = Idle
      \/ /\ MarkedAbout(t, r.seen, "redelivery", r.head, at) = {}
         /\ won.kind = "findings" => Cardinality(codex_result_heads(t, r.seen)) < MaxRounds
         /\ redeliver_standing_wake(r) = SetOn(Doing(r, "redelivery", pc), at)
  BY <1>6 DEF redeliver_standing_wake, SetOn, at, won
<1>8. CASE redeliver_standing_wake(r) = Idle
  BY <1>8 DEF GoesFromScan
<1>9. CASE /\ MarkedAbout(t, r.seen, "redelivery", r.head, at) = {}
           /\ won.kind = "findings" => Cardinality(codex_result_heads(t, r.seen)) < MaxRounds
           /\ redeliver_standing_wake(r) = SetOn(Doing(r, "redelivery", pc), at)
  <2>1. PICK s : s = SetOn(Doing(r, "redelivery", pc), at)
    OBVIOUS
  <2>2. GoesFromScan(s, l, t, S)
    BY <1>5, <1>6, <1>9, <2>1
  <2>. QED
    BY <1>9, <2>1, <2>2
<1>. QED
  BY <1>7, <1>8, <1>9

\* A gate, a nudge or a summon at a head without a result (Branches, summon).
LEMMA UnreviewedGoesOn ==
    ASSUME NEW t \in Seq(Entries), t = thread, Len(t) \in Nat, NEW S, NEW l, NEW r,
           Scanning(l, r, t), r.head \notin codex_result_heads(t, r.seen),
           NEW doing, doing \in {"gate", "nudge", "summon"},
           doing = "gate" => MaxRounds <= Cardinality(codex_result_heads(t, r.seen)),
           NEW about, about = (IF doing = "gate" THEN MaxRounds ELSE 0),
           \A i \in Marked(t, r.seen, doing, r.head) : t[i].about # about,
           NEW s, s = Doing(r, doing, "reread")
    PROVE  GoesFromScan(s, l, t, S)
<1>1. r \in RunsOver(Len(t)) /\ r.seen \in 0 .. Len(t)
  BY DEF Scanning, RunsOver
<1>2. doing \in Aims /\ "reread" \in Requests /\ doing \in ScanAims
  BY DEF Aims, Requests, ScanAims
<1>3. s \in RunsOver(Len(t)) /\ SameRun(s, r) /\ s.pc = "reread" /\ s.doing = doing
  BY <1>1, <1>2, DoingIs
<1>4. Aimed(s, r)
  BY <1>2, <1>3 DEF Aimed, SameRun
<1>5. Looked(s, t) /\ Newest(s, t)
  BY <1>3 DEF Looked, Newest
<1>6. Unreviewed(s, t)
  BY <1>3 DEF Unreviewed, SameRun
<1>7. AtBound(s, t)
  <2>1. s.leg # "route" /\ s.seen = r.seen
    BY <1>3 DEF SameRun, Scanning
  <2>. QED
    BY <1>3, <2>1 DEF AtBound, Unproven, Rightly, SendsBack
<1>8. Unposted(t, l, s.doing, s.head, About(s))
  <2>1. \A i \in r.seen + 1 .. Len(t) :
          ~(t[i].via = "marker" /\ t[i].lane = l /\ t[i].marks = doing)
    BY DEF Scanning, NotSince
  <2>2. Unposted(t, l, doing, r.head, about)
    BY <1>1, <2>1, MarkersSeen
  <2>. QED
    BY <1>3, <2>2 DEF About, SameRun
<1>9. Core(s, t, S) /\ Pending(l, s, t)
  BY <1>3, <1>4, <1>5, <1>6, <1>7, <1>8, AimGoesOn
<1>. QED
  BY <1>3, <1>4, <1>9 DEF GoesFromScan, Aimed

\* What the scan goes on to after the chase (Branches).
LEMMA BranchesGoOn ==
    ASSUME NEW t \in Seq(Entries), t = thread, Len(t) \in Nat, NEW S, NEW l, NEW r,
           Scanning(l, r, t), NEW next, next \in Branches(r)
    PROVE  GoesFromScan(next, l, t, S)
<1>1. CASE next = Idle
  BY <1>1 DEF GoesFromScan
<1>2. CASE r.head \in codex_result_heads(t, r.seen) /\ next = redeliver_standing_wake(r)
  BY <1>2, RedeliveryGoesOn
<1>3. CASE /\ r.head \notin codex_result_heads(t, r.seen)
           /\ Cardinality(codex_result_heads(t, r.seen)) >= MaxRounds
           /\ exhaustion_marker_state(t, r.seen, r.head) # "terminal"
           /\ next = Doing(r, "gate", "reread")
  <2>1. \A i \in Marked(t, r.seen, "gate", r.head) : t[i].about # MaxRounds
    BY <1>3, NotTerminal
  <2>2. r.seen \in 0 .. Len(t)
    BY DEF Scanning, RunsOver
  <2>3. r.seen \in 0 .. r.seen
    BY <2>2, UpTo
  <2>4. Cardinality(codex_result_heads(t, r.seen)) \in Nat
    BY <2>2, <2>3, HeadsGrow
  <2>5. MaxRounds <= Cardinality(codex_result_heads(t, r.seen))
    BY <1>3, <2>4, BeltAssumption
  <2>. QED
    BY <1>3, <2>1, <2>5, UnreviewedGoesOn
<1>4. ASSUME NEW meter, r.head \notin codex_result_heads(t, r.seen), next = summon(r, meter)
      PROVE  GoesFromScan(next, l, t, S)
  <2>1. \/ next = Idle
        \/ /\ next = Doing(r, "nudge", "reread")
           /\ ~marker_comment_exists(t, r.seen, "nudge", r.head)
        \/ /\ next = Doing(r, "summon", "reread")
           /\ ~marker_comment_exists(t, r.seen, "summon", r.head)
    BY <1>4 DEF summon
  <2>2. CASE /\ next = Doing(r, "nudge", "reread")
             /\ ~marker_comment_exists(t, r.seen, "nudge", r.head)
    <3>1. \A i \in Marked(t, r.seen, "nudge", r.head) : t[i].about # 0
      BY <2>2 DEF marker_comment_exists
    <3>. QED
      BY <1>4, <2>2, <3>1, UnreviewedGoesOn
  <2>3. CASE /\ next = Doing(r, "summon", "reread")
             /\ ~marker_comment_exists(t, r.seen, "summon", r.head)
    <3>1. \A i \in Marked(t, r.seen, "summon", r.head) : t[i].about # 0
      BY <2>3 DEF marker_comment_exists
    <3>. QED
      BY <1>4, <2>3, <3>1, UnreviewedGoesOn
  <2>. QED
    BY <1>1, <2>1, <2>2, <2>3
<1>. QED
  BY <1>1, <1>2, <1>3, <1>4 DEF Branches

\* A place between a bound and itself.
LEMMA Between ==
    ASSUME NEW n \in Nat, NEW m \in 0 .. n, NEW i \in 1 .. m, NEW j \in 0 .. n, i <= j, j <= i
    PROVE  i = j
OBVIOUS

\* The sweep-side look at the verdict (verdict_state_held).
LEMMA HeldKeeps ==
    ASSUME IInv, NEW l \in Lanes, verdict_state_held(l)
    PROVE  IInv'
<1>0. PICK r, t, n : r = lanes[l].run /\ t = thread /\ n = Len(t)
  OBVIOUS
<1>1. /\ r \in RunsOver(n) /\ RunOK(l, r, t, slack) /\ t \in Seq(Entries) /\ n \in Nat
  BY <1>0, RunOfLane
<1>2. PICK c : c = SetReread(r, n)
  OBVIOUS
<1>3. /\ c \in RunsOver(n) /\ c.leg = r.leg /\ c.on = r.on /\ c.pc = r.pc /\ c.doing = r.doing
      /\ c.head = r.head /\ c.seen = r.seen /\ c.closed = r.closed /\ c.reread = n
  <2>1. n \in 0 .. n
    BY <1>1, Whole
  <2>2. c = [r EXCEPT !.reread = n]
    BY <1>2 DEF SetReread
  <2>. QED
    BY <1>1, <2>1, <2>2 DEF RunsOver
<1>4. c = [lanes[l].run EXCEPT !.reread = Now]
  BY <1>0, <1>2 DEF SetReread, Now
<1>. DEFINE Result(m) == latest_result_by_head(codex_result_events(t, m), r.head)
<1>5. /\ r.pc = "reread"
      /\ Reads(l, IF Result(r.seen) = Result(n) THEN At(c, "check") ELSE Idle)
  <2>1. PICK f : f = [lanes[l].run EXCEPT !.reread = Now]
    OBVIOUS
  <2>2. /\ f.pc = "reread"
        /\ Reads(l, IF result_state_unchanged(
                         latest_result_by_head(codex_result_events(thread, f.seen), f.head),
                         latest_result_by_head(codex_result_events(thread, Now), f.head))
                      THEN At(f, "check") ELSE Idle)
    BY <2>1 DEF verdict_state_held
  <2>. QED
    BY <1>0, <1>3, <1>4, <2>1, <2>2 DEF result_state_unchanged, Now
<1>6. CASE Reads(l, Idle)
  BY <1>6, ReadsStep DEF GoesOn
<1>7. CASE Result(r.seen) = Result(n) /\ Reads(l, At(c, "check"))
  <2>1. PICK s : s = At(c, "check")
    OBVIOUS
  <2>2. "check" \in Requests
    BY DEF Requests
  <2>3. s \in RunsOver(n) /\ SameRun(s, c) /\ s.pc = "check" /\ s.doing = c.doing
    BY <1>1, <1>3, <2>1, <2>2, AtIs
  <2>4. /\ s.leg = r.leg /\ s.on = r.on /\ s.pc = "check" /\ s.doing = r.doing
        /\ s.head = r.head /\ s.seen = r.seen /\ s.closed = r.closed /\ s.reread = n
    BY <1>3, <2>3 DEF SameRun
  <2>5. /\ r.head \in Heads /\ r.leg # "route"
        /\ r.doing \in {"redelivery", "nudge", "summon", "gate"}
    BY <1>1, <1>5 DEF RunOK, Core, Placed
  <2>6. r.seen \in 0 .. n /\ n \in 0 .. n
    BY <1>1, Whole DEF RunsOver
  <2>7. Placed(s) /\ Sent(s, t, slack)
    BY <2>4, <2>5 DEF Placed, Sent, ChasePcs
  <2>8. Looked(s, t)
    BY <1>1, <1>5, <2>4 DEF RunOK, Core, Looked
  <2>9. Unreviewed(s, t)
    <3>1. SUFFICES ASSUME r.doing \in {"nudge", "summon", "gate"}
                   PROVE  r.head \notin codex_result_heads(t, n)
      BY <2>4 DEF Unreviewed
    <3>2. r.head \notin codex_result_heads(t, r.seen)
      BY <1>1, <1>5, <3>1 DEF RunOK, Core, Unreviewed
    <3>3. Result(r.seen) = NoResult
      BY <1>0, <1>1, <2>6, <3>2, NoResultIsNone
    <3>. HIDE DEF Result
    <3>4. Result(n) = NoResult
      BY <1>7, <3>3
    <3>. QED
      BY <1>0, <1>1, <2>6, <3>4, NoResultIsNone DEF Result
  <2>10. Newest(s, t)
    <3>1. SUFFICES ASSUME r.doing = "redelivery" PROVE NoneAfter(t, n, r.head, r.on)
      BY <2>4 DEF Newest
    <3>2. Newest(r, t)
      BY <1>1 DEF RunOK, Core
    <3>3. NoneAfter(t, r.seen, r.head, r.on)
      BY <1>5, <3>1, <3>2 DEF Newest
    <3>4. PICK e \in codex_result_events(t, r.seen) : e.head = r.head /\ e.at = r.on
      BY <1>5, <3>1, <3>2 DEF Newest
    <3>5. r.head \in codex_result_heads(t, r.seen)
      BY <3>4 DEF codex_result_heads, result_heads_from_events
    <3>6. r.head \in codex_result_heads(t, n)
      BY <1>0, <1>1, <2>6, <3>5, HeadsGrow
    <3>7. PICK won : won = Result(n)
      OBVIOUS
    <3>8. won \in codex_result_events(t, r.seen) /\ won.head = r.head /\ won.at \in 1 .. r.seen
          /\ \A f \in codex_result_events(t, r.seen) : f.head = r.head => f.at <= won.at
      BY <1>0, <1>1, <1>7, <2>6, <3>5, <3>7, LatestResult
    <3>9. \A f \in codex_result_events(t, n) : f.head = r.head => f.at <= won.at
      BY <1>0, <1>1, <2>6, <3>6, <3>7, LatestResult
    <3>10. won.at = r.on
      <4>1. won.at <= r.on
        BY <3>3, <3>8 DEF NoneAfter
      <4>2. r.on <= won.at
        BY <3>4, <3>8
      <4>3. r.on \in 0 .. n
        BY <1>1 DEF RunsOver
      <4>. QED
        BY <1>1, <2>6, <3>8, <4>1, <4>2, <4>3, Between
    <3>. QED
      BY <3>9, <3>10 DEF NoneAfter
  <2>11. AtBound(s, t)
    <3>1. AtBound(r, t)
      BY <1>1 DEF RunOK, Core
    <3>. QED
      BY <2>4, <2>5, <3>1 DEF AtBound, Unproven
  <2>12. Pending(l, s, t)
    BY <1>1, <2>4 DEF RunOK, Pending, About, ChasePcs
  <2>13. GoesOn(s, l, thread, slack)
    BY <1>0, <2>3, <2>4, <2>7, <2>8, <2>9, <2>10, <2>11, <2>12 DEF GoesOn, Core, SendPcs
  <2>. QED
    BY <1>7, <2>1, <2>13, ReadsStep
<1>. QED
  BY <1>5, <1>6, <1>7

\* A run in the chase is a scan.
LEMMA ChaseScans ==
    ASSUME NEW t, NEW S, NEW l, NEW r, RunOK(l, r, t, S), r.pc \in ChasePcs
    PROVE  /\ Scanning(l, r, t) /\ Attempts(t, r) <= 1
           /\ r.doing = "" /\ r.leg # "route" /\ r.head \in Heads /\ r.reread = 0
<1>1. r.pc \notin {"idle", "start"} /\ r.doing = "" /\ r.leg # "route" /\ r.head \in Heads
  BY DEF RunOK, Core, Placed, ChasePcs
<1>2. r.reread = 0
  BY <1>1 DEF RunOK, Core, Placed
<1>3. Attempts(t, r) <= 1 /\ NotSince(l, t, r.seen)
  BY DEF RunOK, Pending, NotSince
<1>4. r \in RunsOver(Len(t))
  BY DEF RunOK, Core
<1>. QED
  BY <1>1, <1>2, <1>3, <1>4 DEF Scanning

\* How often the chase was made.
LEMMA AttemptsAre ==
    ASSUME NEW t, NEW r
    PROVE  /\ Attempts(t, r) \in {0, 1, 2}
           /\ Attempts(t, r) = 0 => ~marker_comment_exists(t, r.seen, "chase-1", r.head)
           /\ Attempts(t, r) # 2 => ~marker_comment_exists(t, r.seen, "chase-2", r.head)
           /\ t = thread => chase_attempt(r) = Attempts(t, r) + 1
BY DEF Attempts, retrospective_chase_attempts, chase_attempt

\* An attempt and the next, of two.
LEMMA NextAttempt ==
    ASSUME NEW a \in {0, 1, 2}
    PROVE  /\ a <= 1 => a \in {0, 1}
           /\ a + 1 <= 2 => a <= 1
           /\ a + 1 = 1 => a = 0
OBVIOUS

\* The chase looks again, twice (chase_reads, chase_head).
LEMMA ChaseLooksKeep ==
    ASSUME IInv, NEW l \in Lanes, chase_reads(l) \/ chase_head(l)
    PROVE  IInv'
<1>0. PICK r, t : r = lanes[l].run /\ t = thread
  OBVIOUS
<1>1. /\ r \in RunsOver(Len(t)) /\ RunOK(l, r, t, slack) /\ r.pc \in {"chase", "chase head"}
      /\ t \in Seq(Entries) /\ Len(t) \in Nat
  BY <1>0, RunOfLane DEF chase_reads, chase_head
<1>2. /\ Scanning(l, r, t) /\ Attempts(t, r) <= 1
      /\ r.doing = "" /\ r.leg # "route" /\ r.head \in Heads /\ r.reread = 0
  <2>1. r.pc \in ChasePcs
    BY <1>1 DEF ChasePcs
  <2>. QED
    BY <1>1, <2>1, ChaseScans
<1>3. ASSUME NEW next, next \in Branches(r), Reads(l, next)
      PROVE  IInv'
  <2>1. GoesFromScan(next, l, t, slack)
    BY <1>0, <1>1, <1>2, <1>3, BranchesGoOn
  <2>2. GoesOn(next, l, thread, slack)
    BY <1>0, <2>1 DEF GoesFromScan, GoesOn, SendPcs
  <2>. QED
    BY <1>3, <2>2, ReadsStep
<1>4. ASSUME NEW pc, pc \in {"chase head", "wake chase", "post chase"}, Reads(l, At(r, pc)),
             pc = "post chase" => Attempts(t, r) # 0
      PROVE  IInv'
  <2>1. PICK s : s = At(r, pc)
    OBVIOUS
  <2>2. pc \in Requests /\ pc \in ChasePcs /\ r.pc \in ChasePcs
    BY <1>1, <1>4 DEF Requests, ChasePcs
  <2>3. SameRun(s, r) /\ s.pc = pc /\ s.doing = r.doing
    BY <1>1, <2>1, <2>2, AtIs
  <2>4. s.head = r.head /\ s.leg = r.leg /\ s.reread = r.reread /\ s.seen = r.seen
    BY <2>3 DEF SameRun
  <2>5. Placed(s)
    BY <1>2, <1>4, <2>2, <2>3, <2>4 DEF Placed
  <2>6. Sent(s, t, slack)
    BY <1>4, <2>3, <2>4 DEF Sent, Attempts
  <2>7. Onward(l, r, t, pc)
    BY <1>1, <1>4, <2>2 DEF Onward
  <2>8. Core(s, t, slack) /\ Pending(l, s, t) /\ s.pc # "idle"
    <3>1. /\ t \in Seq(Entries) /\ Len(t) \in Nat /\ r \in RunsOver(Len(t))
          /\ RunOK(l, r, t, slack)
      BY <1>1
    <3>. QED
      BY <2>1, <2>5, <2>6, <2>7, <3>1, AtKeeps
  <2>9. s.pc \notin SendPcs
    BY <1>4, <2>3 DEF SendPcs
  <2>10. GoesOn(s, l, thread, slack)
    BY <1>0, <2>8, <2>9 DEF GoesOn
  <2>. QED
    BY <1>4, <2>1, <2>10, ReadsStep
<1>5. CASE chase_reads(l)
  BY <1>0, <1>3, <1>4, <1>5 DEF chase_reads
<1>6. CASE chase_head(l)
  <2>1. \/ \E next \in Branches(r) : Reads(l, next)
        \/ chase_attempt(r) = 1 /\ Reads(l, At(r, "wake chase"))
        \/ chase_attempt(r) # 1 /\ Reads(l, At(r, "post chase"))
    BY <1>0, <1>6 DEF chase_head
  <2>2. chase_attempt(r) # 1 => Attempts(t, r) # 0
    BY <1>0, AttemptsAre
  <2>. QED
    BY <1>3, <1>4, <2>1, <2>2
<1>. QED
  BY <1>5, <1>6

\* The chase is marked, and the scan goes on (post_chase).
LEMMA PostChaseKeeps ==
    ASSUME IInv, NEW l \in Lanes, post_chase(l)
    PROVE  IInv'
<1>0. PICK r, t : r = lanes[l].run /\ t = thread
  OBVIOUS
<1>1. /\ r \in RunsOver(Len(t)) /\ RunOK(l, r, t, slack) /\ r.pc = "post chase"
      /\ t \in Seq(Entries) /\ Len(t) \in Nat
  BY <1>0, RunOfLane DEF post_chase
<1>2. /\ Scanning(l, r, t) /\ Attempts(t, r) <= 1
      /\ r.doing = "" /\ r.leg # "route" /\ r.head \in Heads /\ r.reread = 0
  <2>1. r.pc \in ChasePcs
    BY <1>1 DEF ChasePcs
  <2>. QED
    BY <1>1, <2>1, ChaseScans
<1>3. PICK marks : marks = IF chase_attempt(r) = 1 THEN "chase-1" ELSE "chase-2"
  OBVIOUS
<1>4. PICK next \in Branches(r) : Comments(l, marks, "", 0, next)
  BY <1>0, <1>3 DEF post_chase
<1>5. GoesFromScan(next, l, t, slack)
  BY <1>0, <1>1, <1>2, <1>4, BranchesGoOn
<1>6. /\ marks \in {"chase-1", "chase-2"}
      /\ marks = "chase-1" => Attempts(t, r) = 0
      /\ ~marker_comment_exists(t, r.seen, marks, r.head)
  <2>1. Attempts(t, r) \in {0, 1}
    <3>1. Attempts(t, r) \in {0, 1, 2} /\ Attempts(t, r) <= 1
      BY <1>2, AttemptsAre
    <3>. QED
      BY <3>1, NextAttempt
  <2>2. chase_attempt(r) = Attempts(t, r) + 1
    BY <1>0, AttemptsAre
  <2>3. /\ Attempts(t, r) = 0 => ~marker_comment_exists(t, r.seen, "chase-1", r.head)
        /\ ~marker_comment_exists(t, r.seen, "chase-2", r.head)
    BY <2>1, AttemptsAre
  <2>4. chase_attempt(r) = 1 => Attempts(t, r) = 0
    BY <2>1, <2>2, NextAttempt
  <2>. QED
    BY <1>3, <2>3, <2>4
<1>7. PICK m : m = Marker(marks, r.head, "", 0, l, r.reread)
  OBVIOUS
<1>8. m \in Markers /\ m.lane = l /\ m.marks = marks /\ m.head = r.head /\ m.about = 0
      /\ m.reread = 0
  <2>1. \A h \in Heads, k \in Lanes : Marker(marks, h, "", 0, k, 0) \in Markers
    BY <1>6 DEF Marker, Markers, Marks
  <2>. QED
    BY <1>2, <1>7, <2>1 DEF Marker
<1>9. MarkOK(m, t, slack)
  <2>1. marks = "chase-1" => Woken(slack, "chase", r.head)
    BY <1>1, <1>6 DEF RunOK, Core, Sent
  <2>2. 0 <= Len(t)
    <3>1. \A n \in Nat : 0 <= n
      OBVIOUS
    <3>. QED
      BY <1>1, <3>1
  <2>. QED
    BY <1>6, <1>8, <2>1, <2>2 DEF MarkOK
<1>10. Unposted(t, l, marks, r.head, 0)
  <2>1. r.seen \in 0 .. Len(t)
    BY <1>1 DEF RunsOver
  <2>2. \A i \in Marked(t, r.seen, marks, r.head) : t[i].about # 0
    BY <1>6 DEF marker_comment_exists
  <2>3. \A i \in r.seen + 1 .. Len(t) :
          ~(t[i].via = "marker" /\ t[i].lane = l /\ t[i].marks = marks)
    BY <1>2 DEF Scanning, NotSince
  <2>. QED
    BY <1>1, <2>1, <2>2, <2>3, MarkersSeen
<1>11. MayPost(m, thread, slack)
  BY <1>0, <1>8, <1>9, <1>10 DEF MayPost
<1>12. GoesOnAfter(marks, next, l, thread, slack)
  BY <1>0, <1>5, <1>6 DEF GoesFromScan, GoesOnAfter, SendPcs, ChasePcs, ScanAims
<1>. QED
  BY <1>0, <1>4, <1>7, <1>11, <1>12, CommentsStep

\* A scan reads the record and decides (Scans).
LEMMA ScanKeeps ==
    ASSUME IInv, NEW l \in Lanes, NEW r \in RunsOver(Len(thread)), r.doing = "",
           r.leg # "route", r.head \in Heads, r.reread = 0, Scans(l, r)
    PROVE  IInv'
<1>0. PICK t, n : t = thread /\ n = Len(t)
  OBVIOUS
<1>1. t \in Seq(Entries) /\ n \in Nat /\ r \in RunsOver(n)
  BY <1>0, RunOfLane
<1>2. PICK c : c = SetSeen(r, n)
  OBVIOUS
<1>3. c \in RunsOver(n) /\ c.doing = "" /\ c.leg # "route" /\ c.head \in Heads /\ c.reread = 0
      /\ c.seen = n
  <2>1. c \in RunsOver(n) /\ c = [r EXCEPT !.seen = n]
    BY <1>1, <1>2, RecordRead DEF SetSeen
  <2>. QED
    BY <1>1, <2>1 DEF RunsOver
<1>4. n + 1 .. n = {}
  BY <1>1, Whole
<1>5. Scanning(l, c, t)
  BY <1>0, <1>3, <1>4 DEF Scanning, NotSince
<1>6. PICK next \in _scan_open_pull(c) : Reads(l, next)
  BY <1>0, <1>2 DEF Scans, SetSeen, Now
<1>7. CASE next = Idle
  BY <1>6, <1>7, ReadsStep DEF GoesOn
<1>8. CASE next \in Branches(c)
  <2>1. GoesFromScan(next, l, t, slack)
    BY <1>0, <1>1, <1>5, <1>8, BranchesGoOn
  <2>2. GoesOn(next, l, thread, slack)
    BY <1>0, <2>1 DEF GoesFromScan, GoesOn, SendPcs
  <2>. QED
    BY <1>6, <2>2, ReadsStep
<1>9. CASE chase_due(c) /\ next = At(c, "chase")
  <2>1. "chase" \in Requests
    BY DEF Requests
  <2>2. next \in RunsOver(n) /\ SameRun(next, c) /\ next.pc = "chase" /\ next.doing = c.doing
    BY <1>1, <1>3, <1>9, <2>1, AtIs
  <2>3. next.head \in Heads /\ next.leg # "route" /\ next.reread = 0 /\ next.seen = n
        /\ next.head = c.head /\ next.doing = ""
    BY <1>3, <2>2 DEF SameRun
  <2>4. Attempts(t, next) <= 1
    <3>1. Attempts(t, next) = Attempts(t, c)
      BY <1>3, <2>3 DEF Attempts
    <3>2. chase_attempt(c) <= 2
      BY <1>9 DEF chase_due
    <3>3. Attempts(t, c) \in {0, 1, 2} /\ chase_attempt(c) = Attempts(t, c) + 1
      BY <1>0, AttemptsAre
    <3>. QED
      BY <3>1, <3>2, <3>3, NextAttempt
  <2>5. Placed(next)
    BY <2>2, <2>3 DEF Placed, ChasePcs
  <2>6. Sent(next, t, slack) /\ Looked(next, t) /\ Unreviewed(next, t) /\ Newest(next, t)
    BY <2>2, <2>3 DEF Sent, Looked, Unreviewed, Newest
  <2>7. AtBound(next, t)
    BY <2>2, <2>3 DEF AtBound, Unproven, Rightly, SendsBack
  <2>8. Pending(l, next, t)
    BY <1>0, <1>4, <2>2, <2>3, <2>4 DEF Pending, ScanAims
  <2>9. GoesOn(next, l, thread, slack)
    BY <1>0, <2>2, <2>5, <2>6, <2>7, <2>8 DEF GoesOn, Core, SendPcs
  <2>. QED
    BY <1>6, <2>9, ReadsStep
<1>. QED
  BY <1>6, <1>7, <1>8, <1>9 DEF _scan_open_pull

\* The scan of an event and the scan of the schedule
\* (event_scan, nudge_stalled_reviews).
LEMMA ScansKeep ==
    ASSUME IInv, nudge_stalled_reviews \/ \E l \in Lanes : event_scan(l)
    PROVE  IInv'
<1>1. ASSUME NEW l \in Lanes, event_scan(l)
      PROVE  IInv'
  <2>0. PICK r, t : r = lanes[l].run /\ t = thread
    OBVIOUS
  <2>1. r \in RunsOver(Len(t)) /\ RunOK(l, r, t, slack) /\ r.pc = "scan" /\ Scans(l, r)
    BY <1>1, <2>0, RunOfLane DEF event_scan
  <2>2. r.doing = "" /\ r.leg # "route" /\ r.head \in Heads
    BY <2>1 DEF RunOK, Core, Placed
  <2>3. r.reread = 0
    BY <2>1, <2>2 DEF RunOK, Core, Placed
  <2>. QED
    BY <2>0, <2>1, <2>2, <2>3, ScanKeeps
<1>2. ASSUME nudge_stalled_reviews
      PROVE  IInv'
  <2>0. PICK leg, h, n : leg = (IF open THEN "sweep" ELSE "closed") /\ h = head /\ n = Len(thread)
    OBVIOUS
  <2>1. leg \in {"sweep", "closed"} /\ leg \in Legs /\ h \in Heads /\ n \in Nat
        /\ "sweep" \in Lanes /\ 0 \in 0 .. n
  <3>1. thread \in Seq(Entries) /\ head \in Heads
    BY DEF IInv, TypeOK
  <3>. QED
    BY <2>0, <3>1 DEF Legs, Lanes
  <2>2. PICK b : b = Run(leg, 0)
    OBVIOUS
  <2>3. b \in RunsOver(n) /\ b.doing = "" /\ b.leg = leg /\ b.reread = 0
    <3>1. b \in RunsOver(n)
      BY <2>1, <2>2, NewRun
    <3>. QED
      BY <2>2, <3>1 DEF Run
  <2>4. PICK c : c = SetHead(b, h)
    OBVIOUS
  <2>5. c \in RunsOver(n) /\ c.doing = "" /\ c.leg = leg /\ c.reread = 0 /\ c.head = h
    <3>1. c \in RunsOver(n) /\ c = [b EXCEPT !.head = h]
      BY <2>1, <2>3, <2>4, HeadRead DEF SetHead
    <3>. QED
      BY <2>3, <3>1 DEF RunsOver
  <2>6. Scans("sweep", c)
    BY <1>2, <2>0, <2>2, <2>4 DEF nudge_stalled_reviews, SetHead
  <2>. QED
    BY <2>0, <2>1, <2>5, <2>6, ScanKeeps
<1>. QED
  BY <1>1, <1>2

-----------------------------------------------------------------------------
(* The specification.                                                      *)

\* A pull request opens on an empty belt, with the run of its first push.
LEMMA InitKeeps == Init => IInv
<1>. SUFFICES ASSUME Init PROVE IInv
  OBVIOUS
<1>1. PICK o \in Openings :
        /\ head = o.head /\ open = TRUE /\ base = "main"
        /\ thread = o.thread /\ lapsed = 0
        /\ lanes = [l \in Lanes |->
             [run |-> IF l = "push" THEN Run("push", 0) ELSE Idle, wait |-> Idle]]
        /\ slack = {} /\ told = [h \in Heads |-> 0]
        /\ moves = 0
  BY DEF Init
<1>2. head \in Heads /\ thread \in Seq(Unmarked)
  BY <1>1, ReviewAssumption
<1>3. \A i \in 1 .. Len(thread) : thread[i] \in Unmarked
  BY <1>2
<1>4. \A e \in Unmarked : e.via # "marker" /\ e \in Entries
  BY DEF Unmarked, Pushes, Retargets, Reviews, Remarks, Entries
<1>5. thread \in Seq(Entries)
  BY <1>2, <1>4
<1>6. Len(thread) \in Nat /\ 0 \in 0 .. Len(thread) /\ 0 \in 0 .. MaxMoves
  BY <1>2, ReviewAssumption
<1>7. PICK t : t = thread
  OBVIOUS
<1>8. Fresh(Idle, t) /\ Fresh(Run("push", 0), t)
  BY DEF Fresh
<1>9. /\ Idle \in RunsOver(Len(t)) /\ Run("push", 0) \in RunsOver(Len(t))
      /\ \A l \in Lanes : RunOK(l, Idle, t, slack) /\ RunOK(l, Run("push", 0), t, slack)
  BY <1>5, <1>7, <1>8, FreshIsOK
<1>10. LanesOK(lanes, t, slack)
  <2>1. \A l \in Lanes : /\ lanes[l].run \in {Idle, Run("push", 0)} /\ lanes[l].wait = Idle
    BY <1>1
  <2>2. lanes \in [Lanes -> [run : RunsOver(Len(t)), wait : RunsOver(Len(t))]]
    BY <1>1, <1>9
  <2>3. \A l \in Lanes : RunOK(l, lanes[l].run, t, slack) /\ Fresh(lanes[l].wait, t)
    BY <1>8, <1>9, <2>1
  <2>4. ASSUME NEW l \in Lanes PROVE LanesBut(lanes, l, t, slack)
    BY <2>1, <2>2, <2>3 DEF LanesBut
  <2>. QED
    BY <2>1, <2>3, <2>4 DEF LanesOK
<1>11. MarksOK(t, slack) /\ Once(t) /\ WakesOK(t, slack)
  BY <1>1, <1>3, <1>4, <1>7 DEF MarksOK, Once, WakesOK
<1>12. TypeOK
  <2>1. /\ lanes \in [Lanes -> [run : RunsOver(Len(t)), wait : RunsOver(Len(t))]]
        /\ \A l \in Lanes : lanes[l].run = Idle => lanes[l].wait = Idle
    BY <1>10, LanesTyped
  <2>2. open \in BOOLEAN /\ base \in Bases /\ lapsed = 0 /\ moves = 0
    BY <1>1 DEF Bases
  <2>3. slack \subseteq WakesOver(Now)
    BY <1>1
  <2>4. told \in [Heads -> 0 .. Now]
    BY <1>1, <1>6 DEF Now
  <2>. QED
    BY <1>2, <1>5, <1>6, <1>7, <2>1, <2>2, <2>3, <2>4 DEF TypeOK, Now
<1>. QED
  BY <1>7, <1>10, <1>11, <1>12 DEF IInv

\* Every step keeps the invariant.
LEMMA NextKeeps == IInv /\ [Next]_vars => IInv'
<1>. SUFFICES ASSUME IInv, [Next]_vars PROVE IInv'
  OBVIOUS
<1>1. ASSUME NEW l \in Lanes, Route(l)
      PROVE  IInv'
  <2>1. CASE route_codex_result(l)
    BY <2>1, RouteKeeps
  <2>2. CASE record_reviewed_head_base(l)
    BY <2>2, PinKeeps
  <2>3. CASE close(l)
    BY <2>3, CloseKeeps
  <2>4. CASE ensure_exhaustion_gate_at_head(l)
    BY <2>4, GateCheckKeeps
  <2>5. CASE post_gate(l)
    BY <2>5, PostGateKeeps
  <2>6. CASE publishable_at_head(l)
    BY <2>6, PublishableKeeps
  <2>7. CASE post_threaded_messages(l) \/ retrospective_check(l)
    BY <2>7, ThreadedKeeps
  <2>8. CASE deliver_wake(l)
    BY <2>8, DeliverKeeps
  <2>9. CASE publish_exhaustion_retrospective(l)
    BY <2>9, WakeAndMarkKeeps
  <2>10. CASE record_request(l)
    BY <2>10, RecordRequestKeeps
  <2>. QED
    BY <1>1, <2>1, <2>2, <2>3, <2>4, <2>5, <2>6, <2>7, <2>8, <2>9, <2>10 DEF Route
<1>2. ASSUME NEW l \in Lanes, Scan(l)
      PROVE  IInv'
  <2>1. CASE summon_on_push(l)
    BY <2>1, PushKeeps
  <2>2. CASE event_scan(l)
    BY <2>2, ScansKeep
  <2>3. CASE chase_reads(l) \/ chase_head(l)
    BY <2>3, ChaseLooksKeep
  <2>4. CASE post_chase(l)
    BY <2>4, PostChaseKeeps
  <2>5. CASE verdict_state_held(l)
    BY <2>5, HeldKeeps
  <2>6. CASE wake_chase(l) \/ wake_substitute(l)
    BY <2>6, WakeAndMarkKeeps
  <2>7. CASE post_nudge(l) \/ post_summon(l) \/ mark_redelivery(l) \/ record_review_skip(l)
    BY <2>7, ScanPostsKeep
  <2>. QED
    BY <1>2, <2>1, <2>2, <2>3, <2>4, <2>5, <2>6, <2>7 DEF Scan
<1>3. CASE an_hour_passes \/ \E l \in Lanes : request_fails(l)
  BY <1>3, HourAndFailureKeep
<1>4. CASE nudge_stalled_reviews
  BY <1>4, ScansKeep
<1>5. CASE Environment
  BY <1>5, EnvironmentKeeps
<1>6. CASE UNCHANGED vars
  <2>1. /\ UNCHANGED thread /\ UNCHANGED slack /\ UNCHANGED told /\ UNCHANGED lanes
        /\ UNCHANGED head /\ UNCHANGED open /\ UNCHANGED base
        /\ UNCHANGED lapsed /\ UNCHANGED moves
    BY <1>6 DEF vars
  <2>2. /\ LanesOK(lanes, thread, slack) /\ head \in Heads /\ open \in BOOLEAN /\ base \in Bases
        /\ lapsed \in 0 .. Len(thread) /\ moves \in 0 .. MaxMoves
    BY DEF IInv, TypeOK, Now
  <2>. QED
    BY <2>1, <2>2, QuietStep
<1>. QED
  BY <1>1, <1>2, <1>3, <1>4, <1>5, <1>6 DEF Next, Works

\* The invariant holds of every behaviour.
LEMMA InvariantHolds == Spec => []IInv
<1>1. Init => IInv
  BY InitKeeps
<1>2. IInv /\ [Next]_vars => IInv'
  BY NextKeeps
<1>. QED
  BY <1>1, <1>2, PTL DEF Spec

\* The types: what the record, the runs and the wakes can hold, and that a
\* lane whose run is over has nothing waiting.
THEOREM TypeCorrect == Spec => []TypeOK
<1>1. IInv => TypeOK
  BY DEF IInv
<1>. QED
  BY <1>1, InvariantHolds, PTL

\* Nothing is said to a seat about a pull request that had closed or moved
\* before the last request the run made: publishable_at_head stands before
\* every wake, and before the last message of one that takes several.
THEOREM NothingIsSaidOfTheDead == Spec => []WakesAreLive
<1>1. IInv => WakesAreLive
  BY DEF IInv, WakesOK, WakeOK, WakesAreLive
<1>. QED
  BY <1>1, InvariantHolds, PTL

\* Every marker that stops the belt from acting again was posted after the
\* wake it stands for, whatever fails in between (mark_redelivery, post_summon,
\* record_request, post_chase).
THEOREM SlackBeforeTheMarker == Spec => []MarkersRecordWakes
<1>1. ASSUME IInv PROVE MarkersRecordWakes
  <2>1. SUFFICES ASSUME NEW h \in Heads, NEW i \in MarkersOf(h)
                 PROVE  LET m == thread[i]
                            wake == CASE m.marks = "redelivery" -> "redelivery"
                                      [] m.marks = "summon" -> "summon"
                                      [] m.marks = "request" -> "retrospective"
                                      [] m.marks = "chase-1" -> "chase"
                                      [] OTHER -> ""
                        IN  wake = "" \/ \E w \in slack : /\ w.kind = wake /\ w.head = h
                                                          /\ wake = "redelivery" => w.on = m.about
    BY DEF MarkersRecordWakes
  <2>2. PICK m : m = thread[i]
    OBVIOUS
  <2>3. MarkOK(m, thread, slack) /\ m.head = h
    BY <1>1, <2>2 DEF IInv, MarksOK, MarkersOf, Now
  <2>4. CASE m.marks = "redelivery"
    BY <2>2, <2>3, <2>4 DEF MarkOK
  <2>5. CASE m.marks = "summon"
    BY <2>2, <2>3, <2>5 DEF MarkOK, Woken
  <2>6. CASE m.marks = "request"
    BY <2>2, <2>3, <2>6 DEF MarkOK, Woken
  <2>7. CASE m.marks = "chase-1"
    BY <2>2, <2>3, <2>7 DEF MarkOK, Woken
  <2>8. CASE m.marks \notin {"redelivery", "summon", "request", "chase-1"}
    BY <2>2, <2>8
  <2>. QED
    BY <2>4, <2>5, <2>6, <2>7, <2>8
<1>. QED
  BY <1>1, InvariantHolds, PTL

\* One lane leaves one gate, nudge, summon, pin, request and chase at a head,
\* and one redelivery of a verdict: it looks before it posts, and only its own
\* run could have posted in between.
THEOREM LanesDoNotRepeat == Spec => []OncePerLane
<1>1. ASSUME IInv PROVE OncePerLane
  <2>1. SUFFICES ASSUME NEW h \in Heads, NEW i \in MarkersOf(h), NEW j \in MarkersOf(h),
                        i # j, thread[i].lane \in Lanes
                 PROVE  <<thread[i].lane, thread[i].marks, thread[i].about>> #
                        <<thread[j].lane, thread[j].marks, thread[j].about>>
    BY DEF OncePerLane
  <2>2. /\ i \in 1 .. Len(thread) /\ j \in 1 .. Len(thread)
        /\ thread[i].via = "marker" /\ thread[i].head = h
        /\ thread[j].via = "marker" /\ thread[j].head = h
    BY DEF MarkersOf, Now
  <2>3. ~IsMarker(thread[j], thread[i].lane, thread[i].marks, thread[i].head, thread[i].about)
    BY <1>1, <2>1, <2>2 DEF IInv, Once
  <2>. QED
    BY <2>2, <2>3 DEF IsMarker
<1>. QED
  BY <1>1, InvariantHolds, PTL

\* What a scan publishes it publishes about the verdict that stood there at
\* its last look (verdict_state_held), or about a head that had none.
THEOREM ScansSpeakOfTheLatest == Spec => []SweepSpeaksOfTheLatest
<1>1. ASSUME IInv PROVE SweepSpeaksOfTheLatest
  <2>1. \A w \in slack : w.kind \in {"redelivery", "summon"} => w.latest
    BY <1>1 DEF IInv, WakesOK, WakeOK
  <2>2. ASSUME NEW h \in Heads, NEW i \in MarkersOf(h),
               thread[i].marks \in {"nudge", "summon", "gate"}
        PROVE  h \notin codex_result_heads(thread, thread[i].reread)
    <3>1. MarkOK(thread[i], thread, slack) /\ thread[i].head = h
      BY <1>1 DEF IInv, MarksOK, MarkersOf, Now
    <3>. QED
      BY <2>2, <3>1 DEF MarkOK
  <2>. QED
    BY <2>1, <2>2 DEF SweepSpeaksOfTheLatest
<1>. QED
  BY <1>1, InvariantHolds, PTL

\* No CLEAN wakes a seat for a pull request that was retargeted after it, in
\* the route or when a sweep delivers it again (closure_refused).
THEOREM NoCleanOfAnotherBase == Spec => []CleanNamesItsSubject
<1>1. ASSUME IInv PROVE CleanNamesItsSubject
  <2>1. \A w \in slack : SaysClean(w.on) <=> CleanAt(thread, w.on)
    BY DEF SaysClean, CleanAt, Now
  <2>. QED
    BY <1>1, <2>1 DEF IInv, WakesOK, WakeOK, CleanNamesItsSubject, ToldClean
<1>. QED
  BY <1>1, InvariantHolds, PTL

\* The verdict that a seat is sent to fix was on a record whose rounds were not
\* spent when it arrived.
LEMMA BelowAtItsVerdict ==
    ASSUME NEW t \in Seq(Entries), NEW h, NEW on, Below(t, h, on)
    PROVE  /\ on \in 1 .. Len(t)
           /\ h \in codex_result_heads(t, on)
           /\ Cardinality(codex_result_heads(t, on)) \in Nat
           /\ Cardinality(codex_result_heads(t, on)) < MaxRounds
<1>1. PICK n \in 0 .. Len(t) :
        Verdict(t, n, h, on) /\ Cardinality(codex_result_heads(t, n)) < MaxRounds
  BY DEF Below
<1>2. PICK e \in codex_result_events(t, n) : e.head = h /\ e.at = on
  BY <1>1 DEF Verdict
<1>3. PICK i \in 1 .. n : e \in EventsAt(t[i], i)
  BY <1>2, EventsAreOfEntries
<1>4. Len(t) \in Nat
  OBVIOUS
<1>5. i \in 1 .. Len(t) /\ i \in 0 .. n /\ i \in Nat
  BY <1>1, <1>3, <1>4
<1>6. e.at = i
  BY <1>3, <1>5, EventOfEntry
<1>7. on = i /\ on \in 1 .. on
  BY <1>2, <1>3, <1>5, <1>6
<1>8. e \in codex_result_events(t, on)
  BY <1>3, <1>7, EventsAreOfEntries
<1>9. h \in codex_result_heads(t, on)
  BY <1>2, <1>8 DEF codex_result_heads, result_heads_from_events
<1>10. /\ Cardinality(codex_result_heads(t, on)) \in Nat
       /\ Cardinality(codex_result_heads(t, on)) <= Cardinality(codex_result_heads(t, n))
  BY <1>1, <1>5, <1>7, HeadsGrow
<1>11. Cardinality(codex_result_heads(t, n)) \in Nat
  <2>1. n \in 0 .. n
    BY <1>1
  <2>. QED
    BY <1>1, <2>1, HeadsGrow
<1>12. MaxRounds \in Nat
  BY BeltAssumption
<1>13. Cardinality(codex_result_heads(t, on)) < MaxRounds
  BY ONLY <1>1, <1>10, <1>11, <1>12
<1>. QED
  BY <1>5, <1>7, <1>9, <1>10, <1>13

\* Heads that were each among fewer than MaxRounds when they were last reviewed
\* are fewer than MaxRounds together.
LEMMA BelowTogether ==
    ASSUME NEW t \in Seq(Entries), NEW W,
           \A w \in W : /\ w.on \in 1 .. Len(t)
                        /\ w.head \in codex_result_heads(t, w.on)
                        /\ Cardinality(codex_result_heads(t, w.on)) < MaxRounds
    PROVE  Cardinality({w.head : w \in W}) < MaxRounds
<1>. DEFINE hs == {w.head : w \in W}
            T == {w.on : w \in W}
<1>1. MaxRounds \in Nat /\ 0 < MaxRounds /\ Len(t) \in Nat
  BY BeltAssumption
<1>2. CASE W = {}
  <2>1. hs = {}
    BY <1>2
  <2>. QED
    BY <1>1, <2>1, FS_EmptySet
<1>3. CASE W # {}
  <2>1. T \in SUBSET (1 .. Len(t)) /\ T # {}
    BY <1>3
  <2>2. PICK x \in T : \A y \in T : y <= x
    BY <1>1, <2>1, Greatest
  <2>3. PICK v \in W : x = v.on
    BY <2>2
  <2>4. x \in 1 .. Len(t) /\ Cardinality(codex_result_heads(t, x)) < MaxRounds
    BY <2>3
  <2>5. x \in 0 .. Len(t) /\ \A w \in W : w.on \in 0 .. x
    <3>1. \A w \in W : w.on \in 1 .. Len(t) /\ w.on <= x
      BY <2>2
    <3>2. x \in Nat
      BY <2>4
    <3>. QED
      BY <1>1, <2>4, <3>1, <3>2
  <2>6. \A w \in W : w.head \in codex_result_heads(t, x)
    <3>1. SUFFICES ASSUME NEW w \in W PROVE w.head \in codex_result_heads(t, x)
      OBVIOUS
    <3>2. codex_result_heads(t, w.on) \subseteq codex_result_heads(t, x)
      BY <2>5, HeadsGrow
    <3>. QED
      BY <3>2
  <2>7. hs \subseteq codex_result_heads(t, x)
    BY <2>6
  <2>8. /\ IsFiniteSet(codex_result_heads(t, x))
        /\ Cardinality(codex_result_heads(t, x)) \in Nat
    <3>1. x \in 0 .. x
      BY <2>5
    <3>. QED
      BY <2>5, <3>1, HeadsGrow
  <2>9. Cardinality(hs) \in Nat /\ Cardinality(hs) <= Cardinality(codex_result_heads(t, x))
    BY <2>7, <2>8, FS_Subset, FS_CardinalityType
  <2>10. \A a, b, c \in Nat : a <= b /\ b < c => a < c
    OBVIOUS
  <2>. QED
    BY <1>1, <2>4, <2>8, <2>9, <2>10
<1>. QED
  BY <1>2, <1>3

\* The belt sends a seat back to fix at most MaxRounds - 1 heads, by whichever
\* lanes, runs and redeliveries, and never about a verdict that spent the last
\* round; it says that the rounds are spent only when they are (route_codex_review,
\* redeliver_standing_wake, dispatch_retrospective).
THEOREM TheLoopIsBounded == Spec => []RoundsBoundTheLoop
<1>1. ASSUME IInv PROVE RoundsBoundTheLoop
  <2>. DEFINE W == {w \in slack : SentToFix(w)}
  <2>1. thread \in Seq(Entries) /\ Now = Len(thread)
    BY <1>1 DEF IInv, TypeOK, Now
  <2>2. \A w \in slack : WakeOK(w, thread)
    BY <1>1 DEF IInv, WakesOK
  <2>3. \A w \in slack : SentToFix(w) => SendsBack(w.kind, thread, w.on)
    BY DEF SentToFix, SaysClean, SendsBack, CleanAt, Now
  <2>4. \A w \in W : Below(thread, w.head, w.on)
    BY <2>2, <2>3 DEF WakeOK, Rightly
  <2>5. \A w \in W : /\ w.on \in 1 .. Len(thread)
                     /\ w.head \in codex_result_heads(thread, w.on)
                     /\ Cardinality(codex_result_heads(thread, w.on)) < MaxRounds
    BY <2>1, <2>4, BelowAtItsVerdict
  <2>6. Cardinality({w.head : w \in W}) < MaxRounds
    BY <2>1, <2>5, BelowTogether
  <2>7. ASSUME NEW w \in slack, SaysExhausted(w)
        PROVE  Cardinality(codex_result_heads(thread, Now)) >= MaxRounds
    <3>1. MaxRounds <= Cardinality(codex_result_heads(thread, Len(thread)))
      BY <2>2, <2>7 DEF WakeOK, SaysExhausted
    <3>2. MaxRounds \in Nat /\ Cardinality(codex_result_heads(thread, Len(thread))) \in Nat
      <4>1. Len(thread) \in 0 .. Len(thread)
        BY <2>1, Whole
      <4>. QED
        BY <2>1, <4>1, HeadsGrow, BeltAssumption
    <3>3. \A a, b \in Nat : a <= b => b >= a
      OBVIOUS
    <3>. QED
      BY <2>1, <3>1, <3>2, <3>3
  <2>. QED
    BY <2>5, <2>6, <2>7 DEF RoundsBoundTheLoop, HeadsToFix
<1>. QED
  BY <1>1, InvariantHolds, PTL

\* A round is the winner of its head: its count is the findings that the entry
\* of the winner reported.
LEMMA CountIsReported ==
    ASSUME NEW t \in Seq(Entries), NEW n \in Nat, n = Len(t), NEW h, h \in codex_result_heads(t, n),
           NEW won, won = latest_result_by_head(codex_result_events(t, n), h)
    PROVE  round_count(t, n, h, won) = Reported(t[won.at])
<1>1. /\ won \in codex_result_events(t, n) /\ won.head = h /\ won.at \in 1 .. n
      /\ \A e \in codex_result_events(t, n) : e.head = h => e.at <= won.at
  <2>1. n \in 0 .. Len(t)
    BY Whole
  <2>. QED
    BY <2>1, LatestResult
<1>2. PICK i : i \in 1 .. n /\ won \in EventsAt(t[i], i)
  BY <1>1, EventsAreOfEntries
<1>3. PICK e : e = t[i]
  OBVIOUS
<1>4. e \in Entries /\ i \in Nat
  BY <1>2, <1>3
<1>5. won.at = i /\ EventsAt(e, i) = {won}
  BY <1>2, <1>3, <1>4, EventOfEntry
<1>6. ASSUME NEW T, T \subseteq 1 .. n, i \in T, \A j \in T : j <= i
      PROVE  Latest(T) = i
  <2>1. \A k \in T : (\A j \in T : j <= k) => k = i
    BY <1>2, <1>6
  <2>. QED
    BY <1>6, <2>1 DEF Latest
<1>7. CASE clean_comment_commitish(e) # NoHead
  <2>1. e.via = "comment"
    BY <1>4, <1>7, CommitOfComment
  <2>2. won.kind = "clean"
    <3>1. PICK g : g = IF clean_comment_head(e) # NoHead THEN clean_comment_head(e)
                       ELSE unresolved(clean_comment_commitish(e))
      OBVIOUS
    <3>2. [at |-> i, kind |-> "clean", source |-> "codex", head |-> g] \in EventsAt(e, i)
      BY <1>7, <3>1 DEF EventsAt
    <3>3. won = [at |-> i, kind |-> "clean", source |-> "codex", head |-> g]
      BY <1>5, <3>2
    <3>. QED
      BY <3>3
  <2>. QED
    BY <1>3, <1>5, <2>1, <2>2 DEF round_count, Reported
<1>8. CASE IsReview(e)
  <2>1. PICK x : x = [at |-> i, head |-> e.head, kind |-> review_kind(e), source |-> "codex"]
    OBVIOUS
  <2>2. x \in EventsAt(e, i)
    BY <1>8, <2>1 DEF EventsAt
  <2>3. won = x
    BY <1>5, <2>2
  <2>4. /\ won.head = e.head /\ won.kind = review_kind(e) /\ won.source = "codex"
    BY <2>1, <2>3
  <2>5. e.via = "review" /\ e.head = h
    BY <1>1, <1>8, <2>4 DEF IsReview
  <2>6. i \in exact_head_codex_reviews(t, n, h)
    BY <1>2, <1>3, <1>8, <2>5 DEF exact_head_codex_reviews
  <2>7. Latest(exact_head_codex_reviews(t, n, h)) = i
    <3>1. exact_head_codex_reviews(t, n, h) \subseteq 1 .. n
      BY DEF exact_head_codex_reviews
    <3>2. ASSUME NEW j \in exact_head_codex_reviews(t, n, h) PROVE j <= i
      <4>1. j \in 1 .. n /\ IsReview(t[j]) /\ t[j].head = h
        BY DEF exact_head_codex_reviews
      <4>2. PICK y : y = [at |-> j, head |-> t[j].head, kind |-> review_kind(t[j]),
                          source |-> "codex"]
        OBVIOUS
      <4>3. y \in EventsAt(t[j], j)
        BY <4>1, <4>2 DEF EventsAt
      <4>4. y \in codex_result_events(t, n) /\ y.head = h /\ y.at = j
        BY <4>1, <4>2, <4>3, EventsAreOfEntries
      <4>. QED
        BY <1>1, <1>5, <4>4
    <3>. QED
      BY <1>6, <2>6, <3>1, <3>2
  <2>8. CASE won.kind = "clean"
    <3>1. e.badges = <<>>
      BY <2>4, <2>8 DEF review_kind
    <3>. QED
      BY <1>3, <1>5, <2>5, <2>8, <3>1 DEF round_count, Reported
  <2>9. CASE won.kind # "clean"
    BY <1>3, <1>5, <2>4, <2>5, <2>6, <2>7, <2>9 DEF round_count, Reported, findings_by_head
  <2>. QED
    BY <2>8, <2>9
<1>9. CASE substitute_accepted(e)
  <2>1. PICK x : x = [at |-> i, head |-> e.head, kind |-> e.arg, source |-> "substitute"]
    OBVIOUS
  <2>2. x \in EventsAt(e, i)
    BY <1>9, <2>1 DEF EventsAt
  <2>3. won = x
    BY <1>5, <2>2
  <2>4. won.head = e.head /\ won.kind = e.arg /\ won.source = "substitute"
    BY <2>1, <2>3
  <2>5. e.via = "marker" /\ e.head = h /\ e.marks = "substitute-verdict"
    BY <1>1, <1>9, <2>4 DEF substitute_accepted, substitute_verdict
  <2>6. i \in substitutes_at(t, n, h)
    BY <1>2, <1>3, <1>9, <2>5 DEF substitutes_at
  <2>7. Latest(substitutes_at(t, n, h)) = i
    <3>1. substitutes_at(t, n, h) \subseteq 1 .. n
      BY DEF substitutes_at
    <3>2. ASSUME NEW j \in substitutes_at(t, n, h) PROVE j <= i
      <4>1. j \in 1 .. n /\ substitute_accepted(t[j]) /\ t[j].head = h
        BY DEF substitutes_at
      <4>2. PICK y : y = [at |-> j, head |-> t[j].head, kind |-> t[j].arg,
                          source |-> "substitute"]
        OBVIOUS
      <4>3. y \in EventsAt(t[j], j)
        BY <4>1, <4>2 DEF EventsAt
      <4>4. y \in codex_result_events(t, n) /\ y.head = h /\ y.at = j
        BY <4>1, <4>2, <4>3, EventsAreOfEntries
      <4>. QED
        BY <1>1, <1>5, <4>4
    <3>. QED
      BY <1>6, <2>6, <3>1, <3>2
  <2>8. /\ e.arg \in {"clean", "findings"}
        /\ e.arg = "clean" => e.about = 0
    <3>1. e \in Markers
      BY <1>4, <2>5 DEF Entries, Unmarked, Pushes, Retargets, Reviews, Remarks
    <3>. QED
      BY <2>5, <3>1 DEF Markers, Marks
  <2>9. CASE e.arg = "clean"
    BY <1>3, <1>5, <2>4, <2>5, <2>8, <2>9 DEF round_count, Reported
  <2>10. CASE e.arg = "findings"
    <3>1. round_count(t, n, h, won) = t[Latest(substitutes_at(t, n, h))].about
      BY <2>4, <2>10 DEF round_count, _substitute_history_by_head
    <3>. QED
      BY <1>3, <1>5, <2>5, <2>7, <3>1 DEF Reported
  <2>. QED
    BY <2>8, <2>9, <2>10
<1>. QED
  BY <1>5, <1>7, <1>8, <1>9 DEF EventsAt

\* One round for each head that has a result.
LEMMA RoundsAreHeads ==
    ASSUME NEW t \in Seq(Entries), NEW n \in Nat, n = Len(t)
    PROVE  Cardinality(round_history(t, n)) = Cardinality(codex_result_heads(t, n))
<1>. DEFINE heads == codex_result_heads(t, n)
            rounds == round_history(t, n)
            toRound == [h \in heads |->
                          CHOOSE e \in rounds : e.head = h]
            toHead == [e \in rounds |-> e.head]
<1>1. IsFiniteSet(heads)
  <2>1. n \in 0 .. Len(t) /\ n \in 0 .. n
    BY Whole
  <2>. QED
    BY <2>1, HeadsGrow
<1>. DEFINE events == codex_result_events(t, n)
            round(h) == [round |-> round_number(events, h), head |-> h,
                         closed_review |-> latest_result_by_head(events, h).kind = "clean" /\ h > 0,
                         count |-> round_count(t, n, h, latest_result_by_head(events, h))]
<1>0. rounds = {round(h) : h \in heads}
  BY DEF round_history, codex_result_heads
<1>01. \A h \in heads : round(h).head = h
  OBVIOUS
<1>. HIDE DEF heads, rounds, round
<1>2. \A h \in heads : \E e \in rounds : e.head = h
  BY <1>0, <1>01
<1>3. \A e \in rounds : e.head \in heads
  BY <1>0, <1>01
<1>4. \A e \in rounds, f \in rounds : e.head = f.head => e = f
  BY <1>0, <1>01
<1>5. toRound \in Surjection(heads, rounds)
  <2>1. \A h \in heads : toRound[h] \in rounds /\ toRound[h].head = h
    BY <1>2
  <2>2. \A e \in rounds : toRound[e.head] = e
    BY <1>3, <1>4, <2>1
  <2>. HIDE DEF toRound
  <2>3. toRound \in [heads -> rounds]
    BY <2>1 DEF toRound
  <2>. QED
    BY <1>3, <2>2, <2>3 DEF Surjection
<1>6. toHead \in Surjection(rounds, heads)
  BY <1>2, <1>3 DEF Surjection
<1>7. toHead \in Injection(rounds, heads)
  <2>1. toHead \in [rounds -> heads]
    BY <1>3
  <2>2. \A e \in rounds, f \in rounds : toHead[e] = toHead[f] => e = f
    BY <1>4
  <2>. HIDE DEF toHead
  <2>. QED
    BY <2>1, <2>2 DEF Injection, IsInjective
<1>8. IsFiniteSet(rounds)
  BY <1>1, <1>5, FS_Surjection
<1>9. Cardinality(heads) = Cardinality(rounds)
  BY <1>6, <1>7, <1>8, FS_Surjection
<1>. QED
  BY <1>9 DEF heads, rounds

\* The summary of a pull request is its history: every round says what the
\* verdict that won its head said, and a gate stands for as many rounds as it
\* names (pr_belt_summary, round_history).
THEOREM TheSummaryIsTheHistory == Spec => []RoundsAreTheWinners
<1>1. ASSUME IInv PROVE RoundsAreTheWinners
  <2>0. PICK t, n : t = thread /\ n = Len(t)
    OBVIOUS
  <2>1. t \in Seq(Entries) /\ n \in Nat /\ MarksOK(t, slack) /\ n = Now
    BY <1>1, <2>0 DEF IInv, TypeOK, Now
  <2>. DEFINE events == codex_result_events(t, n)
  <2>2. ASSUME NEW e \in round_history(t, n)
        PROVE  LET won == latest_result_by_head(events, e.head)
               IN  /\ e.closed_review <=> won.kind = "clean" /\ e.head \in Heads
                   /\ e.count = Reported(t[won.at])
    <3>1. PICK h \in codex_result_heads(t, n) :
            /\ e.head = h
            /\ e.closed_review = (latest_result_by_head(events, h).kind = "clean" /\ h > 0)
            /\ e.count = round_count(t, n, h, latest_result_by_head(events, h))
      BY DEF round_history, codex_result_heads
    <3>2. h > 0 <=> h \in Heads
      <4>1. PICK x \in codex_result_events(t, n) : x.head = h
        BY DEF codex_result_heads, result_heads_from_events
      <4>2. n \in 0 .. Len(t)
        BY <2>0, <2>1, Whole
      <4>3. h \in 0 - MaxHeads .. MaxHeads
        BY <2>1, <4>1, <4>2, EventsTyped
      <4>. QED
        BY <4>3, ReviewAssumption DEF Heads
    <3>3. PICK won : won = latest_result_by_head(codex_result_events(t, n), h)
      OBVIOUS
    <3>4. e.count = Reported(t[won.at])
      <4>1. round_count(t, n, h, won) = Reported(t[won.at])
        BY <2>0, <2>1, <3>3, CountIsReported
      <4>. QED
        BY <3>1, <3>3, <4>1
    <3>. QED
      BY <3>1, <3>2, <3>3, <3>4
  <2>3. ASSUME exhaustion_gate_recorded(t, n)
        PROVE  Cardinality(round_history(t, n)) >= exhaustion_marker_bound(t, n)
    <3>1. gates(t, n) # {} /\ gates(t, n) \subseteq 1 .. n
      BY <2>3 DEF exhaustion_gate_recorded, gates
    <3>2. \A i \in gates(t, n) : /\ t[i].about = MaxRounds
                                 /\ MaxRounds <= Cardinality(codex_result_heads(t, n))
      BY <2>0, <2>1 DEF gates, MarksOK, MarkOK
    <3>3. MaxRounds # Legacy
      BY BeltAssumption DEF Legacy
    <3>4. {i \in gates(t, n) : t[i].about # Legacy} = gates(t, n)
      BY <3>2, <3>3
    <3>5. Latest(gates(t, n)) \in gates(t, n)
      BY <2>1, <3>1, Greatest DEF Latest
    <3>6. exhaustion_marker_bound(t, n) = MaxRounds
      BY <3>1, <3>2, <3>4, <3>5 DEF exhaustion_marker_bound
    <3>7. Cardinality(round_history(t, n)) = Cardinality(codex_result_heads(t, n))
      BY <2>0, <2>1, RoundsAreHeads
    <3>8. Cardinality(codex_result_heads(t, n)) \in Nat
      <4>1. n \in 0 .. Len(t) /\ n \in 0 .. n
        BY <2>0, <2>1, Whole
      <4>. QED
        BY <2>1, <4>1, HeadsGrow
    <3>9. \A a, b \in Nat : b <= a => a >= b
      OBVIOUS
    <3>. QED
      BY <3>2, <3>5, <3>6, <3>7, <3>8, <3>9, BeltAssumption
  <2>4. PICK summary : summary = pr_belt_summary(t, n, TRUE)
    OBVIOUS
  <2>5. /\ summary.exhausted = exhaustion_gate_recorded(t, n)
        /\ summary.rounds = Cardinality(round_history(t, n))
        /\ summary.exhausted_max_rounds = exhaustion_marker_bound(t, n)
    BY <2>4 DEF pr_belt_summary
  <2>6. summary.exhausted => summary.rounds >= summary.exhausted_max_rounds
    BY <2>3, <2>5
  <2>. QED
    BY <2>0, <2>1, <2>2, <2>4, <2>6 DEF RoundsAreTheWinners
<1>. QED
  BY <1>1, InvariantHolds, PTL

-----------------------------------------------------------------------------
(* The refinement of ReviewRounds.  What the record and the wakes say is   *)
(* stated over a record t and a set S of wakes.                            *)

HeadsOf(t, kind) == {e.head : e \in {e \in codex_result_events(t, Len(t)) : e.kind = kind}}

TellsClean(kind, t, on) == kind = "clean_wake" \/ (kind = "redelivery" /\ CleanAt(t, on))

FixingOf(t, S) == {w.head : w \in {w \in S : SendsBack(w.kind, t, w.on)}}
ClosedOf(t, S) == {w.head : w \in {w \in S : TellsClean(w.kind, t, w.on)}}
StoppedOf(S) == {w.head : w \in {w \in S : SaysExhausted(w)}}

\* The abstract state is what the record and the wakes say.
LEMMA RoundsState ==
    /\ \A kind : HeadsGiven(kind) = HeadsOf(thread, kind)
    /\ HeadsToFix = FixingOf(thread, slack)
    /\ HeadsTold = ClosedOf(thread, slack)
    /\ HeadsStopped = StoppedOf(slack)
<1>1. \A i : SaysClean(i) <=> CleanAt(thread, i)
  BY DEF SaysClean, CleanAt, Now
<1>2. \A w : /\ SentToFix(w) <=> SendsBack(w.kind, thread, w.on)
             /\ ToldClean(w) <=> TellsClean(w.kind, thread, w.on)
  BY <1>1 DEF SentToFix, ToldClean, SendsBack, TellsClean
<1>. QED
  BY <1>2 DEF HeadsGiven, HeadsToFix, HeadsTold, HeadsStopped, HeadsOf, FixingOf, ClosedOf,
     StoppedOf, Now

(* What a run or a person does adds one entry to the record or posts one   *)
(* wake, or neither.                                                       *)
MovesOnce ==
    \/ UNCHANGED <<thread, slack>>
    \/ UNCHANGED slack /\ \E e : thread' = Append(thread, e)
    \/ UNCHANGED thread /\ \E w : slack' = slack \cup {w}

\* Each kind of request does (Reads, Comments, Wakes), and so does what people do.
LEMMA RequestsMove ==
    /\ \A l, r : Reads(l, r) => MovesOnce
    /\ \A l, marks, arg, about, r : Comments(l, marks, arg, about, r) => MovesOnce
    /\ \A l, kind, r : Wakes(l, kind, r) => MovesOnce
    /\ \A e, lane, r : Happens(e, lane, r) => MovesOnce
<1>1. \A l, r : Reads(l, r) => MovesOnce
  BY DEF Reads, MovesOnce
<1>2. \A l, marks, arg, about, r : Comments(l, marks, arg, about, r) => MovesOnce
  BY DEF Comments, MovesOnce
<1>3. \A l, kind, r : Wakes(l, kind, r) => MovesOnce
  BY DEF Wakes, MovesOnce
<1>4. \A e, lane, r : Happens(e, lane, r) => MovesOnce
  BY DEF Happens, MovesOnce
<1>. QED
  BY <1>1, <1>2, <1>3, <1>4

\* Every step of the belt does.
LEMMA StepsMove == [Next]_vars => MovesOnce
<1>1. ASSUME NEW l \in Lanes, Route(l) PROVE MovesOnce
  <2>1. CASE route_codex_result(l)
    BY <2>1, RequestsMove DEF route_codex_result
  <2>2. CASE record_reviewed_head_base(l)
    BY <2>2, RequestsMove DEF record_reviewed_head_base
  <2>3. CASE close(l) \/ ensure_exhaustion_gate_at_head(l)
    BY <2>3, RequestsMove DEF close, ensure_exhaustion_gate_at_head
  <2>4. CASE post_gate(l) \/ record_request(l)
    BY <2>4, RequestsMove DEF post_gate, record_request
  <2>5. CASE publishable_at_head(l) \/ post_threaded_messages(l) \/ retrospective_check(l)
    BY <2>5, RequestsMove DEF publishable_at_head, post_threaded_messages, retrospective_check
  <2>6. CASE deliver_wake(l) \/ publish_exhaustion_retrospective(l)
    BY <2>6, RequestsMove DEF deliver_wake, publish_exhaustion_retrospective
  <2>. QED
    BY <1>1, <2>1, <2>2, <2>3, <2>4, <2>5, <2>6 DEF Route
<1>2. ASSUME NEW l \in Lanes, Scan(l) PROVE MovesOnce
  <2>1. CASE summon_on_push(l) \/ event_scan(l)
    BY <2>1, RequestsMove DEF summon_on_push, event_scan, Scans
  <2>2. CASE chase_reads(l) \/ chase_head(l) \/ verdict_state_held(l)
    BY <2>2, RequestsMove DEF chase_reads, chase_head, verdict_state_held
  <2>3. CASE wake_chase(l) \/ wake_substitute(l)
    BY <2>3, RequestsMove DEF wake_chase, wake_substitute
  <2>4. CASE post_chase(l) \/ post_nudge(l) \/ post_summon(l)
    BY <2>4, RequestsMove DEF post_chase, post_nudge, post_summon
  <2>5. CASE mark_redelivery(l) \/ record_review_skip(l)
    BY <2>5, RequestsMove DEF mark_redelivery, record_review_skip
  <2>. QED
    BY <1>2, <2>1, <2>2, <2>3, <2>4, <2>5 DEF Scan
<1>3. CASE nudge_stalled_reviews
  BY <1>3, RequestsMove DEF nudge_stalled_reviews, Scans
<1>4. CASE an_hour_passes \/ \E l \in Lanes : request_fails(l)
  BY <1>4 DEF an_hour_passes, request_fails, MovesOnce
<1>5. CASE Environment
  <2>1. CASE push \/ submit_review
    BY <2>1, RequestsMove DEF push, submit_review
  <2>2. CASE comment_codex \/ comment_substitute \/ comment_seat
    BY <2>2, RequestsMove DEF comment_codex, comment_substitute, comment_seat
  <2>3. CASE chatter \/ retarget \/ close_pull
    BY <2>3 DEF chatter, retarget, close_pull, MovesOnce
  <2>. QED
    BY <1>5, <2>1, <2>2, <2>3 DEF Environment
<1>6. CASE UNCHANGED vars
  BY <1>6 DEF vars, MovesOnce
<1>. QED
  BY <1>1, <1>2, <1>3, <1>4, <1>5, <1>6 DEF Next, Works

OneVerdict(t, u) ==
    \/ /\ HeadsOf(u, "findings") = HeadsOf(t, "findings")
       /\ HeadsOf(u, "clean") = HeadsOf(t, "clean")
    \/ \E h \in 0 - MaxHeads .. MaxHeads :
         /\ HeadsOf(u, "findings") = HeadsOf(t, "findings") \cup {h}
         /\ HeadsOf(u, "clean") = HeadsOf(t, "clean")
    \/ \E h \in 0 - MaxHeads .. MaxHeads :
         /\ HeadsOf(u, "findings") = HeadsOf(t, "findings")
         /\ HeadsOf(u, "clean") = HeadsOf(t, "clean") \cup {h}

\* One more entry gives at most one verdict, and says nothing new of a wake.
LEMMA EntryTold ==
    ASSUME NEW t \in Seq(Entries), NEW e \in Entries,
           NEW S, \A w \in S : w.on \in 0 .. Len(t)
    PROVE  /\ FixingOf(Append(t, e), S) = FixingOf(t, S)
           /\ ClosedOf(Append(t, e), S) = ClosedOf(t, S)
           /\ OneVerdict(t, Append(t, e))
<1>. DEFINE u == Append(t, e)
<1>1. /\ Len(t) \in Nat /\ Len(u) = Len(t) + 1 /\ u[Len(t) + 1] = e
      /\ \A i \in 1 .. Len(t) : u[i] = t[i]
  OBVIOUS
<1>2. PICK n, m : n = Len(t) /\ m = Len(u)
  OBVIOUS
<1>. HIDE DEF u
<1>3. n \in Nat /\ m = n + 1 /\ m \in Nat /\ u[m] = e /\ 1 .. m = (1 .. n) \cup {m}
  BY <1>1, <1>2
<1>4. codex_result_events(u, m) = codex_result_events(t, n) \cup EventsAt(e, m)
  <2>1. ASSUME NEW x
        PROVE  x \in codex_result_events(u, m) <=>
                 x \in codex_result_events(t, n) \cup EventsAt(e, m)
    <3>1. x \in codex_result_events(u, m) <=> \E i \in 1 .. m : x \in EventsAt(u[i], i)
      BY EventsAreOfEntries
    <3>2. x \in codex_result_events(t, n) <=> \E i \in 1 .. n : x \in EventsAt(t[i], i)
      BY EventsAreOfEntries
    <3>3. \A i \in 1 .. n : u[i] = t[i]
      BY <1>1, <1>2
    <3>. QED
      BY <1>3, <3>1, <3>2, <3>3
  <2>. QED
    BY <2>1
<1>5. /\ FixingOf(u, S) = FixingOf(t, S) /\ ClosedOf(u, S) = ClosedOf(t, S)
  <2>1. ASSUME NEW w \in S PROVE CleanAt(u, w.on) <=> CleanAt(t, w.on)
    BY CleanAtGrows DEF u
  <2>2. ASSUME NEW w \in S
        PROVE  /\ SendsBack(w.kind, u, w.on) <=> SendsBack(w.kind, t, w.on)
               /\ TellsClean(w.kind, u, w.on) <=> TellsClean(w.kind, t, w.on)
    BY <2>1 DEF SendsBack, TellsClean
  <2>. QED
    BY <2>2 DEF FixingOf, ClosedOf
<1>6. OneVerdict(t, u)
  <2>1. CASE EventsAt(e, m) = {}
    BY <1>2, <1>4, <2>1 DEF HeadsOf, OneVerdict
  <2>2. CASE EventsAt(e, m) # {}
    <3>1. PICK x : x \in EventsAt(e, m)
      BY <2>2
    <3>2. /\ x.head \in 0 - MaxHeads .. MaxHeads /\ x.kind \in {"clean", "findings"}
          /\ EventsAt(e, m) = {x}
      BY <1>3, <3>1, EventOfEntry DEF Events
    <3>3. codex_result_events(u, m) = codex_result_events(t, n) \cup {x}
      BY <1>4, <3>2
    <3>4. ASSUME NEW k
          PROVE  HeadsOf(u, k) = IF x.kind = k THEN HeadsOf(t, k) \cup {x.head} ELSE HeadsOf(t, k)
      BY <1>2, <3>3 DEF HeadsOf
    <3>5. CASE x.kind = "findings"
      BY <3>2, <3>4, <3>5 DEF OneVerdict
    <3>6. CASE x.kind = "clean"
      BY <3>2, <3>4, <3>6 DEF OneVerdict
    <3>. QED
      BY <3>2, <3>5, <3>6
  <2>. QED
    BY <2>1, <2>2
<1>. QED
  BY <1>5, <1>6 DEF u

\* One more wake tells a seat one thing about one head, or nothing.
LEMMA WakeTold ==
    ASSUME NEW t, NEW S, NEW w
    PROVE  LET T == S \cup {w}
           IN  /\ FixingOf(t, T) = IF SendsBack(w.kind, t, w.on)
                                     THEN FixingOf(t, S) \cup {w.head} ELSE FixingOf(t, S)
               /\ ClosedOf(t, T) = IF TellsClean(w.kind, t, w.on)
                                     THEN ClosedOf(t, S) \cup {w.head} ELSE ClosedOf(t, S)
               /\ StoppedOf(T) = IF SaysExhausted(w)
                                   THEN StoppedOf(S) \cup {w.head} ELSE StoppedOf(S)
               /\ SendsBack(w.kind, t, w.on) => ~TellsClean(w.kind, t, w.on) /\ ~SaysExhausted(w)
               /\ TellsClean(w.kind, t, w.on) => ~SaysExhausted(w)
<1>. DEFINE T == S \cup {w}
<1>1. FixingOf(t, T) = IF SendsBack(w.kind, t, w.on)
                         THEN FixingOf(t, S) \cup {w.head} ELSE FixingOf(t, S)
  BY DEF FixingOf
<1>2. ClosedOf(t, T) = IF TellsClean(w.kind, t, w.on)
                         THEN ClosedOf(t, S) \cup {w.head} ELSE ClosedOf(t, S)
  BY DEF ClosedOf
<1>3. StoppedOf(T) = IF SaysExhausted(w) THEN StoppedOf(S) \cup {w.head} ELSE StoppedOf(S)
  BY DEF StoppedOf
<1>4. /\ SendsBack(w.kind, t, w.on) => ~TellsClean(w.kind, t, w.on) /\ ~SaysExhausted(w)
      /\ TellsClean(w.kind, t, w.on) => ~SaysExhausted(w)
  BY DEF SendsBack, TellsClean, SaysExhausted
<1>. QED
  BY <1>1, <1>2, <1>3, <1>4

\* The record's verdicts are at heads, and the verdicts at the heads are all its
\* rounds.
LEMMA HeadsAreRounds ==
    ASSUME NEW t \in Seq(Entries)
    PROVE  /\ \A kind : HeadsOf(t, kind) \in SUBSET (0 - MaxHeads .. MaxHeads)
           /\ HeadsOf(t, "findings") \cup HeadsOf(t, "clean") = codex_result_heads(t, Len(t))
           /\ \A kind, h : GivenAt(t, h, kind) <=> h \in HeadsOf(t, kind)
<1>1. Len(t) \in 0 .. Len(t)
  OBVIOUS
<1>2. \A e \in codex_result_events(t, Len(t)) :
        e.head \in 0 - MaxHeads .. MaxHeads /\ e.kind \in {"clean", "findings"}
  BY <1>1, EventsTyped DEF Events
<1>3. \A kind : HeadsOf(t, kind) \in SUBSET (0 - MaxHeads .. MaxHeads)
  BY <1>2 DEF HeadsOf
<1>4. HeadsOf(t, "findings") \cup HeadsOf(t, "clean") = codex_result_heads(t, Len(t))
  BY <1>2 DEF HeadsOf, codex_result_heads, result_heads_from_events
<1>5. \A kind, h : GivenAt(t, h, kind) <=> h \in HeadsOf(t, kind)
  BY DEF GivenAt, HeadsOf
<1>. QED
  BY <1>3, <1>4, <1>5

\* A set has as many elements in ReviewRounds as in ReviewLoop.
LEMMA SameSize == \A X : Rounds!Cardinality(X) = Cardinality(X)
BY DEF Rounds!Cardinality, Cardinality

\* Every step of the belt is one of ReviewRounds or leaves its state.
LEMMA StepsAreRounds ==
    ASSUME IInv, IInv', RoundsBoundTheLoop', [Next]_vars
    PROVE  [Rounds!Next]_(Rounds!vars)
<1>1. /\ thread \in Seq(Entries) /\ thread' \in Seq(Entries)
      /\ slack \subseteq WakesOver(Len(thread))
      /\ \A w \in slack' : WakeOK(w, thread')
  BY DEF IInv, TypeOK, WakesOK, Now
<1>2. PICK t, u, S, T : t = thread /\ u = thread' /\ S = slack /\ T = slack'
  OBVIOUS
<1>3. /\ t \in Seq(Entries) /\ u \in Seq(Entries) /\ S \subseteq WakesOver(Len(t))
      /\ \A w \in T : WakeOK(w, u)
  BY <1>1, <1>2
<1>4. /\ HeadsGiven("findings") = HeadsOf(t, "findings")
      /\ HeadsGiven("clean") = HeadsOf(t, "clean")
      /\ HeadsToFix = FixingOf(t, S)
      /\ HeadsTold = ClosedOf(t, S)
      /\ HeadsStopped = StoppedOf(S)
  BY <1>2, RoundsState
<1>5. /\ HeadsGiven("findings")' = HeadsOf(u, "findings")
      /\ HeadsGiven("clean")' = HeadsOf(u, "clean")
      /\ HeadsToFix' = FixingOf(u, T)
      /\ HeadsTold' = ClosedOf(u, T)
      /\ HeadsStopped' = StoppedOf(T)
  <2>1. \A i : SaysClean(i)' <=> CleanAt(u, i)
    BY <1>2 DEF SaysClean, CleanAt, Now
  <2>2. \A w : /\ SentToFix(w)' <=> SendsBack(w.kind, u, w.on)
               /\ ToldClean(w)' <=> TellsClean(w.kind, u, w.on)
    BY <2>1 DEF SentToFix, ToldClean, SendsBack, TellsClean
  <2>. QED
    BY <1>2, <2>2
       DEF HeadsGiven, HeadsToFix, HeadsTold, HeadsStopped, HeadsOf, FixingOf, ClosedOf, StoppedOf,
           Now, SaysExhausted
<1>6. Cardinality(FixingOf(u, T)) < MaxRounds
  BY <1>5 DEF RoundsBoundTheLoop
<1>7. \/ T = S /\ u = t
      \/ T = S /\ \E e \in Entries : u = Append(t, e)
      \/ u = t /\ \E w : T = S \cup {w}
  <2>1. MovesOnce
    BY StepsMove
  <2>2. ASSUME NEW e, u = Append(t, e) PROVE e \in Entries
    <3>1. Len(t) + 1 \in 1 .. Len(u) /\ u[Len(t) + 1] = e
      BY <1>3, <2>2
    <3>. QED
      BY <1>3, <3>1
  <2>. QED
    BY <1>2, <2>1, <2>2 DEF MovesOnce
<1>8. CASE T = S /\ u = t
  BY <1>4, <1>5, <1>8 DEF Rounds!vars
<1>9. CASE T = S /\ \E e \in Entries : u = Append(t, e)
  <2>1. PICK e \in Entries : u = Append(t, e)
    BY <1>9
  <2>10. FixingOf(u, S) = FixingOf(t, S) /\ ClosedOf(u, S) = ClosedOf(t, S) /\ OneVerdict(t, u)
    <3>1. \A x \in S : x.on \in 0 .. Len(t)
      BY <1>3 DEF WakesOver
    <3>2. /\ FixingOf(Append(t, e), S) = FixingOf(t, S)
          /\ ClosedOf(Append(t, e), S) = ClosedOf(t, S)
          /\ OneVerdict(t, Append(t, e))
      BY <1>3, <3>1, EntryTold
    <3>. QED
      BY <2>1, <3>2
  <2>2. FixingOf(u, T) = FixingOf(t, S) /\ ClosedOf(u, T) = ClosedOf(t, S)
        /\ StoppedOf(T) = StoppedOf(S)
    BY <1>9, <2>10
  <2>3. CASE /\ HeadsOf(u, "findings") = HeadsOf(t, "findings")
             /\ HeadsOf(u, "clean") = HeadsOf(t, "clean")
    BY <1>4, <1>5, <2>2, <2>3 DEF Rounds!vars
  <2>4. CASE \E h \in 0 - MaxHeads .. MaxHeads :
               /\ HeadsOf(u, "findings") = HeadsOf(t, "findings") \cup {h}
               /\ HeadsOf(u, "clean") = HeadsOf(t, "clean")
    <3>1. PICK h \in 0 - MaxHeads .. MaxHeads :
               /\ HeadsOf(u, "findings") = HeadsOf(t, "findings") \cup {h}
               /\ HeadsOf(u, "clean") = HeadsOf(t, "clean")
      BY <2>4
    <3>2. CASE h \in HeadsOf(t, "findings")
      BY <1>4, <1>5, <2>2, <3>1, <3>2 DEF Rounds!vars
    <3>3. CASE h \notin HeadsOf(t, "findings")
      <4>1. Rounds!Find
        BY <1>4, <1>5, <2>2, <3>1, <3>3 DEF Rounds!Find
      <4>. QED
        BY <4>1 DEF Rounds!Next
    <3>. QED
      BY <3>2, <3>3
  <2>5. CASE \E h \in 0 - MaxHeads .. MaxHeads :
               /\ HeadsOf(u, "findings") = HeadsOf(t, "findings")
               /\ HeadsOf(u, "clean") = HeadsOf(t, "clean") \cup {h}
    <3>1. PICK h \in 0 - MaxHeads .. MaxHeads :
               /\ HeadsOf(u, "findings") = HeadsOf(t, "findings")
               /\ HeadsOf(u, "clean") = HeadsOf(t, "clean") \cup {h}
      BY <2>5
    <3>2. CASE h \in HeadsOf(t, "clean")
      BY <1>4, <1>5, <2>2, <3>1, <3>2 DEF Rounds!vars
    <3>3. CASE h \notin HeadsOf(t, "clean")
      <4>1. Rounds!Clear
        BY <1>4, <1>5, <2>2, <3>1, <3>3 DEF Rounds!Clear
      <4>. QED
        BY <4>1 DEF Rounds!Next
    <3>. QED
      BY <3>2, <3>3
  <2>. QED
    BY <2>3, <2>4, <2>5, <2>10 DEF OneVerdict
<1>10. CASE u = t /\ \E w : T = S \cup {w}
  <2>1. PICK w : T = S \cup {w}
    BY <1>10
  <2>2. /\ HeadsOf(u, "findings") = HeadsOf(t, "findings")
        /\ HeadsOf(u, "clean") = HeadsOf(t, "clean")
    BY <1>10
  <2>3. /\ FixingOf(u, T) = IF SendsBack(w.kind, t, w.on)
                              THEN FixingOf(t, S) \cup {w.head} ELSE FixingOf(t, S)
        /\ ClosedOf(u, T) = IF TellsClean(w.kind, t, w.on)
                              THEN ClosedOf(t, S) \cup {w.head} ELSE ClosedOf(t, S)
        /\ StoppedOf(T) = IF SaysExhausted(w)
                            THEN StoppedOf(S) \cup {w.head} ELSE StoppedOf(S)
        /\ SendsBack(w.kind, t, w.on) => ~TellsClean(w.kind, t, w.on) /\ ~SaysExhausted(w)
        /\ TellsClean(w.kind, t, w.on) => ~SaysExhausted(w)
    BY <1>10, <2>1, WakeTold
  <2>4. WakeOK(w, t)
    BY <1>3, <1>10, <2>1
  <2>5. /\ SendsBack(w.kind, t, w.on) => w.head \in HeadsOf(t, "findings")
        /\ TellsClean(w.kind, t, w.on) => w.head \in HeadsOf(t, "clean")
        /\ SaysExhausted(w) => w.head \in HeadsOf(t, "findings")
    BY <1>3, <2>4, HeadsAreRounds DEF WakeOK, Rightly, TellsClean, SaysExhausted
  <2>6. CASE SendsBack(w.kind, t, w.on) /\ w.head \notin FixingOf(t, S)
    <3>1. Rounds!SendToFix
      <4>1. /\ w.head \in HeadsGiven("findings") \ HeadsToFix
            /\ HeadsToFix' =
                 HeadsToFix \cup {w.head}
        BY <1>4, <1>5, <2>3, <2>5, <2>6
      <4>2. Cardinality(HeadsToFix') < MaxRounds
        BY DEF RoundsBoundTheLoop
      <4>3. UNCHANGED <<HeadsGiven("findings"), HeadsGiven("clean"),
                        HeadsTold,
                        HeadsStopped>>
        BY <1>4, <1>5, <2>2, <2>3, <2>6
      <4>. QED
        BY <4>1, <4>2, <4>3, SameSize DEF Rounds!SendToFix
    <3>. QED
      BY <3>1 DEF Rounds!Next
  <2>7. CASE TellsClean(w.kind, t, w.on) /\ w.head \notin ClosedOf(t, S)
    <3>1. Rounds!Close
      BY <1>4, <1>5, <2>2, <2>3, <2>5, <2>7 DEF Rounds!Close
    <3>. QED
      BY <3>1 DEF Rounds!Next
  <2>8. CASE SaysExhausted(w) /\ w.head \notin StoppedOf(S)
    <3>1. HeadsOf(t, "findings") \cup HeadsOf(t, "clean") = codex_result_heads(t, Len(t))
      BY <1>3, HeadsAreRounds
    <3>2. MaxRounds <= Cardinality(codex_result_heads(t, Len(t)))
      BY <2>4, <2>8 DEF WakeOK, SaysExhausted
    <3>3. /\ MaxRounds \in Nat /\ Cardinality(codex_result_heads(t, Len(t))) \in Nat
      <4>1. Len(t) \in 0 .. Len(t)
        BY <1>3
      <4>. QED
        BY <1>3, <4>1, HeadsGrow, BeltAssumption
    <3>4. \A a, b \in Nat : a <= b => b >= a
      OBVIOUS
    <3>5. Cardinality(HeadsOf(t, "findings") \cup HeadsOf(t, "clean")) >= MaxRounds
      BY <3>1, <3>2, <3>3, <3>4
    <3>6. Rounds!Stop
      <4>1. /\ w.head \in HeadsGiven("findings")
                           \ HeadsStopped
            /\ HeadsStopped' =
                 HeadsStopped \cup {w.head}
        BY <1>4, <1>5, <2>3, <2>5, <2>8
      <4>2. Cardinality(HeadsGiven("findings") \cup HeadsGiven("clean")) >= MaxRounds
        BY <1>4, <3>5
      <4>3. UNCHANGED <<HeadsGiven("findings"), HeadsGiven("clean"),
                        HeadsToFix,
                        HeadsTold>>
        BY <1>4, <1>5, <2>2, <2>3, <2>8
      <4>. QED
        BY <4>1, <4>2, <4>3, SameSize DEF Rounds!Stop
    <3>. QED
      BY <3>6 DEF Rounds!Next
  <2>9. CASE /\ SendsBack(w.kind, t, w.on) => w.head \in FixingOf(t, S)
             /\ TellsClean(w.kind, t, w.on) => w.head \in ClosedOf(t, S)
             /\ SaysExhausted(w) => w.head \in StoppedOf(S)
    <3>1. FixingOf(u, T) = FixingOf(t, S) /\ ClosedOf(u, T) = ClosedOf(t, S)
          /\ StoppedOf(T) = StoppedOf(S)
      BY <2>3, <2>9
    <3>. QED
      BY <1>4, <1>5, <2>2, <3>1 DEF Rounds!vars
  <2>. QED
    BY <2>6, <2>7, <2>8, <2>9
<1>. QED
  BY <1>7, <1>8, <1>9, <1>10

\* What the belt tells the seats of a pull request is what ReviewRounds allows
\* (route_codex_review, redeliver_standing_wake, dispatch_retrospective): of every
\* push, review, retarget, eviction, failed request and interleaving of its lanes.
THEOREM TheBeltImplementsRounds == Spec => ImplementsRounds
<1>1. ASSUME Init, IInv PROVE Rounds!Init
  <2>1. thread \in Seq(Entries) /\ slack = {}
    BY <1>1 DEF Init, IInv, TypeOK
  <2>2. /\ HeadsGiven("findings") \in SUBSET (0 - MaxHeads .. MaxHeads)
        /\ HeadsGiven("clean") \in SUBSET (0 - MaxHeads .. MaxHeads)
    BY <2>1, RoundsState, HeadsAreRounds
  <2>. QED
    BY <2>1, <2>2 DEF Rounds!Init, HeadsToFix, HeadsTold, HeadsStopped
<1>2. IInv /\ IInv' /\ RoundsBoundTheLoop' /\ [Next]_vars => [Rounds!Next]_(Rounds!vars)
  BY StepsAreRounds
<1>3. Init => IInv
  BY InitKeeps
<1>. QED
  BY <1>1, <1>2, <1>3, InvariantHolds, TheLoopIsBounded, PTL DEF Spec, ImplementsRounds, Rounds!Spec
=============================================================================
