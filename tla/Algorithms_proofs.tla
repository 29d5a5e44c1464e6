--------------------------- MODULE Algorithms_proofs ---------------------------
(***************************************************************************)
(* Proofs about the belt's scripts and the sealed envelope: that no merge  *)
(* falls between two digests, for any number of pulls, repositories, runs  *)
(* and overlaps and for any length of time; and, for everything they can   *)
(* be given, what a merge is said to cost, whose pull request it is,       *)
(* whether it is exempt, and what verifies.                                *)
(***************************************************************************)
EXTENDS Answers, CommonLemmas

(* The runs and what they hold.                                            *)

Run == [created : Nat, dry : BOOLEAN, since : Int, unread : SUBSET Repos, page : Nat,
        found : SUBSET Pulls, slipped : SUBSET Pulls,
        failed : BOOLEAN, entries : SUBSET Pulls, status : {"running", "success"}]

DigestType ==
    /\ clock \in Nat
    /\ merged_at \in [Pulls -> Int] /\ updated_at \in [Pulls -> Int] /\ place \in [Pulls -> Nat]
    /\ runs \in Seq(Run)
    /\ reported \in SUBSET Pulls /\ slipped \in SUBSET Pulls

\* A merge of the window from `since' to `until'.
MergedIn(p, since, until) ==
    merged_at[p] # Never /\ merged_at[p] >= since /\ merged_at[p] < until

\* The listing of a repository: a merge updates its pull and closes it; every
\* place up to that of a pull is some pull's, and its alone, and those before
\* it were updated no earlier.
SamePlace(p, q) == RepoOf[p] = RepoOf[q] /\ place[p] > 0 /\ place[q] > 0

MergesAreListed ==
    \A p \in Pulls :
        /\ updated_at[p] <= clock
        /\ merged_at[p] # Never => place[p] > 0 /\ merged_at[p] <= updated_at[p]

PlacesAreOrdered ==
    \A p, q \in Pulls : SamePlace(p, q) =>
        /\ p # q => place[p] # place[q]
        /\ place[p] < place[q] => updated_at[p] >= updated_at[q]

PlacesAreTaken ==
    \A p \in Pulls : \A m \in 1 .. place[p] :
        \E q \in Pulls : RepoOf[q] = RepoOf[p] /\ place[q] = m

Listing == MergesAreListed /\ PlacesAreOrdered /\ PlacesAreTaken

\* A run that is under way began in this unit of the clock or the one before.
RunsAreTimely ==
    \A i \in DOMAIN runs :
        /\ runs[i].created <= clock
        /\ runs[i].status = "running" => runs[i].created >= clock - 1

\* The list of runs is in the order of their creation.
RunsAreSorted ==
    \A i, j \in DOMAIN runs : i <= j => runs[i].created <= runs[j].created

\* What a run under way has of its window, unless it missed a repository: the
\* merges of the repositories it has read, and of the one that it is reading
\* those that are not on the pages to come; or they slipped.
Thorough(run) ==
    run.status = "running" /\ ~run.failed =>
        \A p \in Pulls : MergedIn(p, run.since, run.created) =>
            /\ RepoOf[p] \notin run.unread => p \in run.entries \cup run.slipped
            /\ run.unread # {} /\ RepoOf[p] = Current(run) =>
                 p \in run.found \cup run.slipped \/ place[p] > ReadTo(run)

RunsAreThorough == \A i \in DOMAIN runs : Thorough(runs[i])

\* The runs that posted, or may yet.
Live == {i \in DOMAIN runs : runs[i].status = "running" \/ i \in Covered}

\* Nothing that merged between two times is missing from the digests, but for
\* what slipped.
AllReported(since, until) ==
    \A p \in Pulls : MergedIn(p, since, until) => p \in reported \cup slipped

\* A run's window reaches back to each run before it that posted or may yet,
\* or to the creation of a run that posted, created no earlier than that one.
Meets(run, before) ==
    before.created < run.created =>
        \/ run.since <= before.created
        \/ \E k \in Covered : before.created <= runs[k].created /\ run.since <= runs[k].created

WindowsMeet == \A j \in DOMAIN runs, i \in Live : Meets(runs[j], runs[i])

\* The window of a run that posted is in the digests, and so is what merged
\* between a run that posted, or may yet, and a later one that posted.
WindowsAreReported == \A j \in Covered : AllReported(runs[j].since, runs[j].created)
GapsAreReported == \A i \in Live, j \in Covered : AllReported(runs[i].created, runs[j].created)

DigestInv ==
    /\ DigestType /\ Listing /\ RunsAreTimely /\ RunsAreSorted /\ RunsAreThorough
    /\ WindowsMeet /\ WindowsAreReported /\ GapsAreReported

\* Runs are typed.
LEMMA RunTyping ==
    ASSUME DigestType
    PROVE  /\ runs \in Seq(Run) /\ Len(runs) \in Nat /\ DOMAIN runs = 1 .. Len(runs)
           /\ \A i \in DOMAIN runs :
                /\ runs[i] \in Run /\ runs[i].created \in Nat /\ runs[i].since \in Int
                /\ runs[i].dry \in BOOLEAN /\ runs[i].failed \in BOOLEAN
                /\ runs[i].unread \in SUBSET Repos /\ runs[i].entries \in SUBSET Pulls
                /\ runs[i].page \in Nat /\ runs[i].found \in SUBSET Pulls
                /\ runs[i].slipped \in SUBSET Pulls
                /\ runs[i].status \in {"running", "success"}
<1>1. runs \in Seq(Run) /\ Len(runs) \in Nat /\ DOMAIN runs = 1 .. Len(runs)
  BY DEF DigestType
<1>2. \A i \in DOMAIN runs : runs[i] \in Run
  BY <1>1
<1>. QED
  BY <1>1, <1>2 DEF Run

\* Two times with a third between them: what merged is in one part.
LEMMA Between ==
    ASSUME DigestType, NEW a \in Int, NEW b \in Int, NEW c \in Int, NEW d \in Int,
           AllReported(a, b), AllReported(c, d), c <= b
    PROVE  AllReported(a, d)
<1>1. \A p \in Pulls : merged_at[p] \in Int
  BY DEF DigestType
<1>. QED
  BY <1>1 DEF AllReported, MergedIn

\* The invariant says that no merge is missed.
LEMMA NothingMissed == DigestInv => NoMergeIsMissed
<1>. SUFFICES ASSUME DigestInv, NEW i \in Covered, NEW j \in Covered
              PROVE  AllReported(runs[i].since, runs[j].created)
  BY DEF NoMergeIsMissed, AllReported, MergedIn
<1>. USE DEF DigestInv, pulls_vars
<1>1. i \in DOMAIN runs /\ j \in DOMAIN runs /\ i \in Live
  BY DEF Covered, Live
<1>2. /\ runs[i].since \in Int /\ runs[i].created \in Int /\ runs[j].created \in Int
  BY <1>1, RunTyping
<1>3. AllReported(runs[i].since, runs[i].created) /\ AllReported(runs[i].created, runs[j].created)
  BY <1>1 DEF WindowsAreReported, GapsAreReported
<1>. QED
  BY <1>2, <1>3, Between

-----------------------------------------------------------------------------
(* The window.                                                             *)

\* The start of a window taken now reaches back to the newest run that
\* posted, if one has.
LEMMA WindowStart ==
    ASSUME DigestInv, NEW i \in Covered, NEW since \in Int
    PROVE  \E k \in Covered : /\ runs[i].created <= runs[k].created
                              /\ resolve_window(clock, since) <= runs[k].created
<1>. DEFINE posted == {x \in DOMAIN runs : _run_posted_digest(runs[x])}
<1>1. /\ runs \in Seq(Run) /\ Len(runs) \in Nat /\ DOMAIN runs = 1 .. Len(runs)
      /\ posted = Covered /\ i \in posted
  BY DEF DigestInv, DigestType, Covered, _run_posted_digest
<1>2. PICK k \in posted : \A j \in posted : j <= k
  BY <1>1, Greatest
<1>3. \A x \in posted : (\A j \in posted : j <= x) => x = k
  BY <1>1, <1>2
<1>. DEFINE top == CHOOSE x \in posted : \A j \in posted : j <= x
<1>4. top = k
  BY <1>2, <1>3
<1>5. window_start(clock) = runs[k].created
  BY <1>1, <1>4 DEF window_start
<1>6. runs[k].created \in Nat /\ runs[i].created <= runs[k].created
  <2>1. i \in DOMAIN runs /\ k \in DOMAIN runs /\ i <= k
    BY <1>1, <1>2
  <2>2. runs[k].created \in Nat
    BY <2>1, RunTyping DEF DigestInv
  <2>. QED
    BY <2>1, <2>2 DEF DigestInv, RunsAreSorted
<1>7. resolve_window(clock, since) <= runs[k].created
  BY <1>5, <1>6 DEF resolve_window
<1>. QED
  BY <1>1, <1>6, <1>7

\* A window is a time.
LEMMA WindowTyping ==
    ASSUME DigestInv, NEW since \in Int
    PROVE  resolve_window(clock, since) \in Int
<1>1. clock \in Nat /\ BOOTSTRAP_WINDOW \in Nat /\ runs \in Seq(Run)
  BY DigestAssumption DEF DigestInv, DigestType
<1>2. window_start(clock) \in Int
  <2>. DEFINE posted == {x \in DOMAIN runs : _run_posted_digest(runs[x])}
  <2>1. CASE posted = {}
    BY <1>1, <2>1 DEF window_start
  <2>2. CASE posted # {}
    <3>1. posted \in SUBSET (1 .. Len(runs)) /\ Len(runs) \in Nat
      BY <1>1
    <3>2. \E k \in posted : \A j \in posted : j <= k
      BY <2>2, <3>1, Greatest
    <3>. DEFINE top == CHOOSE x \in posted : \A j \in posted : j <= x
    <3>3. top \in posted
      BY <3>2
    <3>4. window_start(clock) = runs[top].created
      BY <2>2 DEF window_start
    <3>. HIDE DEF top
    <3>5. runs[top] \in Run
      BY <1>1, <3>1, <3>3
    <3>. QED
      BY <3>4, <3>5 DEF Run
  <2>. QED
    BY <2>1, <2>2
<1>. QED
  BY <1>2 DEF resolve_window

-----------------------------------------------------------------------------
(* The steps.                                                              *)

\* A run under way that is changed, or posts, in its place.
LEMMA ChangedRun ==
    ASSUME DigestInv, NEW i \in DOMAIN runs, runs[i].status = "running",
           NEW run \in Run, run.created = runs[i].created, run.since = runs[i].since,
           runs' = [runs EXCEPT ![i] = run], UNCHANGED <<clock, pulls_vars>>,
           reported \subseteq reported', reported' \in SUBSET Pulls,
           slipped \subseteq slipped', slipped' \in SUBSET Pulls,
           Thorough(run),
           (run.status = "success" /\ ~run.dry) =>
              \A p \in Pulls : MergedIn(p, run.since, run.created) => p \in (reported \cup slipped)'
    PROVE  DigestInv'
<1>. USE DEF DigestInv, pulls_vars
<1>1. /\ DOMAIN runs' = DOMAIN runs /\ runs'[i] = run
      /\ \A j \in DOMAIN runs : j # i => runs'[j] = runs[j]
      /\ \A j \in DOMAIN runs : runs'[j].created = runs[j].created /\ runs'[j].since = runs[j].since
  BY RunTyping
<1>2. DigestType' /\ Listing'
  BY RunTyping DEF DigestType, Listing, MergesAreListed, PlacesAreOrdered, PlacesAreTaken, SamePlace
<1>3. RunsAreTimely' /\ RunsAreSorted'
  BY <1>1 DEF RunsAreTimely, RunsAreSorted
<1>4. RunsAreThorough'
  BY <1>1 DEF RunsAreThorough, Thorough, MergedIn, ReadTo, Current
<1>5. Covered \subseteq Covered' /\ Covered' \subseteq Covered \cup {i} /\ i \notin Covered
  BY <1>1 DEF Covered
<1>6. Live' \subseteq Live /\ i \in Live /\ Covered' \subseteq DOMAIN runs /\ Live \subseteq DOMAIN runs
  BY <1>1, <1>5 DEF Live, Covered
<1>7. WindowsMeet'
  BY <1>1, <1>5, <1>6 DEF WindowsMeet, Meets
<1>8. WindowsAreReported'
  <2>1. i \in Covered' => AllReported(run.since, run.created)'
    BY <1>1 DEF Covered, AllReported, MergedIn
  <2>2. \A j \in Covered : AllReported(runs[j].since, runs[j].created)'
    BY DEF WindowsAreReported, AllReported, MergedIn
  <2>. QED
    BY <1>1, <1>5, <2>1, <2>2 DEF WindowsAreReported, AllReported, MergedIn
<1>9. GapsAreReported'
  <2>. SUFFICES ASSUME NEW l \in Live, NEW j \in Covered', NEW p \in Pulls,
                       MergedIn(p, runs[l].created, runs[j].created)
                PROVE  p \in (reported \cup slipped)'
    BY <1>1, <1>6 DEF GapsAreReported, AllReported, MergedIn
  <2>1. CASE j \in Covered
    BY <2>1 DEF GapsAreReported, AllReported
  <2>2. CASE j = i
    <3>1. /\ runs[l].created \in Int /\ runs[i].created \in Int /\ runs[i].since \in Int
          /\ merged_at[p] \in Int /\ \A k \in Covered : runs[k].created \in Int
      BY <1>6, RunTyping DEF DigestType, Covered
    <3>2. \A q \in Pulls : MergedIn(q, runs[i].since, runs[i].created) => q \in (reported \cup slipped)'
      BY <1>1, <2>2 DEF Covered
    <3>3. /\ runs[l].created < runs[i].created
          /\ Meets(runs[i], runs[l])
      BY <1>6, <2>2, <3>1 DEF WindowsMeet, MergedIn
    <3>4. CASE runs[i].since <= runs[l].created
      BY <2>2, <3>1, <3>2, <3>4 DEF MergedIn
    <3>5. ASSUME NEW k \in Covered,
                 runs[l].created <= runs[k].created, runs[i].since <= runs[k].created
          PROVE  p \in (reported \cup slipped)'
      <4>1. CASE merged_at[p] < runs[k].created
        BY <4>1 DEF GapsAreReported, AllReported, MergedIn
      <4>2. CASE merged_at[p] >= runs[k].created
        BY <2>2, <3>1, <3>2, <3>5, <4>2 DEF MergedIn
      <4>. QED
        BY <3>1, <4>1, <4>2
    <3>. QED
      BY <3>3, <3>4, <3>5 DEF Meets
  <2>. QED
    BY <1>5, <2>1, <2>2
<1>. QED
  BY <1>2, <1>3, <1>4, <1>7, <1>8, <1>9

\* A run under way that leaves the list.
LEMMA RemovedRun ==
    ASSUME DigestInv, NEW i \in DOMAIN runs, runs[i].status = "running",
           runs' = RemoveAt(runs, i), UNCHANGED <<clock, pulls_vars>>,
           reported \subseteq reported', reported' \in SUBSET Pulls,
           slipped \subseteq slipped', slipped' \in SUBSET Pulls
    PROVE  DigestInv'
<1>. USE DEF DigestInv, pulls_vars
<1>. DEFINE from(j) == IF j < i THEN j ELSE j + 1
<1>0. runs \in Seq(Run) /\ Len(runs) \in Nat /\ DOMAIN runs = 1 .. Len(runs) /\ i \in 1 .. Len(runs)
  BY RunTyping
<1>1. /\ runs' \in Seq(Run) /\ DOMAIN runs' = 1 .. Len(runs) - 1
      /\ \A j \in 1 .. Len(runs) - 1 : runs'[j] = IF j < i THEN runs[j] ELSE runs[j + 1]
  <2>. DEFINE left == RemoveAt(runs, i)
  <2>1. /\ left \in Seq(Run) /\ Len(left) = Len(runs) - 1
        /\ \A j \in 1 .. Len(runs) - 1 : left[j] = IF j < i THEN runs[j] ELSE runs[j + 1]
    BY <1>0, WhatRemoveAtLeaves, Zenon
  <2>. HIDE DEF left
  <2>2. DOMAIN left = 1 .. Len(left)
    BY <2>1
  <2>3. runs' = left
    BY DEF left
  <2>. QED
    BY <2>1, <2>2, <2>3
<1>2. \A j \in DOMAIN runs' : from(j) \in DOMAIN runs /\ from(j) # i /\ runs'[j] = runs[from(j)]
  BY <1>0, <1>1
<1>3. \A j, k \in DOMAIN runs' : j <= k => from(j) <= from(k)
  BY <1>0, <1>1
<1>4. \A k \in DOMAIN runs : k # i => \E j \in DOMAIN runs' : from(j) = k
  <2>. SUFFICES ASSUME NEW k \in DOMAIN runs, k # i PROVE \E j \in DOMAIN runs' : from(j) = k
    OBVIOUS
  <2>1. CASE k < i
    BY <2>1, <1>0, <1>1
  <2>2. CASE k > i
    <3>1. k - 1 \in DOMAIN runs' /\ from(k - 1) = k
      BY <2>2, <1>0, <1>1
    <3>. QED
      BY <3>1
  <2>. QED
    BY <2>1, <2>2, <1>0
<1>. HIDE DEF from
<1>5. DigestType' /\ Listing'
  BY <1>1 DEF DigestType, Listing, MergesAreListed, PlacesAreOrdered, PlacesAreTaken, SamePlace
<1>6. RunsAreTimely'
  BY <1>2 DEF RunsAreTimely
<1>7. RunsAreSorted'
  BY <1>2, <1>3 DEF RunsAreSorted
<1>8. RunsAreThorough'
  BY <1>2 DEF RunsAreThorough, Thorough, MergedIn, ReadTo, Current
<1>9. \A j \in Covered' : from(j) \in Covered /\ runs'[j] = runs[from(j)]
  BY <1>2 DEF Covered
<1>10. \A j \in Live' : from(j) \in Live /\ runs'[j] = runs[from(j)]
  BY <1>2, <1>9 DEF Live
<1>11. \A k \in Covered : \E j \in Covered' : runs'[j] = runs[k]
  <2>. SUFFICES ASSUME NEW k \in Covered PROVE \E j \in Covered' : runs'[j] = runs[k]
    OBVIOUS
  <2>1. k \in DOMAIN runs /\ k # i
    BY DEF Covered
  <2>2. PICK j \in DOMAIN runs' : from(j) = k
    BY <2>1, <1>4
  <2>3. runs'[j] = runs[k]
    BY <1>2, <2>2
  <2>. QED
    BY <2>3 DEF Covered
<1>12. WindowsMeet'
  BY <1>2, <1>10, <1>11 DEF WindowsMeet, Meets
<1>13. WindowsAreReported'
  BY <1>9 DEF WindowsAreReported, AllReported, MergedIn
<1>14. GapsAreReported'
  BY <1>9, <1>10 DEF GapsAreReported, AllReported, MergedIn
<1>. QED
  BY <1>5, <1>6, <1>7, <1>8, <1>12, <1>13, <1>14

\* A run begins.
LEMMA BegunRun ==
    ASSUME DigestInv, NEW dry \in BOOLEAN, NEW since \in Int, run_digest(dry, since)
    PROVE  DigestInv'
<1>. USE DEF DigestInv, pulls_vars
<1>1. PICK run : run = [created |-> clock, dry |-> dry, since |-> resolve_window(clock, since),
                        unread |-> Repos, page |-> 0, found |-> {}, slipped |-> {},
                        failed |-> FALSE, entries |-> {}, status |-> "running"]
  OBVIOUS
<1>2. runs' = Append(runs, run) /\ UNCHANGED <<clock, merged_at, updated_at, place, reported, slipped>>
  BY <1>1 DEF run_digest
<1>3. run \in Run
  BY <1>1, WindowTyping DEF DigestType, Run
<1>. DEFINE n == Len(runs)
<1>4. /\ runs' \in Seq(Run) /\ DOMAIN runs' = 1 .. n + 1 /\ DOMAIN runs = 1 .. n /\ n \in Nat
      /\ runs'[n + 1] = run /\ \A j \in 1 .. n : runs'[j] = runs[j]
  BY <1>2, <1>3, RunTyping
<1>. HIDE DEF n
<1>5. run.created = clock /\ run.status = "running" /\ run.since = resolve_window(clock, since)
  BY <1>1
<1>6. DigestType' /\ RunsAreTimely' /\ Listing'
  <2>1. DigestType' /\ RunsAreTimely'
    BY <1>2, <1>4, <1>5 DEF DigestType, RunsAreTimely
  <2>2. Listing'
    BY <1>2 DEF Listing, MergesAreListed, PlacesAreOrdered, PlacesAreTaken, SamePlace
  <2>. QED
    BY <2>1, <2>2
<1>7. RunsAreSorted'
  <2>. SUFFICES ASSUME NEW j \in 1 .. n + 1, NEW k \in 1 .. n + 1, j <= k
                PROVE  runs'[j].created <= runs'[k].created
    BY <1>4 DEF RunsAreSorted
  <2>1. CASE k = n + 1
    <3>1. j = n + 1 \/ j \in 1 .. n
      BY <1>4
    <3>2. runs'[j].created <= clock
      BY <1>2, <1>4, <1>6 DEF RunsAreTimely
    <3>. QED
      BY <2>1, <3>2, <1>4, <1>5
  <2>2. CASE k # n + 1
    <3>1. j \in 1 .. n /\ k \in 1 .. n
      BY <2>2, <1>4
    <3>. QED
      BY <3>1, <1>4 DEF RunsAreSorted
  <2>. QED
    BY <2>1, <2>2
<1>8. \A j \in DOMAIN runs' : j \in DOMAIN runs \/ j = n + 1
  BY <1>4
<1>9. RunsAreThorough'
  <2>1. Thorough(run)'
    <3>1. run.unread = Repos /\ \A p \in Pulls : RepoOf[p] \in run.unread
      BY <1>1, DigestAssumption
    <3>2. ReadTo(run) = 0
      BY <1>1, DigestAssumption DEF ReadTo
    <3>3. \A p \in Pulls : merged_at'[p] # Never => place'[p] > 0
      BY <1>2 DEF Listing, MergesAreListed
    <3>. QED
      BY <3>1, <3>2, <3>3 DEF Thorough, MergedIn
  <2>. QED
    BY <1>2, <1>4, <1>8, <2>1 DEF RunsAreThorough, Thorough, MergedIn, ReadTo, Current
<1>10. Covered' = Covered
  BY <1>4, <1>5, <1>8 DEF Covered
<1>11. Live' = Live \cup {n + 1} /\ Live \subseteq DOMAIN runs /\ Covered \subseteq DOMAIN runs
  BY <1>4, <1>5, <1>8, <1>10 DEF Live, Covered
<1>12. \A l \in Live : Meets(run, runs[l])
  <2>. SUFFICES ASSUME NEW l \in Live PROVE Meets(run, runs[l])
    OBVIOUS
  <2>1. CASE \E i \in Covered : runs[l].created <= runs[i].created
    <3>1. PICK i \in Covered : runs[l].created <= runs[i].created
      BY <2>1
    <3>2. PICK k \in Covered : /\ runs[i].created <= runs[k].created
                              /\ run.since <= runs[k].created
      BY <1>5, WindowStart
    <3>3. runs[l].created \in Int /\ runs[i].created \in Int /\ runs[k].created \in Int
      BY <1>11, RunTyping
    <3>. QED
      BY <3>1, <3>2, <3>3 DEF Meets
  <2>2. CASE ~\E i \in Covered : runs[l].created <= runs[i].created
    <3>1. runs[l].created \in Int /\ runs[l].created >= clock - 1
      BY <1>11, <2>2, RunTyping DEF Live, RunsAreTimely
    <3>2. CASE Covered = {}
      <4>1. window_start(clock) = clock - BOOTSTRAP_WINDOW
        BY <3>2 DEF window_start, Covered, _run_posted_digest
      <4>2. run.since <= runs[l].created
        BY <1>5, <3>1, <4>1, DigestAssumption DEF resolve_window, DigestType
      <4>. QED
        BY <4>2 DEF Meets
    <3>3. ASSUME NEW i \in Covered PROVE Meets(run, runs[l])
      <4>1. PICK k \in Covered : run.since <= runs[k].created
        BY <1>5, WindowStart
      <4>2. runs[k].created < runs[l].created /\ runs[k].created \in Int /\ run.since \in Int
        BY <1>3, <1>11, <2>2, <3>1, RunTyping DEF Run
      <4>. QED
        BY <3>1, <4>1, <4>2 DEF Meets
    <3>. QED
      BY <3>2, <3>3
  <2>. QED
    BY <2>1, <2>2
<1>13. WindowsMeet'
  <2>. SUFFICES ASSUME NEW j \in DOMAIN runs', NEW l \in Live' PROVE Meets(runs[j], runs[l])'
    BY DEF WindowsMeet
  <2>1. CASE l = n + 1
    <3>1. runs'[j].created <= clock /\ runs'[j].created \in Int /\ runs'[l].created = clock
      BY <1>4, <1>5, <1>6, <2>1, RunTyping, SMTT(30) DEF RunsAreTimely, DigestType, Run
    <3>. QED
      BY <3>1 DEF Meets, DigestType
  <2>2. CASE l \in Live /\ j = n + 1
    BY <1>4, <1>10, <1>11, <1>12, <2>2 DEF Meets
  <2>3. CASE l \in Live /\ j \in DOMAIN runs
    BY <1>4, <1>10, <1>11, <2>3 DEF WindowsMeet, Meets
  <2>. QED
    BY <1>8, <1>11, <2>1, <2>2, <2>3
<1>14. WindowsAreReported'
  BY <1>2, <1>4, <1>10, <1>11 DEF WindowsAreReported, AllReported, MergedIn
<1>15. GapsAreReported'
  <2>. SUFFICES ASSUME NEW l \in Live', NEW j \in Covered, NEW p \in Pulls,
                       MergedIn(p, runs'[l].created, runs'[j].created)
                PROVE  p \in reported \cup slipped
    BY <1>2, <1>10 DEF GapsAreReported, AllReported, MergedIn
  <2>1. CASE l = n + 1
    <3>1. runs'[l].created = clock /\ runs'[j].created <= clock
          /\ runs'[j].created \in Int /\ merged_at[p] \in Int /\ clock \in Int
      BY <1>4, <1>5, <1>11, <2>1, RunTyping DEF RunsAreTimely, DigestType
    <3>. QED
      BY <3>1 DEF MergedIn
  <2>2. CASE l \in Live
    BY <1>4, <1>11, <2>2 DEF GapsAreReported, AllReported, MergedIn
  <2>. QED
    BY <1>11, <2>1, <2>2
<1>. QED
  BY <1>6, <1>7, <1>9, <1>13, <1>14, <1>15

\* One page of a repository is read.
LEMMA ReadPage ==
    ASSUME DigestInv, NEW i \in DOMAIN runs, merged_pulls_since(i) PROVE DigestInv'
<1>. USE DEF DigestInv
<1>. DEFINE run == runs[i]
            batch == Batch(run)
            found == run.found \cup
                       {p \in batch : merged_at[p] # Never /\ merged_at[p] >= run.since}
            repo == Current(run)
<1>1. /\ run.status = "running" /\ run.unread # {}
      /\ UNCHANGED <<clock, pulls_vars, reported, slipped>>
      /\ runs' = [runs EXCEPT ![i] = IF IsLast(run, batch)
                                       THEN [Left(run) EXCEPT !.entries = @ \cup found]
                                       ELSE [run EXCEPT !.page = @ + 1, !.found = found]]
  BY DEF merged_pulls_since, Reading, Step
<1>2. /\ run \in Run /\ run.page \in Nat /\ found \in SUBSET Pulls /\ run.entries \in SUBSET Pulls
      /\ run.since \in Int /\ run.unread \in SUBSET Repos /\ repo \in run.unread
      /\ reported \in SUBSET Pulls /\ slipped \in SUBSET Pulls
  BY <1>1, RunTyping DEF DigestType, Batch, Current
<1>3. PullsPerPage \in Nat \ {0} /\ \A p \in Pulls : place[p] \in Nat
  BY DigestAssumption DEF DigestType
<1>4. ReadTo(run) \in Nat /\ (run.page + 1) * PullsPerPage = ReadTo(run) + PullsPerPage
  BY <1>2, <1>3 DEF ReadTo
<1>5. ASSUME NEW p \in Pulls, MergedIn(p, run.since, run.created), ~run.failed,
             RepoOf[p] = repo
      PROVE  p \in found \cup run.slipped \/ place[p] > ReadTo(run) + PullsPerPage
  <2>1. p \in run.found \cup run.slipped \/ place[p] > ReadTo(run)
    BY <1>1, <1>5 DEF RunsAreThorough, Thorough
  <2>2. CASE place[p] > ReadTo(run) /\ place[p] <= ReadTo(run) + PullsPerPage
    BY <1>5, <2>2 DEF Batch, MergedIn
  <2>. QED
    BY <1>3, <1>4, <2>1, <2>2
<1>6. CASE ~IsLast(run, batch)
  <2>. DEFINE turned == [run EXCEPT !.page = @ + 1]
              next == [turned EXCEPT !.found = found]
  <2>0. /\ turned \in Run /\ turned.created = run.created /\ turned.since = run.since
        /\ turned.status = "running" /\ turned.failed = run.failed /\ turned.unread = run.unread
        /\ turned.entries = run.entries /\ turned.slipped = run.slipped
        /\ turned.page = run.page + 1
    <3>. HIDE DEF found, batch, repo
    <3>. QED
      BY <1>1, <1>2 DEF Run
  <2>1. /\ next \in Run /\ next.created = run.created /\ next.since = run.since
        /\ next.status = "running" /\ next.failed = run.failed /\ next.unread = run.unread
        /\ next.entries = run.entries /\ next.slipped = run.slipped /\ next.found = found
        /\ next.page = run.page + 1
    <3>. HIDE DEF found, batch, repo, turned
    <3>. QED
      BY <1>2, <2>0 DEF Run
  <2>2. Current(next) = repo /\ ReadTo(next) = ReadTo(run) + PullsPerPage
    BY <1>4, <2>1 DEF Current, ReadTo
  <2>. HIDE DEF next
  <2>3. Thorough(next)
    <3>. SUFFICES ASSUME ~run.failed, NEW p \in Pulls, MergedIn(p, run.since, run.created)
                  PROVE  /\ RepoOf[p] \notin run.unread => p \in run.entries \cup run.slipped
                         /\ RepoOf[p] = repo =>
                              p \in found \cup run.slipped \/ place[p] > ReadTo(run) + PullsPerPage
      BY <2>1, <2>2 DEF Thorough
    <3>1. RepoOf[p] \notin run.unread => p \in run.entries \cup run.slipped
      BY <1>1 DEF RunsAreThorough, Thorough
    <3>. QED
      BY <1>5, <3>1
  <2>. QED
    <3>1. runs' = [runs EXCEPT ![i] = next]
      BY <1>1, <1>6 DEF next
    <3>. HIDE DEF found, batch, repo
    <3>. QED
      BY <1>1, <1>2, <2>1, <2>3, <3>1, ChangedRun
<1>7. CASE IsLast(run, batch)
  <2>. DEFINE next == [Left(run) EXCEPT !.entries = @ \cup found]
  <2>1. /\ next \in Run /\ next.created = run.created /\ next.since = run.since
        /\ next.status = "running" /\ next.failed = run.failed /\ next.unread = run.unread \ {repo}
        /\ next.entries = run.entries \cup found /\ next.slipped = run.slipped /\ next.page = 0
    BY <1>1, <1>2 DEF Run, Left
  <2>2. ReadTo(next) = 0
    BY <1>3, <2>1 DEF ReadTo
  <2>. HIDE DEF next
  <2>3. ASSUME NEW p \in Pulls, MergedIn(p, run.since, run.created), RepoOf[p] = repo
        PROVE  place[p] <= ReadTo(run) + PullsPerPage
    <3>. SUFFICES ASSUME place[p] > ReadTo(run) + PullsPerPage PROVE FALSE
      BY <1>3, <1>4
    <3>1. ReadTo(run) + PullsPerPage \in 1 .. place[p]
      BY <1>3, <1>4
    <3>2. PICK q \in Pulls : RepoOf[q] = repo /\ place[q] = ReadTo(run) + PullsPerPage
      BY <2>3, <3>1 DEF Listing, PlacesAreTaken
    <3>3. q \in batch
      BY <1>3, <1>4, <3>2 DEF Batch
    <3>4. updated_at[q] < run.since
      BY <1>7, <3>2, <3>3 DEF IsLast
    <3>5. updated_at[p] <= updated_at[q] /\ merged_at[p] <= updated_at[p] /\ merged_at[p] >= run.since
      BY <1>3, <1>4, <2>3, <3>2 DEF Listing, PlacesAreOrdered, SamePlace, MergesAreListed, MergedIn
    <3>. QED
      BY <1>2, <3>4, <3>5 DEF DigestType
  <2>4. Thorough(next)
    <3>. SUFFICES ASSUME ~run.failed, NEW p \in Pulls, MergedIn(p, run.since, run.created)
                  PROVE  /\ RepoOf[p] \notin run.unread \ {repo} => p \in next.entries \cup run.slipped
                         /\ place[p] > 0
      BY <2>1, <2>2 DEF Thorough
    <3>1. place[p] > 0
      BY DEF MergedIn, Listing, MergesAreListed
    <3>2. RepoOf[p] \notin run.unread => p \in run.entries \cup run.slipped
      BY <1>1 DEF RunsAreThorough, Thorough
    <3>3. RepoOf[p] = repo => p \in found \cup run.slipped
      BY <1>3, <1>4, <1>5, <2>3
    <3>. QED
      BY <2>1, <3>1, <3>2, <3>3
  <2>. QED
    <3>1. runs' = [runs EXCEPT ![i] = next]
      BY <1>1, <1>7 DEF next
    <3>. HIDE DEF found, batch, repo
    <3>. QED
      BY <1>1, <1>2, <2>1, <2>4, <3>1, ChangedRun
<1>. QED
  BY <1>6, <1>7

\* A repository is missed.
LEMMA MissedRepo ==
    ASSUME DigestInv, NEW i \in DOMAIN runs, miss_repo(i) PROVE DigestInv'
<1>. USE DEF DigestInv
<1>. DEFINE run == [Left(runs[i]) EXCEPT !.failed = TRUE]
<1>1. /\ runs[i].status = "running" /\ UNCHANGED <<clock, pulls_vars, reported, slipped>>
      /\ runs' = [runs EXCEPT ![i] = run]
      /\ reported \in SUBSET Pulls /\ slipped \in SUBSET Pulls
  BY DEF miss_repo, Reading, Step, DigestType
<1>2. /\ run \in Run /\ run.created = runs[i].created /\ run.since = runs[i].since
      /\ run.status = "running" /\ run.failed
  BY <1>1, RunTyping DEF Run, Left
<1>. HIDE DEF run
<1>. QED
  BY <1>1, <1>2, ChangedRun DEF Thorough

\* A run posts what it read, and stays in the list only if it read everything.
LEMMA Emitted ==
    ASSUME DigestInv, NEW i \in DOMAIN runs, emit(i) PROVE DigestInv'
<1>. USE DEF DigestInv, pulls_vars
<1>1. /\ runs[i].status = "running" /\ runs[i].unread = {} /\ UNCHANGED <<clock, pulls_vars>>
      /\ reported' = IF runs[i].dry THEN reported ELSE reported \cup runs[i].entries
      /\ slipped' = IF runs[i].dry THEN slipped ELSE slipped \cup runs[i].slipped
  BY DEF emit
<1>2. /\ reported \subseteq reported' /\ reported' \in SUBSET Pulls
      /\ slipped \subseteq slipped' /\ slipped' \in SUBSET Pulls
  BY <1>1, RunTyping DEF DigestType
<1>3. CASE runs[i].failed
  BY <1>1, <1>2, <1>3, RemovedRun DEF emit
<1>4. CASE ~runs[i].failed
  <2>1. PICK run : run = [runs[i] EXCEPT !.status = "success", !.entries = {}, !.slipped = {}]
    OBVIOUS
  <2>2. runs' = [runs EXCEPT ![i] = run]
    BY <1>4, <2>1 DEF emit
  <2>3. /\ run \in Run /\ run.created = runs[i].created /\ run.since = runs[i].since
        /\ run.status = "success" /\ run.dry = runs[i].dry
    BY <2>1, RunTyping DEF Run
  <2>4. \A p \in Pulls : MergedIn(p, run.since, run.created) => p \in runs[i].entries \cup runs[i].slipped
    BY <1>1, <1>4, <2>3 DEF RunsAreThorough, Thorough
  <2>5. ~run.dry => \A p \in Pulls : MergedIn(p, run.since, run.created) => p \in (reported \cup slipped)'
    BY <1>1, <2>3, <2>4
  <2>6. Thorough(run)
    BY <2>3 DEF Thorough
  <2>. QED
    BY <1>1, <1>2, <2>2, <2>3, <2>5, <2>6, ChangedRun
<1>. QED
  BY <1>3, <1>4

\* The listing changes, and a merge of now, which is in no window and no gap
\* that is over, may be why: what it takes from the pages to come slips.
LEMMA Relisted ==
    ASSUME DigestInv, NEW to \in [Pulls -> Nat], Listed(to), DigestType', Listing',
           \A q \in Pulls : merged_at'[q] = merged_at[q] \/ merged_at'[q] = clock
    PROVE  DigestInv'
<1>. USE DEF DigestInv
<1>1. /\ DOMAIN runs' = DOMAIN runs /\ place' = to /\ UNCHANGED <<clock, reported, slipped>>
      /\ \A i \in DOMAIN runs : runs'[i] = [runs[i] EXCEPT !.slipped = @ \cup Slips(runs[i], to)]
  BY DEF Listed
<1>2. \A i \in DOMAIN runs :
        /\ runs'[i].created = runs[i].created /\ runs'[i].since = runs[i].since
        /\ runs'[i].status = runs[i].status /\ runs'[i].dry = runs[i].dry
        /\ runs'[i].failed = runs[i].failed /\ runs'[i].unread = runs[i].unread
        /\ runs'[i].page = runs[i].page /\ runs'[i].found = runs[i].found
        /\ runs'[i].entries = runs[i].entries
        /\ runs'[i].slipped = runs[i].slipped \cup Slips(runs[i], to)
  BY <1>1, RunTyping DEF Run
<1>3. RunsAreTimely' /\ RunsAreSorted'
  BY <1>1, <1>2 DEF RunsAreTimely, RunsAreSorted
<1>4. Covered' = Covered /\ Live' = Live /\ Covered \subseteq DOMAIN runs /\ Live \subseteq DOMAIN runs
  BY <1>1, <1>2 DEF Covered, Live
<1>5. ASSUME NEW q \in Pulls, NEW a, NEW i \in DOMAIN runs, MergedIn(q, a, runs[i].created)'
      PROVE  MergedIn(q, a, runs[i].created)
  <2>1. /\ merged_at'[q] < runs[i].created /\ runs[i].created <= clock
        /\ runs[i].created \in Int /\ clock \in Int
    <3>1. runs'[i].created = runs[i].created
      BY <1>2
    <3>2. runs[i].created <= clock /\ runs[i].created \in Int /\ clock \in Int
      <4>1. runs[i].created \in Nat
        BY RunTyping
      <4>. QED
        BY <4>1 DEF RunsAreTimely, DigestType
    <3>. QED
      BY <1>5, <3>1, <3>2 DEF MergedIn
  <2>2. merged_at'[q] = merged_at[q]
    BY <2>1
  <2>. QED
    BY <1>2, <1>5, <2>2 DEF MergedIn
<1>6. RunsAreThorough'
  <2>. SUFFICES ASSUME NEW i \in DOMAIN runs, runs[i].status = "running", ~runs[i].failed,
                       NEW p \in Pulls, MergedIn(p, runs[i].since, runs[i].created)'
                PROVE  /\ RepoOf[p] \notin runs[i].unread => p \in runs[i].entries \cup runs'[i].slipped
                       /\ runs[i].unread # {} /\ RepoOf[p] = Current(runs[i]) =>
                            p \in runs[i].found \cup runs'[i].slipped \/ to[p] > ReadTo(runs[i])
    BY <1>1, <1>2 DEF RunsAreThorough, Thorough, Current, ReadTo
  <2>1. MergedIn(p, runs[i].since, runs[i].created)
    BY <1>2, <1>5 DEF MergedIn
  <2>2. runs'[i].slipped = runs[i].slipped \cup Slips(runs[i], to)
    BY <1>2
  <2>3. RepoOf[p] \notin runs[i].unread => p \in runs[i].entries \cup runs'[i].slipped
    BY <2>1, <2>2 DEF RunsAreThorough, Thorough
  <2>4. ASSUME runs[i].unread # {}, RepoOf[p] = Current(runs[i])
        PROVE  p \in runs[i].found \cup runs'[i].slipped \/ to[p] > ReadTo(runs[i])
    <3>1. p \in runs[i].found \cup runs[i].slipped \/ place[p] > ReadTo(runs[i])
      BY <2>1, <2>4 DEF RunsAreThorough, Thorough
    <3>2. to[p] > 0 /\ to[p] \in Nat /\ merged_at[p] # Never
      BY <1>1, <2>1 DEF MergedIn, Listing, MergesAreListed
    <3>3. ReadTo(runs[i]) \in Nat
      BY RunTyping, DigestAssumption DEF ReadTo
    <3>4. CASE place[p] > ReadTo(runs[i]) /\ to[p] <= ReadTo(runs[i])
      BY <2>2, <2>4, <3>2, <3>4 DEF Slips
    <3>. QED
      BY <2>2, <3>1, <3>2, <3>3, <3>4
  <2>. QED
    BY <2>3, <2>4
<1>7. WindowsMeet'
  BY <1>1, <1>2, <1>4 DEF WindowsMeet, Meets
<1>8. WindowsAreReported' /\ GapsAreReported'
  <2>1. \A i \in DOMAIN runs : runs'[i].created = runs[i].created /\ runs'[i].since = runs[i].since
    BY <1>2
  <2>. QED
    BY <1>1, <1>4, <1>5, <2>1 DEF WindowsAreReported, GapsAreReported, AllReported
<1>. QED
  BY <1>3, <1>6, <1>7, <1>8

\* The runs keep their type when the listing changes.
LEMMA ListedRuns ==
    ASSUME DigestType, NEW to, Listed(to)
    PROVE  runs' \in Seq(Run)
<1>1. \A i \in DOMAIN runs :
        [runs[i] EXCEPT !.slipped = runs[i].slipped \cup Slips(runs[i], to)] \in Run
  <2>. SUFFICES ASSUME NEW i \in DOMAIN runs, NEW slips \in SUBSET Pulls
                PROVE  [runs[i] EXCEPT !.slipped = runs[i].slipped \cup slips] \in Run
    BY DEF Slips
  <2>. QED
    BY RunTyping DEF Run
<1>2. runs' = [i \in 1 .. Len(runs) |->
                [runs[i] EXCEPT !.slipped = runs[i].slipped \cup Slips(runs[i], to)]]
  BY RunTyping DEF Listed
<1>. QED
  BY <1>1, <1>2, RunTyping

\* A pull comes to the head of its listing.
LEMMA UpdatedPull ==
    ASSUME DigestInv, NEW p \in Pulls, Updated(p),
           UNCHANGED merged_at \/ merged_at' = [merged_at EXCEPT ![p] = clock]
    PROVE  DigestInv'
<1>. USE DEF DigestInv
<1>1. PICK to \in [Pulls -> Nat] : to = ToHead(p)
  <2>1. \A q \in Pulls : place[q] \in Nat /\ place[q] + 1 \in Nat
    BY DEF DigestType
  <2>2. ToHead(p) \in [Pulls -> Nat]
    BY <2>1 DEF ToHead
  <2>. QED
    BY <2>2
<1>2. /\ Listed(to) /\ place' = to /\ updated_at' = [updated_at EXCEPT ![p] = clock]
      /\ UNCHANGED <<clock, reported, slipped>>
      /\ \A q \in Pulls : merged_at'[q] = IF q = p THEN merged_at'[p] ELSE merged_at[q]
      /\ merged_at' \in [Pulls -> Int] /\ merged_at'[p] \in {merged_at[p], clock}
  BY <1>1 DEF Updated, Listed, DigestType
<1>3. clock \in Nat /\ \A q \in Pulls : place[q] \in Nat /\ updated_at[q] \in Int /\ merged_at[q] \in Int
  BY DEF DigestType
<1>4. /\ to[p] = 1 /\ updated_at'[p] = clock
      /\ \A q \in Pulls : q # p => updated_at'[q] = updated_at[q]
      /\ \A q \in Pulls : q # p =>
           to[q] = IF RepoOf[q] = RepoOf[p] /\ place[q] > 0 /\ (place[p] = 0 \/ place[q] < place[p])
                     THEN place[q] + 1 ELSE place[q]
  BY <1>1, <1>2 DEF ToHead, DigestType
<1>5. DigestType'
  <2>1. runs' \in Seq(Run)
    BY <1>2, ListedRuns
  <2>. QED
    BY <1>1, <1>2, <1>3, <2>1 DEF DigestType
<1>6. MergesAreListed'
  BY <1>2, <1>3, <1>4 DEF Listing, MergesAreListed
<1>7. PlacesAreOrdered'
  <2>. SUFFICES ASSUME NEW q \in Pulls, NEW r \in Pulls, RepoOf[q] = RepoOf[r], q # r,
                       to[q] > 0, to[r] > 0
                PROVE  to[q] # to[r] /\ (to[q] < to[r] => updated_at'[q] >= updated_at'[r])
    BY <1>1, <1>2 DEF PlacesAreOrdered, SamePlace
  <2>1. CASE q = p \/ r = p
    <3>1. \A x \in Pulls : updated_at'[x] <= clock
      BY <1>2, <1>6 DEF MergesAreListed
    <3>2. \A x \in Pulls : x # p /\ RepoOf[x] = RepoOf[p] /\ to[x] > 0 => to[x] > 1
      BY <1>3, <1>4 DEF Listing, PlacesAreOrdered, SamePlace
    <3>. QED
      BY <1>4, <2>1, <3>1, <3>2
  <2>2. CASE q # p /\ r # p
    <3>1. place[q] > 0 /\ place[r] > 0
      BY <1>3, <1>4, <2>2
    <3>2. place[q] # place[r] /\ (place[q] < place[r] => updated_at[q] >= updated_at[r])
      BY <3>1 DEF Listing, PlacesAreOrdered, SamePlace
    <3>3. RepoOf[q] = RepoOf[p] /\ place[p] > 0 => place[q] # place[p] /\ place[r] # place[p]
      BY <2>2, <3>1 DEF Listing, PlacesAreOrdered, SamePlace
    <3>4. to[q] # to[r] /\ (to[q] < to[r] => place[q] < place[r])
      BY <1>3, <1>4, <2>2, <3>1, <3>2, <3>3
    <3>. QED
      BY <1>4, <2>2, <3>2, <3>4
  <2>. QED
    BY <2>1, <2>2
<1>8. PlacesAreTaken'
  <2>. SUFFICES ASSUME NEW q \in Pulls, NEW m \in 1 .. to[q]
                PROVE  \E r \in Pulls : RepoOf[r] = RepoOf[q] /\ to[r] = m
    BY <1>2 DEF PlacesAreTaken
  <2>1. ASSUME NEW n \in 1 .. place[q] PROVE \E r \in Pulls : RepoOf[r] = RepoOf[q] /\ place[r] = n
    BY DEF Listing, PlacesAreTaken
  <2>2. CASE RepoOf[q] # RepoOf[p]
    <3>1. to[q] = place[q] /\ \A r \in Pulls : RepoOf[r] = RepoOf[q] => to[r] = place[r]
      BY <1>4, <2>2
    <3>. QED
      BY <2>1, <3>1
  <2>3. CASE RepoOf[q] = RepoOf[p] /\ m = 1
    BY <1>4, <2>3
  <2>4. CASE RepoOf[q] = RepoOf[p] /\ m > 1 /\ (place[p] = 0 \/ m <= place[p])
    <3>1. m - 1 \in 1 .. place[q] \/ (q = p /\ m = 1) \/ m - 1 \in 1 .. place[p]
      BY <1>3, <1>4, <2>4
    <3>2. PICK r \in Pulls : RepoOf[r] = RepoOf[p] /\ place[r] = m - 1
      BY <2>1, <2>4, <3>1 DEF Listing, PlacesAreTaken
    <3>3. r # p /\ to[r] = m
      BY <1>3, <1>4, <2>4, <3>2
    <3>. QED
      BY <2>4, <3>2, <3>3
  <2>5. CASE RepoOf[q] = RepoOf[p] /\ m > 1 /\ place[p] > 0 /\ m > place[p]
    <3>1. m \in 1 .. place[q]
      BY <1>3, <1>4, <2>5
    <3>2. PICK r \in Pulls : RepoOf[r] = RepoOf[p] /\ place[r] = m
      BY <2>1, <2>5, <3>1
    <3>3. r # p /\ to[r] = m
      BY <1>3, <1>4, <2>5, <3>2
    <3>. QED
      BY <2>5, <3>2, <3>3
  <2>. QED
    <3>1. m \in Nat /\ place[p] \in Nat
      BY <1>1, <1>3
    <3>. QED
      BY <2>2, <2>3, <2>4, <2>5, <3>1
<1>. QED
  BY <1>2, <1>5, <1>6, <1>7, <1>8, Relisted DEF Listing

\* A pull that was closed without a merge leaves the listing.
LEMMA ReopenedPull ==
    ASSUME DigestInv, NEW p \in Pulls, reopen(p) PROVE DigestInv'
<1>. USE DEF DigestInv
<1>1. PICK to : to = Without(p)
  OBVIOUS
<1>2. /\ Listed(to) /\ place' = to /\ UNCHANGED <<clock, merged_at, updated_at, reported, slipped>>
      /\ merged_at[p] = Never /\ place[p] > 0
  BY <1>1 DEF reopen, Listed
<1>3. \A q \in Pulls : place[q] \in Nat /\ updated_at[q] \in Int
  BY DEF DigestType
<1>4. /\ to \in [Pulls -> Nat] /\ to[p] = 0
      /\ \A q \in Pulls : q # p =>
           to[q] = IF RepoOf[q] = RepoOf[p] /\ place[q] > place[p] THEN place[q] - 1 ELSE place[q]
  BY <1>1, <1>2, <1>3 DEF Without
<1>5. DigestType'
  <2>1. runs' \in Seq(Run)
    BY <1>2, <1>4, ListedRuns
  <2>. QED
    BY <1>2, <1>4, <2>1 DEF DigestType
<1>6. MergesAreListed'
  BY <1>2, <1>3, <1>4 DEF Listing, MergesAreListed
<1>7. PlacesAreOrdered'
  <2>. SUFFICES ASSUME NEW q \in Pulls, NEW r \in Pulls, RepoOf[q] = RepoOf[r], q # r,
                       to[q] > 0, to[r] > 0
                PROVE  to[q] # to[r] /\ (to[q] < to[r] => updated_at[q] >= updated_at[r])
    BY <1>2, <1>3, <1>4 DEF PlacesAreOrdered, SamePlace
  <2>1. q # p /\ r # p /\ place[q] > 0 /\ place[r] > 0
    BY <1>3, <1>4
  <2>2. place[q] # place[r] /\ (place[q] < place[r] => updated_at[q] >= updated_at[r])
    BY <2>1 DEF Listing, PlacesAreOrdered, SamePlace
  <2>3. RepoOf[q] = RepoOf[p] => place[q] # place[p] /\ place[r] # place[p]
    BY <1>2, <2>1 DEF Listing, PlacesAreOrdered, SamePlace
  <2>4. to[q] # to[r] /\ (to[q] < to[r] => place[q] < place[r])
    BY <1>3, <1>4, <2>1, <2>2, <2>3
  <2>. QED
    BY <2>2, <2>4
<1>8. PlacesAreTaken'
  <2>. SUFFICES ASSUME NEW q \in Pulls, NEW m \in 1 .. to[q]
                PROVE  \E r \in Pulls : RepoOf[r] = RepoOf[q] /\ to[r] = m
    BY <1>2 DEF PlacesAreTaken
  <2>1. ASSUME NEW n \in 1 .. place[q] PROVE \E r \in Pulls : RepoOf[r] = RepoOf[q] /\ place[r] = n
    BY DEF Listing, PlacesAreTaken
  <2>2. q # p /\ m \in 1 .. place[q] /\ m \in Nat
    BY <1>3, <1>4
  <2>3. CASE RepoOf[q] # RepoOf[p] \/ m < place[p]
    <3>1. PICK r \in Pulls : RepoOf[r] = RepoOf[q] /\ place[r] = m
      BY <2>1, <2>2
    <3>2. r # p /\ to[r] = m
      BY <1>3, <1>4, <2>2, <2>3, <3>1
    <3>. QED
      BY <3>1, <3>2
  <2>4. CASE RepoOf[q] = RepoOf[p] /\ m >= place[p]
    <3>1. m + 1 \in 1 .. place[q]
      <4>1. CASE place[q] > place[p]
        BY <1>3, <1>4, <2>2, <2>4, <4>1
      <4>2. CASE place[q] < place[p]
        BY <1>3, <1>4, <2>2, <2>4, <4>2
      <4>3. place[q] # place[p]
        BY <1>2, <1>3, <2>2, <2>4 DEF Listing, PlacesAreOrdered, SamePlace
      <4>. QED
        BY <1>3, <4>1, <4>2, <4>3
    <3>2. PICK r \in Pulls : RepoOf[r] = RepoOf[q] /\ place[r] = m + 1
      BY <2>1, <3>1
    <3>3. r # p /\ to[r] = m
      BY <1>3, <1>4, <2>2, <2>4, <3>2
    <3>. QED
      BY <3>2, <3>3
  <2>. QED
    BY <1>3, <2>2, <2>3, <2>4
<1>. QED
  BY <1>2, <1>4, <1>5, <1>6, <1>7, <1>8, Relisted DEF Listing

\* Time passes, and a run under way is over before it passes again.
LEMMA Ticked ==
    ASSUME DigestInv, tick PROVE DigestInv'
<1>. USE DEF DigestInv, pulls_vars
<1>1. clock' = clock + 1 /\ UNCHANGED <<pulls_vars, runs, reported, slipped>>
      /\ \A i \in DOMAIN runs : runs[i].status = "running" => runs[i].created = clock
  BY DEF tick
<1>2. DigestType' /\ clock \in Nat
  BY <1>1 DEF DigestType
<1>3. RunsAreTimely' /\ Listing'
  <2>1. RunsAreTimely'
    BY <1>1, <1>2, RunTyping DEF RunsAreTimely
  <2>2. Listing'
    BY <1>1, <1>2 DEF DigestType, Listing, MergesAreListed, PlacesAreOrdered, PlacesAreTaken, SamePlace
  <2>. QED
    BY <2>1, <2>2
<1>4. RunsAreSorted' /\ RunsAreThorough' /\ WindowsMeet' /\ WindowsAreReported' /\ GapsAreReported'
  BY <1>1 DEF RunsAreSorted, RunsAreThorough, Thorough, WindowsMeet, Meets, WindowsAreReported,
              GapsAreReported, AllReported, MergedIn, Covered, Live, ReadTo, Current
<1>. QED
  BY <1>2, <1>3, <1>4

\* Every step keeps the invariant.
LEMMA DigestInvInductive == DigestInv /\ [DigestNext]_digest_vars => DigestInv'
<1>. SUFFICES ASSUME DigestInv, [DigestNext]_digest_vars PROVE DigestInv'
  OBVIOUS
<1>1. ASSUME NEW dry \in BOOLEAN, NEW since \in 0 .. clock, run_digest(dry, since) PROVE DigestInv'
  BY <1>1, BegunRun
<1>2. ASSUME NEW i \in DOMAIN runs, run_fails(i) PROVE DigestInv'
  <2>1. runs[i].status = "running" /\ runs' = RemoveAt(runs, i) /\ UNCHANGED <<clock, pulls_vars, reported, slipped>>
    BY <1>2 DEF run_fails
  <2>. QED
    BY <2>1, RemovedRun DEF DigestInv, DigestType
<1>3. ASSUME NEW p \in Pulls, merge(p) \/ update(p) PROVE DigestInv'
  BY <1>3, UpdatedPull DEF merge, update
<1>4. CASE UNCHANGED digest_vars
  BY <1>4 DEF digest_vars, pulls_vars, Listing, MergesAreListed, PlacesAreOrdered, PlacesAreTaken,
              SamePlace, ReadTo, Current, DigestInv, DigestType, RunsAreTimely, RunsAreSorted, RunsAreThorough,
              Thorough, WindowsMeet, Meets, WindowsAreReported, GapsAreReported, AllReported,
              MergedIn, Covered, Live
<1>. QED
  BY <1>1, <1>2, <1>3, <1>4, ReadPage, MissedRepo, Emitted, ReopenedPull, Ticked DEF DigestNext

\* It holds before the first run.
LEMMA DigestInvInitial == DigestInit => DigestInv
BY DEF DigestInit, DigestInv, DigestType, Listing, MergesAreListed, PlacesAreOrdered, PlacesAreTaken,
       SamePlace, RunsAreTimely, RunsAreSorted, RunsAreThorough,
       Thorough, WindowsMeet, WindowsAreReported, GapsAreReported, Never, Covered, Live

\* No merge falls between two digests: once a digest has been posted, what
\* merged inside its window, or between it and the last one posted, is in
\* some digest, whatever runs failed, overlapped, only rendered, missed a
\* repository or were dispatched with a date in between, and however pulls
\* were updated and reopened while they read page after page: unless it
\* slipped off a page to come onto one already read by a digest that posted.
THEOREM NoMergeIsEverMissed == DigestSpec => []NoMergeIsMissed
BY DigestInvInitial, DigestInvInductive, NothingMissed, PTL DEF DigestSpec

-----------------------------------------------------------------------------
(* What a merge is said to cost.                                           *)

\* A record's page is asked for when the records before it are not older than
\* the merge, and so is every page before that.
LEMMA PagesBefore ==
    ASSUME NEW w, IsMerge(w), NEW i \in DOMAIN w.deployments, w.deployments[i].since,
           NEW page \in Nat \ {0}, page <= PageOf(i)
    PROVE  ReachesPage(w, page)
<1>0. w.deployments \in Seq(Deployment)
  BY Zenon DEF IsMerge
<1>1. DOMAIN w.deployments = 1 .. Len(w.deployments) /\ Len(w.deployments) \in Nat /\ i \in Nat
  BY <1>0
<1>2. (page - 1) * PerPage < i
  <2>1. page - 1 <= (i - 1) \div 2
    BY <1>1 DEF PageOf, PerPage
  <2>. QED
    BY <1>1, <2>1 DEF PerPage
<1>3. \A j \in 1 .. (page - 1) * PerPage : j \in DOMAIN w.deployments /\ j < i
  BY <1>1, <1>2 DEF PerPage
<1>4. \A j \in 1 .. (page - 1) * PerPage : w.deployments[j].since
  BY <1>3 DEF IsMerge, NewestFirst
<1>. QED
  BY <1>1, <1>2, <1>4 DEF ReachesPage, PerPage

\* What the note says of a merge, and when it cannot say.
LEMMA NoteRead ==
    ASSUME NEW w, IsMerge(w)
    PROVE  /\ deployment_note(w) = "deployed" => Shipped(w)
           /\ Shipped(w) => deployment_note(w) \in {"deployed", "unknown", "unreadable"}
           /\ deployment_note(w) = "unknown" => \E d \in Covering(w) : ~d.readable
           /\ deployment_note(w) = "unreadable" => w.lost > 0
<1>. DEFINE ds == w.deployments
            deciding == {i \in DOMAIN ds :
                           /\ _deployment_covers_merge(ds[i])
                           /\ ds[i].succeeded \/ ~ds[i].readable
                           /\ ReachesPage(w, PageOf(i)) /\ (w.lost = 0 \/ PageOf(i) < w.lost)}
<1>0. w.deployments \in Seq(Deployment) /\ w.lost \in Nat
  BY Zenon DEF IsMerge
<1>1. CASE deciding = {}
  <2>1. deployment_note(w) = IF w.lost > 0 /\ ReachesPage(w, w.lost) THEN "unreadable"
                             ELSE IF ds = <<>> THEN "no records" ELSE ""
    BY <1>1 DEF deployment_note
  <2>2. ASSUME Shipped(w) PROVE w.lost > 0 /\ ReachesPage(w, w.lost)
    <3>1. PICK i \in DOMAIN ds : _deployment_covers_merge(ds[i]) /\ ds[i].succeeded
      BY <2>2 DEF Shipped, Covering, _deployment_covers_merge
    <3>2. ds[i].since
      BY <3>1 DEF _deployment_covers_merge
    <3>3. i \in Nat \ {0} /\ PageOf(i) \in Nat \ {0} /\ w.lost \in Nat
      <4>1. i \in Nat \ {0} /\ w.lost \in Nat
        BY <1>0
      <4>. QED
        BY <4>1 DEF PageOf, PerPage
    <3>4. ReachesPage(w, PageOf(i))
      BY <3>2, <3>3, PagesBefore
    <3>5. ~(w.lost = 0 \/ PageOf(i) < w.lost)
      BY <1>1, <3>1, <3>4
    <3>6. w.lost \in Nat \ {0} /\ w.lost <= PageOf(i)
      BY <3>3, <3>5
    <3>. QED
      BY <3>2, <3>6, PagesBefore
  <2>. QED
    BY <2>1, <2>2
<1>2. CASE deciding # {}
  <2>1. PICK k : k = CHOOSE i \in deciding : \A j \in deciding : i <= j
    OBVIOUS
  <2>2. deciding \in SUBSET Nat
    <3>1. DOMAIN ds \in SUBSET Nat
      BY <1>0
    <3>. QED
      BY <3>1
  <2>3. deployment_note(w) = IF ds[k].readable THEN "deployed" ELSE "unknown"
    BY <1>2, <2>1 DEF deployment_note
  <2>4. k \in deciding
    <3>. HIDE DEF deciding
    <3>. QED
      BY <1>2, <2>1, <2>2, Least
  <2>5. ds[k] \in Covering(w)
    BY <2>4 DEF Covering, _deployment_covers_merge
  <2>. QED
    BY <2>3, <2>4, <2>5 DEF Shipped
<1>. QED
  BY <1>1, <1>2

\* A span that is determined reaches the whole merge.
LEMMA WholeReached ==
    ASSUME NEW w, IsMerge(w), ~merge_span(w).undetermined
    PROVE  reached(w, merge_span(w)) = 1 .. w.commits
<1>1. CASE w.strategy # "rebase"
  BY <1>1 DEF reached
<1>2. CASE w.strategy = "rebase" /\ w.declared /\ w.commits = 1
  <2>1. merge_span(w).count = 1
    BY <1>2 DEF merge_span, Span
  <2>. QED
    BY <1>2, <2>1 DEF reached
<1>3. CASE w.strategy = "rebase" /\ ~(w.declared /\ w.commits = 1)
  <2>1. merge_span(w).count = w.commits
    BY <1>3 DEF merge_span, Span
  <2>2. w.commits \in Nat
    BY DEF IsMerge
  <2>3. w.commits - w.commits + 1 = 1
    BY <2>2
  <2>. QED
    BY <1>3, <2>1, <2>3 DEF reached
<1>. QED
  BY <1>1, <1>2, <1>3

\* The tiers that cost no less than a tier.
LEMMA Tiers ==
    /\ \A tier \in {"clean", "dependents", "conflicting"} :
         NoCheaper("deployed", tier) /\ NoCheaper("conflicting", tier) /\ NoCheaper(tier, tier)
    /\ NoCheaper("dependents", "clean")
<1>1. /\ DOMAIN TIER_ORDER = 1 .. 5 /\ TIER_ORDER[1] = "deployed" /\ TIER_ORDER[2] = "conflicting"
      /\ TIER_ORDER[3] = "unmeasured" /\ TIER_ORDER[4] = "dependents" /\ TIER_ORDER[5] = "clean"
  BY DEF TIER_ORDER
<1>2. \A i, j \in 1 .. 5 : i <= j => NoCheaper(TIER_ORDER[i], TIER_ORDER[j])
  BY <1>1 DEF NoCheaper
<1>3. /\ NoCheaper(TIER_ORDER[1], TIER_ORDER[2]) /\ NoCheaper(TIER_ORDER[1], TIER_ORDER[4])
      /\ NoCheaper(TIER_ORDER[1], TIER_ORDER[5]) /\ NoCheaper(TIER_ORDER[2], TIER_ORDER[2])
      /\ NoCheaper(TIER_ORDER[2], TIER_ORDER[4]) /\ NoCheaper(TIER_ORDER[2], TIER_ORDER[5])
      /\ NoCheaper(TIER_ORDER[4], TIER_ORDER[4]) /\ NoCheaper(TIER_ORDER[4], TIER_ORDER[5])
      /\ NoCheaper(TIER_ORDER[5], TIER_ORDER[5])
  BY <1>2
<1>. QED
  BY <1>1, <1>3

\* What is measured costs no less than the revert of the whole merge.
LEMMA CostIsNoCheaper ==
    ASSUME NEW w, IsMerge(w), w.git["status"] # "fails"
    PROVE  cost(w) \in {"UNREAD", "unmeasured"} \/ NoCheaper(cost(w), TrueCost(w))
<1>. DEFINE whole == 1 .. w.commits
<1>1. CASE merge_span(w).undetermined
  BY <1>1 DEF cost
<1>2. CASE ~merge_span(w).undetermined
  <2>1. cost(w) \in {Measured(w, whole), "UNREAD", "unmeasured"}
    BY <1>2, WholeReached DEF cost, _measure
  <2>2. TrueCost(w) \in {"clean", "dependents", "conflicting"}
    BY DEF TrueCost
  <2>3. CASE ~Reverts(w, whole)
    BY <2>1, <2>2, <2>3, Tiers DEF Measured
  <2>4. CASE Reverts(w, whole) /\ w.noop
    <3>1. TrueCost(w) = "clean" /\ Measured(w, whole) \in {"clean", "dependents"}
      BY <2>4 DEF TrueCost, Measured
    <3>. QED
      BY <2>1, <3>1, Tiers
  <2>5. CASE Reverts(w, whole) /\ ~w.noop
    <3>1. Measured(w, whole) = TrueCost(w)
      BY <2>5 DEF TrueCost, Measured, Reverts
    <3>. QED
      BY <2>1, <2>2, <3>1, Tiers
  <2>. QED
    BY <2>3, <2>4, <2>5
<1>. QED
  BY <1>1, <1>2

\* What the digest says a merge costs is of all of its commits and no less
\* than reverting them by hand would, whatever git step or request fails but
\* `git status'; what is shipped is listed as that, or its entry says that
\* this could not be read, which is then so (_measure, deployment_note,
\* build_entry).
THEOREM NoMergeIsSoldCheap ==
    ASSUME NEW w, IsMerge(w)
    PROVE  CostIsOfTheWhole(w)
<1>. DEFINE entry == build_entry(w, TRUE)
<1>. SUFFICES ASSUME entry.tier # "UNREAD"
              PROVE  /\ \/ entry.tier = "unmeasured" \/ w.git["status"] = "fails"
                        \/ NoCheaper(entry.tier, TrueCost(w))
                     /\ Shipped(w) => entry.tier = "deployed" \/ entry.note \in {"unknown", "unreadable"}
                     /\ entry.tier = "deployed" => Shipped(w)
                     /\ entry.note = "unknown" => \E d \in Covering(w) : ~d.readable
                     /\ entry.note = "unreadable" => w.lost > 0
  BY DEF CostIsOfTheWhole
<1>1. /\ cost(w) # "UNREAD" /\ entry.note = deployment_note(w)
      /\ entry.tier = IF deployment_note(w) = "deployed" THEN "deployed" ELSE cost(w)
  BY DEF build_entry
<1>2. cost(w) # "deployed" /\ TrueCost(w) \in {"clean", "dependents", "conflicting"}
  BY DEF cost, _measure, Measured, TrueCost
<1>. HIDE DEF entry
<1>3. \/ entry.tier = "unmeasured" \/ w.git["status"] = "fails"
      \/ NoCheaper(entry.tier, TrueCost(w))
  BY <1>1, <1>2, CostIsNoCheaper, Tiers
<1>4. Shipped(w) => entry.tier = "deployed" \/ entry.note \in {"unknown", "unreadable"}
  BY <1>1, NoteRead
<1>5. entry.tier = "deployed" => Shipped(w)
  BY <1>1, <1>2, NoteRead
<1>6. /\ entry.note = "unknown" => \E d \in Covering(w) : ~d.readable
      /\ entry.note = "unreadable" => w.lost > 0
  BY <1>1, NoteRead
<1>. QED
  BY <1>3, <1>4, <1>5, <1>6

-----------------------------------------------------------------------------
(* Whose pull request it is.                                               *)

\* choose_author finds a seat where there is one, and one that is not the burn
\* seat where there is one of those.
LEMMA Chosen ==
    ASSUME NEW N, NEW names \in Seq(N), NEW fallback, NEW seats,
           NEW chosen, chosen = choose_author(names, fallback, seats)
    PROVE  /\ (\A i \in DOMAIN names : names[i] \notin DOMAIN seats) => chosen = fallback
           /\ (\E i \in DOMAIN names : names[i] \in DOMAIN seats) =>
                /\ chosen \in DOMAIN seats
                /\ \E i \in DOMAIN names : chosen = names[i]
           /\ (\E i \in DOMAIN names : names[i] \in DOMAIN seats /\ seats[names[i]] # Burn) =>
                seats[chosen] # Burn
<1>. DEFINE known == {i \in DOMAIN names : names[i] \in DOMAIN seats}
            wanted == {i \in known : seats[names[i]] # Burn}
            among == IF wanted # {} THEN wanted ELSE known
<1>1. CASE known = {}
  BY <1>1 DEF choose_author
<1>2. CASE known # {}
  <2>1. among # {} /\ among \in SUBSET Nat
    BY <1>2
  <2>2. PICK k : k = CHOOSE i \in among : \A j \in among : i <= j
    OBVIOUS
  <2>. HIDE DEF among
  <2>3. k \in among
    BY <2>1, <2>2, Least
  <2>4. chosen = names[k]
    BY <1>2, <2>2 DEF choose_author, among
  <2>5. k \in known /\ (wanted # {} => k \in wanted)
    BY <1>2, <2>3 DEF among
  <2>. QED
    BY <2>4, <2>5
<1>. QED
  BY <1>1, <1>2

\* The maps a lookup reads are maps from git authors to seats, and no alias
\* reaches a head outside the repository (seat_map).
LEMMA SeatsMapped ==
    ASSUME NEW w, NEW aliases, Grants(aliases)
    PROVE  /\ Grants(seat_map(w, aliases))
           /\ DOMAIN SEAT_ACTORS \subseteq DOMAIN seat_map(w, aliases)
           /\ (~head_is_same_repo(w) \/ DOMAIN aliases = {}) =>
                /\ DOMAIN seat_map(w, aliases) = DOMAIN SEAT_ACTORS
                /\ \A name \in DOMAIN SEAT_ACTORS :
                     seat_map(w, aliases)[name] = SEAT_ACTORS[name]
BY AuthorAssumption DEF seat_map, Grants

\* The head's author is looked up where the head may be: what comes of it is
\* an exception, or what the world says.
LEMMA HeadLookedUp ==
    ASSUME NEW w, IsWorld(w), NEW head, head = head_commit_author(w), head # Raised
    PROVE  /\ w.contents
           /\ head = IF w.lives \cap {"base", w.repo} # {} THEN w.author ELSE Nobody
<1>1. CASE w.contents /\ "base" \in w.lives
  BY <1>1 DEF head_commit_author
<1>2. CASE ~(w.contents /\ "base" \in w.lives)
  <2>1. /\ w.repo \in {"fork", "gone"} /\ contents_authority_established(w) = "yes"
        /\ head = live_fork_commit(w)
    BY <1>2 DEF head_commit_author, head_is_not_base_repo
  <2>2. w.contents
    BY <2>1 DEF contents_authority_established
  <2>3. "base" \notin w.lives
    BY <1>2, <2>2
  <2>4. CASE w.repo = "gone"
    <3>1. head = Nobody
      BY <2>1, <2>4 DEF live_fork_commit
    <3>2. w.lives \cap {"base", w.repo} = {}
      BY <2>3, <2>4 DEF IsWorld
    <3>. QED
      BY <2>2, <3>1, <3>2
  <2>5. CASE w.repo = "fork"
    <3>1. head = IF "fork" \in w.lives THEN w.author ELSE Nobody
      BY <2>1, <2>5 DEF live_fork_commit
    <3>2. w.lives \cap {"base", w.repo} # {} <=> "fork" \in w.lives
      BY <2>3, <2>5
    <3>. QED
      BY <2>2, <3>1, <3>2
  <2>. QED
    BY <2>1, <2>4, <2>5
<1>. QED
  BY <1>1, <1>2

\* The belt drops a pull request as nobody's only when every place an author
\* could be named in was read and names no seat, whatever the maps, the
\* commits, the forks and the lookups that break (author_for_pr).
THEOREM NobodyWasLookedFor ==
    ASSUME NEW w, IsWorld(w), NEW aliases, Grants(aliases)
    PROVE  SeatIsNotDropped(w, aliases)
<1>. SUFFICES ASSUME author_for_pr(w, aliases) = Nobody
              PROVE  /\ Names(w) \cap DOMAIN seat_map(w, aliases) = {}
                     /\ w.contents
                     /\ (w.lives \cap {"base", w.repo} # {}) =>
                          w.author \notin DOMAIN seat_map(w, aliases)
  BY DEF SeatIsNotDropped
<1>1. PICK seats, builtin, aliased, head, N :
        /\ seats = seat_map(w, aliases) /\ N = Names(w)
        /\ builtin = choose_author(w.names, Nobody, SEAT_ACTORS)
        /\ aliased = choose_author(w.names, Nobody, seats)
        /\ head = head_commit_author(w)
  OBVIOUS
<1>2. /\ Grants(seats) /\ DOMAIN SEAT_ACTORS \subseteq DOMAIN seats
      /\ (~head_is_same_repo(w) \/ DOMAIN aliases = {}) => DOMAIN seats = DOMAIN SEAT_ACTORS
  BY <1>1, SeatsMapped
<1>3. w.names \in Seq(N) /\ N \cap {Nobody, Raised} = {}
  BY <1>1 DEF IsWorld
<1>4. builtin \in DOMAIN SEAT_ACTORS => Seat(builtin, SEAT_ACTORS) # Nobody
  BY AuthorAssumption DEF Seat, Grants
<1>5. builtin = Nobody /\ builtin \notin DOMAIN SEAT_ACTORS
      /\ \A i \in DOMAIN w.names : w.names[i] \notin DOMAIN SEAT_ACTORS
  <2>1. builtin = Nobody => Seat(builtin, SEAT_ACTORS) = Nobody
    BY AuthorAssumption DEF Seat, Grants
  <2>2. Seat(builtin, SEAT_ACTORS) = Nobody
    BY <1>1, <2>1 DEF author_for_pr
  <2>. QED
    BY <1>1, <1>3, <1>4, <2>2, Chosen, AuthorAssumption DEF Grants
<1>6. CASE DOMAIN aliases # {} /\ head_is_same_repo(w)
  <2>1. PICK with_head : with_head = IF head = Raised THEN Raised
                                     ELSE choose_author(Append(w.names, head), head, seats)
    OBVIOUS
  <2>2. Seat(with_head, seats) = Nobody
    BY <1>1, <1>5, <1>6, <2>1 DEF author_for_pr
  <2>3. head # Raised /\ with_head \notin DOMAIN seats
    BY <1>2, <2>1, <2>2, AuthorAssumption DEF Seat, Grants
  <2>4. Append(w.names, head) \in Seq(N \cup {head})
    BY <1>3
  <2>5. \A i \in DOMAIN Append(w.names, head) : Append(w.names, head)[i] \notin DOMAIN seats
    BY <2>1, <2>3, <2>4, Chosen
  <2>6. head \notin DOMAIN seats /\ \A i \in DOMAIN w.names : w.names[i] \notin DOMAIN seats
    <3>1. /\ \A i \in DOMAIN w.names : /\ i \in DOMAIN Append(w.names, head)
                                       /\ Append(w.names, head)[i] = w.names[i]
          /\ Len(w.names) + 1 \in DOMAIN Append(w.names, head)
          /\ Append(w.names, head)[Len(w.names) + 1] = head
      BY <1>3
    <3>. QED
      BY <2>5, <3>1
  <2>7. /\ w.contents
        /\ head = IF w.lives \cap {"base", w.repo} # {} THEN w.author ELSE Nobody
    BY <1>1, <2>3, HeadLookedUp
  <2>. QED
    BY <1>1, <2>6, <2>7 DEF Names
<1>7. CASE ~(DOMAIN aliases # {} /\ head_is_same_repo(w))
  <2>1. Seat(head, SEAT_ACTORS) = Nobody
    BY <1>1, <1>5, <1>7 DEF author_for_pr
  <2>2. head # Raised /\ head \notin DOMAIN SEAT_ACTORS
    BY <2>1, AuthorAssumption DEF Seat, Grants
  <2>3. DOMAIN seats = DOMAIN SEAT_ACTORS
    BY <1>2, <1>7
  <2>4. /\ w.contents
        /\ head = IF w.lives \cap {"base", w.repo} # {} THEN w.author ELSE Nobody
    BY <1>1, <2>2, HeadLookedUp
  <2>. QED
    BY <1>1, <1>5, <2>2, <2>3, <2>4 DEF Names
<1>. QED
  BY <1>6, <1>7

\* A burn commit does not steal the wake of a seat that committed, and no alias
\* reaches a head outside the repository (choose_author, seat_map).
THEOREM TheSeatIsTheAuthors ==
    ASSUME NEW w, IsWorld(w), NEW aliases, Grants(aliases)
    PROVE  WakeIsTheAuthors(w, aliases)
<1>1. PICK seats, builtin, aliased, N :
        /\ seats = seat_map(w, aliases) /\ N = Names(w)
        /\ builtin = choose_author(w.names, Nobody, SEAT_ACTORS)
        /\ aliased = choose_author(w.names, Nobody, seats)
  OBVIOUS
<1>2. /\ Grants(seats) /\ DOMAIN SEAT_ACTORS \subseteq DOMAIN seats
      /\ (~head_is_same_repo(w) \/ DOMAIN aliases = {}) =>
           /\ DOMAIN seats = DOMAIN SEAT_ACTORS
           /\ \A name \in DOMAIN SEAT_ACTORS : seats[name] = SEAT_ACTORS[name]
  BY <1>1, SeatsMapped
<1>3. w.names \in Seq(N)
  BY <1>1 DEF IsWorld
<1>4. ASSUME NEW name \in Names(w) \cap DOMAIN seats, seats[name] # Burn
      PROVE  author_for_pr(w, aliases) \notin {Burn, Nobody, Raised}
  <2>1. PICK i \in DOMAIN w.names : w.names[i] = name
    BY DEF Names
  <2>2. aliased \in DOMAIN seats /\ seats[aliased] # Burn
    BY <1>1, <1>3, <1>4, <2>1, Chosen
  <2>3. Seat(aliased, seats) \notin {Burn, Nobody, Raised}
    BY <1>2, <2>2 DEF Seat, Grants
  <2>4. CASE Seat(builtin, SEAT_ACTORS) \notin {Burn, Nobody}
    <3>1. author_for_pr(w, aliases) = Seat(builtin, SEAT_ACTORS)
      BY <1>1, <2>4 DEF author_for_pr
    <3>2. builtin # Raised
      BY <1>1, <1>3, Chosen, AuthorAssumption DEF Grants
    <3>. QED
      BY <2>4, <3>1, <3>2, AuthorAssumption DEF Seat, Grants
  <2>5. CASE Seat(builtin, SEAT_ACTORS) \in {Burn, Nobody}
    <3>1. CASE DOMAIN aliases # {} /\ head_is_same_repo(w)
      BY <1>1, <2>3, <2>5, <3>1 DEF author_for_pr
    <3>2. CASE ~(DOMAIN aliases # {} /\ head_is_same_repo(w))
      <4>1. name \in DOMAIN SEAT_ACTORS /\ SEAT_ACTORS[name] # Burn
        BY <1>2, <1>4, <3>2
      <4>2. builtin \in DOMAIN SEAT_ACTORS /\ SEAT_ACTORS[builtin] # Burn
        BY <1>1, <1>3, <2>1, <4>1, Chosen
      <4>3. Seat(builtin, SEAT_ACTORS) \notin {Burn, Nobody}
        BY <4>2, AuthorAssumption DEF Seat, Grants
      <4>. QED
        BY <2>5, <4>3
    <3>. QED
      BY <3>1, <3>2
  <2>. QED
    BY <2>4, <2>5
<1>5. ~head_is_same_repo(w) => author_for_pr(w, aliases) = author_for_pr(w, <<>>)
  <2>1. DOMAIN <<>> = {}
    OBVIOUS
  <2>. QED
    BY <2>1 DEF author_for_pr, seat_map
<1>. QED
  BY <1>1, <1>4, <1>5 DEF WakeIsTheAuthors

-----------------------------------------------------------------------------
(* Whether it is exempt.                                                   *)

\* Nothing but skill files and what the repository declares is exempt: the
\* listing that was looked at is all of the diff (loop_exempt_pr).
THEOREM TheExemptionIsProven ==
    ASSUME NEW d, IsDiff(d), NEW declared
    PROVE  ExemptionIsProven(d, declared)
<1>. SUFFICES ASSUME loop_exempt_pr(d, declared)
              PROVE  \A i \in DOMAIN d.files :
                       d.files[i] \subseteq SkillRoots \cup
                         (IF d.closed_before THEN {} ELSE declared)
  BY DEF ExemptionIsProven
<1>1. PICK n \in 0 .. Len(d.files) : d.listed = SubSeq(d.files, 1, n)
  BY DEF IsDiff
<1>2. n = Len(d.files)
  BY <1>1 DEF IsDiff, loop_exempt_pr, pr_files_are_complete
<1>3. d.listed = d.files
  BY <1>1, <1>2 DEF IsDiff
<1>. QED
  BY <1>3 DEF loop_exempt_pr, loop_exempt_prefixes

-----------------------------------------------------------------------------
(* What verifies.                                                          *)

\* What was signed with a key, of testimony that has the fields of an envelope.
IsIssued(i) ==
    \E b, key : /\ DOMAIN b = Filled
                /\ i = prepare_source_surface(b, key)

\* What preparing puts into an envelope.
LEMMA Prepared ==
    ASSUME NEW b, DOMAIN b = Filled, NEW key,
           NEW i, i = prepare_source_surface(b, key)
    PROVE  /\ i = [f \in Envelope |-> i[f]]
           /\ \A f \in DOMAIN b : i[f] = b[f]
           /\ TestimonyOf(i) = TestimonyOf(b)
           /\ MatchingSeals(i)
           /\ i.signature = sign(key, TestimonyOf(i))
<1>1. i = [f \in Envelope |-> i[f]]
  BY DEF prepare_source_surface, Envelope, Filled, Signed
<1>2. \A f \in DOMAIN b : i[f] = b[f]
  BY DEF prepare_source_surface, Filled, Signed
<1>3. /\ [f \in Signed |-> i[f]] = [f \in Signed |-> b[f]]
      /\ i.schema = b.schema /\ i.data = b.data /\ i.diagnostics = b.diagnostics
  BY <1>2 DEF Filled
<1>4. TestimonyOf(i) = TestimonyOf(b)
  BY <1>3 DEF TestimonyOf, _testimony_document, _content_document
<1>5. /\ i.schema_sha256 = _sha256(b.schema)
      /\ i.content_sha256 = _sha256(_content_document(b))
      /\ i.testimony_sha256 = TestimonyOf(b)
      /\ i.signature = sign(key, TestimonyOf(b))
  BY DEF prepare_source_surface, Filled, Signed
<1>. QED
  BY <1>1, <1>2, <1>3, <1>4, <1>5 DEF MatchingSeals, _content_document

\* Two testimonies are the same only of the same fields and what they carry.
LEMMA TestimonyIsOne ==
    ASSUME NEW a, NEW b, TestimonyOf(a) = TestimonyOf(b)
    PROVE  /\ \A f \in Signed : a[f] = b[f]
           /\ a.schema = b.schema /\ a.data = b.data /\ a.diagnostics = b.diagnostics
<1>1. /\ [f \in Signed |-> a[f]] = [f \in Signed |-> b[f]]
      /\ _sha256(a.schema) = _sha256(b.schema)
      /\ _sha256(_content_document(a)) = _sha256(_content_document(b))
  BY DEF TestimonyOf, _sha256, _testimony_document
<1>2. a.schema = b.schema /\ _content_document(a) = _content_document(b)
  BY <1>1 DEF _sha256
<1>3. a.data = b.data /\ a.diagnostics = b.diagnostics
  BY <1>2 DEF _content_document
<1>4. \A f \in Signed : a[f] = [g \in Signed |-> a[g]][f] /\ b[f] = [g \in Signed |-> b[g]][f]
  OBVIOUS
<1>. QED
  BY <1>1, <1>2, <1>3, <1>4

\* What verifies is one whole testimony that was signed, of the issuer and the
\* surface that were asked for, under a key of that issuer, while it holds,
\* and each of those verifies: whatever envelope a host is handed, of however
\* many that were issued its parts are (verify_source_surface).
THEOREM OnlyTestimonyIsVerified ==
    ASSUME NEW issued, \A i \in issued : IsIssued(i), NEW a, IsSealed(a, issued),
           NEW issuer, NEW surface, NEW now
    PROVE  OnlyTestimonyVerifies(a, issued, issuer, surface, now)
<1>1. ASSUME verify_source_surface(a, issuer, surface, now)
      PROVE  /\ a \in issued
             /\ [issuer |-> a.issuer, key_id |-> a.key_id, key |-> a.signature.by] \in public_keys
  <2>1. PICK k \in public_keys : /\ k.issuer = a.issuer /\ k.key_id = a.key_id
                                 /\ a.signature = sign(k.key, TestimonyOf(a))
    BY <1>1 DEF verify_source_surface, TrustedKeys, KeysOfIssuer
  <2>2. a.signature.by = k.key
    BY <2>1 DEF sign
  <2>3. PICK i \in issued : a.signature = i.signature
    BY DEF IsSealed
  <2>4. PICK b, key : /\ DOMAIN b = Filled
                      /\ i = prepare_source_surface(b, key)
    BY DEF IsIssued
  <2>5. /\ i = [f \in Envelope |-> i[f]] /\ MatchingSeals(i)
        /\ i.signature = sign(key, TestimonyOf(i))
    BY <2>4, Prepared
  <2>6. TestimonyOf(a) = TestimonyOf(i)
    BY <2>1, <2>3, <2>5 DEF sign
  <2>7. /\ \A f \in Signed : a[f] = i[f]
        /\ a.schema = i.schema /\ a.data = i.data /\ a.diagnostics = i.diagnostics
    BY <2>6, TestimonyIsOne
  <2>8. MatchingSeals(a)
    BY <1>1 DEF verify_source_surface
  <2>9. /\ a.schema_sha256 = i.schema_sha256 /\ a.content_sha256 = i.content_sha256
        /\ a.testimony_sha256 = i.testimony_sha256
    BY <2>5, <2>6, <2>7, <2>8 DEF MatchingSeals, _content_document
  <2>10. \A f \in Envelope : a[f] = i[f]
    BY <2>3, <2>7, <2>9 DEF Envelope, Filled
  <2>11. a = i
    BY <2>5, <2>10 DEF IsSealed
  <2>. QED
    BY <2>1, <2>2, <2>11, SealAssumption
<1>2. ASSUME a \in issued,
             [issuer |-> a.issuer, key_id |-> a.key_id, key |-> a.signature.by] \in public_keys
      PROVE  /\ MatchingSeals(a)
             /\ \E key \in TrustedKeys(a) : a.signature = sign(key, TestimonyOf(a))
  <2>1. PICK b, key : /\ DOMAIN b = Filled
                      /\ a = prepare_source_surface(b, key)
    BY <1>2 DEF IsIssued
  <2>2. MatchingSeals(a) /\ a.signature = sign(key, TestimonyOf(a))
    BY <2>1, Prepared
  <2>3. a.signature.by = key
    BY <2>2 DEF sign
  <2>4. key \in TrustedKeys(a)
    BY <1>2, <2>3 DEF TrustedKeys, KeysOfIssuer
  <2>. QED
    BY <2>2, <2>4
<1>. QED
  BY <1>1, <1>2 DEF OnlyTestimonyVerifies, verify_source_surface, Holds

-----------------------------------------------------------------------------
(* The parts together: what each answers, asked anything that it may be.   *)

\* What was asked stays asked.
LEMMA StaysAsked == AnswersSpec => []Asked
<1>1. AnswersInit => Asked
  BY DEF AnswersInit
<1>2. Asked /\ [AnswersNext]_answer_vars => Asked'
  BY DEF Asked, Given, AnswersNext, answer_vars
<1>. QED
  BY <1>1, <1>2, PTL DEF AnswersSpec

\* No merge is missed unless it slipped past a page of a digest that posted,
\* whatever the other parts are asked (run_digest, merged_pulls_since).
THEOREM NoMergeIsMissedMeanwhile == AnswersSpec => []NoMergeIsMissed
<1>1. AnswersInit => DigestInv
  BY DigestInvInitial DEF AnswersInit
<1>2. DigestInv /\ [AnswersNext]_answer_vars => DigestInv'
  <2>1. [AnswersNext]_answer_vars => [DigestNext]_digest_vars
    BY DEF AnswersNext, answer_vars
  <2>. QED
    BY <2>1, DigestInvInductive
<1>. QED
  BY <1>1, <1>2, NothingMissed, PTL DEF AnswersSpec

\* The belt lets go of a pull request only on proof, and wakes its author's
\* seat (author_for_pr, loop_exempt_pr).
THEOREM TheBeltLetsGoOnProof == AnswersSpec => []LetsGoOnProof
<1>1. ASSUME Asked, part = "author"
      PROVE  SeatIsNotDropped(given.w, given.aliases) /\ WakeIsTheAuthors(given.w, given.aliases)
  <2>1. given \in [w: Worlds, aliases: AliasMaps]
    BY <1>1, CasesAreCases DEF Asked, Given
  <2>2. IsWorld(given.w) /\ Grants(given.aliases)
    BY <2>1, CasesAreCases
  <2>. QED
    BY <2>2, NobodyWasLookedFor, TheSeatIsTheAuthors
<1>2. ASSUME Asked, part = "exempt"
      PROVE  ExemptionIsProven(given.d, given.declared)
  <2>1. given \in [d: Diffs, declared: DeclaredRoots]
    BY <1>2, CasesAreCases DEF Asked, Given
  <2>2. IsDiff(given.d)
    BY <2>1, CasesAreCases
  <2>. QED
    BY <2>2, TheExemptionIsProven
<1>3. Asked => LetsGoOnProof
  BY <1>1, <1>2 DEF LetsGoOnProof
<1>. QED
  BY <1>3, StaysAsked, PTL

\* No merge is said to cost less than its whole, unless `git status' failed
\* (RevertProbe.cost, build_entry).
THEOREM EveryCostIsOfTheWhole == AnswersSpec => []NoCheapClaim
<1>1. ASSUME Asked, part = "cost" PROVE CostIsOfTheWhole(given)
  <2>1. given \in Merges
    BY <1>1, CasesAreCases DEF Asked, Given
  <2>2. IsMerge(given)
    BY <2>1, CasesAreCases
  <2>. QED
    BY <2>2, NoMergeIsSoldCheap
<1>2. Asked => NoCheapClaim
  BY <1>1 DEF NoCheapClaim
<1>. QED
  BY <1>2, StaysAsked, PTL

\* A host takes an envelope if and only if it is one whole testimony that was
\* issued to it (verify_source_surface).
THEOREM AHostTakesOnlyTestimony == AnswersSpec => []OnlyTestimonyIsTaken
<1>1. ASSUME Asked, part = "seal"
      PROVE  OnlyTestimonyVerifies(given.a, Issued(given), given.issuer, given.surface, given.now)
  <2>1. given \in Handed
    BY <1>1, CasesAreCases DEF Asked, Given
  <2>2. /\ \A i \in given.signed : DOMAIN i.fields = Filled
        /\ IsSealed(given.a, Issued(given))
    BY <2>1, CasesAreCases
  <2>3. \A i \in Issued(given) : IsIssued(i)
    BY <2>2 DEF Issued, IsIssued
  <2>. QED
    BY <2>2, <2>3, OnlyTestimonyIsVerified
<1>2. Asked => OnlyTestimonyIsTaken
  BY <1>1 DEF OnlyTestimonyIsTaken
<1>. QED
  BY <1>2, StaysAsked, PTL
================================================================================
