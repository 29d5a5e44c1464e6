---------------------------- MODULE MergeDigest ----------------------------
(***************************************************************************)
(* The machine-merge digest (.github/scripts/merge_digest.py): a scheduled *)
(* run reports what merged since the run before it, over several           *)
(* repositories, and what reverting each merge would cost today.           *)
(*                                                                         *)
(* The first half is the window: the only memory is the workflow's own     *)
(* list of runs.  The second half is the cost of one merge, from a world   *)
(* `w' of what git and GitHub answer.                                      *)
(***************************************************************************)
EXTENDS Integers, FiniteSets, SequencesExt

CONSTANTS
    Pulls,               \* pull requests, taken as a seat's all, and their
    RepoOf,              \* [Pulls -> repository],
    Repos,               \* of the repositories that are read
    PullsPerPage,        \* of a listing (100)
    BOOTSTRAP_WINDOW,    \* how far the first window reaches back
    MaxClock, MaxRuns,   \* bounds: time, runs, and
    MaxLoad              \* how many of them are under way at once, together
                         \* with the updates of pulls, so far, that merge nothing

Never == -1

ASSUME DigestAssumption ==
    /\ BOOTSTRAP_WINDOW \in Nat \ {0} /\ PullsPerPage \in Nat \ {0}
    /\ RepoOf \in [Pulls -> Repos]

VARIABLES
    clock,
    merged_at,           \* [Pulls -> Never or the time]
    updated_at,          \* [Pulls -> the time], of a closed one
    place,               \* [Pulls -> Nat], 0 for an open one: see below
    updates,             \* how many there were that are no merges
    runs,                \* sequence of the workflow's runs, oldest first
    reported,            \* pulls in a digest that was posted
    slipped              \* merges that slipped past a digest that was posted

pulls_vars == <<merged_at, updated_at, place, updates>>
digest_vars == <<clock, pulls_vars, runs, reported, slipped>>

(* A repository lists its closed pulls, the last update first: a pull has  *)
(* its place in the listing.                                               *)
(* A run: when it was created, whether it is a dry run, the start of its   *)
(* window, the repositories it has yet to read, how many pages it has of   *)
(* the one it is reading, what it found on them and which merges slipped   *)
(* onto one of them later, whether a repository could not be read, the     *)
(* entries, and how it stands.  The list is asked for successful runs: one *)
(* that fails leaves it, and one that is over keeps no work of its own.    *)
DigestInit ==
    /\ clock = 0 /\ merged_at = [p \in Pulls |-> Never]
    /\ updated_at = [p \in Pulls |-> 0] /\ place = [p \in Pulls |-> 0]
    /\ updates = 0
    /\ runs = <<>> /\ reported = {} /\ slipped = {}

-----------------------------------------------------------------------------
\* A fault: a run that only rendered counts.
Succeeded(run) == run.status = "success"

(* The run's title says whether it was a dry run.                          *)
_run_posted_digest(run) == run.status = "success" /\ ~run.dry

(* The newest run that posted, whole; else a window of fixed length.       *)
window_start(now) ==
    LET posted == {i \in DOMAIN runs : _run_posted_digest(runs[i])}
    IN  IF posted = {} THEN now - BOOTSTRAP_WINDOW
        ELSE runs[CHOOSE i \in posted : \A j \in posted : j <= i].created

(* An override only widens.                                                *)
resolve_window(now, since) ==
    LET watermark == window_start(now) IN IF since > watermark THEN watermark ELSE since

-----------------------------------------------------------------------------
Load == Cardinality({i \in DOMAIN runs : runs[i].status = "running"}) + updates

(* A run is created and takes its window at once; since is a dispatch's    *)
(* override, or the clock's, which is never earlier than the watermark.    *)
run_digest(dry, since) ==
    /\ Len(runs) < MaxRuns
    /\ Load < MaxLoad
    /\ runs' = Append(runs,
         [created |-> clock, dry |-> dry, since |-> resolve_window(clock, since),
          unread |-> Repos, page |-> 0, found |-> {}, slipped |-> {}, failed |-> FALSE,
          entries |-> {}, status |-> "running"])
    /\ UNCHANGED <<clock, pulls_vars, reported, slipped>>

Step(i, run) ==
    /\ runs' = [runs EXCEPT ![i] = run]
    /\ UNCHANGED <<clock, pulls_vars, reported, slipped>>

Reading(i) == runs[i].status = "running" /\ runs[i].unread # {}

(* The repository that a run reads, and where its pages so far end.        *)
Current(run) == CHOOSE repo \in run.unread : TRUE
ReadTo(run) == run.page * PullsPerPage

Left(run) ==
    [run EXCEPT !.unread = @ \ {Current(run)}, !.page = 0, !.found = {}]

Batch(run) ==
    {p \in Pulls : RepoOf[p] = Current(run)
                   /\ place[p] > ReadTo(run) /\ place[p] <= ReadTo(run) + PullsPerPage}

(* A page that is not full is the last, and so is one that ends before the *)
(* window.                                                                 *)
IsLast(run, batch) ==
    \A p \in batch : place[p] = ReadTo(run) + PullsPerPage => updated_at[p] < run.since

(* One page of the listing is asked for.                                   *)
merged_pulls_since(i) ==
    /\ Reading(i)
    /\ LET run == runs[i]
           batch == Batch(run)
           found == run.found \cup
                      {p \in batch : merged_at[p] # Never /\ merged_at[p] >= run.since}
       IN  Step(i, IF IsLast(run, batch) THEN [Left(run) EXCEPT !.entries = @ \cup found]
                   ELSE [run EXCEPT !.page = @ + 1, !.found = found])

(* A repository is reported as unread, at any of its calls: the run goes on.*)
miss_repo(i) == Reading(i) /\ Step(i, [Left(runs[i]) EXCEPT !.failed = TRUE])

(* Everything that was read is posted, and then a run that missed a        *)
(* repository fails: it must not become the watermark.                     *)
emit(i) ==
    /\ runs[i].status = "running" /\ runs[i].unread = {}
    /\ reported' = IF runs[i].dry THEN reported ELSE reported \cup runs[i].entries
    /\ slipped' = IF runs[i].dry THEN slipped ELSE slipped \cup runs[i].slipped
    /\ runs' = IF runs[i].failed THEN RemoveAt(runs, i)
               ELSE [runs EXCEPT ![i] = [@ EXCEPT !.status = "success", !.entries = {}, !.slipped = {}]]
    /\ UNCHANGED <<clock, pulls_vars>>

(* Anywhere: a cancelled job, a lost runner, an error of Slack.            *)
run_fails(i) ==
    /\ runs[i].status = "running"
    /\ runs' = RemoveAt(runs, i)
    /\ UNCHANGED <<clock, pulls_vars, reported, slipped>>

-----------------------------------------------------------------------------
(* The listing as p is updated, or opened again.                           *)

ToHead(p) ==
    [q \in Pulls |->
       IF q = p THEN 1
       ELSE IF RepoOf[q] = RepoOf[p] /\ place[q] > 0 /\ (place[p] = 0 \/ place[q] < place[p])
         THEN place[q] + 1 ELSE place[q]]

Without(p) ==
    [q \in Pulls |->
       IF q = p THEN 0
       ELSE IF RepoOf[q] = RepoOf[p] /\ place[q] > place[p] THEN place[q] - 1 ELSE place[q]]

(* Merges come from a page that a run has not asked for onto one it has.   *)
Slips(run, to) ==
    {p \in Pulls : /\ run.unread # {} /\ RepoOf[p] = Current(run) /\ merged_at[p] # Never
                   /\ place[p] > ReadTo(run) /\ to[p] > 0 /\ to[p] <= ReadTo(run)}

Listed(to) ==
    /\ place' = to
    /\ runs' = [i \in DOMAIN runs |->
                  [runs[i] EXCEPT !.slipped = @ \cup Slips(runs[i], to)]]
    /\ UNCHANGED <<clock, reported, slipped>>

Updated(p) == updated_at' = [updated_at EXCEPT ![p] = clock] /\ Listed(ToHead(p))

merge(p) ==
    /\ merged_at[p] = Never /\ place[p] = 0
    /\ merged_at' = [merged_at EXCEPT ![p] = clock]
    /\ Updated(p) /\ UNCHANGED updates

(* Closed as it is; or a closed one gets a comment, a label, a review.     *)
update(p) ==
    /\ Load < MaxLoad
    /\ updates' = updates + 1
    /\ Updated(p) /\ UNCHANGED merged_at

reopen(p) ==
    /\ merged_at[p] = Never /\ place[p] > 0
    /\ Listed(Without(p))
    /\ UNCHANGED <<merged_at, updated_at, updates>>

(* A job ends within six hours, less than the unit of the clock.           *)
tick ==
    /\ clock < MaxClock
    /\ \A i \in DOMAIN runs : runs[i].status = "running" => runs[i].created = clock
    /\ clock' = clock + 1
    /\ UNCHANGED <<pulls_vars, runs, reported, slipped>>

DigestNext ==
    \/ \E dry \in BOOLEAN, since \in 0 .. clock : run_digest(dry, since)
    \/ \E i \in DOMAIN runs :
         merged_pulls_since(i) \/ miss_repo(i) \/ emit(i) \/ run_fails(i)
    \/ \E p \in Pulls : merge(p) \/ update(p) \/ reopen(p)
    \/ tick

DigestSpec == DigestInit /\ [][DigestNext]_digest_vars

-----------------------------------------------------------------------------
Covered == {i \in DOMAIN runs : runs[i].status = "success" /\ ~runs[i].dry}

(* Once a digest has been posted, what merged inside its window or between *)
(* it and the last one is in some digest: whatever failed, overlapped, was *)
(* only rendered or was dispatched with a date in between.  But for the    *)
(* merges that slipped: whose place, between two pages of a digest that    *)
(* was posted, moved from the pages to come to those it had, as they were  *)
(* updated or a pull before them was reopened.  The listing is not exact,  *)
(* as merged_pulls_since says it is: such a merge may be in no digest.     *)
NoMergeIsMissed ==
    \A i, j \in Covered : \A p \in Pulls :
        (/\ merged_at[p] # Never
         /\ merged_at[p] >= runs[i].since /\ merged_at[p] < runs[j].created)
            => p \in reported \cup slipped

-----------------------------------------------------------------------------
(* One merge.  A world has                                                 *)
(*   strategy   "squash", "merge" or "rebase";                             *)
(*   commits    how many the pull carried;                                 *)
(*   declared, listed, chain   whether the pull says how many, whether its *)
(*              list is whole, and how far back the first-parent chain     *)
(*              can be read;                                               *)
(*   git        how each git step ends: "ok", "fails", with an exit status,*)
(*              or "raises", without one;                                  *)
(*   left       what a reset or clean that failed leaves in the clone:     *)
(*              nothing (""), what status lists, or what blocks a revert;  *)
(*   noop       whether the whole merge was reverted since;                *)
(*   conflicts, touched   the commits whose revert conflicts now, and      *)
(*              those whose files later commits touch;                     *)
(*   deployments   newest first; lost, the page of them that cannot be     *)
(*              read, or 0.                                                *)

Span(count, whole, undetermined) ==
    [count |-> count, is_merge |-> whole, undetermined |-> undetermined]

\* A fault: the merge commit is the merge.
Tip(w) == Span(1, w.strategy = "merge", FALSE)

(* A squash is not the twin of the pull's last commit; a rebase is, and    *)
(* its chain reproduces the pull's commits.                                *)
merge_span(w) ==
    CASE w.strategy = "merge" -> Span(1, TRUE, FALSE)
      [] w.strategy # "merge" /\ ~w.declared -> Span(1, FALSE, TRUE)
      [] w.strategy # "merge" /\ w.declared /\ w.commits = 1 -> Span(1, FALSE, FALSE)
      [] OTHER ->
           IF ~w.listed THEN Span(1, FALSE, TRUE)
           ELSE IF w.strategy = "squash" THEN Span(1, FALSE, FALSE)
           ELSE IF w.chain < w.commits THEN Span(1, FALSE, TRUE)
           ELSE Span(w.commits, FALSE, FALSE)

(* The commits of the pull that revert_args and diff_spec reach: a squash  *)
(* or a merge commit has all, a rebased tip and its count the last ones.   *)
reached(w, span) ==
    IF w.strategy # "rebase" THEN 1 .. w.commits
    ELSE w.commits - span.count + 1 .. w.commits

GitSteps == <<"clone", "fetch", "checkout", "reset", "clean", "revert", "status", "quit", "diff", "log">>

(* The steps whose exit status ends the measurement when it is bad.        *)
Checked == {"clone", "fetch", "checkout", "diff", "log"}

Reverts(w, commits) ==
    w.git["revert"] # "fails" /\ w.conflicts \cap commits = {} /\ w.left # "blocks"

(* Whatever is wrong with a revert, it conflicts.  No changes are none to  *)
(* revert, and a status that fails prints no changes.                      *)
Measured(w, commits) ==
    IF ~Reverts(w, commits) THEN "conflicting"
    ELSE IF w.git["status"] = "fails" \/ (w.noop /\ w.left = "") THEN "clean"
    ELSE IF w.touched \cap commits # {} THEN "dependents" ELSE "clean"

(* The first step that ends the measurement says how: one that raises, for *)
(* the whole repository.  Only a revert that applied has a status.         *)
_measure(w, span) ==
    LET commits == reached(w, span)
        ends == {i \in DOMAIN GitSteps :
                   \/ w.git[GitSteps[i]] = "fails" /\ GitSteps[i] \in Checked
                   \/ w.git[GitSteps[i]] = "raises" /\ (GitSteps[i] = "status" => Reverts(w, commits))}
    IN  IF ends = {} THEN Measured(w, commits)
        ELSE IF w.git[GitSteps[CHOOSE i \in ends : \A j \in ends : i <= j]] = "raises" THEN "UNREAD"
        ELSE "unmeasured"

(* No span, no cost.                                                       *)
cost(w) ==
    IF merge_span(w).undetermined THEN "unmeasured" ELSE _measure(w, merge_span(w))

-----------------------------------------------------------------------------
(* A deployment: since (it is not older than the merge), covers (the merge *)
(* or the branch it landed on), production, succeeded (by its latest       *)
(* status), and readable, whether that status can be read.                 *)

_deployment_covers_merge(d) == d.since /\ d.covers /\ d.production

PerPage == 2
PageOf(i) == ((i - 1) \div PerPage) + 1

(* A page is asked for when those before it were full, of records that are *)
(* not older than the merge.                                               *)
ReachesPage(w, page) ==
    /\ (page - 1) * PerPage <= Len(w.deployments)
    /\ \A j \in 1 .. (page - 1) * PerPage : w.deployments[j].since

(* The newest record that decides, on the pages that are read.             *)
deployment_note(w) ==
    LET deciding == {i \in DOMAIN w.deployments :
                       /\ _deployment_covers_merge(w.deployments[i])
                       /\ w.deployments[i].succeeded \/ ~w.deployments[i].readable
                       /\ ReachesPage(w, PageOf(i)) /\ (w.lost = 0 \/ PageOf(i) < w.lost)}
    IN  IF deciding # {}
          THEN IF w.deployments[CHOOSE i \in deciding : \A j \in deciding : i <= j].readable
                 THEN "deployed" ELSE "unknown"
        ELSE IF w.lost > 0 /\ ReachesPage(w, w.lost) THEN "unreadable"
        ELSE IF w.deployments = <<>> THEN "no records" ELSE ""

(* Shipped state outranks what the revert costs; a note that cannot say    *)
(* stands beside the cost.  At merge time nothing is probed.               *)
build_entry(w, probe) ==
    IF ~probe THEN [tier |-> "unmeasured", note |-> ""]
    ELSE IF cost(w) = "UNREAD" THEN [tier |-> "UNREAD", note |-> ""]
    ELSE [tier |-> IF deployment_note(w) = "deployed" THEN "deployed" ELSE cost(w),
          note |-> deployment_note(w)]

TIER_ORDER == <<"deployed", "conflicting", "unmeasured", "dependents", "clean">>

Deployment ==
    [since: BOOLEAN, covers: BOOLEAN, production: BOOLEAN, succeeded: BOOLEAN, readable: BOOLEAN]

NewestFirst(ds) == \A i, j \in DOMAIN ds : i < j /\ ds[j].since => ds[i].since

IsMerge(w) ==
    /\ w.strategy \in {"squash", "merge", "rebase"}
    /\ w.commits \in Nat \ {0} /\ w.chain \in Nat
    /\ w.declared \in BOOLEAN /\ w.listed \in BOOLEAN
    /\ w.git \in [ToSet(GitSteps) -> {"ok", "fails", "raises"}]
    /\ w.left \in {"", "shows", "blocks"} /\ w.noop \in BOOLEAN
    /\ w.deployments \in Seq(Deployment)
    /\ NewestFirst(w.deployments) /\ w.lost \in Nat

(* What a reader would find who reverted the whole merge by hand, and what *)
(* one would who could read every record.                                  *)
TrueCost(w) ==
    IF w.noop THEN "clean"
    ELSE IF w.conflicts \cap 1 .. w.commits # {} THEN "conflicting"
    ELSE IF w.touched \cap 1 .. w.commits # {} THEN "dependents" ELSE "clean"

Covering(w) ==
    {w.deployments[i] : i \in {i \in DOMAIN w.deployments :
        w.deployments[i].since /\ w.deployments[i].covers /\ w.deployments[i].production}}

Shipped(w) == \E d \in Covering(w) : d.succeeded

NoCheaper(tier, true) ==
    \E i, j \in DOMAIN TIER_ORDER : TIER_ORDER[i] = tier /\ TIER_ORDER[j] = true /\ i <= j

(* A cost is claimed only of the whole merge, and never lower than it is,  *)
(* whatever git step or request fails: but for a `git status' that fails,  *)
(* of which _measure reads that nothing is left to revert.  What is        *)
(* shipped is listed as that, or its entry says that this is not known,    *)
(* and says so only when a record or the listing could not be read; then   *)
(* its tier is the cost of the revert alone.  Nothing else is listed as    *)
(* shipped.                                                                *)
CostIsOfTheWhole(w) ==
    LET entry == build_entry(w, TRUE)
    IN  entry.tier # "UNREAD" =>
          /\ \/ entry.tier = "unmeasured" \/ w.git["status"] = "fails"
             \/ NoCheaper(entry.tier, TrueCost(w))
          /\ Shipped(w) => entry.tier = "deployed" \/ entry.note \in {"unknown", "unreadable"}
          /\ entry.tier = "deployed" => Shipped(w)
          /\ entry.note = "unknown" => \E d \in Covering(w) : ~d.readable
          /\ entry.note = "unreadable" => w.lost > 0
=============================================================================
