----------------------------- MODULE ReviewLoop -----------------------------
(***************************************************************************)
(* One pull request under the review belt: GitHub's record of it, the      *)
(* workflow runs that read and write that record, and what they post to    *)
(* Slack (.github/scripts/review_loop.py, .github/workflows/               *)
(* review-loop.yml).                                                       *)
(*                                                                         *)
(* A lane is a concurrency group.  It holds one run and one waiting run; a *)
(* third event evicts the waiting one, whoever sent it.  Runs of different *)
(* lanes share nothing but GitHub and interleave between any two requests. *)
(* A run knows what it last read: `seen' entries of the record.            *)
(*                                                                         *)
(* A step of a run is one request, or adjacent reads of which the last     *)
(* decides.  The author is a seat and no path is exempt: those guards      *)
(* never change for a pull request, and BeltAuthors has them.              *)
(***************************************************************************)
EXTENDS BeltSummary

CONSTANTS
    Meter,               \* what the usage meter may read
    MaxHeads,            \* bound: pushes
    MaxMoves,            \* bound: moves of people, reviewers and GitHub,
                         \* and requests that fail
    Openings             \* records the pull request may start from

VARIABLES
    head, open, base,    \* the live pull request
    thread,              \* GitHub's record of it
    lapsed,              \* entries at or before it are older than the windows
    lanes,               \* [lane -> [run, wait]]
    slack,               \* wakes posted
    told,                \* [head -> position of the verdict last woken for]
    moves                \* spent, against the bound

vars == <<head, open, base, thread, lapsed, lanes, slack, told, moves>>

Heads == 1 .. MaxHeads
Lanes == {"verdict", "push", "sweep"}
Now == Len(thread)
Live(h) == open /\ head = h

(* What the record may hold.                                               *)
Bases == {"main", "release"}
Bodies == {FindingsBody, RefusalBody}
          \cup {ConnectorClean(h) : h \in Heads} \cup {ExactClean(h) : h \in Heads}

Pushes == [via : {"push"}, head : Heads, arg : {"", "skip"}]
Retargets == [via : {"base"}, arg : Bases]
Reviews == [via : {"review"}, by : {Codex}, head : Heads, body : Bodies, badges : Seq(Nat)]
Remarks == [via : {"comment"}, by : {Codex}, body : Bodies]
Marks(families, args, abouts) ==
    [via : {"marker"}, by : {Trusted}, marks : families, head : Heads, arg : args,
     about : abouts, lane : Lanes \cup {"seat"}, reread : Nat]
Markers ==
    Marks({"substitute-verdict"}, {"clean"}, {0})
    \cup Marks({"substitute-verdict"}, {"findings"}, Nat)
    \cup Marks({"head-base", "gate", "request", "skip", "chase-1", "chase-2", "nudge", "summon",
               "redelivery", "hold", "delivered"}, Bases \cup {""}, Nat)

Unmarked == Pushes \cup Retargets \cup Reviews \cup Remarks
Entries == Unmarked \cup Markers

(* An opening is a pull request the belt has written nothing on.           *)
ASSUME ReviewAssumption ==
    /\ MaxHeads \in Nat /\ MaxMoves \in Nat
    /\ NoHead \notin Heads
    /\ NoResult \notin [at : Nat, head : Int, kind : {"clean", "findings"},
                        source : {"codex", "substitute"}]
    /\ \A o \in Openings : o.head \in Heads /\ o.thread \in Seq(Unmarked)

(* A run: its leg, the event or verdict it is about, its next request,     *)
(* what it publishes, the head, record and base it read.  History: whether *)
(* the pull request was live when it made its last request, and how much   *)
(* of the record it had at its last look for newer verdicts and at its     *)
(* last look for a retarget.                                               *)
Run(leg, on) ==
    [leg |-> leg, on |-> on, pc |-> "start", doing |-> "", head |-> 0, seen |-> 0,
     base |-> "", live |-> TRUE, reread |-> 0, closed |-> 0]

At(r, pc) == [r EXCEPT !.pc = pc]
Doing(r, what, pc) == [r EXCEPT !.doing = what, !.pc = pc]
Idle == At(Run("", 0), "idle")

-----------------------------------------------------------------------------
(* The lanes.                                                              *)

(* A comment that no job takes starts a run that ends at once, when it     *)
(* need not wait.  Waiting, it has evicted what waited before it.          *)
Noise == Run("noise", 0)

Enqueue(ls, l, r) ==
    IF ls[l].run # Idle THEN [ls EXCEPT ![l].wait = r]
    ELSE IF r = Noise THEN ls ELSE [ls EXCEPT ![l].run = r]

Finish(ls, l) ==
    [ls EXCEPT ![l] = [run |-> IF @.wait = Noise THEN Idle ELSE @.wait, wait |-> Idle]]

(* What lane l does next: r, or the waiting run when r is done.            *)
Goes(l, r) ==
    IF r = Idle THEN Finish(lanes, l)
    ELSE [lanes EXCEPT ![l].run = [r EXCEPT !.live = Live(r.head)]]

(* A comment posted with the connected account's token is an event of the  *)
(* verdict lane, which no job takes.  The routes post with the workflow's  *)
(* own token, which starts nothing.                                        *)
Echo(l, ls) == IF l = "verdict" THEN ls ELSE Enqueue(ls, "verdict", Noise)

(* The lane that posted a marker and its look for verdicts are history.    *)
Marker(marks, h, arg, about, lane, reread) ==
    [via |-> "marker", by |-> Trusted, marks |-> marks, head |-> h, arg |-> arg,
     about |-> about, lane |-> lane, reread |-> reread]

-----------------------------------------------------------------------------
Init ==
    \E o \in Openings :
        /\ head = o.head /\ open = TRUE /\ base = "main"
        /\ thread = o.thread /\ lapsed = 0
        /\ lanes = [l \in Lanes |->
             [run |-> IF l = "push" THEN Run("push", 0) ELSE Idle, wait |-> Idle]]
        /\ slack = {} /\ told = [h \in Heads |-> 0]
        /\ moves = 0

(* A request that reads, one that comments, one that posts to Slack.  A    *)
(* wake keeps what the run knew: that the pull request was live one        *)
(* request ago, that no newer verdict and no retarget were on the record   *)
(* when it last looked.                                                    *)
Still == UNCHANGED <<head, open, base, lapsed, moves>>

Reads(l, r) ==
    /\ lanes' = Goes(l, r)
    /\ UNCHANGED <<thread, slack, told>> /\ Still

Comments(l, marks, arg, about, r) ==
    LET mine == lanes[l].run
    IN  /\ thread' = Append(thread, Marker(marks, mine.head, arg, about, l, mine.reread))
        /\ lanes' = Echo(l, Goes(l, r))
        /\ UNCHANGED <<slack, told>> /\ Still

Wakes(l, kind, r) ==
    LET mine == lanes[l].run
        newer == {e \in codex_result_events(thread, mine.reread) :
                    e.head = mine.head /\ e.at > mine.on}
    IN  /\ slack' = slack \cup
             {[kind |-> kind, head |-> mine.head, on |-> mine.on, live |-> mine.live,
               latest |-> newer = {},
               subject |-> /\ mine.closed > 0
                           /\ ~base_retarget_after(thread, mine.closed, mine.on)]}
        /\ lanes' = Goes(l, r)
        /\ UNCHANGED thread /\ Still

-----------------------------------------------------------------------------
(* The event route.                                                        *)

verdict_head(v) == IF v.via = "comment" THEN clean_comment_head(v) ELSE v.head

Routable(v) ==
    \/ IsReview(v)
    \/ v.via = "comment" /\ clean_comment_head(v) # NoHead
    \/ substitute_accepted(v)

Refuses(v) == v.via = "comment" /\ is_quota_refusal_body(v.body)

HasDigest(v) ==
    IF v.via = "marker" THEN v.arg = "findings" ELSE v.via = "review" /\ v.badges # <<>>

RoundOf(r) == result_round_for_head(codex_result_heads(thread, r.seen), r.head)

(* What a route decides once the head's base is pinned.  A CLEAN has to    *)
(* pass the closure tests; findings at the bound are gated before anyone   *)
(* is woken, and below it they wake the burn seat.                         *)
CleanWake(r) == Doing(r, "clean_wake", "close")
ExhaustionGate(r) == Doing(r, "exhaustion_gate", "gate")
BurnWake(r) == Doing(r, "burn_wake", "check")

\* A fault: an off-by-one, the last round still sends the seat to fix.
RoutedTooFar(r) ==
    IF ~HasDigest(thread[r.on]) THEN CleanWake(r)
    ELSE IF RoundOf(r) > MaxRounds THEN ExhaustionGate(r) ELSE BurnWake(r)

Routed(r) ==
    IF ~HasDigest(thread[r.on]) THEN CleanWake(r)
    ELSE IF RoundOf(r) >= MaxRounds THEN ExhaustionGate(r) ELSE BurnWake(r)

(* The live pull request, the record, and the live pull request again.     *)
Admitted(r) == [r EXCEPT !.head = head, !.seen = Now, !.base = base]

route_codex_result(l) ==
    LET r == lanes[l].run
        v == thread[r.on]
    IN  /\ r.pc = "start" /\ r.leg = "route"
        /\ Reads(l,
             IF Refuses(v)
               THEN IF open THEN [Run("refusal", 0) EXCEPT !.pc = "scan", !.head = head]
                    ELSE Idle
             ELSE IF ~Routable(v) \/ ~Live(verdict_head(v)) THEN Idle
             ELSE IF head_base_recorded(thread, Now, head) THEN Routed(Admitted(r))
             ELSE At(Admitted(r), "pin"))

(* ensure_comment_at_head: read again, check the head, post.               *)
record_reviewed_head_base(l) ==
    LET r == lanes[l].run
    IN  /\ r.pc = "pin"
        /\ IF head_base_recorded(thread, Now, r.head) THEN Reads(l, Routed(r))
           ELSE IF Live(r.head) THEN Comments(l, "head-base", r.base, 0, Routed(r))
           ELSE Reads(l, Idle)

\* A fault: a review without findings is a CLEAN.
SilenceIsClean(r) == TRUE

(* An empty findings list is no CLEAN: a recognised clean text is.         *)
explicit_clean_signal(r) ==
    LET v == thread[r.on]
    IN  v.via = "review" =>
          \/ clean_verdict_binds_head(v.body, r.head)
          \/ \E i \in 1 .. r.seen : clean_comment_head(thread[i]) = r.head

\* A fault: a retarget is told from the pinned base alone.
ClosedByPin(r) ==
    stale_base_ref_for_closure(thread, r.seen, r.head,
        IF r.doing = "redelivery" THEN base ELSE r.base)

(* The closure tests of a CLEAN: a route's, with the base it took, and a   *)
(* redelivery's, which reads the pull request first.                       *)
closure_refused(r) ==
    \/ r.doing = "redelivery" /\ ~Live(r.head)
    \/ stale_base_ref_for_closure(thread, r.seen, r.head,
            IF r.doing = "redelivery" THEN base ELSE r.base)
    \/ base_retarget_after(thread, Now, r.on)

close(l) ==
    LET r == [lanes[l].run EXCEPT !.closed = Now]
    IN  /\ r.pc = "close"
        /\ Reads(l, IF closure_refused(r) THEN Idle
                    ELSE IF r.doing = "redelivery" THEN At(r, "reread")
                    ELSE IF explicit_clean_signal(r) THEN At(r, "check") ELSE Idle)

ensure_exhaustion_gate_at_head(l) ==
    LET r == lanes[l].run
    IN  /\ r.pc = "gate"
        /\ Reads(l, IF exhaustion_marker_state(thread, Now, r.head) = "terminal"
                      THEN At(r, "check")
                    ELSE IF Live(r.head) THEN At(r, "post gate") ELSE Idle)

post_gate(l) ==
    LET r == lanes[l].run
    IN  /\ r.pc = "post gate"
        /\ Comments(l, "gate", "", MaxRounds, IF r.leg = "route" THEN At(r, "check") ELSE Idle)

\* A fault: the summon is marked before anyone is woken.
MarkerFirst(r) ==
    CASE r.doing = "nudge" -> "post nudge"
      [] r.doing = "summon" -> "post summon"
      [] r.doing = "gate" -> "post gate"
      [] OTHER -> "wake"

(* publishable_at_head, right before the post that it protects.            *)
NextPost(r) ==
    CASE r.doing = "nudge" -> "post nudge"
      [] r.doing = "summon" -> "wake substitute"
      [] r.doing = "gate" -> "post gate"
      [] OTHER -> "wake"

\* A fault: the head that was admitted is published without another look.
PublishedUnseen(l) ==
    LET r == lanes[l].run
    IN  r.pc = "check" /\ Reads(l, At(r, NextPost(r)))

publishable_at_head(l) ==
    LET r == lanes[l].run
    IN  /\ r.pc = "check"
        /\ Reads(l, IF Live(r.head) THEN At(r, NextPost(r)) ELSE Idle)

(* A wake in several messages: inert evidence, and the check once more     *)
(* before the message that dispatches.                                     *)
post_threaded_messages(l) ==
    LET r == lanes[l].run
    IN  /\ r.pc = "wake" /\ HasDigest(thread[r.on]) /\ r.doing # "exhaustion_gate"
        /\ Reads(l, IF Live(r.head) THEN At(r, "dispatch") ELSE Idle)

deliver_wake(l) ==
    LET r == lanes[l].run
        after == CASE r.doing = "exhaustion_gate" -> At(r, "retrospective")
                   [] r.doing = "redelivery" -> At(r, "mark")
                   [] OTHER -> Idle
    IN  /\ r.pc \in {"wake", "dispatch"}
        /\ Wakes(l, r.doing, after)
        /\ told' = [told EXCEPT ![r.head] = r.on]

(* The third message at the bound: its own check, Slack, then a receipt    *)
(* once per head.                                                          *)
retrospective_check(l) ==
    LET r == lanes[l].run
    IN  /\ r.pc = "retrospective"
        /\ Reads(l, IF Live(r.head) THEN At(r, "wake retrospective") ELSE Idle)

publish_exhaustion_retrospective(l) ==
    LET r == lanes[l].run
    IN  /\ r.pc = "wake retrospective"
        /\ Wakes(l, "retrospective", At(r, "receipt")) /\ UNCHANGED told

\* A fault: the receipt is left without looking for one.
RecordAgain(l) == lanes[l].run.pc = "receipt" /\ Comments(l, "request", "", 0, Idle)

record_request(l) ==
    LET r == lanes[l].run
    IN  /\ r.pc = "receipt"
        /\ IF marker_comment_exists(thread, Now, "request", r.head) THEN Reads(l, Idle)
           ELSE Comments(l, "request", "", 0, Idle)

-----------------------------------------------------------------------------
(* The scan: the sweep's, a push's, a refusal's.                           *)

(* The position of the push that made a head.                              *)
PushOf(h) == CHOOSE i \in 1 .. Now : thread[i].via = "push" /\ thread[i].head = h

(* The chase of the retrospective, decided on what the scan read.          *)
chase_attempt(r) == retrospective_chase_attempts(thread, r.seen, r.head) + 1

\* A fault: an off-by-one, the request is chased once.
ChasedOnce(r) ==
    LET requested == retrospective_requested_at(thread, r.seen, r.head)
    IN  /\ ~retrospective_delivered(thread, r.seen, r.head)
        /\ requested \in 1 .. lapsed
        /\ chase_attempt(r) < 2

chase_due(r) ==
    LET requested == retrospective_requested_at(thread, r.seen, r.head)
        chased == trusted_marker_time(thread, r.seen, "chase-1", r.head)
    IN  /\ ~retrospective_delivered(thread, r.seen, r.head)
        /\ requested \in 1 .. lapsed
        /\ chase_attempt(r) <= 2
        /\ chase_attempt(r) = 2 => chased <= lapsed

receipt_still_missing(r) ==
    /\ ~retrospective_delivered(thread, Now, r.head)
    /\ retrospective_chase_attempts(thread, Now, r.head) < chase_attempt(r)

(* The redelivery, decided on what the scan read.                          *)
redeliver_standing_wake(r) ==
    LET at == standing_verdict_time(thread, r.seen, r.head)
        latest == latest_result_by_head(codex_result_events(thread, r.seen), r.head)
        digest == \/ standing_findings(thread, r.seen, r.head) # {}
                  \/ standing_substitute_findings(thread, r.seen, r.head) # {}
        owed == /\ exhaustion_marker_state(thread, r.seen, r.head) # "terminal"
                /\ ~head_disposed_after(thread, r.seen, r.head, at)
                /\ at <= lapsed
                /\ MarkedAbout(thread, r.seen, "redelivery", r.head, at) = {}
                /\ latest.kind = "findings" =>
                     /\ digest
                     /\ Cardinality(codex_result_heads(thread, r.seen)) < MaxRounds
    IN  IF owed THEN [Doing(r, "redelivery", IF latest.kind = "clean" THEN "close" ELSE "reread")
                      EXCEPT !.on = at]
        ELSE Idle

\* A fault: a nudge stands whatever was answered to it.
SummonedOnce(r, meter) ==
    LET stands == \E marks \in {"hold", "skip", "summon", "nudge"} :
                      marker_comment_exists(thread, r.seen, marks, r.head)
    IN  IF stands THEN Idle
        ELSE Doing(r, IF find_half_route(thread, r.seen, meter) = "codex"
                        THEN "nudge" ELSE "summon", "reread")

summon(r, meter) ==
    LET nudged == marker_comment_exists(thread, r.seen, "nudge", r.head)
        refused == quota_refusal_is_latest_codex_signal(thread, r.seen)
        stands == \/ marker_comment_exists(thread, r.seen, "hold", r.head)
                  \/ marker_comment_exists(thread, r.seen, "skip", r.head)
                  \/ marker_comment_exists(thread, r.seen, "summon", r.head)
                  \/ nudged /\ ~refused
        route == find_half_route(thread, r.seen, meter)
    IN  IF stands \/ (route = "codex" /\ nudged) THEN Idle
        ELSE Doing(r, IF route = "codex" THEN "nudge" ELSE "summon", "reread")

(* What the scan goes on to after the chase.                               *)
Branches(r) ==
    LET heads == codex_result_heads(thread, r.seen)
    IN  IF r.leg = "closed" THEN {Idle}
        ELSE IF r.head \in heads THEN {redeliver_standing_wake(r)}
        ELSE IF Cardinality(heads) >= MaxRounds
          THEN {IF exhaustion_marker_state(thread, r.seen, r.head) = "terminal"
                  THEN Idle ELSE Doing(r, "gate", "reread")}
        ELSE {summon(r, meter) : meter \in Meter}

_scan_open_pull(r) ==
    IF r.leg = "sweep" /\ PushOf(r.head) > lapsed THEN {Idle}
    ELSE IF chase_due(r) THEN {At(r, "chase")} ELSE Branches(r)

Scans(l, r) == \E next \in _scan_open_pull([r EXCEPT !.seen = Now]) : Reads(l, next)

(* The schedule scans what is open, and chases on what closed not long ago.*)
nudge_stalled_reviews ==
    /\ lanes["sweep"].run = Idle
    /\ Scans("sweep", [Run(IF open THEN "sweep" ELSE "closed", 0) EXCEPT !.head = head])

(* A head whose commit asks for no round is marked, once, and not scanned. *)
summon_on_push(l) ==
    LET r == [lanes[l].run EXCEPT !.head = head]
    IN  /\ r.pc = "start" /\ r.leg = "push"
        /\ Reads(l,
             IF ~open THEN Idle
             ELSE IF /\ thread[PushOf(head)].arg = "skip"
                     /\ ~marker_comment_exists(thread, Now, "skip", head)
               THEN At(r, "post skip")
             ELSE At(r, "scan"))

event_scan(l) == lanes[l].run.pc = "scan" /\ Scans(l, lanes[l].run)

record_review_skip(l) == lanes[l].run.pc = "post skip" /\ Comments(l, "skip", "", 0, Idle)

(* The head and then the receipts, read twice; the head alone a last time. *)
chase_reads(l) ==
    LET r == lanes[l].run
    IN  /\ r.pc = "chase"
        /\ \E next \in IF head = r.head /\ receipt_still_missing(r)
                         THEN {At(r, "chase head")} ELSE Branches(r) : Reads(l, next)

chase_head(l) ==
    LET r == lanes[l].run
    IN  /\ r.pc = "chase head"
        /\ \E next \in IF head # r.head THEN Branches(r)
                       ELSE {At(r, IF chase_attempt(r) = 1 THEN "wake chase" ELSE "post chase")} :
             Reads(l, next)

wake_chase(l) ==
    LET r == lanes[l].run
    IN  r.pc = "wake chase" /\ Wakes(l, "chase", At(r, "post chase")) /\ UNCHANGED told

post_chase(l) ==
    LET r == lanes[l].run
    IN  /\ r.pc = "post chase"
        /\ \E next \in Branches(r) :
             Comments(l, IF chase_attempt(r) = 1 THEN "chase-1" ELSE "chase-2", "", 0, next)

(* The sweep-side look at the verdict, adjacent to publishable_at_head.    *)
verdict_state_held(l) ==
    LET r == [lanes[l].run EXCEPT !.reread = Now]
    IN  /\ r.pc = "reread"
        /\ Reads(l,
             IF result_state_unchanged(
                  latest_result_by_head(codex_result_events(thread, r.seen), r.head),
                  latest_result_by_head(codex_result_events(thread, Now), r.head))
               THEN At(r, "check") ELSE Idle)

post_nudge(l) == lanes[l].run.pc = "post nudge" /\ Comments(l, "nudge", "", 0, Idle)

wake_substitute(l) ==
    LET r == lanes[l].run
    IN  r.pc = "wake substitute" /\ Wakes(l, "summon", At(r, "post summon")) /\ UNCHANGED told

post_summon(l) == lanes[l].run.pc = "post summon" /\ Comments(l, "summon", "", 0, Idle)

(* Slack first, then the marker: a lost marker wakes twice, never not.     *)
mark_redelivery(l) ==
    LET r == lanes[l].run
    IN  r.pc = "mark" /\ Comments(l, "redelivery", "", r.on, Idle)

-----------------------------------------------------------------------------
(* People, reviewers and GitHub.                                           *)

Moves == moves < MaxMoves /\ moves' = moves + 1

(* An entry and the event it raises in a lane.                             *)
Happens(e, lane, r) ==
    /\ Moves
    /\ thread' = Append(thread, e)
    /\ lanes' = Enqueue(lanes, lane, r)
    /\ UNCHANGED <<lapsed, slack, told>>

push ==
    \E arg \in {"", "skip"} :
        /\ open /\ head < MaxHeads
        /\ head' = head + 1
        /\ Happens([via |-> "push", head |-> head + 1, arg |-> arg], "push", Run("push", 0))
        /\ UNCHANGED <<open, base>>

UnderReview == Heads \cap {head - 1, head}

submit_review ==
    \E h \in UnderReview, says \in {<<FindingsBody, <<1>>>>, <<FindingsBody, <<>>>>,
                                    <<ExactClean(head), <<>>>>} :
        /\ Happens([via |-> "review", by |-> Codex, head |-> h, body |-> says[1],
                    badges |-> says[2]], "verdict", Run("route", Now + 1))
        /\ UNCHANGED <<head, open, base>>

comment_codex ==
    \E body \in {ConnectorClean(h) : h \in UnderReview} \cup {RefusalBody} :
        /\ Happens([via |-> "comment", by |-> Codex, body |-> body],
                   "verdict", Run("route", Now + 1))
        /\ UNCHANGED <<head, open, base>>

comment_substitute ==
    \E arg \in {"clean", "findings"} :
        /\ Happens(Marker("substitute-verdict", head, arg,
                       IF arg = "findings" THEN 2 ELSE 0, "seat", 0),
                   "verdict", Run("route", Now + 1))
        /\ UNCHANGED <<head, open, base>>

(* A seat's disposition of a head, or Theoros's testimony about it.        *)
comment_seat ==
    \E marks \in {"hold", "delivered"} :
        /\ Happens(Marker(marks, head, "", 0, "seat", 0), "verdict", Noise)
        /\ UNCHANGED <<head, open, base>>

(* Any comment at all takes the waiting place of the verdict lane.         *)
chatter ==
    /\ Moves
    /\ lanes' = Enqueue(lanes, "verdict", Noise)
    /\ UNCHANGED <<head, open, base, thread, lapsed, slack, told>>

retarget ==
    /\ open /\ Moves
    /\ base' = IF base = "main" THEN "release" ELSE "main"
    /\ thread' = Append(thread, [via |-> "base", arg |-> base'])
    /\ UNCHANGED <<head, open, lapsed, lanes, slack, told>>

close_pull ==
    /\ open /\ Moves
    /\ open' = FALSE
    /\ UNCHANGED <<head, base, thread, lapsed, lanes, slack, told>>

(* The windows pass.  Every request times out after 30 s and a run makes   *)
(* a few dozen: no run is under way when an hour has passed.               *)
an_hour_passes ==
    /\ lapsed < Now
    /\ \A l \in Lanes : lanes[l].run = Idle
    /\ lapsed' = Now
    /\ UNCHANGED <<head, open, base, thread, lanes, slack, told, moves>>

(* Any request may fail; it raises out of the run.                         *)
request_fails(l) ==
    /\ lanes[l].run # Idle /\ Moves
    /\ lanes' = Finish(lanes, l)
    /\ UNCHANGED <<head, open, base, thread, lapsed, slack, told>>

-----------------------------------------------------------------------------
Route(l) ==
    \/ route_codex_result(l)
    \/ record_reviewed_head_base(l)
    \/ close(l) \/ ensure_exhaustion_gate_at_head(l) \/ post_gate(l)
    \/ publishable_at_head(l) \/ post_threaded_messages(l)
    \/ deliver_wake(l)
    \/ retrospective_check(l) \/ publish_exhaustion_retrospective(l)
    \/ record_request(l)

Scan(l) ==
    \/ summon_on_push(l) \/ record_review_skip(l) \/ event_scan(l)
    \/ chase_reads(l) \/ chase_head(l) \/ wake_chase(l) \/ post_chase(l)
    \/ verdict_state_held(l)
    \/ post_nudge(l) \/ wake_substitute(l) \/ post_summon(l) \/ mark_redelivery(l)

Works(l) == Route(l) \/ Scan(l)

Environment ==
    \/ push \/ submit_review \/ comment_codex \/ comment_substitute \/ comment_seat
    \/ chatter \/ retarget \/ close_pull

Next ==
    \/ \E l \in Lanes : Works(l) \/ request_fails(l)
    \/ nudge_stalled_reviews \/ an_hour_passes \/ Environment

(* Runs go on and the schedule fires; hours pass, however often it fires.  *)
Fairness ==
    /\ \A l \in Lanes : WF_vars(Works(l))
    /\ WF_vars(nudge_stalled_reviews)
    /\ SF_vars(an_hour_passes)

Spec == Init /\ [][Next]_vars /\ Fairness

-----------------------------------------------------------------------------
(* Runs and wakes over a record of n entries.                              *)
Legs == {"", "noise", "route", "push", "refusal", "sweep", "closed"}
Requests ==
    {"idle", "start", "pin", "close", "gate", "post gate", "check", "wake", "dispatch",
     "retrospective", "wake retrospective", "receipt", "scan", "post skip", "chase",
     "chase head", "wake chase", "post chase", "reread", "post nudge", "wake substitute",
     "post summon", "mark"}
Aims == {"", "clean_wake", "exhaustion_gate", "burn_wake", "redelivery", "nudge", "summon", "gate"}

RunsOver(n) ==
    [leg : Legs, on : 0 .. n, pc : Requests, doing : Aims, head : 0 .. MaxHeads, seen : 0 .. n,
     base : Bases \cup {""}, live : BOOLEAN, reread : 0 .. n, closed : 0 .. n]

WakesOver(n) ==
    [kind : {"clean_wake", "exhaustion_gate", "burn_wake", "redelivery", "summon",
             "retrospective", "chase"},
     head : Heads, on : 0 .. n, live : BOOLEAN, latest : BOOLEAN, subject : BOOLEAN]

TypeOK ==
    /\ head \in Heads /\ open \in BOOLEAN /\ base \in Bases
    /\ thread \in Seq(Entries)
    /\ lapsed \in 0 .. Now
    /\ lanes \in [Lanes -> [run : RunsOver(Now), wait : RunsOver(Now)]]
    /\ slack \subseteq WakesOver(Now)
    /\ \A l \in Lanes : lanes[l].run = Idle => lanes[l].wait = Idle
    /\ told \in [Heads -> 0 .. Now]
    /\ moves \in 0 .. MaxMoves

MarkersOf(h) == {i \in 1 .. Now : thread[i].via = "marker" /\ thread[i].head = h}

(* A marker that stops the belt from doing something again was posted      *)
(* after the wake it stands for: a redelivery, a summon, a request for     *)
(* testimony and its first chase (Slack first, then the marker).           *)
MarkersRecordWakes ==
    \A h \in Heads : \A i \in MarkersOf(h) :
        LET m == thread[i]
            wake == CASE m.marks = "redelivery" -> "redelivery"
                      [] m.marks = "summon" -> "summon"
                      [] m.marks = "request" -> "retrospective"
                      [] m.marks = "chase-1" -> "chase"
                      [] OTHER -> ""
        IN  wake = "" \/ \E w \in slack : /\ w.kind = wake /\ w.head = h
                                          /\ wake = "redelivery" => w.on = m.about

(* One lane leaves one gate, nudge, summon, pin, request and chase at a    *)
(* head, and one redelivery of a verdict, whatever is retried or delivered *)
(* twice.  Lanes race: each may leave its own.                             *)
OncePerLane ==
    \A h \in Heads : \A i, j \in MarkersOf(h) :
        (i # j /\ thread[i].lane \in Lanes) =>
            <<thread[i].lane, thread[i].marks, thread[i].about>> #
            <<thread[j].lane, thread[j].marks, thread[j].about>>

(* Nothing is said to a seat about a pull request that had closed or moved *)
(* before the last request the run made.                                   *)
WakesAreLive == \A w \in slack : w.kind # "chase" => w.live

(* What a scan publishes at a head, it publishes about the verdict that    *)
(* stood there when it last looked: a wake redelivers the latest, and a    *)
(* nudge, a summon or a gate finds the head unreviewed.                    *)
SweepSpeaksOfTheLatest ==
    /\ \A w \in slack : w.kind \in {"redelivery", "summon"} => w.latest
    /\ \A h \in Heads : \A i \in MarkersOf(h) :
         thread[i].marks \in {"nudge", "summon", "gate"} =>
             h \notin codex_result_heads(thread, thread[i].reread)

(* The verdict that entry i of the record brought is a CLEAN.              *)
SaysClean(i) == \E e \in codex_result_events(thread, Now) : e.at = i /\ e.kind = "clean"

(* No CLEAN wakes a seat for a pull request that was retargeted after the  *)
(* verdict, in the route or an hour later.                                 *)
ToldClean(w) == w.kind = "clean_wake" \/ (w.kind = "redelivery" /\ SaysClean(w.on))

CleanNamesItsSubject == \A w \in slack : ToldClean(w) => w.subject

(* The belt sends seats back to fix at most MaxRounds - 1 heads, whichever *)
(* of its lanes sends them and however they race: never about a verdict    *)
(* that spent the last round.  It calls a pull request exhausted only when *)
(* the rounds are spent.                                                   *)
SentToFix(w) == w.kind = "burn_wake" \/ (w.kind = "redelivery" /\ ~SaysClean(w.on))
SaysExhausted(w) == w.kind \in {"exhaustion_gate", "retrospective"}

HeadsToFix == {w.head : w \in {w \in slack : SentToFix(w)}}

RoundsBoundTheLoop ==
    /\ Cardinality(HeadsToFix) < MaxRounds
    /\ \A w \in slack :
         /\ SentToFix(w) => Cardinality(codex_result_heads(thread, w.on)) < MaxRounds
         /\ SaysExhausted(w) => Cardinality(codex_result_heads(thread, Now)) >= MaxRounds

HeadsTold == {w.head : w \in {w \in slack : ToldClean(w)}}
HeadsStopped == {w.head : w \in {w \in slack : SaysExhausted(w)}}

(* The belt keeps what ReviewRounds promises the seats: of every wake, in  *)
(* whichever lane, after whatever it read and however long ago.            *)
HeadsGiven(kind) == {e.head : e \in {e \in codex_result_events(thread, Now) : e.kind = kind}}

Rounds == INSTANCE ReviewRounds WITH
    Heads <- 0 - MaxHeads .. MaxHeads,
    found <- HeadsGiven("findings"),
    cleared <- HeadsGiven("clean"),
    fixing <- HeadsToFix,
    closed <- HeadsTold,
    stopped <- HeadsStopped

ImplementsRounds == Rounds!Spec

(* What the entry that won a head reported.                                *)
Reported(e) == IF e.via = "marker" THEN e.about
               ELSE IF e.via = "review" THEN Len(e.badges) ELSE 0

(* The summary of a pull request is its history: a round closed review if  *)
(* and only if the verdict that won its head is a CLEAN, it counts the     *)
(* findings of that verdict and not of one it superseded, and a pull       *)
(* request is called exhausted only if it spent the rounds of its gate.    *)
RoundsAreTheWinners ==
    LET events == codex_result_events(thread, Now)
        summary == pr_belt_summary(thread, Now, TRUE)
    IN  /\ \A e \in round_history(thread, Now) :
             LET won == latest_result_by_head(events, e.head)
             IN  /\ e.closed_review <=> won.kind = "clean" /\ e.head \in Heads
                 /\ e.count = Reported(thread[won.at])
        /\ summary.exhausted => summary.rounds >= summary.exhausted_max_rounds

StandingResult == latest_result_by_head(codex_result_events(thread, Now), head)

(* The verdict that stands at the live head and that the belt still owes a *)
(* seat: not acted on, not stopped by a gate, below the bound or clean.    *)
Owed ==
    /\ open /\ StandingResult # NoResult
    /\ ~head_disposed_after(thread, Now, head, StandingResult.at)
    /\ exhaustion_marker_state(thread, Now, head) # "terminal"
    /\ IF StandingResult.kind = "clean"
         THEN /\ ~base_retarget_after(thread, Now, StandingResult.at)
              /\ ~stale_base_ref_for_closure(thread, Now, head, base)
         ELSE /\ \/ standing_findings(thread, Now, head) # {}
                 \/ standing_substitute_findings(thread, Now, head) # {}
              /\ Cardinality(codex_result_heads(thread, Now)) < MaxRounds

(* However runs are evicted, requests fail and verdicts overtake one       *)
(* another, the last wake about a head comes to be about the verdict that  *)
(* stands there.                                                           *)
VerdictReachesTheSeat == <>[](Owed => told[head] = StandingResult.at)

(* A head that nobody reviewed, held or skipped comes to be gated at the   *)
(* bound, or to have a reviewer: one who did not refuse.                   *)
Waiting == open /\ StandingResult = NoResult

Attended ==
    LET there(marks) == marker_comment_exists(thread, Now, marks, head)
    IN  IF Cardinality(codex_result_heads(thread, Now)) >= MaxRounds
          THEN exhaustion_marker_state(thread, Now, head) = "terminal"
        ELSE \/ there("hold") \/ there("skip") \/ there("summon")
             \/ there("nudge") /\ ~quota_refusal_is_latest_codex_signal(thread, Now)

HeadIsAttended == <>[](Waiting => Attended)

(* Testimony asked for at the head that stays comes to be delivered or     *)
(* its absence stated, the pull request open or closed.                    *)
TestimonyIsSettled ==
    <>[](marker_comment_exists(thread, Now, "request", head) =>
           \/ retrospective_delivered(thread, Now, head)
           \/ marker_comment_exists(thread, Now, "chase-2", head))
=============================================================================
