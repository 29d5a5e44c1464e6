---------------------------- MODULE BeltResults ----------------------------
(***************************************************************************)
(* What the review belt reads out of a pull request                        *)
(* (.github/scripts/review_loop.py): the results at its heads, the round   *)
(* they make, and the control markers its own runs and the seats left.     *)
(*                                                                         *)
(* The pull request's record is a sequence `t' of what GitHub keeps, in    *)
(* the order of the timestamps:                                            *)
(*   review    by, head (its commit_id), body, badges (one per inline      *)
(*             finding that binds to this review's id)                     *)
(*   comment   by, body                                                    *)
(*   marker    by, marks (the marker's family), head, arg (a verdict's     *)
(*             kind, a pin's base), about (a verdict, a round bound, the   *)
(*             findings a substitute counts)                               *)
(*   push      head, arg (whether its commit carries a Review-skip line)   *)
(*   base      arg (the base ref the pull request was retargeted to)       *)
(* An entry's position is its time and its id.  A run that read the record *)
(* when it was n entries long knows SubSeq(t, 1, n): every operator takes  *)
(* the n it may look at.                                                   *)
(***************************************************************************)
EXTENDS CodexVerdicts, Integers, Sequences

CONSTANTS
    Codex,               \* the review connector's login
    Trusted,             \* a trusted control identity
    Gone,                \* commits whose short form no longer resolves
    NoResult,
    MaxRounds            \* MAX_REVIEW_ROUNDS

ASSUME BeltAssumption ==
    /\ Codex # Trusted
    /\ MaxRounds \in Nat \ {0}

-----------------------------------------------------------------------------
(* Control markers.  Only a trusted identity's count.                      *)

substitute_verdict(e) == e.via = "marker" /\ e.marks = "substitute-verdict"

Marked(t, n, marks, h) ==
    {i \in 1 .. n : /\ t[i].via = "marker" /\ t[i].by = Trusted
                    /\ t[i].marks = marks /\ t[i].head = h}

MarkedAbout(t, n, marks, h, id) == {i \in Marked(t, n, marks, h) : t[i].about = id}

marker_comment_exists(t, n, marks, h) == Marked(t, n, marks, h) # {}

Latest(S) == CHOOSE i \in S : \A j \in S : j <= i

(* 0 stands for "no dated marker".                                         *)
trusted_marker_time(t, n, marks, h) ==
    IF Marked(t, n, marks, h) = {} THEN 0 ELSE Latest(Marked(t, n, marks, h))

-----------------------------------------------------------------------------
(* The result stream: [at, head, kind, source].                            *)

(* The commit a Codex clean comment names, resolved by GitHub, or NoHead.  *)
clean_comment_commitish(e) ==
    IF e.via = "comment" /\ e.by = Codex /\ codex_comment_kind(e.body) = "clean"
      THEN clean_verdict_commitish(e.body) ELSE NoHead

clean_comment_head(e) ==
    IF clean_comment_commitish(e) \in Gone THEN NoHead ELSE clean_comment_commitish(e)

(* A round was consumed, at a head that cannot be told.                    *)
unresolved(commitish) == 0 - commitish

(* A clean body with inline findings is a findings review.                 *)
review_kind(e) ==
    IF clean_verdict_binds_head(e.body, e.head) /\ e.badges = <<>>
      THEN "clean" ELSE "findings"

IsReview(e) == e.via = "review" /\ e.by = Codex /\ ~is_quota_refusal_body(e.body)

substitute_accepted(e) ==
    substitute_verdict(e) /\ e.by = Trusted /\ e.arg # "malformed"

codex_result_events(t, n) ==
    {[at |-> i, head |-> t[i].head, kind |-> review_kind(t[i]), source |-> "codex"] :
        i \in {i \in 1 .. n : IsReview(t[i])}}
    \cup
    {[at |-> i, kind |-> "clean", source |-> "codex",
      head |-> IF clean_comment_head(t[i]) # NoHead THEN clean_comment_head(t[i])
               ELSE unresolved(clean_comment_commitish(t[i]))] :
        i \in {i \in 1 .. n : clean_comment_commitish(t[i]) # NoHead}}
    \cup
    {[at |-> i, head |-> t[i].head, kind |-> t[i].arg, source |-> "substitute"] :
        i \in {i \in 1 .. n : substitute_accepted(t[i])}}

result_heads_from_events(events) == {e.head : e \in events}

codex_result_heads(t, n) == result_heads_from_events(codex_result_events(t, n))

latest_result_by_head(events, h) ==
    LET mine == {e \in events : e.head = h}
    IN  IF mine = {} THEN NoResult
        ELSE CHOOSE e \in mine : \A f \in mine : f.at <= e.at

result_round_for_head(heads, h) == Cardinality(heads \cup {h})

\* A fault: the kinds are compared, not the results.
SameKind(snapshot, live) ==
    \/ snapshot = live
    \/ NoResult \notin {snapshot, live} /\ snapshot.kind = live.kind

(* Identity, time and kind of a result are those of its position.          *)
result_state_unchanged(snapshot, live) == snapshot = live

-----------------------------------------------------------------------------
(* The verdict that stands at a head, for the scheduled leg.               *)

exact_head_codex_reviews(t, n, h) == {i \in 1 .. n : IsReview(t[i]) /\ t[i].head = h}

\* A fault: only what Codex says is a verdict.
StandingByCodex(t, n, h) ==
    LET stamps == exact_head_codex_reviews(t, n, h)
                  \cup {i \in 1 .. n : clean_comment_head(t[i]) = h}
    IN  IF stamps = {} THEN 0 ELSE Latest(stamps)

standing_verdict_time(t, n, h) ==
    LET stamps == exact_head_codex_reviews(t, n, h)
                  \cup {i \in 1 .. n : clean_comment_head(t[i]) = h}
                  \cup {i \in 1 .. n : substitute_accepted(t[i]) /\ t[i].head = h}
    IN  IF stamps = {} THEN 0 ELSE Latest(stamps)

(* A later findings review resolves nothing: what stands is everything     *)
(* since the latest CLEAN.                                                 *)
same_head_findings_reviews_since_clean(t, n, h) ==
    {i \in exact_head_codex_reviews(t, n, h) :
        \A e \in codex_result_events(t, n) :
            e.head = h /\ e.kind = "clean" => e.at < i}

standing_findings(t, n, h) ==
    {i \in same_head_findings_reviews_since_clean(t, n, h) : t[i].badges # <<>>}

standing_substitute_findings(t, n, h) ==
    {i \in 1 .. n : substitute_accepted(t[i]) /\ t[i].head = h /\ t[i].arg = "findings"}

-----------------------------------------------------------------------------
(* The base a head was reviewed against.  The first pin of a head wins.    *)

head_base_recorded(t, n, h) == marker_comment_exists(t, n, "head-base", h)

recorded_head_base_ref(t, n, h) ==
    LET pins == Marked(t, n, "head-base", h)
    IN  t[CHOOSE i \in pins : \A j \in pins : i <= j].arg

stale_base_ref_for_closure(t, n, h, live_base) ==
    head_base_recorded(t, n, h) /\ recorded_head_base_ref(t, n, h) # live_base

base_retarget_after(t, n, verdict_at) ==
    \E i \in 1 .. n : t[i].via = "base" /\ i > verdict_at

-----------------------------------------------------------------------------
(* Who finds.  A refusal stands until Codex says anything else.            *)

CodexSpoke(t, n) == {i \in 1 .. n : t[i].via \in {"review", "comment"} /\ t[i].by = Codex}

quota_refusal_is_latest_codex_signal(t, n) ==
    CodexSpoke(t, n) # {} /\ is_quota_refusal_body(t[Latest(CodexSpoke(t, n))].body)

(* The meter reads "absent", "below" or "at" the threshold.                *)
find_half_route(t, n, meter) ==
    IF quota_refusal_is_latest_codex_signal(t, n) \/ meter = "at"
      THEN "substitute" ELSE "codex"

(* A gate records the round bound it was posted under; the form that       *)
(* recorded none (0) is honoured.                                          *)
Legacy == 0

exhaustion_marker_state(t, n, h) ==
    LET bounds == {t[i].about : i \in Marked(t, n, "gate", h)}
    IN  CASE bounds \cap {MaxRounds, Legacy} # {} -> "terminal"
          [] bounds = {} -> "absent"
          [] OTHER -> "stale-policy"

Dispositions == {"product-gate", "noise", "hold", "skip"}

head_disposed_after(t, n, h, verdict_at) ==
    \E kind \in Dispositions : trusted_marker_time(t, n, kind, h) >= verdict_at

(* The chase asks for testimony once more, then says that none came.       *)
retrospective_requested_at(t, n, h) == trusted_marker_time(t, n, "request", h)

retrospective_chase_attempts(t, n, h) ==
    IF marker_comment_exists(t, n, "chase-2", h) THEN 2
    ELSE IF marker_comment_exists(t, n, "chase-1", h) THEN 1 ELSE 0

(* The delivery is the retrospective itself: anyone may post it.           *)
retrospective_delivered(t, n, h) ==
    \E i \in 1 .. n : t[i].via = "marker" /\ t[i].marks = "delivered" /\ t[i].head = h
=============================================================================
