--------------------------- MODULE CodexVerdicts ---------------------------
(***************************************************************************)
(* What the review belt (.github/scripts/review_loop.py) reads out of the  *)
(* text of a Codex review or comment: its kind, whether it is a clean      *)
(* verdict, and the head that a clean verdict names.                       *)
(*                                                                         *)
(* A body is a record of what the parsers tell apart:                      *)
(*   opens    how it starts: "connector" (the connector's clean sentence), *)
(*            "heading" (a verdict heading), "refusal", "error",           *)
(*            "summary" (a task report) or "prose";                        *)
(*   phrase   what the first sentence under a heading says: "clean",       *)
(*            "exact" (clean at an exact head) or "other", "" for none;    *)
(*   ends     how that phrase ends: "stop", "more" (an ellipsis or more    *)
(*            words carry the sentence on), "" for the end of the line;    *)
(*   exact    the head an exact-head sentence names;                       *)
(*   footer   the commit of a "Reviewed commit" footer;                    *)
(*   links    the commits its permalinks into this repository pin.         *)
(***************************************************************************)
EXTENDS Naturals, FiniteSets

CONSTANT NoHead      \* no commit is named

(* _opening_sentence and _asserted_sentence: the first sentence without    *)
(* its emphasis and its stop.  What carries the sentence on withholds it.  *)
_asserted_sentence(body) == IF body.ends = "more" THEN "other" ELSE body.phrase

is_quota_refusal_body(body) == body.opens = "refusal"

task_verdict_is_clean(body) ==
    body.opens = "heading" /\ _asserted_sentence(body) \in {"clean", "exact"}

task_verdict_clean_head(body) ==
    IF body.opens = "heading" /\ _asserted_sentence(body) = "exact"
      THEN body.exact ELSE NoHead

codex_comment_is_clean(body) ==
    body.opens = "connector" \/ task_verdict_is_clean(body)

(* Permalinks that pin two trees claim no single reviewed head.            *)
permalink_commit(body) ==
    IF Cardinality(body.links) = 1 THEN CHOOSE h \in body.links : TRUE ELSE NoHead

(* The sentence is the claim, the footer is appended, a permalink is one   *)
(* citation: a precedence.                                                 *)
clean_verdict_commitish(body) ==
    IF task_verdict_clean_head(body) # NoHead THEN task_verdict_clean_head(body)
    ELSE IF body.footer # NoHead THEN body.footer
    ELSE permalink_commit(body)

(* A clean sentence that names no head stands for the caller's own.        *)
clean_verdict_binds_head(body, head) ==
    /\ codex_comment_is_clean(body)
    /\ task_verdict_clean_head(body) \in {NoHead, head}

codex_comment_kind(body) ==
    CASE body.opens = "error" -> "connector-error"
      [] body.opens = "refusal" -> "quota-refusal"
      [] codex_comment_is_clean(body) -> "clean"
      [] body.opens = "heading" -> "task-verdict"
      [] body.opens = "summary" -> "task-report"
      [] OTHER -> "unknown"

(* Any commit the body points at: the first link in its text may be any.   *)
comment_commit_reference(body) ==
    IF body.footer # NoHead THEN {body.footer}
    ELSE IF body.links # {} THEN body.links ELSE {NoHead}

(* A badge P0..P3 folds to 1..3; no badge is 3.                            *)
finding_severity(badge) == IF badge \notin 0 .. 3 THEN 3 ELSE IF badge = 0 THEN 1 ELSE badge

-----------------------------------------------------------------------------
(* The bodies Codex writes in the runs.                                    *)

Says(opens, phrase, ends, exact, footer, links) ==
    [opens |-> opens, phrase |-> phrase, ends |-> ends,
     exact |-> exact, footer |-> footer, links |-> links]

FindingsBody == Says("prose", "", "", NoHead, NoHead, {})
RefusalBody == Says("refusal", "", "", NoHead, NoHead, {})
ConnectorClean(h) == Says("connector", "", "", NoHead, h, {})
ExactClean(h) == Says("heading", "exact", "stop", h, NoHead, {})
=============================================================================
