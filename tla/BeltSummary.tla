---------------------------- MODULE BeltSummary ----------------------------
(***************************************************************************)
(* What the belt says of a pull request once it is over                    *)
(* (.github/scripts/review_loop.py): its rounds in order, what each of     *)
(* them said, and the summary that its closure is measured by.  All of it  *)
(* is read from the first n entries of the record, those that were there   *)
(* when the pull request closed; the merge digest reads the same rounds.   *)
(***************************************************************************)
EXTENDS BeltResults

(* Rounds are numbered by the first result of their head.                  *)
FirstAt(events, h) ==
    CHOOSE i \in {e.at : e \in events} :
        /\ \E e \in events : e.at = i /\ e.head = h
        /\ \A e \in events : e.head = h => i <= e.at

round_number(events, h) ==
    Cardinality({g \in result_heads_from_events(events) :
                   FirstAt(events, g) <= FirstAt(events, h)})

substitutes_at(t, n, h) == {i \in 1 .. n : substitute_accepted(t[i]) /\ t[i].head = h}

(* A substitute's marker states its count; its prose is not parsed.        *)
_substitute_history_by_head(t, n, h) == t[Latest(substitutes_at(t, n, h))].about

(* The inline findings of the latest Codex review of a head.               *)
findings_by_head(t, n, h) == Len(t[Latest(exact_head_codex_reviews(t, n, h))].badges)

\* A fault: a round's findings are Codex's wherever Codex reviewed the head.
CodexFirst(t, n, h, winner) ==
    CASE winner.kind = "clean" -> 0
      [] winner.kind = "findings" /\ exact_head_codex_reviews(t, n, h) = {} ->
            _substitute_history_by_head(t, n, h)
      [] OTHER -> findings_by_head(t, n, h)

(* The count is read from the record of the producer that won the head.    *)
round_count(t, n, h, winner) ==
    CASE winner.kind = "clean" -> 0
      [] winner.kind = "findings" /\ ( winner.source = "substitute"
                                       \/ exact_head_codex_reviews(t, n, h) = {} ) ->
            _substitute_history_by_head(t, n, h)
      [] OTHER -> findings_by_head(t, n, h)

(* A round whose head cannot be told was consumed and closed nothing.      *)
round_history(t, n) ==
    LET events == codex_result_events(t, n)
    IN  {[round |-> round_number(events, h), head |-> h,
          closed_review |-> latest_result_by_head(events, h).kind = "clean" /\ h > 0,
          count |-> round_count(t, n, h, latest_result_by_head(events, h))] :
            h \in result_heads_from_events(events)}

-----------------------------------------------------------------------------
rounds_to_clean(history) ==
    LET closing == {e.round : e \in {e \in history : e.closed_review}}
    IN  IF closing = {} THEN NoResult ELSE CHOOSE k \in closing : \A j \in closing : k <= j

gates(t, n) ==
    {i \in 1 .. n : t[i].via = "marker" /\ t[i].by = Trusted /\ t[i].marks = "gate"}

exhaustion_gate_recorded(t, n) == gates(t, n) # {}

(* The bound of the gate that ended it; a legacy gate recorded none.       *)
exhaustion_marker_bound(t, n) ==
    LET dated == {i \in gates(t, n) : t[i].about # Legacy}
    IN  IF dated = {} THEN NoResult ELSE t[Latest(dated)].about

(* An exempt diff over a real history is not exempt: the belt reviewed it. *)
belt_exempt(loop_exempt, history) == loop_exempt /\ history = {}

pr_belt_summary(t, n, loop_exempt) ==
    LET history == round_history(t, n)
    IN  [belt_exempt |-> belt_exempt(loop_exempt, history),
         rounds |-> Cardinality(history),
         rounds_to_clean |-> rounds_to_clean(history),
         exhausted |-> exhaustion_gate_recorded(t, n),
         exhausted_max_rounds |-> exhaustion_marker_bound(t, n)]
=============================================================================
