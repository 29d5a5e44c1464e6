----------------------------- MODULE HomePanels -----------------------------
(***************************************************************************)
(* The viewer's composed home: page loads that admit one pane per declared *)
(* source, and the in-process cache of each panel's last good compile      *)
(* (viewer/src/home-compose.server.ts, home-cache.server.ts).              *)
(*                                                                         *)
(* A page load visits the roster in order and awaits one pane after the    *)
(* other.  Other loads run at every await: between the source's answer and *)
(* the end of admission, and between panels.  Everything else, the cache   *)
(* writes and the fallback included, runs without an await.                *)
(*                                                                         *)
(* A `variant` stands for all that distinguishes two requests for the same *)
(* panel: the dialect, the board's link policy and the effective delivery  *)
(* request.  A failure is any of the pipeline's refusals: unreachable,     *)
(* timed out, refused status, trust gate, grammar gate, dialect gate.      *)
(***************************************************************************)
EXTENDS Naturals, SequencesExt

CONSTANTS
    Loads,           \* page loads that may be under way at a time
    Roster,          \* the panels, in the order of the board's sources
    Variants,        \* what distinguishes requests for one panel
    MaxEntries,      \* MAX_CACHE_ENTRIES
    MaxVersion,      \* bound of the model: publications in a run
    None             \* no answer yet, or no load

Panels == {Roster[k] : k \in 1 .. Len(Roster)}
Keys == Panels \X Variants
Versions == 0 .. MaxVersion
Tree == [panel : Panels, variant : Variants, version : Versions]

ASSUME HomeAssumption ==
    /\ Roster \in Seq(Panels)
    /\ \A j, k \in 1 .. Len(Roster) : Roster[j] = Roster[k] => j = k
    /\ MaxEntries \in Nat \ {0}
    /\ MaxVersion \in Nat
    /\ None \notin Tree \cup Variants \cup Keys

VARIABLES
    version,         \* how often a source has published something newer
    cache,           \* CACHE in insertion order, as [key, tree]
    variant,         \* [Loads -> the request's variant, or None]
    answer,          \* [Loads -> the tree its source answered with, or None]
    views,           \* [Loads -> the views pushed so far]
    recency,         \* history: every key ever cached, by its last use
    lastAdmitted     \* history: [Keys -> the tree last admitted, or None]

request == <<variant, answer, views>>
history == <<recency, lastAdmitted>>
vars == <<version, cache, request, history>>

-----------------------------------------------------------------------------
(* home-cache.server.ts.                                                   *)

\* A fault: the cache key leaves out what distinguishes the requests.
KeyOfPanel(q, panel) == <<panel, CHOOSE v \in Variants : TRUE>>

Key(q, panel) == <<panel, variant[q]>>

\* The entry of a key: none, or one.
Entries(k) == {n \in DOMAIN cache : cache[n].key = k}

\* A Map's delete: its one entry with the key, if it has one, is gone.
Without(seq, at) == IF at = {} THEN seq ELSE RemoveAt(seq, CHOOSE n \in at : TRUE)

\* A fault: a read leaves the entry where it was inserted.
NotRefreshed(k, n) == cache

\* readLastGood re-inserts what it finds at the recent end.
Refreshed(k, n) == Append(Without(cache, Entries(k)), cache[n])

\* A fault: the entry the cache has is kept.
FirstGood(k, tree) ==
    IF Entries(k) # {} THEN cache ELSE Append(cache, [key |-> k, tree |-> tree])

Inserted(k, tree) == Append(Without(cache, Entries(k)), [key |-> k, tree |-> tree])

\* A fault: one entry too many is kept.
BoundedLate(entries) ==
    IF Len(entries) > MaxEntries + 1
    THEN SubSeq(entries, Len(entries) - MaxEntries, Len(entries))
    ELSE entries

\* writeLastGood drops the oldest entries beyond the bound.
Bounded(entries) ==
    IF Len(entries) > MaxEntries
    THEN SubSeq(entries, Len(entries) - MaxEntries + 1, Len(entries))
    ELSE entries

\* The same recency, of all the keys there have been.
UsedLast(k) == Append(Without(recency, {n \in DOMAIN recency : recency[n] = k}), k)

-----------------------------------------------------------------------------
Init ==
    /\ version = 0
    /\ cache = <<>>
    /\ variant = [q \in Loads |-> None]
    /\ answer = [q \in Loads |-> None]
    /\ views = [q \in Loads |-> <<>>]
    /\ recency = <<>>
    /\ lastAdmitted = [k \in Keys |-> None]

Loading(q) == variant[q] # None
Whole(q) == Loading(q) /\ Len(views[q]) = Len(Roster)
Visiting(q) == Loading(q) /\ Len(views[q]) < Len(Roster)
Panel(q) == Roster[Len(views[q]) + 1]

\* A source signs and publishes something newer.
Publish ==
    /\ version < MaxVersion
    /\ version' = version + 1
    /\ UNCHANGED <<cache, request, history>>

BeginLoad(q, v) ==
    /\ ~Loading(q)
    /\ variant' = [variant EXCEPT ![q] = v]
    /\ UNCHANGED <<version, cache, answer, views, history>>

\* The fetch is answered; parsing, the gates and the receipt are awaited yet.
Answer(q) ==
    /\ Visiting(q)
    /\ answer[q] = None
    /\ answer' = [answer EXCEPT ![q] =
         [panel |-> Panel(q), variant |-> variant[q], version |-> version]]
    /\ UNCHANGED <<version, cache, variant, views, history>>

AdmittedFor(tree) == <<tree.panel, tree.variant>>

\* Of a view's tree only whose it is matters: the panel and variant it was
\* admitted for.
Push(q, kind, of) ==
    /\ views' = [views EXCEPT ![q] = Append(@, [panel |-> Panel(q), kind |-> kind, of |-> of])]
    /\ answer' = [answer EXCEPT ![q] = None]

\* The pane is admitted: it is cached, and the panel is live.
Admit(q) ==
    /\ Visiting(q)
    /\ answer[q] # None
    /\ cache' = Bounded(Inserted(Key(q, Panel(q)), answer[q]))
    /\ recency' = UsedLast(Key(q, Panel(q)))
    /\ lastAdmitted' = [lastAdmitted EXCEPT ![<<Panel(q), variant[q]>>] = answer[q]]
    /\ Push(q, "live", AdmittedFor(answer[q]))
    /\ UNCHANGED <<version, variant>>

\* A fault: an unavailable cell is left out.
LeaveOut(q) ==
    /\ answer' = [answer EXCEPT ![q] = None]
    /\ UNCHANGED <<views, cache, recency>>

\* Nothing cached: a quiet unavailable cell.
PushDead(q) ==
    /\ Push(q, "dead", None)
    /\ UNCHANGED <<cache, recency>>

\* The load of this pane threw, before or after the source answered.
FallBack(q) ==
    /\ Visiting(q)
    /\ LET k == Key(q, Panel(q)) IN
         \/ \E n \in Entries(k) :
              /\ cache' = Refreshed(k, n)
              /\ recency' = UsedLast(k)
              /\ Push(q, "stale", AdmittedFor(cache[n].tree))
         \/ Entries(k) = {} /\ PushDead(q)
    /\ UNCHANGED <<version, variant, lastAdmitted>>

\* The page is rendered and the request is over.
EndLoad(q) ==
    /\ Whole(q)
    /\ variant' = [variant EXCEPT ![q] = None]
    /\ views' = [views EXCEPT ![q] = <<>>]
    /\ UNCHANGED <<version, cache, answer, history>>

Next ==
    \/ Publish
    \/ \E q \in Loads :
         \/ \E v \in Variants : BeginLoad(q, v)
         \/ Answer(q)
         \/ Admit(q)
         \/ FallBack(q)
         \/ EndLoad(q)

\* A pane either settles or is aborted by its timeout of four seconds.
Fairness == \A q \in Loads : WF_vars(Admit(q) \/ FallBack(q))

Spec == Init /\ [][Next]_vars /\ Fairness

-----------------------------------------------------------------------------
(* Properties.                                                             *)

View == [panel : Panels, kind : {"live", "stale", "dead"}, of : Keys \cup {None}]

\* Every variable has its type, and the cache its bound.
TypeOK ==
    /\ version \in Versions
    /\ cache \in Seq([key : Keys, tree : Tree])
    /\ Len(cache) <= MaxEntries
    /\ variant \in [Loads -> Variants \cup {None}]
    /\ answer \in [Loads -> Tree \cup {None}]
    /\ views \in [Loads -> Seq(View)]
    /\ recency \in Seq(Keys)
    /\ lastAdmitted \in [Keys -> Tree \cup {None}]

\* What the cache keeps is the last tree admitted for that panel, dialect,
\* link policy and request, however the page loads that admit it overlap:
\* no load leaves its tree under another's key ("that panel's last
\* successfully-admitted compile", home-cache.server.ts:5).
CacheIsLastGood ==
    \A n \in DOMAIN cache : cache[n].tree = lastAdmitted[cache[n].key]

\* The cache is exactly the most recently used keys, in order of use: a key
\* is only lost to MaxEntries others used since ("LRU bound", line 12).
CacheIsMostRecent ==
    LET n == Len(recency)
        m == Len(cache) IN
        /\ m = IF n < MaxEntries THEN n ELSE MaxEntries
        /\ \A k \in 1 .. m : cache[k].key = recency[n - m + k]

\* A page never shows a tree of another panel, nor one admitted under another
\* dialect, link policy or request, live or stale, whatever loads ran in
\* between ("A stale tree is therefore reused only for the same producer
\* path/filter and temporal compilation policy", home-cache.server.ts:11).
PagesAreOwn ==
    \A q \in Loads : \A k \in DOMAIN views[q] :
        LET view == views[q][k] IN
            /\ view.panel = Roster[k]
            /\ view.of # None => view.of = <<Roster[k], variant[q]>>

\* Every page load comes to a page with a view of every panel, whatever the
\* sources do ("One dead kernel never blanks or 500s the home").
EveryPageIsWhole == \A q \in Loads : Loading(q) ~> Whole(q)
=============================================================================
