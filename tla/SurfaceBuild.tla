---------------------------- MODULE SurfaceBuild ----------------------------
(***************************************************************************)
(* The first stage of the Python surface compiler (py/morphe_surface/      *)
(* build.py, resolve.py, refs.py) and the tables of its second (emit.py):  *)
(* a schema and data become a tree of surface nodes, whatever the schema   *)
(* is, even one that goes round.                                           *)
(*                                                                         *)
(* Schemas and values are those of SourceSurface; a schema node may also   *)
(* have the `strategy' of its hint and, on an object, the signed `order'   *)
(* of its fields.  A surface node is                                       *)
(*   [path, strategy, value (what it shows), children, items],             *)
(* with, as its children, the fields of a record or the heads of a table.  *)
(***************************************************************************)
EXTENDS SourceSurface

CONSTANTS
    MAX_DEPTH,   \* at which a record is a link to itself (6 in build.py)
    Collation    \* every name of a field, a sequence, in the order of RFC 8785

LOCAL INSTANCE SequencesExt
LOCAL INSTANCE FiniteSetsExt

Void == [kind |-> "void", hint |-> "none"]       \* the schema {}
Missing == [is |-> "atom", type |-> "null", hidden |-> "no"]
Blank == [is |-> "blank"]                        \* a node that shows no value

-----------------------------------------------------------------------------
(* The order of fields.  Signing canonicalizes the members of an object,   *)
(* so the order is stamped into the schema, as an array, before.           *)

KeysOf(props) == [i \in DOMAIN props |-> props[i][1]]
Sorted(names) == SelectSeq(Collation, LAMBDA n : n \in names)
PropsInOrder(s, names) == [i \in DOMAIN names |-> <<names[i], PropOf(s, names[i])>>]

(* As it is signed, and as it arrives.                                     *)
RECURSIVE _stamp_property_order(_)
_stamp_property_order(s) ==
    CASE s.kind = "obj" ->
           LET stamped == [s EXCEPT !.props =
                             [i \in DOMAIN @ |-> <<@[i][1], _stamp_property_order(@[i][2])>>]]
               node == [f \in DOMAIN s \cup {"order"} |->
                          IF f = "order" THEN KeysOf(s.props) ELSE stamped[f]]
           IN  [node EXCEPT !.props = PropsInOrder(stamped, Sorted(Declared(s)))]
      [] s.kind \in {"arr", "map"} -> [s EXCEPT !.of = _stamp_property_order(@)]
      [] s.kind \in {"tup", "any"} ->
           [s EXCEPT !.of = [i \in DOMAIN @ |-> _stamp_property_order(@[i])]]
      [] OTHER -> s

(* Each known name of the signed order once, then the rest; without one,   *)
(* as they come.                                                           *)
_property_items(s, order) ==
    IF s.kind # "obj" THEN <<>>
    ELSE IF order = {} THEN s.props
    ELSE LET known == FoldLeft(LAMBDA acc, n : IF n \in Declared(s) \ ToSet(acc) THEN Append(acc, n) ELSE acc,
                               <<>>, CHOOSE o \in order : TRUE)
         IN  PropsInOrder(s, known \o Sorted(Declared(s) \ ToSet(known)))

-----------------------------------------------------------------------------
(* What a node is.                                                         *)

RECURSIVE resolve_ref(_, _)
resolve_ref(s, D) == IF s.kind = "ref" THEN resolve_ref(_resolve_local_ref(s, D), D) ELSE s

(* A union of one and null is that one.                                    *)
unwrap_nullable(s, D) ==
    IF s.kind = "any" /\ Len(NonNull(s)) = 1 /\ Len(s.of) > 1
      THEN resolve_ref(NonNull(s)[1], D)
      ELSE s

Marked(s) == s.hint # "none" \/ DOMAIN s \cap {"strategy", "order"} # {}

StrategyHint(s) == IF "strategy" \in DOMAIN s THEN s.strategy ELSE "none"
OrderHint(s) == IF "order" \in DOMAIN s THEN {s.order} ELSE {}

\* A fault: a field's own hints leave nothing of the class's.
HintsReplaceTheClass(s, t) ==
    LET own == IF Marked(s) THEN s ELSE t
    IN  [strategy |-> StrategyHint(own), hidden |-> own.hint = "hidden", order |-> OrderHint(own)]

(* A field's own hints stand over the class's, but for what it hides and   *)
(* for its order, which it does not undo by saying nothing of them.        *)
_hint_for(s, t) ==
    [strategy |-> StrategyHint(IF Marked(s) THEN s ELSE t),
     hidden |-> (IF s.hint # "none" THEN s.hint ELSE t.hint) = "hidden",
     order |-> IF OrderHint(s) # {} THEN OrderHint(s) ELSE OrderHint(t)]

_hidden(s, D) == _hint_for(s, resolve_ref(s, D)).hidden

IsObject(s) == s.kind \in {"obj", "map", "closed"}

_flat_record(s, D) ==
    /\ s.kind = "obj" /\ s.props # <<>>
    /\ \A i \in DOMAIN s.props :
         LET sub == resolve_ref(s.props[i][2], D)
         IN  ~IsObject(sub) /\ sub.kind \notin {"arr", "tup"}

resolve_strategy(s, hint, D) ==
    LET t == unwrap_nullable(s, D)
    IN  CASE hint.strategy # "none" -> hint.strategy
          [] hint.strategy = "none" /\ IsObject(t) -> "record-card"
          [] hint.strategy = "none" /\ t.kind \in {"arr", "tup"} ->
                IF t.kind = "arr" /\ _flat_record(resolve_ref(t.of, D), D) THEN "table"
                ELSE "card-stack"
          [] hint.strategy = "none" /\ t.kind = "atom" /\ t.type # "null" -> "scalar"
          [] OTHER -> "diagnostic-node"

-----------------------------------------------------------------------------
(* The tree.  A context is a path, a depth and the classes it is within.   *)

child(ctx, key, sid) ==
    [path |-> Append(ctx.path, key), depth |-> ctx.depth + 1, seen |-> ctx.seen \cup sid]

item(ctx, i) == [ctx EXCEPT !.path = Append(@, i), !.depth = @ + 1]

SurfaceNode(ctx, strategy, value, children, items) ==
    [path |-> ctx.path, strategy |-> strategy, value |-> value,
     children |-> children, items |-> items]

_ref_id(s) == IF s.kind = "ref" THEN {s.name} ELSE {}

_get(v, key) == IF v.is = "dict" /\ key \in DOMAIN v.at THEN v.at[key] ELSE Missing

ItemsOf(t) == IF t.kind = "arr" THEN t.of ELSE Void

RowsOf(v) == IF v.is = "list" THEN v.at ELSE <<>>

(* Containers, whose fields are their children.                            *)
RecordStrategies == {"record-card", "collapsed-section", "entity-header", "key-value", "breakdown"}
_COLLECTION == {"table", "card-stack", "kpi-row", "trail"}

VisibleItems(s, hint, D) ==
    SelectSeq(_property_items(s, hint.order), LAMBDA kv : ~_hidden(kv[2], D))

(* The heads of a table: the fields that its rows will show.               *)
_table_columns(s, ctx, D) ==
    LET t == resolve_ref(s, D)
        kvs == VisibleItems(t, _hint_for(s, t), D)
    IN  [i \in DOMAIN kvs |-> SurfaceNode(child(ctx, kvs[i][1], {}), "scalar", Blank, <<>>, <<>>)]

_coerce_number(v) == v.is = "atom" /\ v.type = "num"

(* A number that is none is shown as it is; as a part of a whole it is not *)
(* shown at all.                                                           *)
_leaf(strategy, v, ctx) ==
    CASE strategy = "number" ->
           SurfaceNode(ctx, IF _coerce_number(v) THEN "number" ELSE "scalar", v, <<>>, <<>>)
      [] strategy = "progress" ->
           SurfaceNode(ctx, strategy, IF _coerce_number(v) THEN v ELSE Blank, <<>>, <<>>)
      [] strategy \in {"linked-ref", "diagnostic-node"} -> SurfaceNode(ctx, strategy, Blank, <<>>, <<>>)
      [] OTHER -> SurfaceNode(ctx, strategy, v, <<>>, <<>>)

(* A row of figures shows the value of each, and what is no figure as that. *)
_kpi_cell(v, ctx) ==
    IF v.is # "dict" THEN SurfaceNode(ctx, "diagnostic-node", Blank, <<>>, <<>>)
    ELSE _leaf("number", _get(v, "value"), ctx)

RECURSIVE _build(_, _, _, _), _record(_, _, _, _), _collection(_, _, _, _)

(* The visible fields of an object, in their order, built inside its class. *)
_record(s, v, ctx, D) ==
    LET t == unwrap_nullable(resolve_ref(s, D), D)
        kvs == VisibleItems(t, _hint_for(s, t), D)
    IN  [i \in DOMAIN kvs |->
           _build(kvs[i][2], _get(v, kvs[i][1]), child(ctx, kvs[i][1], _ref_id(s)), D)]

(* The rows of an array; a tuple has no schema for them.                   *)
_collection(s, v, ctx, D) ==
    LET t == unwrap_nullable(resolve_ref(s, D), D)
        rows == RowsOf(v)
    IN  [i \in DOMAIN rows |-> _build(ItemsOf(t), rows[i], item(ctx, i), D)]

(* A record that is too deep, or inside its own class, is a link.          *)
_build(s, v, ctx, D) ==
    LET t == unwrap_nullable(resolve_ref(s, D), D)
        strategy == resolve_strategy(t, _hint_for(s, t), D)
        cut == ctx.depth >= MAX_DEPTH \/ _ref_id(s) \cap ctx.seen # {}
        Built(as, children, items) == SurfaceNode(ctx, as, Blank, children, items)
    IN  CASE strategy \in RecordStrategies /\ cut -> Built("linked-ref", <<>>, <<>>)
          [] strategy \in RecordStrategies /\ ~cut ->
               Built(IF strategy = "record-card" /\ ctx.depth > 0 THEN "collapsed-section" ELSE strategy,
                     IF strategy = "breakdown" /\ t.kind \in {"arr", "tup"}
                       THEN _collection(s, v, ctx, D) ELSE _record(s, v, ctx, D),
                     <<>>)
          [] strategy = "kpi-row" ->
               Built(strategy, <<>>, [i \in DOMAIN RowsOf(v) |-> _kpi_cell(v.at[i], item(ctx, i))])
          [] strategy \in _COLLECTION \ {"kpi-row"} ->
               Built(strategy,
                     IF strategy = "table" THEN _table_columns(ItemsOf(t), ctx, D) ELSE <<>>,
                     _collection(s, v, ctx, D))
          [] OTHER -> _leaf(strategy, v, ctx)

build_surface(s, v, D) == _build(s, v, [path |-> <<>>, depth |-> 0, seen |-> {}], D)

-----------------------------------------------------------------------------
(* A table, as it is emitted: a head for every field, and a cell of every  *)
(* row under each head.  A row that has no fields is its own first cell.   *)

Width(rows) == Max({Len(rows[i].children) : i \in DOMAIN rows})

_columns_from_rows(rows) ==
    [j \in 1 .. Width(rows) |->
       LET wide == {i \in DOMAIN rows : j <= Len(rows[i].children)}
       IN  rows[Min(wide)].children[j]]

_table(n) ==
    LET inferred == _columns_from_rows(n.items)
        columns == n.children \o SubSeq(inferred, Len(n.children) + 1, Len(inferred))
    IN  IF columns = <<>> THEN <<n>> ELSE columns

_table_row(row, column_count) ==
    LET cells == IF row.children = <<>> THEN <<row>> ELSE row.children
    IN  cells \o [i \in 1 .. column_count - Len(cells) |-> Blank]

-----------------------------------------------------------------------------
(* What a reader of a surface asks of it.                                  *)

RECURSIVE Nodes(_)
Nodes(n) ==
    LET parts == ToSet(n.items) \cup IF n.strategy = "table" THEN {} ELSE ToSet(n.children)
    IN  {n} \cup UNION {Nodes(m) : m \in parts}

RECURSIVE DepthOf(_)
DepthOf(v) == IF v.is = "atom" \/ DOMAIN v.at = {} THEN 0
              ELSE 1 + Max({DepthOf(v.at[n]) : n \in DOMAIN v.at})

(* The positions of the schema on the way to a leaf, each with what it is  *)
(* and the rest of the way, as far as the schema has any.                  *)
RECURSIVE Way(_, _, _)
Way(s, path, D) ==
    LET t == unwrap_nullable(resolve_ref(s, D), D)
        on == CASE path # <<>> /\ t.kind = "obj" ->
                     IF Head(path) \in Declared(t) THEN Way(PropOf(t, Head(path)), Tail(path), D) ELSE {}
                [] path # <<>> /\ t.kind = "arr" -> Way(t.of, Tail(path), D)
                [] OTHER -> {}
    IN  {[node |-> t, strategy |-> _hint_for(s, t).strategy, rest |-> path]} \cup on

(* No visible property leads there: it is hidden, or kept under a key of   *)
(* its own, which the schema does not name.                                *)
Unlisted(w, D) ==
    /\ w.rest # <<>> /\ w.node.kind = "obj"
    /\ Head(w.rest) \notin Declared(w.node) \/ _hidden(PropOf(w.node, Head(w.rest)), D)

(* Two ways in which a surface loses what its model says.  An object whose *)
(* entries no property names, only a schema of their values, is built of   *)
(* its properties; and a hint that has no reading of its node's shape, a   *)
(* table of what is no list or a record of what is none, finds nothing.    *)
IsBare(w) == w.rest # <<>> /\ w.node.kind \in {"map", "closed"}

IsMisread(w) ==
    LET kind == w.node.kind
    IN  \/ w.strategy \in _COLLECTION /\ kind \notin {"arr", "tup"}
        \/ w.strategy \in RecordStrategies /\ ~IsObject(w.node)
           /\ ~(w.strategy = "breakdown" /\ kind \in {"arr", "tup"})

Leaves(v) == {p \in Places(v) : At(v, p).is = "atom"}

(* What a node shows in the place of all that is below it.                 *)
StandIns == {"linked-ref", "diagnostic-node", "progress", "kpi-row"}

Shown(surface, v, path) ==
    \E n \in Nodes(surface) :
        /\ IsPrefix(n.path, path)
        /\ n.strategy \in StandIns \/ n.value = At(v, n.path)

(* The cells of a row stand under the heads of their fields.               *)
IsAligned(n) ==
    \A row \in ToSet(n.items) :
        LET heads == _table(n)
            cells == _table_row(row, Len(heads))
        IN  /\ Len(cells) = Len(heads)
            /\ \A i \in DOMAIN row.children : Last(row.children[i].path) = Last(heads[i].path)

(* The surface of a model shows all of it, but for the two known losses.   *)
(* What the data says is on the surface or below a link or an alert that   *)
(* stands for it, unless no property of the schema names it, or it is in a *)
(* bare object or below a hint that misreads its shape: of those two the   *)
(* compiler says nothing, though it is to show an alert (ADR-0014, D8).  A *)
(* schema that goes round is cut at the depth of the data and MAX_DEPTH; a *)
(* table's cells are under their heads; and the fields keep the order of   *)
(* their author, though what is signed has lost it.                        *)
SurfaceShowsAll(s, D, v) ==
    LET surface == build_surface(s, v, D)
        stamped == [n \in DOMAIN D |-> _stamp_property_order(D[n])]
    IN  /\ \A p \in Leaves(v) :
             \/ At(v, p).type = "null" \/ Shown(surface, v, p)
             \/ \E w \in Way(s, p, D) : Unlisted(w, D) \/ IsBare(w) \/ IsMisread(w)
        /\ \A n \in Nodes(surface) :
             /\ Len(n.path) <= MAX_DEPTH + DepthOf(v)
             /\ n.strategy = "table" /\ n.items # <<>> => IsAligned(n)
        /\ build_surface(_stamp_property_order(s), v, stamped) = surface
=============================================================================
