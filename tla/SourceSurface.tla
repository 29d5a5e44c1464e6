--------------------------- MODULE SourceSurface ---------------------------
(***************************************************************************)
(* The minimization of a source surface (py/morphe_surface/source.py):     *)
(* before a kernel signs a view model, what its hints hide is removed from *)
(* its serialization schema and from its data, each by a walk of its own.  *)
(*                                                                         *)
(* A schema node has one applicator, as Pydantic emits them, and a hint:   *)
(*   atom (type), obj (props, a sequence of <<name, node>>, and required), *)
(*   map (of: the schema of every value), arr (of), tup (of, a sequence),  *)
(*   any (of, the branches), ref (name, of a definition).                  *)
(* A value is an atom (type), a dict (at, [names -> value]) or a list (at, *)
(* a sequence), and carries whether its author hid it, which no walk reads:*)
(* "no", "yes" or "as a branch" of a union whose others are not.           *)
(* Definitions `D' are a function; they do not recurse.                    *)
(***************************************************************************)
EXTENDS Integers, Sequences, FiniteSets

LOCAL INSTANCE SequencesExt
LOCAL INSTANCE Functions

Dict(at) == [is |-> "dict", at |-> at, hidden |-> "no"]
List(at) == [is |-> "list", at |-> at, hidden |-> "no"]
IsNull(s) == s.kind = "atom" /\ s.type = "null"
NonNull(s) == SelectSeq(s.of, LAMBDA b : ~IsNull(b))

Refused == [is |-> "refused"]

-----------------------------------------------------------------------------
(* Which positions are hidden.                                             *)

_resolve_local_ref(s, D) == D[s.name]

(* Through references, and through a nullable to what it may hold.         *)
RECURSIVE _semantic_target(_, _)
_semantic_target(s, D) ==
    IF s.kind = "ref" THEN _semantic_target(_resolve_local_ref(s, D), D)
    ELSE IF s.kind = "any" /\ Len(NonNull(s)) = 1 THEN _semantic_target(NonNull(s)[1], D)
    ELSE s

(* An explicit hint of the position, then of what it carries, then of all  *)
(* that it could carry; a tuple's slot cannot be dropped on its own.       *)
RECURSIVE _effective_hidden(_, _)
_effective_hidden(s, D) ==
    LET t == IF s.hint # "none" THEN s ELSE _semantic_target(s, D)
    IN  CASE t.hint # "none" -> t.hint = "hidden"
          [] t.hint = "none" /\ t.kind = "arr" -> _effective_hidden(t.of, D)
          [] t.hint = "none" /\ t.kind = "tup" ->
                \E i \in DOMAIN t.of : _effective_hidden(t.of[i], D)
          [] t.hint = "none" /\ t.kind = "any" ->
                /\ NonNull(t) # <<>>
                /\ \A i \in DOMAIN NonNull(t) : _effective_hidden(NonNull(t)[i], D)
          [] OTHER -> FALSE


(* A visible union with a hidden branch may lose its value.                *)
_union_has_hidden_branch(s, D) ==
    LET u == IF s.kind = "ref" THEN _resolve_local_ref(s, D) ELSE s
    IN  u.kind = "any" /\ \E i \in DOMAIN NonNull(u) : _effective_hidden(NonNull(u)[i], D)

-----------------------------------------------------------------------------
(* Draft 2020-12, as far as these nodes go.                                *)

RECURSIVE _schema_matches(_, _, _)
_schema_matches(s, v, D) ==
    CASE s.kind = "ref" -> _schema_matches(_resolve_local_ref(s, D), v, D)
      [] s.kind = "any" -> \E i \in DOMAIN s.of : _schema_matches(s.of[i], v, D)
      [] s.kind = "atom" -> v.is = "atom" /\ v.type = s.type
      [] s.kind = "arr" ->
            v.is = "list" /\ \A i \in DOMAIN v.at : _schema_matches(s.of, v.at[i], D)
      [] s.kind = "tup" ->
            v.is = "list" /\ Len(v.at) = Len(s.of)
            /\ \A i \in DOMAIN v.at : _schema_matches(s.of[i], v.at[i], D)
      [] s.kind = "map" ->
            v.is = "dict" /\ \A n \in DOMAIN v.at : _schema_matches(s.of, v.at[n], D)
      [] s.kind = "closed" -> v.is = "dict" /\ DOMAIN v.at = {}
      [] s.kind = "obj" ->
            /\ v.is = "dict" /\ s.required \subseteq DOMAIN v.at
            /\ \A i \in DOMAIN s.props :
                 s.props[i][1] \in DOMAIN v.at =>
                   _schema_matches(s.props[i][2], v.at[s.props[i][1]], D)

_applicable_alternatives(s, v, D) == SelectSeq(s.of, LAMBDA b : _schema_matches(b, v, D))


(* Any hidden reading of a value hides it.                                 *)
_value_hidden_by_union(s, v, D) ==
    LET u == IF s.kind = "ref" THEN _resolve_local_ref(s, D) ELSE s
        readings == IF u.kind = "any" THEN _applicable_alternatives(u, v, D) ELSE <<>>
    IN  \E i \in DOMAIN readings : _effective_hidden(readings[i], D)

-----------------------------------------------------------------------------
(* The schema's walk changes definitions where they stand, once, and asks  *)
(* what is hidden of the definitions as they are by then.  It carries the  *)
(* definitions D and those that it has been in, and returns a node too.    *)

RECURSIVE _prune_schema_node(_, _), _prune_props(_, _, _), _prune_all(_, _, _)

(* The props of an object from the i-th on, in their order.                *)
_prune_props(s, i, st) ==
    IF i > Len(s.props) THEN [node |-> s, st |-> st]
    ELSE LET name == s.props[i][1]
             child == s.props[i][2]
             optional == [s EXCEPT !.required = @ \ {name}]
             kept == IF _union_has_hidden_branch(child, st.D) THEN optional ELSE s
             pruned == _prune_schema_node(child, st)
         IN  IF _effective_hidden(child, st.D)
               THEN _prune_props([optional EXCEPT !.props = RemoveAt(@, i)], i, st)
             ELSE _prune_props([kept EXCEPT !.props[i] = <<name, pruned.node>>], i + 1, pruned.st)

(* A sequence of nodes: every slot of a tuple, the visible branches.       *)
_prune_all(nodes, i, st) ==
    IF i > Len(nodes) THEN [node |-> nodes, st |-> st]
    ELSE LET pruned == _prune_schema_node(nodes[i], st)
         IN  _prune_all([nodes EXCEPT ![i] = pruned.node], i + 1, pruned.st)

_prune_schema_node(s, st) ==
    CASE s.kind = "ref" ->
           IF s.name \in st.seen THEN [node |-> s, st |-> st]
           ELSE LET r == _prune_schema_node(st.D[s.name], [st EXCEPT !.seen = @ \cup {s.name}])
                IN  [node |-> s, st |-> [r.st EXCEPT !.D[s.name] = r.node]]
      [] s.kind = "obj" -> _prune_props(s, 1, st)
      [] s.kind = "map" /\ _effective_hidden(s.of, st.D) ->
           [node |-> [kind |-> "closed", hint |-> s.hint], st |-> st]
      [] s.kind \in {"arr", "map"} /\ ~(s.kind = "map" /\ _effective_hidden(s.of, st.D)) ->
           LET r == _prune_schema_node(s.of, st)
           IN  [node |-> [s EXCEPT !.of = r.node], st |-> r.st]
      [] s.kind \in {"tup", "any"} ->
           LET of == IF s.kind = "tup" THEN s.of
                     ELSE SelectSeq(s.of, LAMBDA b : ~_effective_hidden(b, st.D))
               r == _prune_all(of, 1, st)
           IN  [node |-> [s EXCEPT !.of = r.node], st |-> r.st]
      [] OTHER -> [node |-> s, st |-> st]

-----------------------------------------------------------------------------
(* The data's walk reads the schema as it was.                             *)

(* Whether a position loses its value to its parent.                       *)
hide_value(s, v, D) == _effective_hidden(s, D) \/ _value_hidden_by_union(s, v, D)

PropOf(s, n) == s.props[CHOOSE i \in DOMAIN s.props : s.props[i][1] = n][2]
Declared(s) == {s.props[i][1] : i \in DOMAIN s.props}

RECURSIVE _prune_data_node(_, _, _)

(* Readings that disagree on what is hidden refuse the model.              *)
_prune_alternative_data(s, v, D) ==
    LET readings == _applicable_alternatives(s, v, D)
        candidates == {_prune_data_node(readings[i], v, D) : i \in DOMAIN readings}
    IN  IF Cardinality(candidates) # 1 THEN Refused ELSE CHOOSE c \in candidates : TRUE

_prune_data_node(s, v, D) ==
    CASE s.kind = "ref" -> _prune_data_node(_resolve_local_ref(s, D), v, D)
      [] s.kind = "any" -> _prune_alternative_data(s, v, D)
      [] s.kind = "obj" /\ v.is = "dict" ->
            LET kept == {n \in DOMAIN v.at :
                           n \in Declared(s) => ~hide_value(PropOf(s, n), v.at[n], D)}
            IN  [v EXCEPT !.at = [n \in kept |-> IF n \in Declared(s)
                                       THEN _prune_data_node(PropOf(s, n), v.at[n], D)
                                       ELSE v.at[n]]]
      [] s.kind = "map" /\ v.is = "dict" ->
            [v EXCEPT !.at = [n \in {n \in DOMAIN v.at : ~hide_value(s.of, v.at[n], D)} |->
                                _prune_data_node(s.of, v.at[n], D)]]
      [] s.kind = "arr" /\ v.is = "list" ->
            LET kept == SelectSeq(v.at, LAMBDA e : ~_value_hidden_by_union(s.of, e, D))
            IN  [v EXCEPT !.at = [i \in DOMAIN kept |-> _prune_data_node(s.of, kept[i], D)]]
      [] s.kind = "tup" /\ v.is = "list" ->
            [v EXCEPT !.at = [i \in DOMAIN v.at |-> _prune_data_node(s.of[i], v.at[i], D)]]
      [] OTHER -> v

RECURSIVE Refuses(_)
Refuses(v) ==
    \/ v.is = "refused"
    \/ v.is \in {"dict", "list"} /\ \E n \in DOMAIN v.at : Refuses(v.at[n])

(* The definitions that a schema still reaches.                            *)
RECURSIVE _iter_refs(_)
_iter_refs(s) ==
    CASE s.kind = "ref" -> {s.name}
      [] s.kind \in {"arr", "map"} -> _iter_refs(s.of)
      [] s.kind \in {"tup", "any"} -> UNION {_iter_refs(s.of[i]) : i \in DOMAIN s.of}
      [] s.kind = "obj" -> UNION {_iter_refs(s.props[i][2]) : i \in DOMAIN s.props}
      [] OTHER -> {}

RECURSIVE Reach(_, _)
Reach(names, D) ==
    LET more == names \cup UNION {_iter_refs(D[n]) : n \in names}
    IN  IF more = names THEN names ELSE Reach(more, D)

_remove_unreachable_definitions(s, D) == [n \in Reach(_iter_refs(s), D) |-> D[n]]

minimize_source_surface(s, D, v) ==
    LET schema == _prune_schema_node(s, [D |-> D, seen |-> {}])
        data == _prune_data_node(s, v, D)
        defs == _remove_unreachable_definitions(schema.node, schema.st.D)
    IN  IF Refuses(data) \/ ~_schema_matches(schema.node, data, defs) THEN Refused
        ELSE [is |-> "minimized", schema |-> schema.node, defs |-> defs, data |-> data]

-----------------------------------------------------------------------------
(* A diagnostic names a path; it is refused below what is pruned.          *)

RECURSIVE _path_resolves_data(_, _)
_path_resolves_data(v, path) ==
    path = <<>> \/ ( v.is \in {"dict", "list"} /\ Head(path) \in DOMAIN v.at
                     /\ _path_resolves_data(v.at[Head(path)], Tail(path)) )

RECURSIVE _path_targets_hidden(_, _, _, _)
_path_targets_hidden(s, path, v, D) ==
    CASE s.kind = "ref" -> _path_targets_hidden(_resolve_local_ref(s, D), path, v, D)
      [] s.kind = "any" /\ path # <<>> ->
            \E i \in DOMAIN s.of :
                /\ _schema_matches(s.of[i], v, D)
                /\ _effective_hidden(s.of[i], D) \/ _path_targets_hidden(s.of[i], path, v, D)
      [] s.kind = "obj" /\ path # <<>> /\ Head(path) \in Declared(s) ->
            \/ _effective_hidden(PropOf(s, Head(path)), D)
            \/ _path_targets_hidden(PropOf(s, Head(path)), Tail(path), v.at[Head(path)], D)
      [] s.kind = "map" /\ path # <<>> ->
            \/ _effective_hidden(s.of, D)
            \/ _path_targets_hidden(s.of, Tail(path), v.at[Head(path)], D)
      [] s.kind \in {"arr", "tup"} /\ path # <<>> ->
            _path_targets_hidden(IF s.kind = "arr" THEN s.of ELSE s.of[Head(path)],
                                 Tail(path), v.at[Head(path)], D)
      [] OTHER -> FALSE

accepts_diagnostic(s, D, v, path) ==
    _path_resolves_data(v, path) /\ ~_path_targets_hidden(s, path, v, D)

-----------------------------------------------------------------------------
(* What a reviewer of a kernel's privacy asks of it.                       *)

RECURSIVE Places(_)
Places(v) == {<<>>} \cup IF v.is = "atom" THEN {}
                         ELSE UNION {{<<n>> \o p : p \in Places(v.at[n])} : n \in DOMAIN v.at}

RECURSIVE At(_, _)
At(v, path) == IF path = <<>> THEN v ELSE At(v.at[Head(path)], Tail(path))

HiddenAt(v) == {p \in Places(v) : At(v, p).hidden # "no"}

RECURSIVE ShowsHidden(_, _)
ShowsHidden(s, D) ==
    CASE s.kind = "obj" -> \E i \in DOMAIN s.props :
              _effective_hidden(s.props[i][2], D) \/ ShowsHidden(s.props[i][2], D)
      [] s.kind \in {"arr", "map"} -> _effective_hidden(s.of, D) \/ ShowsHidden(s.of, D)
      [] s.kind \in {"tup", "any"} -> \E i \in DOMAIN s.of :
              _effective_hidden(s.of[i], D) \/ ShowsHidden(s.of[i], D)
      [] OTHER -> FALSE

(* Nothing that the model's author hid is signed: no hidden value is in    *)
(* the minimized data, no hidden position in its schema or in a definition *)
(* that it still reaches, and no diagnostic that names a hidden value, or  *)
(* a part of one, is let through: but for a diagnostic of just the value   *)
(* that is hidden as one branch of a union whose others are not.  The      *)
(* code lets that one through, though the value that it names is pruned    *)
(* (_path_targets_hidden asks of a union only when the path goes on).      *)
(* Three walks answer that, each with its own reading of references,       *)
(* nullables, containers and unions (minimize_source_surface).             *)
HiddenStaysHome(s, D, v) ==
    LET m == minimize_source_surface(s, D, v)
    IN  m # Refused =>
          /\ HiddenAt(m.data) = {}
          /\ ~ShowsHidden(m.schema, m.defs) /\ \A n \in DOMAIN m.defs : ~ShowsHidden(m.defs[n], m.defs)
          /\ \A p \in HiddenAt(v) : At(v, p).hidden = "as a branch" \/ ~accepts_diagnostic(s, D, v, p)

(* A required field whose values may be hidden as a branch of a union that *)
(* has a name, and that an earlier field reaches too: when the schema's    *)
(* walk comes to the field, the earlier one has pruned the union, and the  *)
(* field stays required, though its value may be removed.                  *)
OutlivesItsUnion(s, D) ==
    \E i, j \in DOMAIN s.props :
        /\ i < j /\ s.props[j][1] \in s.required
        /\ s.props[j][2].kind = "ref" /\ _union_has_hidden_branch(s.props[j][2], D)
        /\ s.props[j][2].name \in Reach(_iter_refs(s.props[i][2]), D)

(* A valid model whose readings agree on what is hidden is never refused,  *)
(* unless a required field outlives its union: the schema's walk foresees  *)
(* every other value that the data's walk takes out.  And what was         *)
(* minimized is a source surface that minimizes to itself: a verifier that *)
(* repeats the walk finds the seal of what it was sent.                    *)
LegitimateIsSigned(s, D, v) ==
    LET m == minimize_source_surface(s, D, v)
    IN  /\ OutlivesItsUnion(s, D) \/ m # Refused
        /\ m # Refused => minimize_source_surface(m.schema, m.defs, m.data) = m
=============================================================================
