--------------------------- MODULE CompoundFactory ---------------------------
(***************************************************************************)
(* Compounds: definitions that producers add to one registry through its   *)
(* gate, and calls of them in authored trees (compounds/factory.ts), which *)
(* the Python package has gated against its own catalog                    *)
(* (py/morphe_grammar/dialects.py) and Node.svelte expands as it renders.  *)
(*                                                                         *)
(* A node is a text, a stack of children (for any container; a table is a  *)
(* stack of its cells'), a within, a slot, a param-ref or a call.  A value *)
(* has its type and the nodes that it comes to; a scalar comes to a text.  *)
(* What is rendered is the sequence of the texts that show.                *)
(***************************************************************************)
EXTENDS Integers, SequencesExt, TLC

CONSTANTS
    MAX_EXPANSION_DEPTH,   \* expansions within an expansion
    CallStack              \* frames before JavaScript raises RangeError

GRAMMAR_VERSION == "current"

Undefined == [type |-> "undefined", nodes |-> <<>>]
Thrown == [kind |-> "thrown"]
EmptyText == [kind |-> "text", value |-> ""]

KNOWN_KINDS == {"text", "stack", "within", "slot", "param-ref", "compound"}

isNodeLike(n) == n.kind \in KNOWN_KINDS

childrenOf(n) ==
    CASE n.kind = "stack" -> n.children
      [] n.kind = "slot" -> n.fallback
      [] n.kind = "within" -> <<n.target>>
      [] OTHER -> <<>>

withChildren(n, children) ==
    CASE n.kind = "stack" -> [n EXCEPT !.children = children]
      [] n.kind = "within" -> IF Len(children) = 1 THEN [n EXCEPT !.target = children[1]] ELSE Thrown
      [] OTHER -> n

(* The nodes of a tree, without what its calls carry.                      *)
RECURSIVE Walk(_)
Walk(n) == {n} \cup UNION {Walk(child) : child \in ToSet(childrenOf(n))}

OfKind(n, kind) == {m \in Walk(n) : m.kind = kind}
compoundRefsIn(n) == {m.name : m \in OfKind(n, "compound")}
paramRefsIn(n) == {m.param : m \in OfKind(n, "param-ref")}
slotNamesIn(n) == {m.name : m \in OfKind(n, "slot")}

valueMatchesParamType(value, type) ==
    value.type = type /\ \A i \in DOMAIN value.nodes : isNodeLike(value.nodes[i])

defaultForType(type) ==
    [type |-> type, nodes |-> IF type = "node-list" THEN <<>> ELSE <<EmptyText>>]

_withDefaults(params, args) ==
    [p \in DOMAIN params |->
       IF p \in DOMAIN args THEN args[p]
       ELSE IF params[p].default # Undefined THEN params[p].default
       ELSE defaultForType(params[p].type)]

HasIssues(def, ref) ==
    \/ ~ DOMAIN ref.args \subseteq DOMAIN def.params
    \/ \E p \in DOMAIN def.params :
         IF p \in DOMAIN ref.args THEN ~ valueMatchesParamType(ref.args[p], def.params[p].type)
         ELSE def.params[p].required
    \/ ~ DOMAIN ref.slots \subseteq slotNamesIn(def.template)
    \/ \E s \in DOMAIN ref.slots : \E n \in ToSet(ref.slots[s]) : ~ isNodeLike(n)

-----------------------------------------------------------------------------
(* Expansion.  `frames' is what is left of the call stack.                 *)

resolveParamRef(ref, args) ==
    IF ref.param \notin DOMAIN args THEN EmptyText
    ELSE IF args[ref.param].type = "node-list" THEN Thrown
    ELSE args[ref.param].nodes[1]

FillOf(slot, env) == IF slot.name \in DOMAIN env.slots THEN env.slots[slot.name] ELSE slot.fallback

(* What takes the place of a child: a slot its fill, a param-ref to a list *)
(* the list.                                                               *)
InPlaceOf(kid, env) ==
    CASE kid.kind = "slot" -> FillOf(kid, env)
      [] kid.kind = "param-ref" /\ kid.param \in DOMAIN env.args /\ env.args[kid.param].type = "node-list" ->
           env.args[kid.param].nodes
      [] OTHER -> <<kid>>

Bound(def, ref, depth) ==
    [args |-> _withDefaults(def.params, ref.args), slots |-> ref.slots, depth |-> depth]

RECURSIVE _expandNode(_, _, _, _)
_expandNode(defs, n, env, frames) ==
    CASE env.depth > MAX_EXPANSION_DEPTH \/ frames = 0 -> Thrown
      [] n.kind = "param-ref" -> resolveParamRef(n, env.args)
      [] n.kind = "compound" ->
           IF n.name \notin DOMAIN defs \/ HasIssues(defs[n.name], n) THEN Thrown
           ELSE _expandNode(defs, defs[n.name].template, Bound(defs[n.name], n, env.depth + 1), frames - 1)
      [] OTHER ->
           LET kids == FlattenSeq([i \in DOMAIN childrenOf(n) |-> InPlaceOf(childrenOf(n)[i], env)])
               expandedKids == [i \in DOMAIN kids |-> _expandNode(defs, kids[i], env, frames - 1)]
           IN  IF childrenOf(n) = <<>> THEN n
               ELSE IF Thrown \in ToSet(expandedKids) THEN Thrown
               ELSE withChildren(n, expandedKids)

-----------------------------------------------------------------------------
(* The registry and its gate.                                              *)

NoCompounds == [defs |-> <<>>, lifecycles |-> <<>>]

(* A cycle through one of the names on the path.                           *)
RECURSIVE Revisits(_, _, _)
Revisits(defs, name, path) ==
    \/ name \in path
    \/ /\ name \in DOMAIN defs
       /\ \E child \in compoundRefsIn(defs[name].template) : Revisits(defs, child, path \cup {name})

_findCycle(defs, candidate) == Revisits((candidate.name :> candidate) @@ defs, candidate.name, {})

_typeCheck(n) == \A m \in Walk(n) : isNodeLike(m) /\ m.kind # "param-ref"

(* Fault: a definition replaces the one of its name.                       *)
Replaces(reg, name) == FALSE

AlreadyRegistered(reg, name) == name \in DOMAIN reg.defs

_validate(reg, def) ==
    /\ ~ AlreadyRegistered(reg, def.name)
    /\ def.grammarVersion = GRAMMAR_VERSION
    /\ ~ def.claims
    /\ \A p \in DOMAIN def.params :
         def.params[p].default # Undefined =>
           /\ ~ def.params[p].required
           /\ valueMatchesParamType(def.params[p].default, def.params[p].type)
    /\ paramRefsIn(def.template) \subseteq DOMAIN def.params
    /\ ~ _findCycle(reg.defs, def)
    /\ LET env == [args |-> _withDefaults(def.params, <<>>), slots |-> <<>>, depth |-> 0]
           expanded == _expandNode(reg.defs, def.template, env, CallStack)
       IN  expanded # Thrown /\ _typeCheck(expanded)

register(reg, def, lifecycle) ==
    IF _validate(reg, def)
    THEN [defs |-> (def.name :> def) @@ reg.defs, lifecycles |-> (def.name :> lifecycle) @@ reg.lifecycles]
    ELSE reg

promote(reg, name) ==
    IF name \in DOMAIN reg.defs THEN [reg EXCEPT !.lifecycles = (name :> "promoted") @@ @] ELSE reg

expand(reg, ref) ==
    LET def == reg.defs[ref.name]
    IN  IF HasIssues(def, ref) THEN Thrown ELSE _expandNode(reg.defs, def.template, Bound(def, ref, 0), CallStack)

(* restrictCompounds: what a dialect's view of the registry shows.         *)
visible(reg, view, name) ==
    /\ name \in DOMAIN reg.defs
    /\ view.allow = {} \/ name \in view.allow
    /\ reg.lifecycles[name] = "candidate" => view.showCandidates \/ name \in view.allow

-----------------------------------------------------------------------------
(* Node.svelte: a call that is hidden, unknown or does not expand shows    *)
(* nothing.                                                                *)
RECURSIVE Render(_, _, _)
Render(reg, view, n) ==
    CASE n.kind = "text" -> <<n.value>>
      [] n.kind = "param-ref" -> <<n.param>>
      [] n.kind = "compound" ->
           IF visible(reg, view, n.name) /\ expand(reg, n) # Thrown THEN Render(reg, view, expand(reg, n)) ELSE <<>>
      [] OTHER -> FlattenSeq([i \in DOMAIN childrenOf(n) |-> Render(reg, view, childrenOf(n)[i])])

-----------------------------------------------------------------------------
(* The gate of the Python package, against its catalog.  It looks for the  *)
(* slots of a template in all that the template carries.                   *)

Carried(n) ==
    IF n.kind # "compound" THEN childrenOf(n)
    ELSE FlattenSeq(SetToSeq({n.args[p].nodes : p \in DOMAIN n.args} \cup {n.slots[s] : s \in DOMAIN n.slots}))

RECURSIVE WalkAll(_)
WalkAll(n) == {n} \cup UNION {WalkAll(child) : child \in ToSet(Carried(n))}

compound_slot_names(def) == {m.name : m \in {m \in WalkAll(def.template) : m.kind = "slot"}}

(* An allowlist names compounds of the catalog only; an empty one is none. *)
validate_policy(catalog, allow) == allow \subseteq DOMAIN catalog

_validate_compound(catalog, allowed, ref) ==
    /\ ref.name \in allowed
    /\ LET def == catalog[ref.name]
       IN  /\ DOMAIN ref.args \subseteq DOMAIN def.params
           /\ \A p \in DOMAIN def.params : def.params[p].required => p \in DOMAIN ref.args
           /\ \A p \in DOMAIN ref.args : ref.args[p].type = def.params[p].type
           /\ DOMAIN ref.slots \subseteq compound_slot_names(def)

_walk_node(catalog, allowed, n) ==
    \A ref \in {m \in WalkAll(n) : m.kind = "compound"} : _validate_compound(catalog, allowed, ref)

validate_promoted_compound_references(catalog, n) == _walk_node(catalog, DOMAIN catalog, n)

validate_node_for_dialect(catalog, allow, n) == allow = {} \/ _walk_node(catalog, allow, n)

(* The gate of the TypeScript package, against its registry: a name that   *)
(* nobody has registered passes where the dialect has no allowlist.        *)
validateNodeForDialect(reg, allow, n) ==
    \A ref \in {m \in WalkAll(n) : m.kind = "compound"} :
      /\ allow = {} \/ ref.name \in allow
      /\ ref.name \in DOMAIN reg.defs => ~ HasIssues(reg.defs[ref.name], ref)

-----------------------------------------------------------------------------
(* What a tree means: every call stands for its definition's template,     *)
(* with its arguments and fills, which mean what they meant where they     *)
(* were written, in the places of its parameters and slots.                *)

Outside == [kind |-> "compound", name |-> "", args |-> <<>>, slots |-> <<>>]

RECURSIVE Means(_, _, _)
Means(defs, n, call) ==
    LET all(nodes, in) == FlattenSeq([i \in DOMAIN nodes |-> Means(defs, nodes[i], in)])
        spec == defs[call.name].params[n.param]
    IN  CASE n.kind = "text" -> <<n.value>>
          [] n.kind = "compound" -> Means(defs, defs[n.name].template, n)
          [] n.kind = "slot" /\ n.name \in DOMAIN call.slots -> all(call.slots[n.name], Outside)
          [] n.kind = "param-ref" ->
               IF n.param \in DOMAIN call.args THEN all(call.args[n.param].nodes, Outside)
               ELSE IF spec.default # Undefined THEN all(spec.default.nodes, Outside)
               ELSE IF spec.type = "node-list" THEN <<>> ELSE <<"">>
          [] OTHER -> all(childrenOf(n), call)

(* Nothing in it waits for a definition's environment.                     *)
Closed(n) == \A m \in WalkAll(n) : m.kind \notin {"slot", "param-ref"}

(* A definition as the catalog's all are: its own slots and parameters     *)
(* only in its own tree, one node in a within, and no call in an argument  *)
(* or a default, where no walk of the gate looks for cycles.               *)
Singular(target, params) ==
    CASE target.kind = "slot" -> FALSE
      [] target.kind = "param-ref" -> params[target.param].type # "node-list"
      [] OTHER -> TRUE

Plain(def) ==
    LET calls == {m \in WalkAll(def.template) : m.kind = "compound"}
        handed == UNION {{ref.args[p] : p \in DOMAIN ref.args} : ref \in calls} \cup
                  {def.params[p].default : p \in DOMAIN def.params}
    IN  /\ def.template.kind # "slot"
        /\ \A m \in OfKind(def.template, "within") : Singular(m.target, def.params)
        /\ \A ref \in calls : \A child \in ToSet(Carried(ref)) : Closed(child)
        /\ \A value \in handed : \A child \in ToSet(value.nodes) : OfKind(child, "compound") = {}

(* How many expansions are inside one another in a call: those of its      *)
(* definition, its fills and its lists, which it expands; a node that is   *)
(* an argument it leaves to the renderer.                                  *)
RECURSIVE Nesting(_, _)
Nesting(defs, n) ==
    LET within(nodes) == {Nesting(defs, child) : child \in ToSet(nodes)}
        lists == {n.args[p].nodes : p \in {p \in DOMAIN n.args : n.args[p].type = "node-list"}}
    IN  IF n.kind # "compound" THEN Max({0} \cup within(childrenOf(n)))
        ELSE 1 + Max({Nesting(defs, defs[n.name].template)} \cup
                     UNION {within(nodes) : nodes \in lists \cup {n.slots[s] : s \in DOMAIN n.slots}})

Shallow(defs, n) ==
    \A ref \in {m \in WalkAll(n) : m.kind = "compound"} : Nesting(defs, ref) <= MAX_EXPANSION_DEPTH + 1

(* A tree shows what it means wherever a gate has let it through: Python's *)
(* by the catalog alone, whoever registered what since, and in agreement   *)
(* with TypeScript's; TypeScript's where the view shows all that it calls. *)
PassesPython(catalog, allow, n) ==
    /\ validate_policy(catalog, allow)
    /\ IF allow = {} THEN validate_promoted_compound_references(catalog, n)
       ELSE validate_node_for_dialect(catalog, allow, n)

PassesTypeScript(reg, view, n) ==
    /\ validateNodeForDialect(reg, view.allow, n)
    /\ \A ref \in {m \in WalkAll(n) : m.kind = "compound"} : visible(reg, view, ref.name)

ShowsIn(defs, reg, view, n) ==
    Shallow(defs, n) => Render(reg, view, n) = Means(defs, n, Outside)

GatedTreesShowWhole(catalog, reg, view, n) ==
    Closed(n) /\ (\A name \in DOMAIN reg.defs : Plain(reg.defs[name])) =>
      /\ PassesPython(catalog, view.allow, n) =>
           validateNodeForDialect(reg, view.allow, n) /\ ShowsIn(catalog, reg, view, n)
      /\ PassesTypeScript(reg, view, n) => ShowsIn(reg.defs, reg, view, n)

=============================================================================
