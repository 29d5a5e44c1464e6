---------------------------- MODULE MCAlgorithms ----------------------------
(* Bounded inputs of every part that answers, and of the recursive parts:  *)
(* a source surface is minimized, a surface compiled, a tree of compounds  *)
(* expanded.                                                               *)
EXTENDS Answers, SurfaceBuild, CompoundFactory

(* One of two repositories has the pulls, which are alike.                 *)
MCRepoOf == [p \in Pulls |-> "doctrine"]

Alike == Permutations(Pulls)

(* Two seats and the burn seat are built in; the repository may grant an   *)
(* alias of each kind, one of them over a built-in name.                   *)
MCSeats == [Fable |-> "fable", Sol |-> "sol", Burner |-> "burn"]

MCAliasMaps == {<<>>, [Haki |-> "fable"], [Haki |-> "burn"], [Burner |-> "sol"],
              [Haki |-> "sol", Fable |-> "burn"]}

Someone == {"Fable", "Burner", "Haki", "Stranger"}

MCWorlds ==
    [names: UNION {[1 .. n -> Someone] : n \in 0 .. 2}, author: Someone,
     lives: SUBSET {"base", "fork"}, repo: {"base", "fork", "gone", "omitted"},
     branch: BOOLEAN, contents: BOOLEAN, broken: {{}, {"head"}, {"probe"}, {"fork"}}]

(* The files of a pull request; the listing stops at two.                  *)
MCDiffs ==
    {[files |-> f, listed |-> SubSeq(f, 1, IF Len(f) > 2 THEN 2 ELSE Len(f)), changed |-> Len(f), closed_before |-> c] :
        f \in UNION {[1 .. n -> {{"skill"}, {"law"}, {"src"}, {"skill", "src"}}] : n \in 0 .. 3},
        c \in BOOLEAN}

AllWell == [step \in ToSet(GitSteps) |-> "ok"]
OneOff(git) == {git} \cup {[git EXCEPT ![step] = end] : step \in ToSet(GitSteps), end \in {"fails", "raises"}}

(* Something is left in the clone by a reset or clean that failed.         *)
Clones(gits) ==
    {c \in [git: gits, left: {"", "shows", "blocks"}] :
        c.left # "" => "fails" \in {c.git["reset"], c.git["clean"]}}

AMerge(strategy, commits, chain, declared, listed, clone, noop, conflicts, touched, shipped) ==
    [strategy |-> strategy, commits |-> commits, chain |-> chain, declared |-> declared,
     listed |-> listed, git |-> clone.git, left |-> clone.left, noop |-> noop,
     conflicts |-> conflicts, touched |-> touched, deployments |-> shipped.records, lost |-> shipped.lost]

Unshipped == [records |-> <<>>, lost |-> 0]

(* Every span, with one step that goes wrong; one commit, with two.        *)
Spans ==
    {w \in {AMerge(strategy, n, chain, dec, listed, clone, noop, conf, touched, Unshipped) :
               strategy \in {"squash", "merge", "rebase"}, n \in 1 .. 3, chain \in 1 .. 3,
               dec \in BOOLEAN, listed \in BOOLEAN, clone \in Clones(OneOff(AllWell)),
               noop \in BOOLEAN, conf \in {{}, {1}, {3}}, touched \in {{}, {1}, {2, 3}}} :
        /\ w.chain <= w.commits /\ w.conflicts \cup w.touched \subseteq 1 .. w.commits
        /\ w.noop => w.conflicts = {}} \cup
    {AMerge("squash", 1, 1, TRUE, TRUE, clone, noop, {}, touched, Unshipped) :
        clone \in Clones(UNION {OneOff(git) : git \in OneOff(AllWell)}),
        noop \in BOOLEAN, touched \in {{}, {1}}}

(* Records that cover the merge, three of them unsuccessful or unreadable, *)
(* and that do not: of another branch, of staging, and older ones.         *)
Records ==
    LET d(since, covers, production, succeeded, readable) ==
          [since |-> since, covers |-> covers, production |-> production,
           succeeded |-> succeeded, readable |-> readable]
    IN  {d(TRUE, TRUE, TRUE, succeeded, readable) : succeeded \in BOOLEAN, readable \in BOOLEAN} \cup
        {d(TRUE, FALSE, TRUE, TRUE, TRUE), d(TRUE, TRUE, FALSE, TRUE, FALSE), d(FALSE, TRUE, TRUE, TRUE, TRUE)}

Shipments ==
    {AMerge("rebase", 2, 2, dec, TRUE, clone, FALSE, {}, {}, [records |-> records, lost |-> lost]) :
        dec \in BOOLEAN, lost \in 0 .. 2,
        clone \in {[git |-> AllWell, left |-> ""], [git |-> [AllWell EXCEPT !["log"] = "raises"], left |-> ""]},
        records \in {ds \in UNION {[1 .. n -> Records] : n \in 0 .. 3} : NewestFirst(ds)}}

MCMerges == Spans \cup Shipments

MCDeclared == {{"law"}}

-----------------------------------------------------------------------------
(* Signed artifacts: two issuers that call their key the same, a key that  *)
(* came after it, and a producer that holds another's.                     *)

MCPublicKeys ==
    {[issuer |-> "kernel", key_id |-> "k1", key |-> "kernel key"],
     [issuer |-> "kernel", key_id |-> "k2", key |-> "kernel new key"],
     [issuer |-> "books", key_id |-> "k1", key |-> "books key"]}

MCConforming == [schema : {"s1"}, data : {"d1", "d2"}] \cup [schema : {"s2"}, data : {"d2"}]

Older ==
    [issuer |-> "kernel", surface_id |-> "kernel.day:1", source_revision |-> "r1",
     produced_at |-> 1, valid_until |-> 0, view_model |-> "m1", required_capabilities |-> "none",
     key_id |-> "k1", schema |-> "s1", data |-> "d1", diagnostics |-> "none"]

Newer == [Older EXCEPT !.source_revision = "r2", !.produced_at = 2, !.valid_until = 3,
                       !.view_model = "m2", !.schema = "s2", !.data = "d2", !.diagnostics = "one"]

Signings ==
    LET as(fields, key) == [fields |-> fields, key |-> key]
        old == as(Older, "kernel key")
    IN  {<<old, as(Newer, "kernel key")>>,
         <<old, as([Older EXCEPT !.issuer = "books", !.data = "d2"], "books key")>>,
         <<old, as([Older EXCEPT !.key_id = "k2"], "kernel new key")>>,
         <<old, as([Older EXCEPT !.surface_id = "kernel.day:2"], "books key")>>,
         <<old, as([Older EXCEPT !.schema = "s2"], "kernel key")>>,
         <<old, as([Older EXCEPT !.surface_id = "kernel:day:1"], "kernel key")>>}

MCHanded ==
    UNION {[a: Splices(prepare_source_surface(pair[1].fields, pair[1].key),
                       prepare_source_surface(pair[2].fields, pair[2].key)),
            signed: {{pair[1], pair[2]}}, issuer: {"kernel", "books"},
            surface: {"kernel.day:1", pair[2].fields.surface_id}, now: {0, 4}] :
        pair \in Signings}

-----------------------------------------------------------------------------
(* View models of two fields.  A shape is a schema of a field and what a   *)
(* model may hold there, in which every value that the hints hide, and     *)
(* all that is in it, is marked, by hand.                                  *)

Str(hint) == [kind |-> "atom", type |-> "str", hint |-> hint]
Num == [kind |-> "atom", type |-> "num", hint |-> "none"]
Null == [kind |-> "atom", type |-> "null", hint |-> "none"]
Obj(props, required, hint) == [kind |-> "obj", props |-> props, required |-> required, hint |-> hint]
Ref(name, hint) == [kind |-> "ref", name |-> name, hint |-> hint]
Of(kind, of) == [kind |-> kind, of |-> of, hint |-> "none"]

(* A class that is hidden, one that is not, one with a hidden field, the   *)
(* same without its policy, and a named union.                             *)
Definitions ==
    [Secret |-> Obj(<< <<"k", Str("none")>> >>, {"k"}, "hidden"),
     Plain |-> Obj(<< <<"p", Str("none")>> >>, {"p"}, "none"),
     Card |-> Obj(<< <<"h", Str("hidden")>>, <<"v", Str("none")>> >>, {"h", "v"}, "none"),
     Open |-> Obj(<< <<"h", Str("none")>>, <<"v", Str("none")>> >>, {"h", "v"}, "none"),
     Mixed |-> Of("any", <<Ref("Secret", "none"), Ref("Plain", "none")>>)]

As(hidden, v) == [v EXCEPT !.hidden = hidden]
Text(hidden) == [is |-> "atom", type |-> "str", hidden |-> IF hidden THEN "yes" ELSE "no"]
Figure == [is |-> "atom", type |-> "num", hidden |-> "no"]
None == [is |-> "atom", type |-> "null", hidden |-> "no"]
K == Dict([k |-> Text(FALSE)])
HiddenK == As("yes", Dict([k |-> Text(TRUE)]))
BranchK == As("as a branch", HiddenK)
P == Dict([p |-> Text(FALSE)])
HiddenP == As("yes", Dict([p |-> Text(TRUE)]))
HV == Dict([h |-> Text(TRUE), v |-> Text(FALSE)])

Either == Of("any", <<Ref("Secret", "none"), Ref("Plain", "none")>>)

Shape(node, values) == [node |-> node, values |-> values]

Shapes ==
    {Shape(Str("none"), {Text(FALSE)}), Shape(Str("hidden"), {Text(TRUE)}),
     Shape(Ref("Secret", "none"), {HiddenK}), Shape(Ref("Secret", "visible"), {K}),
     Shape(Ref("Plain", "hidden"), {HiddenP}), Shape(Ref("Card", "none"), {HV}),
     Shape(Of("any", <<Ref("Secret", "none"), Null>>), {HiddenK, None}),
     Shape(Of("any", <<Ref("Card", "none"), Null>>), {HV, None}),
     Shape(Of("any", <<Str("hidden"), Num>>), {As("as a branch", Text(TRUE)), Figure}),
     Shape(Of("arr", Ref("Secret", "none")), {As("yes", List(<<>>)), As("yes", List(<<HiddenK>>))}),
     Shape(Of("arr", Ref("Card", "none")), {List(<<HV, HV>>)}),
     Shape(Of("map", Ref("Secret", "none")), {Dict([x |-> HiddenK]), Dict(<<>>)}),
     Shape(Of("map", Ref("Card", "none")), {Dict([x |-> HV])}),
     Shape(Of("tup", <<Ref("Secret", "none"), Str("none")>>), {As("yes", List(<<HiddenK, Text(TRUE)>>))}),
     Shape(Of("tup", <<Ref("Card", "none"), Str("none")>>), {List(<<HV, Text(FALSE)>>)}),
     Shape(Either, {BranchK, P}), Shape(Ref("Mixed", "none"), {BranchK, P}),
     Shape(Of("arr", Ref("Mixed", "none")), {List(<<P, BranchK>>)}),
     Shape(Of("any", <<Ref("Secret", "none"), Ref("Card", "none"), Null>>), {BranchK, HV, None}),
     Shape(Of("any", <<Ref("Secret", "none"), Obj(<<>>, {}, "none")>>), {BranchK, P}),
     Shape(Of("arr", Either), {List(<<BranchK, P>>), List(<<P, BranchK>>)}),
     Shape(Of("map", Either), {Dict([x |-> BranchK, y |-> P])})}

(* Two readings of one value, with and without a hidden field.             *)
Quarrel == Shape(Of("any", <<Ref("Card", "none"), Ref("Open", "none")>>), {HV})

Surfaces ==
    UNION {[s: {Obj(<< <<"f", sh.f.node>>, <<"g", sh.g.node>> >>, required, "none")},
            v: {Dict([f |-> a, g |-> b]) : a \in sh.f.values, b \in sh.g.values} \cup
               {Dict([f |-> a]) : a \in IF "g" \in required THEN {} ELSE sh.f.values},
            agree: {Quarrel \notin {sh.f, sh.g}}] :
          sh \in [f: Shapes \cup {Quarrel}, g: Shapes \cup {Quarrel}],
          required \in {{}, {"f"}, {"g"}, {"f", "g"}}}

-----------------------------------------------------------------------------
(* Schemas as they are compiled: a class that goes round, by a nullable    *)
(* and by a list, and rows of every shape under every hint, at any depth.  *)

MCCollation == <<"a", "b", "f", "g", "h", "k", "kids", "n", "next", "p", "v", "value", "w", "x", "y", "z">>

Nullable(node) == Of("any", <<node, Null>>)

Classes ==
    [Node |-> Obj(<< <<"n", Str("none")>>, <<"next", Nullable(Ref("Node", "none"))>>,
                     <<"kids", Of("arr", Ref("Node", "none"))>> >>, {"n"}, "none"),
     Row |-> Obj(<< <<"z", Str("none")>>, <<"a", Str("hidden")>>, <<"value", Num>>,
                    <<"b", Nullable(Ref("Pair", "none"))>> >>, {}, "none"),
     Pair |-> Obj(<< <<"y", Num>>, <<"x", Str("none")>> >>, {}, "none")]

Ends == {None, Dict([n |-> Text(FALSE)]), Dict([n |-> Text(FALSE), kids |-> List(<<>>)])}

Grown(ends) ==
    {Dict([n |-> Text(FALSE), next |-> a, kids |-> List(b)]) :
        a \in ends, b \in {<<>>} \cup {<<e>> : e \in ends \ {None}}}

Graphs ==
    {[s |-> Ref("Node", "none"), v |-> v] : v \in (Ends \cup Grown(Ends \cup Grown(Ends))) \ {None}}

APair == Dict([x |-> Text(FALSE), y |-> Figure])
ARow == Dict([z |-> Text(FALSE), a |-> Text(TRUE), value |-> Figure, b |-> APair])
Short == Dict([z |-> Text(FALSE), b |-> None])

Strategies == {"none", "scalar", "badge", "record-card", "collapsed-section", "linked-ref", "table",
               "card-stack", "diagnostic-node", "number", "status", "progress", "kpi-row",
               "entity-header", "breakdown", "trail", "key-value"}

Held ==
    {Shape(Ref("Row", "none"), {ARow, Short}), Shape(Nullable(Ref("Row", "none")), {ARow, None}),
     Shape(Num, {Figure}), Shape(Str("none"), {Text(FALSE)}), Shape(Nullable(Num), {Figure, None}),
     Shape(Of("map", Num), {Dict([x |-> Figure])}),
     Shape(Of("tup", <<Num, Str("none")>>), {List(<<Figure, Text(FALSE)>>)}),
     Shape(Of("arr", Num), {List(<<Figure, Figure>>)}),
     Shape(Of("arr", Ref("Row", "none")), {List(<<>>), List(<<Short, ARow>>)}),
     Shape(Of("arr", Ref("Pair", "none")), {List(<<>>), List(<<APair, APair>>)}),
     Shape(Of("arr", Nullable(Ref("Pair", "none"))), {List(<<None, APair>>)})}

Under(node, strategy) ==
    IF strategy = "none" THEN node
    ELSE [f \in DOMAIN node \cup {"strategy"} |-> IF f = "strategy" THEN strategy ELSE node[f]]

RECURSIVE Within(_, _)
Within(c, levels) ==
    IF levels = 0 THEN c
    ELSE Within([s |-> Obj(<< <<"w", c.s>> >>, {}, "none"), v |-> Dict([w |-> c.v])], levels - 1)

Builds ==
    Graphs \cup
    {Within([s |-> Obj(<< <<"n", Str("none")>>, <<"f", c.node>> >>, {}, "none"),
             v |-> Dict([n |-> Text(FALSE), f |-> c.v])], levels) :
        c \in UNION {[node : {Under(sh.node, hint) : hint \in Strategies},
                      v : sh.values] : sh \in Held},
        levels \in 0 .. 3}

-----------------------------------------------------------------------------
(* Definitions that call one another, with every kind of parameter and     *)
(* slot, those that the gate must refuse among them, and the trees that    *)
(* call them.                                                              *)

Says(value) == [kind |-> "text", value |-> value]
Stack(children) == [kind |-> "stack", children |-> children]
Around(target) == [kind |-> "within", target |-> target]
Slot(name, fallback) == [kind |-> "slot", name |-> name, fallback |-> fallback]
Param(param) == [kind |-> "param-ref", param |-> param]
Call(name, args, slots) == [kind |-> "compound", name |-> name, args |-> args, slots |-> slots]

Value(type, nodes) == [type |-> type, nodes |-> nodes]
Spec(type, required, default) == [type |-> type, required |-> required, default |-> default]
ANode == Value("node", <<Says("node")>>)
AList == Value("node-list", <<Says("one"), Says("two")>>)

Bodies ==
    {[params |-> <<>>, template |-> Stack(<<Says("own")>>)],
     [params |-> [p |-> Spec("node", TRUE, Undefined)],
      template |-> Stack(<<Param("p"), Slot("s", <<>>)>>)],
     [params |-> [p |-> Spec("node", FALSE, ANode)], template |-> Around(Param("p"))],
     [params |-> [ps |-> Spec("node-list", FALSE, Undefined)],
      template |-> Stack(<<Slot("s", <<Says("fallback")>>), Param("ps"), Slot("s", <<>>)>>)],
     [params |-> [q |-> Spec("string", FALSE, Undefined)], template |-> Stack(<<Param("q"), Slot("s", <<Param("q")>>)>>)]} \cup
    {[params |-> <<>>, template |-> Stack(<<Call(name, args, slots)>>)] :
        name \in {"a", "b"}, args \in {<<>>, [p |-> ANode]}, slots \in {<<>>, [s |-> <<Says("filled")>>]}} \cup
    {[params |-> <<>>, template |-> Stack(<<Call("a", <<>>, <<>>), Call("b", <<>>, [s |-> <<Call("a", <<>>, <<>>)>>])>>)]}

(* What the gate lets in and no definition of the catalog does: a fill of  *)
(* one's own, a slot at the root, and a default that calls its definition. *)
Odd ==
    {[params |-> [p |-> Spec("node", FALSE, ANode)],
      template |-> Stack(<<Call("a", <<>>, [s |-> <<Param("p")>>])>>)],
     [params |-> <<>>, template |-> Slot("s", <<>>)],
     [params |-> [p |-> Spec("node", FALSE, Value("node", <<Call("c", <<>>, <<>>)>>))],
      template |-> Stack(<<Param("p")>>)]}

Minted(name, body) ==
    [name |-> name, params |-> body.params, template |-> body.template,
     grammarVersion |-> GRAMMAR_VERSION, claims |-> FALSE]

Misfits ==
    {[Minted("c", body) EXCEPT !.grammarVersion = "former"] : body \in Odd} \cup
    {Minted("c", [params |-> <<>>, template |-> Stack(<<Param("p")>>)]),
     Minted("c", [params |-> [p |-> Spec("string", FALSE, ANode)], template |-> Stack(<<Param("p")>>)])}

Histories ==
    [shipped: {<<Minted("a", x)>> : x \in Bodies}, promoted: {<<"b", "c">>},
     later: {<<Minted("b", x), Minted("c", y)>> : x \in Bodies, y \in Bodies}] \cup
    [shipped: {<<Minted("a", x), Minted("b", y)>> : x \in Bodies, y \in Bodies},
     promoted: {<<>>, <<"c">>},
     later: {<<Minted("a", [params |-> <<>>, template |-> Stack(<<Says("other")>>)])>>} \cup
            {<<Minted("c", x)>> : x \in Bodies \cup Odd} \cup {<<d>> : d \in Misfits}]

RegisterAll(reg, defs, lifecycle) == FoldLeft(LAMBDA r, def : register(r, def, lifecycle), reg, defs)

Views == {[allow |-> allow, showCandidates |-> FALSE] : allow \in {{}, {"a"}}}

Trees ==
    {Stack(<<Says("before"), Call(name, args, slots)>>) :
        name \in {"a", "b", "c"},
        args \in {<<>>, [p |-> ANode], [p |-> Value("node", <<Call("c", <<>>, <<>>)>>)], [ps |-> AList],
                  [ps |-> Value("node-list", <<Call("b", <<>>, <<>>), Says("one")>>)],
                  [q |-> Value("string", <<Says("word")>>)]},
        slots \in {<<>>, [s |-> <<Says("fill"), Call("a", [p |-> ANode], [s |-> <<Call("c", <<>>, <<>>)>>])>>]}} \cup
    {Call("a", [p |-> ANode], [s |-> <<Stack(<<Slot("s", <<>>)>>)>>])}

-----------------------------------------------------------------------------
MCOthers == [source |-> Surfaces, build |-> Builds, compounds |-> Histories]

-----------------------------------------------------------------------------


(* The surface of a model shows all of it, but bare objects and what is    *)
(* below a misread hint (see SurfaceBuild), be it compiled as it is or as  *)
(* it was signed.                                                          *)
SurfacesShowTheirModel ==
    /\ part = "build" => SurfaceShowsAll(given.s, Classes, given.v)
    /\ part = "source" /\ given.agree =>
         LET m == minimize_source_surface(given.s, Definitions, given.v)
         IN  m # Refused => SurfaceShowsAll(m.schema, m.defs, m.data)

(* Gated trees show what they mean (see CompoundFactory), under a catalog  *)
(* that is all registered when the package loads, or it does not load.     *)
CompoundsShowWhole ==
    part = "compounds" =>
      LET catalog == RegisterAll(NoCompounds, given.shipped, "promoted")
          reg == FoldLeft(promote, RegisterAll(catalog, given.later, "candidate"), given.promoted)
      IN  Len(given.shipped) = Cardinality(DOMAIN catalog.defs) =>
            \A view \in Views, tree \in Trees : GatedTreesShowWhole(catalog.defs, reg, view, tree)
=============================================================================
