------------------------------- MODULE Answers -------------------------------
(***************************************************************************)
(* The digest's windows beside the parts that compute an answer out of     *)
(* what they are given, once: the belt's author, its exemption, the cost   *)
(* of a merge, the verifier of sealed envelopes, and others, of which      *)
(* nothing is said here.  Every case of those is an initial state, in      *)
(* which nothing happens.                                                  *)
(***************************************************************************)
EXTENDS MergeDigest, BeltAuthors, SourceSeals

CONSTANTS
    Worlds, AliasMaps,   \* what the lookups see, and what repositories grant
    Diffs, DeclaredRoots,
    Merges,
    Handed,              \* envelopes that a host may be handed
    Others               \* the cases of the further parts, by their names

VARIABLES part, given

answer_vars == <<digest_vars, part, given>>

(* What was issued: fields, signed with a key.                             *)
Issued(c) == {prepare_source_surface(i.fields, i.key) : i \in c.signed}

ASSUME CasesAreCases ==
    /\ \A w \in Worlds : IsWorld(w)
    /\ \A aliases \in AliasMaps : Grants(aliases)
    /\ \A d \in Diffs : IsDiff(d)
    /\ \A w \in Merges : IsMerge(w)
    /\ \A c \in Handed : /\ \A i \in c.signed : DOMAIN i.fields = Filled
                         /\ IsSealed(c.a, Issued(c))
    /\ DOMAIN Others \cap {"digest", "author", "exempt", "cost", "seal"} = {}

Given(p, cases) == part = p /\ given \in cases

Asked ==
    \/ Given("digest", {[nothing |-> TRUE]})
    \/ Given("author", [w: Worlds, aliases: AliasMaps])
    \/ Given("exempt", [d: Diffs, declared: DeclaredRoots])
    \/ Given("cost", Merges)
    \/ Given("seal", Handed)
    \/ \E p \in DOMAIN Others : Given(p, Others[p])

AnswersInit == DigestInit /\ Asked

AnswersNext == part = "digest" /\ DigestNext /\ UNCHANGED <<part, given>>

AnswersSpec == AnswersInit /\ [][AnswersNext]_answer_vars

-----------------------------------------------------------------------------
(* The belt lets go of a pull request only on proof: it has no seat only   *)
(* when somebody could look, and is exempt only when all of its diff is;   *)
(* and the seat that it has is its author's (see BeltAuthors).             *)
LetsGoOnProof ==
    /\ part = "author" => /\ SeatIsNotDropped(given.w, given.aliases)
                          /\ WakeIsTheAuthors(given.w, given.aliases)
    /\ part = "exempt" => ExemptionIsProven(given.d, given.declared)

(* No merge is sold cheaper than it is, unless `git status' failed (see    *)
(* MergeDigest).                                                           *)
NoCheapClaim == part = "cost" => CostIsOfTheWhole(given)

(* A host takes a whole testimony for what it is, and nothing else (see    *)
(* SourceSeals).                                                           *)
OnlyTestimonyIsTaken ==
    part = "seal" =>
      OnlyTestimonyVerifies(given.a, Issued(given), given.issuer, given.surface, given.now)
=============================================================================
