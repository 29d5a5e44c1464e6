----------------------------- MODULE MCCmsStore -----------------------------
(***************************************************************************)
(* A small instance of CmsStore: two slugs, a draft every grammar passes   *)
(* (`sound`), one that only the first grammar passes (`dated`), and one    *)
(* release that installs the second grammar.  Slugs are interchangeable,   *)
(* and so are threads; two threads contend over one slug and one draft.    *)
(***************************************************************************)
EXTENDS CmsStore, TLC

CONSTANTS w1, w2, s1, s2, sound, dated

OneWriter == {w1}
TwoWriters == {w1, w2}
OneSlug == {s1}
TwoSlugs == {s1, s2}
OneDraft == {dated}
TwoDrafts == {sound, dated}
MCGrammars == {1, 2}
MCPassing == 1 :> Drafts @@ 2 :> Drafts \ {dated}
SlugSymmetry == Permutations({s1, s2})
WriterSymmetry == Permutations({w1, w2})
=============================================================================
