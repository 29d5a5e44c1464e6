-------------------------- MODULE MCDialectArrival --------------------------
(* Two tabs; releases that flip the default, add a dialect or retire one.  *)
EXTENDS DialectArrival

CONSTANTS t1, t2, archive, gallery, night

MCTabs == {t1, t2}

Release(registry, default) == [registry |-> registry, default |-> default]

\* Every registered dialect stays registered: what is added is in no way back.
Kept == {Release({archive, gallery, night}, archive), Release({archive, gallery, night}, gallery)}

\* A release retires a dialect.
Retiring == {Release({archive, gallery, night}, archive), Release({archive, gallery}, gallery)}
=============================================================================
