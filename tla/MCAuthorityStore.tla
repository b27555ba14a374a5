--------------------------- MODULE MCAuthorityStore ---------------------------
(* Model values, candidates and symmetry for checking AuthorityStore.      *)
EXTENDS AuthorityStore, TLC

CONSTANTS w1, w2, b1, m1, m2, parent, v1, v2, v3

Fact(s, m, sc, v) == [source |-> s, metric |-> m, scope |-> sc, value |-> v]

\* Every source holds two readings that compete for the first metric and, where
\* the instance has room, one of the other metric or scope.
MCExtracted ==
  [s \in Sources |->
     {Fact(s, m1, "consolidated", v1), Fact(s, m1, "consolidated", v2)} \cup
     ({Fact(s, m2, "consolidated", v1), Fact(s, m1, parent, v1)} \cap FactKeys)]

Symmetry == Permutations(WebSources)
=============================================================================
