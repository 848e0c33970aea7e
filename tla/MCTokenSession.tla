--------------------------- MODULE MCTokenSession ---------------------------
(* TokenSession on small instances; the requests are interchangeable. *)
EXTENDS TokenSessionInv, TLC

Symmetry == Permutations(Req)

\* Bound: no credential nears its end (the runs about rows do not need it).
NoExpiry == ending = {}

\* Bound: one reuse is reported and one revocation confirmed.
FewEnds == Cardinality(reported) <= 1 /\ Cardinality(blocklist) <= 1

\* Bound: one reuse is reported or one revocation confirmed.
OneEnd == Cardinality(reported) + Cardinality(blocklist) <= 1

\* Bound: only the first credential nears its end; it has successors, and they
\* have some.
OneExpiry == ending \subseteq {1}
=============================================================================
