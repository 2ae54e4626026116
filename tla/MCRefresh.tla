----------------------------- MODULE MCRefresh -----------------------------
(* Instances of Refresh for TLC.                                            *)
EXTENDS RefreshProofs

CONSTANTS mobile, generic, r1, r2, r3

\* A curated feed and a generic one: r1 comes from the curated feed, r3 from the
\* generic one, r2 from both.
ContentsOfBoth ==
  [s \in Sources |-> IF s = mobile THEN {{r1}, {r1, r2}} ELSE {{}, {r2, r3}}]

\* Catalogs an earlier worker may have published.
PoolsOfTwo == {p \in SUBSET Routes : Cardinality(p) <= 2}
=============================================================================
