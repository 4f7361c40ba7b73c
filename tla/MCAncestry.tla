----------------------------- MODULE MCAncestry -----------------------------
(***************************************************************************)
(* A fork c2, c3 of the root c1, its merge m, a commit d on top of it, and *)
(* an unrelated root o.                                                    *)
(***************************************************************************)
EXTENDS Ancestry

CONSTANTS c1, c2, c3, m, d, o

MCCommit == {c1, c2, c3, m, d, o}

MCParents == [c \in MCCommit |->
  CASE c \in {c1, o} -> <<>>
    [] c \in {c2, c3} -> <<c1>>
    [] c = m -> <<c2, c3>>
    [] c = d -> <<m>>]

\* None, roots, one side of the fork, both, and a legacy merge.
MCLegacySets == {{}, {c1, o}, {c2}, {c1, c3}, {c2, c3}, {m}}
=============================================================================
