-------------------------------- MODULE MCSync --------------------------------
(***************************************************************************)
(* Two clients and four commits of one tree: two roots of unrelated        *)
(* histories, and two successors of the first.                             *)
(***************************************************************************)
EXTENDS Sync

CONSTANTS tree, c1, c2, c3, other, p1, p2

MCHash == {tree, c1, c2, c3, other}

MCKind == [h \in MCHash |-> IF h = tree THEN "tree" ELSE "commit"]

Ref(h, t) == [hash |-> h, type |-> t]

MCRefs == [h \in MCHash |->
  CASE h = tree -> <<>>
    [] h \in {c1, other} -> <<Ref(tree, "tree")>>
    [] OTHER -> <<Ref(tree, "tree"), Ref(c1, "commit")>>]

MCSize == [h \in MCHash |-> 1]
=============================================================================
