----------------------------- MODULE MCBranches -----------------------------
(***************************************************************************)
(* Branches main, x and x/y, and working directories in which a is a file  *)
(* or a directory with the file a/b, next to a file c.                     *)
(***************************************************************************)
EXTENDS Branches

CONSTANTS main, x, xy, a, ab, c, one, two

MCBranch == {main, x, xy}
MCAbove == [b \in MCBranch |-> IF b = xy THEN {x} ELSE {}]

MCNode == {a, ab, c}
MCUp == [n \in MCNode |-> IF n = ab THEN {a} ELSE {}]

Tree(va, vab, vc) == [n \in MCNode |->
  CASE n = a -> va [] n = ab -> vab [] n = c -> vc]

\* A file and a directory of one name, an added, a changed and a missing file.
MCEdits == {Tree(one, None, None), Tree(two, None, one), Tree(Dir, one, None)}
=============================================================================
