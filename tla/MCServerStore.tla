---------------------------- MODULE MCServerStore ----------------------------
(***************************************************************************)
(* A small object graph for ServerStore: an empty tree shared by the root  *)
(* commit c1 and its two children c2 and c3, their merge (whose graph is   *)
(* complete but over the reference limit), and a commit `bad' that calls   *)
(* c1 its tree.  Branch names: dev is a directory prefix of dev/x.         *)
(***************************************************************************)
EXTENDS ServerStore

CONSTANTS tree, c1, c2, c3, merge, bad, main, dev, devx, h1, h2

MCHash == {tree, c1, c2, c3, merge, bad}

MCKind == [h \in MCHash |->
  IF h = tree THEN "tree" ELSE "commit"]

Ref(h, t) == [hash |-> h, type |-> t]

MCRefs == [h \in MCHash |->
  CASE h = tree -> <<>>
    [] h = c1 -> <<Ref(tree, "tree")>>
    [] h \in {c2, c3} -> <<Ref(tree, "tree"), Ref(c1, "commit")>>
    [] h = merge -> <<Ref(tree, "tree"), Ref(c2, "commit"), Ref(c3, "commit")>>
    [] h = bad -> <<Ref(c1, "tree"), Ref(c1, "commit")>>]

MCSize == [h \in MCHash |-> 1]

MCUnder == {<<dev, devx>>} \cap (Branch \X Branch)

Put(h, body) == [op |-> "put", hash |-> h, body |-> body]
Update(b, old, new) == [op |-> "update", branch |-> b, old |-> old, new |-> new]

\* The uploads of every object and one under a digest that is not its own;
\* creations, successors that race, a mistyped graph and one over the limit on
\* main, and two branches whose names collide.
MCRequests ==
  {Put(h, h) : h \in MCHash} \union
  {Put(c2, c3),
   Update(main, NoHash, c1), Update(main, c1, c2), Update(main, c1, c3),
   Update(main, c2, c3), Update(main, c1, bad), Update(main, c1, merge),
   Update(dev, NoHash, c1), Update(devx, NoHash, c1),
   [op |-> "list"]}
=============================================================================
