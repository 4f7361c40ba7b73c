----------------------------- MODULE MCGraphWalk -----------------------------
(***************************************************************************)
(* A graph with a diamond (merge), a commit that calls another commit its  *)
(* tree (bad), and a commit with a large body (big); walks start from one  *)
(* tip, as a server's do, or from several, as a clone's, and the readable  *)
(* objects are any subset.                                                 *)
(***************************************************************************)
EXTENDS GraphWalk

CONSTANTS blob, tree, c1, c2, c3, merge, bad, big

MCHash == {blob, tree, c1, c2, c3, merge, bad, big}

MCKind == [h \in MCHash |->
  CASE h = blob -> "blob" [] h = tree -> "tree" [] OTHER -> "commit"]

Ref(h, t) == [hash |-> h, type |-> t]

MCRefs == [h \in MCHash |->
  CASE h = blob -> <<>>
    [] h = tree -> <<Ref(blob, "blob")>>
    [] h \in {c1, big} -> <<Ref(tree, "tree")>>
    [] h \in {c2, c3} -> <<Ref(tree, "tree"), Ref(c1, "commit")>>
    [] h = merge -> <<Ref(tree, "tree"), Ref(c2, "commit"), Ref(c3, "commit")>>
    [] h = bad -> <<Ref(c1, "tree"), Ref(c1, "commit")>>]

MCSize == [h \in MCHash |-> CASE h = big -> 4 [] h = tree -> 2 [] OTHER -> 1]

\* <<c1, c2, c3>> meets both limits exactly; merge exceeds the references by
\* one and big the bytes; ten roots are refused at once.
MCRoots ==
  {<<>>, <<c2>>, <<merge>>, <<bad>>, <<big>>, <<tree>>, <<c2, c2>>, <<c2, c3>>,
   <<c3, bad>>, <<c1, c2, c3>>, [i \in 1..10 |-> c1]}

\* What module Sync takes for granted of graph.history: it lists the commits
\* of a complete graph, the diamond included, once each and parents first.
ASSUME HistoryLists ==
  \A c \in Hash : Complete(c, Hash) => Lists(History(c), Commits(c))

\* The totals of module Objects are the sums that the loops keep.
ASSUME TotalsAreSums ==
  \A S \in SUBSET Hash :
    /\ RefTotal(0, S) = MapThenSumSet(LAMBDA x : Len(Refs[x]), S)
    /\ ByteTotal(S) = MapThenSumSet(LAMBDA x : Size[x], S)
=============================================================================
