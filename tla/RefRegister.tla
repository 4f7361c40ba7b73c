----------------------------- MODULE RefRegister -----------------------------
(***************************************************************************)
(* What the server promises of a repository, without mutexes, handlers,    *)
(* disks or kills: objects can be added, and a branch can be moved, in one *)
(* step, from its tip to a descendant whose whole graph has been added     *)
(* (docs/server.md, "Objects" and "Refs").  Module ServerStore is shown to *)
(* implement it.                                                           *)
(***************************************************************************)
EXTENDS Objects

CONSTANTS Branch, Under

VARIABLES
  stored,  \* the objects that can be fetched
  tips     \* tips[b]: the published tip of b, or NoHash

registerVars == <<stored, tips>>

RegisterInit ==
  /\ stored = {}
  /\ tips = [b \in Branch |-> NoHash]

\* An upload took effect.
StoreObject(h) ==
  /\ stored' = stored \union {h}
  /\ UNCHANGED tips

\* An update took effect: b is created, or moved to a descendant of its tip.
Advance(b, c) ==
  /\ Complete(c, stored)
  /\ tips[b] # NoHash => tips[b] \in Commits(c)
  /\ \A a \in Branch :
       tips[a] # NoHash => <<a, b>> \notin Under /\ <<b, a>> \notin Under
  /\ tips' = [tips EXCEPT ![b] = c]
  /\ UNCHANGED stored

RegisterNext ==
  \/ \E h \in Hash : StoreObject(h)
  \/ \E b \in Branch, c \in Hash : Advance(b, c)

RegisterSpec == RegisterInit /\ [][RegisterNext]_registerVars
=============================================================================
