------------------------------ MODULE BranchMap ------------------------------
(***************************************************************************)
(* What the branches of a client repository promise: a map from names to   *)
(* histories and at most one active name.  Every change of a branch is one *)
(* step, however many files it takes.  A branch without a commit is not in *)
(* the map, and an interruption can cost the active name, never a history. *)
(***************************************************************************)
EXTENDS Sequences

CONSTANTS Branch, Above, Commit, NoBranch

VARIABLES history, active

mapVars == <<history, active>>

Named(b) == history[b] # <<>>

Listed(c) == \E b \in Branch : \E i \in DOMAIN history[b] : history[b][i] = c

\* Two names of which one is a namespace of the other.
Nested(b, c) == b \in Above[c] \/ c \in Above[b]

MapInit ==
  /\ history = [b \in Branch |-> <<>>]
  /\ active = NoBranch

\* A repository starts with an active name and no commit.
Begin(b) ==
  /\ \A c \in Branch : ~ Named(c)
  /\ active = NoBranch
  /\ active' = b
  /\ UNCHANGED history

\* A commit joins the end of the active history; the first one is made when
\* there is no other branch.
Record(c) ==
  /\ active # NoBranch
  /\ ~ Listed(c)
  /\ Named(active) \/ \A b \in Branch : ~ Named(b)
  /\ history' = [history EXCEPT ![active] = Append(@, c)]
  /\ UNCHANGED active

\* A new name gets the whole active history.
Fork(b) ==
  /\ active # NoBranch
  /\ Named(active) /\ ~ Named(b)
  /\ \A c \in Branch : Named(c) => ~ Nested(b, c)
  /\ history' = [history EXCEPT ![b] = history[active]]
  /\ UNCHANGED active

Drop(b) ==
  /\ Named(b)
  /\ active \notin {b, NoBranch}
  /\ history' = [history EXCEPT ![b] = <<>>]
  /\ UNCHANGED active

Activate(b) ==
  /\ Named(b)
  /\ active' = b
  /\ UNCHANGED history

Lose ==
  /\ active' = NoBranch
  /\ UNCHANGED history

MapNext ==
  \/ \E b \in Branch : Begin(b) \/ Fork(b) \/ Drop(b) \/ Activate(b)
  \/ \E c \in Commit : Record(c)
  \/ Lose

MapSpec == MapInit /\ [][MapNext]_mapVars
=============================================================================
