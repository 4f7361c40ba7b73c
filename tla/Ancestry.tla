------------------------------ MODULE Ancestry ------------------------------
(***************************************************************************)
(* The search of core.IsAncestor (src/core/ancestry.go) through the parent *)
(* links that commits record.  A legacy commit (format 1) has parents but  *)
(* no links to them, so that some questions have no answer.                *)
(***************************************************************************)
EXTENDS Sequences, SequencesExt

CONSTANTS
  Commit,      \* commits
  Parents,     \* Parents[c]: the commits that c was made from
  LegacySets   \* the sets of commits that may be of format 1

ASSUME AncestryAssumption ==
  /\ Parents \in [Commit -> Seq(Commit)]
  /\ LegacySets \subseteq SUBSET Commit

VARIABLES
  ancestor, descendant,  \* the question
  legacy,    \* the commits of format 1
  readable,  \* the commits that ReadCommit can return
  pending,   \* the stack of commits to visit
  seen,      \* the commits taken off it
  boundary,  \* the search has met a legacy commit
  fault,     \* history: a read of a readable commit failed
  verdict    \* "start", "searching", or the answer

question == <<ancestor, descendant, legacy, readable>>
searchVars == <<question, pending, seen, boundary, fault, verdict>>

\* decodeCommit: the links of a commit; format 1 may not hold any.
Links(c) == IF c \in legacy THEN <<>> ELSE Parents[c]

SearchInit ==
  /\ ancestor \in Commit
  /\ descendant \in Commit
  /\ legacy \in LegacySets
  /\ readable \in SUBSET Commit
  /\ pending = <<descendant>>
  /\ seen = {}
  /\ boundary = FALSE
  /\ fault = FALSE
  /\ verdict = "start"

Answer(v) ==
  /\ verdict' = v
  /\ UNCHANGED <<question, pending, seen, boundary>>

\* The commit on top of the stack, which every turn of the loop pops.
hash == Last(pending)

Turn == verdict = "searching" /\ pending # <<>>

\* ReadCommit(ancestor): it must exist.
CheckAncestor ==
  /\ verdict = "start"
  /\ Answer(IF ancestor \in readable THEN "searching" ELSE "error")
  /\ UNCHANGED fault

\* seen[hash]: continue.
Skip ==
  /\ Turn
  /\ hash \in seen
  /\ pending' = Front(pending)
  /\ UNCHANGED <<question, seen, boundary, fault, verdict>>

Missing ==
  /\ Turn
  /\ hash \notin seen
  /\ hash \notin readable
  /\ Answer("error")
  /\ UNCHANGED fault

\* A read fails for another reason.
ReadFails ==
  /\ verdict = "start" \/ Turn
  /\ Answer("error")
  /\ fault' = TRUE

Reads == Turn /\ hash \notin seen /\ hash \in readable

Found ==
  /\ Reads
  /\ hash = ancestor
  /\ Answer("true")
  /\ UNCHANGED fault

\* Mutant: the search gives up at the first legacy commit.
ExpandUnlessLegacy ==
  /\ Reads
  /\ hash # ancestor
  /\ seen' = seen \union {hash}
  /\ boundary' = (boundary \/ hash \in legacy)
  /\ pending' = IF hash \in legacy THEN <<>> ELSE Front(pending) \o Links(hash)
  /\ UNCHANGED <<question, fault, verdict>>

\* The commit joins the ones seen, and its links go onto the stack.
Expand ==
  /\ Reads
  /\ hash # ancestor
  /\ seen' = seen \union {hash}
  /\ boundary' = (boundary \/ hash \in legacy)
  /\ pending' = Front(pending) \o Links(hash)
  /\ UNCHANGED <<question, fault, verdict>>

\* Nothing is left: "no" only when no links were missing.
Exhausted ==
  /\ verdict = "searching"
  /\ pending = <<>>
  /\ Answer(IF boundary THEN "legacy" ELSE "false")
  /\ UNCHANGED fault

Progress == CheckAncestor \/ Skip \/ Missing \/ Found \/ Expand \/ Exhausted

SearchNext == Progress \/ ReadFails

SearchSpec == SearchInit /\ [][SearchNext]_searchVars

-----------------------------------------------------------------------------
SearchTypeOK ==
  /\ ancestor \in Commit /\ descendant \in Commit
  /\ legacy \subseteq Commit /\ readable \subseteq Commit
  /\ pending \in Seq(Commit)
  /\ seen \subseteq Commit
  /\ boundary \in BOOLEAN /\ fault \in BOOLEAN
  /\ verdict \in {"start", "searching", "true", "false", "legacy", "error"}

\* The least set that holds c and whatever up leads to from a member.
Closure(c, up) ==
  {x \in Commit : \A S \in SUBSET Commit :
     c \in S /\ (\A d \in S : up[d] \subseteq S) => x \in S}

\* What the descendant was really made from, and what its links tell of it.
Descent == Closure(descendant, [c \in Commit |-> Range(Parents[c])])
Linked == Closure(descendant, [c \in Commit |-> Range(Links(c))])

\* Yes and no are true of the real history, also of the part that legacy
\* commits hide; an ancestor that links lead to is found past any legacy
\* commit on another path; the answer is only withheld when a legacy commit
\* is in the way, and an error only given for a commit that cannot be read.
AnswerSound ==
  /\ verdict = "true" => ancestor \in Linked
  /\ verdict = "false" => ancestor \notin Descent
  /\ verdict = "legacy" => ancestor \notin Linked /\ Linked \cap legacy # {}
  /\ verdict = "error" /\ ~ fault => ~ (Linked \union {ancestor} \subseteq readable)
=============================================================================
