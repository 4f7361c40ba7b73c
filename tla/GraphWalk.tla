------------------------------ MODULE GraphWalk ------------------------------
(***************************************************************************)
(* The loop that decides whether object graphs can be used: validateGraph  *)
(* in src/server/refs.go, which judges one new tip, and loadGraph in       *)
(* src/remote/graph.go, which loads the histories of a push, a pull or a   *)
(* clone.  Both keep a stack of typed references, a map of the objects     *)
(* met, and two running totals.                                            *)
(***************************************************************************)
EXTENDS Objects, SequencesExt

CONSTANT Roots  \* the lists of roots that walks start from

ASSUME RootsAssumption == Roots \subseteq Seq(Hash)

VARIABLES
  roots,       \* the roots of this walk
  readable,    \* the objects that GetObject, readObject or Get can return
  pending,     \* the stack of references still to visit
  seen,        \* the objects accepted, each under the kind it has
  references,  \* the running count of references, the roots included
  total,       \* the running count of bytes
  fault,       \* history: a read of an existing object failed
  verdict      \* "walking", or how the walk ended

walkVars == <<roots, readable, pending, seen, references, total, fault, verdict>>

Verdicts == {"walking", "ok", "incomplete", "limit", "cancelled"}

CommitRef(h) == [hash |-> h, type |-> "commit"]

-----------------------------------------------------------------------------
\* graph.history, on a graph that was loaded: the ancestors of c and c, each
\* after its parents; acc holds the commits that were visited before.
history[c \in Hash, acc \in Seq(Hash)] ==
  IF c \in Range(acc)
    THEN acc
    ELSE Append(FoldLeft(LAMBDA a, r : history[r.hash, a], acc, Tail(Refs[c])), c)

History(c) == history[c, <<>>]

-----------------------------------------------------------------------------
\* The roots are pushed as commits; loadGraph already refuses too many.
Init ==
  /\ roots \in Roots
  /\ readable \in SUBSET Hash
  /\ pending = [i \in DOMAIN roots |-> CommitRef(roots[i])]
  /\ seen = {}
  /\ references = Len(roots)
  /\ total = 0
  /\ fault = FALSE
  /\ verdict = IF Len(roots) > MaxGraphObjects THEN "limit" ELSE "walking"

\* The reference on top of the stack, which every turn of the loop pops.
ref == Last(pending)

Turn == verdict = "walking" /\ pending # <<>>

End(v) ==
  /\ verdict' = v
  /\ UNCHANGED <<roots, readable, pending, seen, references, total>>

\* Mutant: a reference to an object met before is skipped whatever it claims.
SkipAnyKind ==
  /\ Turn
  /\ ref.hash \in seen
  /\ pending' = Front(pending)
  /\ UNCHANGED <<roots, readable, seen, references, total, fault, verdict>>

\* Mutant: the loop looks at the top of the stack and does not pop it.
SkipWithoutPop ==
  /\ Turn
  /\ ref.hash \in seen
  /\ Kind[ref.hash] = ref.type
  /\ UNCHANGED walkVars

\* The object was met before, under the kind claimed now: continue.
SkipSeen ==
  /\ Turn
  /\ ref.hash \in seen
  /\ Kind[ref.hash] = ref.type
  /\ pending' = Front(pending)
  /\ UNCHANGED <<roots, readable, seen, references, total, fault, verdict>>

\* Mutant: meeting an object twice is taken for a cycle.
SharedIsCycle ==
  /\ Turn
  /\ ref.hash \in seen
  /\ End("incomplete")
  /\ UNCHANGED fault

\* It was met before under another kind.
TypeClash ==
  /\ Turn
  /\ ref.hash \in seen
  /\ Kind[ref.hash] # ref.type
  /\ End("incomplete")
  /\ UNCHANGED fault

\* It is not there, or is of another kind than the reference claims (the
\* digest of its bytes under the claimed kind is then another name).
LoadRefused ==
  /\ Turn
  /\ ref.hash \notin seen
  /\ ref.hash \notin readable \/ Kind[ref.hash] # ref.type
  /\ End("incomplete")
  /\ UNCHANGED fault

\* Reading an object fails for another reason; the server calls this
\* incomplete too, and the client returns the error.
LoadFails ==
  /\ Turn
  /\ ref.hash \notin seen
  /\ End("incomplete")
  /\ fault' = TRUE

\* Mutant: the bytes are compared before the object is added to them.
OverLimitLate(h) ==
  \/ Cardinality(seen) >= MaxGraphObjects
  \/ total > MaxGraphBytes
  \/ references + Len(Refs[h]) > MaxGraphObjects

\* The limits, with the loaded object counted: the server's test of
\* len(seen), the bytes, and the references.
OverLimit(h) ==
  \/ Cardinality(seen) >= MaxGraphObjects
  \/ total + Size[h] > MaxGraphBytes
  \/ references + Len(Refs[h]) > MaxGraphObjects

Loaded ==
  /\ Turn
  /\ ref.hash \notin seen
  /\ ref.hash \in readable /\ Kind[ref.hash] = ref.type

TooLarge ==
  /\ Loaded
  /\ OverLimit(ref.hash)
  /\ End("limit")
  /\ UNCHANGED fault

\* The object joins the map and its references go onto the stack.
Visit ==
  /\ Loaded
  /\ ~ OverLimit(ref.hash)
  /\ seen' = seen \union {ref.hash}
  /\ total' = total + Size[ref.hash]
  /\ references' = references + Len(Refs[ref.hash])
  /\ pending' = Front(pending) \o Refs[ref.hash]
  /\ UNCHANGED <<roots, readable, fault, verdict>>

\* ctx.Err() at the head of the loop.
Cancel ==
  /\ Turn
  /\ End("cancelled")
  /\ UNCHANGED fault

\* The stack is empty.
Accept ==
  /\ verdict = "walking"
  /\ pending = <<>>
  /\ End("ok")
  /\ UNCHANGED fault

\* What the loop does by itself, with reads that succeed.
Progress ==
  SkipSeen \/ TypeClash \/ LoadRefused \/ TooLarge \/ Visit \/ Accept

Next == Progress \/ LoadFails \/ Cancel

Spec == Init /\ [][Next]_walkVars

\* The loop runs in one goroutine, which is scheduled; nothing obliges a
\* read to fail or a context to be cancelled.
FairSpec == Spec /\ WF_walkVars(Progress)

-----------------------------------------------------------------------------
TypeOK ==
  /\ roots \in Roots
  /\ readable \subseteq Hash
  /\ pending \in Seq(ObjectReference)
  /\ seen \subseteq Hash
  /\ references \in Nat
  /\ total \in Nat
  /\ fault \in BOOLEAN
  /\ verdict \in Verdicts

Wanted == UNION {Reach[roots[i]] : i \in DOMAIN roots}

AllComplete == \A i \in DOMAIN roots : Complete(roots[i], readable)

AllFit ==
  /\ RefTotal(Len(roots), Wanted) <= MaxGraphObjects
  /\ ByteTotal(Wanted) <= MaxGraphBytes

\* An accepted graph really is complete and correctly typed, and the map
\* returned holds exactly what the roots reach: a push uploads all of it, and
\* the server's fast-forward test looks in all of it.
AcceptSound ==
  verdict = "ok" => AllComplete /\ seen = Wanted

\* A graph is only called incomplete when it is, unless a read failed.
IncompleteSound ==
  verdict = "incomplete" /\ ~ fault => ~ AllComplete

\* The running totals decide the budgets of the whole graph: what is
\* accepted is within both, and what is refused for its size is over one.
LimitsExact ==
  /\ verdict = "ok" => AllFit
  /\ verdict = "limit" => ~ AllFit

\* Each object met used up one of the references counted, so the references
\* are the tighter budget and the server's separate bound on len(seen) is
\* never the first to be reached.
SeenWithinReferences ==
  verdict = "walking" =>
    /\ Cardinality(seen) + Len(pending) <= references
    /\ references <= MaxGraphObjects

\* Every walk ends, also in graphs whose paths share objects.
WalkEnds == <>(verdict # "walking")
=============================================================================
