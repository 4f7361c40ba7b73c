---------------------------- MODULE AtomicCheckout ----------------------------
(***************************************************************************)
(* What a pull promises of a working directory: its files and the branch   *)
(* tip change together, in one step, from the old snapshot to the new one, *)
(* and until then the user's editor is the only one to touch the files.    *)
(* Module Checkout is shown to implement it, where a half-done swap counts *)
(* as what its recovery restores.                                          *)
(***************************************************************************)
CONSTANTS Name, OldEntries, NewEntries

VARIABLES
  tip,   \* the commit that the branch log ends with: "old" or "new"
  files  \* files[n]: what the top-level entry n holds

checkoutVars == <<tip, files>>

OldFiles == [n \in Name |-> IF n \in OldEntries THEN "old" ELSE "none"]
NewFiles == [n \in Name |-> IF n \in NewEntries THEN "new" ELSE "none"]

AtomicInit == tip = "old" /\ files = OldFiles

\* The user changes a file or creates one.
EditFile(n) ==
  /\ tip = "old"
  /\ files' = [files EXCEPT ![n] = "edited"]
  /\ UNCHANGED tip

\* The pull takes effect; it replaces the old snapshot and nothing else.
Swap ==
  /\ tip = "old" /\ files = OldFiles
  /\ tip' = "new" /\ files' = NewFiles

AtomicNext == Swap \/ \E n \in Name : EditFile(n)

AtomicSpec == AtomicInit /\ [][AtomicNext]_checkoutVars
=============================================================================
