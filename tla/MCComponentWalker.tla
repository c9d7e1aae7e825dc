------------------------- MODULE MCComponentWalker --------------------------
(***************************************************************************)
(* Small component graphs for the model checker.                           *)
(***************************************************************************)
EXTENDS ComponentWalker, TLC

CONSTANTS r, a, b, c, d

\* Several references to one component, cycles, and references to oneself.
Cycle == r :> {a, b} @@ a :> {a, b} @@ b :> {a, r}
Line == r :> {a} @@ a :> {b} @@ b :> {}
Chain == r :> {a, b} @@ a :> {} @@ b :> {}
Knot == r :> {a, b, c} @@ a :> {d, b} @@ b :> {a, r} @@ c :> {} @@ d :> {d, r}

WorkerSymmetry == Permutations(Workers)
=============================================================================
