------------------------- MODULE MCLandscapeGeneration -------------------------
(* Instances of LandscapeGeneration. *)
EXTENDS LandscapeGeneration, TLC

\* repositories.base.target and repositories.landscape.target are "./".
AtRoot == [r \in Repositories |-> "root"]

\* Several landscapes share a repository.
LandscapesFirst == [base |-> "root", landscape |-> "landscapes/first"]

\* Nothing tells the components apart.
ComponentSymmetry == Permutations(Components)
=============================================================================
