------------------------- MODULE ComponentTraversal -------------------------
(***************************************************************************)
(* What `resolve ocm` promises of a walk, whatever the number of workers:  *)
(* starting from the root, every component a visited descriptor refers to  *)
(* is visited once, or its visit fails; the walk ends when nothing is left *)
(* to visit, and reports an error exactly when a visit failed.             *)
(***************************************************************************)
CONSTANTS Refs, Root, References

VARIABLES visited, failed, result

traversalVars == <<visited, failed, result>>

Found == {Root} \cup UNION {References[c] : c \in visited}
Pending == Found \ (visited \cup failed)

TraversalInit == visited = {} /\ failed = {} /\ result = "none"

Visit(c) ==
    /\ result = "none"
    /\ visited' = visited \cup {c}
    /\ UNCHANGED <<failed, result>>

FailVisit(c) ==
    /\ result = "none"
    /\ failed' = failed \cup {c}
    /\ UNCHANGED <<visited, result>>

EndWalk ==
    /\ result = "none"
    /\ Pending = {}
    /\ result' = IF failed = {} THEN "ok" ELSE "error"
    /\ UNCHANGED <<visited, failed>>

TraversalNext ==
    \/ \E c \in Pending : Visit(c) \/ FailVisit(c)
    \/ EndWalk

\* The order of the visits ...
TraversalSafety == TraversalInit /\ [][TraversalNext]_traversalVars

\* ... and that they come to an end.
TraversalSpec == TraversalSafety /\ WF_traversalVars(TraversalNext)
=============================================================================
