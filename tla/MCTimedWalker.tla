--------------------------- MODULE MCTimedWalker ----------------------------
(***************************************************************************)
(* The timed walker on the graphs of MCComponentWalker.                    *)
(***************************************************************************)
EXTENDS MCComponentWalker, TimedWalker
=============================================================================
