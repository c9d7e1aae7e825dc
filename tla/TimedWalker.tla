---------------------------- MODULE TimedWalker -----------------------------
(***************************************************************************)
(* The worker pool of ComponentWalker with the little of time that its     *)
(* termination depends on.                                                 *)
(*                                                                         *)
(* A worker that finds the queue empty raises and lowers itemsPreparing    *)
(* around the look, and sleeps if it still reads another worker's count.   *)
(* Workers may fall asleep together, wake together and read each other's   *)
(* count again.  What the length of the sleep gives is weaker than that    *)
(* they do not: looking at an empty queue takes a few instructions, so     *)
(* that somewhere in a sleep of 100ms there is a moment at which no worker *)
(* is looking.  A worker does not sleep through less than that.            *)
(***************************************************************************)
EXTENDS ComponentWalker

VARIABLE slept    \* the sleeping workers whose time may be over

timedVars == <<vars, slept>>

\* between itemsPreparing.Add(1) and itemsPreparing.Load(), nothing popped
Looks == {"popping", "nothing", "checking"}

\* A moment without polling; other workers may be processing components.
Quiet == \A w \in Workers : pc[w] \notin Looks

\* Time passes with every step; only those whose sleep is over wake up.
Sleeping ==
    /\ slept' = {w \in Workers : pc'[w] = "sleeping" /\ (w \in slept \/ Quiet')}
    /\ \A w \in Workers :
           pc[w] = "sleeping" /\ pc'[w] # "sleeping" => w \in slept

TimedInit == Init /\ slept = {}

TimedNext == Next /\ Sleeping

\* The Go scheduler runs every goroutine that can run, and a timer fires.
TimedSpec ==
    /\ TimedInit /\ [][TimedNext]_timedVars
    /\ WF_timedVars(Walk /\ Sleeping)
    /\ \A w \in Workers : /\ WF_timedVars(StartWorker(w) /\ Sleeping)
                          /\ WF_timedVars(Work(w) /\ Sleeping)

(***************************************************************************)
(* Every walk returns, although nobody wakes a worker up and workers that  *)
(* poll at the same time read each other's count (walk.go, worker).        *)
(***************************************************************************)
WalkReturns == <>(main = "returned")
=============================================================================
