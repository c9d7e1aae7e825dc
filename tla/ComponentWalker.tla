-------------------------- MODULE ComponentWalker ---------------------------
(***************************************************************************)
(* The worker pool that walks the component references of a landscape.     *)
(* Workers pop a reference from a shared queue, look its descriptor up,    *)
(* record it in Components and push the references nobody recorded before. *)
(*                                                                         *)
(* The queue is a Go slice.  Popping holds ComponentWalker.lock; pushing   *)
(* what a descriptor refers to does not.  The slice is therefore modelled  *)
(* as memory: a header naming an array, and arrays that growing leaves     *)
(* behind.  A push reads the header, publishes the new one, and stores the *)
(* element, in the order in which the compiled append does; other workers  *)
(* run in between.                                                         *)
(***************************************************************************)
EXTENDS ComponentGraph

CONSTANT Workers

ASSUME WorkersAssumption == IsFiniteSet(Workers) /\ Workers # {}

VARIABLES
    main,            \* where Walk is
    result,          \* what Walk returned
    pc,              \* where each worker is
    item,            \* the reference each worker popped
    todo,            \* dependencies still to be added, per worker
    newItems,        \* newly added references still to be pushed, per worker
    snapshot,        \* the slice header each pusher works with
    queue,           \* the slice header
    heap,            \* the arrays, the last one allocated last
    lock,            \* the workers inside ComponentWalker.lock
    itemsPreparing,
    waitGroup,
    errs,
    processed,       \* history: how often each reference was processed
    failed,          \* history: the references whose processing failed
    pushed           \* history: how often each reference was handed to Push

queueVars == <<snapshot, queue, heap>>
historyVars == <<processed, failed, pushed>>
vars == <<main, result, pc, item, todo, newItems, queueVars, lock,
          itemsPreparing, waitGroup, errs, historyVars, graphVars>>

-----------------------------------------------------------------------------
(* A slice of references. *)

Header == [arr : Nat, off : Nat, len : Nat]
EmptySlice == [arr |-> 0, off |-> 0, len |-> 0]

\* The element i of a slice; memory beyond the array holds no reference.
Element(h, i) ==
    IF h.arr \in DOMAIN heap /\ h.off + i \in DOMAIN heap[h.arr]
    THEN heap[h.arr][h.off + i]
    ELSE Zero

Capacity(h) == IF h.arr \in DOMAIN heap THEN Len(heap[h.arr]) - h.off ELSE 0

\* append doubles the capacity of a full slice.
GrownCapacity(h) ==
    IF 2 * Capacity(h) > h.len THEN 2 * Capacity(h) ELSE h.len + 1

GrownArray(h) ==
    [i \in 1 .. GrownCapacity(h) |->
        IF i <= h.len THEN Element(h, i) ELSE Zero]

SetElement(h, i, x) == [heap EXCEPT ![h.arr] = [@ EXCEPT ![h.off + i] = x]]

-----------------------------------------------------------------------------
(* Where a worker can be. *)

\* handing over what is in newItems
Pushing == {"pushing", "publishing", "growing", "replacing", "storing"}
\* between itemsPreparing.Add(1) and itemsPreparing.Add(-1)
Counted == {"popping", "advancing", "nothing", "processing", "discovering",
            "finishing", "failing"} \cup Pushing
\* sure to look at the queue again before it may exit
Looking == (Counted \ {"nothing"})
               \cup {"unborn", "idle", "reporting", "sleeping"}
Label == Counted \cup Looking \cup {"checking", "done"}

CountedWorkers == {w \in Workers : pc[w] \in Counted}
RunningWorkers == {w \in Workers : pc[w] \notin {"unborn", "done"}}
FailedRefs == {errs[i] : i \in DOMAIN errs}

Init ==
    /\ NewComponents
    /\ main = "pushing"
    /\ result = "none"
    /\ pc = [w \in Workers |-> "unborn"]
    /\ item = [w \in Workers |-> Zero]
    /\ todo = [w \in Workers |-> {}]
    /\ newItems = [w \in Workers |-> <<>>]
    /\ snapshot = [w \in Workers |-> EmptySlice]
    /\ queue = EmptySlice
    /\ heap = <<>>
    /\ lock = {}
    /\ itemsPreparing = 0
    /\ waitGroup = 0
    /\ errs = <<>>
    /\ processed = [c \in Refs |-> 0]
    /\ failed = {}
    /\ pushed = [c \in Refs |-> 0]

Goto(w, from, to) == pc[w] = from /\ pc' = [pc EXCEPT ![w] = to]

-----------------------------------------------------------------------------
(* Walk and Start *)

PushRoot ==
    /\ main = "pushing"
    /\ main' = "starting"
    /\ heap' = <<<<Root>>>>
    /\ queue' = [arr |-> 1, off |-> 0, len |-> 1]
    /\ pushed' = [pushed EXCEPT ![Root] = @ + 1]
    /\ UNCHANGED <<result, pc, item, todo, newItems, snapshot, lock,
                   itemsPreparing, waitGroup, errs, processed, failed, graphVars>>

StartWorker(w) ==
    /\ main = "starting"
    /\ Goto(w, "unborn", "idle")
    /\ waitGroup' = waitGroup + 1
    /\ UNCHANGED <<main, result, item, todo, newItems, queueVars, lock,
                   itemsPreparing, errs, historyVars, graphVars>>

BeginWait ==
    /\ main = "starting"
    /\ \A w \in Workers : pc[w] # "unborn"
    /\ main' = "waiting"
    /\ UNCHANGED <<result, pc, item, todo, newItems, queueVars, lock,
                   itemsPreparing, waitGroup, errs, historyVars, graphVars>>

\* Mutant: Walk does not wait for its workers.
ReturnUnawaited ==
    /\ main = "waiting"
    /\ main' = "returned"
    /\ result' = IF errs # <<>> THEN "error" ELSE "ok"
    /\ UNCHANGED <<pc, item, todo, newItems, queueVars, lock, itemsPreparing,
                   waitGroup, errs, historyVars, graphVars>>

Return ==
    /\ main = "waiting"
    /\ waitGroup = 0
    /\ main' = "returned"
    /\ result' = IF errs # <<>> THEN "error" ELSE "ok"
    /\ UNCHANGED <<pc, item, todo, newItems, queueVars, lock, itemsPreparing,
                   waitGroup, errs, historyVars, graphVars>>

-----------------------------------------------------------------------------
(* worker: the loop around popComponentReference *)

Prepare(w) ==
    /\ Goto(w, "idle", "popping")
    /\ itemsPreparing' = itemsPreparing + 1
    /\ UNCHANGED <<main, result, item, todo, newItems, queueVars, lock,
                   waitGroup, errs, historyVars, graphVars>>

\* Mutant: Pop without asking for the length.
PopUnchecked == FALSE

\* Len() == 0, seen under the lock
QueueEmpty == queue.len = 0

PopNothing(w) ==
    /\ lock = {}
    /\ QueueEmpty
    /\ Goto(w, "popping", "nothing")
    /\ UNCHANGED <<main, result, item, todo, newItems, queueVars, lock,
                   itemsPreparing, waitGroup, errs, historyVars, graphVars>>

\* Pop takes the first element and clears its slot ...
PopElement(w) ==
    /\ lock = {}
    /\ ~QueueEmpty
    /\ Goto(w, "popping", "advancing")
    /\ lock' = {w}
    /\ item' = [item EXCEPT ![w] = Element(queue, 1)]
    /\ heap' = SetElement(queue, 1, Zero)
    /\ snapshot' = [snapshot EXCEPT ![w] = queue]
    /\ UNCHANGED <<main, result, todo, newItems, queue, itemsPreparing,
                   waitGroup, errs, historyVars, graphVars>>

\* ... and reslices.
PopAdvance(w) ==
    /\ Goto(w, "advancing", "processing")
    /\ queue' = [snapshot[w] EXCEPT !.off = @ + 1, !.len = @ - 1]
    /\ lock' = lock \ {w}
    /\ UNCHANGED <<main, result, item, todo, newItems, snapshot, heap,
                   itemsPreparing, waitGroup, errs, historyVars, graphVars>>

NothingPrepared(w) ==
    /\ Goto(w, "nothing", "checking")
    /\ itemsPreparing' = itemsPreparing - 1
    /\ UNCHANGED <<main, result, item, todo, newItems, queueVars, lock,
                   waitGroup, errs, historyVars, graphVars>>

Exit(w) ==
    /\ itemsPreparing = 0
    /\ Goto(w, "checking", "done")
    /\ waitGroup' = waitGroup - 1
    /\ UNCHANGED <<main, result, item, todo, newItems, queueVars, lock,
                   itemsPreparing, errs, historyVars, graphVars>>

\* Mutant: a worker that must wait polls again at once.
SleepSkipped(w) ==
    /\ itemsPreparing # 0
    /\ Goto(w, "checking", "idle")
    /\ UNCHANGED <<main, result, item, todo, newItems, queueVars, lock,
                   itemsPreparing, waitGroup, errs, historyVars, graphVars>>

Sleep(w) ==
    /\ itemsPreparing # 0
    /\ Goto(w, "checking", "sleeping")
    /\ UNCHANGED <<main, result, item, todo, newItems, queueVars, lock,
                   itemsPreparing, waitGroup, errs, historyVars, graphVars>>

Wake(w) ==
    /\ Goto(w, "sleeping", "idle")
    /\ UNCHANGED <<main, result, item, todo, newItems, queueVars, lock,
                   itemsPreparing, waitGroup, errs, historyVars, graphVars>>

-----------------------------------------------------------------------------
(* processComponentReference *)

\* No repository has the component, a blob cannot be loaded, or the descriptor
\* file cannot be written.  The zero reference has no name and version.
LookupFails(w) ==
    /\ item[w] \in Faulty \cup {Zero}
    /\ Goto(w, "processing", "failing")
    /\ UNCHANGED <<main, result, item, todo, newItems, queueVars, lock,
                   itemsPreparing, waitGroup, errs, historyVars, graphVars>>

\* AddComponentDependencies fails in addComponent, or after it, when the
\* references of the descriptor cannot be read.
RegisterFails(w) ==
    /\ item[w] \in Refs
    /\ Goto(w, "processing", "failing")
    /\ \/ addComponentFails(item[w])
       \/ item[w] \in Faulty /\ addComponent(item[w])
    /\ UNCHANGED <<main, result, item, todo, newItems, queueVars, lock,
                   itemsPreparing, waitGroup, errs, historyVars>>

Register(w) ==
    /\ item[w] \in Refs
    /\ Goto(w, "processing",
            IF References[item[w]] = {} THEN "finishing" ELSE "discovering")
    /\ addComponent(item[w])
    /\ todo' = [todo EXCEPT ![w] = References[item[w]]]
    /\ UNCHANGED <<main, result, item, newItems, queueVars, lock,
                   itemsPreparing, waitGroup, errs, historyVars>>

DiscoverDependency(w, d) ==
    /\ todo' = [todo EXCEPT ![w] = @ \ {d}]
    /\ newItems' = IF NewlyAdded(item[w], d)
                   THEN [newItems EXCEPT ![w] = Append(@, d)]
                   ELSE newItems
    /\ Goto(w, "discovering",
            IF todo'[w] # {} THEN "discovering"
            ELSE IF newItems'[w] # <<>> THEN "pushing" ELSE "finishing")
    /\ AddComponentDependency(item[w], d)
    /\ UNCHANGED <<main, result, item, queueVars, lock, itemsPreparing,
                   waitGroup, errs, historyVars>>

\* AddComponentDependencies ranges over a map: the order is anyone's.
Discover(w) == \E d \in todo[w] : DiscoverDependency(w, d)

\* append loads the header;
PushRead(w) ==
    /\ Goto(w, "pushing",
            IF queue.len < Capacity(queue) THEN "publishing" ELSE "growing")
    /\ snapshot' = [snapshot EXCEPT ![w] = queue]
    /\ pushed' = [pushed EXCEPT ![Head(newItems[w])] = @ + 1]
    /\ UNCHANGED <<main, result, item, todo, newItems, queue, heap, lock,
                   itemsPreparing, waitGroup, errs, processed, failed, graphVars>>

\* while the array has room it writes back the length only,
PushPublish(w) ==
    /\ Goto(w, "publishing", "storing")
    /\ queue' = [queue EXCEPT !.len = snapshot[w].len + 1]
    /\ UNCHANGED <<main, result, item, todo, newItems, snapshot, heap, lock,
                   itemsPreparing, waitGroup, errs, historyVars, graphVars>>

\* otherwise it copies the elements to a new array
PushGrow(w) ==
    /\ Goto(w, "growing", "replacing")
    /\ heap' = Append(heap, GrownArray(snapshot[w]))
    /\ snapshot' = [snapshot EXCEPT ![w] =
                        [arr |-> Len(heap) + 1, off |-> 0, len |-> @.len]]
    /\ UNCHANGED <<main, result, item, todo, newItems, queue, lock,
                   itemsPreparing, waitGroup, errs, historyVars, graphVars>>

\* and writes back the whole header;
PushReplace(w) ==
    /\ Goto(w, "replacing", "storing")
    /\ queue' = [snapshot[w] EXCEPT !.len = @ + 1]
    /\ UNCHANGED <<main, result, item, todo, newItems, snapshot, heap, lock,
                   itemsPreparing, waitGroup, errs, historyVars, graphVars>>

\* Mutant: only the first new reference is pushed.
PushFirstOnly(w) ==
    /\ Goto(w, "storing", "finishing")
    /\ heap' = SetElement(snapshot[w], snapshot[w].len + 1, Head(newItems[w]))
    /\ newItems' = [newItems EXCEPT ![w] = Tail(@)]
    /\ UNCHANGED <<main, result, item, todo, snapshot, queue, lock,
                   itemsPreparing, waitGroup, errs, historyVars, graphVars>>

\* the element is stored last.
PushStore(w) ==
    /\ Goto(w, "storing",
            IF Len(newItems[w]) > 1 THEN "pushing" ELSE "finishing")
    /\ heap' = SetElement(snapshot[w], snapshot[w].len + 1, Head(newItems[w]))
    /\ newItems' = [newItems EXCEPT ![w] = Tail(@)]
    /\ UNCHANGED <<main, result, item, todo, snapshot, queue, lock,
                   itemsPreparing, waitGroup, errs, historyVars, graphVars>>

\* Mutant: a worker that is done with an item may exit.
FinishAndCheck(w) ==
    /\ Goto(w, "finishing", "checking")
    /\ itemsPreparing' = itemsPreparing - 1
    /\ processed' = [processed EXCEPT ![item[w]] = @ + 1]
    /\ UNCHANGED <<main, result, item, todo, newItems, queueVars, lock,
                   waitGroup, errs, failed, pushed, graphVars>>

Finish(w) ==
    /\ Goto(w, "finishing", "idle")
    /\ itemsPreparing' = itemsPreparing - 1
    /\ processed' = [processed EXCEPT ![item[w]] = @ + 1]
    /\ UNCHANGED <<main, result, item, todo, newItems, queueVars, lock,
                   waitGroup, errs, failed, pushed, graphVars>>

\* Mutant: the error path forgets itemsPreparing.Add(-1).
FinishStillCounted(w) ==
    /\ Goto(w, "failing", "reporting")
    /\ failed' = failed \cup {item[w]}
    /\ UNCHANGED <<main, result, item, todo, newItems, queueVars, lock,
                   itemsPreparing, waitGroup, errs, processed, pushed, graphVars>>

FinishFailed(w) ==
    /\ Goto(w, "failing", "reporting")
    /\ itemsPreparing' = itemsPreparing - 1
    /\ failed' = failed \cup {item[w]}
    /\ UNCHANGED <<main, result, item, todo, newItems, queueVars, lock,
                   waitGroup, errs, processed, pushed, graphVars>>

addError(w) ==
    /\ lock = {}
    /\ Goto(w, "reporting", "idle")
    /\ errs' = Append(errs, item[w])
    /\ UNCHANGED <<main, result, item, todo, newItems, queueVars, lock,
                   itemsPreparing, waitGroup, historyVars, graphVars>>

-----------------------------------------------------------------------------
Work(w) ==
    \/ Prepare(w) \/ PopNothing(w) \/ PopElement(w) \/ PopAdvance(w)
    \/ NothingPrepared(w) \/ Exit(w) \/ Sleep(w) \/ Wake(w)
    \/ LookupFails(w) \/ RegisterFails(w) \/ Register(w) \/ Discover(w)
    \/ PushRead(w) \/ PushPublish(w) \/ PushGrow(w) \/ PushReplace(w)
    \/ PushStore(w) \/ Finish(w) \/ FinishFailed(w) \/ addError(w)

Walk == PushRoot \/ BeginWait \/ Return

\* After Walk has returned nothing is left running.
Terminated == main = "returned" /\ UNCHANGED vars

Next == Walk \/ Terminated \/ \E w \in Workers : StartWorker(w) \/ Work(w)

Spec == Init /\ [][Next]_vars

\* The Go scheduler runs every goroutine that can run, Walk's included.
FairSpec ==
    /\ Spec
    /\ WF_vars(Walk)
    /\ \A w \in Workers : WF_vars(StartWorker(w)) /\ WF_vars(Work(w))

-----------------------------------------------------------------------------
TypeOK ==
    /\ GraphTypeOK
    /\ main \in {"pushing", "starting", "waiting", "returned"}
    /\ result \in {"none", "ok", "error"}
    /\ pc \in [Workers -> Label]
    /\ item \in [Workers -> Refs \cup {Zero}]
    /\ todo \in [Workers -> SUBSET Refs]
    /\ newItems \in [Workers -> Seq(Refs)]
    /\ snapshot \in [Workers -> Header]
    /\ queue \in Header
    /\ heap \in Seq(Seq(Refs \cup {Zero}))
    /\ lock \subseteq Workers
    /\ itemsPreparing \in Int
    /\ waitGroup \in Int
    /\ errs \in Seq(Refs \cup {Zero})
    /\ processed \in [Refs -> Nat]
    /\ failed \subseteq Refs \cup {Zero}
    /\ pushed \in [Refs -> Nat]

\* What a worker holds at each point of its loop.
WorkersConsistent ==
    \A w \in Workers :
        /\ pc[w] = "advancing" => snapshot[w].len > 0
        /\ pc[w] \in {"discovering", "finishing"} \cup Pushing => item[w] \in Refs
        /\ pc[w] \in Pushing => newItems[w] # <<>>

\* Where Walk is fits where the workers are, and what it returns.
WalkConsistent ==
    /\ main = "pushing" => \A w \in Workers : pc[w] = "unborn"
    /\ main \in {"waiting", "returned"} => \A w \in Workers : pc[w] # "unborn"
    /\ main = "returned" =>
           /\ \A w \in Workers : pc[w] = "done"
           /\ result = IF errs # <<>> THEN "error" ELSE "ok"

\* A failure is recorded, or a worker is about to record it.
FailuresAccounted ==
    failed = FailedRefs
                 \cup {item[w] : w \in {v \in Workers : pc[v] = "reporting"}}

\* Nothing but the root is processed before the root is recorded.
RootFirst ==
    \/ Root \in Known
    \/ /\ \A w \in Workers : /\ item[w] \in {Root, Zero}
                             /\ pc[w] \notin {"discovering"} \cup Pushing
       /\ heap \in Seq(Seq({Root, Zero}))

\* newItems[w][i], unless its push has begun
PushBegun(w, i) == i = 1 /\ pc[w] \in Pushing \ {"pushing"}

\* A reference to be pushed is known, was not pushed, and is to be pushed by
\* one worker once.
PushesReserved ==
    /\ \A c \in Refs : /\ pushed[c] > 0 => c \in Known \cup {Root}
                       /\ pushed[c] <= 1
    /\ main = "pushing" => /\ \A c \in Refs : pushed[c] = 0
                           /\ \A w \in Workers : newItems[w] = <<>>
    /\ \A w \in Workers : \A i \in DOMAIN newItems[w] :
           /\ newItems[w][i] \in Known
           /\ ~PushBegun(w, i) => pushed[newItems[w][i]] = 0
    /\ \A v, w \in Workers :
           \A i \in DOMAIN newItems[v], j \in DOMAIN newItems[w] :
               newItems[v][i] = newItems[w][j] => v = w /\ i = j

(***************************************************************************)
(* The counters that decide when workers exit and when Walk returns count  *)
(* what they are meant to (itemsPreparing and waitGroup in walk.go), and   *)
(* at most one worker is inside the lock.                                  *)
(***************************************************************************)
CountersExact ==
    /\ itemsPreparing = Cardinality(CountedWorkers)
    /\ waitGroup = Cardinality(RunningWorkers)
    /\ lock = {w \in Workers : pc[w] = "advancing"}
    /\ \A v, w \in lock : v = w

(***************************************************************************)
(* A queue that is not empty is never left behind: some worker is bound to *)
(* look at it again, although a worker exits on a counter and not on the   *)
(* queue, and although the queue itself is raced for.                      *)
(***************************************************************************)
QueueIsWatched ==
    queue.len > 0 => \E w \in Workers : pc[w] \in Looking

(***************************************************************************)
(* When Walk returns, no worker is running, the queue is empty, and the    *)
(* error it returns joins exactly the processing errors that occurred,     *)
(* although a worker records its error after it stopped counting itself.   *)
(***************************************************************************)
ReturnsWhenQuiet ==
    main = "returned" =>
        /\ \A w \in Workers : pc[w] = "done"
        /\ queue.len = 0
        /\ FailedRefs = failed
        /\ result = IF failed = {} THEN "ok" ELSE "error"

(***************************************************************************)
(* However many components refer to a component, in cycles or to itself,   *)
(* only one worker is told that it is new and pushes it.                   *)
(***************************************************************************)
PushedOnce == \A c \in Refs : pushed[c] <= 1

(***************************************************************************)
(* GetDependents is complete and exact for what has been processed, in     *)
(* whatever order the workers added their dependencies.                    *)
(***************************************************************************)
DependentsExact ==
    \A d \in Refs :
        /\ \A c \in Refs \ {d} :
               /\ processed[c] > 0 /\ d \in References[c] => c \in dependents[d]
               /\ c \in dependents[d] => d \in References[c] /\ c \in resources
        /\ RootMarker \in dependents[d] => d = Root

(***************************************************************************)
(* The dependencies of a component that was processed are itself, first,   *)
(* and what it refers to, each once.                                       *)
(***************************************************************************)
DependenciesExact ==
    \A c \in Refs : processed[c] > 0 =>
        LET deps == dependencies[c] IN
        /\ deps[1] = c
        /\ {deps[i] : i \in DOMAIN deps} = {c} \cup References[c]
        /\ Len(deps) = Cardinality({c} \cup References[c])

(***************************************************************************)
(* A kubernetes component that was processed is the one recorded, in every *)
(* walk: two are never processed, and if the walk meets two, whichever     *)
(* comes second fails and leaves the one recorded alone (addComponent).    *)
(***************************************************************************)
KubernetesUnique ==
    \A c \in KubernetesRefs : processed[c] > 0 => kubernetesComponent = c

(***************************************************************************)
(* "Walk all dependencies of the root component descriptor": a walk that   *)
(* reports success has processed every component it came to know.          *)
(***************************************************************************)
AllDependenciesWalked ==
    result = "ok" => \A c \in Known : processed[c] > 0

(***************************************************************************)
(* A single worker implements the abstract traversal, its progress         *)
(* included.                                                               *)
(***************************************************************************)
Traversal == INSTANCE ComponentTraversal WITH
    visited <- {c \in Refs : processed[c] > 0}, failed <- FailedRefs

Walks == Traversal!TraversalSpec
=============================================================================
