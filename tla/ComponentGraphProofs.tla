------------------------ MODULE ComponentGraphProofs ------------------------
(***************************************************************************)
(* What the walk leaves in the component graph, for every set of           *)
(* descriptors and every number of workers: the dependents are exact and   *)
(* there is one kubernetes component, in whatever order the workers call   *)
(* AddComponentDependencies and whatever a race on the queue loses.        *)
(***************************************************************************)
EXTENDS ComponentWalkerProofs

\* All that c refers to lists c, but for what is in the set.
RecordedBut(c, rest) == \A d \in References[c] \ ({c} \cup rest) : c \in dependents[d]

\* c is registered, and is the kubernetes component if it is labelled so.
IsRegistered(c) ==
    /\ c \in resources
    /\ c \in KubernetesRefs => kubernetesComponent = c

(***************************************************************************)
(* The queue has what was recorded as somebody's dependency, and the root. *)
(* A component that nobody depends on, which is what addComponent takes    *)
(* for the root, thus is the root.                                         *)
(***************************************************************************)
Queueable == Known \cup {Root, Zero}

QueuedKnown ==
    /\ heap \in Seq(Seq(Queueable))
    /\ \A w \in Workers : item[w] \in Queueable

\* What a worker with the item c has told the graph, at p.
Told(p, c, rest) ==
    /\ p \in {"discovering", "finishing"} \cup Pushing => c \in Refs /\ IsRegistered(c)
    /\ p = "discovering" => rest \subseteq References[c] /\ RecordedBut(c, rest)
    /\ p \in {"finishing"} \cup Pushing => RecordedBut(c, {})

WorkRecorded == \A w \in Workers : Told(pc[w], item[w], todo[w])

GraphExact ==
    /\ \A c \in Refs : processed[c] > 0 => IsRegistered(c) /\ RecordedBut(c, {})
    /\ \A d \in Refs : \A c \in dependents[d] \ {d, RootMarker} :
           d \in References[c] /\ c \in resources
    /\ \A d \in Refs : RootMarker \in dependents[d] => d = Root

-----------------------------------------------------------------------------
(* The steps that change the graph, and those that do not. *)

GraphStep(w) == RegisterFails(w) \/ Register(w) \/ Discover(w)

(***************************************************************************)
(* Other steps only take a worker on that is registering already, or end   *)
(* its work on an item.                                                    *)
(***************************************************************************)
LEMMA QuietStep ==
    ASSUME TypeOK, WorkersConsistent, [Next]_vars, \A w \in Workers : ~GraphStep(w)
    PROVE  /\ UNCHANGED graphVars
           /\ \A v \in Workers :
                  /\ pc'[v] = "discovering" =>
                         pc[v] = "discovering" /\ todo'[v] = todo[v] /\ item'[v] = item[v]
                  /\ pc'[v] \in {"finishing"} \cup Pushing =>
                         pc[v] \in {"finishing"} \cup Pushing /\ item'[v] = item[v]
           /\ \A c \in Refs : processed'[c] > 0 =>
                  \/ processed[c] > 0
                  \/ \E v \in Workers : pc[v] = "finishing" /\ item[v] = c
<1>1. CASE Walk \/ Terminated \/ UNCHANGED vars
  BY <1>1 DEF Walk, PushRoot, BeginWait, Return, Terminated, vars, queueVars, historyVars
<1>2. ASSUME NEW w \in Workers, StartWorker(w) \/ Work(w)
      PROVE  /\ UNCHANGED graphVars
             /\ \A v \in Workers :
                    /\ pc'[v] = "discovering" =>
                           pc[v] = "discovering" /\ todo'[v] = todo[v] /\ item'[v] = item[v]
                    /\ pc'[v] \in {"finishing"} \cup Pushing =>
                           pc[v] \in {"finishing"} \cup Pushing /\ item'[v] = item[v]
             /\ \A c \in Refs : processed'[c] > 0 =>
                    \/ processed[c] > 0
                    \/ \E v \in Workers : pc[v] = "finishing" /\ item[v] = c
  <2> USE DEF Goto, TypeOK, queueVars, historyVars, Pushing
  <2>1. CASE Prepare(w)
    BY <2>1 DEF Prepare
  <2>2. CASE PopNothing(w)
    BY <2>2 DEF PopNothing
  <2>3. CASE PopElement(w)
    BY <2>3 DEF PopElement
  <2>4. CASE PopAdvance(w)
    BY <2>4 DEF PopAdvance
  <2>5. CASE NothingPrepared(w)
    BY <2>5 DEF NothingPrepared
  <2>6. CASE Exit(w)
    BY <2>6 DEF Exit
  <2>7. CASE Sleep(w)
    BY <2>7 DEF Sleep
  <2>8. CASE Wake(w)
    BY <2>8 DEF Wake
  <2>9. CASE LookupFails(w)
    BY <2>9 DEF LookupFails
  <2>10. CASE PushRead(w)
    BY <2>10 DEF PushRead
  <2>11. CASE PushPublish(w)
    BY <2>11 DEF PushPublish
  <2>12. CASE PushGrow(w)
    BY <2>12 DEF PushGrow
  <2>13. CASE PushReplace(w)
    BY <2>13 DEF PushReplace
  <2>14. CASE PushStore(w)
    BY <2>14 DEF PushStore
  <2>15. CASE Finish(w)
    BY <2>15 DEF Finish
  <2>16. CASE FinishFailed(w)
    BY <2>16 DEF FinishFailed
  <2>17. CASE addError(w)
    BY <2>17 DEF addError
  <2>18. CASE StartWorker(w)
    BY <2>18 DEF StartWorker
  <2> QED
    BY <1>2, <2>1, <2>2, <2>3, <2>4, <2>5, <2>6, <2>7, <2>8, <2>9, <2>10, <2>11,
       <2>12, <2>13, <2>14, <2>15, <2>16, <2>17, <2>18
       DEF Work, GraphStep
<1> QED
  BY <1>1, <1>2 DEF Next

(***************************************************************************)
(* What is in the graph stays there.                                       *)
(***************************************************************************)
GraphGrows ==
    /\ resources \subseteq resources'
    /\ \A d \in Refs : dependents[d] \subseteq dependents'[d]
    /\ kubernetesComponent # Zero => kubernetesComponent' = kubernetesComponent

LEMMA OperationsGrow ==
    ASSUME TypeOK, NEW c \in Refs
    PROVE  /\ addComponent(c) => GraphGrows
           /\ addComponentFails(c) => GraphGrows
           /\ \A d \in Refs : AddComponentDependency(c, d) => GraphGrows
<1>1. ASSUME addComponent(c) PROVE GraphGrows
  <2>1. \A d \in Refs : dependents[d] \subseteq dependents'[d]
    BY <1>1 DEF addComponent, Known, TypeOK, GraphTypeOK
  <2> QED
    BY <1>1, <2>1 DEF addComponent, NonUniqueKubernetes, GraphGrows
<1>2. ASSUME addComponentFails(c) PROVE GraphGrows
  <2>1. resources \subseteq resources' /\ dependents' = dependents
    BY <1>2 DEF addComponentFails
  <2>2. \/ kubernetesComponent' = kubernetesComponent
        \/ c \in KubernetesRefs /\ ~NonUniqueKubernetes(c)
    BY <1>2 DEF addComponentFails
  <2> QED
    BY <2>1, <2>2 DEF NonUniqueKubernetes, GraphGrows
<1>3. ASSUME NEW d \in Refs, AddComponentDependency(c, d) PROVE GraphGrows
  <2>1. UNCHANGED <<resources, kubernetesComponent>>
    BY <1>3 DEF AddComponentDependency
  <2>2. CASE UNCHANGED dependents
    BY <2>1, <2>2 DEF GraphGrows
  <2>3. CASE dependents' = [dependents EXCEPT ![d] = @ \cup {c}]
    BY <2>1, <2>3 DEF GraphGrows, TypeOK, GraphTypeOK
  <2> QED
    BY <1>3, <2>2, <2>3 DEF AddComponentDependency
<1> QED
  BY <1>1, <1>2, <1>3

\* Growing preserves what is known of a component.
LEMMA GrowthPreserves ==
    ASSUME GraphGrows, NEW c \in Refs
    PROVE  /\ IsRegistered(c) => IsRegistered(c)'
           /\ \A rest : RecordedBut(c, rest) => RecordedBut(c, rest)'
<1>1. References[c] \subseteq Refs /\ c # Zero
  BY GraphAssumption
<1> QED
  BY <1>1 DEF GraphGrows, IsRegistered, RecordedBut

LEMMA NextGrows ==
    ASSUME TypeOK, WorkersConsistent, [Next]_vars
    PROVE  GraphGrows
<1>1. ASSUME NEW w \in Workers, GraphStep(w) PROVE GraphGrows
  <2>1. item[w] \in Refs
    BY <1>1 DEF GraphStep, RegisterFails, Register, Discover, DiscoverDependency,
       Goto, WorkersConsistent
  <2>2. \A d \in todo[w] : d \in Refs
    BY DEF TypeOK
  <2> QED
    BY <1>1, <2>1, <2>2, OperationsGrow
       DEF GraphStep, RegisterFails, Register, Discover, DiscoverDependency
<1>2. CASE \A w \in Workers : ~GraphStep(w)
  BY <1>2, QuietStep DEF GraphGrows, graphVars
<1> QED
  BY <1>1, <1>2

-----------------------------------------------------------------------------
(* The memory of the queue. *)

\* More may be queued as more is known.
LEMMA SequencesGrow ==
    ASSUME NEW S, NEW T, S \subseteq T, NEW h \in Seq(Seq(S))
    PROVE  h \in Seq(Seq(T))
<1>1. \A i \in 1 .. Len(h) : h[i] \in Seq(T)
  <2> SUFFICES ASSUME NEW i \in 1 .. Len(h) PROVE h[i] \in Seq(T)
    OBVIOUS
  <2>1. h[i] \in Seq(S)
    OBVIOUS
  <2> QED
    BY <2>1
<1> QED
  BY <1>1

LEMMA NextQueued ==
    ASSUME TypeOK, PushesReserved, WorkersConsistent, QueuedKnown, [Next]_vars
    PROVE  QueuedKnown'
<1>1. Queueable \subseteq Queueable' /\ Zero \in Queueable' /\ Root \in Queueable'
  BY KnownGrows DEF Queueable
<1>2. heap \in Seq(Seq(Queueable'))
  BY <1>1, SequencesGrow DEF QueuedKnown
<1>3. \A w \in Workers : item[w] \in Queueable'
  BY <1>1 DEF QueuedKnown
<1>4. CASE UNCHANGED <<heap, item>>
  BY <1>2, <1>3, <1>4 DEF QueuedKnown
<1>5. CASE PushRoot
  <2>1. heap' = <<<<Root>>>> /\ item' = item
    BY <1>5 DEF PushRoot
  <2>2. <<Root>> \in Seq(Queueable')
    BY <1>1
  <2> QED
    BY <1>3, <2>1, <2>2 DEF QueuedKnown
<1>6. ASSUME NEW w \in Workers, PopElement(w) PROVE QueuedKnown'
  <2>1. Element(queue, 1) \in Queueable'
    BY <1>1, <1>2, ElementType DEF TypeOK
  <2>2. heap' \in Seq(Seq(Queueable'))
    BY <1>1, <1>2, <1>6, SetElementType DEF PopElement, TypeOK
  <2>3. \A v \in Workers : item'[v] \in Queueable'
    BY <1>3, <1>6, <2>1 DEF PopElement, TypeOK
  <2> QED
    BY <2>2, <2>3 DEF QueuedKnown
<1>7. ASSUME NEW w \in Workers, PushGrow(w) PROVE QueuedKnown'
  <2>1. GrownArray(snapshot[w]) \in Seq(Queueable')
    BY <1>1, <1>2, GrownArrayType DEF TypeOK
  <2>2. heap' = Append(heap, GrownArray(snapshot[w])) /\ item' = item
    BY <1>7 DEF PushGrow
  <2> QED
    BY <1>2, <1>3, <2>1, <2>2 DEF QueuedKnown
<1>8. ASSUME NEW w \in Workers, PushStore(w) PROVE QueuedKnown'
  <2>1. newItems[w] \in Seq(Refs) /\ newItems[w] # <<>> /\ snapshot[w] \in Header
    BY <1>8 DEF PushStore, Goto, WorkersConsistent, Pushing, TypeOK
  <2>2. 1 \in DOMAIN newItems[w] /\ Head(newItems[w]) = newItems[w][1]
    BY <2>1
  <2>3. Head(newItems[w]) \in Queueable'
    BY <1>1, <2>2 DEF PushesReserved, Queueable
  <2>4. snapshot[w].len + 1 \in Nat
    BY <2>1 DEF Header
  <2>5. heap' \in Seq(Seq(Queueable'))
    BY <1>1, <1>2, <1>8, <2>1, <2>3, <2>4, SetElementType DEF PushStore
  <2> QED
    BY <1>3, <1>8, <2>5 DEF PushStore, QueuedKnown
<1> QED
  BY <1>4, <1>5, <1>6, <1>7, <1>8
     DEF Next, Walk, BeginWait, Return, Terminated, StartWorker, Work, Prepare,
         PopNothing, PopAdvance, NothingPrepared, Exit, Sleep, Wake, LookupFails,
         RegisterFails, Register, Discover, DiscoverDependency, PushRead,
         PushPublish, PushReplace, Finish, FinishFailed, addError, vars, queueVars

-----------------------------------------------------------------------------
(* The graph. *)

GraphInv == WorkRecorded /\ GraphExact

\* What is needed of the walker.
Premises == TypeOK /\ WorkersConsistent /\ QueuedKnown

(***************************************************************************)
(* addComponent, whether what comes after it fails or not.  It adds the    *)
(* marker of the root only to a component that is not known, and of those  *)
(* only the root can have come out of the queue.                           *)
(***************************************************************************)
LEMMA AddedExactly ==
    ASSUME Premises, GraphExact, NEW w \in Workers, NEW c \in Refs, item[w] = c,
           addComponent(c), UNCHANGED processed
    PROVE  GraphExact' /\ IsRegistered(c)'
<1>1. GraphGrows
  BY OperationsGrow DEF Premises
<1>2. IsRegistered(c)'
  BY DEF addComponent, IsRegistered
<1>3. CASE c \in Known
  <2>1. UNCHANGED dependents
    BY <1>3 DEF addComponent
  <2> QED
    BY <1>1, <1>2, <2>1, GrowthPreserves DEF GraphExact, GraphGrows
<1>4. CASE c \notin Known
  <2>1. c = Root
    BY <1>4, GraphAssumption DEF Premises, QueuedKnown, Queueable
  <2>2. \A d \in Refs : dependents'[d] = IF d = c THEN {RootMarker} ELSE dependents[d]
    BY <1>4 DEF addComponent, Premises, TypeOK, GraphTypeOK
  <2>3. \A d \in Refs : \A e \in dependents'[d] \ {d, RootMarker} :
            d \in References[e] /\ e \in resources'
    BY <1>1, <2>2 DEF GraphExact, GraphGrows
  <2>4. \A d \in Refs : RootMarker \in dependents'[d] => d = Root
    BY <2>1, <2>2 DEF GraphExact
  <2>5. \A e \in Refs : processed'[e] > 0 => IsRegistered(e)' /\ RecordedBut(e, {})'
    BY <1>1, GrowthPreserves DEF GraphExact
  <2> QED
    BY <1>2, <2>3, <2>4, <2>5 DEF GraphExact
<1> QED
  BY <1>3, <1>4

\* A step of one worker on the graph disturbs nobody else.
LEMMA ToldStays ==
    ASSUME GraphGrows, NEW p, NEW c, NEW rest, Told(p, c, rest)
    PROVE  Told(p, c, rest)'
<1>1. CASE c \in Refs
  BY <1>1, GrowthPreserves DEF Told
<1>2. CASE c \notin Refs
  BY <1>2 DEF Told
<1> QED
  BY <1>1, <1>2

LEMMA OthersTold ==
    ASSUME GraphGrows, WorkRecorded, NEW v \in Workers,
           pc'[v] = pc[v], item'[v] = item[v], todo'[v] = todo[v]
    PROVE  Told(pc[v], item[v], todo[v])'
<1>1. PICK p, c, rest : p = pc[v] /\ c = item[v] /\ rest = todo[v]
  OBVIOUS
<1>2. Told(p, c, rest)'
  BY <1>1, ToldStays DEF WorkRecorded
<1> QED
  BY <1>1, <1>2 DEF Told, IsRegistered, RecordedBut

LEMMA QuietExact ==
    ASSUME Premises, GraphInv, [Next]_vars, \A w \in Workers : ~GraphStep(w)
    PROVE  GraphInv'
<1>1. GraphGrows /\ UNCHANGED graphVars
  BY NextGrows, QuietStep DEF Premises
<1>2. ASSUME NEW v \in Workers PROVE Told(pc[v], item[v], todo[v])'
  <2>1. /\ pc'[v] = "discovering" =>
               pc[v] = "discovering" /\ todo'[v] = todo[v] /\ item'[v] = item[v]
        /\ pc'[v] \in {"finishing"} \cup Pushing =>
               pc[v] \in {"finishing"} \cup Pushing /\ item'[v] = item[v]
    BY QuietStep DEF Premises
  <2>2. Told(pc[v], item[v], todo[v])
    BY DEF GraphInv, WorkRecorded
  <2> QED
    BY <1>1, <2>1, <2>2 DEF Told, IsRegistered, RecordedBut, graphVars, Pushing
<1>3. ASSUME NEW c \in Refs, processed'[c] > 0
      PROVE  IsRegistered(c) /\ RecordedBut(c, {})
  <2>1. CASE processed[c] > 0
    BY <2>1 DEF GraphInv, GraphExact
  <2>2. ASSUME NEW v \in Workers, pc[v] = "finishing", item[v] = c
        PROVE  IsRegistered(c) /\ RecordedBut(c, {})
    BY <2>2 DEF GraphInv, WorkRecorded, Told
  <2> QED
    BY <1>3, <2>1, <2>2, QuietStep DEF Premises
<1>4. GraphExact'
  BY <1>1, <1>3 DEF GraphInv, GraphExact, IsRegistered, RecordedBut, graphVars
<1> QED
  BY <1>2, <1>4 DEF GraphInv, WorkRecorded

(***************************************************************************)
(* A worker that registers its item has all of its references ahead of it. *)
(***************************************************************************)
LEMMA RegisterExact ==
    ASSUME Premises, GraphInv, NEW w \in Workers, Register(w)
    PROVE  GraphInv'
<1>0. PICK c : c = item[w]
  OBVIOUS
<1>1. /\ c \in Refs /\ addComponent(c) /\ UNCHANGED <<item, processed>>
      /\ pc' = [pc EXCEPT ![w] = IF References[c] = {} THEN "finishing" ELSE "discovering"]
      /\ todo' = [todo EXCEPT ![w] = References[c]]
  BY <1>0 DEF Register, Goto, historyVars
<1>2. GraphGrows
  BY <1>1, OperationsGrow DEF Premises
<1>3. GraphExact' /\ IsRegistered(c)'
  BY <1>0, <1>1, AddedExactly DEF GraphInv
<1>4. ASSUME NEW v \in Workers PROVE Told(pc[v], item[v], todo[v])'
  <2>1. CASE v = w
    <3>1. /\ pc'[v] = IF References[c] = {} THEN "finishing" ELSE "discovering"
          /\ item'[v] = c /\ todo'[v] = References[c]
      BY <1>0, <1>1, <2>1 DEF Premises, TypeOK
    <3> QED
      BY <1>1, <1>3, <3>1 DEF Told, RecordedBut, IsRegistered, Pushing
  <2>2. CASE v # w
    <3>1. pc'[v] = pc[v] /\ item'[v] = item[v] /\ todo'[v] = todo[v]
      BY <1>1, <2>2 DEF Premises, TypeOK
    <3> QED
      BY <1>2, <3>1, OthersTold DEF GraphInv
  <2> QED
    BY <2>1, <2>2
<1> QED
  BY <1>3, <1>4 DEF GraphInv, WorkRecorded

LEMMA RegisterFailsExact ==
    ASSUME Premises, GraphInv, NEW w \in Workers, RegisterFails(w)
    PROVE  GraphInv'
<1>0. PICK c : c = item[w]
  OBVIOUS
<1>1. /\ c \in Refs /\ (addComponent(c) \/ addComponentFails(c))
      /\ UNCHANGED <<item, processed, todo>>
      /\ pc' = [pc EXCEPT ![w] = "failing"]
  BY <1>0 DEF RegisterFails, Goto, historyVars
<1>2. GraphGrows
  BY <1>1, OperationsGrow DEF Premises
<1>3. GraphExact'
  <2>1. CASE addComponent(c)
    BY <1>0, <1>1, <2>1, AddedExactly DEF GraphInv
  <2>2. CASE addComponentFails(c)
    <3>1. UNCHANGED dependents
      BY <2>2 DEF addComponentFails
    <3> QED
      BY <1>1, <1>2, <3>1, GrowthPreserves DEF GraphInv, GraphExact, GraphGrows
  <2> QED
    BY <1>1, <2>1, <2>2
<1>4. ASSUME NEW v \in Workers PROVE Told(pc[v], item[v], todo[v])'
  <2>1. CASE v = w
    BY <1>1, <2>1 DEF Told, Pushing, Premises, TypeOK
  <2>2. CASE v # w
    <3>1. pc'[v] = pc[v] /\ item'[v] = item[v] /\ todo'[v] = todo[v]
      BY <1>1, <2>2 DEF Premises, TypeOK
    <3> QED
      BY <1>2, <3>1, OthersTold DEF GraphInv
  <2> QED
    BY <2>1, <2>2
<1> QED
  BY <1>3, <1>4 DEF GraphInv, WorkRecorded

(***************************************************************************)
(* A reference that was handled lists the component, one that is left is   *)
(* still to be handled; when none is left the component is recorded.       *)
(***************************************************************************)
LEMMA DiscoverExact ==
    ASSUME Premises, GraphInv, NEW w \in Workers, NEW d \in todo[w],
           DiscoverDependency(w, d)
    PROVE  GraphInv'
<1>0. PICK c : c = item[w]
  OBVIOUS
<1>1. /\ pc[w] = "discovering" /\ AddComponentDependency(c, d)
      /\ UNCHANGED <<item, processed>>
      /\ todo' = [todo EXCEPT ![w] = @ \ {d}]
  BY <1>0 DEF DiscoverDependency, Goto, historyVars
<1>2. /\ \A v \in Workers \ {w} : pc'[v] = pc[v]
      /\ todo'[w] # {} => pc'[w] = "discovering"
      /\ todo'[w] = {} => pc'[w] \in {"pushing", "finishing"}
  BY DEF DiscoverDependency, Goto, Premises, TypeOK
<1>3. /\ c \in Refs /\ d \in Refs /\ IsRegistered(c)
      /\ todo[w] \subseteq References[c] /\ RecordedBut(c, todo[w])
  BY <1>0, <1>1 DEF GraphInv, WorkRecorded, Told, Premises, TypeOK
<1>4. GraphGrows
  BY <1>1, <1>3, OperationsGrow DEF Premises
<1>5. \A e \in Refs :
          dependents'[e] = IF e = d /\ c # d THEN dependents[e] \cup {c} ELSE dependents[e]
  <2>1. CASE c = d
    BY <1>1, <2>1 DEF AddComponentDependency
  <2>2. CASE c # d
    BY <1>1, <1>3, <2>2 DEF AddComponentDependency, Premises, TypeOK, GraphTypeOK
  <2> QED
    BY <2>1, <2>2
<1>6. GraphExact'
  <2>1. \A e \in Refs : \A f \in dependents'[e] \ {e, RootMarker} :
            e \in References[f] /\ f \in resources'
    <3> TAKE e \in Refs
    <3> TAKE f \in dependents'[e] \ {e, RootMarker}
    <3>1. CASE f \in dependents[e]
      BY <1>4, <3>1 DEF GraphInv, GraphExact, GraphGrows
    <3>2. CASE f \notin dependents[e]
      <4>1. f = c /\ e = d
        BY <1>5, <3>2
      <4> QED
        BY <1>3, <1>4, <4>1 DEF IsRegistered, GraphGrows
    <3> QED
      BY <3>1, <3>2
  <2>2. \A e \in Refs : RootMarker \in dependents'[e] => e = Root
    BY <1>3, <1>5, GraphAssumption DEF GraphInv, GraphExact
  <2>3. \A e \in Refs : processed'[e] > 0 => IsRegistered(e)' /\ RecordedBut(e, {})'
    BY <1>1, <1>4, GrowthPreserves DEF GraphInv, GraphExact
  <2> QED
    BY <2>1, <2>2, <2>3 DEF GraphExact
<1>7. ASSUME NEW v \in Workers PROVE Told(pc[v], item[v], todo[v])'
  <2>1. CASE v = w
    <3>1. item'[w] = c /\ todo'[w] = todo[w] \ {d}
      BY <1>0, <1>1 DEF Premises, TypeOK
    <3>2. IsRegistered(c)'
      BY <1>3, <1>4, GrowthPreserves
    <3>3. \A e \in References[c] \ ({c} \cup (todo[w] \ {d})) : c \in dependents'[e]
      BY <1>3, <1>5, GraphAssumption DEF RecordedBut
    <3>4. pc'[w] = "discovering" \/ todo'[w] = {}
      BY <1>2
    <3> QED
      BY <1>2, <1>3, <2>1, <3>1, <3>2, <3>3, <3>4
         DEF Told, RecordedBut, IsRegistered, Pushing
  <2>2. CASE v # w
    <3>1. pc'[v] = pc[v] /\ item'[v] = item[v] /\ todo'[v] = todo[v]
      BY <1>1, <1>2, <2>2 DEF Premises, TypeOK
    <3> QED
      BY <1>4, <3>1, OthersTold DEF GraphInv
  <2> QED
    BY <2>1, <2>2
<1> QED
  BY <1>6, <1>7 DEF GraphInv, WorkRecorded

LEMMA NextGraph ==
    ASSUME Premises, GraphInv, [Next]_vars
    PROVE  GraphInv'
<1>1. ASSUME NEW w \in Workers, GraphStep(w) PROVE GraphInv'
  BY <1>1, RegisterExact, RegisterFailsExact, DiscoverExact DEF GraphStep, Discover
<1>2. ASSUME \A w \in Workers : ~GraphStep(w) PROVE GraphInv'
  BY <1>2, QuietExact
<1> QED
  BY <1>1, <1>2

-----------------------------------------------------------------------------
(* The theorems. *)

Inv == PoolInv /\ RootFirst /\ PushesReserved /\ QueuedKnown /\ GraphInv

LEMMA InitExact == Init => Inv
<1> SUFFICES ASSUME Init PROVE RootFirst /\ PushesReserved /\ QueuedKnown /\ GraphInv
  BY InitPool DEF Inv
<1>1. RootFirst
  BY DEF Init, RootFirst, Pushing
<1>2. PushesReserved
  BY DEF Init, PushesReserved
<1>3. QueuedKnown
  BY DEF Init, QueuedKnown, Queueable
<1>4. WorkRecorded
  BY DEF Init, WorkRecorded, Told, Pushing
<1>5. GraphExact
  BY DEF Init, NewComponents, GraphExact
<1> QED
  BY <1>1, <1>2, <1>3, <1>4, <1>5 DEF GraphInv

LEMMA NextExact == Inv /\ [Next]_vars => Inv'
<1> SUFFICES ASSUME Inv, [Next]_vars PROVE Inv'
  OBVIOUS
<1>1. PoolInv'
  BY NextType, NextConsistent, NextCounters, NextWatched, NextWalk, NextFailures
     DEF Inv, PoolInv
<1>2. RootFirst' /\ PushesReserved' /\ QueuedKnown'
  BY NextRootFirst, NextReserved, NextQueued DEF Inv, PoolInv
<1>3. Premises /\ GraphInv
  BY DEF Inv, PoolInv, Premises
<1> QED
  BY <1>1, <1>2, <1>3, NextGraph DEF Inv

(***************************************************************************)
(* In whatever order the workers add their dependencies, the dependents    *)
(* that are recorded are those of the descriptors that were processed.     *)
(***************************************************************************)
THEOREM DependentsAreExact == Spec => []DependentsExact
<1>1. ASSUME Inv PROVE DependentsExact
  <2>1. \A d \in Refs : \A c \in Refs \ {d} :
            c \in dependents[d] => d \in References[c] /\ c \in resources
    BY <1>1, GraphAssumption DEF Inv, GraphInv, GraphExact
  <2>2. \A d \in Refs : \A c \in Refs \ {d} :
            processed[c] > 0 /\ d \in References[c] => c \in dependents[d]
    BY <1>1 DEF Inv, GraphInv, GraphExact, RecordedBut
  <2> QED
    BY <1>1, <2>1, <2>2 DEF Inv, GraphInv, GraphExact, DependentsExact
<1> QED
  BY <1>1, InitExact, NextExact, PTL DEF Spec

(***************************************************************************)
(* However many workers meet a kubernetes component at once, one of them   *)
(* is recorded and no other is processed.                                  *)
(***************************************************************************)
THEOREM KubernetesIsUnique == Spec => []KubernetesUnique
<1>1. Inv => KubernetesUnique
  BY GraphAssumption
     DEF Inv, GraphInv, GraphExact, IsRegistered, KubernetesUnique
<1> QED
  BY <1>1, InitExact, NextExact, PTL DEF Spec
=============================================================================
