----------------------- MODULE ComponentWalkerProofs ------------------------
(***************************************************************************)
(* What holds of the worker pool for every component graph and every       *)
(* number of workers, the unlocked pushes included.                        *)
(***************************************************************************)
EXTENDS ComponentWalker, FiniteSetTheorems, SequenceTheorems, TLAPS

(***************************************************************************)
(* A function on an initial segment of the naturals is a sequence.         *)
(***************************************************************************)
LEMMA SequenceIntroduction ==
    ASSUME NEW S, NEW n \in Nat, NEW f \in [1 .. n -> S]
    PROVE  f \in Seq(S)
OBVIOUS

(***************************************************************************)
(* Writing an element into the memory of a slice leaves it memory.         *)
(***************************************************************************)
LEMMA SetElementType ==
    ASSUME NEW S, Zero \in S, NEW h \in Header, NEW i \in Nat, NEW x \in S,
           heap \in Seq(Seq(S))
    PROVE  SetElement(h, i, x) \in Seq(Seq(S))
<1> DEFINE array == [heap[h.arr] EXCEPT ![h.off + i] = x]
<1>1. CASE h.arr \in DOMAIN heap
  <2>1. heap[h.arr] \in Seq(S)
    BY <1>1
  <2>2. array \in Seq(S)
    <3>1. CASE h.off + i \in 1 .. Len(heap[h.arr])
      BY <2>1, <3>1, ExceptSeq
    <3>2. CASE h.off + i \notin 1 .. Len(heap[h.arr])
      <4>1. array = heap[h.arr]
        BY <2>1, <3>2
      <4> QED
        BY <2>1, <4>1
    <3> QED
      BY <3>1, <3>2
  <2>3. SetElement(h, i, x) = [heap EXCEPT ![h.arr] = array]
    BY DEF SetElement
  <2> HIDE DEF array
  <2> QED
    BY <1>1, <2>2, <2>3
<1>2. CASE h.arr \notin DOMAIN heap
  <2>1. SetElement(h, i, x) = heap
    BY <1>2 DEF SetElement
  <2> QED
    BY <2>1
<1> QED
  BY <1>1, <1>2

(***************************************************************************)
(* Whatever part of the memory a slice covers, its elements are references *)
(* or zero, and growing it copies nothing else.                            *)
(***************************************************************************)
LEMMA ElementType ==
    ASSUME NEW S, Zero \in S, NEW h \in Header, NEW i \in Nat,
           heap \in Seq(Seq(S))
    PROVE  Element(h, i) \in S
<1>1. CASE h.arr \in DOMAIN heap /\ h.off + i \in DOMAIN heap[h.arr]
  <2>1. heap[h.arr] \in Seq(S)
    BY <1>1
  <2>2. heap[h.arr][h.off + i] \in S
    BY <1>1, <2>1
  <2> QED
    BY <1>1, <2>2 DEF Element
<1>2. CASE ~(h.arr \in DOMAIN heap /\ h.off + i \in DOMAIN heap[h.arr])
  BY <1>2 DEF Element
<1> QED
  BY <1>1, <1>2

LEMMA GrownArrayType ==
    ASSUME NEW S, Zero \in S, NEW h \in Header, heap \in Seq(Seq(S))
    PROVE  GrownArray(h) \in Seq(S)
<1>1. GrownCapacity(h) \in Nat
  <2>1. h.off \in Nat /\ h.len \in Nat
    BY DEF Header
  <2>2. Capacity(h) \in Int
    <3>1. CASE h.arr \in DOMAIN heap
      <4>1. heap[h.arr] \in Seq(S)
        BY <3>1
      <4> QED
        BY <2>1, <3>1, <4>1 DEF Capacity
    <3>2. CASE h.arr \notin DOMAIN heap
      BY <3>2 DEF Capacity
    <3> QED
      BY <3>1, <3>2
  <2> QED
    BY <2>1, <2>2 DEF GrownCapacity
<1>2. \A i \in 1 .. GrownCapacity(h) :
          (IF i <= h.len THEN Element(h, i) ELSE Zero) \in S
  BY <1>1, ElementType
<1>3. GrownArray(h) \in [1 .. GrownCapacity(h) -> S]
  BY <1>2 DEF GrownArray
<1> QED
  BY <1>1, <1>3, SequenceIntroduction

LEMMA GraphTypes ==
    ASSUME GraphTypeOK, NEW c \in Refs, NEW d \in Refs
    PROVE  /\ addComponent(c) => GraphTypeOK'
           /\ addComponentFails(c) => GraphTypeOK'
           /\ AddComponentDependency(c, d) => GraphTypeOK'
<1>1. ASSUME addComponent(c) PROVE GraphTypeOK'
  <2>1. dependents' \in [Refs -> SUBSET (Refs \cup {RootMarker})]
    BY <1>1 DEF GraphTypeOK, addComponent
  <2>2. dependencies' \in [Refs \cup {RootMarker} -> Seq(Refs)]
    <3> DEFINE selfAdded == [dependencies EXCEPT ![c] = Append(@, c)]
    <3>1. selfAdded \in [Refs \cup {RootMarker} -> Seq(Refs)]
      BY DEF GraphTypeOK
    <3>2. [selfAdded EXCEPT ![RootMarker] = Append(@, c)]
              \in [Refs \cup {RootMarker} -> Seq(Refs)]
      BY <3>1
    <3> QED
      BY <1>1, <3>1, <3>2 DEF addComponent
  <2> QED
    BY <1>1, <2>1, <2>2 DEF GraphTypeOK, addComponent
<1>2. ASSUME addComponentFails(c) PROVE GraphTypeOK'
  <2>1. [dependencies EXCEPT ![c] = Append(@, c)]
            \in [Refs \cup {RootMarker} -> Seq(Refs)]
    BY DEF GraphTypeOK
  <2>2. dependencies' \in [Refs \cup {RootMarker} -> Seq(Refs)]
    BY <1>2, <2>1 DEF addComponentFails, GraphTypeOK
  <2>3. resources' \subseteq Refs
    BY <1>2 DEF addComponentFails, GraphTypeOK
  <2>4. mappedImages' \subseteq Refs
    BY <1>2 DEF addComponentFails, GraphTypeOK
  <2>5. UNCHANGED dependents /\ kubernetesComponent' \in Refs \cup {Zero}
    BY <1>2 DEF addComponentFails, GraphTypeOK
  <2> QED
    BY <2>2, <2>3, <2>4, <2>5 DEF GraphTypeOK
<1>3. ASSUME AddComponentDependency(c, d) PROVE GraphTypeOK'
  <2>1. [dependencies EXCEPT ![c] = Append(@, d)]
            \in [Refs \cup {RootMarker} -> Seq(Refs)]
    BY DEF GraphTypeOK
  <2>2. dependencies' \in [Refs \cup {RootMarker} -> Seq(Refs)]
    BY <1>3, <2>1 DEF AddComponentDependency, GraphTypeOK
  <2>3. [dependents EXCEPT ![d] = @ \cup {c}]
            \in [Refs -> SUBSET (Refs \cup {RootMarker})]
    BY DEF GraphTypeOK
  <2>4. dependents' \in [Refs -> SUBSET (Refs \cup {RootMarker})]
    BY <1>3, <2>3 DEF AddComponentDependency, GraphTypeOK
  <2>5. UNCHANGED <<resources, mappedImages, kubernetesComponent>>
    BY <1>3 DEF AddComponentDependency
  <2> QED
    BY <2>2, <2>4, <2>5 DEF GraphTypeOK
<1> QED
  BY <1>1, <1>2, <1>3

(***************************************************************************)
(* Type correctness, by one step per action.                               *)
(***************************************************************************)
LEMMA InitType == Init => TypeOK
<1> SUFFICES ASSUME Init PROVE TypeOK
  OBVIOUS
<1>1. GraphTypeOK
  BY DEF Init, NewComponents, GraphTypeOK
<1>2. pc \in [Workers -> Label]
  BY DEF Init, Label, Looking
<1> QED
  BY <1>1, <1>2 DEF Init, TypeOK, EmptySlice, Header

LEMMA NextType == TypeOK /\ WorkersConsistent /\ [Next]_vars => TypeOK'
<1> SUFFICES ASSUME TypeOK, WorkersConsistent, [Next]_vars PROVE TypeOK'
  OBVIOUS
<1> USE DEF TypeOK, vars, graphVars, historyVars, queueVars, Goto
<1>1. ASSUME NEW from, NEW to \in Label, NEW w \in Workers, Goto(w, from, to)
      PROVE  pc' \in [Workers -> Label]
  BY <1>1
<1>2. ASSUME graphVars' = graphVars PROVE GraphTypeOK'
  BY <1>2 DEF GraphTypeOK
<1>3. /\ Counted \subseteq Label
      /\ {"idle", "reporting", "sleeping", "checking", "done"} \subseteq Label
  BY DEF Label, Looking, Counted, Pushing
<1>4. CASE Walk
  <2>1. CASE PushRoot
    BY <2>1, <1>2, GraphAssumption DEF PushRoot, Header
  <2>2. CASE BeginWait
    BY <2>2, <1>2 DEF BeginWait
  <2>3. CASE Return
    BY <2>3, <1>2 DEF Return
  <2> QED
    BY <1>4, <2>1, <2>2, <2>3 DEF Walk
<1>5. CASE Terminated \/ UNCHANGED vars
  BY <1>5, <1>2 DEF Terminated
<1>6. ASSUME NEW w \in Workers, StartWorker(w) PROVE TypeOK'
  BY <1>6, <1>1, <1>2, <1>3 DEF StartWorker
<1>7. ASSUME NEW w \in Workers, Work(w) PROVE TypeOK'
  <2>1. CASE Prepare(w)
    BY <2>1, <1>1, <1>2, <1>3 DEF Prepare, Counted, Pushing
  <2>2. CASE PopNothing(w)
    BY <2>2, <1>1, <1>2, <1>3 DEF PopNothing, Counted, Pushing
  <2>3. CASE PopElement(w)
    <3>1. Element(queue, 1) \in Refs \cup {Zero}
      BY ElementType
    <3>2. heap' \in Seq(Seq(Refs \cup {Zero}))
      BY <2>3, SetElementType DEF PopElement
    <3> QED
      BY <2>3, <1>1, <1>2, <1>3, <3>1, <3>2 DEF PopElement, Counted, Pushing
  <2>4. CASE PopAdvance(w)
    <3>1. snapshot[w].len - 1 \in Nat
      BY <2>4 DEF PopAdvance, WorkersConsistent, Header
    <3>2. queue' = [arr |-> snapshot[w].arr, off |-> snapshot[w].off + 1,
                    len |-> snapshot[w].len - 1]
      BY <2>4 DEF PopAdvance, Header
    <3>3. queue' \in Header
      BY <3>1, <3>2 DEF Header
    <3> QED
      BY <2>4, <1>1, <1>2, <1>3, <3>3 DEF PopAdvance, Counted, Pushing
  <2>5. CASE NothingPrepared(w)
    BY <2>5, <1>1, <1>2, <1>3 DEF NothingPrepared, Counted, Pushing
  <2>6. CASE Exit(w)
    BY <2>6, <1>1, <1>2, <1>3 DEF Exit, Counted, Pushing
  <2>7. CASE Sleep(w)
    BY <2>7, <1>1, <1>2, <1>3 DEF Sleep, Counted, Pushing
  <2>8. CASE Wake(w)
    BY <2>8, <1>1, <1>2, <1>3 DEF Wake, Counted, Pushing
  <2>9. CASE LookupFails(w)
    BY <2>9, <1>1, <1>2, <1>3 DEF LookupFails, Counted, Pushing
  <2>10. CASE RegisterFails(w)
    <3>1. GraphTypeOK'
      BY <2>10, GraphTypes DEF RegisterFails
    <3> QED
      BY <2>10, <1>1, <1>3, <3>1 DEF RegisterFails, Counted, Pushing
  <2>11. CASE Register(w)
    <3>1. GraphTypeOK'
      BY <2>11, GraphTypes DEF Register
    <3>2. References[item[w]] \subseteq Refs
      BY <2>11, GraphAssumption DEF Register
    <3> QED
      BY <2>11, <1>1, <1>3, <3>1, <3>2 DEF Register, Counted, Pushing
  <2>12. CASE Discover(w)
    <3>1. PICK d \in todo[w] : DiscoverDependency(w, d)
      BY <2>12 DEF Discover
    <3>2. item[w] \in Refs /\ d \in Refs
      BY <3>1 DEF DiscoverDependency, WorkersConsistent
    <3>3. GraphTypeOK'
      BY <3>1, <3>2, GraphTypes DEF DiscoverDependency
    <3>4. newItems' \in [Workers -> Seq(Refs)]
      BY <3>1, <3>2 DEF DiscoverDependency
    <3> QED
      BY <1>1, <1>3, <3>1, <3>3, <3>4 DEF DiscoverDependency, Counted, Pushing
  <2>13. CASE PushRead(w)
    <3>1. Head(newItems[w]) \in Refs
      BY <2>13, HeadTailProperties DEF PushRead, WorkersConsistent, Pushing
    <3>2. pushed' \in [Refs -> Nat]
      BY <2>13, <3>1 DEF PushRead
    <3> QED
      BY <2>13, <1>1, <1>2, <1>3, <3>2 DEF PushRead, Counted, Pushing
  <2>14. CASE PushPublish(w)
    <3>1. queue' = [arr |-> queue.arr, off |-> queue.off,
                    len |-> snapshot[w].len + 1]
      BY <2>14 DEF PushPublish, Header
    <3>2. queue' \in Header
      BY <3>1 DEF Header
    <3> QED
      BY <2>14, <1>1, <1>2, <1>3, <3>2 DEF PushPublish, Counted, Pushing
  <2>15. CASE PushGrow(w)
    <3>1. GrownArray(snapshot[w]) \in Seq(Refs \cup {Zero})
      BY GrownArrayType
    <3>2. heap' \in Seq(Seq(Refs \cup {Zero}))
      BY <2>15, <3>1 DEF PushGrow
    <3>3. snapshot' \in [Workers -> Header]
      BY <2>15 DEF PushGrow, Header
    <3> QED
      BY <2>15, <1>1, <1>2, <1>3, <3>2, <3>3 DEF PushGrow, Counted, Pushing
  <2>16. CASE PushReplace(w)
    <3>1. queue' = [arr |-> snapshot[w].arr, off |-> snapshot[w].off,
                    len |-> snapshot[w].len + 1]
      BY <2>16 DEF PushReplace, Header
    <3>2. queue' \in Header
      BY <3>1 DEF Header
    <3> QED
      BY <2>16, <1>1, <1>2, <1>3, <3>2 DEF PushReplace, Counted, Pushing
  <2>17. CASE PushStore(w)
    <3>1. newItems[w] \in Seq(Refs) /\ newItems[w] # <<>>
      BY <2>17 DEF PushStore, WorkersConsistent, Pushing
    <3>2. Head(newItems[w]) \in Refs /\ Tail(newItems[w]) \in Seq(Refs)
      BY <3>1, HeadTailProperties
    <3>3. snapshot[w].len + 1 \in Nat
      BY DEF Header
    <3>4. heap' \in Seq(Seq(Refs \cup {Zero}))
      BY <2>17, <3>2, <3>3, SetElementType DEF PushStore
    <3>5. newItems' \in [Workers -> Seq(Refs)]
      BY <2>17, <3>2 DEF PushStore
    <3> QED
      BY <2>17, <1>1, <1>2, <1>3, <3>4, <3>5 DEF PushStore, Counted, Pushing
  <2>18. CASE Finish(w)
    <3>1. processed' \in [Refs -> Nat]
      BY <2>18 DEF Finish, WorkersConsistent
    <3> QED
      BY <2>18, <1>1, <1>2, <1>3, <3>1 DEF Finish, Counted
  <2>19. CASE FinishFailed(w)
    BY <2>19, <1>1, <1>2, <1>3 DEF FinishFailed, Counted, Pushing
  <2>20. CASE addError(w)
    BY <2>20, <1>1, <1>2, <1>3 DEF addError, Counted, Pushing
  <2> QED
    BY <1>7, <2>1, <2>2, <2>3, <2>4, <2>5, <2>6, <2>7, <2>8, <2>9, <2>10, <2>11, <2>12, <2>13, <2>14, <2>15, <2>16, <2>17, <2>18, <2>19, <2>20 DEF Work
<1> QED
  BY <1>4, <1>5, <1>6, <1>7 DEF Next

(***************************************************************************)
(* What a worker holds fits where it is.                                   *)
(***************************************************************************)
LEMMA NextConsistent ==
    TypeOK /\ WorkersConsistent /\ [Next]_vars => WorkersConsistent'
<1> SUFFICES ASSUME TypeOK, WorkersConsistent, [Next]_vars
             PROVE  WorkersConsistent'
  OBVIOUS
<1> USE DEF TypeOK, WorkersConsistent, vars, queueVars, Goto, Pushing
<1>1. CASE Walk \/ Terminated \/ UNCHANGED vars
  BY <1>1 DEF Walk, PushRoot, BeginWait, Return, Terminated
<1>2. ASSUME NEW w \in Workers, StartWorker(w) PROVE WorkersConsistent'
  BY <1>2 DEF StartWorker
<1>3. ASSUME NEW w \in Workers, Work(w) PROVE WorkersConsistent'
  <2>1. CASE Prepare(w)
    BY <2>1 DEF Prepare
  <2>2. CASE PopNothing(w)
    BY <2>2 DEF PopNothing
  <2>3. CASE PopElement(w)
    <3>1. queue.len > 0
      BY <2>3 DEF PopElement, QueueEmpty, Header
    <3> QED
      BY <2>3, <3>1 DEF PopElement
  <2>4. CASE PopAdvance(w)
    BY <2>4 DEF PopAdvance
  <2>5. CASE NothingPrepared(w)
    BY <2>5 DEF NothingPrepared
  <2>6. CASE Exit(w)
    BY <2>6 DEF Exit
  <2>7. CASE Sleep(w)
    BY <2>7 DEF Sleep
  <2>8. CASE Wake(w)
    BY <2>8 DEF Wake
  <2>9. CASE LookupFails(w)
    BY <2>9 DEF LookupFails
  <2>10. CASE RegisterFails(w)
    BY <2>10 DEF RegisterFails
  <2>11. CASE Register(w)
    BY <2>11 DEF Register
  <2>12. CASE Discover(w)
    <3>1. PICK d \in todo[w] : DiscoverDependency(w, d)
      BY <2>12 DEF Discover
    <3> QED
      BY <3>1 DEF DiscoverDependency
  <2>13. CASE PushRead(w)
    BY <2>13 DEF PushRead
  <2>14. CASE PushPublish(w)
    BY <2>14 DEF PushPublish
  <2>15. CASE PushGrow(w)
    BY <2>15 DEF PushGrow
  <2>16. CASE PushReplace(w)
    BY <2>16 DEF PushReplace
  <2>17. CASE PushStore(w)
    <3>1. newItems[w] \in Seq(Refs) /\ newItems[w] # <<>>
      BY <2>17 DEF PushStore
    <3>2. Len(newItems[w]) > 1 => Tail(newItems[w]) # <<>>
      <4> DEFINE rest == Tail(newItems[w])
      <4>1. Len(rest) = Len(newItems[w]) - 1
        BY <3>1, HeadTailProperties
      <4>2. Len(newItems[w]) \in Nat
        BY <3>1, LenProperties
      <4> HIDE DEF rest
      <4>3. rest = <<>> => Len(rest) = 0
        BY EmptySeq
      <4>4. Len(newItems[w]) > 1 => rest # <<>>
        BY <4>1, <4>2, <4>3
      <4> QED
        BY <4>4 DEF rest
    <3> QED
      BY <2>17, <3>2 DEF PushStore
  <2>18. CASE Finish(w)
    BY <2>18 DEF Finish
  <2>19. CASE FinishFailed(w)
    BY <2>19 DEF FinishFailed
  <2>20. CASE addError(w)
    BY <2>20 DEF addError
  <2> QED
    BY <1>3, <2>1, <2>2, <2>3, <2>4, <2>5, <2>6, <2>7, <2>8, <2>9, <2>10, <2>11, <2>12, <2>13, <2>14, <2>15, <2>16, <2>17, <2>18, <2>19, <2>20 DEF Work
<1> QED
  BY <1>1, <1>2, <1>3 DEF Next

(***************************************************************************)
(* A worker that moves from one point to another enters and leaves a set   *)
(* of points, and nobody else does.                                        *)
(***************************************************************************)
LEMMA MoveCounts ==
    ASSUME NEW p \in [Workers -> Label], NEW w \in Workers, NEW to \in Label,
           NEW S
    PROVE  /\ Cardinality({v \in Workers : p[v] \in S}) \in Nat
           /\ Cardinality({v \in Workers : [p EXCEPT ![w] = to][v] \in S}) =
                  IF p[w] \in S /\ to \notin S
                  THEN Cardinality({v \in Workers : p[v] \in S}) - 1
                  ELSE IF p[w] \notin S /\ to \in S
                       THEN Cardinality({v \in Workers : p[v] \in S}) + 1
                       ELSE Cardinality({v \in Workers : p[v] \in S})
<1> DEFINE before == {v \in Workers : p[v] \in S}
           after == {v \in Workers : [p EXCEPT ![w] = to][v] \in S}
<1>1. IsFiniteSet(before)
  BY WorkersAssumption, FS_Subset
<1>2. Cardinality(before) \in Nat
  BY <1>1, FS_CardinalityType
<1>3. w \in before <=> p[w] \in S
  OBVIOUS
<1>4. after = IF to \in S THEN before \cup {w} ELSE before \ {w}
  OBVIOUS
<1>5. Cardinality(after) = IF w \in before /\ to \notin S
                           THEN Cardinality(before) - 1
                           ELSE IF w \notin before /\ to \in S
                                THEN Cardinality(before) + 1
                                ELSE Cardinality(before)
  <2> HIDE DEF before, after
  <2>1. CASE to \in S
    BY <1>1, <1>2, <1>4, <2>1, FS_AddElement
  <2>2. CASE to \notin S
    BY <1>1, <1>2, <1>4, <2>2, FS_RemoveElement
  <2> QED
    BY <2>1, <2>2
<1> QED
  BY <1>2, <1>3, <1>5

(***************************************************************************)
(* itemsPreparing, waitGroup and the lock agree with where the workers     *)
(* are.                                                                    *)
(***************************************************************************)
LEMMA NextCounters ==
    TypeOK /\ CountersExact /\ [Next]_vars => CountersExact'
<1> SUFFICES ASSUME TypeOK, CountersExact, [Next]_vars
             PROVE  CountersExact'
  OBVIOUS
<1> DEFINE Running == Label \ {"unborn", "done"}
           Change(from, to, S) ==
               IF from \in S /\ to \notin S THEN -1
               ELSE IF from \notin S /\ to \in S THEN 1 ELSE 0
           Moves(w, from, to) ==
               /\ Goto(w, from, to)
               /\ itemsPreparing' = itemsPreparing + Change(from, to, Counted)
               /\ waitGroup' = waitGroup + Change(from, to, Running)
               /\ lock' = IF to = "advancing" THEN {w} ELSE lock \ {w}
               /\ to = "advancing" => lock = {}
<1>1. ASSUME NEW w \in Workers, NEW from \in Label, NEW to \in Label,
             Moves(w, from, to)
      PROVE  CountersExact'
  <2>1. pc \in [Workers -> Label] /\ pc[w] = from /\ pc' = [pc EXCEPT ![w] = to]
    BY <1>1 DEF TypeOK, Goto
  <2>2. /\ RunningWorkers = {v \in Workers : pc[v] \in Running}
        /\ RunningWorkers' = {v \in Workers : [pc EXCEPT ![w] = to][v] \in Running}
    BY <2>1 DEF RunningWorkers
  <2>3. CountedWorkers' = {v \in Workers : [pc EXCEPT ![w] = to][v] \in Counted}
    BY <2>1 DEF CountedWorkers
  <2>4. lock' = {v \in Workers : pc'[v] = "advancing"}
    BY <1>1, <2>1 DEF CountersExact
  <2>5. \A u, v \in lock' : u = v
    BY <1>1 DEF CountersExact
  <2> HIDE DEF Running
  <2>6. itemsPreparing' = Cardinality(CountedWorkers')
    BY <1>1, <2>1, <2>3, MoveCounts DEF CountedWorkers, CountersExact
  <2>7. waitGroup' = Cardinality(RunningWorkers')
    BY <1>1, <2>1, <2>2, MoveCounts DEF CountersExact
  <2> QED
    BY <2>4, <2>5, <2>6, <2>7 DEF CountersExact
<1>2. CASE Walk \/ Terminated \/ UNCHANGED vars
  <2>1. UNCHANGED <<pc, lock, itemsPreparing, waitGroup>>
    BY <1>2 DEF Walk, PushRoot, BeginWait, Return, Terminated, vars
  <2> QED
    BY <2>1 DEF CountersExact, CountedWorkers, RunningWorkers
<1>3. ASSUME NEW w \in Workers, StartWorker(w) PROVE CountersExact'
  <2>1. lock \ {w} = lock
    BY <1>3 DEF StartWorker, Goto, CountersExact
  <2>2. {"unborn", "idle"} \subseteq Label /\ "idle" \notin Counted /\ "unborn" \notin Counted
    BY DEF Label, Looking, Counted, Pushing
  <2>3. Moves(w, "unborn", "idle")
    BY <1>3, <2>1, <2>2 DEF StartWorker, TypeOK
  <2> HIDE DEF Moves
  <2> QED
    BY <1>1, <2>2, <2>3
<1>4. ASSUME NEW w \in Workers, Work(w) PROVE CountersExact'
  <2>0. pc[w] # "advancing" => lock \ {w} = lock
    BY DEF CountersExact
  <2>1. CASE Prepare(w)
    <3>1. {"idle", "popping"} \subseteq Label
      BY DEF Label, Looking, Counted, Pushing
    <3>2. Moves(w, "idle", "popping")
      BY <2>0, <2>1, <3>1 DEF Prepare, Goto, Counted, Pushing, TypeOK
    <3> HIDE DEF Moves
    <3> QED
      BY <1>1, <3>1, <3>2
  <2>2. CASE PopNothing(w)
    <3>1. {"popping", "nothing"} \subseteq Label
      BY DEF Label, Looking, Counted, Pushing
    <3>2. Moves(w, "popping", "nothing")
      BY <2>0, <2>2, <3>1 DEF PopNothing, QueueEmpty, Goto, Counted, Pushing, TypeOK
    <3> HIDE DEF Moves
    <3> QED
      BY <1>1, <3>1, <3>2
  <2>3. CASE PopElement(w)
    <3>1. {"popping", "advancing"} \subseteq Label
      BY DEF Label, Looking, Counted, Pushing
    <3>2. Moves(w, "popping", "advancing")
      BY <2>0, <2>3, <3>1 DEF PopElement, QueueEmpty, Goto, Counted, Pushing, TypeOK
    <3> HIDE DEF Moves
    <3> QED
      BY <1>1, <3>1, <3>2
  <2>4. CASE PopAdvance(w)
    <3>1. {"advancing", "processing"} \subseteq Label
      BY DEF Label, Looking, Counted, Pushing
    <3>2. Moves(w, "advancing", "processing")
      BY <2>0, <2>4, <3>1 DEF PopAdvance, Goto, Counted, Pushing, TypeOK
    <3> HIDE DEF Moves
    <3> QED
      BY <1>1, <3>1, <3>2
  <2>5. CASE NothingPrepared(w)
    <3>1. {"nothing", "checking"} \subseteq Label
      BY DEF Label, Looking, Counted, Pushing
    <3>2. Moves(w, "nothing", "checking")
      BY <2>0, <2>5, <3>1 DEF NothingPrepared, Goto, Counted, Pushing, TypeOK
    <3> HIDE DEF Moves
    <3> QED
      BY <1>1, <3>1, <3>2
  <2>6. CASE Exit(w)
    <3>1. {"checking", "done"} \subseteq Label
      BY DEF Label, Looking, Counted, Pushing
    <3>2. Moves(w, "checking", "done")
      BY <2>0, <2>6, <3>1 DEF Exit, Goto, Counted, Pushing, TypeOK
    <3> HIDE DEF Moves
    <3> QED
      BY <1>1, <3>1, <3>2
  <2>7. CASE Sleep(w)
    <3>1. {"checking", "sleeping"} \subseteq Label
      BY DEF Label, Looking, Counted, Pushing
    <3>2. Moves(w, "checking", "sleeping")
      BY <2>0, <2>7, <3>1 DEF Sleep, Goto, Counted, Pushing, TypeOK
    <3> HIDE DEF Moves
    <3> QED
      BY <1>1, <3>1, <3>2
  <2>8. CASE Wake(w)
    <3>1. {"sleeping", "idle"} \subseteq Label
      BY DEF Label, Looking, Counted, Pushing
    <3>2. Moves(w, "sleeping", "idle")
      BY <2>0, <2>8, <3>1 DEF Wake, Goto, Counted, Pushing, TypeOK
    <3> HIDE DEF Moves
    <3> QED
      BY <1>1, <3>1, <3>2
  <2>9. CASE LookupFails(w)
    <3>1. {"processing", "failing"} \subseteq Label
      BY DEF Label, Looking, Counted, Pushing
    <3>2. Moves(w, "processing", "failing")
      BY <2>0, <2>9, <3>1 DEF LookupFails, Goto, Counted, Pushing, TypeOK
    <3> HIDE DEF Moves
    <3> QED
      BY <1>1, <3>1, <3>2
  <2>10. CASE RegisterFails(w)
    <3>1. {"processing", "failing"} \subseteq Label
      BY DEF Label, Looking, Counted, Pushing
    <3>2. Moves(w, "processing", "failing")
      BY <2>0, <2>10, <3>1 DEF RegisterFails, Goto, Counted, Pushing, TypeOK
    <3> HIDE DEF Moves
    <3> QED
      BY <1>1, <3>1, <3>2
  <2>11. CASE Register(w)
    <3>1. {"processing", "finishing", "discovering"} \subseteq Label
      BY DEF Label, Looking, Counted, Pushing
    <3>2. PICK to \in {"finishing", "discovering"} : Goto(w, "processing", to)
      BY <2>11 DEF Register
    <3>3. pc[w] = "processing" /\ UNCHANGED <<itemsPreparing, waitGroup, lock>>
      BY <2>11 DEF Register, Goto
    <3>4. Moves(w, "processing", to)
      BY <2>0, <3>1, <3>2, <3>3 DEF Counted, Pushing, TypeOK
    <3> HIDE DEF Moves
    <3> QED
      BY <1>1, <3>1, <3>4
  <2>12. CASE Discover(w)
    <3>1. {"discovering", "discovering", "pushing", "finishing"} \subseteq Label
      BY DEF Label, Looking, Counted, Pushing
    <3>2. PICK to \in {"discovering", "pushing", "finishing"} : Goto(w, "discovering", to)
      BY <2>12 DEF Discover, DiscoverDependency
    <3>3. pc[w] = "discovering" /\ UNCHANGED <<itemsPreparing, waitGroup, lock>>
      BY <2>12 DEF Discover, DiscoverDependency, Goto
    <3>4. Moves(w, "discovering", to)
      BY <2>0, <3>1, <3>2, <3>3 DEF Counted, Pushing, TypeOK
    <3> HIDE DEF Moves
    <3> QED
      BY <1>1, <3>1, <3>4
  <2>13. CASE PushRead(w)
    <3>1. {"pushing", "publishing", "growing"} \subseteq Label
      BY DEF Label, Looking, Counted, Pushing
    <3>2. PICK to \in {"publishing", "growing"} : Goto(w, "pushing", to)
      BY <2>13 DEF PushRead
    <3>3. pc[w] = "pushing" /\ UNCHANGED <<itemsPreparing, waitGroup, lock>>
      BY <2>13 DEF PushRead, Goto
    <3>4. Moves(w, "pushing", to)
      BY <2>0, <3>1, <3>2, <3>3 DEF Counted, Pushing, TypeOK
    <3> HIDE DEF Moves
    <3> QED
      BY <1>1, <3>1, <3>4
  <2>14. CASE PushPublish(w)
    <3>1. {"publishing", "storing"} \subseteq Label
      BY DEF Label, Looking, Counted, Pushing
    <3>2. Moves(w, "publishing", "storing")
      BY <2>0, <2>14, <3>1 DEF PushPublish, Goto, Counted, Pushing, TypeOK
    <3> HIDE DEF Moves
    <3> QED
      BY <1>1, <3>1, <3>2
  <2>15. CASE PushGrow(w)
    <3>1. {"growing", "replacing"} \subseteq Label
      BY DEF Label, Looking, Counted, Pushing
    <3>2. Moves(w, "growing", "replacing")
      BY <2>0, <2>15, <3>1 DEF PushGrow, Goto, Counted, Pushing, TypeOK
    <3> HIDE DEF Moves
    <3> QED
      BY <1>1, <3>1, <3>2
  <2>16. CASE PushReplace(w)
    <3>1. {"replacing", "storing"} \subseteq Label
      BY DEF Label, Looking, Counted, Pushing
    <3>2. Moves(w, "replacing", "storing")
      BY <2>0, <2>16, <3>1 DEF PushReplace, Goto, Counted, Pushing, TypeOK
    <3> HIDE DEF Moves
    <3> QED
      BY <1>1, <3>1, <3>2
  <2>17. CASE PushStore(w)
    <3>1. {"storing", "pushing", "finishing"} \subseteq Label
      BY DEF Label, Looking, Counted, Pushing
    <3>2. PICK to \in {"pushing", "finishing"} : Goto(w, "storing", to)
      BY <2>17 DEF PushStore
    <3>3. pc[w] = "storing" /\ UNCHANGED <<itemsPreparing, waitGroup, lock>>
      BY <2>17 DEF PushStore, Goto
    <3>4. Moves(w, "storing", to)
      BY <2>0, <3>1, <3>2, <3>3 DEF Counted, Pushing, TypeOK
    <3> HIDE DEF Moves
    <3> QED
      BY <1>1, <3>1, <3>4
  <2>18. CASE Finish(w)
    <3>1. {"finishing", "idle"} \subseteq Label
      BY DEF Label, Looking, Counted, Pushing
    <3>2. Moves(w, "finishing", "idle")
      BY <2>0, <2>18, <3>1 DEF Finish, Goto, Counted, Pushing, TypeOK
    <3> HIDE DEF Moves
    <3> QED
      BY <1>1, <3>1, <3>2
  <2>19. CASE FinishFailed(w)
    <3>1. {"failing", "reporting"} \subseteq Label
      BY DEF Label, Looking, Counted, Pushing
    <3>2. Moves(w, "failing", "reporting")
      BY <2>0, <2>19, <3>1 DEF FinishFailed, Goto, Counted, Pushing, TypeOK
    <3> HIDE DEF Moves
    <3> QED
      BY <1>1, <3>1, <3>2
  <2>20. CASE addError(w)
    <3>1. {"reporting", "idle"} \subseteq Label
      BY DEF Label, Looking, Counted, Pushing
    <3>2. Moves(w, "reporting", "idle")
      BY <2>0, <2>20, <3>1 DEF addError, Goto, Counted, Pushing, TypeOK
    <3> HIDE DEF Moves
    <3> QED
      BY <1>1, <3>1, <3>2
  <2> QED
    BY <1>4, <2>1, <2>2, <2>3, <2>4, <2>5, <2>6, <2>7, <2>8, <2>9, <2>10, <2>11, <2>12, <2>13, <2>14, <2>15, <2>16, <2>17, <2>18, <2>19, <2>20 DEF Work
<1> QED
  BY <1>2, <1>3, <1>4 DEF Next

(***************************************************************************)
(* A worker can leave the points from which it is sure to look at the      *)
(* queue again only by finding it empty, and only such a worker fills it.  *)
(***************************************************************************)
LEMMA NextWatched ==
    TypeOK /\ WalkConsistent /\ QueueIsWatched /\ [Next]_vars => QueueIsWatched'
<1> SUFFICES ASSUME TypeOK, WalkConsistent, QueueIsWatched, [Next]_vars
             PROVE  QueueIsWatched'
  OBVIOUS
<1>1. ASSUME NEW w \in Workers, NEW from, NEW to \in Looking, Goto(w, from, to)
      PROVE  QueueIsWatched'
  BY <1>1 DEF Goto, TypeOK, QueueIsWatched
<1>2. ASSUME NEW w \in Workers, NEW from, NEW to, Goto(w, from, to),
             from \notin Looking, UNCHANGED queue
      PROVE  QueueIsWatched'
  BY <1>2 DEF Goto, TypeOK, QueueIsWatched
<1>3. CASE Walk
  <2>1. CASE PushRoot
    <3>1. \A w \in Workers : pc'[w] = "unborn"
      BY <2>1 DEF PushRoot, WalkConsistent
    <3> QED
      BY <3>1, WorkersAssumption DEF QueueIsWatched, Looking
  <2>2. CASE BeginWait \/ Return
    BY <2>2 DEF BeginWait, Return, QueueIsWatched, queueVars
  <2> QED
    BY <1>3, <2>1, <2>2 DEF Walk
<1>4. CASE Terminated \/ UNCHANGED vars
  BY <1>4 DEF Terminated, vars, queueVars, QueueIsWatched
<1>5. ASSUME NEW w \in Workers, StartWorker(w) PROVE QueueIsWatched'
  BY <1>1, <1>5 DEF StartWorker, Looking
<1>6. ASSUME NEW w \in Workers, Work(w) PROVE QueueIsWatched'
  <2> USE DEF Looking, Counted, Pushing
  <2>1. CASE Prepare(w)
    BY <1>1, <2>1 DEF Prepare
  <2>2. CASE PopNothing(w)
    BY <2>2 DEF PopNothing, QueueEmpty, queueVars, QueueIsWatched, TypeOK, Header
  <2>3. CASE PopElement(w)
    BY <1>1, <2>3 DEF PopElement
  <2>4. CASE PopAdvance(w)
    BY <1>1, <2>4 DEF PopAdvance
  <2>5. CASE NothingPrepared(w)
    BY <1>2, <2>5 DEF NothingPrepared, queueVars
  <2>6. CASE Exit(w)
    BY <1>2, <2>6 DEF Exit, queueVars
  <2>7. CASE Sleep(w)
    BY <1>1, <2>7 DEF Sleep
  <2>8. CASE Wake(w)
    BY <1>1, <2>8 DEF Wake
  <2>9. CASE LookupFails(w)
    BY <1>1, <2>9 DEF LookupFails
  <2>10. CASE RegisterFails(w)
    BY <1>1, <2>10 DEF RegisterFails
  <2>11. CASE Register(w)
    <3>1. PICK to \in {"finishing", "discovering"} : Goto(w, "processing", to)
      BY <2>11 DEF Register
    <3> QED
      BY <1>1, <3>1
  <2>12. CASE Discover(w)
    <3>1. PICK to \in {"discovering", "pushing", "finishing"} : Goto(w, "discovering", to)
      BY <2>12 DEF Discover, DiscoverDependency
    <3> QED
      BY <1>1, <3>1
  <2>13. CASE PushRead(w)
    <3>1. PICK to \in {"publishing", "growing"} : Goto(w, "pushing", to)
      BY <2>13 DEF PushRead
    <3> QED
      BY <1>1, <3>1
  <2>14. CASE PushPublish(w)
    BY <1>1, <2>14 DEF PushPublish
  <2>15. CASE PushGrow(w)
    BY <1>1, <2>15 DEF PushGrow
  <2>16. CASE PushReplace(w)
    BY <1>1, <2>16 DEF PushReplace
  <2>17. CASE PushStore(w)
    <3>1. PICK to \in {"pushing", "finishing"} : Goto(w, "storing", to)
      BY <2>17 DEF PushStore
    <3> QED
      BY <1>1, <3>1
  <2>18. CASE Finish(w)
    BY <1>1, <2>18 DEF Finish
  <2>19. CASE FinishFailed(w)
    BY <1>1, <2>19 DEF FinishFailed
  <2>20. CASE addError(w)
    BY <1>1, <2>20 DEF addError
  <2> QED
    BY <1>6, <2>1, <2>2, <2>3, <2>4, <2>5, <2>6, <2>7, <2>8, <2>9, <2>10, <2>11, <2>12, <2>13, <2>14, <2>15, <2>16, <2>17, <2>18, <2>19, <2>20 DEF Work
<1> QED
  BY <1>3, <1>4, <1>5, <1>6 DEF Next

(***************************************************************************)
(* Walk returns only when no worker runs, and nothing runs afterwards.     *)
(***************************************************************************)
LEMMA NextWalk ==
    TypeOK /\ CountersExact /\ WalkConsistent /\ [Next]_vars => WalkConsistent'
<1> SUFFICES ASSUME TypeOK, CountersExact, WalkConsistent, [Next]_vars
             PROVE  WalkConsistent'
  OBVIOUS
<1>1. ASSUME NEW w \in Workers, NEW from, NEW to, Goto(w, from, to),
             from \notin {"unborn", "done"}, to # "unborn", UNCHANGED main
      PROVE  WalkConsistent'
  BY <1>1 DEF Goto, TypeOK, WalkConsistent
<1>2. CASE Walk
  <2>1. CASE PushRoot
    BY <2>1 DEF PushRoot, WalkConsistent
  <2>2. CASE BeginWait
    BY <2>2 DEF BeginWait, WalkConsistent
  <2>3. CASE Return
    <3>1. RunningWorkers = {}
      <4>1. IsFiniteSet(RunningWorkers)
        BY WorkersAssumption, FS_Subset DEF RunningWorkers
      <4> QED
        BY <2>3, <4>1, FS_EmptySet DEF Return, CountersExact
    <3> QED
      BY <2>3, <3>1 DEF Return, WalkConsistent, RunningWorkers
  <2> QED
    BY <1>2, <2>1, <2>2, <2>3 DEF Walk
<1>3. CASE Terminated \/ UNCHANGED vars
  BY <1>3 DEF Terminated, vars, WalkConsistent
<1>4. ASSUME NEW w \in Workers, StartWorker(w) PROVE WalkConsistent'
  BY <1>4 DEF StartWorker, Goto, TypeOK, WalkConsistent
<1>5. ASSUME NEW w \in Workers, Work(w) PROVE WalkConsistent'
  <2>1. CASE Prepare(w)
    BY <1>1, <2>1 DEF Prepare
  <2>2. CASE PopNothing(w)
    BY <1>1, <2>2 DEF PopNothing
  <2>3. CASE PopElement(w)
    BY <1>1, <2>3 DEF PopElement
  <2>4. CASE PopAdvance(w)
    BY <1>1, <2>4 DEF PopAdvance
  <2>5. CASE NothingPrepared(w)
    BY <1>1, <2>5 DEF NothingPrepared
  <2>6. CASE Exit(w)
    BY <1>1, <2>6 DEF Exit
  <2>7. CASE Sleep(w)
    BY <1>1, <2>7 DEF Sleep
  <2>8. CASE Wake(w)
    BY <1>1, <2>8 DEF Wake
  <2>9. CASE LookupFails(w)
    BY <1>1, <2>9 DEF LookupFails
  <2>10. CASE RegisterFails(w)
    BY <1>1, <2>10 DEF RegisterFails
  <2>11. CASE Register(w)
    <3>1. PICK to \in {"finishing", "discovering"} : Goto(w, "processing", to)
      BY <2>11 DEF Register
    <3>2. UNCHANGED main
      BY <2>11 DEF Register
    <3> QED
      BY <1>1, <3>1, <3>2
  <2>12. CASE Discover(w)
    <3>1. PICK to \in {"discovering", "pushing", "finishing"} : Goto(w, "discovering", to)
      BY <2>12 DEF Discover, DiscoverDependency
    <3>2. UNCHANGED main
      BY <2>12 DEF Discover, DiscoverDependency
    <3> QED
      BY <1>1, <3>1, <3>2
  <2>13. CASE PushRead(w)
    <3>1. PICK to \in {"publishing", "growing"} : Goto(w, "pushing", to)
      BY <2>13 DEF PushRead
    <3>2. UNCHANGED main
      BY <2>13 DEF PushRead
    <3> QED
      BY <1>1, <3>1, <3>2
  <2>14. CASE PushPublish(w)
    BY <1>1, <2>14 DEF PushPublish
  <2>15. CASE PushGrow(w)
    BY <1>1, <2>15 DEF PushGrow
  <2>16. CASE PushReplace(w)
    BY <1>1, <2>16 DEF PushReplace
  <2>17. CASE PushStore(w)
    <3>1. PICK to \in {"pushing", "finishing"} : Goto(w, "storing", to)
      BY <2>17 DEF PushStore
    <3>2. UNCHANGED main
      BY <2>17 DEF PushStore
    <3> QED
      BY <1>1, <3>1, <3>2
  <2>18. CASE Finish(w)
    BY <1>1, <2>18 DEF Finish
  <2>19. CASE FinishFailed(w)
    BY <1>1, <2>19 DEF FinishFailed
  <2>20. CASE addError(w)
    BY <1>1, <2>20 DEF addError
  <2> QED
    BY <1>5, <2>1, <2>2, <2>3, <2>4, <2>5, <2>6, <2>7, <2>8, <2>9, <2>10, <2>11, <2>12, <2>13, <2>14, <2>15, <2>16, <2>17, <2>18, <2>19, <2>20 DEF Work
<1> QED
  BY <1>2, <1>3, <1>4, <1>5 DEF Next

(***************************************************************************)
(* No failure gets lost between the counter and the list of errors.        *)
(***************************************************************************)
LEMMA NextFailures ==
    TypeOK /\ FailuresAccounted /\ [Next]_vars => FailuresAccounted'
<1> SUFFICES ASSUME TypeOK, FailuresAccounted, [Next]_vars
             PROVE  FailuresAccounted'
  OBVIOUS
<1> DEFINE Reporting == {v \in Workers : pc[v] = "reporting"}
<1>1. ASSUME NEW w \in Workers, NEW from, NEW to, Goto(w, from, to),
             from # "reporting", to # "reporting", UNCHANGED <<failed, errs>>,
             \A v \in Workers \ {w} : item'[v] = item[v]
      PROVE  FailuresAccounted'
  <2>1. Reporting' = Reporting /\ w \notin Reporting
    BY <1>1 DEF Goto, TypeOK
  <2>2. {item'[v] : v \in Reporting} = {item[v] : v \in Reporting}
    BY <1>1, <2>1
  <2>3. FailedRefs' = FailedRefs
    BY <1>1 DEF FailedRefs
  <2> QED
    BY <1>1, <2>1, <2>2, <2>3 DEF FailuresAccounted
<1>2. CASE Walk \/ Terminated \/ UNCHANGED vars
  <2>1. UNCHANGED <<pc, item, errs, failed>>
    BY <1>2 DEF Walk, PushRoot, BeginWait, Return, Terminated, vars, historyVars
  <2> QED
    BY <2>1 DEF FailuresAccounted, FailedRefs
<1>3. ASSUME NEW w \in Workers, StartWorker(w) PROVE FailuresAccounted'
  BY <1>1, <1>3 DEF StartWorker, historyVars
<1>4. ASSUME NEW w \in Workers, Work(w) PROVE FailuresAccounted'
  <2> USE DEF historyVars
  <2>1. CASE Prepare(w)
    BY <1>1, <2>1 DEF Prepare
  <2>2. CASE PopNothing(w)
    BY <1>1, <2>2 DEF PopNothing
  <2>3. CASE PopElement(w)
    BY <1>1, <2>3 DEF PopElement, TypeOK
  <2>4. CASE PopAdvance(w)
    BY <1>1, <2>4 DEF PopAdvance
  <2>5. CASE NothingPrepared(w)
    BY <1>1, <2>5 DEF NothingPrepared
  <2>6. CASE Exit(w)
    BY <1>1, <2>6 DEF Exit
  <2>7. CASE Sleep(w)
    BY <1>1, <2>7 DEF Sleep
  <2>8. CASE Wake(w)
    BY <1>1, <2>8 DEF Wake
  <2>9. CASE LookupFails(w)
    BY <1>1, <2>9 DEF LookupFails
  <2>10. CASE RegisterFails(w)
    BY <1>1, <2>10 DEF RegisterFails
  <2>11. CASE Register(w)
    <3>1. PICK to \in {"finishing", "discovering"} : Goto(w, "processing", to)
      BY <2>11 DEF Register
    <3>2. UNCHANGED <<failed, errs, item>>
      BY <2>11 DEF Register
    <3> QED
      BY <1>1, <3>1, <3>2
  <2>12. CASE Discover(w)
    <3>1. PICK to \in {"discovering", "pushing", "finishing"} : Goto(w, "discovering", to)
      BY <2>12 DEF Discover, DiscoverDependency
    <3>2. UNCHANGED <<failed, errs, item>>
      BY <2>12 DEF Discover, DiscoverDependency
    <3> QED
      BY <1>1, <3>1, <3>2
  <2>13. CASE PushRead(w)
    <3>1. PICK to \in {"publishing", "growing"} : Goto(w, "pushing", to)
      BY <2>13 DEF PushRead
    <3>2. UNCHANGED <<failed, errs, item>>
      BY <2>13 DEF PushRead
    <3> QED
      BY <1>1, <3>1, <3>2
  <2>14. CASE PushPublish(w)
    BY <1>1, <2>14 DEF PushPublish
  <2>15. CASE PushGrow(w)
    BY <1>1, <2>15 DEF PushGrow
  <2>16. CASE PushReplace(w)
    BY <1>1, <2>16 DEF PushReplace
  <2>17. CASE PushStore(w)
    <3>1. PICK to \in {"pushing", "finishing"} : Goto(w, "storing", to)
      BY <2>17 DEF PushStore
    <3>2. UNCHANGED <<failed, errs, item>>
      BY <2>17 DEF PushStore
    <3> QED
      BY <1>1, <3>1, <3>2
  <2>18. CASE Finish(w)
    BY <1>1, <2>18 DEF Finish
  <2>19. CASE FinishFailed(w)
    <3>1. Reporting' = Reporting \cup {w}
      BY <2>19 DEF FinishFailed, Goto, TypeOK
    <3>2. {item[v] : v \in Reporting \cup {w}} = {item[v] : v \in Reporting} \cup {item[w]}
      OBVIOUS
    <3>3. failed' = failed \cup {item[w]} /\ UNCHANGED <<item, errs>>
      BY <2>19 DEF FinishFailed
    <3> QED
      BY <3>1, <3>2, <3>3 DEF FailuresAccounted, FailedRefs
  <2>20. CASE addError(w)
    <3>1. Reporting' = Reporting \ {w} /\ w \in Reporting
      BY <2>20 DEF addError, Goto, TypeOK
    <3>2. {item[v] : v \in Reporting} =
              {item[v] : v \in Reporting \ {w}} \cup {item[w]}
      BY <3>1
    <3>3. errs' = Append(errs, item[w]) /\ UNCHANGED <<item, failed>>
      BY <2>20 DEF addError
    <3>4. FailedRefs' = FailedRefs \cup {item[w]}
      <4> DEFINE n == Len(errs)
      <4>1. n \in Nat /\ DOMAIN errs = 1 .. n
        BY DEF TypeOK
      <4>2. /\ DOMAIN errs' = 1 .. n + 1
            /\ \A i \in 1 .. n : errs'[i] = errs[i]
            /\ errs'[n + 1] = item[w]
        BY <3>3 DEF TypeOK
      <4> HIDE DEF n
      <4>3. DOMAIN errs' = DOMAIN errs \cup {n + 1}
        BY <4>1, <4>2
      <4> QED
        BY <4>1, <4>2, <4>3 DEF FailedRefs
    <3> QED
      BY <3>1, <3>2, <3>3, <3>4 DEF FailuresAccounted
  <2> QED
    BY <1>4, <2>1, <2>2, <2>3, <2>4, <2>5, <2>6, <2>7, <2>8, <2>9, <2>10, <2>11, <2>12, <2>13, <2>14, <2>15, <2>16, <2>17, <2>18, <2>19, <2>20 DEF Work
<1> QED
  BY <1>2, <1>3, <1>4 DEF Next

-----------------------------------------------------------------------------
PoolInv ==
    /\ TypeOK
    /\ WorkersConsistent
    /\ CountersExact
    /\ WalkConsistent
    /\ FailuresAccounted
    /\ QueueIsWatched

LEMMA InitPool == Init => PoolInv
<1> SUFFICES ASSUME Init PROVE PoolInv
  OBVIOUS
<1>1. TypeOK
  BY InitType
<1>2. WorkersConsistent /\ WalkConsistent /\ FailuresAccounted
  BY DEF Init, WorkersConsistent, WalkConsistent, FailuresAccounted,
         FailedRefs, Pushing
<1>3. CountersExact
  <2>1. CountedWorkers = {} /\ RunningWorkers = {}
    BY DEF Init, CountedWorkers, RunningWorkers, Counted, Pushing
  <2> QED
    BY <2>1, FS_EmptySet DEF Init, CountersExact
<1>4. QueueIsWatched
  BY DEF Init, EmptySlice, QueueIsWatched
<1> QED
  BY <1>1, <1>2, <1>3, <1>4 DEF PoolInv

(***************************************************************************)
(* The invariant of the pool, for any graph and any number of workers.     *)
(***************************************************************************)
THEOREM PoolInvariant == Spec => []PoolInv
<1>1. PoolInv /\ [Next]_vars => PoolInv'
  BY NextType, NextConsistent, NextCounters, NextWatched, NextWalk,
     NextFailures DEF PoolInv
<1> QED
  BY InitPool, <1>1, PTL DEF Spec

(***************************************************************************)
(* Type correctness of the pool and the component graph.                   *)
(***************************************************************************)
THEOREM TypeCorrect == Spec => []TypeOK
BY PoolInvariant, PTL DEF PoolInv

(***************************************************************************)
(* No reference is left in the queue by workers that all exited.           *)
(***************************************************************************)
THEOREM NeverAbandoned == Spec => []QueueIsWatched
BY PoolInvariant, PTL DEF PoolInv

(***************************************************************************)
(* itemsPreparing, waitGroup and the lock say where the workers are.       *)
(***************************************************************************)
THEOREM CountersCorrect == Spec => []CountersExact
BY PoolInvariant, PTL DEF PoolInv

(***************************************************************************)
(* When Walk returns the pool is quiet and every failure is in its error.  *)
(***************************************************************************)
THEOREM ReturnIsFinal == Spec => []ReturnsWhenQuiet
<1>1. PoolInv => ReturnsWhenQuiet
  <2> SUFFICES ASSUME PoolInv, main = "returned"
               PROVE  /\ \A w \in Workers : pc[w] = "done"
                      /\ queue.len = 0
                      /\ FailedRefs = failed
                      /\ result = IF failed = {} THEN "ok" ELSE "error"
    BY DEF ReturnsWhenQuiet
  <2>1. \A w \in Workers : pc[w] = "done"
    BY DEF PoolInv, WalkConsistent
  <2>2. queue.len = 0
    <3>1. queue.len \in Nat
      BY DEF PoolInv, TypeOK, Header
    <3>2. ~(queue.len > 0)
      BY <2>1 DEF PoolInv, QueueIsWatched, Looking, Counted, Pushing
    <3> QED
      BY <3>1, <3>2
  <2>3. FailedRefs = failed
    BY <2>1 DEF PoolInv, FailuresAccounted
  <2>4. errs = <<>> <=> failed = {}
    <3>1. errs \in Seq(Refs \cup {Zero})
      BY DEF PoolInv, TypeOK
    <3>2. errs # <<>> => 1 \in DOMAIN errs
      BY <3>1
    <3> QED
      BY <2>3, <3>2 DEF FailedRefs
  <2> QED
    BY <2>1, <2>2, <2>3, <2>4 DEF PoolInv, WalkConsistent
<1> QED
  BY PoolInvariant, <1>1, PTL

-----------------------------------------------------------------------------
(***************************************************************************)
(* A component that is known stays known.                                  *)
(***************************************************************************)
LEMMA KnownGrows ==
    ASSUME TypeOK, [Next]_vars
    PROVE  Known \subseteq Known'
<1>1. ASSUME graphVars' = graphVars PROVE Known' = Known
  BY <1>1 DEF graphVars, Known
<1>2. ASSUME NEW c \in Refs, addComponent(c) PROVE Known \subseteq Known'
  BY <1>2 DEF addComponent, Known, TypeOK, GraphTypeOK
<1>3. ASSUME NEW c \in Refs, addComponentFails(c) PROVE Known' = Known
  BY <1>3 DEF addComponentFails, Known
<1>4. ASSUME NEW c, NEW d \in Refs, AddComponentDependency(c, d)
      PROVE  Known \subseteq Known'
  BY <1>4 DEF AddComponentDependency, Known, TypeOK, GraphTypeOK
<1>5. CASE Walk \/ Terminated \/ UNCHANGED vars
  BY <1>1, <1>5 DEF Walk, PushRoot, BeginWait, Return, Terminated, vars
<1>6. ASSUME NEW w \in Workers, StartWorker(w) PROVE Known \subseteq Known'
  BY <1>1, <1>6 DEF StartWorker
<1>7. ASSUME NEW w \in Workers, Work(w) PROVE Known \subseteq Known'
  <2>1. CASE Prepare(w)
    BY <1>1, <2>1 DEF Prepare
  <2>2. CASE PopNothing(w)
    BY <1>1, <2>2 DEF PopNothing
  <2>3. CASE PopElement(w)
    BY <1>1, <2>3 DEF PopElement
  <2>4. CASE PopAdvance(w)
    BY <1>1, <2>4 DEF PopAdvance
  <2>5. CASE NothingPrepared(w)
    BY <1>1, <2>5 DEF NothingPrepared
  <2>6. CASE Exit(w)
    BY <1>1, <2>6 DEF Exit
  <2>7. CASE Sleep(w)
    BY <1>1, <2>7 DEF Sleep
  <2>8. CASE Wake(w)
    BY <1>1, <2>8 DEF Wake
  <2>9. CASE LookupFails(w)
    BY <1>1, <2>9 DEF LookupFails
  <2>10. CASE RegisterFails(w)
    BY <1>2, <1>3, <2>10 DEF RegisterFails
  <2>11. CASE Register(w)
    BY <1>2, <2>11 DEF Register
  <2>12. CASE Discover(w)
    BY <1>4, <2>12 DEF Discover, DiscoverDependency, TypeOK
  <2>13. CASE PushRead(w)
    BY <1>1, <2>13 DEF PushRead
  <2>14. CASE PushPublish(w)
    BY <1>1, <2>14 DEF PushPublish
  <2>15. CASE PushGrow(w)
    BY <1>1, <2>15 DEF PushGrow
  <2>16. CASE PushReplace(w)
    BY <1>1, <2>16 DEF PushReplace
  <2>17. CASE PushStore(w)
    BY <1>1, <2>17 DEF PushStore
  <2>18. CASE Finish(w)
    BY <1>1, <2>18 DEF Finish
  <2>19. CASE FinishFailed(w)
    BY <1>1, <2>19 DEF FinishFailed
  <2>20. CASE addError(w)
    BY <1>1, <2>20 DEF addError
  <2> QED
    BY <1>7, <2>1, <2>2, <2>3, <2>4, <2>5, <2>6, <2>7, <2>8, <2>9, <2>10, <2>11, <2>12, <2>13, <2>14, <2>15, <2>16, <2>17, <2>18, <2>19, <2>20 DEF Work
<1> QED
  BY <1>5, <1>6, <1>7 DEF Next

(***************************************************************************)
(* A component that was added is known.                                    *)
(***************************************************************************)
LEMMA AddedIsKnown ==
    ASSUME TypeOK, NEW c \in Refs, addComponent(c)
    PROVE  c \in Known'
<1>1. CASE c \in Known
  <2>1. dependents' = dependents
    BY <1>1 DEF addComponent
  <2> QED
    BY <1>1, <2>1 DEF Known
<1>2. CASE c \notin Known
  <2>1. dependents' = [dependents EXCEPT ![c] = {RootMarker}]
    BY <1>2 DEF addComponent
  <2>2. dependents'[c] = {RootMarker}
    BY <2>1 DEF TypeOK, GraphTypeOK
  <2> QED
    BY <2>2 DEF Known
<1> QED
  BY <1>1, <1>2

(***************************************************************************)
(* The root is the first component to be recorded.                         *)
(***************************************************************************)
LEMMA NextRootFirst ==
    TypeOK /\ RootFirst /\ [Next]_vars => RootFirst'
<1> SUFFICES ASSUME TypeOK, RootFirst, [Next]_vars, Root \notin Known'
             PROVE  RootFirst'
  BY DEF RootFirst
<1> DEFINE Ahead == {"discovering"} \cup Pushing
<1>1. /\ Root \notin Known
      /\ \A w \in Workers : item[w] \in {Root, Zero} /\ pc[w] \notin Ahead
      /\ heap \in Seq(Seq({Root, Zero}))
  BY KnownGrows DEF RootFirst
<1>2. ASSUME NEW w \in Workers, NEW from, NEW to, Goto(w, from, to),
             to \notin Ahead, UNCHANGED <<item, heap>>
      PROVE  RootFirst'
  BY <1>1, <1>2 DEF Goto, TypeOK, RootFirst
<1>3. CASE Walk
  <2>1. UNCHANGED <<item, pc>>
    BY <1>3 DEF Walk, PushRoot, BeginWait, Return
  <2>2. heap' \in Seq(Seq({Root, Zero}))
    <3>1. CASE PushRoot
      <4>1. heap' = <<<<Root>>>>
        BY <3>1 DEF PushRoot
      <4>2. <<Root>> \in Seq({Root, Zero})
        OBVIOUS
      <4> QED
        BY <4>1, <4>2
    <3>2. CASE BeginWait \/ Return
      BY <1>1, <3>2 DEF BeginWait, Return, queueVars
    <3> QED
      BY <1>3, <3>1, <3>2 DEF Walk
  <2> QED
    BY <1>1, <2>1, <2>2 DEF RootFirst
<1>4. CASE Terminated \/ UNCHANGED vars
  BY <1>1, <1>4 DEF Terminated, vars, queueVars, RootFirst
<1>5. ASSUME NEW w \in Workers, StartWorker(w) PROVE RootFirst'
  BY <1>2, <1>5 DEF StartWorker, queueVars, Pushing
<1>6. ASSUME NEW w \in Workers, Work(w) PROVE RootFirst'
  <2> USE DEF queueVars, Pushing
  <2>1. CASE Prepare(w)
    BY <1>2, <2>1 DEF Prepare
  <2>2. CASE PopNothing(w)
    BY <1>2, <2>2 DEF PopNothing
  <2>3. CASE PopElement(w)
    <3>1. Element(queue, 1) \in {Root, Zero}
      BY <1>1, ElementType DEF TypeOK
    <3>2. heap' \in Seq(Seq({Root, Zero}))
      BY <1>1, <2>3, SetElementType DEF PopElement, TypeOK
    <3>3. \A v \in Workers : item'[v] \in {Root, Zero}
      BY <1>1, <2>3, <3>1 DEF PopElement, TypeOK
    <3>4. \A v \in Workers : pc'[v] \notin Ahead
      BY <1>1, <2>3 DEF PopElement, Goto, TypeOK
    <3> QED
      BY <3>2, <3>3, <3>4 DEF RootFirst
  <2>4. CASE PopAdvance(w)
    BY <1>2, <2>4 DEF PopAdvance
  <2>5. CASE NothingPrepared(w)
    BY <1>2, <2>5 DEF NothingPrepared
  <2>6. CASE Exit(w)
    BY <1>2, <2>6 DEF Exit
  <2>7. CASE Sleep(w)
    BY <1>2, <2>7 DEF Sleep
  <2>8. CASE Wake(w)
    BY <1>2, <2>8 DEF Wake
  <2>9. CASE LookupFails(w)
    BY <1>2, <2>9 DEF LookupFails
  <2>10. CASE RegisterFails(w)
    <3>1. CASE addComponent(item[w])
      <4>1. item[w] = Root
        BY <1>1, <2>10, GraphAssumption DEF RegisterFails
      <4>2. Root \in Known'
        BY <3>1, <4>1, AddedIsKnown, GraphAssumption
      <4> QED
        BY <4>2
    <3>2. CASE ~addComponent(item[w])
      BY <1>2, <2>10, <3>2 DEF RegisterFails
    <3> QED
      BY <3>1, <3>2
  <2>11. CASE Register(w)
    <3>1. item[w] = Root
      BY <1>1, <2>11, GraphAssumption DEF Register
    <3>2. Root \in Known'
      BY <2>11, <3>1, AddedIsKnown, GraphAssumption DEF Register
    <3> QED
      BY <3>2
  <2>12. CASE Discover(w)
    <3>1. pc[w] = "discovering"
      BY <2>12 DEF Discover, DiscoverDependency, Goto
    <3> QED
      BY <1>1, <3>1
  <2>13. CASE PushRead(w)
    <3>1. pc[w] = "pushing"
      BY <2>13 DEF PushRead, Goto
    <3> QED
      BY <1>1, <3>1
  <2>14. CASE PushPublish(w)
    <3>1. pc[w] = "publishing"
      BY <2>14 DEF PushPublish, Goto
    <3> QED
      BY <1>1, <3>1
  <2>15. CASE PushGrow(w)
    <3>1. pc[w] = "growing"
      BY <2>15 DEF PushGrow, Goto
    <3> QED
      BY <1>1, <3>1
  <2>16. CASE PushReplace(w)
    <3>1. pc[w] = "replacing"
      BY <2>16 DEF PushReplace, Goto
    <3> QED
      BY <1>1, <3>1
  <2>17. CASE PushStore(w)
    <3>1. pc[w] = "storing"
      BY <2>17 DEF PushStore, Goto
    <3> QED
      BY <1>1, <3>1
  <2>18. CASE Finish(w)
    BY <1>2, <2>18 DEF Finish
  <2>19. CASE FinishFailed(w)
    BY <1>2, <2>19 DEF FinishFailed
  <2>20. CASE addError(w)
    BY <1>2, <2>20 DEF addError
  <2> QED
    BY <1>6, <2>1, <2>2, <2>3, <2>4, <2>5, <2>6, <2>7, <2>8, <2>9, <2>10, <2>11, <2>12, <2>13, <2>14, <2>15, <2>16, <2>17, <2>18, <2>19, <2>20 DEF Work
<1> QED
  BY <1>3, <1>4, <1>5, <1>6 DEF Next

(***************************************************************************)
(* Being new is decided once per component, under the lock of Components;  *)
(* from then on its push belongs to one worker.                            *)
(***************************************************************************)
LEMMA NextReserved ==
    TypeOK /\ WorkersConsistent /\ WalkConsistent /\ RootFirst
        /\ PushesReserved /\ [Next]_vars => PushesReserved'
<1> SUFFICES ASSUME TypeOK, WorkersConsistent, WalkConsistent, RootFirst,
                    PushesReserved, [Next]_vars
             PROVE  PushesReserved'
  OBVIOUS
<1> DEFINE Begun == Pushing \ {"pushing"}
<1>0. Known \subseteq Known'
  BY KnownGrows
<1>1. ASSUME NEW w \in Workers, NEW from, NEW to, Goto(w, from, to),
             from \in Begun => to \in Begun,
             UNCHANGED <<newItems, pushed, main>>
      PROVE  PushesReserved'
  <2>1. \A v \in Workers : \A i : PushBegun(v, i) => PushBegun(v, i)'
    BY <1>1 DEF Goto, TypeOK, PushBegun
  <2> QED
    BY <1>0, <1>1, <2>1 DEF PushesReserved
<1>2. CASE Walk
  <2>1. CASE PushRoot
    <3>1. pushed' = [pushed EXCEPT ![Root] = 1] /\ UNCHANGED <<pc, newItems>>
      <4>1. pushed[Root] = 0
        BY <2>1, GraphAssumption DEF PushRoot, PushesReserved
      <4> QED
        BY <2>1, <4>1 DEF PushRoot
    <3>2. \A w \in Workers : newItems[w] = <<>>
      BY <2>1 DEF PushRoot, PushesReserved, WalkConsistent
    <3> QED
      BY <1>0, <2>1, <3>1, <3>2 DEF PushRoot, PushesReserved, TypeOK
  <2>2. CASE BeginWait \/ Return
    BY <1>0, <2>2 DEF BeginWait, Return, PushesReserved, PushBegun, historyVars
  <2> QED
    BY <1>2, <2>1, <2>2 DEF Walk
<1>3. CASE Terminated \/ UNCHANGED vars
  BY <1>0, <1>3 DEF Terminated, vars, historyVars, PushesReserved, PushBegun
<1>4. ASSUME NEW w \in Workers, StartWorker(w) PROVE PushesReserved'
  BY <1>1, <1>4 DEF StartWorker, historyVars, Pushing
<1>5. ASSUME NEW w \in Workers, Work(w) PROVE PushesReserved'
  <2> USE DEF historyVars, Pushing
  <2>1. CASE Prepare(w)
    BY <1>1, <2>1 DEF Prepare
  <2>2. CASE PopNothing(w)
    BY <1>1, <2>2 DEF PopNothing
  <2>3. CASE PopElement(w)
    BY <1>1, <2>3 DEF PopElement
  <2>4. CASE PopAdvance(w)
    BY <1>1, <2>4 DEF PopAdvance
  <2>5. CASE NothingPrepared(w)
    BY <1>1, <2>5 DEF NothingPrepared
  <2>6. CASE Exit(w)
    BY <1>1, <2>6 DEF Exit
  <2>7. CASE Sleep(w)
    BY <1>1, <2>7 DEF Sleep
  <2>8. CASE Wake(w)
    BY <1>1, <2>8 DEF Wake
  <2>9. CASE LookupFails(w)
    BY <1>1, <2>9 DEF LookupFails
  <2>10. CASE RegisterFails(w)
    BY <1>1, <2>10 DEF RegisterFails
  <2>11. CASE Register(w)
    <3>1. PICK to \in {"finishing", "discovering"} : Goto(w, "processing", to)
      BY <2>11 DEF Register
    <3>2. UNCHANGED <<newItems, pushed, main>>
      BY <2>11 DEF Register
    <3> QED
      BY <1>1, <3>1, <3>2
  <2>12. CASE Discover(w)
    <3>1. PICK d \in todo[w] : DiscoverDependency(w, d)
      BY <2>12 DEF Discover
    <3> SUFFICES ASSUME NewlyAdded(item[w], d) PROVE PushesReserved'
      <4>1. CASE ~NewlyAdded(item[w], d)
        <5>1. PICK to \in {"discovering", "pushing", "finishing"} :
                  Goto(w, "discovering", to)
          BY <3>1 DEF DiscoverDependency
        <5>2. UNCHANGED <<newItems, pushed, main>>
          BY <3>1, <4>1 DEF DiscoverDependency
        <5> QED
          BY <1>1, <5>1, <5>2
      <4> QED
        BY <4>1
    <3>2. d \in Refs /\ d \notin Known /\ d \in Known'
      <4>1. d \in Refs /\ item[w] # d
        BY DEF TypeOK, NewlyAdded
      <4>2. dependents' = [dependents EXCEPT ![d] = @ \cup {item[w]}]
        BY <3>1, <4>1 DEF DiscoverDependency, AddComponentDependency
      <4> QED
        BY <4>1, <4>2 DEF TypeOK, GraphTypeOK, NewlyAdded, Known
    <3>3. pc[w] = "discovering" /\ Root \in Known
      BY <3>1 DEF DiscoverDependency, Goto, RootFirst
    <3>4. pushed[d] = 0
      <4>1. pushed[d] \in Nat
        BY <3>2 DEF TypeOK
      <4> QED
        BY <3>2, <3>3, <4>1 DEF PushesReserved
    <3>5. newItems' = [newItems EXCEPT ![w] = Append(newItems[w], d)]
      BY <3>1 DEF DiscoverDependency
    <3>6. main # "pushing" /\ UNCHANGED <<main, pushed>>
      BY <3>1, <3>3 DEF DiscoverDependency, WalkConsistent
    <3>7. \A v \in Workers : \A i : PushBegun(v, i) => PushBegun(v, i)'
      BY <3>1, <3>3 DEF DiscoverDependency, Goto, TypeOK, PushBegun
    <3> DEFINE n == Len(newItems[w])
    <3>8. /\ n \in Nat
          /\ DOMAIN newItems[w] = 1 .. n
          /\ DOMAIN newItems'[w] = 1 .. n + 1
          /\ newItems'[w][n + 1] = d
          /\ \A i \in 1 .. n : newItems'[w][i] = newItems[w][i]
          /\ \A v \in Workers \ {w} : newItems'[v] = newItems[v]
      BY <3>2, <3>5 DEF TypeOK
    <3> HIDE DEF n
    <3>9. \A v \in Workers : \A i \in DOMAIN newItems[v] : newItems[v][i] # d
      BY <3>2 DEF PushesReserved
    <3>10. \A v \in Workers : \A i \in DOMAIN newItems'[v] :
               \/ /\ i \in DOMAIN newItems[v]
                  /\ newItems'[v][i] = newItems[v][i]
               \/ v = w /\ i = n + 1 /\ newItems'[v][i] = d
      BY <3>8
    <3>11. \A v \in Workers : \A i \in DOMAIN newItems'[v] :
               /\ newItems'[v][i] \in Known'
               /\ ~PushBegun(v, i)' => pushed'[newItems'[v][i]] = 0
      BY <1>0, <3>2, <3>4, <3>6, <3>7, <3>10 DEF PushesReserved
    <3>12. \A v, u \in Workers :
               \A i \in DOMAIN newItems'[v], j \in DOMAIN newItems'[u] :
                   newItems'[v][i] = newItems'[u][j] => v = u /\ i = j
      BY <3>9, <3>10 DEF PushesReserved
    <3> QED
      BY <1>0, <3>6, <3>11, <3>12 DEF PushesReserved
  <2>13. CASE PushRead(w)
    <3> DEFINE c == Head(newItems[w])
    <3>1. newItems[w] # <<>> /\ pc[w] = "pushing"
      BY <2>13 DEF PushRead, Goto, WorkersConsistent
    <3>2. 1 \in DOMAIN newItems[w] /\ c = newItems[w][1] /\ c \in Refs
      BY <3>1, HeadTailProperties DEF TypeOK
    <3>3. c \in Known /\ pushed[c] = 0
      BY <3>1, <3>2 DEF PushesReserved, PushBegun
    <3> HIDE DEF c
    <3>4. pushed' = [pushed EXCEPT ![c] = 1] /\ UNCHANGED <<newItems, main>>
      BY <2>13, <3>3 DEF PushRead, c
    <3>5. main # "pushing"
      BY <3>1 DEF WalkConsistent
    <3>6. PushBegun(w, 1)'
      BY <2>13 DEF PushRead, Goto, TypeOK, PushBegun
    <3>7. \A v \in Workers : \A i : PushBegun(v, i) => PushBegun(v, i)'
      BY <2>13, <3>1 DEF PushRead, Goto, TypeOK, PushBegun
    <3>8. \A v \in Workers : \A i \in DOMAIN newItems[v] :
              newItems[v][i] = c => v = w /\ i = 1
      BY <3>2 DEF PushesReserved
    <3>9. \A v \in Workers : \A i \in DOMAIN newItems'[v] :
              /\ newItems'[v][i] \in Known'
              /\ ~PushBegun(v, i)' => pushed'[newItems'[v][i]] = 0
      BY <1>0, <3>2, <3>4, <3>6, <3>7, <3>8 DEF PushesReserved, TypeOK
    <3>10. \A e \in Refs : /\ pushed'[e] > 0 => e \in Known' \cup {Root}
                           /\ pushed'[e] <= 1
      BY <1>0, <3>3, <3>4 DEF PushesReserved, TypeOK
    <3> QED
      BY <3>4, <3>5, <3>9, <3>10 DEF PushesReserved
  <2>14. CASE PushPublish(w)
    BY <1>1, <2>14 DEF PushPublish
  <2>15. CASE PushGrow(w)
    BY <1>1, <2>15 DEF PushGrow
  <2>16. CASE PushReplace(w)
    BY <1>1, <2>16 DEF PushReplace
  <2>17. CASE PushStore(w)
    <3>1. newItems[w] \in Seq(Refs) /\ newItems[w] # <<>> /\ pc[w] = "storing"
      BY <2>17 DEF PushStore, Goto, WorkersConsistent, TypeOK
    <3>2. newItems' = [newItems EXCEPT ![w] = Tail(newItems[w])]
      BY <2>17 DEF PushStore
    <3>3. main # "pushing" /\ UNCHANGED <<main, pushed>>
      BY <2>17, <3>1 DEF PushStore, WalkConsistent
    <3>4. \A v \in Workers \ {w} : \A i : PushBegun(v, i)' = PushBegun(v, i)
      BY <2>17 DEF PushStore, Goto, TypeOK, PushBegun
    <3> DEFINE n == Len(newItems[w])
    <3>5. /\ n \in Nat
          /\ DOMAIN newItems[w] = 1 .. n
          /\ newItems'[w] = Tail(newItems[w])
          /\ DOMAIN Tail(newItems[w]) = 1 .. n - 1
          /\ \A i \in 1 .. n - 1 : Tail(newItems[w])[i] = newItems[w][i + 1]
          /\ \A v \in Workers \ {w} : newItems'[v] = newItems[v]
      BY <3>1, <3>2, HeadTailProperties, LenProperties DEF TypeOK
    <3> HIDE DEF n
    <3>6. \A i \in DOMAIN newItems'[w] :
              /\ i \in Nat \ {0}
              /\ i + 1 \in DOMAIN newItems[w]
              /\ newItems'[w][i] = newItems[w][i + 1]
              /\ ~PushBegun(w, i + 1)
      BY <3>5 DEF PushBegun
    <3>7. \A v \in Workers : \A i \in DOMAIN newItems'[v] :
              /\ newItems'[v][i] \in Known'
              /\ ~PushBegun(v, i)' => pushed'[newItems'[v][i]] = 0
      <4>1. ASSUME NEW i \in DOMAIN newItems'[w]
            PROVE  newItems'[w][i] \in Known' /\ pushed'[newItems'[w][i]] = 0
        BY <1>0, <3>3, <3>6 DEF PushesReserved
      <4>2. ASSUME NEW v \in Workers \ {w}, NEW i \in DOMAIN newItems'[v]
            PROVE  /\ newItems'[v][i] \in Known'
                   /\ ~PushBegun(v, i)' => pushed'[newItems'[v][i]] = 0
        BY <1>0, <3>3, <3>4, <3>5 DEF PushesReserved
      <4> QED
        BY <4>1, <4>2
    <3>8. \A v, u \in Workers :
              \A i \in DOMAIN newItems'[v], j \in DOMAIN newItems'[u] :
                  newItems'[v][i] = newItems'[u][j] => v = u /\ i = j
      <4>1. ASSUME NEW i \in DOMAIN newItems'[w], NEW j \in DOMAIN newItems'[w],
                   newItems'[w][i] = newItems'[w][j]
            PROVE  i = j
        <5>1. i + 1 = j + 1
          BY <3>6, <4>1 DEF PushesReserved
        <5> QED
          BY <3>6, <5>1
      <4>2. ASSUME NEW v \in Workers \ {w}, NEW i \in DOMAIN newItems'[v],
                   NEW j \in DOMAIN newItems'[w]
            PROVE  newItems'[v][i] # newItems'[w][j]
        BY <3>5, <3>6 DEF PushesReserved
      <4>3. ASSUME NEW v \in Workers \ {w}, NEW u \in Workers \ {w},
                   NEW i \in DOMAIN newItems'[v], NEW j \in DOMAIN newItems'[u],
                   newItems'[v][i] = newItems'[u][j]
            PROVE  v = u /\ i = j
        BY <3>5, <4>3 DEF PushesReserved
      <4> QED
        BY <4>1, <4>2, <4>3
    <3> QED
      BY <1>0, <3>3, <3>7, <3>8 DEF PushesReserved
  <2>18. CASE Finish(w)
    BY <1>1, <2>18 DEF Finish
  <2>19. CASE FinishFailed(w)
    BY <1>1, <2>19 DEF FinishFailed
  <2>20. CASE addError(w)
    BY <1>1, <2>20 DEF addError
  <2> QED
    BY <1>5, <2>1, <2>2, <2>3, <2>4, <2>5, <2>6, <2>7, <2>8, <2>9, <2>10, <2>11, <2>12, <2>13, <2>14, <2>15, <2>16, <2>17, <2>18, <2>19, <2>20 DEF Work
<1> QED
  BY <1>2, <1>3, <1>4, <1>5 DEF Next

(***************************************************************************)
(* However the workers interleave and whatever refers to whatever, no      *)
(* component is handed to the queue twice.                                 *)
(***************************************************************************)
THEOREM NeverPushedTwice == Spec => []PushedOnce
<1> DEFINE Inv == PoolInv /\ RootFirst /\ PushesReserved
<1>1. Init => Inv
  <2> SUFFICES ASSUME Init PROVE RootFirst /\ PushesReserved
    BY InitPool
  <2>1. RootFirst
    BY DEF Init, RootFirst, Pushing
  <2>2. PushesReserved
    BY DEF Init, PushesReserved
  <2> QED
    BY <2>1, <2>2
<1>2. Inv /\ [Next]_vars => Inv'
  <2>1. PoolInv /\ [Next]_vars => PoolInv'
    BY NextType, NextConsistent, NextCounters, NextWatched, NextWalk,
       NextFailures DEF PoolInv
  <2> QED
    BY <2>1, NextRootFirst, NextReserved DEF PoolInv
<1>3. Inv => PushedOnce
  <2> SUFFICES ASSUME Inv, NEW c \in Refs PROVE pushed[c] <= 1
    BY DEF PushedOnce
  <2> QED
    BY DEF PushesReserved
<1> QED
  BY <1>1, <1>2, <1>3, PTL DEF Spec

=============================================================================
