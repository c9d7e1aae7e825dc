---------------------- MODULE ComponentTraversalProofs ----------------------
(***************************************************************************)
(* What a walk with a single worker promises, for every set of descriptors *)
(* and every reference that may fail: every component found is visited     *)
(* once, or its visit fails, before the walk returns; and the dependencies *)
(* of what was visited are listed exactly.  Neither holds of two workers:  *)
(* the race on the queue loses references, which WalkerLosesWork.cfg       *)
(* shows, and has others processed twice.                                  *)
(*                                                                         *)
(* The argument keeps the components apart by where they are: in the       *)
(* queue, in newItems, in the hand of the worker, visited, or failed.      *)
(* What is known is always in exactly one of these places.  To know that,  *)
(* one has to know what the slice holds at each step of Pop and append.    *)
(***************************************************************************)
EXTENDS ComponentGraphProofs, FiniteSetTheorems

\* The slice h has its first n elements in memory.
Covers(h, n) == n > 0 => h.arr \in DOMAIN heap /\ h.off + n <= Len(heap[h.arr])

Slot(i) == heap[queue.arr][queue.off + i]

\* The queue, without the element that is being popped or not yet stored.
First(w) == IF pc[w] = "advancing" THEN 2 ELSE 1
Filled(w) == IF pc[w] = "storing" THEN queue.len - 1 ELSE queue.len
Slots(w) == First(w) .. Filled(w)

SliceOK(w) ==
    /\ Covers(queue, queue.len)
    /\ \A i, j \in Slots(w) : Slot(i) = Slot(j) => i = j
    /\ pc[w] = "advancing" => snapshot[w] = queue /\ queue.len > 0
    /\ pc[w] \in {"publishing", "growing"} => snapshot[w] = queue
    /\ pc[w] = "publishing" => Covers(queue, queue.len + 1)
    /\ pc[w] = "replacing" =>
           /\ snapshot[w].len = queue.len
           /\ Covers(snapshot[w], queue.len + 1)
           /\ \A i \in 1 .. queue.len : heap[snapshot[w].arr][snapshot[w].off + i] = Slot(i)
    /\ pc[w] = "storing" => queue = [snapshot[w] EXCEPT !.len = @ + 1]

InQueue(w) == {Slot(i) : i \in Slots(w)}

Memory == Seq(Seq(Refs \cup {Zero}))

\* Storing an element changes one place of one array.
LEMMA ElementStored ==
    ASSUME heap \in Memory, NEW h \in Header, NEW k \in Nat, NEW x \in Refs \cup {Zero},
           h.arr \in DOMAIN heap, h.off + k \in DOMAIN heap[h.arr],
           NEW memory, memory = SetElement(h, k, x)
    PROVE  /\ DOMAIN memory = DOMAIN heap
           /\ Len(memory[h.arr]) = Len(heap[h.arr])
           /\ \A j \in DOMAIN heap[h.arr] :
                  memory[h.arr][j] = IF j = h.off + k THEN x ELSE heap[h.arr][j]
<1> DEFINE array == [heap[h.arr] EXCEPT ![h.off + k] = x]
<1>1. heap[h.arr] \in Seq(Refs \cup {Zero})
  BY DEF Memory
<1>2. /\ array \in Seq(Refs \cup {Zero}) /\ Len(array) = Len(heap[h.arr])
      /\ \A j \in DOMAIN heap[h.arr] : array[j] = IF j = h.off + k THEN x ELSE heap[h.arr][j]
  BY <1>1, ExceptSeq
<1>3. memory = [heap EXCEPT ![h.arr] = array]
  BY DEF SetElement
<1> HIDE DEF array
<1> QED
  BY <1>2, <1>3

\* What the arrays hold that a slice covers.
LEMMA CoveredElement ==
    ASSUME heap \in Memory, NEW h \in Header, NEW n \in Nat, Covers(h, n), NEW i \in 1 .. n
    PROVE  /\ h.arr \in DOMAIN heap
           /\ h.off + i \in DOMAIN heap[h.arr]
           /\ Element(h, i) = heap[h.arr][h.off + i]
<1>1. h.arr \in DOMAIN heap /\ h.off + n <= Len(heap[h.arr])
  BY DEF Covers
<1>2. heap[h.arr] \in Seq(Refs \cup {Zero}) /\ h.off \in Nat
  BY <1>1 DEF Memory, Header
<1>3. h.off + i \in DOMAIN heap[h.arr]
  BY <1>1, <1>2
<1> QED
  BY <1>1, <1>3 DEF Element

-----------------------------------------------------------------------------
(* The steps of a single worker, as far as the queue goes. *)

SliceAt == {"advancing", "publishing", "growing", "replacing", "storing"}

\* A step that leaves the slice alone leaves the queue alone.
LEMMA QueueLeft ==
    ASSUME TypeOK, NEW w \in Workers, SliceOK(w), UNCHANGED <<queue, heap>>,
           pc[w] \notin SliceAt, pc'[w] \notin SliceAt
    PROVE  SliceOK(w)' /\ InQueue(w)' = InQueue(w)
<1>1. Slots(w)' = Slots(w) /\ \A i \in Slots(w) : Slot(i)' = Slot(i)
  BY DEF Slots, First, Filled, Slot, SliceAt
<1>2. Covers(queue, queue.len)'
  BY DEF SliceOK, Covers
<1> QED
  BY <1>1, <1>2 DEF SliceOK, InQueue, SliceAt

\* The queue starts with the root.
LEMMA RootQueued ==
    ASSUME TypeOK, NEW w \in Workers, PushRoot, pc[w] = "unborn"
    PROVE  SliceOK(w)' /\ InQueue(w)' = {Root}
<1>1. Slots(w)' = {1} /\ Slot(1)' = Root
  BY DEF PushRoot, Slots, First, Filled, Slot
<1>2. Covers(queue, queue.len)'
  BY DEF PushRoot, Covers
<1> QED
  BY <1>1, <1>2 DEF SliceOK, InQueue, PushRoot

\* Pop takes the first element, and its slot is empty from then on.
LEMMA ElementPopped ==
    ASSUME TypeOK, NEW w \in Workers, SliceOK(w), PopElement(w)
    PROVE  /\ SliceOK(w)'
           /\ item'[w] \in InQueue(w) /\ InQueue(w)' = InQueue(w) \ {item'[w]}
<1> DEFINE n == queue.len
<1>1. pc[w] = "popping" /\ pc'[w] = "advancing" /\ queue' = queue /\ n # 0
  BY DEF PopElement, Goto, TypeOK, QueueEmpty
<1>2. n \in Nat /\ n > 0 /\ queue \in Header /\ heap \in Memory /\ Covers(queue, n)
  BY <1>1 DEF TypeOK, Header, Memory, SliceOK
<1>3. /\ queue.arr \in DOMAIN heap
      /\ \A i \in 1 .. n : queue.off + i \in DOMAIN heap[queue.arr]
      /\ Element(queue, 1) = Slot(1)
  BY <1>2, CoveredElement DEF Slot
<1>4. /\ DOMAIN heap' = DOMAIN heap
      /\ Len(heap'[queue.arr]) = Len(heap[queue.arr])
      /\ \A j \in DOMAIN heap[queue.arr] :
             j # queue.off + 1 => heap'[queue.arr][j] = heap[queue.arr][j]
  <2>1. heap' = SetElement(queue, 1, Zero)
    BY DEF PopElement
  <2>2. queue.off + 1 \in DOMAIN heap[queue.arr]
    BY <1>2, <1>3
  <2>3. 1 \in Nat /\ Zero \in Refs \cup {Zero}
    OBVIOUS
  <2> QED
    BY <1>2, <1>3, <2>1, <2>2, <2>3, ElementStored
<1>5. \A i \in 2 .. n : Slot(i)' = Slot(i)
  BY <1>1, <1>2, <1>3, <1>4 DEF Slot, Header
<1>6. Slots(w) = 1 .. n /\ Slots(w)' = 2 .. n
  BY <1>1 DEF Slots, First, Filled
<1>7. item'[w] = Slot(1)
  BY <1>3 DEF PopElement, TypeOK
<1>8. SliceOK(w)'
  <2>1. Covers(queue, queue.len)'
    BY <1>1, <1>2, <1>4 DEF Covers
  <2>2. snapshot'[w] = queue'
    BY <1>1 DEF PopElement, TypeOK
  <2> QED
    BY <1>1, <1>2, <1>5, <1>6, <2>1, <2>2 DEF SliceOK
<1>9. \A i \in 2 .. n : Slot(i) # Slot(1)
  BY <1>2, <1>6 DEF SliceOK
<1> QED
  BY <1>2, <1>5, <1>6, <1>7, <1>8, <1>9 DEF InQueue

\* Reslicing leaves the empty slot behind.
LEMMA QueueAdvanced ==
    ASSUME TypeOK, NEW w \in Workers, SliceOK(w), PopAdvance(w)
    PROVE  SliceOK(w)' /\ InQueue(w)' = InQueue(w)
<1> DEFINE n == queue.len
<1>1. /\ pc[w] = "advancing" /\ pc'[w] = "processing" /\ heap' = heap
      /\ queue' = [queue EXCEPT !.off = @ + 1, !.len = @ - 1]
  BY DEF PopAdvance, Goto, TypeOK, SliceOK
<1>2. queue \in Header /\ n \in Nat /\ n > 0 /\ Covers(queue, n)
  BY <1>1 DEF TypeOK, Header, SliceOK
<1>3. queue'.arr = queue.arr /\ queue'.off = queue.off + 1 /\ queue'.len = n - 1
  BY <1>1, <1>2 DEF Header
<1>4. Slots(w) = 2 .. n /\ Slots(w)' = 1 .. n - 1
  BY <1>1, <1>3 DEF Slots, First, Filled
<1>5. \A i \in 1 .. n - 1 : Slot(i)' = Slot(i + 1)
  BY <1>1, <1>2, <1>3 DEF Slot, Header
<1>6. Covers(queue, queue.len)'
  BY <1>1, <1>2, <1>3 DEF Covers, Header
<1>7. \A i, j \in 1 .. n - 1 : Slot(i)' = Slot(j)' => i = j
  <2>1. \A i, j \in 1 .. n - 1 : Slot(i + 1) = Slot(j + 1) => i + 1 = j + 1
    BY <1>2, <1>4 DEF SliceOK
  <2> QED
    BY <1>2, <1>5, <2>1
<1>8. InQueue(w)' = InQueue(w)
  <2>1. \A i \in 2 .. n : i - 1 \in 1 .. n - 1 /\ Slot(i - 1)' = Slot(i)
    BY <1>2, <1>5
  <2>2. \A i \in 1 .. n - 1 : i + 1 \in 2 .. n
    BY <1>2
  <2> QED
    BY <1>4, <1>5, <2>1, <2>2 DEF InQueue
<1> QED
  BY <1>1, <1>4, <1>6, <1>7, <1>8 DEF SliceOK

\* append loads the header, and sees whether the array has room.
LEMMA HeaderRead ==
    ASSUME TypeOK, NEW w \in Workers, SliceOK(w), PushRead(w)
    PROVE  SliceOK(w)' /\ InQueue(w)' = InQueue(w)
<1>1. /\ pc[w] = "pushing"
      /\ pc'[w] = IF queue.len < Capacity(queue) THEN "publishing" ELSE "growing"
      /\ UNCHANGED <<queue, heap>> /\ snapshot'[w] = queue
  BY DEF PushRead, Goto, TypeOK
<1>2. Slots(w)' = Slots(w) /\ \A i \in Slots(w) : Slot(i)' = Slot(i)
  BY <1>1 DEF Slots, First, Filled, Slot
<1>3. Covers(queue, queue.len)'
  BY <1>1 DEF SliceOK, Covers
<1>4. pc'[w] = "publishing" => Covers(queue, queue.len + 1)'
  <2> SUFFICES ASSUME queue.len < Capacity(queue)
               PROVE  Covers(queue, queue.len + 1)
    BY <1>1 DEF Covers
  <2>1. queue.len \in Nat /\ queue.off \in Nat
    BY DEF TypeOK, Header
  <2>2. queue.arr \in DOMAIN heap
    BY <2>1 DEF Capacity
  <2>3. Len(heap[queue.arr]) \in Nat
    BY <2>2 DEF TypeOK
  <2> QED
    BY <2>1, <2>2, <2>3 DEF Capacity, Covers
<1> QED
  BY <1>1, <1>2, <1>3, <1>4 DEF SliceOK, InQueue

\* The new length is seen before the element is there.
LEMMA LengthPublished ==
    ASSUME TypeOK, NEW w \in Workers, SliceOK(w), PushPublish(w)
    PROVE  SliceOK(w)' /\ InQueue(w)' = InQueue(w)
<1>1. /\ pc[w] = "publishing" /\ pc'[w] = "storing" /\ heap' = heap
      /\ snapshot' = snapshot /\ snapshot[w] = queue
      /\ queue' = [queue EXCEPT !.len = @ + 1]
  BY DEF PushPublish, Goto, TypeOK, SliceOK
<1>2. queue \in Header /\ queue.len \in Nat /\ Covers(queue, queue.len + 1)
  BY <1>1 DEF TypeOK, Header, SliceOK
<1>3. queue'.arr = queue.arr /\ queue'.off = queue.off /\ queue'.len = queue.len + 1
  BY <1>1, <1>2 DEF Header
<1>4. Slots(w) = 1 .. queue.len /\ Slots(w)' = 1 .. queue.len
  BY <1>1, <1>2, <1>3 DEF Slots, First, Filled
<1>5. \A i : Slot(i)' = Slot(i)
  BY <1>1, <1>3 DEF Slot
<1>6. Covers(queue, queue.len)'
  BY <1>1, <1>2, <1>3 DEF Covers
<1> QED
  BY <1>1, <1>4, <1>5, <1>6 DEF SliceOK, InQueue

\* The array that append allocates has what the queue covers, and room.
LEMMA ArrayGrown ==
    ASSUME TypeOK, NEW w \in Workers, SliceOK(w), PushGrow(w)
    PROVE  SliceOK(w)' /\ InQueue(w)' = InQueue(w)
<1> DEFINE n == queue.len
           array == GrownArray(queue)
<1>1. /\ pc[w] = "growing" /\ pc'[w] = "replacing" /\ queue' = queue
      /\ heap' = Append(heap, array)
      /\ snapshot'[w] = [arr |-> Len(heap) + 1, off |-> 0, len |-> n]
  BY DEF PushGrow, Goto, TypeOK, SliceOK
<1>2. queue \in Header /\ n \in Nat /\ heap \in Memory /\ Covers(queue, n)
  BY DEF TypeOK, Header, Memory, SliceOK
<1>3. array \in Seq(Refs \cup {Zero}) /\ Len(array) > n
      /\ \A i \in 1 .. n : array[i] = Element(queue, i)
  <2>1. array \in Seq(Refs \cup {Zero})
    BY <1>2, GrownArrayType DEF Memory
  <2>2. DOMAIN array = 1 .. GrownCapacity(queue)
    BY DEF GrownArray
  <2>3. Capacity(queue) \in Int
    <3>1. CASE queue.arr \in DOMAIN heap
      <4>1. Len(heap[queue.arr]) \in Nat
        BY <1>2, <3>1 DEF Memory
      <4> QED
        BY <1>2, <3>1, <4>1 DEF Capacity, Header
    <3>2. CASE queue.arr \notin DOMAIN heap
      BY <3>2 DEF Capacity
    <3> QED
      BY <3>1, <3>2
  <2>4. GrownCapacity(queue) \in Nat /\ GrownCapacity(queue) > n
    BY <1>2, <2>3 DEF GrownCapacity
  <2>5. Len(array) = GrownCapacity(queue)
    BY <2>1, <2>2, <2>4
  <2>6. \A i \in 1 .. n : array[i] = Element(queue, i)
    BY <1>2, <2>4 DEF GrownArray
  <2> QED
    BY <2>1, <2>4, <2>5, <2>6
<1> HIDE DEF array
<1>4. /\ Len(heap) \in Nat /\ DOMAIN heap' = 1 .. Len(heap) + 1
      /\ heap'[Len(heap) + 1] = array
      /\ \A a \in DOMAIN heap : heap'[a] = heap[a]
  BY <1>1, <1>2, <1>3 DEF Memory
<1>5. \A i \in 1 .. n : Slot(i)' = Slot(i) /\ Element(queue, i) = Slot(i)
  <2> TAKE i \in 1 .. n
  <2>1. queue.arr \in DOMAIN heap /\ Element(queue, i) = Slot(i)
    BY <1>2, CoveredElement DEF Slot
  <2> QED
    BY <1>1, <1>4, <2>1 DEF Slot
<1>6. Slots(w) = 1 .. n /\ Slots(w)' = 1 .. n
  BY <1>1 DEF Slots, First, Filled
<1>7. Covers(queue, queue.len)'
  BY <1>1, <1>2, <1>4 DEF Covers, Memory
<1>8. snapshot'[w].len = n /\ Covers(snapshot[w], n + 1)'
  BY <1>1, <1>2, <1>3, <1>4 DEF Covers
<1>9. \A i \in 1 .. n : heap'[snapshot'[w].arr][snapshot'[w].off + i] = Slot(i)'
  BY <1>1, <1>3, <1>4, <1>5
<1> QED
  BY <1>1, <1>5, <1>6, <1>7, <1>8, <1>9 DEF SliceOK, InQueue

\* The new header finds in the new array what the old one found.
LEMMA HeaderReplaced ==
    ASSUME TypeOK, NEW w \in Workers, SliceOK(w), PushReplace(w)
    PROVE  SliceOK(w)' /\ InQueue(w)' = InQueue(w)
<1> DEFINE n == queue.len
<1>1. /\ pc[w] = "replacing" /\ pc'[w] = "storing" /\ heap' = heap
      /\ snapshot' = snapshot /\ snapshot[w].len = n
      /\ queue' = [snapshot[w] EXCEPT !.len = @ + 1]
  BY DEF PushReplace, Goto, TypeOK, SliceOK
<1>2. snapshot[w] \in Header /\ n \in Nat
  BY DEF TypeOK, Header
<1>3. queue'.arr = snapshot[w].arr /\ queue'.off = snapshot[w].off /\ queue'.len = n + 1
  BY <1>1, <1>2 DEF Header
<1>4. Slots(w) = 1 .. n /\ Slots(w)' = 1 .. n
  BY <1>1, <1>2, <1>3 DEF Slots, First, Filled
<1>5. \A i \in 1 .. n : Slot(i)' = Slot(i)
  BY <1>1, <1>3 DEF Slot, SliceOK
<1>6. Covers(queue, queue.len)'
  BY <1>1, <1>2, <1>3 DEF Covers, SliceOK
<1> QED
  BY <1>1, <1>4, <1>5, <1>6 DEF SliceOK, InQueue

\* The element is the last of the queue once it is stored.
LEMMA ElementPushed ==
    ASSUME TypeOK, NEW w \in Workers, SliceOK(w), PushStore(w), newItems[w] # <<>>,
           Head(newItems[w]) \notin InQueue(w)
    PROVE  SliceOK(w)' /\ InQueue(w)' = InQueue(w) \cup {Head(newItems[w])}
<1> DEFINE n == queue.len
           x == Head(newItems[w])
<1>1. /\ pc[w] = "storing" /\ pc'[w] \in {"pushing", "finishing"} /\ queue' = queue
      /\ heap' = SetElement(snapshot[w], snapshot[w].len + 1, x)
      /\ queue = [snapshot[w] EXCEPT !.len = @ + 1]
  BY DEF PushStore, Goto, TypeOK, SliceOK
<1>2. snapshot[w] \in Header /\ queue \in Header /\ heap \in Memory /\ x \in Refs
  BY DEF TypeOK, Memory
<1>3. /\ snapshot[w].arr = queue.arr /\ snapshot[w].off = queue.off
      /\ snapshot[w].len = n - 1 /\ n \in Nat /\ n > 0
  BY <1>1, <1>2 DEF Header
<1>4. Covers(queue, n)
  BY DEF SliceOK
<1>5. /\ queue.arr \in DOMAIN heap
      /\ \A i \in 1 .. n : queue.off + i \in DOMAIN heap[queue.arr]
  BY <1>2, <1>3, <1>4, CoveredElement
<1>6. /\ DOMAIN heap' = DOMAIN heap
      /\ Len(heap'[queue.arr]) = Len(heap[queue.arr])
      /\ \A j \in DOMAIN heap[queue.arr] :
             heap'[queue.arr][j] = IF j = queue.off + n THEN x ELSE heap[queue.arr][j]
  <2>1. x \in Refs \cup {Zero}
    BY <1>2
  <2>2. snapshot[w].len + 1 = n /\ n \in 1 .. n
    BY <1>3
  <2>3. snapshot[w].arr \in DOMAIN heap /\ snapshot[w].off + n \in DOMAIN heap[snapshot[w].arr]
    BY <1>3, <1>5, <2>2
  <2>4. heap' = SetElement(snapshot[w], n, x)
    BY <1>1, <2>2
  <2> HIDE DEF x, n
  <2>5. n \in Nat /\ snapshot[w] \in Header
    BY <1>2, <1>3
  <2>6. /\ DOMAIN heap' = DOMAIN heap
        /\ Len(heap'[snapshot[w].arr]) = Len(heap[snapshot[w].arr])
        /\ \A j \in DOMAIN heap[snapshot[w].arr] :
               heap'[snapshot[w].arr][j] =
                   IF j = snapshot[w].off + n THEN x ELSE heap[snapshot[w].arr][j]
    BY <1>2, <2>1, <2>3, <2>4, <2>5, ElementStored
  <2> QED
    BY <1>3, <2>6
<1>7. Slots(w) = 1 .. n - 1 /\ Slots(w)' = 1 .. n
  BY <1>1 DEF Slots, First, Filled
<1>8. \A i \in 1 .. n : Slot(i)' = IF i = n THEN x ELSE Slot(i)
  BY <1>1, <1>2, <1>3, <1>5, <1>6 DEF Slot, Header
<1>9. Covers(queue, queue.len)'
  BY <1>1, <1>4, <1>5, <1>6 DEF Covers
<1>10. \A i \in 1 .. n - 1 : Slot(i) \in InQueue(w)
  BY <1>7 DEF InQueue
<1>11. InQueue(w)' = InQueue(w) \cup {x}
  BY <1>3, <1>7, <1>8 DEF InQueue
<1>12. \A i, j \in 1 .. n : Slot(i)' = Slot(j)' => i = j
  <2>1. \A i, j \in 1 .. n - 1 : Slot(i) = Slot(j) => i = j
    BY <1>7 DEF SliceOK
  <2> QED
    BY <1>3, <1>8, <1>10, <2>1
<1> QED
  BY <1>1, <1>7, <1>9, <1>11, <1>12 DEF SliceOK

-----------------------------------------------------------------------------
(* Where the components are. *)

Handling == {"discovering", "finishing"} \cup Pushing
InHand(w) ==
    IF pc[w] \in {"advancing", "processing", "failing", "reporting"} \cup Handling
    THEN {item[w]} ELSE {}

ToPush(w) == {newItems[w][i] : i \in DOMAIN newItems[w]}

Visited == {c \in Refs : processed[c] > 0}

\* What the visited components refer to, and the root.
FoundRefs == {Root} \cup UNION {References[c] : c \in Visited}

OnePlace(w) ==
    /\ InQueue(w) \cap ToPush(w) = {}
    /\ InHand(w) \cap (InQueue(w) \cup ToPush(w)) = {}
    /\ Visited \cap FailedRefs = {}
    /\ (InQueue(w) \cup ToPush(w) \cup InHand(w)) \cap (Visited \cup FailedRefs) = {}

Places(w) == InQueue(w) \cup ToPush(w) \cup InHand(w) \cup Visited \cup FailedRefs

AllPlaces(w) ==
    /\ Places(w) = Known \cup (IF main = "pushing" THEN {} ELSE {Root})
    /\ newItems[w] # <<>> => pc[w] \in {"discovering"} \cup Pushing
    /\ main = "pushing" => Known = {}

Reached(w) ==
    /\ InHand(w) \subseteq FoundRefs
    /\ InQueue(w) \cup ToPush(w) \subseteq
           FoundRefs \cup (IF pc[w] \in Handling THEN References[item[w]] ELSE {})
    /\ main # "returned" => result = "none"

\* A step that leaves every component where it is.
LEMMA NothingMoved ==
    ASSUME NEW w \in Workers, OnePlace(w), AllPlaces(w), Reached(w),
           UNCHANGED <<processed, errs, newItems>>,
           InQueue(w)' = InQueue(w), InHand(w)' = InHand(w),
           main' = "pushing" => main = "pushing" /\ Known' = Known,
           main = "pushing" => main' = "pushing",
           Known' \cup {Root} = Known \cup {Root},
           newItems[w] # <<>> /\ pc[w] \in {"discovering"} \cup Pushing =>
               pc'[w] \in {"discovering"} \cup Pushing,
           pc[w] \in Handling => pc'[w] \in Handling /\ item'[w] = item[w],
           main' # "returned" => result' = "none"
    PROVE  OnePlace(w)' /\ AllPlaces(w)' /\ Reached(w)'
<1>1. /\ ToPush(w)' = ToPush(w) /\ Visited' = Visited /\ FailedRefs' = FailedRefs
      /\ FoundRefs' = FoundRefs
  BY DEF ToPush, Visited, FailedRefs, FoundRefs
<1>2. OnePlace(w)'
  BY <1>1 DEF OnePlace
<1>3. AllPlaces(w)'
  BY <1>1 DEF AllPlaces, Places
<1>4. Reached(w)'
  BY <1>1 DEF Reached
<1> QED
  BY <1>2, <1>3, <1>4

-----------------------------------------------------------------------------
(* The steps that move one. *)

OneWorkerInv(w) == SliceOK(w) /\ OnePlace(w) /\ AllPlaces(w) /\ Reached(w)

\* Before the walk there is nothing but the root, which is queued.
LEMMA RootPlaced ==
    ASSUME Inv, NEW w \in Workers, OneWorkerInv(w), PushRoot
    PROVE  OneWorkerInv(w)'
<1>1. TypeOK /\ pc[w] = "unborn" /\ main = "pushing"
  BY DEF Inv, PoolInv, WalkConsistent, PushRoot
<1>2. SliceOK(w)' /\ InQueue(w)' = {Root}
  BY <1>1, RootQueued
<1>3. Places(w) = {} /\ Known = {} /\ result = "none"
  BY <1>1 DEF OneWorkerInv, AllPlaces, Reached
<1>4. /\ ToPush(w)' = {} /\ InHand(w)' = {} /\ Visited' = {} /\ FailedRefs' = {}
      /\ Known' = {} /\ newItems'[w] = <<>> /\ result' = "none" /\ main' = "starting"
  <2>1. ToPush(w)' = ToPush(w) /\ InHand(w)' = InHand(w)
    BY DEF PushRoot, ToPush, InHand
  <2>2. Visited' = Visited /\ FailedRefs' = FailedRefs /\ Known' = Known
    BY DEF PushRoot, Visited, FailedRefs, Known, graphVars
  <2>3. newItems[w] = <<>>
    BY <1>1 DEF OneWorkerInv, AllPlaces, Pushing
  <2> QED
    BY <1>3, <2>1, <2>2, <2>3 DEF Places, PushRoot
<1>5. OnePlace(w)'
  BY <1>2, <1>4 DEF OnePlace
<1>6. AllPlaces(w)'
  BY <1>2, <1>4 DEF AllPlaces, Places
<1>7. Reached(w)'
  BY <1>2, <1>4 DEF Reached, FoundRefs
<1> QED
  BY <1>2, <1>5, <1>6, <1>7 DEF OneWorkerInv

\* The first element of the queue is taken into the hand.
LEMMA ItemTaken ==
    ASSUME Inv, NEW w \in Workers, OneWorkerInv(w), PopElement(w)
    PROVE  OneWorkerInv(w)'
<1>1. /\ TypeOK /\ pc[w] = "popping" /\ pc'[w] = "advancing"
      /\ UNCHANGED <<newItems, main, result, processed, errs, graphVars>>
  BY DEF Inv, PoolInv, PopElement, Goto, TypeOK, historyVars
<1>2. /\ SliceOK(w)'
      /\ item'[w] \in InQueue(w) /\ InQueue(w)' = InQueue(w) \ {item'[w]}
  BY <1>1, ElementPopped DEF OneWorkerInv
<1>3. /\ ToPush(w)' = ToPush(w) /\ Visited' = Visited /\ FailedRefs' = FailedRefs
      /\ FoundRefs' = FoundRefs /\ Known' = Known
      /\ InHand(w) = {} /\ InHand(w)' = {item'[w]}
  BY <1>1 DEF ToPush, Visited, FailedRefs, FoundRefs, Known, graphVars, InHand, Handling, Pushing
<1>4. newItems[w] = <<>> /\ pc[w] \notin Handling
  BY <1>1 DEF OneWorkerInv, AllPlaces, Handling, Pushing
<1>5. OnePlace(w)'
  BY <1>2, <1>3 DEF OneWorkerInv, OnePlace
<1>6. AllPlaces(w)'
  BY <1>1, <1>2, <1>3, <1>4 DEF OneWorkerInv, AllPlaces, Places
<1>7. Reached(w)'
  BY <1>1, <1>2, <1>3, <1>4 DEF OneWorkerInv, Reached
<1> QED
  BY <1>2, <1>5, <1>6, <1>7 DEF OneWorkerInv

\* A dependency that nobody knew is one to be pushed.
LEMMA DependencyAdded ==
    ASSUME Inv, NEW w \in Workers, OneWorkerInv(w), NEW d \in todo[w],
           DiscoverDependency(w, d)
    PROVE  OneWorkerInv(w)'
<1> DEFINE c == item[w]
<1>1. /\ TypeOK /\ pc[w] = "discovering"
      /\ pc'[w] \in {"discovering", "pushing", "finishing"}
      /\ newItems'[w] # <<>> => pc'[w] # "finishing"
      /\ UNCHANGED <<main, result, item, queue, heap, processed, errs>>
      /\ newItems' = IF NewlyAdded(c, d) THEN [newItems EXCEPT ![w] = Append(@, d)] ELSE newItems
      /\ AddComponentDependency(c, d)
  <2>1. TypeOK
    BY DEF Inv, PoolInv
  <2>2. pc'[w] = IF todo'[w] # {} THEN "discovering"
                 ELSE IF newItems'[w] # <<>> THEN "pushing" ELSE "finishing"
    BY <2>1 DEF DiscoverDependency, Goto, TypeOK
  <2> QED
    BY <2>1, <2>2 DEF DiscoverDependency, Goto, queueVars, historyVars
<1>2. /\ c \in Refs /\ d \in References[c] /\ d \in Refs
  BY <1>1, GraphAssumption DEF Inv, GraphInv, WorkRecorded, Told, TypeOK
<1>3. Root \in Known /\ main # "pushing"
  BY <1>1 DEF Inv, RootFirst, PoolInv, WalkConsistent
<1>4. SliceOK(w)' /\ InQueue(w)' = InQueue(w)
  BY <1>1, QueueLeft DEF OneWorkerInv, SliceAt
<1>5. /\ InHand(w)' = InHand(w) /\ Visited' = Visited /\ FailedRefs' = FailedRefs
      /\ FoundRefs' = FoundRefs /\ pc[w] \in Handling /\ pc'[w] \in Handling
  BY <1>1 DEF InHand, Visited, FailedRefs, FoundRefs, Handling, Pushing
<1>6. CASE NewlyAdded(c, d)
  <2>0. dependents' = [dependents EXCEPT ![d] = @ \cup {c}] /\ c # d /\ d \notin Known
    BY <1>1, <1>6 DEF NewlyAdded, AddComponentDependency
  <2>1. Known' = Known \cup {d} /\ d \notin Known
    <3> HIDE DEF c
    <3>1. \A e \in Refs : dependents'[e] = IF e = d THEN dependents[e] \cup {c} ELSE dependents[e]
      BY <1>1, <1>2, <2>0 DEF TypeOK, GraphTypeOK
    <3> QED
      BY <1>2, <2>0, <3>1 DEF Known
  <2>2. ToPush(w)' = ToPush(w) \cup {d}
    <3>1. newItems[w] \in Seq(Refs) /\ newItems'[w] = Append(newItems[w], d)
      BY <1>1, <1>6 DEF TypeOK
    <3>2. /\ DOMAIN newItems'[w] = DOMAIN newItems[w] \cup {Len(newItems[w]) + 1}
          /\ newItems'[w][Len(newItems[w]) + 1] = d
          /\ \A i \in DOMAIN newItems[w] : newItems'[w][i] = newItems[w][i]
      BY <1>2, <3>1, AppendProperties
    <3> QED
      BY <3>2 DEF ToPush
  <2>3. d \notin Places(w)
    BY <1>3, <2>1 DEF OneWorkerInv, AllPlaces
  <2>4. OnePlace(w)'
    BY <1>4, <1>5, <2>2, <2>3 DEF OneWorkerInv, OnePlace, Places
  <2>5. AllPlaces(w)'
    <3>1. Places(w)' = Places(w) \cup {d}
      BY <1>4, <1>5, <2>2 DEF Places
    <3> QED
      BY <1>1, <1>3, <2>1, <3>1 DEF OneWorkerInv, AllPlaces, Pushing
  <2>6. Reached(w)'
    BY <1>1, <1>2, <1>4, <1>5, <2>2 DEF OneWorkerInv, Reached
  <2> QED
    BY <1>4, <2>4, <2>5, <2>6 DEF OneWorkerInv
<1>7. CASE ~NewlyAdded(c, d)
  <2>1. Known' = Known
    <3> HIDE DEF c
    <3>1. CASE c = d
      BY <1>1, <3>1 DEF AddComponentDependency, Known
    <3>2. CASE c # d
      <4>1. d \in Known /\ dependents' = [dependents EXCEPT ![d] = @ \cup {c}]
        BY <1>1, <1>7, <3>2 DEF NewlyAdded, AddComponentDependency
      <4>2. \A e \in Refs : dependents'[e] = IF e = d THEN dependents[e] \cup {c} ELSE dependents[e]
        BY <1>1, <1>2, <4>1 DEF TypeOK, GraphTypeOK
      <4> QED
        BY <4>1, <4>2 DEF Known
    <3> QED
      BY <3>1, <3>2
  <2>2. UNCHANGED newItems
    BY <1>1, <1>7
  <2>3. OnePlace(w)' /\ AllPlaces(w)' /\ Reached(w)'
    BY <1>1, <1>3, <1>4, <1>5, <2>1, <2>2, NothingMoved
       DEF OneWorkerInv, Pushing, Reached, WalkConsistent, Inv, PoolInv
  <2> QED
    BY <1>4, <2>3 DEF OneWorkerInv
<1> QED
  BY <1>6, <1>7

\* What is stored in the queue need not be pushed any more.
LEMMA ItemPushed ==
    ASSUME Inv, NEW w \in Workers, OneWorkerInv(w), PushStore(w)
    PROVE  OneWorkerInv(w)'
<1> DEFINE s == newItems[w]
           x == Head(newItems[w])
<1>1. /\ TypeOK /\ pc[w] = "storing"
      /\ pc'[w] = IF Len(s) > 1 THEN "pushing" ELSE "finishing"
      /\ UNCHANGED <<main, result, item, processed, errs, graphVars>>
      /\ newItems'[w] = Tail(s)
      /\ s \in Seq(Refs) /\ s # <<>>
  BY DEF Inv, PoolInv, PushStore, Goto, TypeOK, historyVars, WorkersConsistent, Pushing
<1>2. \A i, j \in DOMAIN s : s[i] = s[j] => i = j
  BY DEF Inv, PushesReserved
<1>3. /\ Len(s) \in Nat /\ Len(s) > 0 /\ x = s[1] /\ DOMAIN s = 1 .. Len(s)
      /\ DOMAIN Tail(s) = 1 .. Len(s) - 1
      /\ \A i \in 1 .. Len(s) - 1 : Tail(s)[i] = s[i + 1]
  BY <1>1
<1>4. x \in ToPush(w) /\ ToPush(w)' = ToPush(w) \ {x}
  <2>1. ToPush(w)' = {s[i + 1] : i \in 1 .. Len(s) - 1}
    BY <1>1, <1>3 DEF ToPush
  <2>2. \A i \in 2 .. Len(s) : s[i] # x /\ i - 1 \in 1 .. Len(s) - 1 /\ (i - 1) + 1 = i
    BY <1>2, <1>3
  <2>3. \A i \in 1 .. Len(s) - 1 : i + 1 \in 2 .. Len(s)
    BY <1>3
  <2>4. 1 \in DOMAIN s /\ \A i \in DOMAIN s : i = 1 \/ i \in 2 .. Len(s)
    BY <1>3
  <2> HIDE DEF s, x
  <2>5. ToPush(w) = {s[i] : i \in DOMAIN s}
    BY DEF ToPush, s
  <2>6. \A y \in ToPush(w)' : y \in ToPush(w) \ {x}
    BY <1>3, <2>1, <2>2, <2>3, <2>5
  <2>7. \A y \in ToPush(w) \ {x} : y \in ToPush(w)'
    <3> SUFFICES ASSUME NEW i \in 2 .. Len(s)
                 PROVE  s[i] \in ToPush(w)'
      BY <1>3, <2>4, <2>5
    <3> QED
      BY <2>1, <2>2
  <2> QED
    BY <1>3, <2>4, <2>5, <2>6, <2>7
<1>5. x \notin InQueue(w)
  BY <1>4 DEF OneWorkerInv, OnePlace
<1>6. SliceOK(w)' /\ InQueue(w)' = InQueue(w) \cup {x}
  BY <1>1, <1>5, ElementPushed DEF OneWorkerInv
<1>7. /\ InHand(w)' = InHand(w) /\ Visited' = Visited /\ FailedRefs' = FailedRefs
      /\ FoundRefs' = FoundRefs /\ Known' = Known
      /\ pc[w] \in Handling /\ pc'[w] \in Handling
  BY <1>1 DEF InHand, Visited, FailedRefs, FoundRefs, Known, graphVars, Handling, Pushing
<1>8. newItems'[w] # <<>> => pc'[w] = "pushing"
  BY <1>1, <1>3
<1> HIDE DEF x, s
<1>9. OnePlace(w)'
  BY <1>4, <1>6, <1>7 DEF OneWorkerInv, OnePlace
<1>10. AllPlaces(w)'
  <2>1. Places(w)' = Places(w)
    BY <1>4, <1>6, <1>7 DEF Places
  <2> QED
    BY <1>1, <1>7, <1>8, <2>1 DEF OneWorkerInv, AllPlaces, Pushing
<1>11. Reached(w)'
  BY <1>1, <1>4, <1>6, <1>7 DEF OneWorkerInv, Reached
<1> QED
  BY <1>6, <1>9, <1>10, <1>11 DEF OneWorkerInv

\* The work on an item has ended, and what it refers to is found.
LEMMA ItemVisited ==
    ASSUME Inv, NEW w \in Workers, OneWorkerInv(w), Finish(w)
    PROVE  /\ OneWorkerInv(w)'
           /\ item[w] \in FoundRefs \ (Visited \cup FailedRefs)
           /\ Visited' = Visited \cup {item[w]} /\ FailedRefs' = FailedRefs
           /\ FoundRefs' = FoundRefs \cup References[item[w]]
<1> DEFINE c == item[w]
<1>1. /\ TypeOK /\ pc[w] = "finishing" /\ pc'[w] = "idle" /\ c \in Refs
      /\ UNCHANGED <<main, result, item, newItems, queue, heap, errs, graphVars>>
      /\ processed' = [processed EXCEPT ![c] = @ + 1]
  BY DEF Inv, PoolInv, Finish, Goto, TypeOK, WorkersConsistent, queueVars
<1>2. SliceOK(w)' /\ InQueue(w)' = InQueue(w)
  BY <1>1, QueueLeft DEF OneWorkerInv, SliceAt
<1>3. /\ InHand(w) = {c} /\ InHand(w)' = {} /\ FailedRefs' = FailedRefs /\ Known' = Known
      /\ newItems[w] = <<>> /\ ToPush(w) = {} /\ ToPush(w)' = {}
  <2>1. newItems[w] = <<>> /\ newItems'[w] = <<>>
    BY <1>1 DEF OneWorkerInv, AllPlaces, Pushing
  <2>2. ToPush(w) = {} /\ ToPush(w)' = {}
    BY <2>1 DEF ToPush
  <2> QED
    BY <1>1, <2>1, <2>2 DEF InHand, Handling, Pushing, FailedRefs, Known, graphVars
<1>4. Visited' = Visited \cup {c}
  <2> HIDE DEF c
  <2>1. \A e \in Refs : processed'[e] = IF e = c THEN processed[e] + 1 ELSE processed[e]
    BY <1>1 DEF TypeOK
  <2>2. \A e \in Refs : processed[e] \in Nat
    BY <1>1 DEF TypeOK
  <2> QED
    BY <1>1, <2>1, <2>2 DEF Visited
<1>5. FoundRefs' = FoundRefs \cup References[c]
  BY <1>4 DEF FoundRefs
<1> HIDE DEF c
<1>6. c \in FoundRefs \ (Visited \cup FailedRefs)
  BY <1>3 DEF OneWorkerInv, Reached, OnePlace
<1>7. OnePlace(w)'
  BY <1>2, <1>3, <1>4, <1>6 DEF OneWorkerInv, OnePlace
<1>8. AllPlaces(w)'
  BY <1>1, <1>2, <1>3, <1>4 DEF OneWorkerInv, AllPlaces, Places
<1>9. Reached(w)'
  BY <1>1, <1>2, <1>3, <1>5 DEF OneWorkerInv, Reached, c
<1> QED
  BY <1>2, <1>3, <1>4, <1>5, <1>6, <1>7, <1>8, <1>9 DEF OneWorkerInv, c

\* The visit of an item has failed, and the failure is recorded.
LEMMA FailureRecorded ==
    ASSUME Inv, NEW w \in Workers, OneWorkerInv(w), addError(w)
    PROVE  /\ OneWorkerInv(w)'
           /\ item[w] \in FoundRefs \ (Visited \cup FailedRefs)
           /\ Visited' = Visited /\ FailedRefs' = FailedRefs \cup {item[w]}
<1> DEFINE c == item[w]
<1>1. /\ TypeOK /\ pc[w] = "reporting" /\ pc'[w] = "idle"
      /\ UNCHANGED <<main, result, item, newItems, queue, heap, processed, graphVars>>
      /\ errs' = Append(errs, c) /\ c \in Refs \cup {Zero}
  BY DEF Inv, PoolInv, addError, Goto, TypeOK, queueVars, historyVars
<1>2. SliceOK(w)' /\ InQueue(w)' = InQueue(w)
  BY <1>1, QueueLeft DEF OneWorkerInv, SliceAt
<1>3. /\ InHand(w) = {c} /\ InHand(w)' = {} /\ Known' = Known
      /\ Visited' = Visited /\ FoundRefs' = FoundRefs
      /\ newItems[w] = <<>> /\ ToPush(w)' = ToPush(w)
  BY <1>1 DEF InHand, Handling, Pushing, Visited, FoundRefs, Known, graphVars,
              OneWorkerInv, AllPlaces, ToPush
<1>4. FailedRefs' = FailedRefs \cup {c}
  <2>1. /\ DOMAIN errs' = DOMAIN errs \cup {Len(errs) + 1}
        /\ errs'[Len(errs) + 1] = c
        /\ \A i \in DOMAIN errs : errs'[i] = errs[i]
    BY <1>1, AppendProperties DEF TypeOK
  <2> QED
    BY <2>1 DEF FailedRefs
<1> HIDE DEF c
<1>5. c \in FoundRefs \ (Visited \cup FailedRefs)
  BY <1>3 DEF OneWorkerInv, Reached, OnePlace
<1>6. OnePlace(w)'
  BY <1>2, <1>3, <1>4, <1>5 DEF OneWorkerInv, OnePlace
<1>7. AllPlaces(w)'
  BY <1>1, <1>2, <1>3, <1>4 DEF OneWorkerInv, AllPlaces, Places
<1>8. Reached(w)'
  BY <1>1, <1>2, <1>3 DEF OneWorkerInv, Reached, Handling, Pushing
<1> QED
  BY <1>2, <1>3, <1>4, <1>5, <1>6, <1>7, <1>8 DEF OneWorkerInv, c

\* The steps of a worker that move no component.
LEMMA WorkerMoves ==
    ASSUME Inv, NEW w \in Workers, OneWorkerInv(w),
           UNCHANGED <<main, result, newItems, processed, errs>>,
           SliceOK(w)', InQueue(w)' = InQueue(w), InHand(w)' = InHand(w),
           Known' \cup {Root} = Known \cup {Root}, main = "pushing" => Known' = Known,
           newItems[w] # <<>> => pc'[w] \in {"discovering"} \cup Pushing,
           pc[w] \in Handling => pc'[w] \in Handling /\ item'[w] = item[w]
    PROVE  OneWorkerInv(w)'
<1>1. OnePlace(w)' /\ AllPlaces(w)' /\ Reached(w)'
  BY NothingMoved DEF OneWorkerInv, Reached
<1> QED
  BY <1>1 DEF OneWorkerInv

Registers(w) == LookupFails(w) \/ RegisterFails(w) \/ Register(w)

\* The item was known before it is registered.
LEMMA KnownBefore ==
    ASSUME Inv, NEW w \in Workers, OneWorkerInv(w), Registers(w)
    PROVE  Known' \cup {Root} = Known \cup {Root} /\ main # "pushing"
<1>1. TypeOK /\ pc[w] = "processing"
  BY DEF Inv, PoolInv, Registers, LookupFails, RegisterFails, Register, Goto
<1>2. main # "pushing"
  BY <1>1 DEF Inv, PoolInv, WalkConsistent
<1>3. item[w] \in Known \cup {Root}
  BY <1>1, <1>2 DEF OneWorkerInv, AllPlaces, Places, InHand
<1>4. CASE dependents' = dependents
  BY <1>2, <1>4 DEF Known
<1>5. CASE item[w] \in Refs /\ addComponent(item[w])
  <2>1. CASE item[w] \in Known
    BY <1>2, <1>5, <2>1 DEF addComponent, Known
  <2>2. CASE item[w] \notin Known
    <3>1. item[w] = Root /\ dependents' = [dependents EXCEPT ![Root] = {RootMarker}]
      BY <1>3, <1>5, <2>2 DEF addComponent
    <3>2. \A c \in Refs : c # Root => dependents'[c] = dependents[c]
      BY <1>1, <3>1 DEF TypeOK, GraphTypeOK
    <3> QED
      BY <1>2, <3>2 DEF Known
  <2> QED
    BY <2>1, <2>2
<1> QED
  BY <1>4, <1>5 DEF Registers, LookupFails, RegisterFails, Register, addComponentFails, graphVars

-----------------------------------------------------------------------------
(* The steps that move none. *)

\* The steps that touch neither the queue nor what the worker has in hand.
Idles(w) ==
    \/ StartWorker(w) \/ Prepare(w) \/ PopNothing(w) \/ NothingPrepared(w)
    \/ Exit(w) \/ Sleep(w) \/ Wake(w) \/ FinishFailed(w)

\* A worker between two items moves none.
LEMMA IdlesStays ==
    ASSUME Inv, NEW w \in Workers, OneWorkerInv(w), Idles(w)
    PROVE  OneWorkerInv(w)'
<1>1. /\ TypeOK
      /\ UNCHANGED <<main, result, item, newItems, queue, heap, processed, errs, graphVars>>
  BY DEF Inv, PoolInv, Idles, StartWorker, Prepare, PopNothing, NothingPrepared, Exit,
         Sleep, Wake, FinishFailed, queueVars, historyVars
<1>2. \/ /\ pc[w] \in {"unborn", "idle", "popping", "nothing", "checking", "sleeping"}
         /\ pc'[w] \in {"idle", "popping", "nothing", "checking", "done", "sleeping"}
      \/ pc[w] = "failing" /\ pc'[w] = "reporting"
  BY <1>1 DEF Idles, StartWorker, Prepare, PopNothing, NothingPrepared, Exit, Sleep, Wake,
              FinishFailed, Goto, TypeOK
<1>3. SliceOK(w)' /\ InQueue(w)' = InQueue(w)
  BY <1>1, <1>2, QueueLeft DEF OneWorkerInv, SliceAt
<1>4. InHand(w)' = InHand(w)
  BY <1>1, <1>2 DEF InHand, Handling, Pushing
<1>5. Known' = Known /\ newItems[w] = <<>>
  BY <1>1, <1>2 DEF Known, graphVars, OneWorkerInv, AllPlaces, Pushing
<1> QED
  BY <1>1, <1>2, <1>3, <1>4, <1>5, WorkerMoves DEF Handling, Pushing

\* Registering an item does not move it.
LEMMA RegistersStays ==
    ASSUME Inv, NEW w \in Workers, OneWorkerInv(w), Registers(w)
    PROVE  OneWorkerInv(w)'
<1>1. /\ TypeOK /\ pc[w] = "processing" /\ pc'[w] \in {"failing", "discovering", "finishing"}
      /\ UNCHANGED <<main, result, item, newItems, queue, heap, processed, errs>>
  <2>1. TypeOK
    BY DEF Inv, PoolInv
  <2>2. CASE LookupFails(w)
    BY <2>1, <2>2 DEF LookupFails, Goto, TypeOK, queueVars, historyVars
  <2>3. CASE RegisterFails(w)
    BY <2>1, <2>3 DEF RegisterFails, Goto, TypeOK, queueVars, historyVars
  <2>4. CASE Register(w)
    BY <2>1, <2>4 DEF Register, Goto, TypeOK, queueVars, historyVars
  <2> QED
    BY <2>2, <2>3, <2>4 DEF Registers
<1>2. SliceOK(w)' /\ InQueue(w)' = InQueue(w)
  BY <1>1, QueueLeft DEF OneWorkerInv, SliceAt
<1>3. InHand(w)' = InHand(w)
  BY <1>1 DEF InHand, Handling, Pushing
<1>4. newItems[w] = <<>>
  BY <1>1 DEF OneWorkerInv, AllPlaces, Pushing
<1> QED
  BY <1>1, <1>2, <1>3, <1>4, KnownBefore, WorkerMoves DEF Handling, Pushing

\* The steps of popping and pushing that only move the slice along.
MovesSlice(w) ==
    PopAdvance(w) \/ PushRead(w) \/ PushPublish(w) \/ PushGrow(w) \/ PushReplace(w)

\* Reslicing and growing move none either.
LEMMA MovesSliceStays ==
    ASSUME Inv, NEW w \in Workers, OneWorkerInv(w), MovesSlice(w)
    PROVE  OneWorkerInv(w)'
<1>0. TypeOK
  BY DEF Inv, PoolInv
<1>1. UNCHANGED <<main, result, item, newItems, processed, errs, graphVars>>
  BY DEF MovesSlice, PopAdvance, PushRead, PushPublish, PushGrow, PushReplace, historyVars
<1>2. \/ pc[w] = "advancing" /\ pc'[w] = "processing"
      \/ pc[w] \in Pushing /\ pc'[w] \in Pushing
  BY <1>0 DEF MovesSlice, PopAdvance, PushRead, PushPublish, PushGrow, PushReplace,
              Goto, TypeOK, Pushing
<1>3. SliceOK(w)' /\ InQueue(w)' = InQueue(w)
  BY <1>0, QueueAdvanced, HeaderRead, LengthPublished, ArrayGrown, HeaderReplaced
     DEF MovesSlice, OneWorkerInv
<1>4. InHand(w)' = InHand(w)
  BY <1>1, <1>2 DEF InHand, Handling, Pushing
<1>5. Known' = Known
  BY <1>1 DEF Known, graphVars
<1>6. newItems[w] # <<>> => pc'[w] \in {"discovering"} \cup Pushing
  BY <1>2 DEF OneWorkerInv, AllPlaces, Pushing
<1> QED
  BY <1>1, <1>2, <1>3, <1>4, <1>5, <1>6, WorkerMoves DEF Handling, Pushing

\* Waiting and returning.
LEMMA WalkStays ==
    ASSUME Inv, NEW w \in Workers, OneWorkerInv(w), BeginWait \/ Return \/ UNCHANGED vars
    PROVE  OneWorkerInv(w)'
<1>1. /\ TypeOK
      /\ UNCHANGED <<item, newItems, pc, queue, heap, snapshot, processed, errs, graphVars>>
  BY DEF Inv, PoolInv, BeginWait, Return, vars, queueVars, historyVars
<1>2. /\ main' = "pushing" <=> main = "pushing"
      /\ main' # "returned" => main # "returned" /\ result' = result
  BY DEF BeginWait, Return, vars
<1>3. SliceOK(w)' /\ InQueue(w)' = InQueue(w)
  <2>1. Slots(w)' = Slots(w) /\ \A i \in Slots(w) : Slot(i)' = Slot(i)
    BY <1>1 DEF Slots, First, Filled, Slot
  <2>2. Covers(queue, queue.len)' /\ InQueue(w)' = InQueue(w)
    BY <1>1, <2>1 DEF OneWorkerInv, SliceOK, Covers, InQueue
  <2> QED
    BY <1>1, <2>1, <2>2 DEF OneWorkerInv, SliceOK, Covers, Slot, Slots, First, Filled
<1>4. InHand(w)' = InHand(w) /\ Known' = Known
  BY <1>1 DEF InHand, Known, graphVars
<1>5. newItems[w] # <<>> => pc'[w] \in {"discovering"} \cup Pushing
  BY <1>1 DEF OneWorkerInv, AllPlaces
<1>6. OnePlace(w) /\ AllPlaces(w) /\ Reached(w) /\ (main' # "returned" => result' = "none")
  BY <1>2 DEF OneWorkerInv, Reached
<1>7. OnePlace(w)' /\ AllPlaces(w)' /\ Reached(w)'
  BY <1>1, <1>2, <1>3, <1>4, <1>5, <1>6, NothingMoved
<1> QED
  BY <1>3, <1>7 DEF OneWorkerInv

-----------------------------------------------------------------------------
\* Every step of a single worker keeps what is known in one place.
LEMMA NextOneWorker ==
    ASSUME NEW w, Workers = {w}, Inv, OneWorkerInv(w), [Next]_vars
    PROVE  OneWorkerInv(w)'
<1>1. CASE Work(w)
  BY <1>1, ItemTaken, DependencyAdded, ItemPushed, ItemVisited, FailureRecorded,
     IdlesStays, RegistersStays, MovesSliceStays
     DEF Work, Discover, Idles, Registers, MovesSlice
<1>2. CASE StartWorker(w)
  BY <1>2, IdlesStays DEF Idles
<1>3. CASE Walk \/ Terminated \/ UNCHANGED vars
  BY <1>3, RootPlaced, WalkStays DEF Walk, Terminated
<1> QED
  BY <1>1, <1>2, <1>3 DEF Next

\* At first there is nothing anywhere.
LEMMA InitOneWorker ==
    ASSUME NEW w \in Workers, Init
    PROVE  OneWorkerInv(w)
<1>1. Slots(w) = {} /\ InQueue(w) = {}
  BY DEF Init, Slots, First, Filled, EmptySlice, InQueue
<1>2. SliceOK(w)
  BY <1>1 DEF Init, SliceOK, Covers, EmptySlice
<1>3. ToPush(w) = {} /\ InHand(w) = {} /\ FailedRefs = {} /\ Visited = {} /\ Known = {}
  BY DEF Init, NewComponents, ToPush, InHand, Handling, Pushing, FailedRefs, Visited, Known
<1>4. OnePlace(w)
  BY <1>1, <1>3 DEF OnePlace
<1>5. AllPlaces(w)
  BY <1>1, <1>3 DEF Init, AllPlaces, Places
<1>6. Reached(w)
  BY <1>1, <1>3 DEF Init, Reached
<1> QED
  BY <1>2, <1>4, <1>5, <1>6 DEF OneWorkerInv

-----------------------------------------------------------------------------
(* The traversal that a single worker implements. *)

\* Walk joins the errors of the references that failed.
LEMMA FailuresJoined == ASSUME TypeOK PROVE FailedRefs = {} <=> errs = <<>>
<1>1. errs # <<>> => 1 \in DOMAIN errs
  BY DEF TypeOK
<1>2. errs = <<>> => FailedRefs = {}
  BY DEF FailedRefs
<1> QED
  BY <1>1, <1>2 DEF FailedRefs

\* When the walk returns, all that is known, and all that is found, is visited
\* or has failed.
LEMMA NothingLeft ==
    ASSUME NEW w \in Workers, Inv, OneWorkerInv(w), pc[w] = "done", queue.len = 0
    PROVE  /\ FoundRefs \subseteq Visited \cup FailedRefs
           /\ main # "pushing" => Known \cup {Root} = Visited \cup FailedRefs
<1>1. main # "pushing"
  BY DEF Inv, PoolInv, WalkConsistent
<1>2. InQueue(w) = {} /\ ToPush(w) = {} /\ InHand(w) = {}
  <2>1. newItems[w] = <<>>
    BY DEF OneWorkerInv, AllPlaces, Pushing
  <2> QED
    BY <2>1 DEF InQueue, Slots, First, Filled, ToPush, InHand, Handling, Pushing
<1>3. Known \cup {Root} = Visited \cup FailedRefs
  BY <1>1, <1>2 DEF OneWorkerInv, AllPlaces, Places
<1>4. ASSUME NEW c \in Visited, NEW d \in References[c] PROVE d \in Visited \cup FailedRefs
  <2>1. c \in Refs /\ d \in Refs /\ RecordedBut(c, {})
    BY <1>4, GraphAssumption DEF Inv, GraphInv, GraphExact, Visited
  <2>2. d # c => d \in Known
    BY <2>1 DEF RecordedBut, Known
  <2> QED
    BY <1>3, <2>2
<1> QED
  BY <1>3, <1>4 DEF FoundRefs

\* What does not end a visit or the walk leaves the abstract state alone.
LEMMA OtherStutters ==
    ASSUME [Next]_vars, \A w \in Workers : ~Finish(w) /\ ~addError(w), ~Return
    PROVE  UNCHANGED <<processed, errs, result>>
<1>1. ASSUME NEW w \in Workers, StartWorker(w) \/ Work(w)
      PROVE  UNCHANGED <<processed, errs, result>>
  BY <1>1 DEF StartWorker, Work, Prepare, PopNothing, PopElement, PopAdvance,
     NothingPrepared, Exit, Sleep, Wake, LookupFails, RegisterFails, Register, Discover,
     DiscoverDependency, PushRead, PushPublish, PushGrow, PushReplace, PushStore,
     FinishFailed, historyVars
<1>2. ASSUME PushRoot \/ BeginWait \/ Terminated \/ UNCHANGED vars
      PROVE  UNCHANGED <<processed, errs, result>>
  BY <1>2 DEF PushRoot, BeginWait, Terminated, vars, historyVars
<1> QED
  BY <1>1, <1>2 DEF Next, Walk

(***************************************************************************)
(* Finish is the visit of the item, addError its failure, Return the end   *)
(* of the traversal; every other step of a single worker is a stutter.     *)
(***************************************************************************)
LEMMA TraversalStep ==
    ASSUME NEW w, Workers = {w}, Inv, Inv', OneWorkerInv(w), [Next]_vars
    PROVE  [Traversal!TraversalNext]_(Traversal!traversalVars)
<1>1. /\ Traversal!Found = FoundRefs
      /\ Traversal!Pending = FoundRefs \ (Visited \cup FailedRefs)
      /\ \A c \in Traversal!Pending :
             Traversal!Visit(c) \/ Traversal!FailVisit(c) => Traversal!TraversalNext
  <2>1. \A c \in Traversal!Pending :
            Traversal!Visit(c) \/ Traversal!FailVisit(c) => Traversal!TraversalNext
    BY DEF Traversal!TraversalNext
  <2> QED
    BY <2>1 DEF Traversal!Found, Traversal!Pending, FoundRefs, Visited
<1>2. TypeOK /\ TypeOK'
  BY DEF Inv, PoolInv
<1>3. CASE Finish(w)
  <2>1. PICK c : c = item[w]
    OBVIOUS
  <2>2. c \in Traversal!Pending /\ Visited' = Visited \cup {c} /\ FailedRefs' = FailedRefs
    BY <1>1, <1>3, <2>1, ItemVisited
  <2>3. result' = result /\ result = "none"
    BY <1>3 DEF Finish, Goto, OneWorkerInv, Reached, Inv, PoolInv, WalkConsistent
  <2>4. Traversal!Visit(c)
    BY <2>2, <2>3 DEF Traversal!Visit, Visited
  <2> QED
    BY <1>1, <2>2, <2>4
<1>4. CASE addError(w)
  <2>1. /\ item[w] \in Traversal!Pending
        /\ Visited' = Visited /\ FailedRefs' = FailedRefs \cup {item[w]}
    BY <1>1, <1>4, FailureRecorded
  <2>2. result' = result /\ result = "none"
    BY <1>4 DEF addError, Goto, OneWorkerInv, Reached, Inv, PoolInv, WalkConsistent
  <2>3. Traversal!FailVisit(item[w])
    BY <2>1, <2>2 DEF Traversal!FailVisit, Visited
  <2> QED
    BY <1>1, <2>1, <2>3
<1>5. CASE Return
  <2>1. /\ UNCHANGED <<pc, queue, errs, processed>> /\ main = "waiting" /\ main' = "returned"
        /\ result' = IF errs # <<>> THEN "error" ELSE "ok"
    BY <1>5 DEF Return, queueVars, historyVars
  <2>2. pc[w] = "done" /\ queue.len = 0
    <3>1. pc'[w] = "done" /\ Inv'
      BY <2>1 DEF Inv, PoolInv, WalkConsistent
    <3>2. ~(queue'.len > 0) /\ queue'.len \in Nat
      BY <1>2, <3>1 DEF Inv, PoolInv, QueueIsWatched, Looking, Counted, Pushing, TypeOK, Header
    <3> QED
      BY <2>1, <3>1, <3>2
  <2>3. Traversal!Pending = {}
    BY <1>1, <2>2, NothingLeft
  <2>4. result = "none" /\ Visited' = Visited /\ FailedRefs' = FailedRefs
    BY <2>1 DEF OneWorkerInv, Reached, Visited, FailedRefs
  <2>5. result' = IF FailedRefs = {} THEN "ok" ELSE "error"
    BY <1>2, <2>1, FailuresJoined
  <2>6. Traversal!EndWalk
    BY <2>3, <2>4, <2>5 DEF Traversal!EndWalk, Visited
  <2> QED
    BY <2>6 DEF Traversal!TraversalNext
<1>6. CASE ~Finish(w) /\ ~addError(w) /\ ~Return
  <2>1. UNCHANGED <<processed, errs, result>>
    BY <1>6, OtherStutters
  <2> QED
    BY <2>1 DEF Traversal!traversalVars, FailedRefs
<1> QED
  BY <1>3, <1>4, <1>5, <1>6

\* The traversal starts with nothing visited.
LEMMA TraversalStart ==
    ASSUME Init PROVE Traversal!TraversalInit
BY DEF Init, Traversal!TraversalInit, FailedRefs

(***************************************************************************)
(* A single worker visits what is found, once, or fails to visit it, and   *)
(* Walk returns when nothing found is left, with an error exactly when a   *)
(* visit failed (walk.go).                                                 *)
(***************************************************************************)
THEOREM OneWorkerTraverses ==
    ASSUME NEW w, Workers = {w}
    PROVE  Spec => Traversal!TraversalSafety
<1> DEFINE J == Inv /\ OneWorkerInv(w)
<1>1. Init => J
  BY InitExact, InitOneWorker
<1>2. J /\ [Next]_vars => J'
  BY NextExact, NextOneWorker
<1>3. J /\ J' /\ [Next]_vars => [Traversal!TraversalNext]_(Traversal!traversalVars)
  BY TraversalStep
<1>4. Init => Traversal!TraversalInit
  BY TraversalStart
<1> HIDE DEF J
<1> QED
  BY <1>1, <1>2, <1>3, <1>4, PTL DEF Spec, Traversal!TraversalSafety

(***************************************************************************)
(* "Walk all dependencies of the root component descriptor" holds of a     *)
(* single worker: when the walk succeeds, all it came to know is visited.  *)
(***************************************************************************)
THEOREM OneWorkerWalksAll ==
    ASSUME NEW w, Workers = {w}
    PROVE  Spec => []AllDependenciesWalked
<1> DEFINE J == Inv /\ OneWorkerInv(w)
<1>1. Init => J
  BY InitExact, InitOneWorker
<1>2. J /\ [Next]_vars => J'
  BY NextExact, NextOneWorker
<1>3. J /\ ReturnsWhenQuiet => AllDependenciesWalked
  <2> SUFFICES ASSUME Inv, OneWorkerInv(w), ReturnsWhenQuiet, result = "ok"
               PROVE  Known \subseteq Visited
    BY DEF AllDependenciesWalked, Visited
  <2>1. main = "returned"
    BY DEF OneWorkerInv, Reached
  <2>2. pc[w] = "done" /\ queue.len = 0 /\ FailedRefs = {}
    BY <2>1 DEF ReturnsWhenQuiet
  <2>3. Known \cup {Root} = Visited \cup FailedRefs
    BY <2>1, <2>2, NothingLeft
  <2> QED
    BY <2>2, <2>3
<1> HIDE DEF J
<1> QED
  BY <1>1, <1>2, <1>3, ReturnIsFinal, PTL DEF Spec

-----------------------------------------------------------------------------
(* The dependencies of what was visited. *)

\* deps has what is in S, each once.
Lists(deps, S) ==
    /\ {deps[i] : i \in DOMAIN deps} = S
    /\ IsFiniteSet(S) /\ Len(deps) = Cardinality(S)

\* deps has c, first, and what it refers to, but for what is still to be added.
ListsBut(deps, c, rest) ==
    /\ deps # <<>> /\ deps[1] = c
    /\ Lists(deps, {c} \cup (References[c] \ rest))

ListedInv(w) ==
    /\ \A c \in Refs \ (Visited \cup FailedRefs \cup InHand(w)) : dependencies[c] = <<>>
    /\ pc[w] \in {"advancing", "processing"} => dependencies[item[w]] = <<>>
    /\ pc[w] = "discovering" => ListsBut(dependencies[item[w]], item[w], todo[w])
    /\ pc[w] \in Handling \ {"discovering"} => ListsBut(dependencies[item[w]], item[w], {})
    /\ \A c \in Visited : ListsBut(dependencies[c], c, {})

\* A list grows by what it has not.
LEMMA ListAppended ==
    ASSUME NEW deps \in Seq(Refs), NEW S, Lists(deps, S), deps # <<>>, NEW d \in Refs, d \notin S
    PROVE  /\ Lists(Append(deps, d), S \cup {d})
           /\ Append(deps, d) # <<>> /\ Append(deps, d)[1] = deps[1]
<1>1. /\ DOMAIN Append(deps, d) = DOMAIN deps \cup {Len(deps) + 1}
      /\ Append(deps, d)[Len(deps) + 1] = d
      /\ \A i \in DOMAIN deps : Append(deps, d)[i] = deps[i]
      /\ Len(Append(deps, d)) = Len(deps) + 1
  BY AppendProperties
<1>2. {Append(deps, d)[i] : i \in DOMAIN Append(deps, d)} = S \cup {d}
  BY <1>1 DEF Lists
<1>3. IsFiniteSet(S \cup {d}) /\ Cardinality(S \cup {d}) = Cardinality(S) + 1
  BY FS_AddElement DEF Lists
<1>4. 1 \in DOMAIN deps
  OBVIOUS
<1> QED
  BY <1>1, <1>2, <1>3, <1>4 DEF Lists

\* The list of a component starts with the component.
LEMMA ListStarted ==
    ASSUME NEW c \in Refs
    PROVE  Lists(<<c>>, {c})
<1>1. /\ DOMAIN <<c>> = {1} /\ <<c>>[1] = c /\ Len(<<c>>) = 1
  OBVIOUS
<1>2. {<<c>>[i] : i \in DOMAIN <<c>>} = {c}
  BY <1>1
<1>3. IsFiniteSet({c}) /\ Cardinality({c}) = 1
  BY FS_Singleton
<1> QED
  BY <1>1, <1>2, <1>3 DEF Lists

-----------------------------------------------------------------------------
\* What registering does to the dependencies.
LEMMA RegisterLists ==
    ASSUME TypeOK, NEW c \in Refs
    PROVE  /\ addComponent(c) =>
                  /\ dependencies'[c] = Append(dependencies[c], c)
                  /\ \A e \in Refs \ {c} : dependencies'[e] = dependencies[e]
           /\ addComponentFails(c) =>
                  \A e \in Refs \ {c} : dependencies'[e] = dependencies[e]
<1>1. dependencies \in [Refs \cup {RootMarker} -> Seq(Refs)] /\ RootMarker \notin Refs
  BY GraphAssumption DEF TypeOK, GraphTypeOK
<1>2. ASSUME addComponent(c)
      PROVE  /\ dependencies'[c] = Append(dependencies[c], c)
             /\ \A e \in Refs \ {c} : dependencies'[e] = dependencies[e]
  BY <1>1, <1>2 DEF addComponent
<1>3. ASSUME addComponentFails(c)
      PROVE  \A e \in Refs \ {c} : dependencies'[e] = dependencies[e]
  BY <1>1, <1>3 DEF addComponentFails
<1> QED
  BY <1>2, <1>3

\* Steps other than these change neither the dependencies nor who is at work
\* on which component.
ChangesLists(w) ==
    RegisterFails(w) \/ Register(w) \/ Discover(w)
        \/ PopElement(w) \/ Finish(w) \/ addError(w)

LEMMA OthersKeep ==
    ASSUME NEW w, Workers = {w}, TypeOK, WorkersConsistent, [Next]_vars, ~ChangesLists(w)
    PROVE  /\ UNCHANGED <<dependencies, processed, errs>>
           /\ InHand(w)' = InHand(w)
           /\ pc'[w] \in {"advancing", "processing"} =>
                  pc[w] \in {"advancing", "processing"} /\ item'[w] = item[w]
<1>1. CASE StartWorker(w) \/ Work(w)
  <2> USE DEF Goto, TypeOK, InHand, Handling, Pushing, historyVars, graphVars
  <2>1. CASE StartWorker(w) \/ Prepare(w) \/ PopNothing(w) \/ PopAdvance(w)
    BY <2>1 DEF StartWorker, Prepare, PopNothing, PopAdvance
  <2>2. CASE NothingPrepared(w) \/ Exit(w) \/ Sleep(w) \/ Wake(w) \/ LookupFails(w)
    BY <2>2 DEF NothingPrepared, Exit, Sleep, Wake, LookupFails
  <2>3. CASE PushRead(w) \/ PushPublish(w) \/ PushGrow(w) \/ PushReplace(w)
    BY <2>3 DEF PushRead, PushPublish, PushGrow, PushReplace
  <2>4. CASE PushStore(w) \/ FinishFailed(w)
    BY <2>4 DEF PushStore, FinishFailed
  <2> QED
    BY <1>1, <2>1, <2>2, <2>3, <2>4 DEF Work, ChangesLists
<1>2. CASE Walk \/ Terminated \/ UNCHANGED vars
  BY <1>2 DEF Walk, PushRoot, BeginWait, Return, Terminated, vars, historyVars, graphVars, InHand
<1> QED
  BY <1>1, <1>2 DEF Next

\* Every step of a single worker keeps the lists exact.
LEMMA NextListed ==
    ASSUME NEW w, Workers = {w}, Inv, Inv', OneWorkerInv(w), OneWorkerInv(w)', ListedInv(w),
           [Next]_vars
    PROVE  ListedInv(w)'
<1>0. TypeOK /\ WorkersConsistent /\ w \in Workers
  BY DEF Inv, PoolInv
<1>t. dependencies \in [Refs \cup {RootMarker} -> Seq(Refs)]
  BY <1>0 DEF TypeOK, GraphTypeOK
<1>1. CASE ~ChangesLists(w)
  <2>1. /\ UNCHANGED <<dependencies, processed, errs>> /\ InHand(w)' = InHand(w)
        /\ pc'[w] \in {"advancing", "processing"} =>
               pc[w] \in {"advancing", "processing"} /\ item'[w] = item[w]
    BY <1>0, <1>1, OthersKeep
  <2>2. /\ pc'[w] = "discovering" =>
               pc[w] = "discovering" /\ todo'[w] = todo[w] /\ item'[w] = item[w]
        /\ pc'[w] \in {"finishing"} \cup Pushing =>
               pc[w] \in {"finishing"} \cup Pushing /\ item'[w] = item[w]
    BY <1>0, <1>1, QuietStep DEF ChangesLists, GraphStep
  <2>3. Visited' = Visited /\ FailedRefs' = FailedRefs
    BY <2>1 DEF Visited, FailedRefs
  <2> QED
    BY <2>1, <2>2, <2>3 DEF ListedInv, Handling, Pushing
<1>2. CASE PopElement(w)
  <2>1. /\ pc[w] = "popping" /\ pc'[w] = "advancing"
        /\ UNCHANGED <<dependencies, processed, errs>>
    BY <1>0, <1>2 DEF PopElement, Goto, TypeOK, historyVars, graphVars
  <2>2. /\ InHand(w) = {} /\ InHand(w)' = {item'[w]}
        /\ Visited' = Visited /\ FailedRefs' = FailedRefs
    BY <2>1 DEF InHand, Handling, Pushing, Visited, FailedRefs
  <2>3. item'[w] \in Refs \ (Visited \cup FailedRefs)
    <3>1. item'[w] \in Places(w)'
      BY <2>2 DEF Places
    <3>2. Places(w)' \subseteq Refs
      BY GraphAssumption DEF OneWorkerInv, AllPlaces, Known
    <3> QED
      BY <2>2, <3>1, <3>2 DEF OneWorkerInv, OnePlace
  <2> QED
    BY <2>1, <2>2, <2>3 DEF ListedInv, Handling, Pushing
<1>3. CASE Finish(w)
  <2>1. /\ pc[w] = "finishing" /\ pc'[w] = "idle" /\ UNCHANGED <<dependencies, item>>
    BY <1>0, <1>3 DEF Finish, Goto, TypeOK, graphVars
  <2>2. Visited' = Visited \cup {item[w]} /\ FailedRefs' = FailedRefs
    BY <1>0, <1>3, ItemVisited
  <2>3. InHand(w) = {item[w]}
    BY <2>1 DEF InHand, Handling
  <2> QED
    BY <2>1, <2>2, <2>3 DEF ListedInv, Handling, Pushing
<1>4. CASE addError(w)
  <2>1. /\ pc[w] = "reporting" /\ pc'[w] = "idle" /\ UNCHANGED <<dependencies, item>>
    BY <1>0, <1>4 DEF addError, Goto, TypeOK, graphVars
  <2>2. Visited' = Visited /\ FailedRefs' = FailedRefs \cup {item[w]}
    BY <1>0, <1>4, FailureRecorded
  <2>3. InHand(w) = {item[w]}
    BY <2>1 DEF InHand, Handling
  <2> QED
    BY <2>1, <2>2, <2>3 DEF ListedInv, Handling, Pushing
<1>5. CASE RegisterFails(w) \/ Register(w)
  <2> DEFINE c == item[w]
  <2>1. /\ c \in Refs /\ pc[w] = "processing" /\ UNCHANGED <<item, processed, errs>>
        /\ pc'[w] \in {"failing", "discovering", "finishing"}
        /\ \/ addComponent(c)
           \/ pc'[w] = "failing" /\ addComponentFails(c)
    <3>1. CASE RegisterFails(w)
      BY <1>0, <3>1 DEF RegisterFails, Goto, TypeOK, historyVars
    <3>2. CASE Register(w)
      BY <1>0, <3>2 DEF Register, Goto, TypeOK, historyVars
    <3> QED
      BY <1>5, <3>1, <3>2
  <2>2. /\ InHand(w)' = {c} /\ InHand(w) = {c}
        /\ Visited' = Visited /\ FailedRefs' = FailedRefs
    BY <2>1 DEF InHand, Handling, Pushing, Visited, FailedRefs
  <2>3. \A e \in Refs \ {c} : dependencies'[e] = dependencies[e]
    BY <1>0, <2>1, RegisterLists
  <2>4. c \notin Visited
    BY <2>2 DEF OneWorkerInv, OnePlace
  <2>5. \A e \in Visited : ListsBut(dependencies'[e], e, {})
    <3>1. \A e \in Visited : e \in Refs \ {c}
      BY <2>4 DEF Visited
    <3> QED
      BY <2>3, <3>1 DEF ListedInv
  <2>6. pc'[w] \in Handling =>
            /\ pc'[w] = "discovering" => todo'[w] = References[c]
            /\ pc'[w] # "discovering" => References[c] = {}
            /\ ListsBut(dependencies'[c], c, References[c])
    <3> SUFFICES ASSUME pc'[w] \in Handling
                 PROVE  /\ pc'[w] = "discovering" => todo'[w] = References[c]
                        /\ pc'[w] # "discovering" => References[c] = {}
                        /\ ListsBut(dependencies'[c], c, References[c])
      OBVIOUS
    <3>1. Register(w)
      BY <1>0, <1>5 DEF RegisterFails, Goto, TypeOK, Handling, Pushing
    <3>2. /\ addComponent(c) /\ todo'[w] = References[c]
          /\ pc'[w] = IF References[c] = {} THEN "finishing" ELSE "discovering"
      BY <1>0, <3>1 DEF Register, Goto, TypeOK
    <3>3. dependencies'[c] = <<c>>
      <4>1. dependencies[c] = <<>>
        BY <2>1 DEF ListedInv
      <4> QED
        BY <1>0, <2>1, <3>2, <4>1, RegisterLists
    <3>4. ListsBut(dependencies'[c], c, References[c])
      BY <2>1, <3>3, ListStarted DEF ListsBut
    <3> QED
      BY <3>2, <3>4
  <2> HIDE DEF c
  <2>7. c = item'[w]
    BY <2>1 DEF c
  <2>8. References[c] = {} => (ListsBut(dependencies'[c], c, References[c]) => ListsBut(dependencies'[c], c, {}))
    BY DEF ListsBut
  <2> QED
    BY <2>1, <2>2, <2>3, <2>5, <2>6, <2>7, <2>8 DEF ListedInv, Handling, Pushing
<1>6. CASE Discover(w)
  <2> DEFINE c == item[w]
  <2>1. PICK d \in todo[w] : DiscoverDependency(w, d)
    BY <1>6 DEF Discover
  <2>2. /\ pc[w] = "discovering" /\ UNCHANGED <<item, processed, errs>>
        /\ todo'[w] = todo[w] \ {d}
        /\ pc'[w] \in {"discovering", "finishing", "pushing"}
        /\ pc'[w] # "discovering" => todo'[w] = {}
        /\ AddComponentDependency(c, d)
    BY <1>0, <2>1 DEF DiscoverDependency, Goto, TypeOK, historyVars
  <2>3. c \in Refs /\ d \in Refs /\ d \in References[c] /\ todo[w] \subseteq References[c]
    BY <2>2, GraphAssumption, <1>0 DEF Inv, GraphInv, WorkRecorded, Told, TypeOK
  <2>4. /\ InHand(w)' = {c} /\ InHand(w) = {c}
        /\ Visited' = Visited /\ FailedRefs' = FailedRefs
    BY <2>2 DEF InHand, Handling, Pushing, Visited, FailedRefs
  <2>5. ListsBut(dependencies[c], c, todo[w]) /\ c \notin Visited
    BY <2>2, <2>4 DEF ListedInv, OneWorkerInv, OnePlace
  <2> DEFINE S == {c} \cup (References[c] \ todo[w])
             T == {c} \cup (References[c] \ (todo[w] \ {d}))
  <2>6. /\ \A e \in Refs \ {c} : dependencies'[e] = dependencies[e]
        /\ dependencies'[c] = IF c = d THEN dependencies[c] ELSE Append(dependencies[c], d)
    BY <1>t, <2>2, <2>3 DEF AddComponentDependency
  <2>7. ListsBut(dependencies'[c], c, todo[w] \ {d})
    <3>1. CASE c = d
      <4>1. T = S /\ dependencies'[c] = dependencies[c]
        BY <2>3, <2>6, <3>1
      <4> QED
        BY <2>5, <4>1 DEF ListsBut
    <3>2. CASE c # d
      <4>1. T = S \cup {d} /\ d \notin S
        BY <2>3, <3>2
      <4>2. dependencies[c] \in Seq(Refs) /\ dependencies[c] # <<>> /\ dependencies[c][1] = c
        BY <1>t, <2>3, <2>5 DEF ListsBut
      <4>3. Lists(dependencies[c], S)
        BY <2>5 DEF ListsBut
      <4> HIDE DEF S
      <4>4. /\ Lists(Append(dependencies[c], d), S \cup {d})
            /\ Append(dependencies[c], d) # <<>>
            /\ Append(dependencies[c], d)[1] = c
        BY <2>3, <4>1, <4>2, <4>3, ListAppended
      <4> QED
        BY <2>6, <3>2, <4>1, <4>4 DEF ListsBut
    <3> QED
      BY <3>1, <3>2
  <2>8. \A e \in Visited : ListsBut(dependencies'[e], e, {})
    <3>1. \A e \in Visited : e \in Refs \ {c}
      BY <2>5 DEF Visited
    <3> QED
      BY <2>6, <3>1 DEF ListedInv
  <2> HIDE DEF c
  <2>9. c = item'[w]
    BY <2>2 DEF c
  <2> QED
    BY <2>2, <2>4, <2>6, <2>7, <2>8, <2>9 DEF ListedInv, Handling, Pushing
<1> QED
  BY <1>1, <1>2, <1>3, <1>4, <1>5, <1>6 DEF ChangesLists

\* At first there are no lists.
LEMMA InitListed ==
    ASSUME NEW w \in Workers, Init
    PROVE  ListedInv(w)
BY GraphAssumption DEF Init, NewComponents, ListedInv, Visited, Handling, Pushing

(***************************************************************************)
(* With a single worker no descriptor is registered twice, and so the      *)
(* dependencies of what was processed have the component itself first and  *)
(* each of its references once (AddComponentDependency in components.go).  *)
(***************************************************************************)
THEOREM DependenciesOfOneWorker ==
    ASSUME NEW w, Workers = {w}
    PROVE  Spec => []DependenciesExact
<1> DEFINE J == Inv /\ OneWorkerInv(w) /\ ListedInv(w)
<1>1. Init => J
  BY InitExact, InitOneWorker, InitListed
<1>2. J /\ [Next]_vars => J'
  BY NextExact, NextOneWorker, NextListed
<1>3. J => DependenciesExact
  <2> SUFFICES ASSUME ListedInv(w), NEW c \in Refs, processed[c] > 0
               PROVE  /\ dependencies[c][1] = c
                      /\ {dependencies[c][i] : i \in DOMAIN dependencies[c]} =
                             {c} \cup References[c]
                      /\ Len(dependencies[c]) = Cardinality({c} \cup References[c])
    BY DEF DependenciesExact
  <2>1. ListsBut(dependencies[c], c, {}) /\ References[c] \ {} = References[c]
    BY DEF ListedInv, Visited
  <2> QED
    BY <2>1 DEF ListsBut, Lists
<1> HIDE DEF J
<1> QED
  BY <1>1, <1>2, <1>3, PTL DEF Spec
=============================================================================
