-------------------------- MODULE OCMResolverProofs --------------------------
(***************************************************************************)
(* Proofs about the outputs of resolve ocm, for any descriptors,           *)
(* repositories and configurations, any order of the walk and of the maps  *)
(* it goes through, and runs that fail or are killed anywhere.             *)
(***************************************************************************)
EXTENDS OCMResolver, FiniteSetTheorems, SequenceTheorems, WellFoundedInduction, TLAPS

WalkOver == phase \in {"imagevectors", "resources", "list", "components"}

(***************************************************************************)
(* What a walk without an error has reached: the root is queued or known,  *)
(* and every component that is known is queued or registered.              *)
(***************************************************************************)
WalkReaches ==
    /\ Registered \subseteq known
    /\ \A c \in Registered : References(c) \subseteq known
    /\ phase = "walk" /\ ~failed =>
           config.root \in known \cup todo /\ known \ todo \subseteq Registered
    /\ WalkOver => ~failed /\ config.root \in known /\ known \subseteq Registered

-----------------------------------------------------------------------------
(* The helpers. *)

\* A set of positions that is not empty has a first one.
LEMMA FirstIsMember ==
    ASSUME NEW I \in SUBSET Nat, I # {}
    PROVE  First(I) \in I /\ \A j \in I : First(I) <= j
<1>1. PICK i \in I : \A j \in I : ~(<<j, i>> \in OpToRel(<, Nat))
  BY WFMin, NatLessThanWellFounded, Zenon
<1>2. \A j \in I : i <= j
  <2> TAKE j \in I
  <2>1. ~(j < i)
    BY <1>1 DEF OpToRel
  <2> QED
    BY <2>1
<1> QED
  BY <1>2 DEF First

\* The repository that a component is found in is a configured one that has it.
LEMMA FoundInRepository ==
    ASSUME NEW c \in Refs, NEW reachable \in SUBSET Members(Repositories),
           FindComponentVersion(c, reachable) # None
    PROVE  /\ FindComponentVersion(c, reachable) \in reachable
           /\ c \in Stored[FindComponentVersion(c, reachable)]
<1> DEFINE answering == {i \in DOMAIN Repositories :
                            /\ Repositories[i] \in reachable
                            /\ c \in Stored[Repositories[i]]}
<1>1. answering # {}
  BY DEF FindComponentVersion
<1>2. answering \subseteq Nat
  BY ResolverAssumption
<1>3. First(answering) \in answering
  BY <1>1, <1>2, FirstIsMember
<1> QED
  BY <1>1, <1>3 DEF FindComponentVersion

\* However a map is walked, what is recorded is a sequence with the component.
LEMMA RecordedTyped ==
    ASSUME NEW c \in Refs, NEW s \in Recorded(c)
    PROVE  s \in Seq(Refs) /\ s # <<>>
<1> DEFINE S == References(c)
<1>1. IsFiniteSet(S)
  BY ResolverAssumption, FS_Subset
<1>2. Cardinality(S) \in Nat
  BY <1>1, FS_CardinalityType
<1>3. PICK t \in [1 .. Cardinality(S) -> S] : s = <<c>> \o t
  BY DEF Recorded, Orders
<1>4. t \in Seq(Refs)
  <2>1. \A i \in 1 .. Cardinality(S) : t[i] \in Refs
    BY <1>3, ResolverAssumption
  <2>2. t = [i \in 1 .. Cardinality(S) |-> t[i]]
    BY <1>3
  <2> QED
    BY <1>2, <2>1, <2>2
<1>5. <<c>> \in Seq(Refs) /\ Len(<<c>>) = 1
  OBVIOUS
<1>6. s \in Seq(Refs) /\ Len(s) = 1 + Len(t)
  BY <1>3, <1>4, <1>5, ConcatProperties, Zenon
<1>7. Len(t) \in Nat
  BY <1>4
<1> QED
  BY <1>6, <1>7

\* A component is registered and its descriptor is written, or the walk fails.
LEMMA ProcessEffect ==
    ASSUME TypeOK, NEW c \in Refs, Process(c)
    PROVE  \/ failed' = TRUE /\ todo' = todo \ {c} /\ UNCHANGED graphVars
           \/ /\ UNCHANGED failed
              /\ known' = known \cup {c} \cup References(c)
              /\ todo' = (todo \ {c}) \cup (References(c) \ (known \cup {c}))
              /\ host' \in [Refs -> {Host[r] : r \in Members(Repositories)} \cup {None}]
              /\ dependencies' \in [Refs -> Seq(Refs)]
              /\ Registered' = Registered \cup {c}
              /\ \E r \in Members(Repositories) :
                     c \in Stored[r] /\ host' = [host EXCEPT ![c] = Host[r]]
              /\ \E s \in Recorded(c) : dependencies' = [dependencies EXCEPT ![c] = s]
<1>1. PICK reachable \in SUBSET Members(Repositories) :
          LET repository == FindComponentVersion(c, reachable)
          IN  /\ repository # None
              /\ IF Malformed(c) \/ NonUniqueKubernetes(c)
                 THEN Forget(c)
                 ELSE /\ host' = [host EXCEPT ![c] = HostOf(repository)]
                      /\ \E s \in Recorded(c) : dependencies' = [dependencies EXCEPT ![c] = s]
                      /\ known' = known \cup {c} \cup References(c)
                      /\ todo' = (todo \ {c}) \cup (References(c) \ (known \cup {c}))
                      /\ UNCHANGED failed
  BY DEF Process
<1>2. CASE Forget(c)
  BY <1>2 DEF Forget
<1>3. CASE ~(Malformed(c) \/ NonUniqueKubernetes(c))
  <2> DEFINE repository == FindComponentVersion(c, reachable)
  <2>1. repository \in Members(Repositories) /\ c \in Stored[repository]
    BY <1>1, FoundInRepository
  <2>2. host' \in [Refs -> {Host[r] : r \in Members(Repositories)} \cup {None}]
    BY <1>1, <1>3, <2>1 DEF HostOf, TypeOK
  <2>3. PICK s \in Recorded(c) : dependencies' = [dependencies EXCEPT ![c] = s]
    BY <1>1, <1>3
  <2>4. s \in Seq(Refs) /\ s # <<>>
    BY <2>3, RecordedTyped
  <2>5. dependencies' \in [Refs -> Seq(Refs)]
    BY <2>3, <2>4 DEF TypeOK
  <2>6. Registered' = Registered \cup {c}
    BY <2>3, <2>4 DEF Registered, TypeOK
  <2>7. host' = [host EXCEPT ![c] = Host[repository]]
    BY <1>1, <1>3 DEF HostOf
  <2> QED
    BY <1>1, <1>3, <2>1, <2>2, <2>3, <2>5, <2>6, <2>7
<1> QED
  BY <1>1, <1>2, <1>3

-----------------------------------------------------------------------------
(* Types. *)

LEMMA EmptyGraph == [c \in Refs |-> <<>>] \in [Refs -> Seq(Refs)]
BY EmptySeq

LEMMA FileReplaced ==
    ASSUME NEW S, NEW files \in [Roots -> [Refs -> S]],
           NEW r \in Roots, NEW c, NEW v \in S
    PROVE  [files EXCEPT ![r][c] = v] \in [Roots -> [Refs -> S]]
<1>1. [files[r] EXCEPT ![c] = v] \in [Refs -> S]
  OBVIOUS
<1> QED
  BY <1>1

LEMMA InitTyped == Init => TypeOK
<1> SUFFICES ASSUME Init PROVE TypeOK
  OBVIOUS
<1>1. /\ dependencies \in [Refs -> Seq(Refs)]
      /\ host \in [Refs -> {Host[r] : r \in Members(Repositories)} \cup {None}]
  BY EmptyGraph DEF Init
<1>2. /\ descriptors \in [Roots -> [Refs -> {Absent, Torn, "written"}]]
      /\ resourceFiles \in [Roots -> [Refs -> {Absent, Torn, "written"}]]
      /\ DOMAIN imageVectors = Roots /\ DOMAIN componentList = Roots
  BY DEF Init
<1>3. runs \in 0 .. MaxRuns
  BY ResolverAssumption DEF Init
<1> QED
  BY <1>1, <1>2, <1>3 DEF Init, TypeOK

LEMMA NextTyped == TypeOK /\ [Next]_vars => TypeOK'
<1> SUFFICES ASSUME TypeOK, [Next]_vars
             PROVE  TypeOK'
  OBVIOUS
<1> USE ResolverAssumption
<1>1. CASE Start
  <2>1. dependencies' \in [Refs -> Seq(Refs)]
    BY <1>1, EmptyGraph DEF Start
  <2>2. config'.root \in Refs /\ runs' \in 0 .. MaxRuns
    BY <1>1 DEF Start, TypeOK
  <2> QED
    BY <1>1, <2>1, <2>2 DEF Start, TypeOK, outputs
<1>2. ASSUME NEW c \in Refs, NotFound(c) PROVE TypeOK'
  BY <1>2 DEF NotFound, Forget, TypeOK, graphVars, outputs
<1>3. ASSUME NEW c \in Refs, Process(c) PROVE TypeOK'
  <2>1. descriptors' \in [Roots -> [Refs -> {Absent, Torn, "written"}]]
    BY <1>3 DEF Process, TypeOK
  <2>2. /\ phase' = phase
        /\ UNCHANGED <<config, result, runs, imageVectors, resourceFiles, componentList, customs>>
    BY <1>3 DEF Process
  <2>3. /\ dependencies' \in [Refs -> Seq(Refs)]
        /\ host' \in [Refs -> {Host[r] : r \in Members(Repositories)} \cup {None}]
        /\ todo' \subseteq Refs /\ known' \subseteq Refs
        /\ failed' \in BOOLEAN
    <3>1. CASE failed' = TRUE /\ todo' = todo \ {c} /\ UNCHANGED graphVars
      BY <3>1 DEF TypeOK, graphVars
    <3>2. CASE /\ UNCHANGED failed
               /\ known' = known \cup {c} \cup References(c)
               /\ todo' = (todo \ {c}) \cup (References(c) \ (known \cup {c}))
               /\ host' \in [Refs -> {Host[r] : r \in Members(Repositories)} \cup {None}]
               /\ dependencies' \in [Refs -> Seq(Refs)]
      <4>1. References(c) \subseteq Refs
        OBVIOUS
      <4> QED
        BY <3>2, <4>1 DEF TypeOK
    <3> QED
      BY <1>3, <3>1, <3>2, ProcessEffect
  <2> QED
    BY <2>1, <2>2, <2>3 DEF TypeOK
<1>4. CASE EndWalk
  BY <1>4 DEF EndWalk, Exit, TypeOK, graphVars, outputs
<1>5. CASE WriteImageVector
  BY <1>5 DEF WriteImageVector, Proceed, TypeOK, graphVars
<1>6. CASE WriteResources
  BY <1>6 DEF WriteResources, Proceed, TypeOK, graphVars
<1>7. CASE WriteComponentList
  BY <1>7 DEF WriteComponentList, TypeOK, graphVars
<1>8. CASE WriteLandscapeKitComponents
  BY <1>8 DEF WriteLandscapeKitComponents, Exit, TypeOK, graphVars
<1>9. CASE Stop
  <2>1. descriptors' \in [Roots -> [Refs -> {Absent, Torn, "written"}]]
    <3>1. \/ descriptors' = descriptors
          \/ \E c \in todo : descriptors' = [descriptors EXCEPT ![config.root][c] = Torn]
      BY <1>9 DEF Stop, Tear, outputs
    <3>2. ASSUME NEW c
          PROVE  [descriptors EXCEPT ![config.root][c] = Torn]
                     \in [Roots -> [Refs -> {Absent, Torn, "written"}]]
      <4>1. config.root \in Roots /\ Torn \in {Absent, Torn, "written"}
        BY DEF TypeOK, Roots
      <4>2. descriptors \in [Roots -> [Refs -> {Absent, Torn, "written"}]]
        BY DEF TypeOK
      <4> QED
        BY <4>1, <4>2, FileReplaced, Zenon
    <3>3. descriptors \in [Roots -> [Refs -> {Absent, Torn, "written"}]]
      BY DEF TypeOK
    <3> HIDE ResolverAssumption
    <3> QED
      BY <3>1, <3>2, <3>3, Zenon
  <2>2. resourceFiles' \in [Roots -> [Refs -> {Absent, Torn, "written"}]]
    <3>1. \/ resourceFiles' = resourceFiles
          \/ resourceFiles' = [resourceFiles EXCEPT ![config.root][NextToWrite] = Torn]
      BY <1>9 DEF Stop, Tear, outputs
    <3>2. ASSUME NEW c
          PROVE  [resourceFiles EXCEPT ![config.root][c] = Torn]
                     \in [Roots -> [Refs -> {Absent, Torn, "written"}]]
      <4>1. config.root \in Roots /\ Torn \in {Absent, Torn, "written"}
        BY DEF TypeOK, Roots
      <4>2. resourceFiles \in [Roots -> [Refs -> {Absent, Torn, "written"}]]
        BY DEF TypeOK
      <4> QED
        BY <4>1, <4>2, FileReplaced, Zenon
    <3>3. resourceFiles \in [Roots -> [Refs -> {Absent, Torn, "written"}]]
      BY DEF TypeOK
    <3> HIDE ResolverAssumption
    <3> QED
      BY <3>1, <3>2, <3>3, Zenon
  <2>3. DOMAIN imageVectors' = Roots /\ DOMAIN componentList' = Roots
    BY <1>9 DEF Stop, Tear, TypeOK, outputs
  <2> QED
    BY <1>9, <2>1, <2>2, <2>3 DEF Stop, Exit, TypeOK, graphVars
<1>10. ASSUME NEW n \in CustomNames, Customize(n) PROVE TypeOK'
  BY <1>10 DEF Customize, TypeOK, graphVars, runVars, outputs
<1>11. CASE UNCHANGED vars
  BY <1>11 DEF vars, TypeOK, graphVars, runVars, outputs
<1> QED
  BY <1>1, <1>2, <1>3, <1>4, <1>5, <1>6, <1>7, <1>8, <1>9, <1>10, <1>11 DEF Next

-----------------------------------------------------------------------------
(* The walk. *)

LEMMA InitReaches == Init => WalkReaches
BY DEF Init, WalkReaches, WalkOver, Registered

LEMMA NextReaches == TypeOK /\ WalkReaches /\ [Next]_vars => WalkReaches'
<1> SUFFICES ASSUME TypeOK, WalkReaches, [Next]_vars
             PROVE  WalkReaches'
  OBVIOUS
<1>1. CASE Start
  <2>1. Registered' = {}
    BY <1>1 DEF Start, Registered
  <2> QED
    BY <1>1, <2>1 DEF Start, WalkReaches, WalkOver
<1>2. ASSUME NEW c \in Refs, NotFound(c) PROVE WalkReaches'
  BY <1>2 DEF NotFound, Forget, graphVars, WalkReaches, WalkOver, Registered
<1>3. ASSUME NEW c \in Refs, Process(c) PROVE WalkReaches'
  <2>1. phase = "walk" /\ c \in todo /\ UNCHANGED <<phase, config>>
    BY <1>3 DEF Process
  <2>2. CASE failed' = TRUE /\ UNCHANGED graphVars
    BY <2>1, <2>2 DEF graphVars, WalkReaches, WalkOver, Registered
  <2>3. CASE /\ UNCHANGED failed
             /\ known' = known \cup {c} \cup References(c)
             /\ todo' = (todo \ {c}) \cup (References(c) \ (known \cup {c}))
             /\ Registered' = Registered \cup {c}
    BY <2>1, <2>3 DEF WalkReaches, WalkOver
  <2> QED
    BY <1>3, <2>2, <2>3, ProcessEffect
<1>4. CASE EndWalk
  BY <1>4 DEF EndWalk, Exit, graphVars, WalkReaches, WalkOver, Registered, TypeOK
<1>5. CASE WriteImageVector
  BY <1>5 DEF WriteImageVector, Proceed, graphVars, WalkReaches, WalkOver, Registered
<1>6. CASE WriteResources
  BY <1>6 DEF WriteResources, Proceed, graphVars, WalkReaches, WalkOver, Registered
<1>7. CASE WriteComponentList
  BY <1>7 DEF WriteComponentList, graphVars, WalkReaches, WalkOver, Registered
<1>8. CASE WriteLandscapeKitComponents
  BY <1>8 DEF WriteLandscapeKitComponents, Exit, graphVars, WalkReaches, WalkOver, Registered
<1>9. CASE Stop
  BY <1>9 DEF Stop, Exit, graphVars, WalkReaches, WalkOver, Registered
<1>10. ASSUME NEW n \in CustomNames, Customize(n) PROVE WalkReaches'
  BY <1>10 DEF Customize, graphVars, runVars, WalkReaches, WalkOver, Registered
<1>11. CASE UNCHANGED vars
  BY <1>11 DEF vars, graphVars, runVars, WalkReaches, WalkOver, Registered
<1> QED
  BY <1>1, <1>2, <1>3, <1>4, <1>5, <1>6, <1>7, <1>8, <1>9, <1>10, <1>11 DEF Next

-----------------------------------------------------------------------------
(* The files. *)

\* Files below one root are written, those below the others left alone.
LEMMA DescriptorsStay ==
    ASSUME TypeOK, [Next]_vars
    PROVE  \A r \in Roots, c \in Refs :
               descriptors[r][c] # Absent => descriptors'[r][c] # Absent
<1> SUFFICES ASSUME NEW r \in Roots, NEW c \in Refs, descriptors[r][c] # Absent
             PROVE  descriptors'[r][c] # Absent
  OBVIOUS
<1>1. ASSUME NEW d, NEW v, v # Absent,
             descriptors' = [descriptors EXCEPT ![config.root][d] = v]
      PROVE  descriptors'[r][c] # Absent
  BY <1>1 DEF TypeOK
<1>2. ASSUME NEW d \in Refs, Process(d) PROVE descriptors'[r][c] # Absent
  BY <1>1, <1>2, ResolverAssumption DEF Process
<1>3. CASE Stop
  BY <1>1, <1>3, ResolverAssumption DEF Stop, Tear, outputs
<1>4. CASE UNCHANGED descriptors
  BY <1>4
<1> QED
  BY <1>2, <1>3, <1>4
     DEF Next, Start, NotFound, EndWalk, WriteImageVector, WriteResources,
         WriteComponentList, WriteLandscapeKitComponents, Customize, vars, outputs

\* What the two parts of OutputsBelongTogether say.
NamedOf(components) ==
    \E names \in SUBSET CustomNames :
        {entry.ref : entry \in componentsFile} =
            {c \in components : Name[c] \in DefaultNames \cup names}

ListsDescribed ==
    \A r \in Roots :
        componentList[r] \notin {Absent, Torn} =>
            /\ componentList[r] \subseteq Refs
            /\ \A c \in componentList[r] : descriptors[r][c] # Absent

WalkDescribed ==
    phase # "idle" => \A c \in Registered : descriptors[config.root][c] # Absent

ListOfWalk == phase = "components" => componentList[config.root] = known

FilesInv ==
    /\ WalkDescribed
    /\ ListOfWalk
    /\ ListsDescribed
    /\ Finished => NamedOf(componentList[config.root])

LEMMA InitFiles == Init => FilesInv
BY ResolverAssumption
   DEF Init, FilesInv, WalkDescribed, ListOfWalk, ListsDescribed, Finished

\* A component is registered in the step that writes its descriptor.
LEMMA NextDescribed ==
    ASSUME TypeOK, WalkDescribed, [Next]_vars
    PROVE  WalkDescribed'
<1>1. CASE Start
  BY <1>1 DEF Start, WalkDescribed, Registered
<1>2. ASSUME NEW c \in Refs, Process(c) PROVE WalkDescribed'
  <2>1. phase = "walk" /\ config' = config
    BY <1>2 DEF Process
  <2>2. Registered' \subseteq Registered \cup {c}
    <3>1. UNCHANGED graphVars => Registered' = Registered
      BY DEF graphVars, Registered
    <3> QED
      BY <1>2, <3>1, ProcessEffect
  <2>3. config.root \in Roots
    BY DEF TypeOK, Roots
  <2>4. descriptors'[config.root][c] # Absent
    BY <1>2, <2>3, ResolverAssumption DEF Process, TypeOK
  <2>5. Registered \subseteq Refs
    BY DEF Registered
  <2> QED
    BY <2>1, <2>2, <2>3, <2>4, <2>5, DescriptorsStay DEF WalkDescribed
<1>3. CASE /\ UNCHANGED <<dependencies, config>>
           /\ phase' # "idle" => phase # "idle"
  <2>1. Registered' = Registered /\ Registered \subseteq Refs
    BY <1>3 DEF Registered
  <2>2. config.root \in Roots
    BY DEF TypeOK, Roots
  <2> QED
    BY <1>3, <2>1, <2>2, DescriptorsStay DEF WalkDescribed
<1> QED
  BY <1>1, <1>2, <1>3
     DEF Next, NotFound, Forget, EndWalk, Exit, WriteImageVector, WriteResources,
         Proceed, WriteComponentList, WriteLandscapeKitComponents, Stop, Customize,
         vars, graphVars, runVars

\* The list is written when the walk is over, and is that of all registered ones.
LEMMA NextListed ==
    ASSUME TypeOK, WalkReaches, WalkDescribed, ListsDescribed, [Next]_vars
    PROVE  ListsDescribed'
<1>1. ASSUME NEW r \in Roots, componentList[r] \notin {Absent, Torn}
      PROVE  /\ componentList[r] \subseteq Refs
             /\ \A c \in componentList[r] : descriptors'[r][c] # Absent
  BY <1>1, DescriptorsStay DEF ListsDescribed
<1>2. CASE UNCHANGED componentList
  BY <1>1, <1>2 DEF ListsDescribed
<1>3. CASE WriteComponentList
  <2>1. known \subseteq Registered /\ Registered \subseteq Refs
    BY <1>3 DEF WriteComponentList, WalkReaches, WalkOver, Registered
  <2>2. \A c \in known : descriptors'[config.root][c] # Absent
    BY <1>3, <2>1 DEF WriteComponentList, WalkDescribed
  <2>3. \A r \in Roots : componentList'[r] = IF r = config.root THEN known ELSE componentList[r]
    BY <1>3 DEF WriteComponentList, TypeOK
  <2> QED
    BY <1>1, <2>1, <2>2, <2>3 DEF ListsDescribed
<1>4. CASE componentList' = [componentList EXCEPT ![config.root] = Torn]
  <2>1. \A r \in Roots : componentList'[r] = IF r = config.root THEN Torn ELSE componentList[r]
    BY <1>4 DEF TypeOK
  <2> QED
    BY <1>1, <2>1 DEF ListsDescribed
<1> QED
  BY <1>2, <1>3, <1>4
     DEF Next, Start, NotFound, Process, EndWalk, WriteImageVector, WriteResources,
         WriteLandscapeKitComponents, Stop, Tear, Customize, vars, outputs

LEMMA NextOfWalk == TypeOK /\ ListOfWalk /\ [Next]_vars => ListOfWalk'
<1> SUFFICES ASSUME TypeOK, ListOfWalk, [Next]_vars
             PROVE  ListOfWalk'
  OBVIOUS
<1>1. CASE WriteComponentList
  <2>1. config.root \in Roots
    BY DEF TypeOK, Roots
  <2> QED
    BY <1>1, <2>1 DEF WriteComponentList, ListOfWalk, TypeOK, graphVars
<1>2. CASE phase' # "components"
  BY <1>2 DEF ListOfWalk
<1>3. CASE UNCHANGED <<phase, componentList, config, known>>
  BY <1>3 DEF ListOfWalk
<1> QED
  BY <1>1, <1>2, <1>3
     DEF Next, Start, NotFound, Process, EndWalk, Exit, WriteImageVector,
         WriteResources, Proceed, WriteLandscapeKitComponents, Stop, Customize,
         vars, graphVars, runVars, outputs

\* The last step of a run writes an entry for each component of a wanted name.
LEMMA NextNamed ==
    ASSUME TypeOK, ListOfWalk, Finished => NamedOf(componentList[config.root]),
           [Next]_vars
    PROVE  (Finished => NamedOf(componentList[config.root]))'
<1>1. CASE WriteLandscapeKitComponents
  <2> SUFFICES ASSUME Finished'
               PROVE  NamedOf(componentList[config.root])'
    OBVIOUS
  <2>1. /\ componentsFile' = GetGLKComponents(known, DefaultNames \cup customs)
        /\ phase = "components" /\ UNCHANGED <<componentList, config>>
    BY <1>1 DEF WriteLandscapeKitComponents, Exit, Finished
  <2>2. {entry.ref : entry \in componentsFile'} = Selected(known, DefaultNames \cup customs)
    <3>1. \A c : ComponentVector(c).ref = c
      BY DEF ComponentVector
    <3>2. componentsFile' = {ComponentVector(c) : c \in Selected(known, DefaultNames \cup customs)}
      BY <2>1 DEF GetGLKComponents
    <3> QED
      BY <3>1, <3>2
  <2>3. customs \in SUBSET CustomNames /\ componentList'[config'.root] = known
    BY <2>1 DEF TypeOK, ListOfWalk
  <2> QED
    BY <2>2, <2>3 DEF NamedOf, Selected
<1>2. CASE UNCHANGED <<phase, result, componentList, config, componentsFile>>
  BY <1>2 DEF Finished, NamedOf
<1>3. CASE phase' # "idle" \/ result' # "success"
  BY <1>3 DEF Finished
<1> QED
  BY <1>1, <1>2, <1>3
     DEF Next, Start, NotFound, Process, EndWalk, Exit, WriteImageVector,
         WriteResources, Proceed, WriteComponentList, Stop, Customize,
         vars, graphVars, runVars, outputs

-----------------------------------------------------------------------------
(* The theorems. *)

(***************************************************************************)
(* Types, what the walk has reached, and what is in the files.             *)
(***************************************************************************)
ResolverInv == TypeOK /\ WalkReaches /\ FilesInv

LEMMA NextInvariant == ResolverInv /\ [Next]_vars => ResolverInv'
<1> SUFFICES ASSUME ResolverInv, [Next]_vars
             PROVE  ResolverInv'
  OBVIOUS
<1>1. TypeOK' /\ WalkReaches'
  BY NextTyped, NextReaches DEF ResolverInv
<1>2. WalkDescribed' /\ ListOfWalk' /\ ListsDescribed'
  BY NextDescribed, NextOfWalk, NextListed DEF ResolverInv, FilesInv
<1>3. (Finished => NamedOf(componentList[config.root]))'
  BY NextNamed DEF ResolverInv, FilesInv
<1> QED
  BY <1>1, <1>2, <1>3 DEF ResolverInv, FilesInv

THEOREM ResolverInvariant == Spec => []ResolverInv
<1>1. Init => ResolverInv
  BY InitTyped, InitReaches, InitFiles DEF ResolverInv
<1> QED
  BY <1>1, NextInvariant, PTL DEF Spec

\* Every variable of the resolver keeps its type.
THEOREM ResolverTyped == Spec => []TypeOK
<1>1. ResolverInv => TypeOK
  BY DEF ResolverInv
<1> QED
  BY <1>1, ResolverInvariant, PTL

(***************************************************************************)
(* components.yaml and the component list of a completed run belong        *)
(* together, and every component in a list has a descriptor file, whatever *)
(* ran or was killed since.                                                *)
(***************************************************************************)
THEOREM OutputsMatch == Spec => []OutputsBelongTogether
<1>1. ResolverInv => OutputsBelongTogether
  BY DEF ResolverInv, FilesInv, ListsDescribed, NamedOf, OutputsBelongTogether
<1> QED
  BY <1>1, ResolverInvariant, PTL

(***************************************************************************)
(* components.yaml is only replaced when the walk has registered all that  *)
(* is below the root, and by one that has every wanted component.          *)
(***************************************************************************)
THEOREM ReplacedByComplete == Spec => ReplacedWhenComplete
<1>1. ASSUME ResolverInv, [Next]_vars, componentsFile' \notin {componentsFile, Torn}
      PROVE  Complete
  <2>1. WriteLandscapeKitComponents
    BY <1>1
       DEF Next, Start, NotFound, Process, EndWalk, WriteImageVector, WriteResources,
           WriteComponentList, Stop, Tear, Customize, vars, outputs
  <2> DEFINE names == DefaultNames \cup customs
  <2>2. /\ ~GetGLKComponentsFails(known, names, config.ignoreMissing)
        /\ componentsFile' = GetGLKComponents(known, names)
    BY <1>1, <2>1 DEF WriteLandscapeKitComponents
  <2>3. ~failed /\ config.root \in Registered /\ known \subseteq Registered
    BY <1>1, <2>1 DEF WriteLandscapeKitComponents, ResolverInv, WalkReaches, WalkOver
  <2>4. \A c \in Registered : References(c) \subseteq Registered
    BY <1>1, <2>3 DEF ResolverInv, WalkReaches
  <2>5. ASSUME ~config.ignoreMissing, NEW n \in names
        PROVE  \E entry \in componentsFile' : Name[entry.ref] = n
    <3>1. PICK c \in known : Name[c] = n
      BY <2>2, <2>5 DEF GetGLKComponentsFails
    <3>2. ComponentVector(c) \in componentsFile' /\ ComponentVector(c).ref = c
      BY <2>2, <3>1 DEF GetGLKComponents, Selected, ComponentVector
    <3> QED
      BY <3>1, <3>2
  <2> QED
    BY <2>3, <2>4, <2>5 DEF Complete
<1> QED
  BY <1>1, ResolverInvariant, PTL DEF Spec, ReplacedWhenComplete

-----------------------------------------------------------------------------
(* The images. *)

\* A list with an element has a first one.
LEMMA FirstOfIsMember ==
    ASSUME NEW I \in SUBSET Nat, NEW f, NEW list, list = [i \in I |-> f[i]], list # <<>>
    PROVE  FirstOf(list) \in Members(list)
<1>1. I # {}
  <2> SUFFICES ASSUME I = {} PROVE FALSE
    OBVIOUS
  <2>1. list = [i \in {} |-> f[i]]
    OBVIOUS
  <2>2. list = <<>>
    BY <2>1
  <2> QED
    BY <2>2
<1>2. First(I) \in I
  BY <1>1, FirstIsMember
<1>3. DOMAIN list = I
  OBVIOUS
<1>4. FirstOf(list) = list[First(I)]
  BY <1>3 DEF FirstOf, First
<1> QED
  BY <1>2, <1>3, <1>4 DEF Members

\* An image at that location is one of a component in a repository of that host.
Placed(at) ==
    at.host # None =>
        \E r \in Members(Repositories), c \in Refs :
            /\ Host[r] = at.host
            /\ c \in Stored[r]
            /\ \E res \in Members(Descriptors[c].resources) :
                   extractImageReference(res, Host[r]) = at

\* A registered component was found in a repository of the host noted for it.
HostsHonest ==
    \A c \in Registered :
        \E r \in Members(Repositories) : host[c] = Host[r] /\ c \in Stored[r]

LEMMA ResourceImagePlaced ==
    ASSUME HostsHonest, NEW c \in Registered,
           NEW img \in Members(extractImageVectorFromResources(c))
    PROVE  img.from = None /\ Placed(img.at)
<1>1. PICK i \in DOMAIN Descriptors[c].resources :
          img = resourceToImageSource(Descriptors[c].resources[i], host[c])
  BY DEF extractImageVectorFromResources, ResourcesOf, Members
<1> DEFINE res == Descriptors[c].resources[i]
<1>2. img.from = None /\ img.at = extractImageReference(res, host[c])
  BY <1>1 DEF resourceToImageSource
<1>3. res \in Members(Descriptors[c].resources)
  BY DEF Members
<1>4. PICK r \in Members(Repositories) : host[c] = Host[r] /\ c \in Stored[r]
  BY DEF HostsHonest
<1>5. extractImageReference(res, Host[r]).host \in {None, Host[r]}
  BY DEF extractImageReference
<1>6. Placed(extractImageReference(res, Host[r]))
  BY <1>3, <1>4, <1>5 DEF Placed, Registered
<1> QED
  BY <1>2, <1>4, <1>6

LEMMA ReferencedImageUnplaced ==
    ASSUME NEW c \in Refs, NEW d, NEW img \in Members(ReferencedImages(c, d))
    PROVE  img.from = d /\ Placed(img.at)
<1> DEFINE refs == Descriptors[c].references
<1>1. PICK i \in DOMAIN refs : refs[i].images # <<>> /\ img = [refs[i].images[1] EXCEPT !.from = d]
  BY DEF ReferencedImages, Members
<1>2. refs[i] \in Members(refs)
  BY DEF Members
<1>3. refs[i].images \in Seq(Members(refs[i].images))
  BY <1>2, DescriptorsAssumption
<1>4. refs[i].images[1] \in Members(refs[i].images)
  BY <1>1, <1>3 DEF Members
<1>5. {"at", "from"} \subseteq DOMAIN refs[i].images[1] /\ refs[i].images[1].at.host = None
  BY <1>2, <1>4, DescriptorsAssumption
<1>6. img.from = d /\ img.at = refs[i].images[1].at
  BY <1>1, <1>5
<1> QED
  BY <1>5, <1>6 DEF Placed

\* In any dependency of a registered component.
LEMMA VectorPlaced ==
    ASSUME HostsHonest, NEW c \in Registered, NEW d,
           NEW img \in Members(ImageVectorOf(c, d))
    PROVE  img.from \in {None, d} /\ Placed(img.at)
<1>1. c \in Refs
  BY DEF Registered
<1> QED
  BY <1>1, ResourceImagePlaced, ReferencedImageUnplaced DEF ImageVectorOf

\* What a lookup in a component returns is one of its images.
LEMMA LookupFinds ==
    ASSUME dependencies \in [Refs -> Seq(Refs)], NEW d \in Refs, NEW name, Found(d, name) # <<>>
    PROVE  /\ d \in Registered
           /\ \E e \in Members(dependencies[d]) :
                  FirstOf(FirstOf(Found(d, name))) \in Members(ImageVectorOf(d, e))
<1> DEFINE images == [i \in DOMAIN dependencies[d] |->
                         Matching(ImageVectorOf(d, dependencies[d][i]), name)]
           hits == {j \in DOMAIN images : images[j] # <<>>}
<1>1. Found(d, name) = [i \in hits |-> images[i]]
  BY DEF Found
<1>2. DOMAIN images \subseteq Nat
  OBVIOUS
<1>3. FirstOf(Found(d, name)) \in Members(Found(d, name))
  <2>1. hits \in SUBSET Nat
    BY <1>2
  <2> HIDE DEF hits, images
  <2> QED
    BY <1>1, <2>1, FirstOfIsMember
<1>4. PICK i \in DOMAIN dependencies[d] :
          /\ FirstOf(Found(d, name)) = Matching(ImageVectorOf(d, dependencies[d][i]), name)
          /\ FirstOf(Found(d, name)) # <<>>
  BY <1>1, <1>3 DEF Members
<1> DEFINE e == dependencies[d][i]
           vector == ImageVectorOf(d, e)
<1>5. d \in Registered /\ e \in Members(dependencies[d])
  BY <1>4 DEF Registered, Members
<1>6. DOMAIN vector \subseteq Nat
  BY DescriptorsAssumption
     DEF ImageVectorOf, extractImageVectorFromResources, ResourcesOf, ReferencedImages
<1>7. FirstOf(Matching(vector, name)) \in Members(vector)
  <2> DEFINE I == {j \in DOMAIN vector : EffectiveResourceName(vector[j]) = name}
  <2>1. I \in SUBSET Nat
    BY <1>6
  <2>2. Matching(vector, name) = [j \in I |-> vector[j]]
    BY DEF Matching
  <2>3. Matching(vector, name) # <<>>
    BY <1>4
  <2> HIDE DEF I, vector, e
  <2>4. FirstOf(Matching(vector, name)) \in Members(Matching(vector, name))
    BY <2>1, <2>2, <2>3, FirstOfIsMember
  <2>5. I \subseteq DOMAIN vector
    BY DEF I
  <2> QED
    BY <2>2, <2>4, <2>5 DEF Members
<1> QED
  BY <1>4, <1>5, <1>7

\* The image vector of a registered component, unless it cannot be computed.
LEMMA OwnImagesPlaced ==
    ASSUME TypeOK, HostsHonest, NEW c \in Registered, ~getImageVectorFails(c, FALSE),
           NEW image \in getImageVector(c, FALSE)
    PROVE  Placed(image.at)
<1>1. dependencies \in [Refs -> Seq(Refs)]
  BY DEF TypeOK
<1>2. PICK img \in Listed(c) : image = imageSource(img, Source(img), mappedName(c, img), FALSE)
  BY DEF getImageVector
<1>3. image.at = Source(img).at
  BY <1>2 DEF imageSource
<1>4. PICK d \in Members(dependencies[c]) : img \in Members(ImageVectorOf(c, d))
  BY <1>2 DEF Listed, ImagesOf
<1>5. d \in Refs
  BY <1>1, <1>4 DEF Members, Registered
<1>6. img.from \in {None, d} /\ Placed(img.at)
  BY <1>4, VectorPlaced
<1>7. CASE img.from = None
  BY <1>3, <1>6, <1>7 DEF Source
<1>8. CASE img.from # None
  <2>1. Found(d, LookupName(img)) # <<>>
    BY <1>2, <1>6, <1>8 DEF getImageVectorFails, lookup
  <2>2. d \in Registered /\ \E e \in Members(dependencies[d]) :
            Source(img) \in Members(ImageVectorOf(d, e))
    BY <1>1, <1>5, <1>6, <1>8, <2>1, LookupFinds DEF Source, lookup
  <2> QED
    BY <1>3, <2>2, VectorPlaced
<1> QED
  BY <1>7, <1>8

\* With the images of the kubernetes components, for a component that maps some.
LEMMA ImagesPlaced ==
    ASSUME TypeOK, HostsHonest, NEW c \in Registered, ~GetImageVectorFails(c, FALSE),
           NEW image \in GetImageVector(c, FALSE)
    PROVE  Placed(image.at)
<1>1. CASE image \in getImageVector(c, FALSE)
  BY <1>1, OwnImagesPlaced DEF GetImageVectorFails
<1>2. CASE image \notin getImageVector(c, FALSE)
  <2> PICK k \in kubernetesComponents :
            \E i \in getImageVector(k, FALSE) :
                /\ i.name \in DOMAIN mappedNames(c)
                /\ image = [i EXCEPT !.name = mappedNames(c)[i.name], !.target = i.version]
    BY <1>2 DEF GetImageVector
  <2>1. PICK i \in getImageVector(k, FALSE) :
            /\ i.name \in DOMAIN mappedNames(c)
            /\ image = [i EXCEPT !.name = mappedNames(c)[i.name], !.target = i.version]
    OBVIOUS
  <2>2. mappedImages(c) # <<>>
    BY <2>1 DEF mappedNames, Members
  <2>3. k \in Registered /\ ~getImageVectorFails(k, FALSE)
    BY <2>1, <2>2 DEF GetImageVectorFails, kubernetesComponents
  <2>4. Placed(i.at)
    BY <2>1, <2>3, OwnImagesPlaced
  <2>5. image.at = i.at
    <3>1. PICK img, source, mapped : i = imageSource(img, source, mapped, FALSE)
      BY <2>1 DEF getImageVector
    <3>2. {"at"} \subseteq DOMAIN i
      BY <3>1 DEF imageSource
    <3> QED
      BY <2>1, <3>2
  <2> QED
    BY <2>4, <2>5
<1> QED
  BY <1>1, <1>2

\* All that a run writes to components.yaml.
AllPlaced ==
    componentsFile \notin {Absent, Torn} =>
        \A image \in UNION {Images(entry) : entry \in componentsFile} : Placed(image.at)

LEMMA EntryPlaced ==
    ASSUME TypeOK, HostsHonest, NEW c \in Registered,
           Members(dependencies[c]) \subseteq Registered, c \in Members(dependencies[c]),
           \A d \in Members(dependencies[c]) : ~GetImageVectorFails(d, FALSE),
           NEW image \in Images(ComponentVector(c))
    PROVE  Placed(image.at)
<1>1. CASE image \in GetImageVector(c, FALSE)
  BY <1>1, ImagesPlaced
<1>2. CASE image \notin GetImageVector(c, FALSE)
  <2>1. PICK d \in Members(dependencies[c]) : image \in GetImageVector(d, FALSE)
    <3>1. PICK o \in addGLKComponentsImageOverwrites(c) : image \in o.images
      BY <1>2 DEF Images, ComponentVector
    <3>2. PICK d \in Members(dependencies[c]) :
              o = [name |-> LocalName(c, d), images |-> GetImageVector(d, FALSE)]
      BY <3>1 DEF addGLKComponentsImageOverwrites
    <3> QED
      BY <3>1, <3>2
  <2> QED
    BY <2>1, ImagesPlaced
<1> QED
  BY <1>1, <1>2

\* The order of a component's dependencies is one that a map may be walked in.
GraphRecorded == \A c \in Registered : dependencies[c] \in Recorded(c)

LEMMA RecordedMembers ==
    ASSUME NEW c \in Refs, NEW s \in Recorded(c)
    PROVE  /\ Members(s) = {c} \cup References(c)
           /\ DOMAIN s \subseteq Nat \ {0} /\ 1 \in DOMAIN s /\ s[1] = c
<1> DEFINE S == References(c)
<1>1. IsFiniteSet(S)
  BY ResolverAssumption, FS_Subset
<1>2. Cardinality(S) \in Nat
  BY <1>1, FS_CardinalityType
<1>3. PICK t \in [1 .. Cardinality(S) -> S] : s = <<c>> \o t /\ Members(t) = S
  BY DEF Recorded, Orders
<1>4. t \in Seq(S) /\ Len(t) = Cardinality(S)
  <2>1. t = [i \in 1 .. Cardinality(S) |-> t[i]]
    BY <1>3
  <2> QED
    BY <1>2, <2>1
<1>5. /\ DOMAIN s = 1 .. 1 + Len(t)
      /\ s[1] = c
      /\ \A i \in 1 .. Len(t) : s[i + 1] = t[i]
  BY <1>2, <1>3, <1>4
<1>6. DOMAIN s \subseteq Nat \ {0} /\ 1 \in DOMAIN s
  BY <1>2, <1>4, <1>5
<1> QED
  <2>1. \A x \in Members(s) : x \in {c} \cup S
    <3> SUFFICES ASSUME NEW i \in DOMAIN s, i # 1
                 PROVE  s[i] \in S
      BY <1>5 DEF Members
    <3>1. i - 1 \in 1 .. Len(t) /\ i = (i - 1) + 1
      BY <1>2, <1>4, <1>5
    <3> QED
      BY <1>3, <1>4, <1>5, <3>1
  <2>2. \A x \in S : x \in Members(s)
    <3> TAKE x \in S
    <3>1. PICK i \in 1 .. Len(t) : x = t[i]
      BY <1>3, <1>4 DEF Members
    <3>2. i + 1 \in DOMAIN s /\ s[i + 1] = x
      BY <1>2, <1>4, <1>5, <3>1
    <3> QED
      BY <3>2 DEF Members
  <2>3. c \in Members(s)
    BY <1>2, <1>4, <1>5 DEF Members
  <2> QED
    BY <1>5, <1>6, <2>1, <2>2, <2>3

\* Where each descriptor was found, and what it refers to, is on record.
LEMMA NextRecorded ==
    ASSUME TypeOK, HostsHonest, GraphRecorded, [Next]_vars
    PROVE  HostsHonest' /\ GraphRecorded'
<1>1. CASE Start
  <2>1. Registered' = {}
    BY <1>1 DEF Start, Registered
  <2> QED
    BY <2>1 DEF HostsHonest, GraphRecorded
<1>2. CASE UNCHANGED graphVars
  BY <1>2 DEF HostsHonest, GraphRecorded, Registered, graphVars
<1>3. ASSUME NEW c \in Refs, Process(c) PROVE HostsHonest' /\ GraphRecorded'
  <2>1. CASE /\ Registered' = Registered \cup {c}
             /\ \E r \in Members(Repositories) :
                    c \in Stored[r] /\ host' = [host EXCEPT ![c] = Host[r]]
             /\ \E s \in Recorded(c) : dependencies' = [dependencies EXCEPT ![c] = s]
    <3>1. Registered \subseteq Refs
      BY DEF Registered
    <3>2. HostsHonest'
      BY <2>1, <3>1 DEF HostsHonest, TypeOK
    <3>3. GraphRecorded'
      <4>1. PICK s \in Recorded(c) : dependencies' = [dependencies EXCEPT ![c] = s]
        BY <2>1
      <4>2. \A d \in Registered' : dependencies'[d] \in Recorded(d)
        BY <2>1, <3>1, <4>1 DEF GraphRecorded, TypeOK
      <4> QED
        BY <4>2 DEF GraphRecorded
    <3> QED
      BY <3>2, <3>3
  <2> QED
    BY <1>2, <1>3, <2>1, ProcessEffect
<1> QED
  BY <1>1, <1>2, <1>3
     DEF Next, NotFound, Forget, EndWalk, WriteImageVector, WriteResources, Proceed,
         WriteComponentList, WriteLandscapeKitComponents, Stop, Customize, vars, graphVars

\* Only the last step of a run writes the file, when the walk was complete.
LEMMA NextPlaced ==
    ASSUME TypeOK, WalkReaches, HostsHonest, GraphRecorded, AllPlaced, [Next]_vars
    PROVE  AllPlaced'
<1>1. CASE componentsFile' \in {componentsFile, Torn}
  BY <1>1 DEF AllPlaced, Placed
<1>2. CASE WriteLandscapeKitComponents
  <2> DEFINE names == DefaultNames \cup customs
  <2> SUFFICES ASSUME ~GetGLKComponentsFails(known, names, config.ignoreMissing),
                      componentsFile' = GetGLKComponents(known, names),
                      NEW entry \in componentsFile', NEW image \in Images(entry)
               PROVE  Placed(image.at)
    BY <1>1, <1>2 DEF WriteLandscapeKitComponents, AllPlaced, Placed
  <2>1. PICK c \in known : entry = ComponentVector(c) /\ c \in Selected(known, names)
    BY DEF GetGLKComponents, Selected
  <2>2. c \in Registered /\ known \subseteq Registered /\ References(c) \subseteq known
    BY <1>2, <2>1 DEF WriteLandscapeKitComponents, WalkReaches, WalkOver
  <2>3. Members(dependencies[c]) = {c} \cup References(c)
    BY <2>2, RecordedMembers DEF GraphRecorded, Registered
  <2>4. \A d \in Members(dependencies[c]) : ~GetImageVectorFails(d, FALSE)
    BY <2>1 DEF GetGLKComponentsFails
  <2> QED
    BY <2>1, <2>2, <2>3, <2>4, EntryPlaced
<1> QED
  BY <1>1, <1>2
     DEF Next, Start, NotFound, Process, EndWalk, WriteImageVector, WriteResources,
         WriteComponentList, Stop, Tear, Customize, vars, outputs

(***************************************************************************)
(* Whichever repositories could be reached, an image that components.yaml  *)
(* places below the host of a repository is an image of a component which  *)
(* that repository has.                                                    *)
(***************************************************************************)
ImagesInv == ResolverInv /\ HostsHonest /\ GraphRecorded /\ AllPlaced

LEMMA ImagesInvariant == Spec => []ImagesInv
<1>1. Init => ImagesInv
  <2> SUFFICES ASSUME Init PROVE ImagesInv
    OBVIOUS
  <2>1. Registered = {} /\ componentsFile = Absent
    BY DEF Init, Registered
  <2> QED
    BY <2>1, InitTyped, InitReaches, InitFiles
       DEF ResolverInv, ImagesInv, HostsHonest, GraphRecorded, AllPlaced
<1>2. ImagesInv /\ [Next]_vars => ImagesInv'
  BY NextInvariant, NextRecorded, NextPlaced DEF ImagesInv, ResolverInv
<1> QED
  BY <1>1, <1>2, PTL DEF Spec

THEOREM ImagesPlacedHonestly == Spec => []ImagesAreWhereTheyAreSaidToBe
<1>1. ImagesInv => ImagesAreWhereTheyAreSaidToBe
  BY DEF ImagesInv, AllPlaced, Placed, ImagesAreWhereTheyAreSaidToBe
<1> QED
  BY <1>1, ImagesInvariant, PTL

-----------------------------------------------------------------------------
(* The order of the dependencies. *)

\* What does not look at the recorded dependencies is the same in any order.
LEMMA SameLists ==
    /\ \A s : Ordered!Members(s) = Members(s)
    /\ \A s : Ordered!FirstOf(s) = FirstOf(s)
    /\ \A img : Ordered!EffectiveResourceName(img) = EffectiveResourceName(img)
    /\ \A images, name : Ordered!Matching(images, name) = Matching(images, name)
    /\ \A img : Ordered!LookupName(img) = LookupName(img)
BY DEF Ordered!Members, Members, Ordered!FirstOf, FirstOf,
       Ordered!EffectiveResourceName, EffectiveResourceName, Ordered!Matching, Matching,
       Ordered!LookupName, LookupName

LEMMA SameVectors ==
    \A c, d : Ordered!ImageVectorOf(c, d) = ImageVectorOf(c, d)
BY DEF Ordered!ImageVectorOf, ImageVectorOf, Ordered!extractImageVectorFromResources,
       extractImageVectorFromResources, Ordered!ResourcesOf, ResourcesOf,
       Ordered!resourceToImageSource, resourceToImageSource,
       Ordered!extractImageReference, extractImageReference,
       Ordered!ReferencedImages, ReferencedImages

LEMMA SameLocalName ==
    \A c, d : Ordered!LocalName(c, d) = LocalName(c, d)
BY DEF Ordered!LocalName, LocalName, Ordered!FirstOf, FirstOf

LEMMA SameResources ==
    \A c : Ordered!addGLKComponentResources(c) = addGLKComponentResources(c)
BY DEF Ordered!addGLKComponentResources, addGLKComponentResources,
       Ordered!imageNames, imageNames, Ordered!LocalImages, LocalImages,
       Ordered!helmCharts, helmCharts, Ordered!HelmChart, HelmChart,
       Ordered!imageMaps, imageMaps, Ordered!ociImageRef, ociImageRef,
       Ordered!Members, Members, Ordered!EffectiveResourceName, EffectiveResourceName,
       Ordered!extractImageVectorFromResources,
       extractImageVectorFromResources, Ordered!ResourcesOf, ResourcesOf,
       Ordered!resourceToImageSource, resourceToImageSource,
       Ordered!extractImageReference, extractImageReference

\* The images of that name in the dependencies of c, in the order of s.
FoundIn(s, c, name) ==
    LET images == [i \in DOMAIN s |-> Matching(ImageVectorOf(c, s[i]), name)]
    IN  [i \in {j \in DOMAIN images : images[j] # <<>>} |-> images[i]]

LEMMA FoundInOrder ==
    ASSUME NEW c, NEW name
    PROVE  /\ Found(c, name) = FoundIn(dependencies[c], c, name)
           /\ Ordered!Found(c, name) = FoundIn(InFixedOrder[c], c, name)
<1>1. Found(c, name) = FoundIn(dependencies[c], c, name)
  BY DEF Found, FoundIn
<1>2. Ordered!Found(c, name) = FoundIn(InFixedOrder[c], c, name)
  BY DEF FoundIn, Ordered!Found, Ordered!Matching, Matching,
         Ordered!EffectiveResourceName, EffectiveResourceName,
         Ordered!ImageVectorOf, ImageVectorOf, Ordered!extractImageVectorFromResources,
         extractImageVectorFromResources, Ordered!ResourcesOf, ResourcesOf,
         Ordered!resourceToImageSource, resourceToImageSource,
         Ordered!extractImageReference, extractImageReference,
         Ordered!ReferencedImages, ReferencedImages
<1> QED
  BY <1>1, <1>2

LEMMA MatchingSome ==
    ASSUME NEW images, NEW name
    PROVE  Matching(images, name) # <<>> <=>
               \E img \in Members(images) : EffectiveResourceName(img) = name
<1> DEFINE I == {j \in DOMAIN images : EffectiveResourceName(images[j]) = name}
<1>1. Matching(images, name) = [i \in I |-> images[i]]
  BY DEF Matching
<1>2. CASE I = {}
  <2>1. [i \in I |-> images[i]] = <<>>
    BY <1>2
  <2> QED
    BY <1>1, <1>2, <2>1 DEF Members
<1>3. CASE I # {}
  <2>1. [i \in I |-> images[i]] # <<>>
    BY <1>3
  <2> QED
    BY <1>1, <1>3, <2>1 DEF Members
<1> QED
  BY <1>2, <1>3

Has(c, d, name) == Matching(ImageVectorOf(c, d), name) # <<>>

\* The component's own images come first, and else at most one other has them.
Provider(c, name) ==
    IF Has(c, c, name) THEN c ELSE CHOOSE d \in References(c) : Has(c, d, name)

LEMMA ProviderUnique ==
    ASSUME UnambiguousImages, NEW c \in Refs, NEW name, ~Has(c, c, name),
           NEW d \in References(c), NEW e \in References(c),
           Has(c, d, name), Has(c, e, name)
    PROVE  d = e
<1>1. d # c /\ e # c
  BY DEF References
<1>2. PICK x \in Members(ReferencedImages(c, d)) : EffectiveResourceName(x) = name
  BY <1>1, MatchingSome DEF Has, ImageVectorOf
<1>3. PICK y \in Members(ReferencedImages(c, e)) : EffectiveResourceName(y) = name
  BY <1>1, MatchingSome DEF Has, ImageVectorOf
<1>4. ASSUME NEW res \in Members(ResourcesOf(c, "ociImage")),
             EffectiveResourceName(resourceToImageSource(res, None)) = name
      PROVE  FALSE
  <2>1. EffectiveResourceName(resourceToImageSource(res, host[c])) = name
    BY <1>4 DEF EffectiveResourceName, resourceToImageSource
  <2>2. resourceToImageSource(res, host[c]) \in Members(extractImageVectorFromResources(c))
    BY DEF extractImageVectorFromResources, Members
  <2> QED
    BY <2>1, <2>2, MatchingSome DEF Has, ImageVectorOf
<1> QED
  BY <1>2, <1>3, <1>4 DEF UnambiguousImages

\* The first images found do not depend on the order of the dependencies.
LEMMA FirstFound ==
    ASSUME UnambiguousImages, NEW c \in Refs, NEW s \in Recorded(c), NEW name
    PROVE  /\ FoundIn(s, c, name) = <<>> <=>
                  \A d \in {c} \cup References(c) : ~Has(c, d, name)
           /\ FoundIn(s, c, name) # <<>> =>
                  FirstOf(FoundIn(s, c, name)) = Matching(ImageVectorOf(c, Provider(c, name)), name)
<1> DEFINE f == [i \in DOMAIN s |-> Matching(ImageVectorOf(c, s[i]), name)]
           hits == {j \in DOMAIN s : Has(c, s[j], name)}
<1>1. FoundIn(s, c, name) = [i \in hits |-> f[i]]
  <2>1. hits = {j \in DOMAIN f : f[j] # <<>>}
    BY DEF Has
  <2> QED
    BY <2>1 DEF FoundIn
<1>2. /\ Members(s) = {c} \cup References(c)
      /\ DOMAIN s \subseteq Nat \ {0} /\ 1 \in DOMAIN s /\ s[1] = c
  BY RecordedMembers
<1>3. hits = {} <=> \A d \in {c} \cup References(c) : ~Has(c, d, name)
  BY <1>2 DEF Members
<1>4. FoundIn(s, c, name) = <<>> <=> hits = {}
  <2> HIDE DEF f, hits
  <2>1. CASE hits = {}
    <3>1. [i \in hits |-> f[i]] = <<>>
      BY <2>1
    <3> QED
      BY <1>1, <2>1, <3>1
  <2>2. CASE hits # {}
    <3>1. [i \in hits |-> f[i]] # <<>>
      BY <2>2
    <3> QED
      BY <1>1, <2>2, <3>1
  <2> QED
    BY <2>1, <2>2
<1>5. ASSUME hits # {}
      PROVE  FirstOf(FoundIn(s, c, name)) = Matching(ImageVectorOf(c, Provider(c, name)), name)
  <2>1. First(hits) \in hits /\ \A j \in hits : First(hits) <= j
    BY <1>2, <1>5, FirstIsMember
  <2> DEFINE i == First(hits)
  <2>2. FirstOf(FoundIn(s, c, name)) = f[i]
    <3> HIDE DEF f, hits
    <3> QED
      BY <1>1, <2>1 DEF FirstOf, First
  <2>3. f[i] = Matching(ImageVectorOf(c, s[i]), name)
    BY <2>1
  <2>4. s[i] = Provider(c, name)
    <3>1. CASE Has(c, c, name)
      <4>1. i = 1
        BY <1>2, <2>1, <3>1
      <4> QED
        BY <1>2, <3>1, <4>1 DEF Provider
    <3>2. CASE ~Has(c, c, name)
      <4>1. s[i] \in References(c) /\ Has(c, s[i], name)
        BY <1>2, <2>1, <3>2 DEF Members
      <4> HIDE DEF i
      <4>2. Provider(c, name) \in References(c) /\ Has(c, Provider(c, name), name)
        BY <3>2, <4>1 DEF Provider
      <4> QED
        BY <3>2, <4>1, <4>2, ProviderUnique
    <3> QED
      BY <3>1, <3>2
  <2> QED
    BY <2>2, <2>3, <2>4
<1> QED
  BY <1>3, <1>4, <1>5

\* The fixed order is one the maps may have been walked in.
LEMMA FixedOrderRecorded ==
    ASSUME GraphRecorded, NEW c \in Refs
    PROVE  /\ c \in Registered => InFixedOrder[c] \in Recorded(c)
           /\ c \notin Registered => InFixedOrder[c] = <<>> /\ dependencies[c] = <<>>
<1>1. CASE c \in Registered
  <2>1. \E s : s \in Orders(References(c))
    BY <1>1 DEF GraphRecorded, Recorded
  <2>2. (CHOOSE s \in Orders(References(c)) : TRUE) \in Orders(References(c))
    BY <2>1
  <2>3. InFixedOrder[c] = <<c>> \o (CHOOSE s \in Orders(References(c)) : TRUE)
    BY <1>1 DEF InFixedOrder
  <2> QED
    BY <1>1, <2>2, <2>3 DEF Recorded
<1>2. CASE c \notin Registered
  BY <1>2 DEF InFixedOrder, Registered
<1> QED
  BY <1>1, <1>2

LEMMA SameRegistered ==
    ASSUME GraphRecorded
    PROVE  Ordered!Registered = Registered
<1> SUFFICES ASSUME NEW c \in Refs
             PROVE  InFixedOrder[c] # <<>> <=> c \in Registered
  BY DEF Ordered!Registered, Registered
<1>1. ASSUME NEW s \in Recorded(c) PROVE s # <<>>
  BY RecordedTyped
<1> QED
  BY <1>1, FixedOrderRecorded

LEMMA SameDependencies ==
    ASSUME GraphRecorded, NEW c \in Refs
    PROVE  Members(InFixedOrder[c]) = Members(dependencies[c])
<1>1. CASE c \in Registered
  BY <1>1, FixedOrderRecorded, RecordedMembers DEF GraphRecorded
<1>2. CASE c \notin Registered
  BY <1>2, FixedOrderRecorded
<1> QED
  BY <1>1, <1>2

\* So a lookup finds the same images, or fails, whatever the order.
LEMMA SameLookup ==
    ASSUME GraphRecorded, UnambiguousImages, NEW c \in Refs, NEW name
    PROVE  FirstOf(Ordered!Found(c, name)) = FirstOf(Found(c, name))
<1>1. CASE c \in Registered
  <2>1. InFixedOrder[c] \in Recorded(c) /\ dependencies[c] \in Recorded(c)
    BY <1>1, FixedOrderRecorded DEF GraphRecorded
  <2> DEFINE s == dependencies[c]
             t == InFixedOrder[c]
  <2>2. FoundIn(s, c, name) = <<>> <=> FoundIn(t, c, name) = <<>>
    BY <2>1, FirstFound, Zenon
  <2>3. CASE FoundIn(s, c, name) = <<>>
    BY <2>2, <2>3, FoundInOrder
  <2>4. CASE FoundIn(s, c, name) # <<>>
    <3>1. FirstOf(FoundIn(s, c, name)) = Matching(ImageVectorOf(c, Provider(c, name)), name)
      BY <2>1, <2>4, FirstFound, Zenon
    <3>2. FirstOf(FoundIn(t, c, name)) = Matching(ImageVectorOf(c, Provider(c, name)), name)
      BY <2>1, <2>2, <2>4, FirstFound, Zenon
    <3> QED
      BY <3>1, <3>2, FoundInOrder
  <2> QED
    BY <2>3, <2>4
<1>2. CASE c \notin Registered
  <2>1. InFixedOrder[c] = dependencies[c]
    BY <1>2, FixedOrderRecorded
  <2> QED
    BY <2>1, FoundInOrder
<1> QED
  BY <1>1, <1>2

\* The images listed for a component, and where they are.
LEMMA SameImages ==
    ASSUME TypeOK, HostsHonest, GraphRecorded, UnambiguousImages, NEW c \in Refs
    PROVE  /\ Ordered!Listed(c) = Listed(c)
           /\ \A img \in Listed(c) :
                  /\ Ordered!mappedName(c, img) = mappedName(c, img)
                  /\ Ordered!Source(img) = Source(img)
<1>1. Ordered!ImagesOf(c) = ImagesOf(c)
  <2>1. \A x : x \in Ordered!ImagesOf(c) <=>
            \E d \in Members(InFixedOrder[c]) : x \in Members(ImageVectorOf(c, d))
    BY SameVectors, SameLists DEF Ordered!ImagesOf
  <2>2. \A x : x \in ImagesOf(c) <=>
            \E d \in Members(dependencies[c]) : x \in Members(ImageVectorOf(c, d))
    BY DEF ImagesOf
  <2> QED
    BY <2>1, <2>2, SameDependencies
<1>2. ASSUME NEW img PROVE Ordered!mappedName(c, img) = mappedName(c, img)
  <2>1. Ordered!mappedImages(c) = mappedImages(c)
    BY SameRegistered DEF Ordered!mappedImages, mappedImages
  <2> QED
    BY <2>1, SameLists DEF Ordered!mappedName, mappedName
<1>3. Ordered!Listed(c) = Listed(c)
  BY <1>1, <1>2 DEF Ordered!Listed, Listed
<1>4. ASSUME NEW img \in Listed(c) PROVE Ordered!Source(img) = Source(img)
  <2>1. PICK d \in Members(dependencies[c]) : img \in Members(ImageVectorOf(c, d))
    BY DEF Listed, ImagesOf
  <2>2. c \in Registered /\ d \in Refs
    BY <2>1 DEF TypeOK, Registered, Members
  <2>3. img.from \in {None, d}
    BY <2>1, <2>2, VectorPlaced
  <2>4. CASE img.from = None
    BY <2>4 DEF Ordered!Source, Source
  <2>5. CASE img.from = d
    BY <2>2, <2>5, SameLookup, SameLists
       DEF Ordered!Source, Source, Ordered!lookup, lookup
  <2> QED
    BY <2>3, <2>4, <2>5
<1> QED
  BY <1>2, <1>3, <1>4

\* The names that these mapped images give to repositories.
NamesFor(mapped) ==
    LET repositories == {m.repository : m \in Members(mapped)} \ {None}
        Last(r) == CHOOSE i \in DOMAIN mapped :
                       /\ mapped[i].repository = r
                       /\ \A j \in DOMAIN mapped : mapped[j].repository = r => j <= i
    IN  [r \in repositories |-> mapped[Last(r)].name]

LEMMA SameImageVector ==
    ASSUME TypeOK, HostsHonest, GraphRecorded, UnambiguousImages, NEW c \in Refs
    PROVE  Ordered!GetImageVector(c, FALSE) = GetImageVector(c, FALSE)
<1>1. ASSUME NEW d \in Refs
      PROVE  Ordered!getImageVector(d, FALSE) = getImageVector(d, FALSE)
  <2>1. \A img, source, mapped :
            Ordered!imageSource(img, source, mapped, FALSE) = imageSource(img, source, mapped, FALSE)
    BY DEF Ordered!imageSource, imageSource
  <2>2. Ordered!Listed(d) = Listed(d)
    BY SameImages
  <2>3. \A img \in Listed(d) :
            Ordered!imageSource(img, Ordered!Source(img), Ordered!mappedName(d, img), FALSE)
                = imageSource(img, Source(img), mappedName(d, img), FALSE)
    BY <2>1, SameImages
  <2> QED
    BY <2>2, <2>3 DEF Ordered!getImageVector, getImageVector
<1>2. Ordered!kubernetesComponents = kubernetesComponents
  BY SameRegistered DEF Ordered!kubernetesComponents, kubernetesComponents
<1>3. kubernetesComponents \subseteq Refs
  BY DEF kubernetesComponents, Registered
<1>4. Ordered!mappedNames(c) = mappedNames(c)
  <2>1. Ordered!mappedImages(c) = mappedImages(c)
    BY SameRegistered DEF Ordered!mappedImages, mappedImages
  <2>2. /\ mappedNames(c) = NamesFor(mappedImages(c))
        /\ Ordered!mappedNames(c) = NamesFor(Ordered!mappedImages(c))
    BY DEF mappedNames, Ordered!mappedNames, Ordered!Members, Members, NamesFor
  <2> QED
    BY <2>1, <2>2
<1>5. UNION {Ordered!getImageVector(k, FALSE) : k \in kubernetesComponents}
          = UNION {getImageVector(k, FALSE) : k \in kubernetesComponents}
  BY <1>1, <1>3
<1> QED
  BY <1>1, <1>2, <1>4, <1>5 DEF Ordered!GetImageVector, GetImageVector

LEMMA SameEntry ==
    ASSUME TypeOK, HostsHonest, GraphRecorded, UnambiguousImages, NEW c \in Refs
    PROVE  Ordered!ComponentVector(c) = ComponentVector(c)
<1>1. Members(dependencies[c]) \subseteq Refs
  BY DEF TypeOK, Members
<1>2. Ordered!addGLKComponentsImageOverwrites(c) = addGLKComponentsImageOverwrites(c)
  <2>1. Ordered!Members(InFixedOrder[c]) = Members(dependencies[c])
    BY SameLists, SameDependencies
  <2>2. \A d \in Members(dependencies[c]) :
            [name |-> Ordered!LocalName(c, d), images |-> Ordered!GetImageVector(d, FALSE)]
                = [name |-> LocalName(c, d), images |-> GetImageVector(d, FALSE)]
    BY <1>1, SameLocalName, SameImageVector
  <2> QED
    BY <2>1, <2>2
       DEF Ordered!addGLKComponentsImageOverwrites, addGLKComponentsImageOverwrites
<1> QED
  BY <1>2, SameResources, SameImageVector DEF Ordered!ComponentVector, ComponentVector

At(deps, h) == INSTANCE ImageVectors WITH dependencies <- deps, host <- h

\* An entry is a function of the two variables of the graph.
EntryOfGraph == \A c : ComponentVector(c) = At(dependencies, host)!ComponentVector(c)

LEMMA EntryAt == EntryOfGraph
<1>1. \A c, d : ImageVectorOf(c, d) = At(dependencies, host)!ImageVectorOf(c, d)
  BY DEF ImageVectorOf, At!ImageVectorOf, ReferencedImages, At!ReferencedImages,
       extractImageVectorFromResources, At!extractImageVectorFromResources,
       ResourcesOf, At!ResourcesOf, resourceToImageSource, At!resourceToImageSource,
       extractImageReference, At!extractImageReference
<1>2. \A c : ImagesOf(c) = At(dependencies, host)!ImagesOf(c)
  BY DEF ImagesOf, At!ImagesOf, Members, At!Members, 
       ImageVectorOf, At!ImageVectorOf, ReferencedImages, At!ReferencedImages,
       extractImageVectorFromResources, At!extractImageVectorFromResources,
       ResourcesOf, At!ResourcesOf, resourceToImageSource, At!resourceToImageSource,
       extractImageReference, At!extractImageReference
<1>3. ASSUME NEW img PROVE Source(img) = At(dependencies, host)!Source(img)
  BY DEF Source, At!Source, lookup, At!lookup, FirstOf, At!FirstOf,
       LookupName, At!LookupName, Found, At!Found, Matching, At!Matching,
       EffectiveResourceName, At!EffectiveResourceName,
       ImageVectorOf, At!ImageVectorOf, ReferencedImages, At!ReferencedImages,
       extractImageVectorFromResources, At!extractImageVectorFromResources,
       ResourcesOf, At!ResourcesOf, resourceToImageSource, At!resourceToImageSource,
       extractImageReference, At!extractImageReference
<1>4. \A c, img : mappedName(c, img) = At(dependencies, host)!mappedName(c, img)
  BY DEF mappedName, At!mappedName, mappedImages, At!mappedImages,
         Registered, At!Registered, FirstOf, At!FirstOf
<1>5. \A img, source, mapped :
          imageSource(img, source, mapped, FALSE) =
              At(dependencies, host)!imageSource(img, source, mapped, FALSE)
  BY DEF imageSource, At!imageSource
<1>6. \A c : Listed(c) = At(dependencies, host)!Listed(c)
  BY <1>2, <1>4 DEF Listed, At!Listed
<1>7. \A c : getImageVector(c, FALSE) = At(dependencies, host)!getImageVector(c, FALSE)
  BY <1>3, <1>4, <1>5, <1>6 DEF getImageVector, At!getImageVector
<1>8. \A c : mappedNames(c) = At(dependencies, host)!mappedNames(c)
  BY DEF mappedNames, At!mappedNames, mappedImages, At!mappedImages,
         Registered, At!Registered, Members, At!Members
<1>9. kubernetesComponents = At(dependencies, host)!kubernetesComponents
  BY DEF kubernetesComponents, At!kubernetesComponents, Registered, At!Registered
<1>10. ASSUME NEW c PROVE GetImageVector(c, FALSE) = At(dependencies, host)!GetImageVector(c, FALSE)
  <2>1. UNION {getImageVector(k, FALSE) : k \in kubernetesComponents}
            = UNION {At(dependencies, host)!getImageVector(k, FALSE) :
                        k \in At(dependencies, host)!kubernetesComponents}
    BY <1>7, <1>9
  <2> QED
    BY <1>7, <1>8, <2>1 DEF GetImageVector, At!GetImageVector
<1>11. ASSUME NEW c
       PROVE  addGLKComponentsImageOverwrites(c)
                  = At(dependencies, host)!addGLKComponentsImageOverwrites(c)
  <2>1. \A d : LocalName(c, d) = At(dependencies, host)!LocalName(c, d)
    BY DEF LocalName, At!LocalName, FirstOf, At!FirstOf
  <2>2. Members(dependencies[c]) = At(dependencies, host)!Members(dependencies[c])
    BY DEF Members, At!Members
  <2>3. \A d : [name |-> LocalName(c, d), images |-> GetImageVector(d, FALSE)]
                 = [name |-> At(dependencies, host)!LocalName(c, d),
                    images |-> At(dependencies, host)!GetImageVector(d, FALSE)]
    BY <1>10, <2>1
  <2> QED
    BY <2>2, <2>3
       DEF addGLKComponentsImageOverwrites, At!addGLKComponentsImageOverwrites
<1>12. \A c : addGLKComponentResources(c) = At(dependencies, host)!addGLKComponentResources(c)
  BY DEF addGLKComponentResources, At!addGLKComponentResources,
       imageNames, At!imageNames, LocalImages, At!LocalImages,
       helmCharts, At!helmCharts, HelmChart, At!HelmChart,
       imageMaps, At!imageMaps, ociImageRef, At!ociImageRef,
       Members, At!Members, EffectiveResourceName, At!EffectiveResourceName,
       extractImageVectorFromResources, At!extractImageVectorFromResources,
       ResourcesOf, At!ResourcesOf, resourceToImageSource, At!resourceToImageSource,
       extractImageReference, At!extractImageReference
<1> QED
  BY <1>10, <1>11, <1>12 DEF ComponentVector, At!ComponentVector, EntryOfGraph

LEMMA EntryStays ==
    UNCHANGED <<dependencies, host>> => \A c : ComponentVector(c)' = ComponentVector(c)
<1>1. EntryOfGraph /\ EntryOfGraph'
  BY EntryAt, PTL
<1> QED
  BY <1>1 DEF EntryOfGraph

\* A completed run has written the entries of the graph, which it leaves as it is.
FileOfGraph ==
    Finished => \A entry \in componentsFile :
                    entry.ref \in Refs /\ entry = ComponentVector(entry.ref)

LEMMA NextFileOfGraph == TypeOK /\ FileOfGraph /\ [Next]_vars => FileOfGraph'
<1> SUFFICES ASSUME TypeOK, FileOfGraph, [Next]_vars
             PROVE  FileOfGraph'
  OBVIOUS
<1>1. CASE WriteLandscapeKitComponents
  <2> SUFFICES ASSUME Finished', NEW entry \in componentsFile'
               PROVE  entry.ref \in Refs /\ entry = ComponentVector(entry.ref)'
    BY DEF FileOfGraph
  <2>1. UNCHANGED <<dependencies, host>>
    BY <1>1 DEF WriteLandscapeKitComponents, graphVars
  <2>2. componentsFile' = GetGLKComponents(known, DefaultNames \cup customs)
    BY <1>1 DEF WriteLandscapeKitComponents, Exit, Finished
  <2>3. PICK c \in known : entry = ComponentVector(c)
    BY <2>2 DEF GetGLKComponents, Selected
  <2>4. entry.ref = c
    BY <2>3 DEF ComponentVector
  <2>5. c \in Refs
    BY <2>3 DEF TypeOK
  <2>6. ComponentVector(c)' = ComponentVector(c)
    BY <2>1, EntryStays
  <2> QED
    BY <2>3, <2>4, <2>5, <2>6
<1>2. CASE Finished /\ UNCHANGED <<dependencies, host, componentsFile>>
  BY <1>2, EntryStays DEF FileOfGraph
<1>3. CASE phase' # "idle" \/ result' # "success"
  BY <1>3 DEF Finished, FileOfGraph
<1> QED
  BY <1>1, <1>2, <1>3
     DEF Next, Start, NotFound, Process, EndWalk, Exit, WriteImageVector,
         WriteResources, Proceed, WriteComponentList, Stop, Customize, Finished,
         vars, graphVars, runVars, outputs

(***************************************************************************)
(* If no two references of a component have images of one name that the    *)
(* component has not itself, the entries of components.yaml do not depend  *)
(* on the order of the walk, nor on that of the maps it goes through.      *)
(***************************************************************************)
THEOREM OrderIrrelevant ==
    ASSUME UnambiguousImages
    PROVE  Spec => []OrderDoesNotMatter
<1>1. Init => FileOfGraph
  BY DEF Init, FileOfGraph, Finished
<1>2. Spec => []FileOfGraph
  <2>1. ResolverInv => TypeOK
    BY DEF ResolverInv
  <2> QED
    BY <1>1, <2>1, NextFileOfGraph, ResolverInvariant, PTL DEF Spec
<1>3. ImagesInv /\ FileOfGraph => OrderDoesNotMatter
  <2> SUFFICES ASSUME ImagesInv, FileOfGraph, Finished, NEW entry \in componentsFile
               PROVE  entry = Ordered!ComponentVector(entry.ref)
    BY DEF OrderDoesNotMatter
  <2>1. entry.ref \in Refs /\ entry = ComponentVector(entry.ref)
    BY DEF FileOfGraph
  <2> HIDE DEF FileOfGraph
  <2> QED
    BY <2>1, SameEntry DEF ImagesInv, ResolverInv
<1> QED
  BY <1>2, <1>3, ImagesInvariant, PTL
=============================================================================
