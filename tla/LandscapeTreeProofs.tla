------------------------- MODULE LandscapeTreeProofs -------------------------
(***************************************************************************)
(* The lists of a landscape, for every tree of directories, every set of   *)
(* built-in and custom components in it, and any number of runs and edits. *)
(*                                                                         *)
(* The argument follows each list together with its default and with what  *)
(* the operator took out (Tracked): a list has what its default has and is *)
(* not parked, and nothing else but what the operator added.  A merge      *)
(* keeps this (MergedFile), and an edit does.  It then remains to know     *)
(* what the default is: Written says that the last to write the list of a  *)
(* directory wanted it to be R.  A component wrote its own before the walk *)
(* (ComponentsWritten); the walk wrote those of the directories that lead  *)
(* to components, where it has been (WalkedWritten).                       *)
(***************************************************************************)
EXTENDS LandscapeTree, TLAPS

\* A directory has one position.
LEMMA PositionType ==
    ASSUME NEW d \in Dirs
    PROVE  Position(d) \in DOMAIN Order /\ Order[Position(d)] = d
BY DEF Dirs, Position

\* A directory comes after its parent.
LEMMA ParentBefore ==
    ASSUME NEW d \in Dirs \ {Root}
    PROVE  Parent[d] \in Dirs /\ Position(Parent[d]) < Position(d)
<1> DEFINE i == Position(d)
<1>1. i \in DOMAIN Order /\ Order[i] = d
  BY PositionType
<1>2. i \in 2..Len(Order)
  BY <1>1, TreeAssumption
<1>3. PICK j \in 1..(i - 1) : Parent[d] = Order[j]
  BY <1>1, <1>2, TreeAssumption
<1>4. j \in DOMAIN Order /\ Parent[d] \in Dirs
  BY <1>1, <1>3, TreeAssumption DEF Dirs
<1>5. Position(Parent[d]) = j
  BY <1>3, <1>4, PositionType, TreeAssumption
<1> QED
  BY <1>2, <1>3, <1>4, <1>5

LEMMA RootIsThere == Root \in Dirs
BY TreeAssumption DEF Dirs

\* The path to a directory is the least set that has it and all parents.
LEMMA PathProperties ==
    ASSUME NEW d \in Dirs
    PROVE  /\ d \in PathTo[d] /\ PathTo[d] \in ClosedSets
           /\ \A S \in ClosedSets : d \in S => PathTo[d] \subseteq S
<1>1. PathTo[d] = {a \in Dirs : \A S \in ClosedSets : d \in S => a \in S}
  BY DEF PathTo
<1>2. ASSUME NEW a \in PathTo[d] \ {Root} PROVE Parent[a] \in PathTo[d]
  <2>1. a \in Dirs /\ Parent[a] \in Dirs
    BY <1>1, ParentBefore
  <2>2. \A S \in ClosedSets : d \in S => Parent[a] \in S
    BY <1>1 DEF ClosedSets
  <2> QED
    BY <1>1, <2>1, <2>2
<1> QED
  BY <1>1, <1>2 DEF ClosedSets

LEMMA PathOfMember ==
    ASSUME NEW d \in Dirs, NEW a \in PathTo[d]
    PROVE  a \in Dirs /\ PathTo[a] \subseteq PathTo[d]
<1>1. a \in Dirs
  BY PathProperties DEF ClosedSets
<1> QED
  BY <1>1, PathProperties

LEMMA PathOfParent ==
    ASSUME NEW d \in Dirs \ {Root}
    PROVE  PathTo[d] = {d} \cup PathTo[Parent[d]]
<1>1. Parent[d] \in Dirs
  BY ParentBefore
<1>2. {d} \cup PathTo[Parent[d]] \in ClosedSets
  BY <1>1, PathProperties DEF ClosedSets
<1>3. PathTo[d] \subseteq {d} \cup PathTo[Parent[d]]
  BY <1>2, PathProperties
<1>4. d \in PathTo[d] /\ Parent[d] \in PathTo[d]
  BY PathProperties DEF ClosedSets
<1> QED
  BY <1>3, <1>4, PathOfMember

LEMMA PathOfRoot == PathTo[Root] = {Root}
<1>1. {Root} \in ClosedSets
  BY RootIsThere DEF ClosedSets
<1> QED
  BY <1>1, RootIsThere, PathProperties

\* What is on the path to a directory comes before it.
LEMMA PathBefore ==
    ASSUME NEW d \in Dirs, NEW a \in PathTo[d]
    PROVE  Position(a) <= Position(d)
<1> DEFINE S == {b \in Dirs : Position(b) <= Position(d)}
<1>1. S \in ClosedSets
  <2> SUFFICES ASSUME NEW b \in S \ {Root} PROVE Parent[b] \in S
    BY DEF ClosedSets
  <2>1. Parent[b] \in Dirs /\ Position(Parent[b]) < Position(b) /\ Position(b) <= Position(d)
    BY ParentBefore
  <2>2. Position(Parent[b]) \in Int /\ Position(b) \in Int /\ Position(d) \in Int
    BY <2>1, PositionType, TreeAssumption
  <2> QED
    BY <2>1, <2>2
<1>2. d \in S
  BY PositionType, TreeAssumption
<1> QED
  BY <1>1, <1>2, PathProperties

-----------------------------------------------------------------------------
LEMMA ResourcesApart ==
    /\ Own # Base
    /\ \A d : Dir(d) \notin {Own, Base} /\ Flux(d) \notin {Own, Base}
    /\ \A d, e : Dir(d) # Flux(e) /\ (Dir(d) = Dir(e) => d = e) /\ (Flux(d) = Flux(e) => d = e)
BY DEF Own, Base, Dir, Flux

(***************************************************************************)
(* How a list k, the default f it was last merged with, and what the       *)
(* operator took out of it, belong together.                               *)
(***************************************************************************)
Tracked(k, f, taken) ==
    /\ taken \cap Resources(k) = {} /\ taken \subseteq Resources(f) /\ Own \notin Resources(f)
    /\ k = NoFile => taken = {}
    /\ k # NoFile =>
           /\ Resources(k) \subseteq Resources(f) \cup {Own}
           /\ Resources(f) \subseteq Resources(k) \cup taken
           /\ Lists(f) => Lists(k)

File == Kustomization \cup {NoFile}

LEMMA NewFile ==
    ASSUME NEW R \in SUBSET Resource
    PROVE  /\ NewKustomization(R) \in Kustomization /\ NewKustomization(R) # NoFile
           /\ Resources(NewKustomization(R)) = R /\ (Lists(NewKustomization(R)) <=> R # {})
<1>1. NewKustomization(R) \in Kustomization
  BY DEF NewKustomization, Kustomization
<1>2. NewKustomization(R) # NoFile
  BY <1>1, FileAssumption
<1>3. NewKustomization(R).lists = (R # {}) /\ NewKustomization(R).resources = R
  BY DEF NewKustomization
<1> QED
  BY <1>1, <1>2, <1>3 DEF Lists, Resources

LEMMA FileResources ==
    ASSUME NEW k \in File
    PROVE  Resources(k) \subseteq Resource /\ Lists(k) \in BOOLEAN
BY DEF File, Kustomization, Resources, Lists

LEMMA MergedFile ==
    ASSUME NEW old \in File, NEW current \in File, NEW R \in SUBSET (Resource \ {Own}),
           NEW taken, Tracked(current, old, taken), ~(current = NoFile /\ old # NoFile),
           NEW merged, merged = MergedKustomization(old, NewKustomization(R), current)
    PROVE  /\ merged \in Kustomization /\ merged # NoFile
           /\ Tracked(merged, NewKustomization(R), taken \cap R)
           /\ Own \in Resources(current) => Own \in Resources(merged) \/ (Lists(old) /\ R = {})
<1> DEFINE new == NewKustomization(R)
           lists == IF Lists(current) = Lists(old) THEN Lists(new) ELSE Lists(current)
           items == (Resources(current) \ (Resources(old) \ R)) \cup (R \ Resources(old))
<1>1. new \in Kustomization /\ new # NoFile /\ Resources(new) = R /\ (Lists(new) <=> R # {})
  BY NewFile
<1>2. /\ Resources(old) \subseteq Resource /\ Resources(current) \subseteq Resource
      /\ Lists(old) \in BOOLEAN /\ Lists(current) \in BOOLEAN /\ Lists(new) \in BOOLEAN
  <2>1. new \in File
    BY <1>1 DEF File
  <2> QED
    BY <2>1, FileResources
<1>3. merged = [lists |-> lists, resources |-> IF lists THEN items ELSE {}]
  BY <1>1 DEF MergedKustomization
<1>4. lists \in BOOLEAN /\ items \subseteq Resource
  BY <1>2
<1> HIDE DEF new, lists, items
<1>5. merged \in Kustomization
  BY <1>3, <1>4 DEF Kustomization
<1>6. merged # NoFile
  BY <1>5, FileAssumption
<1>7. /\ (Lists(merged) <=> lists)
      /\ Resources(merged) = IF lists THEN items ELSE {}
  BY <1>3, <1>6 DEF Lists, Resources
<1>8. (Lists(new) /\ ~lists => Lists(old) /\ ~Lists(current))
  BY <1>2 DEF lists
<1>9. /\ ~Lists(old) => Resources(old) = {}
      /\ ~Lists(current) => Resources(current) = {}
  BY DEF Resources
<1>10. ~(Lists(new) /\ ~lists)
  <2>1. old = NoFile => ~Lists(old)
    BY DEF Lists
  <2> QED
    BY <1>8, <2>1 DEF Tracked
<1>11. current = NoFile => Resources(current) = {} /\ Resources(old) = {} /\ taken = {}
  BY DEF Tracked, Resources, Lists
<1>12. Tracked(merged, new, taken \cap R)
  <2>1. (taken \cap R) \cap Resources(merged) = {}
    BY <1>7 DEF Tracked, items
  <2>2. Resources(merged) \subseteq R \cup {Own}
    BY <1>7, <1>11 DEF Tracked, items
  <2>3. R \subseteq Resources(merged) \cup (taken \cap R)
    <3> SUFFICES ASSUME NEW r \in R, r \notin taken
                 PROVE  r \in Resources(merged)
      OBVIOUS
    <3>1. lists
      BY <1>1, <1>10
    <3>2. r \in Resources(old) => r \in Resources(current)
      BY <1>11 DEF Tracked
    <3> QED
      BY <1>7, <3>1, <3>2 DEF items
  <2> QED
    BY <1>1, <1>6, <1>7, <1>10, <2>1, <2>2, <2>3 DEF Tracked
<1>13. Own \in Resources(current) => Own \in Resources(merged) \/ (Lists(old) /\ R = {})
  <2> SUFFICES ASSUME Own \in Resources(current), ~(Lists(old) /\ R = {})
               PROVE  Own \in Resources(merged)
    OBVIOUS
  <2>1. Lists(current)
    BY <1>9
  <2>2. lists
    BY <1>1, <1>2, <2>1 DEF lists
  <2>3. Own \in items
    BY DEF items, Tracked
  <2> QED
    BY <1>7, <2>2, <2>3
<1> QED
  BY <1>5, <1>6, <1>12, <1>13 DEF new

\* An entry is taken out of a list, or one of the operator's put in.
LEMMA EntryTakenOut ==
    ASSUME NEW k \in Kustomization, NEW f \in File, NEW taken, Tracked(k, f, taken),
           NEW e \in Resources(k) \cap Resources(f),
           NEW new, new = WithoutEntry(k, e)
    PROVE  /\ new \in Kustomization /\ Tracked(new, f, taken \cup {e})
           /\ Own \in Resources(k) => Own \in Resources(new)
<1>1. new \in Kustomization /\ new.lists = k.lists /\ new.resources = k.resources \ {e}
  BY DEF Kustomization, WithoutEntry
<1>2. k # NoFile /\ new # NoFile
  BY <1>1, FileAssumption
<1>3. k.lists
  BY DEF Resources, Lists
<1>4. Lists(new) /\ Lists(k) /\ Resources(new) = Resources(k) \ {e}
  BY <1>1, <1>2, <1>3 DEF Resources, Lists
<1>5. e # Own
  BY DEF Tracked
<1>6. Tracked(new, f, taken \cup {e})
  BY <1>2, <1>4 DEF Tracked
<1> QED
  BY <1>1, <1>4, <1>5, <1>6

LEMMA OwnEntryPutIn ==
    ASSUME NEW k \in File, NEW f \in File, NEW taken, Tracked(k, f, taken),
           NEW new, new = WithOwnEntry(k)
    PROVE  /\ new \in Kustomization /\ Own \in Resources(new)
           /\ Tracked(new, f, IF Lists(k) THEN taken ELSE Resources(f))
<1>1. {Own} \in SUBSET Resource
  BY DEF Resource
<1>2. CASE Lists(k)
  <2>1. k \in Kustomization /\ k.lists
    BY <1>2 DEF Lists, File
  <2>2. /\ new \in Kustomization /\ new.lists = k.lists
        /\ new.resources = k.resources \cup {Own}
    BY <1>1, <1>2, <2>1 DEF Kustomization, WithOwnEntry
  <2>3. k # NoFile /\ new # NoFile
    BY <2>1, <2>2, FileAssumption
  <2>4. Lists(new) /\ Resources(new) = Resources(k) \cup {Own}
    BY <2>1, <2>2, <2>3 DEF Resources, Lists
  <2> QED
    BY <1>2, <2>2, <2>3, <2>4 DEF Tracked
<1>3. CASE ~Lists(k)
  <2>1. /\ new \in Kustomization /\ new # NoFile /\ Resources(new) = {Own} /\ Lists(new)
    BY <1>1, <1>3, NewFile DEF WithOwnEntry
  <2>2. Resources(f) \cap Resources(new) = {}
    BY <2>1 DEF Tracked
  <2>3. Own \notin Resources(f)
    BY DEF Tracked
  <2> QED
    BY <1>3, <2>1, <2>2, <2>3 DEF Tracked
<1> QED
  BY <1>2, <1>3

-----------------------------------------------------------------------------
\* The default of a directory is to list R, and the list follows it, unless
\* the operator deleted it.
Written(d, R) ==
    \/ Deleted(d)
    \/ kustomization[d] # NoFile /\ kustomizationDefault[d] = NewKustomization(R)

FilesOK ==
    /\ kustomization \in [Dirs -> File] /\ kustomizationDefault \in [Dirs -> File]
    /\ parked \in [Dirs -> SUBSET Resource]
    /\ \A d \in Dirs : Tracked(kustomization[d], kustomizationDefault[d], parked[d])
    /\ OwnEntriesSurvive

TreeOK ==
    /\ dirs \subseteq Dirs /\ \A d \in dirs : PathTo[d] \subseteq dirs
    /\ flux \subseteq dirs /\ flux \subseteq Components \cup Customs
    /\ fluxDefault \subseteq Dirs
    /\ \A d \in Dirs : kustomization[d] # NoFile => d \in dirs
    /\ own \subseteq dirs

RunOK ==
    /\ step \in {"idle", "components", "walk", "complete"}
    /\ generated \subseteq Components
    /\ todo \subseteq generated \X {"flux-kustomization.yaml", "kustomization.yaml"}
    /\ pending \subseteq dirs /\ completedPaths \subseteq flux
    /\ edits \in 0..MaxEdits
    /\ step # "components" => todo = {}
    /\ step # "walk" => pending = {} /\ completedPaths = {}

\* The walk only writes the list of a component that has lost its Flux file.
ComponentsWritten ==
    \A c \in generated :
        /\ <<c, "kustomization.yaml">> \notin todo
        /\ step = "components" \/ c \in flux
        => Written(c, {Base})

\* The lists of the directories that lead to components are up to date
\* where the walk has been.
WalkedWritten ==
    step \in {"walk", "complete"} =>
        \A d \in dirs \ pending : Leads(d) => Written(d, Entries(d))

Inv == TreeOK /\ FilesOK /\ RunOK /\ ComponentsWritten /\ WalkedWritten

LEMMA FileOf ==
    ASSUME FilesOK, NEW d \in Dirs
    PROVE  /\ kustomization[d] \in File /\ kustomizationDefault[d] \in File
           /\ parked[d] \subseteq Resource
           /\ Tracked(kustomization[d], kustomizationDefault[d], parked[d])
BY DEF FilesOK

LEMMA WriteEffect ==
    ASSUME FilesOK, own \subseteq Dirs, NEW d \in Dirs, NEW R \in SUBSET (Resource \ {Own}),
           WriteKustomization(d, R)
    PROVE  /\ FilesOK' /\ own' \subseteq own
           /\ Written(d, R)'
           /\ \A e \in Dirs \ {d} :
                  /\ kustomization'[e] = kustomization[e]
                  /\ kustomizationDefault'[e] = kustomizationDefault[e]
           /\ kustomization'[d] = NoFile <=> Deleted(d)
<1>1. CASE Deleted(d)
  <2>1. UNCHANGED <<kustomization, kustomizationDefault, parked, own>>
    BY <1>1 DEF WriteKustomization
  <2>2. FilesOK'
    BY <2>1 DEF FilesOK, OwnEntriesSurvive
  <2> QED
    BY <1>1, <2>1, <2>2 DEF Written, Deleted
<1>2. CASE ~Deleted(d)
  <2> DEFINE k == kustomization[d]
             old == kustomizationDefault[d]
             new == NewKustomization(R)
             merged == MergedKustomization(old, new, k)
  <2>1. /\ kustomization' = [kustomization EXCEPT ![d] = merged]
        /\ kustomizationDefault' = [kustomizationDefault EXCEPT ![d] = new]
        /\ parked' = [parked EXCEPT ![d] = @ \cap R]
        /\ own' = IF Lists(old) /\ R = {} THEN own \ {d} ELSE own
    BY <1>2 DEF WriteKustomization
  <2>2. k \in File /\ old \in File /\ Tracked(k, old, parked[d]) /\ parked[d] \subseteq Resource
    BY FileOf
  <2>3. ~(k = NoFile /\ old # NoFile)
    BY <1>2 DEF Deleted
  <2>4. /\ merged \in Kustomization /\ merged # NoFile
        /\ Tracked(merged, new, parked[d] \cap R)
        /\ Own \in Resources(k) => Own \in Resources(merged) \/ (Lists(old) /\ R = {})
    BY <2>2, <2>3, MergedFile
  <2>5. new \in Kustomization /\ new # NoFile
    BY NewFile
  <2> HIDE DEF k, old, new, merged
  <2>6. /\ kustomization' \in [Dirs -> File] /\ kustomizationDefault' \in [Dirs -> File]
        /\ parked' \in [Dirs -> SUBSET Resource]
    BY <2>1, <2>2, <2>4, <2>5 DEF FilesOK, File
  <2>7. /\ kustomization'[d] = merged /\ kustomizationDefault'[d] = new
        /\ parked'[d] = parked[d] \cap R
        /\ \A e \in Dirs \ {d} : /\ kustomization'[e] = kustomization[e]
                                 /\ kustomizationDefault'[e] = kustomizationDefault[e]
                                 /\ parked'[e] = parked[e]
    BY <2>1 DEF FilesOK
  <2>8. \A e \in Dirs : Tracked(kustomization'[e], kustomizationDefault'[e], parked'[e])
    <3> TAKE e \in Dirs
    <3>1. CASE e = d
      BY <2>4, <2>7, <3>1
    <3>2. CASE e # d
      BY <2>7, <3>2, FileOf
    <3> QED
      BY <3>1, <3>2
  <2>9. OwnEntriesSurvive'
    <3> SUFFICES ASSUME NEW e \in own' PROVE Own \in Resources(kustomization'[e])
      BY DEF OwnEntriesSurvive
    <3>1. e \in own /\ e \in Dirs /\ Own \in Resources(kustomization[e])
      BY <2>1 DEF FilesOK, OwnEntriesSurvive
    <3>2. CASE e = d
      BY <2>1, <2>4, <2>7, <3>1, <3>2 DEF k
    <3>3. CASE e # d
      BY <2>7, <3>1, <3>3
    <3> QED
      BY <3>2, <3>3
  <2>10. Written(d, R)'
    BY <2>4, <2>7 DEF Written, new
  <2>11. own' \subseteq own
    BY <2>1
  <2>12. kustomization'[d] # NoFile
    BY <2>4, <2>7
  <2> QED
    BY <1>2, <2>6, <2>7, <2>8, <2>9, <2>10, <2>11, <2>12 DEF FilesOK
<1> QED
  BY <1>1, <1>2

-----------------------------------------------------------------------------
LEMMA InitInv == Init => Inv
<1> SUFFICES ASSUME Init PROVE Inv
  OBVIOUS
<1> USE DEF Init
<1>1. TreeOK
  BY RootIsThere, PathOfRoot DEF TreeOK
<1>2. FilesOK
  <2>1. Resources(NoFile) = {} /\ NoFile \in File /\ ~Lists(NoFile)
    BY DEF Resources, Lists, File
  <2> QED
    BY <2>1 DEF FilesOK, OwnEntriesSurvive, Tracked
<1>3. RunOK
  BY TreeAssumption DEF RunOK
<1> QED
  BY <1>1, <1>2, <1>3 DEF Inv, ComponentsWritten, WalkedWritten

LEMMA FilesUnchanged ==
    ASSUME FilesOK, UNCHANGED <<kustomization, kustomizationDefault, parked, own>>
    PROVE  FilesOK'
BY DEF FilesOK, OwnEntriesSurvive

LEMMA StartKeeps == ASSUME Inv, Start PROVE Inv'
<1>1. TreeOK'
  BY DEF Inv, Start, TreeOK, files, operator
<1>2. FilesOK'
  BY FilesUnchanged DEF Inv, Start, files, operator
<1>3. RunOK'
  BY DEF Inv, Start, Idle, RunOK, files, operator
<1>4. ComponentsWritten'
  BY DEF Start, ComponentsWritten
<1>5. WalkedWritten'
  BY DEF Start, WalkedWritten
<1> QED
  BY <1>1, <1>2, <1>3, <1>4, <1>5 DEF Inv

LEMMA RenderKeeps == ASSUME Inv, RenderCustomComponents PROVE Inv'
<1> USE DEF Inv, RenderCustomComponents, operator
<1>1. TreeOK'
  BY DEF TreeOK
<1>2. FilesOK'
  BY FilesUnchanged
<1>3. RunOK'
  BY DEF RunOK
<1>4. ComponentsWritten'
  BY DEF ComponentsWritten, Written, Deleted
<1>5. WalkedWritten'
  BY DEF WalkedWritten
<1> QED
  BY <1>1, <1>2, <1>3, <1>4, <1>5

LEMMA FinishKeeps == ASSUME Inv, Finish PROVE Inv'
<1> USE DEF Inv, Finish, files, operator
<1>1. TreeOK'
  BY DEF TreeOK
<1>2. FilesOK'
  BY FilesUnchanged
<1>3. RunOK'
  BY DEF RunOK
<1>4. ComponentsWritten'
  BY DEF ComponentsWritten, Written, Deleted
<1>5. WalkedWritten'
  BY DEF WalkedWritten, Written, Deleted, Leads, BelowComponent, Entries, Children
<1> QED
  BY <1>1, <1>2, <1>3, <1>4, <1>5

LEMMA StopKeeps == ASSUME Inv, Stop PROVE Inv'
<1> USE DEF Inv, Stop, files, operator
<1>1. TreeOK'
  BY DEF TreeOK
<1>2. FilesOK'
  BY FilesUnchanged
<1>3. RunOK'
  BY DEF RunOK
<1> QED
  BY <1>1, <1>2, <1>3 DEF ComponentsWritten, WalkedWritten

LEMMA BaseIsAResource == {Base} \in SUBSET (Resource \ {Own})
BY ResourcesApart DEF Resource

LEMMA WriteComponentFileKeeps ==
    ASSUME Inv, NEW c \in Components,
           NEW file \in {"flux-kustomization.yaml", "kustomization.yaml"},
           WriteComponentFile(c, file)
    PROVE  Inv'
<1> USE DEF Inv
<1>1. /\ step = "components" /\ step' = step /\ c \in Dirs /\ c \in generated
      /\ generated' = generated /\ pending' = {} /\ completedPaths' = {}
      /\ todo' = todo \ {<<c, file>>} /\ edits' = edits
      /\ dirs' = dirs \cup PathTo[c] /\ own \subseteq Dirs
  BY TreeAssumption DEF WriteComponentFile, RunOK, TreeOK
<1>2. /\ dirs' \subseteq Dirs /\ c \in dirs'
      /\ \A d \in dirs' : PathTo[d] \subseteq dirs'
  BY <1>1, PathProperties, PathOfMember DEF TreeOK
<1>3. RunOK'
  BY <1>1 DEF RunOK
<1>4. WalkedWritten'
  BY <1>1 DEF WalkedWritten
<1>5. CASE file = "kustomization.yaml"
  <2>1. WriteKustomization(c, {Base}) /\ UNCHANGED <<flux, fluxDefault>>
    BY <1>5 DEF WriteComponentFile
  <2>2. /\ FilesOK' /\ own' \subseteq own
        /\ Written(c, {Base})'
        /\ \A e \in Dirs \ {c} :
               /\ kustomization'[e] = kustomization[e]
               /\ kustomizationDefault'[e] = kustomizationDefault[e]
        /\ kustomization'[c] = NoFile <=> Deleted(c)
    BY <1>1, <2>1, WriteEffect, BaseIsAResource
  <2>3. TreeOK'
    BY <1>1, <1>2, <2>1, <2>2 DEF TreeOK
  <2>4. ComponentsWritten'
    <3> SUFFICES ASSUME NEW b \in generated', <<b, "kustomization.yaml">> \notin todo'
                 PROVE  Written(b, {Base})'
      BY DEF ComponentsWritten
    <3>1. CASE b = c
      BY <2>2, <3>1
    <3>2. CASE b # c
      <4>1. b \in Dirs /\ <<b, "kustomization.yaml">> \notin todo
        BY <1>1, <3>2, TreeAssumption DEF RunOK
      <4>2. Written(b, {Base})
        BY <1>1, <4>1 DEF ComponentsWritten
      <4> QED
        BY <2>2, <3>2, <4>1, <4>2 DEF Written, Deleted
    <3> QED
      BY <3>1, <3>2
  <2> QED
    BY <1>3, <1>4, <2>2, <2>3, <2>4
<1>6. CASE file # "kustomization.yaml"
  <2>1. /\ UNCHANGED <<kustomization, kustomizationDefault, parked, own>>
        /\ flux' \subseteq flux \cup {c} /\ fluxDefault' \subseteq fluxDefault \cup {c}
    BY <1>6 DEF WriteComponentFile
  <2>2. TreeOK'
    BY <1>1, <1>2, <2>1 DEF TreeOK
  <2>3. FilesOK'
    BY <2>1, FilesUnchanged
  <2>4. ComponentsWritten'
    BY <1>1, <1>6, <2>1 DEF ComponentsWritten, Written, Deleted
  <2> QED
    BY <1>3, <1>4, <2>2, <2>3, <2>4
<1> QED
  BY <1>5, <1>6

LEMMA EntriesAreResources ==
    ASSUME dirs \subseteq Dirs, NEW d
    PROVE  directories(d) \in SUBSET (Resource \ {Own}) /\ directories(d) = Entries(d)
BY ResourcesApart DEF directories, Entries, Children, Resource

\* What is below a completed path does not lead to components.
LEMMA CompletedLeadsNowhere ==
    ASSUME TreeOK, completedPaths \subseteq flux, NEW d \in Dirs, isCompleted(d)
    PROVE  ~Leads(d)
<1>1. d \in Dirs \ {Root} /\ Parent[d] \in flux
  BY DEF isCompleted
<1>2. Parent[d] \in PathTo[d] /\ Parent[d] # d
  <2>1. PathTo[d] = {d} \cup PathTo[Parent[d]] /\ Parent[d] \in Dirs
    BY <1>1, PathOfParent, ParentBefore
  <2>2. Parent[d] \in PathTo[Parent[d]]
    BY <2>1, PathProperties
  <2>3. Position(Parent[d]) < Position(d) /\ Position(d) \in Int
    BY <1>1, ParentBefore, PositionType, TreeAssumption
  <2> QED
    BY <2>1, <2>2, <2>3
<1> QED
  BY <1>1, <1>2 DEF Leads, BelowComponent

\* What the visit of a directory does to the files.
LEMMA VisitEffect ==
    ASSUME Inv, NEW d \in Dirs, Visit(d)
    PROVE  /\ FilesOK' /\ own' \subseteq own
           /\ Leads(d) => Written(d, Entries(d))'
           /\ \A e \in Dirs : e # d \/ d \in flux =>
                  /\ kustomization'[e] = kustomization[e]
                  /\ kustomizationDefault'[e] = kustomizationDefault[e]
           /\ kustomization'[d] # NoFile => d \in dirs
           /\ completedPaths' \subseteq flux
<1> USE DEF Inv
<1>1. d \in dirs /\ dirs \subseteq Dirs /\ own \subseteq Dirs /\ completedPaths \subseteq flux
  BY DEF Visit, RunOK, TreeOK
<1>2. Entries(d)' = Entries(d)
  BY DEF Visit, Entries, Children
<1>3. CASE isCompleted(d)
  <2>1. UNCHANGED <<kustomization, kustomizationDefault, parked, own, completedPaths>>
    BY <1>3 DEF Visit
  <2> QED
    BY <1>1, <1>3, <2>1, FilesUnchanged, CompletedLeadsNowhere
<1>4. CASE ~isCompleted(d) /\ d \in flux
  <2>1. UNCHANGED <<kustomization, kustomizationDefault, parked, own>> /\ MarkCompleted(d)
    BY <1>4 DEF Visit
  <2> QED
    BY <1>1, <1>4, <2>1, FilesUnchanged DEF Leads, MarkCompleted
<1>5. CASE ~isCompleted(d) /\ d \notin flux
  <2> PICK R : R = directories(d)
    OBVIOUS
  <2>1. WriteKustomization(d, R) /\ MarkCompleted(d)
    BY <1>5 DEF Visit
  <2>2. /\ FilesOK' /\ own' \subseteq own
        /\ Written(d, R)'
        /\ \A e \in Dirs \ {d} :
               /\ kustomization'[e] = kustomization[e]
               /\ kustomizationDefault'[e] = kustomizationDefault[e]
    BY <1>1, <2>1, EntriesAreResources, WriteEffect
  <2>3. R = Entries(d)'
    BY <1>2 DEF directories
  <2>4. Written(d, Entries(d))'
    BY <2>2, <2>3 DEF Written
  <2> QED
    BY <1>1, <1>5, <2>1, <2>2, <2>4 DEF MarkCompleted
<1> QED
  BY <1>3, <1>4, <1>5

LEMMA VisitKeeps == ASSUME Inv, NEW d \in Dirs, Visit(d) PROVE Inv'
<1> USE DEF Inv
<1>1. /\ FilesOK' /\ own' \subseteq own
      /\ Leads(d) => Written(d, Entries(d))'
      /\ \A e \in Dirs : e # d \/ d \in flux =>
             /\ kustomization'[e] = kustomization[e]
             /\ kustomizationDefault'[e] = kustomizationDefault[e]
      /\ kustomization'[d] # NoFile => d \in dirs
      /\ completedPaths' \subseteq flux
  BY VisitEffect
<1>2. /\ step = "walk" /\ pending' = pending \ {d}
      /\ UNCHANGED <<dirs, flux, fluxDefault, step, generated, todo, edits>>
  BY DEF Visit
<1>3. TreeOK'
  BY <1>1, <1>2 DEF TreeOK
<1>4. RunOK'
  BY <1>1, <1>2 DEF RunOK
<1>5. ComponentsWritten'
  <2> SUFFICES ASSUME NEW c \in generated, c \in flux PROVE Written(c, {Base})'
    BY <1>2 DEF ComponentsWritten
  <2>1. <<c, "kustomization.yaml">> \notin todo /\ c \in Dirs
    BY <1>2, TreeAssumption DEF RunOK
  <2>2. Written(c, {Base})
    BY <2>1 DEF ComponentsWritten
  <2> QED
    BY <1>1, <2>1, <2>2 DEF Written, Deleted
<1>6. WalkedWritten'
  <2> SUFFICES ASSUME NEW e \in dirs \ pending', Leads(e) PROVE Written(e, Entries(e))'
    BY <1>2 DEF WalkedWritten, Leads, BelowComponent
  <2>1. CASE e = d
    BY <1>1, <2>1
  <2>2. CASE e # d
    <3>1. e \in dirs \ pending /\ e \in Dirs
      BY <1>2, <2>2 DEF TreeOK
    <3>2. Written(e, Entries(e))
      BY <1>2, <3>1 DEF WalkedWritten
    <3>3. Entries(e)' = Entries(e)
      BY <1>2 DEF Entries, Children
    <3> QED
      BY <1>1, <2>2, <3>1, <3>2, <3>3 DEF Written, Deleted
  <2> QED
    BY <2>1, <2>2
<1> QED
  BY <1>1, <1>3, <1>4, <1>5, <1>6

-----------------------------------------------------------------------------
\* An edit ends what is known of the last run.
LEMMA EditEnds ==
    ASSUME Inv, Edit
    PROVE  RunOK' /\ ComponentsWritten' /\ WalkedWritten'
<1>1. RunOK'
  BY TreeAssumption DEF Inv, Edit, Idle, RunOK
<1> QED
  BY <1>1 DEF Edit, ComponentsWritten, WalkedWritten

LEMMA MakeDirectoryKeeps == ASSUME Inv, NEW d \in Dirs, MakeDirectory(d) PROVE Inv'
<1> USE DEF Inv
<1>1. RunOK' /\ ComponentsWritten' /\ WalkedWritten'
  BY EditEnds DEF MakeDirectory
<1>2. dirs' = dirs \cup {d} /\ d # Root /\ Parent[d] \in dirs
  BY DEF MakeDirectory
<1>3. PathTo[d] \subseteq dirs'
  BY <1>2, PathOfParent DEF TreeOK
<1>4. TreeOK'
  BY <1>2, <1>3 DEF MakeDirectory, TreeOK, files
<1>5. FilesOK'
  BY FilesUnchanged DEF MakeDirectory, files
<1> QED
  BY <1>1, <1>4, <1>5

LEMMA RemoveDirectoryKeeps == ASSUME Inv, NEW d \in Dirs, RemoveDirectory(d) PROVE Inv'
<1> USE DEF Inv
<1> DEFINE gone == {s \in dirs : d \in PathTo[s]}
<1>1. RunOK' /\ ComponentsWritten' /\ WalkedWritten'
  BY EditEnds DEF RemoveDirectory
<1>2. /\ dirs' = dirs \ gone /\ flux' = flux \ gone /\ own' = own \ gone
      /\ kustomization' = [s \in Dirs |-> IF s \in gone THEN NoFile ELSE kustomization[s]]
      /\ parked' = [s \in Dirs |-> IF s \in gone THEN {} ELSE parked[s]]
      /\ UNCHANGED <<fluxDefault, kustomizationDefault>>
  BY DEF RemoveDirectory
<1>3. \A s \in dirs' : PathTo[s] \subseteq dirs'
  <2> SUFFICES ASSUME NEW s \in dirs', NEW a \in PathTo[s] PROVE a \notin gone
    BY <1>2 DEF TreeOK
  <2>1. s \in Dirs /\ d \notin PathTo[s]
    BY <1>2 DEF TreeOK
  <2>2. PathTo[a] \subseteq PathTo[s]
    BY <2>1, PathOfMember
  <2> QED
    BY <2>1, <2>2
<1> HIDE DEF gone
<1>4. TreeOK'
  BY <1>2, <1>3 DEF TreeOK
<1>5. FilesOK'
  <2>1. /\ kustomization' \in [Dirs -> File] /\ kustomizationDefault' \in [Dirs -> File]
        /\ parked' \in [Dirs -> SUBSET Resource]
    BY <1>2 DEF FilesOK, File
  <2>2. \A s \in Dirs : Tracked(kustomization'[s], kustomizationDefault'[s], parked'[s])
    <3> TAKE s \in Dirs
    <3>1. Tracked(kustomization[s], kustomizationDefault[s], parked[s])
      BY FileOf
    <3>2. CASE s \in gone
      <4>1. kustomization'[s] = NoFile /\ parked'[s] = {}
        BY <1>2, <3>2
      <4> QED
        BY <1>2, <3>1, <4>1 DEF Tracked
    <3>3. CASE s \notin gone
      BY <1>2, <3>1, <3>3
    <3> QED
      BY <3>2, <3>3
  <2>3. OwnEntriesSurvive'
    BY <1>2 DEF TreeOK, FilesOK, OwnEntriesSurvive
  <2> QED
    BY <2>1, <2>2, <2>3 DEF FilesOK
<1> QED
  BY <1>1, <1>4, <1>5

LEMMA DeleteFluxKustomizationKeeps ==
    ASSUME Inv, NEW d \in Dirs, DeleteFluxKustomization(d)
    PROVE  Inv'
<1> USE DEF Inv, DeleteFluxKustomization
<1>1. RunOK' /\ ComponentsWritten' /\ WalkedWritten'
  BY EditEnds
<1>2. TreeOK'
  BY DEF TreeOK
<1>3. FilesOK'
  BY FilesUnchanged
<1> QED
  BY <1>1, <1>2, <1>3

\* Only the files of one directory change.
LEMMA OneChanged ==
    ASSUME FilesOK, own \subseteq Dirs, NEW d \in Dirs,
           kustomization' \in [Dirs -> File], kustomizationDefault' \in [Dirs -> File],
           parked' \in [Dirs -> SUBSET Resource],
           \A e \in Dirs \ {d} : /\ kustomization'[e] = kustomization[e]
                                 /\ kustomizationDefault'[e] = kustomizationDefault[e]
                                 /\ parked'[e] = parked[e],
           Tracked(kustomization'[d], kustomizationDefault'[d], parked'[d]),
           own' \ {d} \subseteq own,
           d \in own' => Own \in Resources(kustomization'[d])
    PROVE  FilesOK'
<1>1. \A e \in Dirs : Tracked(kustomization'[e], kustomizationDefault'[e], parked'[e])
  <2> TAKE e \in Dirs
  <2>1. Tracked(kustomization[e], kustomizationDefault[e], parked[e])
    BY FileOf
  <2> QED
    BY <2>1
<1>2. OwnEntriesSurvive'
  BY DEF FilesOK, OwnEntriesSurvive
<1> QED
  BY <1>1, <1>2 DEF FilesOK

LEMMA DeleteKustomizationKeeps ==
    ASSUME Inv, NEW d \in Dirs, DeleteKustomization(d)
    PROVE  Inv'
<1> USE DEF Inv
<1>1. RunOK' /\ ComponentsWritten' /\ WalkedWritten'
  BY EditEnds DEF DeleteKustomization
<1>2. /\ kustomization' = [kustomization EXCEPT ![d] = NoFile]
      /\ parked' = [parked EXCEPT ![d] = {}] /\ own' = own \ {d}
      /\ UNCHANGED <<dirs, flux, fluxDefault, kustomizationDefault>>
  BY DEF DeleteKustomization
<1>3. TreeOK'
  BY <1>2 DEF TreeOK, FilesOK
<1>4. FilesOK'
  <2>1. /\ kustomization' \in [Dirs -> File] /\ kustomizationDefault' \in [Dirs -> File]
        /\ parked' \in [Dirs -> SUBSET Resource]
        /\ kustomization'[d] = NoFile /\ parked'[d] = {}
        /\ \A e \in Dirs \ {d} : /\ kustomization'[e] = kustomization[e]
                                 /\ kustomizationDefault'[e] = kustomizationDefault[e]
                                 /\ parked'[e] = parked[e]
    BY <1>2 DEF FilesOK, File
  <2>2. Tracked(kustomization'[d], kustomizationDefault'[d], parked'[d])
    <3>1. Tracked(kustomization[d], kustomizationDefault[d], parked[d])
      BY FileOf
    <3> QED
      BY <1>2, <2>1, <3>1 DEF Tracked
  <2> QED
    BY <1>2, <2>1, <2>2, OneChanged DEF TreeOK
<1> QED
  BY <1>1, <1>3, <1>4

LEMMA DeleteDefaultKeeps == ASSUME Inv, NEW d \in Dirs, DeleteDefault(d) PROVE Inv'
<1> USE DEF Inv
<1>1. RunOK' /\ ComponentsWritten' /\ WalkedWritten'
  BY EditEnds DEF DeleteDefault
<1>2. TreeOK'
  BY DEF DeleteDefault, TreeOK
<1>3. CASE UNCHANGED kustomizationDefault
  BY <1>1, <1>2, <1>3, FilesUnchanged DEF DeleteDefault
<1>4. CASE Deleted(d) /\ kustomizationDefault' = [kustomizationDefault EXCEPT ![d] = NoFile]
  <2>1. UNCHANGED <<kustomization, parked, own>>
    BY DEF DeleteDefault
  <2>2. /\ kustomizationDefault' \in [Dirs -> File] /\ kustomizationDefault'[d] = NoFile
        /\ \A e \in Dirs \ {d} : kustomizationDefault'[e] = kustomizationDefault[e]
    BY <1>4 DEF FilesOK, File
  <2>3. Tracked(kustomization[d], kustomizationDefault[d], parked[d]) /\ kustomization[d] = NoFile
    BY <1>4, FileOf DEF Deleted
  <2>4. Tracked(kustomization'[d], kustomizationDefault'[d], parked'[d])
    BY <2>1, <2>2, <2>3 DEF Tracked, Resources, Lists
  <2>5. d \notin own
    BY <2>3 DEF FilesOK, OwnEntriesSurvive, Resources, Lists
  <2>6. FilesOK'
    BY <2>1, <2>2, <2>4, <2>5, OneChanged DEF TreeOK, FilesOK
  <2> QED
    BY <1>1, <1>2, <2>6
<1> QED
  BY <1>1, <1>2, <1>3, <1>4 DEF DeleteDefault

LEMMA ParkEntryKeeps == ASSUME Inv, NEW d \in Dirs, ParkEntry(d) PROVE Inv'
<1> USE DEF Inv
<1>1. RunOK' /\ ComponentsWritten' /\ WalkedWritten'
  BY EditEnds DEF ParkEntry
<1>2. PICK e \in Resources(kustomization[d]) \cap Resources(kustomizationDefault[d]) :
          /\ kustomization' = [kustomization EXCEPT ![d] = WithoutEntry(@, e)]
          /\ parked' = [parked EXCEPT ![d] = @ \cup {e}]
  BY DEF ParkEntry
<1>3. /\ UNCHANGED <<dirs, flux, fluxDefault, kustomizationDefault, own>>
      /\ kustomization[d] # NoFile
  BY DEF ParkEntry
<1>4. /\ kustomization[d] \in Kustomization /\ kustomizationDefault[d] \in File
      /\ Tracked(kustomization[d], kustomizationDefault[d], parked[d])
      /\ e \in Resource /\ parked[d] \subseteq Resource
  BY <1>3, FileOf, FileResources DEF File
<1>5. PICK new : new = WithoutEntry(kustomization[d], e)
  OBVIOUS
<1>6. /\ new \in Kustomization
      /\ Tracked(new, kustomizationDefault[d], parked[d] \cup {e})
      /\ Own \in Resources(kustomization[d]) => Own \in Resources(new)
  BY <1>2, <1>4, <1>5, EntryTakenOut
<1>7. kustomization' = [kustomization EXCEPT ![d] = new]
  BY <1>2, <1>5
<1>8. /\ kustomization' \in [Dirs -> File] /\ kustomization'[d] = new
      /\ \A s \in Dirs \ {d} : kustomization'[s] = kustomization[s]
  BY <1>6, <1>7 DEF FilesOK, File
<1>9. /\ parked' \in [Dirs -> SUBSET Resource] /\ parked'[d] = parked[d] \cup {e}
      /\ \A s \in Dirs \ {d} : parked'[s] = parked[s]
  BY <1>2, <1>4 DEF FilesOK
<1>10. d \in own => Own \in Resources(new)
  BY <1>6 DEF FilesOK, OwnEntriesSurvive
<1>11. FilesOK'
  BY <1>3, <1>6, <1>8, <1>9, <1>10, OneChanged DEF FilesOK, TreeOK
<1>12. TreeOK'
  BY <1>3, <1>8 DEF TreeOK
<1> QED
  BY <1>1, <1>11, <1>12

LEMMA AddOwnEntryKeeps == ASSUME Inv, NEW d \in Dirs, AddOwnEntry(d) PROVE Inv'
<1> USE DEF Inv
<1>1. RunOK' /\ ComponentsWritten' /\ WalkedWritten'
  BY EditEnds DEF AddOwnEntry
<1>2. PICK new : new = WithOwnEntry(kustomization[d])
  OBVIOUS
<1>3. PICK taken : taken = IF Lists(kustomization[d]) THEN parked[d]
                           ELSE Resources(kustomizationDefault[d])
  OBVIOUS
<1>4. /\ d \in dirs /\ own' = own \cup {d}
      /\ UNCHANGED <<dirs, flux, fluxDefault, kustomizationDefault>>
  BY DEF AddOwnEntry
<1>5. kustomization' = [kustomization EXCEPT ![d] = new]
  BY <1>2 DEF AddOwnEntry
<1>6. /\ kustomization[d] \in File /\ kustomizationDefault[d] \in File
      /\ Tracked(kustomization[d], kustomizationDefault[d], parked[d])
      /\ taken \subseteq Resource
  BY <1>3, FileOf, FileResources
<1>7. /\ new \in Kustomization /\ Own \in Resources(new)
      /\ Tracked(new, kustomizationDefault[d], taken)
  BY <1>2, <1>3, <1>6, OwnEntryPutIn
<1>8. /\ kustomization' \in [Dirs -> File] /\ kustomization'[d] = new
      /\ \A s \in Dirs \ {d} : kustomization'[s] = kustomization[s]
  BY <1>5, <1>7 DEF FilesOK, File
<1>9. /\ parked' \in [Dirs -> SUBSET Resource] /\ parked'[d] = taken
      /\ \A s \in Dirs \ {d} : parked'[s] = parked[s]
  BY <1>3, <1>6 DEF FilesOK, AddOwnEntry
<1>10. FilesOK'
  BY <1>4, <1>7, <1>8, <1>9, OneChanged DEF FilesOK, TreeOK
<1>11. TreeOK'
  BY <1>4, <1>8 DEF TreeOK
<1> QED
  BY <1>1, <1>10, <1>11

LEMMA NextKeeps == Inv /\ [Next]_vars => Inv'
<1> SUFFICES ASSUME Inv, [Next]_vars PROVE Inv'
  OBVIOUS
<1>1. CASE UNCHANGED vars
  <2> USE <1>1 DEF Inv, vars, files, run, operator
  <2>1. TreeOK'
    BY DEF TreeOK
  <2>2. FilesOK'
    BY FilesUnchanged
  <2>3. RunOK'
    BY DEF RunOK
  <2>4. ComponentsWritten'
    BY DEF ComponentsWritten, Written, Deleted
  <2>5. WalkedWritten'
    BY DEF WalkedWritten, Written, Deleted, Leads, BelowComponent, Entries, Children
  <2> QED
    BY <2>1, <2>2, <2>3, <2>4, <2>5
<1>2. CASE Next
  <2>1. CASE Start \/ RenderCustomComponents \/ Finish \/ Stop
    BY <2>1, StartKeeps, RenderKeeps, FinishKeeps, StopKeeps
  <2>2. ASSUME NEW c \in Components,
               NEW file \in {"flux-kustomization.yaml", "kustomization.yaml"},
               WriteComponentFile(c, file)
        PROVE  Inv'
    BY <2>2, WriteComponentFileKeeps
  <2>3. ASSUME NEW d \in Dirs,
               \/ Visit(d)
               \/ MakeDirectory(d) \/ RemoveDirectory(d)
               \/ DeleteFluxKustomization(d) \/ DeleteKustomization(d) \/ DeleteDefault(d)
               \/ ParkEntry(d) \/ AddOwnEntry(d)
        PROVE  Inv'
    BY <2>3, VisitKeeps, MakeDirectoryKeeps, RemoveDirectoryKeeps,
       DeleteFluxKustomizationKeeps, DeleteKustomizationKeeps, DeleteDefaultKeeps,
       ParkEntryKeeps, AddOwnEntryKeeps
  <2> QED
    BY <1>2, <2>1, <2>2, <2>3 DEF Next
<1> QED
  BY <1>1, <1>2

LEMMA Invariance == Spec => []Inv
<1> QED
  BY InitInv, NextKeeps, PTL DEF Spec

(***************************************************************************)
(* The directories stay a tree, every Flux file and list is in a directory *)
(* that is there, and nothing that is parked is in its list.               *)
(***************************************************************************)
THEOREM TypesHold == Spec => []TypeOK
<1>1. Inv => TypeOK
  BY DEF Inv, TreeOK, FilesOK, RunOK, TypeOK, File, Tracked
<1> QED
  BY <1>1, Invariance, PTL

(***************************************************************************)
(* No run loses an entry of the operator's, unless the default loses its   *)
(* list: neither the component that writes its file, nor the walk, nor     *)
(* both in turn (WriteObjectsToFilesystem in files.go).                    *)
(***************************************************************************)
THEOREM OperatorsKeepTheirEntries == Spec => []OwnEntriesSurvive
<1>1. Inv => OwnEntriesSurvive
  BY DEF Inv, FilesOK
<1> QED
  BY <1>1, Invariance, PTL

\* What is to be listed in a directory is, or has been taken out by hand.
LEMMA ListedOrParked ==
    ASSUME FilesOK, NEW d \in Dirs, NEW R \in SUBSET Resource, Written(d, R)
    PROVE  /\ Deleted(d) \/ R \subseteq Resources(kustomization[d]) \cup parked[d]
           /\ Resources(kustomization[d]) \subseteq R \cup {Own}
<1>1. Tracked(kustomization[d], kustomizationDefault[d], parked[d])
  BY FileOf
<1>2. CASE Deleted(d)
  BY <1>2 DEF Deleted, Resources, Lists
<1>3. CASE ~Deleted(d)
  <2>1. kustomization[d] # NoFile /\ Resources(kustomizationDefault[d]) = R
    BY <1>3, NewFile DEF Written
  <2> QED
    BY <1>1, <2>1 DEF Tracked
<1> QED
  BY <1>2, <1>3

(***************************************************************************)
(* The lists of components are their own again after a complete run, even  *)
(* where the walk of an earlier run took the directory for one that only   *)
(* leads to components.                                                    *)
(***************************************************************************)
THEOREM ComponentsStayTheirs == Spec => []ComponentsKeepTheirs
<1>1. ASSUME Inv, step = "complete", NEW c \in generated \cap flux
      PROVE  Base \in Resources(kustomization[c]) \cup parked[c] \/ Deleted(c)
  <2>1. todo = {} /\ c \in Dirs
    BY <1>1 DEF Inv, RunOK, TreeOK
  <2>2. Written(c, {Base})
    BY <1>1, <2>1 DEF Inv, ComponentsWritten
  <2>3. Deleted(c) \/ {Base} \subseteq Resources(kustomization[c]) \cup parked[c]
    BY <1>1, <2>1, <2>2, ListedOrParked, BaseIsAResource DEF Inv
  <2> QED
    BY <2>3
<1>2. Inv => ComponentsKeepTheirs
  BY <1>1 DEF ComponentsKeepTheirs
<1> QED
  BY <1>2, Invariance, PTL

\* The directories on the way to a component that is not below another lead
\* to components themselves.
LEMMA WayLeads ==
    ASSUME TreeOK, NEW c \in flux, ~BelowComponent(c), NEW s \in PathTo[c] \ {Root}
    PROVE  /\ s \in dirs /\ Parent[s] \in dirs /\ s \in Children(Parent[s])
           /\ Leads(Parent[s])
<1>1. c \in Dirs /\ PathTo[c] \subseteq dirs /\ dirs \subseteq Dirs
  BY DEF TreeOK
<1> PICK p : p = Parent[s]
  OBVIOUS
<1>2. s \in Dirs \ {Root} /\ p \in Dirs /\ p \in PathTo[c]
  <2>1. s \in Dirs \ {Root}
    BY <1>1
  <2>2. PathTo[c] \in ClosedSets
    BY <1>1, PathProperties
  <2> QED
    BY <2>1, <2>2, ParentBefore DEF ClosedSets
<1>3. \A a \in PathTo[p] : a \in PathTo[c] /\ a # c
  <2> TAKE a \in PathTo[p]
  <2>1. a \in Dirs /\ a \in PathTo[c]
    BY <1>1, <1>2, PathOfMember
  <2>2. Position(a) <= Position(p)
    BY <1>2, PathBefore
  <2>3. Position(p) < Position(s)
    BY <1>2, ParentBefore
  <2>4. Position(s) <= Position(c)
    BY <1>1, PathBefore
  <2>5. /\ Position(a) \in Int /\ Position(p) \in Int /\ Position(s) \in Int
        /\ Position(c) \in Int
    BY <1>1, <1>2, <2>1, PositionType, TreeAssumption
  <2> QED
    BY <2>1, <2>2, <2>3, <2>4, <2>5
<1>4. p \in PathTo[p]
  BY <1>2, PathProperties
<1>5. Leads(p)
  BY <1>3, <1>4 DEF Leads, BelowComponent
<1> QED
  BY <1>1, <1>2, <1>5 DEF Children

\* As do those directly in one that does, unless they are components.
LEMMA ChildLeads ==
    ASSUME TreeOK, NEW d \in Dirs, Leads(d), NEW s \in Children(d), s \notin flux
    PROVE  Leads(s)
<1>1. s \in Dirs \ {Root} /\ Parent[s] = d
  BY DEF Children, TreeOK
<1>2. PathTo[s] = {s} \cup PathTo[d]
  BY <1>1, PathOfParent
<1> QED
  BY <1>2 DEF Leads, BelowComponent

LEMMA CompleteRunMatches ==
    ASSUME Inv, step = "complete"
    PROVE  EveryComponentIsFound /\ NothingDangles
<1> USE DEF Inv
<1>1. dirs \subseteq Dirs /\ TreeOK /\ FilesOK
  BY DEF TreeOK
<1>2. \A d \in dirs : Leads(d) => Written(d, Entries(d))
  BY DEF RunOK, WalkedWritten
<1>3. \A d \in dirs : Leads(d) =>
          /\ Deleted(d) \/ Entries(d) \subseteq Resources(kustomization[d]) \cup parked[d]
          /\ Resources(kustomization[d]) \subseteq Entries(d) \cup {Own}
  <2> SUFFICES ASSUME NEW d \in dirs, Leads(d)
               PROVE  /\ Deleted(d) \/ Entries(d) \subseteq Resources(kustomization[d]) \cup parked[d]
                      /\ Resources(kustomization[d]) \subseteq Entries(d) \cup {Own}
    OBVIOUS
  <2> PICK R : R = Entries(d)
    OBVIOUS
  <2>1. Written(d, R) /\ d \in Dirs
    BY <1>1, <1>2
  <2>2. R \in SUBSET Resource
    BY <1>1, EntriesAreResources
  <2> QED
    BY <1>1, <2>1, <2>2, ListedOrParked
<1>4. EveryComponentIsFound
  <2> SUFFICES ASSUME NEW c \in flux, ~BelowComponent(c), NEW s \in PathTo[c] \ {Root}
               PROVE  LET e == IF s \in flux THEN Flux(s) ELSE Dir(s)
                      IN  \/ e \in Resources(kustomization[Parent[s]]) \cup parked[Parent[s]]
                          \/ Deleted(Parent[s])
    BY DEF EveryComponentIsFound
  <2>1. Parent[s] \in dirs /\ s \in Children(Parent[s]) /\ Leads(Parent[s])
    BY <1>1, WayLeads
  <2>2. (IF s \in flux THEN Flux(s) ELSE Dir(s)) \in Entries(Parent[s])
    BY <2>1 DEF Entries
  <2> QED
    BY <1>3, <2>1, <2>2
<1>5. NothingDangles
  <2> SUFFICES ASSUME NEW d \in dirs, Leads(d), NEW e \in Resources(kustomization[d]),
                      e \notin {Own, Base}
               PROVE  /\ e \in Entries(d)
                      /\ \A s \in Children(d) :
                             e = Dir(s) => kustomization[s] # NoFile \/ Deleted(s)
    BY DEF NothingDangles
  <2>1. e \in Entries(d)
    BY <1>3
  <2>2. ASSUME NEW s \in Children(d), e = Dir(s)
        PROVE  kustomization[s] # NoFile \/ Deleted(s)
    <3>1. s \notin flux
      <4>1. PICK t \in Children(d) : e = IF t \in flux THEN Flux(t) ELSE Dir(t)
        BY <2>1 DEF Entries
      <4> QED
        BY <2>2, <4>1, ResourcesApart
    <3>2. Leads(s) /\ s \in dirs
      BY <1>1, <2>2, <3>1, ChildLeads DEF Children
    <3> QED
      BY <1>2, <3>2 DEF Written
  <2> QED
    BY <2>1, <2>2
<1> QED
  BY <1>4, <1>5

(***************************************************************************)
(* After a complete run the lists of the directories are those of the      *)
(* tree: every component is found from the top, and nothing dangles        *)
(* (kustomization.go), unless the operator saw to it.                      *)
(***************************************************************************)
THEOREM TreeIsListed == Spec => []ListsMatchTheTree
<1>1. Inv => ListsMatchTheTree
  BY CompleteRunMatches DEF ListsMatchTheTree
<1> QED
  BY <1>1, Invariance, PTL

-----------------------------------------------------------------------------
\* A component that the walk has been to is a completed path.
PassedBy == step = "walk" => flux \ pending \subseteq completedPaths

LEMMA PassedByKept ==
    ASSUME ComponentsApart, Inv, PassedBy, [Next]_vars
    PROVE  PassedBy'
<1> SUFFICES ASSUME step' = "walk" PROVE flux' \ pending' \subseteq completedPaths'
  BY DEF PassedBy
<1>1. CASE UNCHANGED vars
  BY <1>1 DEF PassedBy, vars, files, run
<1>2. CASE RenderCustomComponents
  BY <1>2 DEF RenderCustomComponents, Inv, TreeOK
<1>3. ASSUME NEW d \in Dirs, Visit(d) PROVE flux' \ pending' \subseteq completedPaths'
  <2>1. /\ step = "walk" /\ flux' = flux /\ pending' = pending \ {d}
        /\ completedPaths \subseteq completedPaths'
    BY <1>3 DEF Visit, MarkCompleted
  <2>2. d \in flux => d \in completedPaths'
    <3> SUFFICES ASSUME d \in flux, isCompleted(d) PROVE FALSE
      BY <1>3 DEF Visit, MarkCompleted
    <3>1. d # Root /\ Parent[d] \in flux
      BY DEF isCompleted, Inv, RunOK
    <3> QED
      BY <3>1 DEF ComponentsApart, Inv, TreeOK
  <2> QED
    BY <2>1, <2>2 DEF PassedBy
<1>4. ASSUME Edit PROVE FALSE
  BY <1>4 DEF Edit
<1>5. ASSUME NEW c, NEW file, WriteComponentFile(c, file) PROVE FALSE
  <2>1. step = "walk" /\ todo # {}
    BY <1>5 DEF WriteComponentFile
  <2> QED
    BY <2>1 DEF Inv, RunOK
<1>6. CASE Start \/ Finish \/ Stop
  BY <1>6 DEF Start, Finish, Stop
<1> QED
  BY <1>1, <1>2, <1>3, <1>4, <1>5, <1>6 DEF Next, MakeDirectory, RemoveDirectory,
     DeleteFluxKustomization, DeleteKustomization, DeleteDefault, ParkEntry, AddOwnEntry

(***************************************************************************)
(* With components apart, the walk changes no list of a component or of a  *)
(* directory in one (the completed paths of kustomization.go).             *)
(***************************************************************************)
THEOREM WalkLeavesComponentsAlone ==
    ASSUME ComponentsApart
    PROVE  Spec => ComponentsAreLeftAlone
<1>1. Init => PassedBy
  BY DEF Init, PassedBy
<1>2. Inv /\ PassedBy /\ [Next]_vars => PassedBy'
  BY PassedByKept
<1>3. ASSUME Inv, PassedBy, [Next]_vars, NEW d \in Dirs,
             step = "walk", kustomization'[d] # kustomization[d]
      PROVE  d \notin flux /\ (d = Root \/ Parent[d] \notin flux)
  <2>1. Visit(d)
    <3>1. ~Idle /\ todo = {} /\ ~UNCHANGED kustomization
      BY <1>3 DEF Idle, Inv, RunOK
    <3>2. ~Edit /\ ~Start /\ ~RenderCustomComponents /\ ~Finish /\ ~Stop
      BY <3>1 DEF Edit, Start, RenderCustomComponents, Finish, Stop, files
    <3>3. \A c, file : ~WriteComponentFile(c, file)
      BY <3>1 DEF WriteComponentFile
    <3>4. PICK e \in Dirs : Visit(e)
      BY <1>3, <3>1, <3>2, <3>3 DEF Next, MakeDirectory, RemoveDirectory,
         DeleteFluxKustomization, DeleteKustomization, DeleteDefault, ParkEntry, AddOwnEntry,
         vars, files
    <3>5. e = d
      BY <1>3, <3>4, VisitEffect
    <3> QED
      BY <3>4, <3>5
  <2>2. d \notin flux
    BY <1>3, <2>1, VisitEffect
  <2>3. ASSUME d # Root, Parent[d] \in flux PROVE FALSE
    <3>1. ~isCompleted(d)
      BY <1>3, <2>1 DEF Visit
    <3>2. Parent[d] \in pending
      BY <1>3, <2>3, <3>1 DEF PassedBy, isCompleted
    <3>3. Position(d) <= Position(Parent[d])
      BY <2>1, <3>2 DEF Visit
    <3>4. /\ Parent[d] \in Dirs /\ Position(Parent[d]) < Position(d)
          /\ Position(d) \in Int /\ Position(Parent[d]) \in Int
      BY <2>3, ParentBefore, PositionType, TreeAssumption
    <3> QED
      BY <3>3, <3>4
  <2> QED
    BY <2>2, <2>3
<1>4. Inv /\ PassedBy /\ [Next]_vars =>
          [\A d \in Dirs : /\ step = "walk" /\ kustomization'[d] # kustomization[d]
                           => d \notin flux /\ (d = Root \/ Parent[d] \notin flux)]_vars
  BY <1>3
<1> QED
  BY <1>1, <1>2, <1>4, InitInv, NextKeeps, PTL DEF Spec, ComponentsAreLeftAlone
====
