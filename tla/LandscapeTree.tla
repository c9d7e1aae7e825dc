---------------------------- MODULE LandscapeTree ----------------------------
(***************************************************************************)
(* The directories below components/ of a landscape, and who writes which  *)
(* file of them in a run of generate landscape: first every component its  *)
(* own two, then the templates of custom components are rendered, and at   *)
(* last a walk over the tree adds a kustomization.yaml wherever a          *)
(* directory only leads to components.  Operators work on the same files   *)
(* between the runs, and a run may be cut short.                           *)
(*                                                                         *)
(* A run writes a file in one step here.  ManifestWriter has what happens  *)
(* between the file and its default.                                       *)
(***************************************************************************)
EXTENDS Integers, Sequences

CONSTANTS
    Order,       \* all directories, as a lexical walk visits them
    Root, Parent,
    Components,  \* the directories of built-in components
    Customs,     \* those with a component-name and a template for the Flux file
    NoFile,
    MaxEdits     \* bound on the number of edits

Dirs == {Order[i] : i \in DOMAIN Order}
Position(d) == CHOOSE i \in DOMAIN Order : Order[i] = d

ASSUME TreeAssumption ==
    /\ Order \in Seq(Dirs) /\ Order # <<>> /\ Root = Order[1]
    /\ \A i, j \in DOMAIN Order : Order[i] = Order[j] => i = j
    /\ Parent \in [Dirs \ {Root} -> Dirs]
    /\ \A i \in 2..Len(Order) : \E j \in 1..(i - 1) : Parent[Order[i]] = Order[j]
    /\ Components \subseteq Dirs /\ Customs \subseteq Dirs /\ Components \cap Customs = {}
    /\ MaxEdits \in Nat

VARIABLES
    dirs,            \* the directories there are
    flux,            \* those with a flux-kustomization.yaml
    fluxDefault,     \* those with a default of it below .glk/defaults
    kustomization,   \* kustomization.yaml of each directory
    kustomizationDefault,
    step,            \* where the run is
    generated,       \* the components it generates
    todo,            \* components and files still to do
    pending,         \* directories to visit
    completedPaths,  \* directories whose own directories are skipped
    edits,           \* number of edits so far
    parked,          \* entries taken out by hand that the default still has
    own              \* directories whose list has an entry of the operator's

files == <<flux, fluxDefault, kustomization, kustomizationDefault>>
run == <<step, generated, todo, pending, completedPaths>>
operator == <<edits, parked, own>>
vars == <<dirs, files, run, operator>>

-----------------------------------------------------------------------------
(* The files.  Of a kustomization.yaml only its list of resources matters, *)
(* and of that neither the order nor how often a resource is in it.        *)

Dir(d) == <<"directory", d>>
Flux(d) == <<"flux", d>>
Base == <<"base">>   \* what the landscape of a component refers to
Own == <<"own">>

Resource == {Base, Own} \cup {Dir(d) : d \in Dirs} \cup {Flux(d) : d \in Dirs}

\* There may be no list, or one that is empty because of an operator.
Kustomization == [lists : BOOLEAN, resources : SUBSET Resource]

ASSUME FileAssumption == NoFile \notin Kustomization

NewKustomization(resources) == [lists |-> resources # {}, resources |-> resources]

Lists(file) == file # NoFile /\ file.lists
Resources(file) == IF Lists(file) THEN file.resources ELSE {}

(***************************************************************************)
(* ThreeWayMergeManifest for these files: the default decides whether      *)
(* there is a list, unless the operator has decided otherwise, and takes   *)
(* from the list what it loses and adds to it what it gains.               *)
(***************************************************************************)
MergedKustomization(old, new, current) ==
    LET lists == IF Lists(current) = Lists(old) THEN Lists(new) ELSE Lists(current)
        kept  == Resources(current) \ (Resources(old) \ Resources(new))
        added == Resources(new) \ Resources(old)
    IN  [lists |-> lists, resources |-> IF lists THEN kept \cup added ELSE {}]

Deleted(d) == kustomization[d] = NoFile /\ kustomizationDefault[d] # NoFile

\* Mutant: a list is replaced rather than merged.
Overwritten(d, resources) ==
    /\ kustomization' = [kustomization EXCEPT ![d] = NewKustomization(resources)]
    /\ kustomizationDefault' =
           [kustomizationDefault EXCEPT ![d] = NewKustomization(resources)]
    /\ UNCHANGED <<parked, own>>

(***************************************************************************)
(* WriteObjectsToFilesystem for the kustomization.yaml of a directory.     *)
(* When the default loses all its resources the list goes, with whatever   *)
(* the operator had put there.                                             *)
(***************************************************************************)
WriteKustomization(d, resources) ==
    IF Deleted(d) THEN UNCHANGED <<kustomization, kustomizationDefault, parked, own>>
    ELSE LET new == NewKustomization(resources)
             old == kustomizationDefault[d]
         IN  /\ kustomization' = [kustomization EXCEPT ![d] =
                     MergedKustomization(old, new, @)]
             /\ kustomizationDefault' = [kustomizationDefault EXCEPT ![d] = new]
             /\ parked' = [parked EXCEPT ![d] = @ \cap resources]
             /\ own' = IF Lists(old) /\ resources = {} THEN own \ {d} ELSE own

-----------------------------------------------------------------------------
(* A run *)

Idle == step \in {"idle", "complete"}

\* The components that the configuration includes.
Start ==
    /\ Idle
    /\ generated' \in SUBSET Components
    /\ todo' = generated' \X {"flux-kustomization.yaml", "kustomization.yaml"}
    /\ step' = "components"
    /\ UNCHANGED <<dirs, files, pending, completedPaths, operator>>

\* A directory and those above it: what every set has that has d, and with
\* each directory its parent.
ClosedSets == {S \in SUBSET Dirs : \A d \in S \ {Root} : Parent[d] \in S}
PathTo == [d \in Dirs |-> {a \in Dirs : \A S \in ClosedSets : d \in S => a \in S}]

\* Mutant: the directory of a component is taken to be there.
WithoutDirectory(c, file) ==
    /\ <<c, file>> \in todo
    /\ todo' = todo \ {<<c, file>>}
    /\ flux' = flux \cup {c} /\ fluxDefault' = fluxDefault \cup {c}
    /\ UNCHANGED <<dirs, kustomization, kustomizationDefault, step, generated,
                   pending, completedPaths, operator>>

\* Mutant: the kustomization of a component is only ever generated once.
GeneratedOnce(c, file) ==
    /\ <<c, file>> \in todo
    /\ todo' = todo \ {<<c, file>>}
    /\ dirs' = dirs \cup PathTo[c]
    /\ IF file = "kustomization.yaml"
       THEN /\ IF kustomizationDefault[c] = NoFile
               THEN WriteKustomization(c, {Base})
               ELSE UNCHANGED <<kustomization, kustomizationDefault, parked, own>>
            /\ UNCHANGED <<flux, fluxDefault>>
       ELSE /\ flux' = flux \cup {c} /\ fluxDefault' = fluxDefault \cup {c}
            /\ UNCHANGED <<kustomization, kustomizationDefault, parked, own>>
    /\ UNCHANGED <<step, generated, pending, completedPaths, edits>>

\* A file that was deleted by hand stays away; its directory does not.
WriteComponentFile(c, file) ==
    /\ <<c, file>> \in todo
    /\ todo' = todo \ {<<c, file>>}
    /\ dirs' = dirs \cup PathTo[c]
    /\ IF file = "kustomization.yaml"
       THEN /\ WriteKustomization(c, {Base})
            /\ UNCHANGED <<flux, fluxDefault>>
       ELSE /\ IF c \in fluxDefault \ flux THEN UNCHANGED <<flux, fluxDefault>>
               ELSE /\ flux' = flux \cup {c}
                    /\ fluxDefault' = fluxDefault \cup {c}
            /\ UNCHANGED <<kustomization, kustomizationDefault, parked, own>>
    /\ UNCHANGED <<step, generated, pending, completedPaths, edits>>

\* Rendered files have no default, and are written each time.
RenderCustomComponents ==
    /\ step = "components" /\ todo = {}
    /\ step' = "walk"
    /\ flux' = flux \cup (Customs \cap dirs)
    /\ pending' = dirs
    /\ completedPaths' = {}
    /\ UNCHANGED <<dirs, fluxDefault, kustomization, kustomizationDefault, generated,
                   todo, operator>>

Children(d) == {s \in dirs \ {Root} : Parent[s] = d}
Entries(d) == {IF s \in flux THEN Flux(s) ELSE Dir(s) : s \in Children(d)}

\* Mutant: a directory is listed as such, whatever is in it.
directoriesOnly(d) == {Dir(s) : s \in Children(d)}
directories(d) == Entries(d)

isCompleted(d) == d # Root /\ Parent[d] \in completedPaths

\* Mutant: the walk goes on below a component.
walksOn(d) == completedPaths' = completedPaths

MarkCompleted(d) ==
    completedPaths' =
        completedPaths \cup (IF d \in flux THEN {d} ELSE Children(d) \cap flux)

\* The walk comes to the directories in their order.
Visit(d) ==
    /\ step = "walk" /\ d \in pending
    /\ \A e \in pending : Position(d) <= Position(e)
    /\ pending' = pending \ {d}
    /\ IF isCompleted(d)
       THEN UNCHANGED <<kustomization, kustomizationDefault, parked, own, completedPaths>>
       ELSE /\ MarkCompleted(d)
            /\ IF d \in flux
               THEN UNCHANGED <<kustomization, kustomizationDefault, parked, own>>
               ELSE WriteKustomization(d, directories(d))
    /\ UNCHANGED <<dirs, flux, fluxDefault, step, generated, todo, edits>>

Finish ==
    /\ step = "walk" /\ pending = {}
    /\ step' = "complete"
    /\ completedPaths' = {}
    /\ UNCHANGED <<dirs, files, generated, todo, pending, operator>>

\* The process is killed or an operation fails, such as that a custom
\* component is not in the component vector.
Stop ==
    /\ ~Idle
    /\ step' = "idle" /\ generated' = {} /\ todo' = {} /\ pending' = {}
    /\ completedPaths' = {}
    /\ UNCHANGED <<dirs, files, operator>>

-----------------------------------------------------------------------------
(* The operator *)

Edit ==
    /\ Idle /\ edits < MaxEdits
    /\ edits' = edits + 1
    /\ step' = "idle" /\ generated' = {}
    /\ UNCHANGED <<todo, pending, completedPaths>>

MakeDirectory(d) ==
    /\ d \notin dirs \cup Components \cup {Root} /\ Parent[d] \in dirs
    /\ Edit
    /\ dirs' = dirs \cup {d}
    /\ UNCHANGED <<files, parked, own>>

RemoveDirectory(d) ==
    /\ d \in dirs \ {Root}
    /\ Edit
    /\ LET gone == {s \in dirs : d \in PathTo[s]}
       IN  /\ dirs' = dirs \ gone
           /\ flux' = flux \ gone
           /\ kustomization' = [s \in Dirs |-> IF s \in gone THEN NoFile ELSE kustomization[s]]
           /\ parked' = [s \in Dirs |-> IF s \in gone THEN {} ELSE parked[s]]
           /\ own' = own \ gone
    /\ UNCHANGED <<fluxDefault, kustomizationDefault>>

DeleteFluxKustomization(d) ==
    /\ d \in flux
    /\ Edit
    /\ flux' = flux \ {d}
    /\ UNCHANGED <<dirs, fluxDefault, kustomization, kustomizationDefault, parked, own>>

DeleteKustomization(d) ==
    /\ kustomization[d] # NoFile
    /\ Edit
    /\ kustomization' = [kustomization EXCEPT ![d] = NoFile]
    /\ parked' = [parked EXCEPT ![d] = {}]
    /\ own' = own \ {d}
    /\ UNCHANGED <<dirs, flux, fluxDefault, kustomizationDefault>>

\* What brings a deleted file back.
DeleteDefault(d) ==
    /\ Edit
    /\ \/ /\ d \in fluxDefault \ flux
          /\ fluxDefault' = fluxDefault \ {d}
          /\ UNCHANGED kustomizationDefault
       \/ /\ Deleted(d)
          /\ kustomizationDefault' = [kustomizationDefault EXCEPT ![d] = NoFile]
          /\ UNCHANGED fluxDefault
    /\ UNCHANGED <<dirs, flux, kustomization, parked, own>>

WithoutEntry(file, e) == [file EXCEPT !.resources = @ \ {e}]

ParkEntry(d) ==
    /\ kustomization[d] # NoFile
    /\ Edit
    /\ \E e \in Resources(kustomization[d]) \cap Resources(kustomizationDefault[d]) :
           /\ kustomization' = [kustomization EXCEPT ![d] = WithoutEntry(@, e)]
           /\ parked' = [parked EXCEPT ![d] = @ \cup {e}]
    /\ UNCHANGED <<dirs, flux, fluxDefault, kustomizationDefault, own>>

\* Also in a list of the operator's, in which nothing else is.
WithOwnEntry(file) ==
    IF Lists(file) THEN [file EXCEPT !.resources = @ \cup {Own}]
    ELSE NewKustomization({Own})

AddOwnEntry(d) ==
    /\ d \in dirs \ own
    /\ Edit
    /\ kustomization' = [kustomization EXCEPT ![d] = WithOwnEntry(@)]
    /\ own' = own \cup {d}
    /\ parked' = IF Lists(kustomization[d]) THEN parked
                 ELSE [parked EXCEPT ![d] = Resources(kustomizationDefault[d])]
    /\ UNCHANGED <<dirs, flux, fluxDefault, kustomizationDefault>>

Init ==
    /\ dirs = {Root}
    /\ flux = {} /\ fluxDefault = {}
    /\ kustomization = [d \in Dirs |-> NoFile]
    /\ kustomizationDefault = [d \in Dirs |-> NoFile]
    /\ step = "idle" /\ generated = {} /\ todo = {} /\ pending = {} /\ completedPaths = {}
    /\ edits = 0
    /\ parked = [d \in Dirs |-> {}]
    /\ own = {}

Next ==
    \/ Start \/ RenderCustomComponents \/ Finish \/ Stop
    \/ \E c \in Components, file \in {"flux-kustomization.yaml", "kustomization.yaml"} :
           WriteComponentFile(c, file)
    \/ \E d \in Dirs :
           \/ Visit(d)
           \/ MakeDirectory(d) \/ RemoveDirectory(d)
           \/ DeleteFluxKustomization(d) \/ DeleteKustomization(d) \/ DeleteDefault(d)
           \/ ParkEntry(d) \/ AddOwnEntry(d)

Spec == Init /\ [][Next]_vars

-----------------------------------------------------------------------------
(* Properties *)

TypeOK ==
    /\ dirs \subseteq Dirs /\ \A d \in dirs : PathTo[d] \subseteq dirs
    /\ flux \subseteq dirs /\ fluxDefault \subseteq Dirs
    /\ kustomization \in [Dirs -> Kustomization \cup {NoFile}]
    /\ kustomizationDefault \in [Dirs -> Kustomization \cup {NoFile}]
    /\ \A d \in Dirs : kustomization[d] # NoFile => d \in dirs
    /\ step \in {"idle", "components", "walk", "complete"}
    /\ generated \subseteq Components
    /\ todo \subseteq generated \X {"flux-kustomization.yaml", "kustomization.yaml"}
    /\ pending \subseteq dirs /\ completedPaths \subseteq flux
    /\ edits \in 0..MaxEdits
    /\ parked \in [Dirs -> SUBSET Resource]
    /\ \A d \in Dirs : parked[d] \cap Resources(kustomization[d]) = {}
    /\ own \subseteq dirs

BelowComponent(d) == \E a \in PathTo[d] \ {d} : a \in flux
Leads(d) == d \notin flux /\ ~BelowComponent(d)

EveryComponentIsFound ==
    \A c \in flux : ~BelowComponent(c) =>
        \A s \in PathTo[c] \ {Root} :
            LET e == IF s \in flux THEN Flux(s) ELSE Dir(s)
            IN  \/ e \in Resources(kustomization[Parent[s]]) \cup parked[Parent[s]]
                \/ Deleted(Parent[s])

NothingDangles ==
    \A d \in dirs : Leads(d) =>
        \A e \in Resources(kustomization[d]) :
            \/ e \in {Own, Base}
            \/ e \in Entries(d)
               /\ \A s \in Children(d) :
                      e = Dir(s) => kustomization[s] # NoFile \/ Deleted(s)

(***************************************************************************)
(* After a complete run, Flux finds every component from the top of the    *)
(* tree, unless the operator deleted a list on the way or took an entry    *)
(* out of it; and everything a list on the way names is there, unless the  *)
(* operator deleted it.                                                    *)
(***************************************************************************)
ListsMatchTheTree == step = "complete" => EveryComponentIsFound /\ NothingDangles

(***************************************************************************)
(* The walk writes the file of a component that lost its Flux file, with   *)
(* nothing in it that the component wants.  After a complete run that      *)
(* generates a component which has one again, the component refers to what *)
(* it deploys, unless the operator took that out.                          *)
(***************************************************************************)
ComponentsKeepTheirs ==
    step = "complete" =>
        \A c \in generated \cap flux :
            Base \in Resources(kustomization[c]) \cup parked[c] \/ Deleted(c)

(***************************************************************************)
(* What an operator added to a list stays in it, until the default has no  *)
(* list any more.                                                          *)
(***************************************************************************)
OwnEntriesSurvive == \A d \in own : Own \in Resources(kustomization[d])

(***************************************************************************)
(* No component is directly below another.  Where one is, the walk passes  *)
(* it by with the other directories of the upper component, and then does  *)
(* not know that the directories of the lower one are to be passed by too. *)
(***************************************************************************)
ComponentsApart ==
    \A c \in (Components \cup Customs) \ {Root} : Parent[c] \notin Components \cup Customs

(***************************************************************************)
(* The walk leaves a component and the directories in it alone: what is    *)
(* there belongs to the component and the operator.  This takes components *)
(* that are apart.                                                         *)
(***************************************************************************)
ComponentsAreLeftAlone ==
    [][\A d \in Dirs :
          /\ step = "walk" /\ kustomization'[d] # kustomization[d]
          => d \notin flux /\ (d = Root \/ Parent[d] \notin flux)]_vars
=============================================================================
