----------------------------- MODULE OCMResolver -----------------------------
(***************************************************************************)
(* resolve ocm, run after run: the walk over the descriptors, which may be *)
(* in several repositories, and the files written during and after it.     *)
(* A component is processed in one step, in any order: the workers and     *)
(* their queue are modelled in ComponentWalker.                            *)
(***************************************************************************)
EXTENDS ImageVectors, FiniteSets

CONSTANTS
    Repositories,   \* the sequence of configured repositories
    Stored,         \* Stored[r]: the components that repository r has
    Host,           \* Host[r]: its host
    Sorted,         \* all components in the order of their references
    DefaultNames,   \* component names of the built-in component vector
    CustomNames,    \* names that custom components may have
    Configurations, \* records: root, debug, originalRefs, ignoreMissing
    MaxRuns,        \* bound on the number of runs
    Absent,         \* no such file
    Torn            \* a file that a killed run left truncated

ASSUME ResolverAssumption ==
    /\ IsFiniteSet(Refs) /\ Members(Sorted) = Refs
    \* what a descriptor refers to is a component, though perhaps of no repository
    /\ \A c \in Refs : References(c) \subseteq Refs
    /\ Repositories \in Seq(Members(Repositories))
    /\ Stored \in [Members(Repositories) -> SUBSET Refs]
    /\ DOMAIN Host = Members(Repositories)
    /\ \A run \in Configurations : run.root \in Refs
    /\ MaxRuns \in Nat
    /\ Absent # Torn /\ "written" \notin {Absent, Torn}

VARIABLES
    config,         \* configuration of the run
    phase,          \* what the run is at
    todo,           \* components queued, or files still to be written
    known,          \* keys of the dependents map
    failed,         \* the walk has recorded an error
    result,         \* how the last run ended
    runs,           \* number of runs started
    \* below .glk/ocm/<name>/<version> of the root component:
    descriptors,    \* descriptors/
    imageVectors,   \* imagevectors/, written in debug mode
    resourceFiles,  \* resources/, written in debug mode
    componentList,  \* component-list.yaml
    \* in the landscape itself:
    componentsFile, \* components.yaml
    customs         \* the custom component name files of the landscape

Roots == {run.root : run \in Configurations}

graphVars == <<dependencies, host, known>>
runVars == <<config, phase, todo, failed, result, runs>>
outputs == <<descriptors, imageVectors, resourceFiles, componentList, componentsFile>>
vars == <<graphVars, runVars, outputs, customs>>

TypeOK ==
    /\ dependencies \in [Refs -> Seq(Refs)]
    /\ host \in [Refs -> {Host[r] : r \in Members(Repositories)} \cup {None}]
    /\ config \in Configurations
    /\ phase \in {"idle", "walk", "imagevectors", "resources", "list", "components"}
    /\ todo \subseteq Refs /\ known \subseteq Refs
    /\ failed \in BOOLEAN
    /\ result \in {"none", "success", "failure"}
    /\ runs \in 0 .. MaxRuns
    /\ descriptors \in [Roots -> [Refs -> {Absent, Torn, "written"}]]
    /\ resourceFiles \in [Roots -> [Refs -> {Absent, Torn, "written"}]]
    /\ DOMAIN imageVectors = Roots /\ DOMAIN componentList = Roots
    /\ customs \subseteq CustomNames

Init ==
    /\ dependencies = [c \in Refs |-> <<>>]
    /\ host = [c \in Refs |-> None]
    /\ known = {} /\ todo = {}
    /\ config \in Configurations
    /\ phase = "idle" /\ result = "none" /\ failed = FALSE
    /\ runs = 0
    /\ descriptors = [r \in Roots |-> [c \in Refs |-> Absent]]
    /\ imageVectors = [r \in Roots |-> [c \in Refs |-> Absent]]
    /\ resourceFiles = [r \in Roots |-> [c \in Refs |-> Absent]]
    /\ componentList = [r \in Roots |-> Absent]
    /\ componentsFile = Absent
    /\ customs = {}

Start ==
    /\ phase = "idle"
    /\ runs < MaxRuns
    /\ config' \in Configurations
    /\ phase' = "walk" /\ todo' = {config'.root} /\ failed' = FALSE
    /\ result' = "none"
    /\ runs' = runs + 1
    /\ dependencies' = [c \in Refs |-> <<>>]
    /\ host' = [c \in Refs |-> None]
    /\ known' = {}
    /\ UNCHANGED <<outputs, customs>>

-----------------------------------------------------------------------------
(* The walk. *)

First(I) == CHOOSE i \in I : \A j \in I : i <= j

(***************************************************************************)
(* FindComponentVersion: the first repository that delivers a descriptor   *)
(* decides.  Any error moves on to the next repository, not only that the  *)
(* component is not there; an error with a blob ends the search.           *)
(***************************************************************************)
FindComponentVersion(c, reachable) ==
    LET answering == {i \in DOMAIN Repositories :
                         /\ Repositories[i] \in reachable
                         /\ c \in Stored[Repositories[i]]}
    IN  IF answering = {} THEN None ELSE Repositories[First(answering)]

\* Mutant: the host is that of the first repository of the configuration.
FirstHost(repository) == Host[Repositories[1]]

\* Mutant: the URL stands for its host.
UrlAsHost(repository) == repository

HostOf(repository) == Host[repository]

\* The orders in which Go may walk a map with these keys.
Orders(S) == {s \in [1 .. Cardinality(S) -> S] : Members(s) = S}

NonUniqueKubernetes(c) ==
    Descriptors[c].kubernetes /\ kubernetesComponents \ {c} # {}

Forget(c) == failed' = TRUE /\ todo' = todo \ {c} /\ UNCHANGED graphVars

\* No repository delivers c now, or a blob of it is not delivered.
NotFound(c) ==
    /\ phase = "walk" /\ c \in todo
    /\ Forget(c)
    /\ UNCHANGED <<config, phase, result, runs, outputs, customs>>

\* Mutant: the component itself is added after what it refers to.
SelfLast(c) == {s \o <<c>> : s \in Orders(References(c))}

\* Dependencies[c]: c itself, then the others in the order of a map.
Recorded(c) == {<<c>> \o s : s \in Orders(References(c))}

(***************************************************************************)
(* The item function of the walk: the descriptor is found and written, c   *)
(* and its dependencies are recorded, and those nobody knew are queued.    *)
(***************************************************************************)
Process(c) ==
    /\ phase = "walk" /\ c \in todo
    /\ \E reachable \in SUBSET Members(Repositories) :
           LET repository == FindComponentVersion(c, reachable)
           IN  /\ repository # None
               /\ IF Malformed(c) \/ NonUniqueKubernetes(c)
                  THEN Forget(c)
                  ELSE /\ host' = [host EXCEPT ![c] = HostOf(repository)]
                       /\ \E s \in Recorded(c) : dependencies' = [dependencies EXCEPT ![c] = s]
                       /\ known' = known \cup {c} \cup References(c)
                       /\ todo' = (todo \ {c}) \cup (References(c) \ (known \cup {c}))
                       /\ UNCHANGED failed
    /\ descriptors' = [descriptors EXCEPT ![config.root][c] = "written"]
    /\ UNCHANGED <<config, phase, result, runs, imageVectors, resourceFiles,
                   componentList, componentsFile, customs>>

\* The run returns to the shell.
Exit(r) == phase' = "idle" /\ result' = r /\ todo' = {}

\* Mutant: the walk ends while components are being processed.
EndWalkEarly ==
    /\ phase = "walk" /\ ~failed
    /\ phase' = "list" /\ todo' = {}
    /\ UNCHANGED <<graphVars, config, failed, result, runs, outputs, customs>>

EndWalk ==
    /\ phase = "walk" /\ todo = {}
    /\ IF failed
       THEN Exit("failure")
       ELSE /\ phase' = IF config.debug THEN "imagevectors" ELSE "list"
            /\ todo' = IF config.debug THEN known ELSE {}
            /\ UNCHANGED result
    /\ UNCHANGED <<graphVars, config, failed, runs, outputs, customs>>

-----------------------------------------------------------------------------
(* The files written after the walk. *)

\* The next component in GetSortedComponents.
NextToWrite == Sorted[First({i \in DOMAIN Sorted : Sorted[i] \in todo})]

\* After the last file of a phase comes the next phase.
Proceed(next, all) ==
    /\ todo' = IF todo \ {NextToWrite} = {} THEN all ELSE todo \ {NextToWrite}
    /\ phase' = IF todo \ {NextToWrite} = {} THEN next ELSE phase
    /\ UNCHANGED <<graphVars, config, failed, result, runs, customs>>

(***************************************************************************)
(* writeAllImageVectors skips empty vectors before it looks at the error,  *)
(* and a vector that could not be computed is empty.                       *)
(***************************************************************************)
WriteImageVector ==
    /\ phase = "imagevectors"
    /\ IF \/ GetImageVectorFails(NextToWrite, config.originalRefs)
          \/ GetImageVector(NextToWrite, config.originalRefs) = {}
       THEN UNCHANGED imageVectors
       ELSE imageVectors' = [imageVectors EXCEPT ![config.root][NextToWrite] =
                                 GetImageVector(NextToWrite, config.originalRefs)]
    /\ Proceed("resources", known)
    /\ UNCHANGED <<descriptors, resourceFiles, componentList, componentsFile>>

WriteResources ==
    /\ phase = "resources"
    /\ resourceFiles' = IF Descriptors[NextToWrite].resources = <<>>
                        THEN resourceFiles
                        ELSE [resourceFiles EXCEPT ![config.root][NextToWrite] = "written"]
    /\ Proceed("list", {})
    /\ UNCHANGED <<descriptors, imageVectors, componentList, componentsFile>>

WriteComponentList ==
    /\ phase = "list"
    /\ componentList' = [componentList EXCEPT ![config.root] = known]
    /\ phase' = "components"
    /\ UNCHANGED <<graphVars, config, todo, failed, result, runs, descriptors,
                   imageVectors, resourceFiles, componentsFile, customs>>

(***************************************************************************)
(* writeLandscapeKitComponents: components.yaml is replaced, not merged.   *)
(***************************************************************************)
WriteLandscapeKitComponents ==
    /\ phase = "components"
    /\ LET names == DefaultNames \cup customs
       IN  IF GetGLKComponentsFails(known, names, config.ignoreMissing)
           THEN Exit("failure") /\ UNCHANGED componentsFile
           ELSE Exit("success") /\ componentsFile' = GetGLKComponents(known, names)
    /\ UNCHANGED <<graphVars, config, failed, runs, descriptors, imageVectors,
                   resourceFiles, componentList, customs>>

-----------------------------------------------------------------------------
(* The run is killed or cannot write, possibly in the middle of a file. *)

Tear ==
    \/ /\ phase = "walk"
       /\ \E c \in todo : descriptors' = [descriptors EXCEPT ![config.root][c] = Torn]
       /\ UNCHANGED <<imageVectors, resourceFiles, componentList, componentsFile>>
    \/ /\ phase = "imagevectors"
       /\ imageVectors' = [imageVectors EXCEPT ![config.root][NextToWrite] = Torn]
       /\ UNCHANGED <<descriptors, resourceFiles, componentList, componentsFile>>
    \/ /\ phase = "resources"
       /\ resourceFiles' = [resourceFiles EXCEPT ![config.root][NextToWrite] = Torn]
       /\ UNCHANGED <<descriptors, imageVectors, componentList, componentsFile>>
    \/ /\ phase = "list"
       /\ componentList' = [componentList EXCEPT ![config.root] = Torn]
       /\ UNCHANGED <<descriptors, imageVectors, resourceFiles, componentsFile>>
    \/ /\ phase = "components"
       /\ componentsFile' = Torn
       /\ UNCHANGED <<descriptors, imageVectors, resourceFiles, componentList>>

Stop ==
    /\ phase # "idle"
    /\ Exit("failure")
    /\ Tear \/ UNCHANGED outputs
    /\ UNCHANGED <<graphVars, config, failed, runs, customs>>

\* A custom component is generated into the landscape, or removed from it.
Customize(n) ==
    /\ customs' = (customs \ {n}) \cup ({n} \ customs)
    /\ UNCHANGED <<graphVars, runVars, outputs>>

Next ==
    \/ Start
    \/ \E c \in Refs : NotFound(c) \/ Process(c)
    \/ EndWalk
    \/ WriteImageVector \/ WriteResources
    \/ WriteComponentList \/ WriteLandscapeKitComponents
    \/ Stop
    \/ \E n \in CustomNames : Customize(n)

Spec == Init /\ [][Next]_vars

-----------------------------------------------------------------------------

Finished == phase = "idle" /\ result = "success"

InFixedOrder ==
    [c \in Refs |->
        IF c \in Registered
        THEN <<c>> \o (CHOOSE s \in Orders(References(c)) : TRUE)
        ELSE <<>>]

Ordered == INSTANCE ImageVectors WITH dependencies <- InFixedOrder

(***************************************************************************)
(* Images are looked up by name in the dependencies of a component, first  *)
(* in the component itself.  No two others have images of one name, so the *)
(* lookup does not depend on which of them comes first.                    *)
(***************************************************************************)
UnambiguousImages ==
    \A c \in Refs : \A d, e \in References(c) :
        \A x \in Members(ReferencedImages(c, d)), y \in Members(ReferencedImages(c, e)) :
            EffectiveResourceName(x) = EffectiveResourceName(y) =>
                \/ d = e
                \/ \E res \in Members(ResourcesOf(c, "ociImage")) :
                       EffectiveResourceName(resourceToImageSource(res, None)) =
                           EffectiveResourceName(x)

(***************************************************************************)
(* Whatever the order of the walk and of the maps it goes through, a run   *)
(* writes the same entries to components.yaml as one in which every        *)
(* component has its references in an order given beforehand.              *)
(***************************************************************************)
OrderDoesNotMatter ==
    Finished => \A entry \in componentsFile : entry = Ordered!ComponentVector(entry.ref)

(***************************************************************************)
(* An image that components.yaml places below the host of a repository is  *)
(* an image of a component which that repository has, whichever of the     *)
(* repositories could be reached when its descriptor was looked up.        *)
(***************************************************************************)
Images(entry) ==
    entry.imageVectorOverwrite \cup
        UNION {o.images : o \in entry.componentImageVectorOverwrites}

ImagesAreWhereTheyAreSaidToBe ==
    componentsFile \notin {Absent, Torn} =>
        \A image \in UNION {Images(entry) : entry \in componentsFile} :
            image.at.host # None =>
                \E r \in Members(Repositories), c \in Refs :
                    /\ Host[r] = image.at.host
                    /\ c \in Stored[r]
                    /\ \E res \in Members(Descriptors[c].resources) :
                           extractImageReference(res, Host[r]) = image.at

(***************************************************************************)
(* The outputs of a completed run belong together: the components in       *)
(* components.yaml are those of the component list that have the wanted    *)
(* names, and, after failed runs and killed ones too, each component in    *)
(* the list has a descriptor file.                                         *)
(***************************************************************************)
OutputsBelongTogether ==
    /\ Finished =>
           \E names \in SUBSET CustomNames :
               {entry.ref : entry \in componentsFile} =
                   {c \in componentList[config.root] : Name[c] \in DefaultNames \cup names}
    /\ \A r \in Roots :
           componentList[r] \notin {Absent, Torn} =>
               \A c \in componentList[r] : descriptors[r][c] # Absent

(***************************************************************************)
(* components.yaml is replaced only when every component below the root    *)
(* was found and registered, and then it has every default and custom      *)
(* component, unless missing ones are to be ignored.                       *)
(***************************************************************************)
Complete ==
    /\ ~failed
    /\ config.root \in Registered
    /\ \A c \in Registered : References(c) \subseteq Registered
    /\ config.ignoreMissing \/
           DefaultNames \cup customs \subseteq {Name[entry.ref] : entry \in componentsFile'}

ReplacedWhenComplete ==
    [][componentsFile' \notin {componentsFile, Torn} => Complete]_vars

=============================================================================
