--------------------------- MODULE ComponentGraph ---------------------------
(***************************************************************************)
(* The Components structure of the OCM resolver: what has been learnt so   *)
(* far about the component descriptors and how they reference each other.  *)
(* Every operation below runs under Components.lock and is one step.  The  *)
(* contents of a descriptor are a constant of the model: the components it *)
(* references and the two image vector labels it may carry.                *)
(***************************************************************************)
EXTENDS Integers, Sequences, FiniteSets

CONSTANTS
    Refs,            \* the component references, "name:version"
    Root,            \* the root component of the configuration
    References,      \* References[c]: what the descriptor of c refers to
    KubernetesRefs,  \* components labelled as the kubernetes component
    MappedImageRefs, \* components with a non-empty images label
    Faulty,          \* components whose lookup or registration may fail
    RootMarker,      \* rootComponentReference, the dependent of the root
    Zero             \* the zero ComponentReference

ASSUME GraphAssumption ==
    /\ Root \in Refs
    /\ References \in [Refs -> SUBSET Refs]
    /\ KubernetesRefs \subseteq Refs
    /\ MappedImageRefs \subseteq Refs
    /\ Faulty \subseteq Refs
    /\ RootMarker \notin Refs
    /\ Zero \notin Refs

VARIABLES
    dependents,          \* {} stands for an absent key
    dependencies,        \* in the order they were appended
    resources,           \* keys of the resources map
    mappedImages,        \* keys of the mappedImages map
    kubernetesComponent  \* Zero stands for the nil pointer

graphVars ==
    <<dependents, dependencies, resources, mappedImages, kubernetesComponent>>

GraphTypeOK ==
    /\ dependents \in [Refs -> SUBSET (Refs \cup {RootMarker})]
    /\ dependencies \in [Refs \cup {RootMarker} -> Seq(Refs)]
    /\ resources \subseteq Refs
    /\ mappedImages \subseteq Refs
    /\ kubernetesComponent \in Refs \cup {Zero}

NewComponents ==
    /\ dependents = [c \in Refs |-> {}]
    /\ dependencies = [c \in Refs \cup {RootMarker} |-> <<>>]
    /\ resources = {}
    /\ mappedImages = {}
    /\ kubernetesComponent = Zero

Known == {c \in Refs : dependents[c] # {}}

\* Mutant: a second kubernetes component replaces the first.
KubernetesReplaced(c) == FALSE

(***************************************************************************)
(* The label that makes c the kubernetes component is refused when another *)
(* one, or c itself in an earlier call, already is.                        *)
(***************************************************************************)
NonUniqueKubernetes(c) ==
    c \in KubernetesRefs /\ kubernetesComponent # Zero

(***************************************************************************)
(* addComponent.  c becomes the first of its own dependencies; a component *)
(* nobody depends on is the root and hangs below the root marker.          *)
(***************************************************************************)
addComponent(c) ==
    /\ ~NonUniqueKubernetes(c)
    /\ resources' = resources \cup {c}
    /\ mappedImages' = mappedImages \cup ({c} \cap MappedImageRefs)
    /\ kubernetesComponent' =
           IF c \in KubernetesRefs THEN c ELSE kubernetesComponent
    /\ LET selfAdded == [dependencies EXCEPT ![c] = Append(@, c)]
       IN  IF c \in Known
           THEN /\ dependencies' = selfAdded
                /\ UNCHANGED dependents
           ELSE /\ dependencies' =
                       [selfAdded EXCEPT ![RootMarker] = Append(@, c)]
                /\ dependents' = [dependents EXCEPT ![c] = {RootMarker}]

(***************************************************************************)
(* The error returns of addComponent, with what they leave behind: nothing *)
(* when the image vector cannot be extracted, the self dependency when the *)
(* resources cannot, and when a label is refused, these and the labels     *)
(* before it.                                                              *)
(***************************************************************************)
addComponentFails(c) ==
    /\ UNCHANGED dependents
    /\ \/ /\ c \in Faulty
          /\ UNCHANGED <<dependencies, resources, mappedImages, kubernetesComponent>>
       \/ /\ c \in Faulty
          /\ dependencies' = [dependencies EXCEPT ![c] = Append(@, c)]
          /\ UNCHANGED <<resources, mappedImages, kubernetesComponent>>
       \/ /\ c \in Faulty \/ NonUniqueKubernetes(c)
          /\ dependencies' = [dependencies EXCEPT ![c] = Append(@, c)]
          /\ resources' = resources \cup {c}
          /\ \E images \in SUBSET ({c} \cap MappedImageRefs) :
                 mappedImages' = mappedImages \cup images
          /\ \/ UNCHANGED kubernetesComponent
             \/ /\ c \in Faulty \cap KubernetesRefs
                /\ ~NonUniqueKubernetes(c)
                /\ kubernetesComponent' = c

\* Mutant: "newly added" does not ask whether d was there before.
AddedAgain(c, d) == c # d

(***************************************************************************)
(* AddComponentDependency.  A caller that sees NewlyAdded is the only one  *)
(* that ever will: the key is set in the same critical section.            *)
(***************************************************************************)
NewlyAdded(c, d) == c # d /\ d \notin Known

\* Mutant: the set of dependents is created anew each time.
DependentsReset(c, d) ==
    /\ IF c = d
       THEN UNCHANGED <<dependents, dependencies>>
       ELSE /\ dependents' = [dependents EXCEPT ![d] = {c}]
            /\ dependencies' = [dependencies EXCEPT ![c] = Append(@, d)]
    /\ UNCHANGED <<resources, mappedImages, kubernetesComponent>>

\* Mutant: a component that refers to itself is added like any other.
SelfDependencyAdded(c, d) ==
    /\ dependents' = [dependents EXCEPT ![d] = @ \cup {c}]
    /\ dependencies' = [dependencies EXCEPT ![c] = Append(@, d)]
    /\ UNCHANGED <<resources, mappedImages, kubernetesComponent>>

AddComponentDependency(c, d) ==
    /\ IF c = d
       THEN UNCHANGED <<dependents, dependencies>>
       ELSE /\ dependents' = [dependents EXCEPT ![d] = @ \cup {c}]
            /\ dependencies' = [dependencies EXCEPT ![c] = Append(@, d)]
    /\ UNCHANGED <<resources, mappedImages, kubernetesComponent>>
=============================================================================
