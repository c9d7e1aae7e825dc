--------------------------- MODULE ComponentVectors ---------------------------
(***************************************************************************)
(* Component vectors: the built-in list of components and the components   *)
(* files that override it.  An entry is a name with fields, each of which  *)
(* may be unset; a list may have several entries of one name.              *)
(***************************************************************************)
EXTENDS Integers, Sequences, FiniteSets

CONSTANTS
    Unset, \* the zero value of a field
    None   \* no entry, no vector

\* The two image vector overwrites are treated alike and are one field here.
Fields == {"sourceRepository", "version", "resources", "imageVectorOverwrite"}

IsList(list) ==
    /\ list \in Seq({list[i] : i \in DOMAIN list})
    /\ \A i \in DOMAIN list : list[i] = [f \in {"name"} \cup Fields |-> list[i][f]]

NamesOf(list) == {list[i].name : i \in DOMAIN list}

\* The positions of the entries of that name that set the field f.
Setting(list, name, f) == {i \in DOMAIN list : list[i].name = name /\ list[i][f] # Unset}

FirstOf(I) == CHOOSE i \in I : \A j \in I : i <= j
LastOf(I) == CHOOSE i \in I : \A j \in I : j <= i

\* The entries at the positions I, in their order.
Rank(I, i) == Cardinality({j \in I : j <= i})
EntriesAt(list, I) ==
    [k \in 1 .. Cardinality(I) |-> list[CHOOSE i \in I : Rank(I, i) = k]]

Unique(list) == \A i, j \in DOMAIN list : list[i].name = list[j].name => i = j

\* What the entries of a name say of a field: the first that sets it decides.
Says(list, n, f) ==
    IF Setting(list, n, f) = {} THEN Unset ELSE list[FirstOf(Setting(list, n, f))][f]

\* A Go map from names to the entries of a list: of several, the last stays.
Named(list, name) ==
    LET hits == {i \in DOMAIN list : list[i].name = name}
    IN  IF hits = {} THEN None ELSE list[LastOf(hits)]

-----------------------------------------------------------------------------
(* Validation.  What a source repository or a name looks like is left out. *)

validateComponentVector(entry) == entry.name # Unset /\ entry.version # Unset

ValidateComponents(list) ==
    /\ list # <<>>
    /\ \A i \in DOMAIN list : validateComponentVector(list[i])
    /\ Unique(list)

-----------------------------------------------------------------------------
(* Overrides. *)

\* Mutant: an override that names a component replaces all that is known of it.
replaced(ov, list) == ov

(***************************************************************************)
(* mergeComponentVector fills what the override leaves unset.  It does so  *)
(* in place and once for each entry of that name in the base, so that of   *)
(* several entries the first that sets a field decides.                    *)
(***************************************************************************)
mergeComponentVector(ov, base) ==
    [f \in {"name"} \cup Fields |->
        IF f = "name" \/ ov[f] # Unset THEN ov[f] ELSE Says(base, ov.name, f)]

mergeComponents(base, override) ==
    [i \in DOMAIN base |->
        IF base[i].name \in NamesOf(override)
        THEN mergeComponentVector(Named(override, base[i].name), base)
        ELSE base[i]]
    \o EntriesAt(override, {i \in DOMAIN override : override[i].name \notin NamesOf(base)})

\* The vector of a list: for each name, an entry.
VectorOf(list) == [n \in NamesOf(list) |-> Named(list, n)]

\* Mutant: the overrides are applied from the last to the first.
mergedBackwards(base, first, second) ==
    mergeComponents(mergeComponents(base, second), first)

merged(base, first, second) ==
    mergeComponents(mergeComponents(base, first), second)

(***************************************************************************)
(* NewWithOverride with two overrides, of which one may be empty.  The     *)
(* base is validated as a list, what comes of the merge entry by entry.    *)
(***************************************************************************)
NewWithOverride(base, first, second) ==
    LET list == merged(base, first, second)
    IN  IF ValidateComponents(base)
           /\ \A i \in DOMAIN list : validateComponentVector(list[i])
        THEN VectorOf(list)
        ELSE None

FindComponentVersion(vector, name) ==
    IF name \in DOMAIN vector THEN vector[name].version ELSE Unset

-----------------------------------------------------------------------------
(* Template values.  A resource has one artifact, a chart or an image.     *)

\* Mutant: the version of the component is not taken for a tag.
latest(artifact, version) ==
    IF artifact.ref # Unset THEN artifact.ref
    ELSE <<artifact.repository, artifact.tag>>

\* ensureReferences for one artifact: an explicit reference is kept.
ensureReference(artifact, version) ==
    IF artifact.ref # Unset THEN artifact.ref
    ELSE <<artifact.repository,
           IF artifact.tag # Unset THEN artifact.tag ELSE version>>

ensureReferencesFails(entry) ==
    entry.resources # Unset /\
        \E r \in DOMAIN entry.resources :
            entry.resources[r].ref = Unset /\ entry.resources[r].repository = Unset

TemplateValues(entry) ==
    IF ensureReferencesFails(entry) THEN None
    ELSE [version |-> entry.version,
          resources |->
             IF entry.resources = Unset THEN <<>>
             ELSE [r \in DOMAIN entry.resources |->
                      ensureReference(entry.resources[r], entry.version)],
          imageVectorOverwrite |-> entry.imageVectorOverwrite]

\* Mutant: the versions are left out of the default.
nameOnly(entry) == [f \in {"name"} \cup Fields |-> IF f = "name" THEN entry[f] ELSE Unset]

\* NameVersionBytes: what remains of an entry in the default of components.yaml.
NameVersion(entry) ==
    [f \in {"name"} \cup Fields |->
        IF f \in {"name", "version"} THEN entry[f] ELSE Unset]

=============================================================================
