--------------------------- MODULE ComponentsFiles ----------------------------
(***************************************************************************)
(* The components.yaml of the base and of the landscape repository, what   *)
(* the resolve commands and operators do to them, and the versions and     *)
(* references that the generate commands take from them.  A run is one     *)
(* step here; ManifestWriter has the steps in which it writes a file.      *)
(*                                                                         *)
(* What is in a file, how two contents are merged and what an edit makes   *)
(* of one are parameters; ComponentsYaml has them.                         *)
(***************************************************************************)
EXTENDS ComponentVectors

CONSTANTS
    Files,    \* components files
    Releases, \* the sequence of releases: built-in vector, release branch
    Resolved, \* lists that resolve ocm may write
    Pin,      \* a version that no release has
    Custom,   \* names that operators add entries of
    MaxEdits, \* bound on the number of edits
    NoFile,
    Marshal(_),        \* a list of entries as a content
    Unmarshal(_),      \* and back
    Merge(_, _, _),    \* of the old default, the new default and the current
    WithPin(_, _),     \* the entry at a position gets the version Pin
    WithoutEntry(_, _),
    WithEntry(_, _)    \* an entry with that name and the version Pin is appended

\* The vectors that resolve plain may have from a release.
Vectors == UNION {{Releases[i].builtin, Releases[i].branch} : i \in DOMAIN Releases}

ASSUME FilesAssumption ==
    /\ Files = {"base", "landscape"}
    /\ Releases \in Seq([builtin : Vectors, branch : Vectors]) /\ Releases # <<>>
    /\ \A list \in Vectors \cup Resolved : IsList(list)
    /\ Pin # Unset /\ \A list \in Vectors : \A i \in DOMAIN list : list[i].version # Pin
    /\ MaxEdits \in Nat

\* A file that does not exist has no entries.
EntriesOf(file) == IF file = NoFile THEN <<>> ELSE Unmarshal(file)

VARIABLES
    release,   \* number of the installed release
    content,   \* components.yaml
    snapshot,  \* .glk/defaults/components.yaml
    edits,     \* number of edits so far
    pins,      \* names whose version was set by hand and not touched since
    touched    \* names whose entry anybody but resolve plain has changed

vars == <<release, content, snapshot, edits, pins, touched>>

-----------------------------------------------------------------------------
(* The resolve commands. *)

\* The names and versions of a vector, which resolve plain has for a default.
NamesAndVersions(vector) == [i \in DOMAIN vector |-> NameVersion(vector[i])]
NameVersionBytes(vector) == Marshal(NamesAndVersions(vector))

\* Mutant: the default that was merged is written only the first time.
SnapshotOnce(f, new) ==
    snapshot' = IF snapshot[f] = NoFile THEN [snapshot EXCEPT ![f] = new] ELSE snapshot

WriteSnapshot(f, new) == snapshot' = [snapshot EXCEPT ![f] = new]

(***************************************************************************)
(* resolve plain with the vector built into the release, or the one that   *)
(* the release branch has by now, which may be unavailable.  An entry that  *)
(* the vector has no more is dropped, and a pin with it.                    *)
(***************************************************************************)
ResolvePlain(f) ==
    /\ ~(snapshot[f] # NoFile /\ content[f] = NoFile) \* deleted by the user
    /\ \E vector \in {Releases[release].builtin, Releases[release].branch} :
           /\ ValidateComponents(vector)
           /\ LET new == NameVersionBytes(vector)
              IN  /\ content' = [content EXCEPT ![f] = Merge(snapshot[f], new, @)]
                  /\ WriteSnapshot(f, new)
                  /\ pins' = [pins EXCEPT ![f] =
                          @ \ (NamesOf(EntriesOf(snapshot[f])) \ NamesOf(vector))]
    /\ UNCHANGED <<release, edits, touched>>

Everything == Custom \cup UNION {NamesOf(list) : list \in Vectors \cup Resolved}

\* resolve ocm replaces the file and leaves the default of resolve plain alone.
ResolveOCM(f) ==
    /\ \E list \in Resolved : content' = [content EXCEPT ![f] = Marshal(list)]
    /\ pins' = [pins EXCEPT ![f] = {}]
    /\ touched' = [touched EXCEPT ![f] = Everything]
    /\ UNCHANGED <<release, snapshot, edits>>

-----------------------------------------------------------------------------
(* The generate commands. *)

\* The overrides a run reads, of the files its configuration lists.
Layer(f, listed) == IF f \in listed THEN EntriesOf(content[f]) ELSE <<>>

\* readComponentsFile fails on a listed file that does not exist.
readComponentsFileFails(listed) == \E f \in listed : content[f] = NoFile

(***************************************************************************)
(* NewOptions and NewLandscapeOptions: the built-in vector is overridden   *)
(* by the file of the base and, for a landscape, by its own file.          *)
(***************************************************************************)
loadComponentVector(listed) ==
    IF readComponentsFileFails(listed) THEN None
    ELSE NewWithOverride(Releases[release].builtin,
                         Layer("base", listed), Layer("landscape", listed))

-----------------------------------------------------------------------------
(* Operators and releases. *)

(***************************************************************************)
(* The operator leaves this in the file.  With two entries of a name the   *)
(* items are merged by position or as sets, so that a version may even     *)
(* move to another name: no pin is followed and no entry untouched from    *)
(* then on.                                                                *)
(***************************************************************************)
Rewrite(f, file, pinned, n) ==
    LET unique == Unique(Unmarshal(file))
    IN  /\ edits < MaxEdits
        /\ edits' = edits + 1
        /\ content' = [content EXCEPT ![f] = file]
        /\ pins' = [pins EXCEPT ![f] = IF unique THEN pinned ELSE {}]
        /\ touched' = [touched EXCEPT ![f] = IF unique THEN @ \cup {n} ELSE Everything]
        /\ UNCHANGED <<release, snapshot>>

PinVersion(f) ==
    LET list == EntriesOf(content[f])
    IN  \E i \in DOMAIN list :
            /\ list[i].version \notin {Unset, Pin}
            /\ Rewrite(f, WithPin(content[f], i), pins[f] \cup {list[i].name}, list[i].name)

RemoveEntry(f) ==
    LET list == EntriesOf(content[f])
    IN  \E i \in DOMAIN list :
            Rewrite(f, WithoutEntry(content[f], i), pins[f] \ {list[i].name}, list[i].name)

\* A component of the operator's own, or a second entry of a known one.
AddEntry(f) ==
    \E n \in Custom : Rewrite(f, WithEntry(content[f], n), pins[f] \cup {n}, n)

DeleteFile(f) ==
    /\ edits < MaxEdits /\ content[f] # NoFile
    /\ edits' = edits + 1
    /\ content' = [content EXCEPT ![f] = NoFile]
    /\ pins' = [pins EXCEPT ![f] = {}]
    /\ touched' = [touched EXCEPT ![f] = Everything]
    /\ UNCHANGED <<release, snapshot>>

Upgrade ==
    /\ release < Len(Releases)
    /\ release' = release + 1
    /\ UNCHANGED <<content, snapshot, edits, pins, touched>>

Init ==
    /\ release = 1 /\ edits = 0
    /\ content = [f \in Files |-> NoFile]
    /\ snapshot = [f \in Files |-> NoFile]
    /\ pins = [f \in Files |-> {}]
    /\ touched = [f \in Files |-> {}]

Next ==
    \/ Upgrade
    \/ \E f \in Files :
           ResolvePlain(f) \/ ResolveOCM(f)
               \/ PinVersion(f) \/ RemoveEntry(f) \/ AddEntry(f) \/ DeleteFile(f)

Spec == Init /\ [][Next]_vars

-----------------------------------------------------------------------------
(***************************************************************************)
(* What the parameters do, for a set of contents.                          *)
(***************************************************************************)
Defaults == {Marshal(NamesAndVersions(v)) : v \in {u \in Vectors : ValidateComponents(u)}}

AreContents(Contents) ==
    /\ NoFile \notin Contents
    /\ \A file \in Contents : IsList(Unmarshal(file))
    /\ \A vector \in Vectors : ValidateComponents(vector) =>
           Unmarshal(NameVersionBytes(vector)) = NamesAndVersions(vector)
    /\ \A list \in Resolved : Unmarshal(Marshal(list)) = list

Closed(Contents) ==
    /\ Defaults \subseteq Contents /\ {Marshal(list) : list \in Resolved} \subseteq Contents
    /\ \A file \in Contents \cup {NoFile} :
           /\ \A old \in Defaults \cup {NoFile}, new \in Defaults :
                  file # NoFile \/ old = NoFile => Merge(old, new, file) \in Contents
           /\ \A i \in DOMAIN EntriesOf(file) :
                  {WithPin(file, i), WithoutEntry(file, i)} \subseteq Contents
           /\ \A n \in Custom : WithEntry(file, n) \in Contents

EditsByName(Contents) ==
    \A file \in Contents \cup {NoFile} : LET list == EntriesOf(file) IN
        /\ \A i \in DOMAIN list :
               /\ list[i].version # Unset =>
                      Unmarshal(WithPin(file, i)) =
                          [list EXCEPT ![i].version = Pin]
               /\ Unmarshal(WithoutEntry(file, i)) = EntriesAt(list, DOMAIN list \ {i})
        /\ \A n \in Custom :
               Unmarshal(WithEntry(file, n)) =
                   Append(list, [f \in {"name"} \cup Fields |->
                                    CASE f = "name" -> n
                                      [] f = "version" -> Pin
                                      [] OTHER -> Unset])

(***************************************************************************)
(* Entries are merged by name, if no name comes twice: the default decides *)
(* on a version that is still the one of the old default, and an entry the *)
(* default had and has no more is dropped.                                 *)
(***************************************************************************)
MergesByName(Contents) ==
    \A file \in Contents \cup {NoFile}, old \in Defaults \cup {NoFile}, new \in Defaults :
        LET before == EntriesOf(old)
            list == EntriesOf(file)
            after == Unmarshal(Merge(old, new, file))
        IN  file # NoFile \/ old = NoFile =>
            /\ NamesOf(after) \subseteq NamesOf(list) \cup NamesOf(Unmarshal(new))
            /\ Unique(list) =>
               /\ Unique(after)
               /\ \A n \in NamesOf(before) \cup NamesOf(list) \cup NamesOf(Unmarshal(new)) :
                      Says(after, n, "version") =
                          IF n \in NamesOf(before) \ NamesOf(Unmarshal(new)) THEN Unset
                          ELSE IF Says(list, n, "version") = Says(before, n, "version")
                          THEN Says(Unmarshal(new), n, "version")
                          ELSE Says(list, n, "version")

-----------------------------------------------------------------------------
(* Properties *)

TypeOK ==
    /\ release \in DOMAIN Releases
    /\ edits \in 0..MaxEdits
    /\ {DOMAIN content, DOMAIN snapshot, DOMAIN pins, DOMAIN touched} = {Files}
    /\ \A f \in Files :
           /\ pins[f] \subseteq touched[f] /\ touched[f] \subseteq Everything
           /\ IsList(EntriesOf(content[f])) /\ IsList(EntriesOf(snapshot[f]))
           /\ snapshot[f] # NoFile => ValidateComponents(Unmarshal(snapshot[f]))

FileSets == {listed \in SUBSET Files : loadComponentVector(listed) # None}

(***************************************************************************)
(* A version set by hand is the one the generate commands use, however     *)
(* many releases and runs of resolve plain later: in a landscape that of   *)
(* its own file, and otherwise that of the base.                           *)
(***************************************************************************)
PinsTakeEffect ==
    \A listed \in FileSets : \A f \in listed : \A n \in pins[f] :
        (f = "base" => Says(Layer("landscape", listed), n, "version") = Unset)
            => FindComponentVersion(loadComponentVector(listed), n) = Pin

(***************************************************************************)
(* A hand-set version moves every reference of its component that is made  *)
(* of the built-in repository and the version, unless a file says more     *)
(* about the resources.                                                    *)
(***************************************************************************)
ReferencesFollowPins ==
    \A listed \in FileSets : \A n \in UNION {pins[f] : f \in listed} :
        LET default == Named(Releases[release].builtin, n)
            entry == loadComponentVector(listed)[n]
        IN  /\ default # None /\ default.resources # Unset
            /\ \A f \in listed : Says(Layer(f, listed), n, "resources") = Unset
            => \A r \in DOMAIN default.resources :
                   LET artifact == default.resources[r]
                   IN  /\ artifact.ref = Unset /\ artifact.tag = Unset
                       /\ TemplateValues(entry) # None
                       => TemplateValues(entry).resources[r] =
                              <<artifact.repository, entry.version>>

(***************************************************************************)
(* An entry nobody touched has the version of the last default that was    *)
(* merged, whatever was done to the entries around it.                     *)
(***************************************************************************)
UntouchedFollowDefault ==
    \A f \in Files : snapshot[f] # NoFile /\ content[f] # NoFile =>
        \A n \in Everything \ touched[f] :
            Says(Unmarshal(content[f]), n, "version") =
                Says(Unmarshal(snapshot[f]), n, "version")

(***************************************************************************)
(* Every field of a component is the one of the landscape's file, or else  *)
(* of the base's, or else the built-in one.                                *)
(***************************************************************************)
LayersDecide ==
    \A listed \in FileSets :
        LET layers == <<Layer("landscape", listed), Layer("base", listed),
                        Releases[release].builtin>>
            vector == loadComponentVector(listed)
        IN  (\A l \in DOMAIN layers : Unique(layers[l])) =>
            /\ DOMAIN vector = UNION {NamesOf(layers[l]) : l \in DOMAIN layers}
            /\ \A n \in DOMAIN vector, f \in Fields :
                   LET saying == {l \in DOMAIN layers : Says(layers[l], n, f) # Unset}
                   IN  vector[n][f] = IF saying = {} THEN Unset
                                      ELSE Says(layers[FirstOf(saying)], n, f)
=============================================================================
