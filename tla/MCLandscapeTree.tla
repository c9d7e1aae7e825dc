---------------------------- MODULE MCLandscapeTree ----------------------------
(***************************************************************************)
(* A group with one component, in which an operator may have directories,  *)
(* and a custom component next to it.                                      *)
(***************************************************************************)
EXTENDS LandscapeTree

ASSUME ComponentsApartHere == ComponentsApart

Yaml == INSTANCE ManifestMerge

MCOrder == <<"components", "gardener", "operator", "resources", "patches", "own">>
MCParent == [gardener |-> "components", operator |-> "gardener", resources |-> "operator",
             patches |-> "resources", own |-> "components"]

-----------------------------------------------------------------------------
(* The merge of these files is the one of any manifest, in both modes.     *)

Items == {"base", "own", "group"}
Sequences3 == {s \in UNION {[1..n -> Items] : n \in 0..3} :
                  \A i, j \in DOMAIN s : s[i] = s[j] => i = j}

Kind == Yaml!Entry("kind", <<>>, Yaml!ScalarNode("Kustomization", <<>>))
Listing(s) == Yaml!Entry("resources", <<>>,
                         Yaml!SequenceNode([i \in DOMAIN s |-> Yaml!ScalarNode(s[i], <<>>)],
                                           <<>>))

\* The file and its abstraction.
Documents == {[yaml |-> <<>>, file |-> NoFile],
              [yaml |-> <<Yaml!MappingNode(<<Kind>>, <<>>)>>, file |-> NewKustomization({})]}
                 \cup {[yaml |-> <<Yaml!MappingNode(<<Kind, Listing(s)>>, <<>>)>>,
                        file |-> [lists |-> TRUE, resources |-> {s[i] : i \in DOMAIN s}]] :
                           s \in Sequences3}

ListIn(yaml) == Yaml!EntryAt(yaml[1], "resources").node
Abstracted(yaml) ==
    [lists |-> "resources" \in Yaml!Keys(yaml[1]),
     resources |-> {ListIn(yaml).content[i].value : i \in DOMAIN ListIn(yaml).content}]

\* A file that is gone while its default is there is not merged.  A new
\* default is there and has no empty list.
ASSUME MergeIsThatOfManifests ==
    \A mode \in {"Hint", "Silent"} : \A old, new, current \in Documents :
        /\ new.file # NoFile /\ (Lists(new.file) => Resources(new.file) # {})
        /\ ~(old.file # NoFile /\ current.file = NoFile)
        => Abstracted(Yaml!ThreeWayMergeManifest(old.yaml, new.yaml, current.yaml, mode)) =
               MergedKustomization(old.file, new.file, current.file)
=============================================================================
