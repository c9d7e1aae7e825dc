----------------------------- MODULE ManifestYaml -----------------------------
(***************************************************************************)
(* The parameters of ManifestPins: manifest files as the YAML that         *)
(* ManifestMerge merges, and the places in them, which are paths into the  *)
(* manifest of a type, through mappings by key and through sequences by    *)
(* the name of the item.                                                   *)
(***************************************************************************)
EXTENDS ManifestPins, ManifestMerge

MergeInMode(old, new, currentFile) ==
    ThreeWayMergeManifest(old, new, currentFile, Mode)

Section(content, type) ==
    LET found == {i \in DOMAIN content : mappingValue(content[i], "kind") = type}
    IN  IF found = {} THEN ZeroNode ELSE content[CHOOSE i \in found : TRUE]

Names(node) ==
    Keys(node) \cup (IF node.kind = "sequence" THEN Ids(node, "name") \ {""} ELSE {})
Below(node, name) ==
    IF node.kind = "sequence" /\ name \in Names(node)
    THEN ItemAt(node, "name", name)
    ELSE EntryAt(node, name).node

RECURSIVE Follow(_, _)
Follow(node, path) ==
    IF path = <<>> THEN node ELSE Follow(Below(node, Head(path)), Tail(path))

RECURSIVE Paths(_)
Paths(node) ==
    {<<>>} \cup UNION {{<<n>> \o path : path \in Paths(Below(node, n))} :
                          n \in Names(node)}

NodeAt(content, place) == Follow(Section(content, place.type), place.path)

PlacesIn(content) ==
    UNION {{[type |-> mappingValue(s, "kind"), path |-> path] : path \in Paths(s)} :
               s \in {s \in ToSet(content) : Keys(s) # {}}}

PlacesAbove(place) ==
    {[place EXCEPT !.path = SubSeq(@, 1, i)] : i \in 0 .. Len(place.path)}

ValueAt(content, place) ==
    LET node == NodeAt(content, place)
    IN  IF node.kind = "scalar" THEN node.value ELSE NoValue

\* What was written behind a hint counts as a part of it.
CommentsAt(content, place) ==
    UNION {ToSet(line) : line \in ToSet(stripGLKAnnotation(NodeAt(content, place).comment))}

HintsAt(content, place) ==
    LET hints == SelectSeq(FlattenSeq(NodeAt(content, place).comment), LAMBDA n : n.hint)
    IN  [i \in DOMAIN hints |-> hints[i].text]

\* The contents that configure the same: the values of their manifests agree.
SameManifests(a, b) ==
    /\ PlacesIn(a) = PlacesIn(b)
    /\ \A p \in PlacesIn(a) : sameValue(NodeAt(a, p), NodeAt(b, p))
=============================================================================
