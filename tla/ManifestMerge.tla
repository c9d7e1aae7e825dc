---------------------------- MODULE ManifestMerge ----------------------------
(***************************************************************************)
(* The three-way merge of a manifest file: a sequence of sections, each a  *)
(* YAML mapping or a bare comment.  What PreProcess and PostProcess do to  *)
(* the indentation of comments, and the separators, are layout.            *)
(***************************************************************************)
EXTENDS YamlMerge

\* A section without any key is its own text and is carried along verbatim.
CommentSection(text) ==
    [kind |-> "comment", value |-> text, comment |-> <<>>, content |-> <<>>]
isComment(section) == section.kind = "comment"

\* Mutant: what the merge leaves is written as it is.
writtenAsIs(node) == node

\* A mapping that lost its last key, and the zero node, encode to a document
\* without keys.
encoded(node) == IF node.content = <<>> THEN CommentSection("blank") ELSE node

-----------------------------------------------------------------------------
(* Which sections of the three files belong together *)

\* "kind" stands for apiVersion and kind, "name" for namespace and name.
buildKey(section) ==
    LET type == mappingValue(section, "kind")
        name == mappingValue(section, "name")
    IN  [text |-> section.value,
         type |-> type,
         name |-> name,
         keys |-> IF type = "" /\ name = "" THEN Keys(section) ELSE {}]

\* The sections of a file by key: a later one takes the place of an earlier.
setSection(sections, section) ==
    LET same == {i \in DOMAIN sections : buildKey(sections[i]) = buildKey(section)}
    IN  IF same = {} THEN Append(sections, section)
        ELSE [i \in DOMAIN sections |-> IF i \in same THEN section ELSE sections[i]]

splitManifestFile(file) == FoldLeft(setSection, <<>>, file)

Manifests(sections) == SelectSeq(sections, LAMBDA s : ~isComment(s))

\* Mutant: a manifest that was renamed is another manifest.
neverNormalized(old, new, current) == FALSE

\* One manifest of one type in each of the files: its name does not matter.
singleManifests(old, new, current) ==
    /\ \A f \in {old, new, current} :
           Len(Manifests(f)) = 1 /\ buildKey(Manifests(f)[1]).type # ""
    /\ \A f, g \in {old, new, current} :
           buildKey(Manifests(f)[1]).type = buildKey(Manifests(g)[1]).type

sectionKey(section, normalized) ==
    IF normalized /\ ~isComment(section)
    THEN [buildKey(section) EXCEPT !.name = "normalized"]
    ELSE buildKey(section)

SectionKeys(sections, normalized) ==
    {sectionKey(sections[i], normalized) : i \in DOMAIN sections}

\* The section with this key, or the zero node.
sectionAt(sections, key, normalized) ==
    IF key \in SectionKeys(sections, normalized)
    THEN sections[CHOOSE i \in DOMAIN sections :
                      sectionKey(sections[i], normalized) = key]
    ELSE ZeroNode

-----------------------------------------------------------------------------
\* Mutant: whatever current lacks is added again.
appendedAgain(old, new, current, normalized) ==
    SelectSeq(new, LAMBDA s :
        sectionKey(s, normalized) \notin SectionKeys(current, normalized))

\* The sections of the new default that are new to both others.
collectAppendix(old, new, current, normalized) ==
    SelectSeq(new, LAMBDA s :
        sectionKey(s, normalized) \notin
            SectionKeys(current, normalized) \cup SectionKeys(old, normalized))

\* The sections of current come first, and in their order.
ThreeWayMergeManifest(oldDefault, newDefault, currentFile, mode) ==
    LET old == splitManifestFile(oldDefault)
        new == splitManifestFile(newDefault)
        current == splitManifestFile(currentFile)
        normalized == singleManifests(old, new, current)
        merged(section) ==
            LET key == sectionKey(section, normalized)
            IN  IF isComment(section) THEN section
                ELSE encoded(threeWayMerge(sectionAt(old, key, normalized),
                                           sectionAt(new, key, normalized),
                                           section, mode))
    IN  [i \in DOMAIN current |-> merged(current[i])]
        \o collectAppendix(old, new, current, normalized)
=============================================================================
