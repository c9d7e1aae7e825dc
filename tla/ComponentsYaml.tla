---------------------------- MODULE ComponentsYaml ----------------------------
(***************************************************************************)
(* The parameters of ComponentsFiles: components.yaml as the YAML that     *)
(* ManifestMerge merges, the conversion from and to lists of entries, and  *)
(* the edits.                                                              *)
(***************************************************************************)
EXTENDS ComponentsFiles, ManifestMerge

CONSTANT Mode \* merge mode

Given(key, value) ==
    IF value = Unset THEN <<>> ELSE <<Entry(key, <<>>, ScalarNode(value, <<>>))>>

ArtifactNode(artifact) ==
    MappingNode(Given("repository", artifact.repository) \o Given("tag", artifact.tag)
                    \o Given("ref", artifact.ref), <<>>)

ResourcesNode(resources) ==
    LET names == SetToSeq(DOMAIN resources)
    IN  MappingNode([i \in DOMAIN names |->
                        Entry(names[i], <<>>, ArtifactNode(resources[names[i]]))], <<>>)

EntryNode(entry) ==
    MappingNode(Given("name", entry.name)
                    \o Given("sourceRepository", entry.sourceRepository)
                    \o Given("version", entry.version)
                    \o (IF entry.resources = Unset THEN <<>>
                        ELSE <<Entry("resources", <<>>, ResourcesNode(entry.resources))>>)
                    \o Given("imageVectorOverwrite", entry.imageVectorOverwrite), <<>>)

WithItems(items) ==
    <<MappingNode(<<Entry("components", <<>>, SequenceNode(items, <<>>))>>, <<>>)>>

Read(file) == IF file = NoFile THEN <<>> ELSE file

Items(file) ==
    IF Read(file) = <<>> THEN <<>>
    ELSE EntryAt(file[1], "components").node.content

MarshalYaml(list) == WithItems([i \in DOMAIN list |-> EntryNode(list[i])])

ValueOf(node, key) == IF key \in Keys(node) THEN mappingValue(node, key) ELSE Unset

ParsedArtifact(node) ==
    [repository |-> ValueOf(node, "repository"), tag |-> ValueOf(node, "tag"),
     ref |-> ValueOf(node, "ref")]

ParsedEntry(node) ==
    LET resources == EntryAt(node, "resources").node
    IN  [name |-> ValueOf(node, "name"),
         sourceRepository |-> ValueOf(node, "sourceRepository"),
         version |-> ValueOf(node, "version"),
         resources |-> IF resources.kind # "mapping" THEN Unset
                       ELSE [r \in Keys(resources) |->
                                ParsedArtifact(EntryAt(resources, r).node)],
         imageVectorOverwrite |-> ValueOf(node, "imageVectorOverwrite")]

UnmarshalYaml(file) == [i \in DOMAIN Items(file) |-> ParsedEntry(Items(file)[i])]

-----------------------------------------------------------------------------
MergeYaml(old, new, file) == ThreeWayMergeManifest(Read(old), new, Read(file), Mode)

Pinned(item) ==
    [item EXCEPT !.content =
        [i \in DOMAIN @ |-> IF @[i].key = "version" THEN [@[i] EXCEPT !.node.value = Pin]
                            ELSE @[i]]]

PinnedYaml(file, i) == WithItems([Items(file) EXCEPT ![i] = Pinned(@)])
WithoutItem(file, i) == WithItems(RemoveAt(Items(file), i))
WithItem(file, n) ==
    WithItems(Append(Items(file),
                     EntryNode([name |-> n, version |-> Pin, sourceRepository |-> Unset,
                                resources |-> Unset, imageVectorOverwrite |-> Unset])))
=============================================================================
