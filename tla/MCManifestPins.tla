---------------------------- MODULE MCManifestPins ----------------------------
(***************************************************************************)
(* Three releases of a manifest file, and what an operator may do to it.   *)
(***************************************************************************)
EXTENDS ManifestYaml

CONSTANTS f1, f2

Plain(key, value) == Entry(key, <<>>, ScalarNode(value, <<>>))
Noted(key, value, note) == Entry(key, <<>>, ScalarNode(value, <<<<Note(note)>>>>))
Listed(key, items) ==
    Entry(key, <<>>, SequenceNode([i \in DOMAIN items |-> ScalarNode(items[i], <<>>)],
                                  <<>>))
Under(key, entries) == Entry(key, <<>>, MappingNode(entries, <<>>))
Manifest(type, entries) ==
    MappingNode(<<Plain("kind", type), Plain("name", "n")>> \o entries, <<>>)
Named(name, value) == MappingNode(<<Plain("name", name), Plain("value", value)>>, <<>>)
Env(items) == Entry("env", <<>>, SequenceNode(items, <<>>))

Release1 ==
    <<Manifest("App", <<Plain("version", "v1"), Listed("hosts", <<"x", "y">>),
                        Env(<<Named("a", "v1")>>), Plain("old", "v1")>>),
      Manifest("Config", <<Plain("size", "v1")>>)>>
Release2 ==
    <<Manifest("App", <<Noted("version", "v2", "default"), Listed("hosts", <<"x", "z">>),
                        Env(<<Named("a", "v2"), Named("b", "v1")>>),
                        Under("new", <<Plain("p", "v1")>>)>>),
      Manifest("Config", <<Plain("size", "v1")>>)>>
Release3 ==
    <<CommentSection("about"),
      Manifest("App", <<Noted("version", "v3", "changed"), Listed("hosts", <<"z">>),
                        Env(<<Named("b", "v2")>>),
                        Under("new", <<Plain("p", "v2"), Plain("q", "v1")>>)>>)>>

Releases == {[f \in Files |-> r] : r \in {Release1, Release2, Release3}}

\* Releases of two files: one gives its only manifest another name.
Renaming(name, value) ==
    <<MappingNode(<<Plain("kind", "App"), Plain("name", name),
                    Plain("version", value), Plain("size", "v1")>>, <<>>)>>
Small(value) == <<Manifest("App", <<Plain("version", value)>>)>>
RenamingReleases == {f1 :> Small("v1") @@ f2 :> Renaming("n", "v1"),
                     f1 :> Small("v2") @@ f2 :> Renaming("m", "v2")}

MCEmptyFile == <<>>

\* The operator may leave a file that is not YAML.
Broken == <<CommentSection("not YAML")>>
MCUnparsable(content) == content = Broken

-----------------------------------------------------------------------------
(* Edits: one value, comment, item or entry is changed, added or removed. *)

Editable == {"version", "hosts", "env", "value", "new", "p", "size"}

\* A note in front, one behind, and the hints taken off.
CommentEdits(comment) ==
    LET own == <<Note("own")>> IN
    IF comment = <<>> THEN {<<own>>}
    ELSE {[comment EXCEPT ![1] = own \o @], [comment EXCEPT ![Len(comment)] = @ \o own],
          stripGLKAnnotation(comment)}

RECURSIVE NodeEdits(_)
NodeEdits(node) ==
    CASE node.kind = "scalar" ->
           {[node EXCEPT !.value = v] : v \in {"v1", "v2", "v3"} \ {node.value}}
           \cup {[node EXCEPT !.comment = c] : c \in CommentEdits(node.comment)}
      [] node.kind = "sequence" ->
           {[node EXCEPT !.content = SubSeq(@, 2, Len(@))]}
           \cup (IF allMappings({node}) THEN {}
                 ELSE {[node EXCEPT !.content = Append(@, ScalarNode("w", <<>>))]})
           \cup UNION {{[node EXCEPT !.content[i] = n] : n \in NodeEdits(node.content[i])} :
                           i \in {j \in DOMAIN node.content : node.content[j].kind = "mapping"}}
      [] node.kind = "mapping" ->
           (IF "own" \in Keys(node) THEN {}
            ELSE {[node EXCEPT !.content = Append(@, Plain("own", "w"))]})
           \cup UNION {{[node EXCEPT !.content = RemoveAt(@, i)]}
                  \cup {[node EXCEPT !.content[i].node = n] :
                            n \in NodeEdits(node.content[i].node)} :
                      i \in {j \in DOMAIN node.content : node.content[j].key \in Editable}}
      [] OTHER -> {}

MCEdits(content) ==
    IF content = NoFile THEN {(CHOOSE r \in Renderings : TRUE)[f1]}
    ELSE UNION {{RemoveAt(content, i)}
                \cup {[content EXCEPT ![i] = n] : n \in NodeEdits(content[i])} :
                    i \in DOMAIN content} \ {content}

BreakingEdits(content) == ({Broken} \cup MCEdits(content)) \ {content}

-----------------------------------------------------------------------------
(* The merge does what the theorem about untouched files takes it to do,   *)
(* for whatever a file may have in it that nobody edits.                   *)

RECURSIVE GeneratedFrom(_, _)
GeneratedFrom(f, contents) ==
    LET merged == {Merge(old, r[f], c) :
                       <<old, r, c>> \in {<<o, r, c>> \in DefaultsOf(f) \X Renderings \X contents :
                                            Equivalent(c, o)}}
    IN  IF merged \subseteq contents THEN contents
        ELSE GeneratedFrom(f, contents \cup merged)

ASSUME UntouchedAreFollowed ==
    MergeFollows([f \in Files |-> GeneratedFrom(f, {EmptyFile})])

-----------------------------------------------------------------------------
(* Every content, for the type invariant: the nodes of a manifest are      *)
(* nested at most four deep.                                               *)

Notes == [hint : BOOLEAN, text : STRING]
Nodes(content) ==
    [kind : {"scalar", "sequence", "mapping", "comment"},
     value : STRING, comment : Seq(Seq(Notes)), content : Seq(content)]
Level(nodes) == nodes \cup [key : STRING, comment : Seq(Seq(Notes)), node : nodes]
Depth1 == Nodes({})
Depth2 == Nodes(Level(Depth1))
Depth3 == Nodes(Level(Depth2))
Depth4 == Nodes(Level(Depth3))
MCContents == Seq(Depth4)
=============================================================================
