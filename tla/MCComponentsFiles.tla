--------------------------- MODULE MCComponentsFiles ---------------------------
(***************************************************************************)
(* Two releases of three components, of which one comes with the second,   *)
(* and a component that only OCM knows, in two versions.                   *)
(***************************************************************************)
EXTENDS ComponentsYaml

CONSTANTS Chart

Known(name, version) ==
    [name |-> name, version |-> version, sourceRepository |-> "src",
     resources |-> Unset, imageVectorOverwrite |-> Unset]
WithChart(entry, ref) ==
    [entry EXCEPT !.resources =
        [chart |-> [repository |-> IF ref = Unset THEN Chart ELSE Unset,
                    tag |-> Unset, ref |-> ref]]]

Gardener(version) == WithChart(Known("gardener", version), Unset)

MCReleases ==
    <<[builtin |-> <<Known("etcd", "v1"), Gardener("v1")>>,
       branch |-> <<Known("etcd", "v1"), Gardener("v1")>>],
      [builtin |-> <<Gardener("v2"), Known("new", "v1")>>,
       branch |-> <<Gardener("v2"), Known("new", "v2")>>]>>

\* Sorted by name and version, with references and image overwrites.
MCResolved ==
    {<<[WithChart(Known("gardener", "v1"), <<"mirror", "v1">>)
            EXCEPT !.imageVectorOverwrite = "images"],
       Known("tool", "v1"), Known("tool", "v2")>>}

-----------------------------------------------------------------------------
(* The parameters do what the theorems take them to do, for files that were *)
(* edited, merged and edited again.                                         *)

EditsOf(contents) ==
    UNION {UNION {{WithPin(file, i), WithoutEntry(file, i)} : i \in DOMAIN EntriesOf(file)}
               \cup {WithEntry(file, n) : n \in Custom} : file \in contents}
MergesOf(contents) ==
    {Merge(old, new, file) : old \in Defaults \cup {NoFile}, new \in Defaults,
                             file \in contents}

Unedited == Defaults \cup {Marshal(list) : list \in Resolved}
Edited == Unedited \cup EditsOf(Unedited \cup {NoFile})
Remerged == Edited \cup MergesOf(Edited)
MCContents == Remerged \cup EditsOf(Remerged)

ASSUME ContentsAreLists == AreContents(MCContents)
ASSUME EditsAreByName == EditsByName(MCContents)
ASSUME MergesAreByName == MergesByName(MCContents)
=============================================================================
