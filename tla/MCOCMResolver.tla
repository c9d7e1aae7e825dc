--------------------------- MODULE MCOCMResolver ----------------------------
(***************************************************************************)
(* Instances of OCMResolver.                                               *)
(***************************************************************************)
EXTENDS OCMResolver, TLC

CONSTANTS none, root, gardener, etcd, kube, tool, newTool, partial, broken

Resource(type, name) ==
    [type |-> type, name |-> name, label |-> none, target |-> none, version |-> "v1",
     original |-> none, local |-> TRUE, relative |-> TRUE,
     path |-> name, tag |-> "t1", images |-> {}]

Image(name) == Resource("ociImage", name)
LabelledImage(name, label) == [Image(name) EXCEPT !.label = label]
External(image) == [image EXCEPT !.local = FALSE, !.relative = FALSE]
Originally(image, tag) ==
    [image EXCEPT !.original = [host |-> none, path |-> "origin", tag |-> tag]]
ImageMap(chart, images) ==
    [Resource("helmchart-imagemap", chart) EXCEPT !.images = images]

LabelImage(name, id) ==
    [name |-> name, resource |-> none, id |-> id, from |-> none, target |-> none,
     version |-> none, at |-> [host |-> none, path |-> name, tag |-> "t0"],
     original |-> none, lookupOnly |-> FALSE, local |-> FALSE]

Reference(c, name, images) == [to |-> c, name |-> name, images |-> images]
Mapped(name, id, repository) == [name |-> name, id |-> id, repository |-> repository]

Descriptor(resources, references) ==
    [resources |-> resources, references |-> references, extra |-> {},
     mapped |-> <<>>, kubernetes |-> FALSE]

RootDescriptor ==
    Descriptor(<<>>, <<Reference(gardener, "gardener", <<>>),
                       Reference(newTool, "tool", <<>>)>>)

\* Two images of one component, one of them under another name.
GardenerDescriptor ==
    [Descriptor(<<LabelledImage("apiserver", "gardener-apiserver"), Image("adm"),
                  Resource("helmChart/v1", "chart"), ImageMap("chart", {"apiserver"})>>,
                <<Reference(etcd, "druid", <<LabelImage("etcd-druid", "druid")>>),
                  Reference(etcd, "again", <<LabelImage("etcd", none)>>)>>)
     EXCEPT !.mapped = <<Mapped("gardenadm", "adm", none),
                         Mapped("kube-apiserver", none, "registry/apiserver")>>]

\* etcd has an image called as one that it takes from the tool, and a cycle.
EtcdDescriptor ==
    Descriptor(<<Originally(LabelledImage("druid", "etcd-druid"), "t0"),
                 External(Image("etcd"))>>,
               <<Reference(tool, "tool", <<LabelImage("etcd", "helper")>>),
                 Reference(gardener, "gardener", <<>>)>>)

\* Two versions of one component, the new one with a component of images.
ToolDescriptor == Descriptor(<<LabelledImage("helper", "helper")>>, <<>>)
NewToolDescriptor == [ToolDescriptor EXCEPT !.extra = {kube}]

\* It refers to an image that the tool does not have.
PartialDescriptor == Descriptor(<<>>, <<Reference(tool, "tool", <<LabelImage("gone", none)>>)>>)

\* Its image has no tag.
BrokenDescriptor == Descriptor(<<[Image("adm") EXCEPT !.tag = none]>>, <<>>)

KubeDescriptor ==
    [Descriptor(<<External(LabelledImage("apiserver", "registry/apiserver"))>>, <<>>)
     EXCEPT !.kubernetes = TRUE]

AllDescriptors ==
    root :> RootDescriptor @@ gardener :> GardenerDescriptor @@ etcd :> EtcdDescriptor
        @@ kube :> KubeDescriptor @@ tool :> ToolDescriptor
        @@ newTool :> NewToolDescriptor
        @@ partial :> PartialDescriptor @@ broken :> BrokenDescriptor

Names == root :> "root" @@ gardener :> "gardener" @@ etcd :> "etcd"
             @@ kube :> "kube" @@ tool :> "tool" @@ newTool :> "tool"
             @@ partial :> "partial" @@ broken :> "broken"

ByName == <<broken, etcd, gardener, kube, partial, root, tool, newTool>>

Camel == [n \in {"apiserver", "gardener-apiserver", "adm", "chart", "druid",
                 "etcd-druid", "etcd", "helper", "registry/apiserver"} |-> n]

\* The mirror has two of the components, the second repository has all.
TwoRepositories == <<"mirror", "origin">>
StoredInTwo == [mirror |-> {gardener, etcd}, origin |-> {root, gardener, etcd, kube, tool, newTool,
                            partial, broken}]
TheirHosts == [mirror |-> "mirror.io", origin |-> "origin.io"]

Run(c, debug, originalRefs, ignoreMissing) ==
    [root |-> c, debug |-> debug, originalRefs |-> originalRefs,
     ignoreMissing |-> ignoreMissing]

\* All is found; there is no kubernetes component; and two that always fail.
FourRoots == {Run(root, TRUE, TRUE, FALSE), Run(gardener, FALSE, FALSE, TRUE),
              Run(partial, TRUE, FALSE, FALSE), Run(broken, FALSE, FALSE, TRUE)}

\* What the theorem about the order of the dependencies is under.
ASSUME UnambiguousInstance == UnambiguousImages
=============================================================================
