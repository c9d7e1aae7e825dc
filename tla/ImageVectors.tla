---------------------------- MODULE ImageVectors ----------------------------
(***************************************************************************)
(* What the OCM resolver computes from the component descriptors: image    *)
(* vectors, resources, and the entries of components.yaml.  Descriptors    *)
(* are constants; what a walk learns is where each descriptor was found    *)
(* and in which order the dependencies were recorded, the latter being the *)
(* order of a Go map.  Image vectors are sorted and stand as sets.         *)
(***************************************************************************)
EXTENDS Integers, Sequences

CONSTANTS
    Refs,        \* component references
    Name,        \* Name[c]: a reference without its version
    Descriptors, \* Descriptors[c]: resources, references, extra, mapped, kubernetes
    CamelCase,   \* CamelCase[n]: a resource name without dashes
    None         \* a nil pointer or an absent label

Members(s) == {s[i] : i \in DOMAIN s}

ASSUME DescriptorsAssumption ==
    /\ DOMAIN Name = Refs
    /\ DOMAIN Descriptors = Refs
    /\ None \notin Refs
    /\ \A c \in Refs :
           /\ Descriptors[c].resources \in Seq(Members(Descriptors[c].resources))
           /\ Descriptors[c].references \in Seq(Members(Descriptors[c].references))
    \* the location in a label is as written there, without a repository's host
    /\ \A c \in Refs : \A ref \in Members(Descriptors[c].references) :
           /\ ref.images \in Seq(Members(ref.images))
           /\ \A img \in Members(ref.images) :
                  {"at", "from"} \subseteq DOMAIN img /\ img.at.host = None
    \* of two names that differ in dashes only, a random one would remain
    /\ \A n, m \in DOMAIN CamelCase : CamelCase[n] = CamelCase[m] => n = m

VARIABLES
    dependencies, \* [Refs -> Seq(Refs)], <<>> for an absent key
    host          \* [Refs -> repository host or None]

\* The first element of a list, of which some positions may be left out.
FirstOf(list) == list[CHOOSE i \in DOMAIN list : \A j \in DOMAIN list : i <= j]

Registered == {c \in Refs : dependencies[c] # <<>>}

-----------------------------------------------------------------------------
(* Descriptors. *)

\* A relative reference gets the host of the repository of its component.
extractImageReference(res, h) ==
    [host |-> IF res.relative THEN h ELSE None, path |-> res.path, tag |-> res.tag]

(***************************************************************************)
(* An image without a name label can only be looked up by others.          *)
(***************************************************************************)
resourceToImageSource(res, h) ==
    LET labelled == res.label # None
    IN  [name |-> IF labelled THEN res.label ELSE res.name,
         resource |-> IF labelled THEN res.name ELSE None,
         id |-> None, from |-> None, target |-> res.target,
         version |-> res.version, at |-> extractImageReference(res, h),
         original |-> res.original, lookupOnly |-> ~labelled, local |-> res.local]

ResourcesOf(c, type) ==
    LET resources == Descriptors[c].resources
    IN  [i \in {j \in DOMAIN resources : resources[j].type = type} |-> resources[i]]

extractImageVectorFromResources(c) ==
    LET images == ResourcesOf(c, "ociImage")
    IN  [i \in DOMAIN images |-> resourceToImageSource(images[i], host[c])]

\* The references of c to d, those without an image in their label left out.
ReferencedImages(c, d) ==
    LET refs == Descriptors[c].references
    IN  [i \in {j \in DOMAIN refs : refs[j].to = d /\ refs[j].images # <<>>} |->
            [refs[i].images[1] EXCEPT !.from = d]]

\* Dependency.ImageVector of the entry for d below c.
ImageVectorOf(c, d) ==
    IF c = d THEN extractImageVectorFromResources(c) ELSE ReferencedImages(c, d)

\* Dependency.LocalName: the first reference decides, extra ones have none.
LocalName(c, d) ==
    LET refs == Descriptors[c].references
        named == [i \in {j \in DOMAIN refs : refs[j].to = d} |-> refs[i].name]
    IN  IF named = <<>> THEN None ELSE FirstOf(named)

\* The components c refers to, apart from itself.
References(c) ==
    ({ref.to : ref \in Members(Descriptors[c].references)} \cup Descriptors[c].extra)
        \ {c}

(***************************************************************************)
(* A descriptor whose resources or references cannot be converted: an      *)
(* image without a tag, or a reference with more than one image.           *)
(***************************************************************************)
Malformed(c) ==
    \/ \E res \in Members(ResourcesOf(c, "ociImage")) : res.tag = None
    \/ \E ref \in Members(Descriptors[c].references) : Len(ref.images) > 1

mappedImages(c) == IF c \in Registered THEN Descriptors[c].mapped ELSE <<>>

kubernetesComponents == {c \in Registered : Descriptors[c].kubernetes}

-----------------------------------------------------------------------------
(* Image vectors. *)

EffectiveResourceName(img) == IF img.resource # None THEN img.resource ELSE img.name

\* The name c gives to an image it only looks up, that of the first of the
\* images it maps that has the name or the id of img; None if there is none.
mappedName(c, img) ==
    LET mapped == mappedImages(c)
        hits == [i \in {j \in DOMAIN mapped : img.name \in {mapped[j].name, mapped[j].id}}
                    |-> mapped[i].name]
    IN  IF img.lookupOnly /\ hits # <<>> THEN FirstOf(hits) ELSE None

Matching(images, name) ==
    [i \in {j \in DOMAIN images : EffectiveResourceName(images[j]) = name} |-> images[i]]

(***************************************************************************)
(* The images of that resource name that each dependency of c has, for the *)
(* dependencies that have one.  The lookup takes the first of the first.   *)
(***************************************************************************)
Found(c, name) ==
    LET images == [i \in DOMAIN dependencies[c] |->
                      Matching(ImageVectorOf(c, dependencies[c][i]), name)]
    IN  [i \in {j \in DOMAIN images : images[j] # <<>>} |-> images[i]]

LookupName(img) == IF img.id # None THEN img.id ELSE img.name

lookup(img) == Found(img.from, LookupName(img))

ImagesOf(c) == UNION {Members(ImageVectorOf(c, d)) : d \in Members(dependencies[c])}

Listed(c) == {img \in ImagesOf(c) : img.lookupOnly => mappedName(c, img) # None}

\* The image itself, or the one it stands for in another component.
Source(img) == IF img.from # None THEN FirstOf(FirstOf(lookup(img))) ELSE img

WithoutTag(source) == source.original # None /\ source.original.tag = None

(***************************************************************************)
(* The errors of getImageVector: an image the referenced component does    *)
(* not have, and an original reference without a tag.                      *)
(***************************************************************************)
getImageVectorFails(c, originalRef) ==
    \E img \in Listed(c) :
        \/ img.from # None /\ lookup(img) = <<>>
        \/ originalRef /\ WithoutTag(Source(img))

(***************************************************************************)
(* getImageVector for one image of c.  A referenced image has the location *)
(* that the referenced component gives it, under the name and the target   *)
(* of the reference.                                                       *)
(***************************************************************************)
imageSource(img, source, mapped, originalRef) ==
    [name |-> IF img.from = None /\ mapped # None THEN mapped ELSE img.name,
     target |-> img.target,
     version |-> source.version,
     at |-> IF originalRef /\ source.original # None THEN source.original ELSE source.at]

getImageVector(c, originalRef) ==
    {imageSource(img, Source(img), mappedName(c, img), originalRef) : img \in Listed(c)}

GetImageVectorFails(c, originalRef) ==
    \/ getImageVectorFails(c, originalRef)
    \/ /\ mappedImages(c) # <<>>
       /\ \/ kubernetesComponents = {}
          \/ \E k \in kubernetesComponents : getImageVectorFails(k, originalRef)

\* mappedNames[repository]: of several images of one repository, the last.
mappedNames(c) ==
    LET repositories == {m.repository : m \in Members(mappedImages(c))} \ {None}
        Last(r) == CHOOSE i \in DOMAIN mappedImages(c) :
                       /\ mappedImages(c)[i].repository = r
                       /\ \A j \in DOMAIN mappedImages(c) :
                              mappedImages(c)[j].repository = r => j <= i
    IN  [r \in repositories |-> mappedImages(c)[Last(r)].name]

(***************************************************************************)
(* GetImageVector: a component that maps images also lists the images of   *)
(* the kubernetes component, one for each version there is.                *)
(***************************************************************************)
GetImageVector(c, originalRef) ==
    getImageVector(c, originalRef) \cup
        {[image EXCEPT !.name = mappedNames(c)[image.name], !.target = image.version] :
            image \in {i \in UNION {getImageVector(k, originalRef) : k \in kubernetesComponents} :
                          i.name \in DOMAIN mappedNames(c)}}

-----------------------------------------------------------------------------
(* Entries of components.yaml. *)

LocalImages(c) ==
    {img \in Members(extractImageVectorFromResources(c)) : img.local}

(***************************************************************************)
(* ociImageRefs: the local images of c by name and by alias.  Names are    *)
(* taken to be unique within a component.                                  *)
(***************************************************************************)
imageNames(img) == {img.name, EffectiveResourceName(img)}
ociImageRef(c, n) == (CHOOSE img \in LocalImages(c) : n \in imageNames(img)).at

imageMaps(c) == Members(ResourcesOf(c, "helmchart-imagemap"))
helmCharts(c) == Members(ResourcesOf(c, "helmChart/v1"))

(***************************************************************************)
(* insertDataFromHelmChartImageMap fails on an image that is not local,    *)
(* and on a map without a chart of its name.                               *)
(***************************************************************************)
insertDataFails(c) ==
    \E map \in imageMaps(c) :
        \/ \E n \in map.images : \A img \in LocalImages(c) : n \notin imageNames(img)
        \/ \A chart \in helmCharts(c) : chart.name # map.name

\* ResourceData.HelmChart of the chart called n: where it is, and its images.
HelmChart(c, n) ==
    {[at |-> extractImageReference(chart, host[c]),
      images |-> UNION {{<<i, ociImageRef(c, i)>> : i \in map.images} :
                           map \in {m \in imageMaps(c) : m.name = n}}] :
        chart \in {h \in helmCharts(c) : h.name = n}}

\* The resources by camel-cased name; an image or a chart or both.
addGLKComponentResources(c) ==
    LET names == UNION {imageNames(img) : img \in LocalImages(c)}
                     \cup {chart.name : chart \in helmCharts(c)}
    IN  {[name |-> CamelCase[n],
          ociImage |-> {img.at : img \in {i \in LocalImages(c) : n \in imageNames(i)}},
          helmChart |-> HelmChart(c, n)] : n \in names}

\* Components of which c overwrites the images; the file lists them as recorded.
addGLKComponentsImageOverwrites(c) ==
    {overwrite \in {[name |-> LocalName(c, d), images |-> GetImageVector(d, FALSE)] :
                        d \in Members(dependencies[c]) \ {c}} :
        overwrite.images # {}}

ComponentVector(c) ==
    [ref |-> c,
     resources |-> addGLKComponentResources(c),
     imageVectorOverwrite |-> GetImageVector(c, FALSE),
     componentImageVectorOverwrites |-> addGLKComponentsImageOverwrites(c)]

\* Those of the components that components.yaml is to have, in all versions.
Selected(components, names) == {c \in components : Name[c] \in names}

\* Mutant: the missing components are only looked for to list them.
MissingIgnored(components, names, ignoreMissing) ==
    \E c \in Selected(components, names) :
        \/ insertDataFails(c)
        \/ \E d \in Members(dependencies[c]) : GetImageVectorFails(d, FALSE)

GetGLKComponentsFails(components, names, ignoreMissing) ==
    \/ \E c \in Selected(components, names) :
           \/ insertDataFails(c)
           \/ \E d \in Members(dependencies[c]) : GetImageVectorFails(d, FALSE)
    \/ ~ignoreMissing /\ \E n \in names : \A c \in components : Name[c] # n

GetGLKComponents(components, names) ==
    {ComponentVector(c) : c \in Selected(components, names)}
=============================================================================
