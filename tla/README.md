# Specifications of the Gardener Landscape Kit

This directory specifies the Gardener Landscape Kit (`glk`) in TLA+, checks the
specifications with TLC on small instances, and proves the central invariants
with TLAPS for all instances. Paths below are relative to `src/`.

## 1. The system

`glk` is a command-line program. It keeps a repository of Kubernetes manifests
for a Gardener landscape up to date: each release renders its templates anew and
merges them into files that the operators of the landscape edit by hand and
commit to git. There is no server; a run is one process, which may be killed or
fail at any write, and is followed by edits, a commit, a new release and another
run. Concurrency exists in one place only, the worker pool that downloads OCM
component descriptors.

| Part | Code | State | Operations | What makes it correct |
|---|---|---|---|---|
| Component walker | `pkg/ocm/components/walk.go` | queue, `itemsPreparing`, wait group, errors | `Walk`, `Start`, `worker`, `pushComponentReference`, `popComponentReference`, `addError` | every component reachable from the root is processed once; the walk ends; it returns after its workers; it reports the errors |
| Component graph | `pkg/ocm/components/components.go` | dependents, dependencies, resources, image vectors, the kubernetes component | `AddComponentDependencies` during the walk; `GetSortedComponents`, `GetImageVector`, `GetGLKComponents`, ... after it | the relations are those of the descriptors, whatever the order of the calls; what is computed from them does not depend on that order |
| OCM resolver | `pkg/ocm/resolve.go`, `cmd/resolve/ocm` | the output directory, `components.yaml` | walk, writing descriptors; then image vectors, resources, the list of components, `components.yaml` | the outputs belong together; only a complete run replaces `components.yaml`; its entries do not depend on the order of the walk |
| OCI repositories | `pkg/ocm/ociaccess` | a log buffer per repository | `FindComponentVersion`, `FindResourceBlob` | a component is found if one repository that answers has it; its images are where it was found |
| Manifest file writer | `pkg/utils/files/writer.go` | the repository, and the defaults below `.glk/defaults` | `WriteObjectsToFilesystem` | the operator's changes survive; deleted files stay deleted; an interrupted run can be repeated |
| Three-way merge | `pkg/utils/meta` | none | `ThreeWayMergeManifest` | see "Manifests" below |
| Generate commands | `cmd/generate`, `pkg/components` | the target directory | version checks, generation, metadata | a landscape is not generated from a base of an incompatible version; the version a component is upgraded from is one it has, if the last run generated it |
| Version metadata | `pkg/utils/version` | `.glk/meta/version.json` | write, read, validate | what it says the target has, the target has |
| Component vector | `pkg/utils/componentvector` | default and overridden versions, `.glk/meta/components.yaml` | validate, merge, references, metadata | an override changes the fields it sets and what refers to them, nothing else |
| Resolve plain | `cmd/resolve/plain` | `components.yaml` and its default | one three-way merge | pinned versions are preserved; other entries follow the release |
| Registry | `pkg/registry` | the components to generate | include and exclude lists; generation one by one; custom components | the first failure leaves all metadata as before |
| Kustomizations | `pkg/utils/kustomization` | `kustomization.yaml` files, their defaults | write those that lead through a directory tree to the components | every component is found from the top, and nothing else is named |
| Components | `pkg/components/*` | none | render and write their own files | their files survive the walk over the tree |
| Configuration API | `pkg/apis/config` | none | defaults, validation | not modelled |

How they interact: the commands call the registry, the registry calls the
components, each component renders its templates with the component vector and
hands the objects to the file writer, which calls the merge file by file.
`resolve ocm` starts the walker with `walkComponents` as its item function; the
workers share the queue, the component graph and the repositories. The commands
communicate only through files: `components.yaml` goes from `resolve plain`,
which merges, and `resolve ocm`, which overwrites, to `generate`; the version
metadata from `generate base` to `generate landscape`; and the defaults below `.glk`
from each run to the next.

What is hard:

* the walker's queue is popped under a lock and pushed to without it, and workers
  exit on a counter rather than on the queue;
* the merge has to infer what the operator meant from two files and a default
  that may be several releases old, so a property of it is a property of a
  sequence of edits, releases and runs;
* a run may end between any two writes, and the two files written for each
  manifest are not written together;
* the outputs of the commands are inputs of the next ones, read and written in an
  order that a failure may interrupt;
* a merge only sees a file and a default, and several writers with defaults of
  their own work on one file: both `resolve` commands on `components.yaml`, a
  component and the walk over the tree on a `kustomization.yaml`;
* Go maps are walked in random order, where the order decides which image is
  taken for a name.

The hazards are listed with their lines in `PROJECT.json`.

## 2. The modules

| Module | Models |
|---|---|
| `ComponentGraph` | `Components` while the walk fills it |
| `ComponentWalker` | the worker pool; extends `ComponentGraph` |
| `TimedWalker` | the worker pool with the time its workers sleep; extends `ComponentWalker` |
| `ComponentTraversal` | what a walk promises, without workers or a queue |
| `ComponentWalkerProofs` | theorems about the walker |
| `ComponentGraphProofs` | theorems about the graph that the walker's workers fill |
| `ComponentTraversalProofs` | theorems about a walk with one worker: the safety part of `ComponentTraversal` |
| `ImageVectors` | what is computed from component descriptors: image vectors, mapped images, resources, the entries of `components.yaml` |
| `OCMResolver` | `resolve ocm`, run after run: repositories, walk, outputs; extends `ImageVectors` |
| `OCMResolverProofs` | theorems about the outputs of `resolve ocm` |
| `YamlMerge` | `threeWayMerge` on YAML nodes: mappings, sequences, comments, hints |
| `ManifestMerge` | `ThreeWayMergeManifest`: sections, their matching, normalisation |
| `ManifestWriter` | `WriteObjectsToFilesystem` and the operator; the merge is a parameter |
| `ManifestPins` | the writer, with a memory of what the operator did at which place; the places in a content are a parameter |
| `ManifestYaml` | those parameters: the merge of `ManifestMerge`, and the places in a YAML file |
| `ManifestWriterProofs` | theorems about the writer and about what it leaves of the operator's work |
| `ComponentVectors` | component vectors: validation, overrides, references |
| `ComponentsFiles` | the `components.yaml` of base and landscape under both `resolve` commands and the operators; extends `ComponentVectors`; contents and their merge are parameters |
| `ComponentsYaml` | those parameters: `components.yaml` as YAML, with the merge of `ManifestMerge` |
| `ComponentsFilesProofs` | theorems about component vectors and the components files |
| `LandscapeTree` | the directories below `components/`, and the three writers of their kustomizations |
| `LandscapeTreeProofs` | theorems about the lists of the tree |
| `LandscapeGeneration` | `generate base` and `generate landscape`, from run to run |
| `LandscapeGenerationProofs` | theorems about the metadata that runs exchange |
| `MCComponentWalker`, `MCTimedWalker`, `MCOCMResolver`, `MCManifestPins`, `MCManifestCrash`, `MCComponentsFiles`, `MCLandscapeTree`, `MCLandscapeGeneration` | small graphs, descriptors, releases, edits, trees and targets for TLC, and checks that the merge does what the theorems take it to do |

### The walker

One action is what a worker does between two points at which another may
interfere: an atomic counter operation, a critical section, a read or a write of
the shared queue. `Prepare`, `PopNothing`, `PopElement`, `PopAdvance`,
`NothingPrepared`, `Exit`, `Sleep`, `Wake`, `Finish` are the loop of `worker`;
`LookupFails`, `RegisterFails`, `Register`, `Discover` are `walkComponents` with
`AddComponentDependencies`; `FinishFailed` and `addError` are its error path.
`Components` has a lock of its own, so each of its operations is one step and
`addComponent`, `addComponentFails` and `AddComponentDependency` are parts of the
walker's actions. `addComponentFails` has every error return with what it leaves
behind.

The queue is a Go slice and is modelled as memory, because
`processComponentReference` appends to it without the lock. The variable `queue`
is the slice header (array, offset, length), `heap` the arrays, including those
that growing left behind. A push is `PushRead`, then `PushPublish` or `PushGrow`
and `PushReplace`, then `PushStore`: the compiled `append` loads the header, grows
the array if it is full, writes the header back (only the length, if the array did
not change), and stores the element last. A pop clears the slot of the element
(`PopElement`) and writes the header (`PopAdvance`). A data race has the outcomes
of the interleavings of these steps. Two simplifications: a header is read and
written at once, so no outcome mixes the words of two headers; and the memory
model adds no reorderings, so what the runs find is possible on any hardware,
while what they exclude is excluded for interleavings only.

What is constant: which descriptor refers to what (`References`), which carry the
label of the kubernetes component or of mapped images, and which ones may fail
(`Faulty`), in each of the ways the code has. A worker that pops a slot that a
race left empty gets `Zero`, the zero reference, whose lookup fails.

### The OCM resolver

`ImageVectors` has the functions of `components.go` that compute something from the
descriptors, as operators on what a walk leaves behind: `dependencies` and `host`.
Descriptors are constant records of the resources, component references, labels and
extra references that the code looks at; references are `References`,
`ReferencedImages` the images that a descriptor lists for another component,
`Source` and `Found` the lookup of an image by name in the dependencies,
`GetImageVector` the result with mapped images, `ComponentVector` an entry of
`components.yaml`. An image vector is sorted at the end and stands as a set. The
names in camel case are constants, assumed to be different for different names.

`OCMResolver` is a sequence of runs. `Start` chooses a configuration: the root, the
debug files, original references, and whether missing components are ignored.
`Process` is `walkComponents` for one queued component, with the repository that
`FindComponentVersion` picks (the first one that has the component and answers, and
which of them answer is open at every lookup), the descriptor it writes, the kubernetes
component, and `Recorded`, the orders in which its dependencies may be recorded.
`NotFound` and `Forget` are its failures. `EndWalk`, `WriteImageVector`,
`WriteResources`, `WriteComponentList` and `WriteLandscapeKitComponents` write the
files in the order of `resolve.go`; `Stop` ends a run anywhere, in the middle of a
file (`Tear`) included. `Customize` is the landscape getting or losing a custom
component, whose names select entries. A component is processed in one step and none
is lost: that race is `ComponentWalker`'s, and the two models meet in what the walk
leaves behind.

### Manifests

`ManifestWriter` has the repository (`current`), the defaults below `.glk`
(`default`) and what the present release renders (`object`). A run visits the
files in any order, as the code ranges over a map, and for each it is an action to
decide and merge (`SkipFile`, `MergeFile`, `MergeFails`), to write the file
(`WriteCurrent`) and to write its default (`WriteDefault`). `Interrupt` ends a run
between any two of them, standing for a kill and for any failing read or write.
`Tear` ends it in the middle of a write and leaves the file empty, as `os.WriteFile`
truncates first; what the file held is then lost, and for the properties about
edits counts as given up. Between runs the operator edits or deletes files
and defaults, and a release changes the objects. The variables `removed`,
`touched`, `status` and `goal` are history.

`YamlMerge` and `ManifestMerge` are the merge as operators, function by function.
A node is a record of kind, value, comment and content; a document is a sequence of
sections. Each node has one comment where `yaml.Node` has three, which the code
merges alike; a comment is a sequence of lines, a line a sequence of notes, so that
stripping a hint takes what follows it in its line and no more. The text of
scalars, styles, tags, indentation and separators are left out. A section's
`apiVersion` and `kind` are one field, its namespace and name another. Where an old
default has a sequence and the others have a mapping, or the reverse, the code reads the
one as the other; `AsMapping` and `AsSequence` do, too. An odd number of items, on which
`buildMap` panics, has no pairs; no release of the instances changes the kind of a node
in this way.

`ManifestPins` adds, for the properties, what the operator did: `pins`, the values
set by hand that no default merged since has agreed with; `dropped`, the places that
were removed and that every default since has had; `notes`, the comments added that no
default since has had; `refused`, the pins that kept a changed default out. `Remember` is
what an edit, a deletion or a torn write makes of these, `Reconsider` what a merge with a
new default does: it also ends what is said of a place that lies in something the
default drops (`Lost`). Its steps on the writer's own variables are the steps of
`ManifestWriter`.

A place, what it has as a value, comments and hints, and the places it lies in are
parameters there, so that the theorems need not look into a content. `ManifestYaml` gives
them: a place is a manifest's type and a path through keys and names of items, the empty
path being the manifest itself.

### Components files

`ComponentVectors` has the validation of a component vector, `NewWithOverride`, the
template values with their completed references, and the list that becomes the
default. A list may have two entries of one name, as in the code.

`ComponentsFiles` has, for the base and the landscape, the `components.yaml`
(`content`) and its default (`snapshot`). What is in a file is a parameter, with the
conversion from and to entries (`Marshal`, `Unmarshal`), the merge and the edits;
`ComponentsYaml` gives them as YAML nodes, so that in the runs the merge of
`ManifestMerge` works on what it works on in the code, and the vector on entries.
`ResolvePlain` merges the built-in vector or
that of the release branch; `ResolveOCM` overwrites the file and leaves the default
alone. Operators pin a version, remove or add an entry, or delete a file; `Upgrade`
installs the next release. `loadComponentVector` is what a generate command makes of
the files its options list. A run is a step here; what can happen within it is in
`ManifestWriter`. `pins` and `touched` are history.

### The landscape's tree

`LandscapeTree` has the directories, their `flux-kustomization.yaml` and
`kustomization.yaml`, and the defaults of both. A run is `Start`, then
`WriteComponentFile` for the two files of each component, in any order,
`RenderCustomComponents`, and `Visit` for one directory after the other in the order
of `filepath.WalkDir`, with `Finish` at the end; `Stop` ends it anywhere between.
`Visit` has the early returns of the walk function: directories of components and
what the pattern of a completed directory covers (`MarkCompleted`) are left alone,
and the others get a list of their entries, merged with what is there
(`WriteKustomization`). The operator makes and removes directories, deletes files and
defaults, takes an entry out of a list (`ParkEntry`) and adds one. `parked` and `own`
are history.

Of a kustomization only its `resources` matter: it is `NoFile`, or a record of whether
it has the list and of the set of what is in it, since no property is about the order
of the entries. `MergedKustomization` is what the three-way merge makes of such
files; `MCLandscapeTree` checks it, in both modes, against `ManifestMerge` for all
lists of up to three entries (`MergeIsThatOfManifests`). If a component lies directly
below another, the walk passes the lower one by without noting that its
directories are to be passed by, too; `ComponentsAreLeftAlone` is about components
that are apart (`ComponentsApart`), as the built-in ones are.

### Generation

`LandscapeGeneration` is about the files by which one run of a command tells the
next what was generated. The two commands share their registration and their
component vector metadata, so an action of both is one action with the repository as
a parameter. `StartBase` and `StartLandscape` are everything up to the first
component: the landscape's version check (`ValidateVersionCompatibility`), reading
the last vector at the root of the repository (`VectorReadable`,
`AddComponentContext`), and the exclude and include lists, which may differ from run
to run. Then come `Generate` for one component after the other,
`WriteVersionMetadata` (base only) and `WriteComponentVectorMetadata`. `Stop` ends a
run anywhere, also in the middle of a component or of a metadata file.

A release of the tool is a number; the component vector it brings is identified with
it, so pinned versions are not told apart. The content of a component is the release
of its oldest file. The landscape sees the base through `link`, the commit it mounts,
which `UpdateBaseLink` moves to any state the base repository is in between runs. The
tool is installed separately for each repository. `covered`, `vouched` and `complete`
are history: for whom version.json, the component vector and the last run speak. A run refused by a check that comes before the first write
(`CheckGLKComponentVersion`, the validation of the configuration, a component that
does not exist) changes nothing and is a stuttering step.

## 3. What the runs check

| Run | Instance | Shows |
|---|---|---|
| `walker_pool` | three workers, three components with cycles and self-references, one faulty, two with the kubernetes label | Although the queue is raced for: the counters count what they stand for; a queue that is not empty is never abandoned; `Walk` returns after its workers and reports exactly the errors; a component is pushed once; `GetDependents` is exact; a component with the kubernetes label that was processed is the one recorded, so that no walk processes two |
| `walker_returns` | three workers, a line of three components, one faulty, with sleeping timed | Every walk ends, also if workers fall asleep together and wake together |
| `walker_sequential` | one worker, five components | The pool implements `ComponentTraversal`, its progress included; the dependencies are recorded once and in order |
| `walker_loses_work` | two workers, three components | **Violated:** a component can be lost from the walk, which then reports success |
| `manifest_pins` | one file of two manifests, three releases, two edits or deletions, hints on | Values, removals and comments made by hand survive; a refused change is hinted at, once and at the current default; what nobody touched follows the releases |
| `manifest_crash` | the same with one edit, and one run cut short, in the middle of a write or between two; the laws of a merge, for 500 contents | What was set, removed or noted by hand survives (`HandworkSurvives`); repeating the run gives what it would have given, and another repetition changes nothing |
| `manifest_files` | two files, which may be edited, broken or deleted by hand, one of them with a manifest that a release renames; one run cut short, with torn writes | Deleted files stay away; a run that reports success brought every other file up to date; values and comments made by hand are carried over, also to the renamed manifest (`HandworkIsCarriedOver`) |
| `resolve_outputs` | two runs from four roots, two of which cannot succeed; eight components with cycles and several versions; two repositories that may be out of reach at any lookup; runs killed anywhere | The entries of `components.yaml` do not depend on the order of the walk or of a map; the images they name are where the resolver found them; `components.yaml` belongs to the component list of its run and is replaced by complete ones only |
| `components_files` | base and landscape, two releases with a vector built in and one of the branch, both `resolve` commands, two edits | A pinned version is the one generated and moves the references made of it; an entry left alone has the version of the last default; the landscape overrides the base field by field |
| `landscape_tree` | a group with one built-in component, directories of the operator's within and below it, a custom component; runs cut short anywhere; four edits | After a complete run the lists lead from the top to every component, and to nothing that is not there; a component refers to what it deploys; what an operator added to a list stays; the walk leaves components alone |
| `generation_upgrades` | two components, two releases, targets `./`, runs cut short anywhere, no downgrades of the base | While a landscape is generated no component that its base covers is older than it; a component that the last run generated, if that run completed, is upgraded from the version it has; and a component of the base is upgraded from a version it does not have yet only if the run that wrote the vector excluded it and none has generated it since |
| `generation_subdirectory` | the same, the landscape's target is a directory below the root | **Violated:** the version upgraded from is never found |

The two violated properties are what the code or its documentation says; each
has an entry under `findings` in `PROJECT.json`.

* *Lost work.* A pop holds the lock and a push does not. In the run only the worker
  with the root pushes: while its push of `b` copies the queue to a larger array,
  another worker reads the header to pop `a`; the push publishes its new header; the
  pop then writes back the old one, less its first element, and the queue is empty.
  `b` is never processed, nothing notices, and `Walk` returns nil. It takes one worker
  that finds two new references and another that pops the first meanwhile; that two
  pushes could overwrite each other in the same way is not needed for it.
* *Version upgraded from.* The component vector is read below the directory on the
  command line and written below that directory joined with the target. Nothing but
  tests uses the result at present.

### Other behaviour met while modelling

These follow from the code and are part of the models. No property states the
opposite; where one had to make room for it, its comment says so.

Manifests:

* Whether the operator changed a value is inferred from the previous default. With
  a pin at `v2`, a release to `v2` and one to `v3`, the pin equals the default of
  the second release and is replaced by the third, while `docs/usage/versions.md:52`
  speaks of pins without this exception. `PinsSurvive` is the promise that does hold:
  a pin stays until a default agrees with it or drops its key.
* A value that was hinted at and then set to the hinted default by hand counts as
  untouched at the next release, which replaces the value and keeps the comment, so
  that the hint names an old default.
* The manifest is written before its default. If a run ends in between and the next
  one belongs to another release, what the interrupted run wrote differs from the
  default on record, counts as the operator's, and is kept at the older value
  (compare `diff.go:44`).
* What the operator added below a mapping goes with the mapping when a default drops it.
  When a default drops a whole manifest, its own keys go and those of the operator stay,
  as a document without `apiVersion` and `kind`. `Lost` makes room for both.
* A torn write leaves an empty file or default; an empty file is not filled again, an
  empty default makes everything in the file the operator's. A comment that changed on
  both sides is appended again when a run that was interrupted after writing the file
  is repeated, which is why `RepeatedRunAgrees` compares values. A manifest that was
  emptied or removed by hand comes back when a release renames it, because
  normalisation needs exactly one manifest in each file; `manifest_files` therefore
  does not check `DroppedStayDropped`.
* A file may come to hold a renamed manifest under both names, after its default was
  deleted by hand. The next merge empties the one with the old name, which leaves a single
  manifest, so that a repetition of that merge, if the first was interrupted,
  matches the other one with the old default and takes changes it did not take before.

`resolve ocm`:

* `resolve.go:159` skips an empty image vector before it looks at the error of
  computing it, and a failed one is empty. In debug mode the failure shows only if
  the component gets an entry in `components.yaml`, so the failure that
  `docs/usage/ocm/kubernetes-application-label.md:57` announces may not occur.
* A mirror that is out of reach for one lookup changes the host of that component's
  images and of no other's.
* The overwrites of an entry stand in the file in random order; `OrderDoesNotMatter`
  compares them as sets.
* With zero workers (`--workers 0` is accepted) nothing is walked; the models
  assume a worker.

`components.yaml`:

* An entry that the new default dropped is removed, and a pin with it.
* Two entries of one name in an override are not refused (the names are only
  validated for the built-in vector), and `resolve ocm` writes such entries itself, one
  for each version. `resolve plain` then merges the items by position, so that a pinned version can
  move to another component. The properties end at an edit that makes two entries of
  a name.
* `resolve ocm` drops entries made by hand, and leaves the default of `resolve plain`
  as it was; alternating the commands mixes their entries.
* A pinned version moves no reference that is written out, and a `resources` map in an
  override replaces that of the default as a whole.
* A listed components file that does not exist is an error, though the comment at
  `pkg/components/options.go:148` says that some sources may be missing.

The landscape's tree:

* A component's directory that was removed by hand is made again, before it is noticed
  that its files were deleted (`writer.go:50`). It stays empty, its parent lists it, and
  the build of the whole tree fails on it.
* When a directory loses its last subdirectory, its default has no `resources`, and the
  merge drops the key with the entries the operator added (compare `diff.go:44`).
* The pattern of a completed directory stands for one level, so that the walk writes a
  `kustomization.yaml` into directories two levels below a component, which the comment
  at `kustomization.go:66` excludes.
* If the Flux file of a component was deleted by hand and comes back, two writers
  share one `kustomization.yaml` and its default.
* A component that is excluded later stays listed. A run cut short may leave a list
  that names a directory without a `kustomization.yaml`, until the next complete run.

Generation: the component vector lists every component of the release, those excluded
from the run as well (`componentvector.go:257`). A component that was excluded and is
included again is therefore upgraded from the version of the last run, which it does
not have: after release 1 with it and release 2 without it, the next run takes it from
2, and its content is of 1; one that was never generated has a version to be upgraded
from, too. `context.go:17` calls this the currently installed version. In the base it
happens to no other component (`UpgradeSkipsOnlyExcluded`); without its exception TLC
finds the property violated in five steps. In a landscape it is the same, and
`CurrentVersionIsInstalled` is about what the last run generated for this reason.

A torn component vector is not a valid one, so that every later run fails
until the file is removed (`RemoveVector`). With `Downgrades = TRUE` TLC finds
`LandscapeFollowsBase` violated: an older release regenerates some components of the
base and is cut short, and the version metadata is still that of the newer one. A
component that is excluded from the base and included in the landscape is not noticed
by the version check; `LandscapeFollowsBase` is about the components that the base
covers.

### Bounds, and why they are enough

* *Walker.* A push is lost to a pop by another worker; for a race to matter to
  who exits, a third worker must be about to exit. Three workers are checked, for
  termination as well, where the third one can poll between the polls of two others;
  what holds when a walk returns is proved for any number. Termination takes a line of
  components, on which workers still push, pop and fail while others poll: with two
  references of the root, three workers have three million states and the liveness
  check takes four minutes. Three components give a cycle, a
  self-reference, a component with two referrers, and pushes that grow the queue
  while others pop and push. A push into an array with room needs four pushes before
  a pop, hence five components: one worker does that in `walker_sequential`; with
  several workers it is covered by the proofs, which are about the same actions, as
  the runs grow beyond ten million states. Workers are
  symmetric, since nothing tells them apart, in the run that checks invariants.
* *Resolver.* The descriptors have an image under another name, one with an original
  reference, two components with an image of one name, an image map of a chart, a
  cycle, and two versions of one component: what the lookup distinguishes. Two runs
  make outputs of different runs meet. Two repositories suffice, as the first that
  answers decides. One root succeeds with all outputs, one lacks a kubernetes
  component, one refers to an image that does not exist, one is malformed. The
  theorems about the outputs lift these bounds.
* *Merge.* A conflict needs an edit and a release, passing through a pin needs two
  releases; two edits let one prepare what another depends on. The three releases
  were chosen so that consecutive ones add, change and drop scalars, items of a
  list, items of a named list, a nested mapping, comments and whole manifests.
* *Crashes.* One interruption before, between or after two releases. A second one
  adds nothing while a run has not completed, as `goal` and the files are what the
  next run starts from. `RepetitionAgrees` and `HandworkStays` lift the bounds on
  edits, releases and interruptions.
* *Components files.* The second release changes, drops and adds an entry, and its
  branch is ahead of it. A pin and an edit next to it take two edits. Both commands
  may run any number of times. The theorems lift the bounds, for a merge and edits that
  work by name.
* *Tree.* Five directories below the root make a group, a component, a directory in
  it and one below that, and a custom component next to the group, which is what the
  pattern of a completed directory tells apart. Four edits delete a file, its default
  and something around them. Runs are not bounded. The theorems lift the other bounds.
* *Generation.* Two releases make a newer and an older side of each comparison; two
  components let a run end between them and one of them be excluded. Components are
  symmetric. The theorems lift the bounds.
* `MaxRuns`, `MaxEdits`, `MaxUpgrades` and `MaxInterrupts` bound the counters in the
  guards. Deadlock checking is off for the manifest runs, which stop when these are
  used up; the walker's deadlock check is on, and `Terminated` is its one final state.

### Fairness

The walker's liveness assumes that every goroutine that can run eventually does
(`WF` of `Walk` and of each worker), as the Go scheduler guarantees. That is not
enough: an idle worker raises `itemsPreparing` while it looks at the queue, so two
idle workers could keep each other from exiting for ever by looking in turns. With
no assumption on how long they sleep TLC finds this. The `time.Sleep(100ms)` between two
looks does not keep workers apart: those that fell asleep together may wake together
and read each other's count again. It gives less: a look is two additions, a
length and a load, so that within 100ms there is a moment at which no worker is
looking. `TimedWalker` assumes that and no more: a worker wakes up only after such a
moment (`slept`, `Quiet`), and after it any number of workers may wake at once and
interleave as they like; a download or a push may take as long as it likes. What makes
the walk end is that a worker which falls asleep during a burst of looks is not back
before the burst is over, so that the last one of the burst reads zero, unless a
component is being processed. `walker_returns` checks termination under this
assumption. It is about prompt scheduling: were there so many workers, or so few
processors, that the looks of all of them fill 100ms, nothing in the code would end
the walk. The other runs do not use it, and their properties hold without any
assumption on time. The commands other than the walk are sequential programs that end;
no liveness is stated of them, since nothing obliges an operator to run one.

## 4. What is proved

The proofs are for every graph, every finite set of workers, every set of descriptors,
repositories and configurations, every tree of directories, every sequence of releases
and every set of files. They use the named assumptions of the modules
(`GraphAssumption`, `WorkersAssumption`, `DescriptorsAssumption`, `ResolverAssumption`,
`WriterAssumption`, `TreeAssumption`, `FileAssumption`, `FilesAssumption`,
`GenerationAssumption`), which TLC evaluates in the runs. What a theorem needs beyond
these is in its statement, and is one of

* that there is one worker (`ComponentTraversalProofs`);
* that no two components another one refers to have images of one name
  (`UnambiguousImages`, in `OrderIrrelevant`), without which Go's map order does decide;
* that no component is directly below another (`ComponentsApart`, in
  `WalkLeavesComponentsAlone`);
* what the three-way merge does with whole files. The merge recurses over data, for
  which no induction can be used, so the theorems take it as a parameter with these
  laws: for `components.yaml`, that it and the edits work by name (`Laws` in
  `ComponentsFilesProofs`); for manifests, that they return contents
  (`ParametersTyped`), that merging what was merged changes nothing (`MergeRepeats`),
  that a file that says what its default does takes over the next default
  (`MergeFollows`), that configuring the same is an equivalence (`Equivalence`), and what
  one merge does with what differs from the old default: a value and a comment stay
  (`MergeKeepsPins`, `MergeKeepsNotes`), a missing place is not added
  (`MergeKeepsDropped`), a value that stays is hinted at (`MergeHints`), and a content has
  nothing where it has no place (`PlacesHold`). Each theorem names the laws it uses.

TLC checks these laws for the merge that `YamlMerge` and `ManifestMerge` translate from
the code: `ContentsAreLists`, `EditsAreByName` and `MergesAreByName` in
`MCComponentsFiles`, for files that were edited, merged and edited again;
`UntouchedAreFollowed` in `MCManifestPins`, for everything that merges alone can make of
a file, in both modes and with the release that renames a manifest;
`MergesAreRepeatable`, `PinsAreKept`, `DroppedAreKept`, `NotesAreKept`, `PinsAreHinted`
and `PlacesAreKnown` in `MCManifestCrash`, for defaults that were merged with one
another, and every edit of these, each merged once more with every old and every new
default. It is these checks that showed what `Lost` has to say. That a set of contents is
closed under merges and edits, which `Laws` and `ParametersTyped` also ask, only says that
it is large enough. A place names a manifest by its type, so the laws are for files with
one manifest of a type; with a manifest that a release renames, `MergeKeepsDropped` does
not hold, and the others do not in a file that has it under both names (section 3), of
which the theorems therefore say nothing.

`ComponentWalkerProofs`:

* `PoolInvariant`: `PoolInv` is an invariant. It is `TypeOK`, what a worker holds at
  each point of its loop (`WorkersConsistent`), where `Walk` is relative to the
  workers (`WalkConsistent`), that failures are recorded or about to be
  (`FailuresAccounted`), `CountersExact` and `QueueIsWatched`. None of the last three
  is inductive alone. That the queue is watched when a worker exits follows because
  the exit needs `itemsPreparing = 0`, hence by `CountersExact` no counted worker,
  and whoever made the queue non-empty was counted and is now in `Looking`.
* `TypeCorrect`, `CountersCorrect`, `NeverAbandoned`, `ReturnIsFinal` follow. The
  last needs `QueueIsWatched` at the moment of returning: with all workers done
  nobody is looking, so the queue is empty.
* `NeverPushedTwice`: a component is pushed at most once. The additional invariant is
  `PushesReserved` (a reference in `newItems` is known, was not pushed, and is in
  one place only) and `RootFirst` (nothing but the root is handled before the root is
  recorded as known, without which a reference back to the root would push it
  again).

`ComponentGraphProofs`, on top of these:

* `DependentsAreExact` and `KubernetesIsUnique`: at any time the dependents recorded
  are those of the descriptors processed so far, and a processed kubernetes component
  is the one recorded, so that no two are processed in one walk, a failing one
  included. The invariant has three parts.
  `QueuedKnown`: the arrays of the queue and the items of workers hold only known
  components, the root, and the zero reference of a lost slot; it is what makes
  `addComponent`, which takes a component without dependents for the root, right about
  the root. `WorkRecorded`: what a worker has told the graph of its item at each point
  of its loop. `GraphExact`: everything told is recorded, and everything recorded was
  told. The argument rests on the graph only growing, so that what one worker has
  recorded no other disturbs (`OperationsGrow`, `GrowthPreserves`). It holds although
  the race on the queue may lose components: the graph is right about those it has.

`ComponentTraversalProofs`, on top of these and for a single worker (with two,
`walker_loses_work` shows the opposite):

* `OneWorkerTraverses`: every step of the pool is a step of `ComponentTraversal` or
  stutters, under the refinement mapping that `walker_sequential` checks;
  `OneWorkerWalksAll` and `DependenciesOfOneWorker` for what a walk that succeeded has
  visited and recorded. The invariant says of each component where it is: in the
  queue, in `newItems`, in the worker's hand, visited, or failed, in exactly one place
  if it is known and in none if it is not (`OnePlace`, `AllPlaces`). That a pop or a
  push moves just one component needs `SliceOK`: what the slice's memory holds between
  the steps of a pop, and of an `append` that has room and of one that has not.
  `ListedInv` adds how far the list of dependencies of the component at hand is.

`OCMResolverProofs`:

* `ResolverTyped`, `OutputsMatch` and `ReplacedByComplete`: after success
  `components.yaml` has the components of the component list with the names wanted;
  every component in a list has a descriptor file, whatever runs failed or were killed
  since; and `components.yaml` is replaced only when everything below the root was
  registered without an error. The invariant is `WalkReaches`
  (as long as nothing failed, the root is queued or known, every known component is
  queued or registered, and what a registered one refers to is known, so that a walk
  that ends has registered everything known) and `FilesInv` (a component is registered
  in the step that writes its descriptor, files never become absent, the list at hand is
  this walk's).
* `ImagesPlacedHonestly`: an image in `components.yaml` is in the repository it is said
  to be in. A component's host is a repository that has it (`HostsHonest`), also after
  lookups that failed at some of them; every operator of `ImageVectors` passes on the
  place of the image it found (`Placed`), down to the entry of the file (`AllPlaced`).
* `OrderIrrelevant`: the entries do not depend on the order in which dependencies were
  recorded. The first images of a name are those of the component itself, or of the
  only other that has some (`Provider`, `FirstFound`), whatever the order. The
  order is one fixed beforehand; the orders of other maps are left out.

`ManifestWriterProofs`:

* `WriterInvariant`, and from it `WriterTyped`, `RemovedStays` (a file the operator
  deleted is not generated again, wherever runs are cut short and whatever the merge
  does) and `SuccessComplete`. The inductive invariant adds to these two that a run
  about to write a file is not at a deleted one (`DeletionsKnown`) and that the files
  a run has left behind are settled (`VisitedSettled`).
* `RepetitionAgrees`: repeating a run gives what the first attempt was to give, however
  often and wherever it is cut short, and repeating a completed one changes nothing,
  if `MergeRepeats`. The invariant is `AttemptsAgree`: until the default is recorded,
  merging the file as it is, as the first attempt found it or as it left it, gives what
  that was to write.
* `UntouchedFollows`: a file that only the tool wrote configures what the present
  release renders, over any releases and deletions, if `MergeFollows`, in behaviours
  in which no run is cut short (`[][~Stop]_vars`). That condition is needed, as section
  3 says: a run that ends between its two writes leaves a file that will count as the
  operator's. The invariant is `FollowsFrom`: between runs the file and its default
  agree, within one the file and the object do.
* `PinsStay`, `DroppedStay` and `NotesStay`, and from these `HandworkStays` and
  `HandworkCarriedOver`: from what one merge keeps to what every behaviour keeps, with any
  number of files, edits, releases, interrupted runs and torn writes. A merge tells the
  operator's work by how the file differs from the old default, so the invariants
  (`PinsKept`, `DroppedKept`, `NotesKept`) say that it still does: what was done is in the
  file and not in the default that is remembered. While the run is at the file, it is
  also in what will be written and not in the default that will be remembered. Since both
  defaults differ, the run may end before, between or after the two writes
  (`FilesProceed`); a default that was torn or deleted has no places at all.
* `RefusalsStayHinted`, in behaviours in which no run is cut short: the hint of a pin is at
  the default that is remembered, or at the one about to be (`RefusedKept`). The condition
  is needed: a refusal counts from the merge on, and a run that ends before its write
  leaves no hint, one that ends between its two writes a hint at a default that is never
  recorded. If the next release is one that has the default on record again, no merge
  looks at it.

`ComponentsFilesProofs`, for a merge and edits with `Laws`:

* `TypesHold`, `PinsDecide` (a pinned version is the one generated), `ReferencesAreMoved`
  (and moves the references made of it), `UntouchedFollow` (an entry left alone has the
  version of the last default) and `LayersInOrder` (the landscape overrides the base
  field by field). One half is about lists: of several overrides the last that says
  anything of a name and a field decides (`VectorAgrees`, and `VectorSays` where no name
  comes twice). The other half is about files: `Followed` says that a pinned name has
  the pin and that a name nobody touched has what the default has; a merge with the
  default of any release (`PlainKeeps`) and an edit (`EditKeeps`) keep it, until an edit
  makes two entries of a name.
* `OverridingTwice`: an override without a name twice changes nothing the second time,
  entry by entry and in their order. From it `CopiedOverride`: a landscape whose
  components file is a copy of that of its base is generated from the vector of the
  base, whichever of the two it lists.

`LandscapeTreeProofs`:

* `TypesHold`, `ComponentsStayTheirs`, `OperatorsKeepTheirEntries` and `TreeIsListed`:
  after a complete run every component is found from the top and nothing listed on the
  way is missing. Each list is followed together with its default and with what the
  operator took out (`Tracked`: it has what its default has and is not parked, and else
  what the operator added), which a merge keeps and an edit does. Then it remains to
  know the default: `Written(d, R)` says that the last to write the list of `d` wanted
  it to be `R`; components wrote theirs before the walk (`ComponentsWritten`), the walk
  those of the directories that lead to components, where it has been
  (`WalkedWritten`).
* `WalkLeavesComponentsAlone`, an action property: the walk changes no list of a
  component, nor of the directories in it, because the components it has been at are
  all among the completed paths (`PassedBy`).

`LandscapeGenerationProofs`:

* `GenerationTyped`, `LandscapeFollows` and `UpgradesSkipOnlyExcluded`, for a base that no
  older release regenerates. The inductive invariant is `RunConsistent` (what the run at
  hand read and has done, and that it passed the version check) and `MetadataModest`:
  version.json claims no more than the content of every component in `covered`, the
  component vector no more than that of every component in `vouched`, and nothing is
  newer than the tool. The latter is what lets a component be regenerated while the
  metadata still stands.
* `CurrentVersionInstalled`, for targets at the root of the repository, from
  `VectorExact`: the vector describes the components of a completed run, but for those
  the present run has already generated.

Checked only, and why:

* `WalkReturns`, and that a walk with one worker ends as `Walks` says: liveness under
  fairness is beyond the prover.
* The laws above: the merge recurses over data, for which there is no induction.

## 5. What is not modelled, and the plan

Not modelled:

* the texts of templates, the YAML library and how it attaches comments of several
  lines, the layout done by `preprocessing.go`: they move text, and the merge is
  modelled on what is read back;
* the OCI protocol, authentication, the log buffers of the repositories, logging;
* flags and the configuration API: declarations, defaults and checks of single fields,
  all before anything is written;
* `.gitattributes`, `.gitignore` and the disclaimer in secrets: written once, read by
  other tools;
* `CheckGLKComponentVersion` and the other checks that refuse a run before its first
  write; such a run is a stuttering step;
* the file that `WriteKustomizationComponent` makes for a component of several objects,
  other than as its result;
* operators who remove the whole `resources` key of a list, or only the default of a
  file that is there;
* the scripts, the generator of test data and the tests of the repository.

Planned, in this order:

1. The walk of `ComponentWalker` as the first phase of `OCMResolver`: that the outputs
   of a walk that lost components still belong together, which the present models only
   give separately.
2. The components' own files in `LandscapeTree` with several generated objects each
   (`WriteKustomizationComponent`), and its list of them.
3. In `LandscapeGeneration`, vectors that differ by pinned versions within a release.
