-------------------------- MODULE LandscapeGeneration --------------------------
(***************************************************************************)
(* generate base and generate landscape, and the files through which one   *)
(* run speaks to the next: the generated components, the version of the    *)
(* tool that generated the base, and the component vector of the last run. *)
(*                                                                         *)
(* The two repositories may be kept by different people with different     *)
(* releases of the tool.  The landscape sees the base as of the commit it  *)
(* mounts.  A run may be cut short anywhere; a run that a check refuses    *)
(* before it writes anything is a stuttering step.                         *)
(*                                                                         *)
(* A release of the tool is a number, and the versions of the components   *)
(* it brings are identified with it.                                       *)
(***************************************************************************)
EXTENDS Integers

CONSTANTS
    Components,
    MaxVersion,
    Dirs, Root,  \* directories of a repository, and the one it starts at
    Target,      \* the directory a repository's content is generated into
    Downgrades   \* may an older release regenerate the base?

Repositories == {"base", "landscape"}
Versions == 1 .. MaxVersion

ASSUME GenerationAssumption ==
    /\ MaxVersion \in Nat \ {0}
    /\ Root \in Dirs
    /\ Target \in [Repositories -> Dirs]
    /\ Downgrades \in BOOLEAN

None == 0     \* no file, or for content: not all of it
Broken == -1  \* a file that cannot be parsed

VARIABLES
    tool,        \* the release installed where a repository is generated
    content,     \* the release each component was generated by, its oldest
                 \* file counting
    version,     \* version.json of the base; None if it cannot be read
    vector,      \* components.yaml below .glk/meta in each directory
    link,        \* the base as the landscape mounts it
    step,        \* where the run is
    repository,  \* what it generates
    registered,  \* the components it generates
    todo,        \* those still to do
    context,     \* the version each component is upgraded from
    covered,     \* history: what the run that wrote version.json generated
    vouched,     \* history: the components of the base that the run which wrote
                 \* its vector generated, and those generated since
    complete     \* history: what the last run generated, if it completed

run == <<step, repository, registered, todo, context>>
files == <<content, version, vector>>
vars == <<tool, files, link, run, covered, vouched, complete>>

Init ==
    /\ tool \in [Repositories -> Versions]
    /\ content = [r \in Repositories |-> [c \in Components |-> None]]
    /\ version = None
    /\ vector = [r \in Repositories |-> [d \in Dirs |-> None]]
    /\ link = [content |-> content["base"], version |-> None, covered |-> {}]
    /\ step = "idle"
    /\ repository = "base"
    /\ registered = {} /\ todo = {}
    /\ context = [c \in Components |-> None]
    /\ covered = {}
    /\ vouched = {}
    /\ complete = [r \in Repositories |-> {}]
-----------------------------------------------------------------------------
(* Checks and registration *)

\* Mutant: an older landscape is refused, and not a newer one.
ComparedBackwards(base) ==
    base \in Versions /\ tool["landscape"] >= base

ValidateVersionCompatibility(base) ==
    base \in Versions /\ tool["landscape"] <= base

\* At most one of the two lists may be given.
Configurations ==
    {conf \in [exclude : SUBSET Components, include : SUBSET Components] :
        conf.exclude = {} \/ conf.include = {}}

excludeComponents(conf, available) == available \ conf.exclude

includeComponents(conf, available) ==
    IF conf.include = {} THEN available ELSE available \cap conf.include

RegisterAllComponents(conf) ==
    includeComponents(conf, excludeComponents(conf, Components))

\* Mutant: a vector that cannot be parsed is not an error.
AnythingReadable(r) == TRUE

\* An absent file is the first run.
VectorReadable(r) == vector[r][Root] # Broken

(***************************************************************************)
(* The version a component is upgraded from is looked up in the vector at  *)
(* the root of the repository.                                             *)
(***************************************************************************)
AddComponentContext(r, comps) ==
    [c \in Components |-> IF c \in comps THEN vector[r][Root] ELSE None]

Register(r) ==
    /\ step = "idle"
    /\ VectorReadable(r)
    /\ step' = "generating"
    /\ repository' = r
    /\ \E conf \in Configurations :
           LET comps == RegisterAllComponents(conf)
           IN  /\ registered' = comps
               /\ todo' = comps
               /\ context' = AddComponentContext(r, comps)
    /\ UNCHANGED <<tool, content, link, complete>>

\* Mutant: the version is written as soon as the components are known.
VersionWrittenFirst ==
    /\ Register("base")
    /\ version' = tool["base"]
    /\ covered' = registered'
    /\ UNCHANGED <<vector, vouched>>

\* Mutant: so is the vector.
VectorWrittenFirst ==
    /\ Register("base")
    /\ vector' = [vector EXCEPT !["base"][Target["base"]] = tool["base"]]
    /\ vouched' = registered'
    /\ UNCHANGED <<version, covered>>

StartBase ==
    /\ Register("base")
    /\ UNCHANGED <<version, vector, covered, vouched>>

StartLandscape ==
    /\ ValidateVersionCompatibility(link.version)
    /\ Register("landscape")
    /\ UNCHANGED <<version, vector, covered, vouched>>
-----------------------------------------------------------------------------
(* Generation and metadata *)

(***************************************************************************)
(* One component, with all its files.  The code has an order of the        *)
(* components; nothing here depends on it.                                 *)
(***************************************************************************)
Generate(c) ==
    /\ step = "generating"
    /\ c \in todo
    /\ content' = [content EXCEPT ![repository][c] = tool[repository]]
    /\ todo' = todo \ {c}
    /\ vouched' = IF repository = "base" THEN vouched \cup {c} ELSE vouched
    /\ UNCHANGED <<tool, version, vector, link, step, repository, registered,
                   context, covered, complete>>

AllGenerated ==
    /\ step = "generating"
    /\ todo = {}
    /\ step' = IF repository = "base" THEN "version" ELSE "vector"
    /\ UNCHANGED <<tool, files, link, repository, registered, todo, context,
                   covered, vouched, complete>>

\* What a run knows ends with it.
Exit ==
    /\ step' = "idle"
    /\ repository' = "base"
    /\ registered' = {} /\ todo' = {}
    /\ context' = [c \in Components |-> None]

WriteVersionMetadata ==
    /\ step = "version"
    /\ step' = "vector"
    /\ version' = tool["base"]
    /\ covered' = registered
    /\ UNCHANGED <<tool, content, vector, link, repository, registered, todo,
                   context, vouched, complete>>

\* Mutant: a vector that is there is not written again.
VectorWrittenOnce ==
    /\ step = "vector"
    /\ Exit
    /\ vector' = [vector EXCEPT ![repository][Target[repository]] =
                      IF @ = None THEN tool[repository] ELSE @]
    /\ complete' = [complete EXCEPT ![repository] = registered]
    /\ vouched' = IF repository = "base" THEN registered ELSE vouched
    /\ UNCHANGED <<tool, content, version, link, covered>>

WriteComponentVectorMetadata ==
    /\ step = "vector"
    /\ Exit
    /\ vector' = [vector EXCEPT ![repository][Target[repository]] =
                      tool[repository]]
    /\ complete' = [complete EXCEPT ![repository] = registered]
    /\ vouched' = IF repository = "base" THEN registered ELSE vouched
    /\ UNCHANGED <<tool, content, version, link, covered>>

Older(v, w) == IF v < w THEN v ELSE w

(***************************************************************************)
(* The process is killed or an operation fails.  A component may be left   *)
(* with some of its files generated, a metadata file truncated.            *)
(***************************************************************************)
Stop ==
    /\ step # "idle"
    /\ Exit
    /\ complete' = [complete EXCEPT ![repository] = {}]
    /\ \/ UNCHANGED files
       \/ /\ step = "generating"
          /\ \E c \in todo :
                content' = [content EXCEPT ![repository][c] =
                                Older(@, tool[repository])]
          /\ UNCHANGED <<version, vector>>
       \/ /\ step = "version"
          /\ version' = None
          /\ UNCHANGED <<content, vector>>
       \/ /\ step = "vector"
          /\ vector' = [vector EXCEPT ![repository][Target[repository]] = Broken]
          /\ UNCHANGED <<content, version>>
    /\ UNCHANGED <<tool, link, covered, vouched>>
-----------------------------------------------------------------------------
(* The operators *)

InstallTool(r) ==
    /\ step = "idle"
    /\ \E v \in Versions :
           /\ r = "base" /\ ~Downgrades => v > tool[r]
           /\ tool' = [tool EXCEPT ![r] = v]
    /\ UNCHANGED <<files, link, run, covered, vouched, complete>>

\* The landscape repository moves on to what the base repository has now,
\* whether or not the last run there was cut short.
UpdateBaseLink ==
    /\ step = "idle"
    /\ link' = [content |-> content["base"], version |-> version,
                covered |-> covered]
    /\ UNCHANGED <<tool, files, run, covered, vouched, complete>>

\* The only way on from a vector that cannot be parsed.
RemoveVector(r) ==
    /\ step = "idle"
    /\ vector[r][Root] = Broken
    /\ vector' = [vector EXCEPT ![r][Root] = None]
    /\ UNCHANGED <<tool, content, version, link, run, covered, vouched, complete>>

Next ==
    \/ StartBase \/ StartLandscape
    \/ AllGenerated \/ WriteVersionMetadata \/ WriteComponentVectorMetadata
    \/ Stop \/ UpdateBaseLink
    \/ \E c \in Components : Generate(c)
    \/ \E r \in Repositories : InstallTool(r) \/ RemoveVector(r)

Spec == Init /\ [][Next]_vars
-----------------------------------------------------------------------------
Content == [Components -> {None} \cup Versions]

TypeOK ==
    /\ tool \in [Repositories -> Versions]
    /\ content \in [Repositories -> Content]
    /\ version \in {None} \cup Versions
    /\ vector \in [Repositories -> [Dirs -> {Broken, None} \cup Versions]]
    /\ link \in [content : Content, version : {None} \cup Versions,
                 covered : SUBSET Components]
    /\ step \in {"idle", "generating", "version", "vector"}
    /\ repository \in Repositories
    /\ registered \subseteq Components
    /\ todo \subseteq registered
    /\ context \in Content
    /\ covered \subseteq Components
    /\ vouched \subseteq Components
    /\ complete \in [Repositories -> SUBSET Components]

(***************************************************************************)
(* "Returns an error if landscapeVersion > baseVersion."  What the version *)
(* check is for: while a landscape is generated, none of the components    *)
(* that its base covers is older there than what is generated from it,     *)
(* wherever the runs that generated the base were cut short.               *)
(***************************************************************************)
LandscapeFollowsBase ==
    step # "idle" /\ repository = "landscape" =>
        \A c \in registered \cap link.covered :
            tool["landscape"] <= link.content[c]

(***************************************************************************)
(* "CurrentVersion is the currently installed version of the component."   *)
(* A component that the last run generated is upgraded from the version it *)
(* has, if that run completed.                                             *)
(***************************************************************************)
CurrentVersionIsInstalled ==
    step = "generating" =>
        \A c \in todo \cap complete[repository] :
            context[c] = content[repository][c]

(***************************************************************************)
(* The vector lists every component, those the run that wrote it excluded  *)
(* as well.  So a component of the base that was excluded and is included  *)
(* again can be upgraded from a version that it does not have.  Nothing    *)
(* else is: wherever runs were cut short, an upgrade repeats what may have *)
(* been done rather than skip what was not.                                *)
(***************************************************************************)
UpgradeSkipsOnlyExcluded ==
    step = "generating" /\ repository = "base" =>
        \A c \in todo : context[c] > content["base"][c] => c \notin vouched
=============================================================================
