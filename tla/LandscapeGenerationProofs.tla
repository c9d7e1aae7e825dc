----------------------- MODULE LandscapeGenerationProofs -----------------------
(***************************************************************************)
(* What the metadata of a repository says about its content, for any       *)
(* components, releases and directories.                                   *)
(***************************************************************************)
EXTENDS LandscapeGeneration, TLAPS

(***************************************************************************)
(* Every file is of the type the checks and the registration expect.       *)
(***************************************************************************)
LEMMA InitTyped == Init => TypeOK
BY GenerationAssumption DEF Init, TypeOK, Content, None, Versions, Repositories

LEMMA RegisterTyped ==
    ASSUME TypeOK, NEW r \in Repositories, Register(r)
    PROVE  /\ step' = "generating" /\ repository' = r
           /\ registered' \subseteq Components /\ todo' = registered'
           /\ context' \in Content
           /\ \A c \in registered' : context'[c] = vector[r][Root]
<1>1. vector[r][Root] \in {None} \cup Versions
  BY GenerationAssumption DEF TypeOK, Register, VectorReadable
<1>2. PICK conf \in Configurations :
        /\ registered' = RegisterAllComponents(conf)
        /\ todo' = registered'
        /\ context' = AddComponentContext(r, registered')
  BY DEF Register
<1>3. registered' \subseteq Components
  BY <1>2 DEF RegisterAllComponents, includeComponents, excludeComponents
<1> QED
  BY <1>1, <1>2, <1>3 DEF Register, AddComponentContext, Content

LEMMA ExitTyped ==
    ASSUME Exit
    PROVE  /\ step' = "idle" /\ repository' = "base" /\ registered' = {}
           /\ todo' = {} /\ context' \in Content
BY DEF Exit, Content, None

LEMMA NextTyped == TypeOK /\ [Next]_vars => TypeOK'
<1> SUFFICES ASSUME TypeOK, [Next]_vars PROVE TypeOK'
  OBVIOUS
<1> USE GenerationAssumption DEF Repositories
<1>1. CASE StartBase \/ StartLandscape
  <2>1. PICK r \in Repositories : Register(r)
    BY <1>1 DEF StartBase, StartLandscape
  <2>2. UNCHANGED <<tool, content, version, vector, link, covered, vouched, complete>>
    BY <1>1 DEF StartBase, StartLandscape, Register
  <2> QED
    BY <2>1, <2>2, RegisterTyped DEF TypeOK
<1>2. CASE AllGenerated
  BY <1>2 DEF AllGenerated, files, TypeOK
<1>3. CASE WriteVersionMetadata
  BY <1>3 DEF WriteVersionMetadata, TypeOK
<1>4. CASE WriteComponentVectorMetadata
  BY <1>4, ExitTyped DEF WriteComponentVectorMetadata, TypeOK
<1>5. CASE Stop
  <2>1. content' \in [Repositories -> Content]
    <3>1. CASE UNCHANGED content
      BY <3>1 DEF TypeOK
    <3>2. CASE \E c \in todo : content' = [content EXCEPT
                 ![repository][c] = Older(@, tool[repository])]
      <4>1. PICK c \in todo : content' = [content EXCEPT
                 ![repository][c] = Older(@, tool[repository])]
        BY <3>2
      <4>2. Older(content[repository][c], tool[repository]) \in {None} \cup Versions
        BY DEF TypeOK, Content, Older
      <4> QED
        BY <4>1, <4>2 DEF TypeOK, Content
    <3> QED
      BY <1>5, <3>1, <3>2 DEF Stop, files
  <2>2. /\ version' \in {None} \cup Versions
        /\ vector' \in [Repositories -> [Dirs -> {Broken, None} \cup Versions]]
    BY <1>5 DEF Stop, files, TypeOK
  <2> QED
    BY <1>5, <2>1, <2>2, ExitTyped DEF Stop, TypeOK
<1>6. CASE UpdateBaseLink
  BY <1>6 DEF UpdateBaseLink, files, run, TypeOK
<1>7. CASE \E c \in Components : Generate(c)
  BY <1>7 DEF Generate, TypeOK, Content
<1>8. CASE \E r \in Repositories : InstallTool(r)
  BY <1>8 DEF InstallTool, files, run, TypeOK
<1>9. CASE \E r \in Repositories : RemoveVector(r)
  BY <1>9 DEF RemoveVector, run, TypeOK
<1>10. CASE UNCHANGED vars
  BY <1>10 DEF vars, files, run, TypeOK
<1> QED
  BY <1>1, <1>2, <1>3, <1>4, <1>5, <1>6, <1>7, <1>8, <1>9, <1>10 DEF Next

THEOREM GenerationTyped == Spec => []TypeOK
BY InitTyped, NextTyped, PTL DEF Spec

(***************************************************************************)
(* What a run knows and has done: the contexts are those of the vector it  *)
(* found, and what is no longer to do has been generated.  The base that a *)
(* landscape is generated from passed the version check.                   *)
(***************************************************************************)
RunConsistent ==
    /\ step = "generating" =>
           \A c \in registered : context[c] = vector[repository][Root]
    /\ \A c \in registered \ todo : content[repository][c] = tool[repository]
    /\ step \in {"version", "vector"} => todo = {}
    /\ repository = "landscape" /\ step # "idle" =>
           /\ step # "version"
           /\ tool["landscape"] <= link.version
    /\ step = "idle" => registered = {}

LEMMA InitRun == Init => RunConsistent
BY DEF Init, RunConsistent

LEMMA NextRun ==
    TypeOK /\ RunConsistent /\ [Next]_vars => RunConsistent'
<1> SUFFICES ASSUME TypeOK, RunConsistent, [Next]_vars PROVE RunConsistent'
  OBVIOUS
<1> USE GenerationAssumption DEF Repositories
<1>1. CASE StartBase
  BY <1>1, RegisterTyped DEF StartBase, Register, RunConsistent
<1>2. CASE StartLandscape
  <2>1. tool'["landscape"] <= link'.version
    BY <1>2 DEF StartLandscape, Register, ValidateVersionCompatibility
  <2> QED
    BY <1>2, <2>1, RegisterTyped DEF StartLandscape, Register, RunConsistent
<1>3. CASE AllGenerated
  BY <1>3 DEF AllGenerated, files, RunConsistent, TypeOK
<1>4. CASE WriteVersionMetadata
  BY <1>4 DEF WriteVersionMetadata, RunConsistent, TypeOK
<1>5. CASE WriteComponentVectorMetadata \/ Stop
  BY <1>5, ExitTyped DEF WriteComponentVectorMetadata, Stop, RunConsistent
<1>6. CASE UpdateBaseLink
  BY <1>6 DEF UpdateBaseLink, files, run, RunConsistent
<1>7. ASSUME NEW c \in Components, Generate(c) PROVE RunConsistent'
  <2>1. \A d \in registered : d \notin todo' =>
            content'[repository][d] = tool[repository]
    BY <1>7 DEF Generate, RunConsistent, TypeOK, Content
  <2> QED
    BY <1>7, <2>1 DEF Generate, RunConsistent
<1>8. ASSUME NEW r \in Repositories, InstallTool(r) \/ RemoveVector(r)
      PROVE  RunConsistent'
  BY <1>8 DEF InstallTool, RemoveVector, files, run, RunConsistent
<1>9. CASE UNCHANGED vars
  BY <1>9 DEF vars, files, run, RunConsistent
<1> QED
  BY <1>1, <1>2, <1>3, <1>4, <1>5, <1>6, <1>7, <1>8, <1>9 DEF Next

(***************************************************************************)
(* Without downgrades, the metadata of the base never promises more than   *)
(* its content holds, nor is anything newer than the tool.                 *)
(***************************************************************************)
MetadataModest ==
    /\ \A c \in Components : content["base"][c] <= tool["base"]
    /\ version <= tool["base"]
    /\ \A d \in Dirs : vector["base"][d] <= tool["base"]
    /\ \A c \in covered : version <= content["base"][c]
    /\ \A c \in vouched, d \in Dirs : vector["base"][d] <= content["base"][c]
    /\ \A c \in link.covered : link.version <= link.content[c]

LEMMA InitModest == Init => MetadataModest
BY GenerationAssumption
   DEF Init, MetadataModest, None, Versions, Repositories

(***************************************************************************)
(* What generating a component does to the base: it never gets older, and  *)
(* the component is as new as anything the metadata can say of it.         *)
(***************************************************************************)
LEMMA ContentGrows ==
    ASSUME TypeOK, MetadataModest, NEW c \in Components,
           content' = [content EXCEPT !["base"][c] = tool["base"]],
           vouched' = vouched \cup {c},
           UNCHANGED <<tool, version, vector, link, covered>>
    PROVE  MetadataModest'
<1>1. \A d \in Components :
        /\ content'["base"][d] \in Int
        /\ content["base"][d] <= content'["base"][d]
        /\ content'["base"][d] <= tool["base"]
  BY DEF TypeOK, Content, MetadataModest, Versions, None, Repositories
<1>2. \A d \in covered : version <= content'["base"][d]
  BY <1>1 DEF TypeOK, Content, MetadataModest, Versions, None, Repositories
<1>3. ASSUME NEW d \in vouched', NEW e \in Dirs
      PROVE  vector["base"][e] <= content'["base"][d]
  <2>1. CASE d = c
    BY <2>1 DEF TypeOK, Content, MetadataModest, Repositories
  <2>2. CASE d \in vouched
    BY <1>1, <2>2
       DEF TypeOK, Content, MetadataModest, Versions, None, Broken, Repositories
  <2> QED
    BY <2>1, <2>2
<1> QED
  BY <1>1, <1>2, <1>3 DEF MetadataModest

LEMMA NextModest ==
    ASSUME ~Downgrades, TypeOK, RunConsistent, MetadataModest, [Next]_vars
    PROVE  MetadataModest'
<1> USE GenerationAssumption DEF Repositories
<1>1. CASE StartBase \/ StartLandscape
  BY <1>1 DEF StartBase, StartLandscape, Register, MetadataModest
<1>2. CASE AllGenerated
  BY <1>2 DEF AllGenerated, files, MetadataModest
<1>3. CASE WriteVersionMetadata
  <2>1. CASE repository = "base"
    <3>1. \A c \in covered' : content["base"][c] = tool["base"]
      BY <1>3, <2>1 DEF WriteVersionMetadata, RunConsistent
    <3> QED
      BY <1>3, <3>1 DEF WriteVersionMetadata, MetadataModest, TypeOK, Versions
  <2>2. CASE repository = "landscape"
    BY <1>3, <2>2 DEF WriteVersionMetadata, RunConsistent
  <2> QED
    BY <2>1, <2>2 DEF TypeOK
<1>4. CASE WriteComponentVectorMetadata
  <2>1. CASE repository = "base"
    <3>1. \A c \in vouched' : content["base"][c] = tool["base"]
      BY <1>4, <2>1 DEF WriteComponentVectorMetadata, RunConsistent
    <3>2. \A d \in Dirs : vector'["base"][d] \in {vector["base"][d], tool["base"]}
      BY <1>4, <2>1 DEF WriteComponentVectorMetadata, TypeOK
    <3> QED
      BY <1>4, <3>1, <3>2
         DEF WriteComponentVectorMetadata, MetadataModest, TypeOK, Versions
  <2>2. CASE repository = "landscape"
    <3>1. vector'["base"] = vector["base"] /\ vouched' = vouched
      BY <1>4, <2>2 DEF WriteComponentVectorMetadata, TypeOK
    <3> QED
      BY <1>4, <3>1 DEF WriteComponentVectorMetadata, MetadataModest
  <2> QED
    BY <2>1, <2>2 DEF TypeOK
<1>5. CASE Stop
  <2>1. CASE UNCHANGED files
    BY <1>5, <2>1 DEF Stop, files, MetadataModest
  <2>2. ASSUME NEW c \in todo, UNCHANGED <<version, vector>>,
               content' = [content EXCEPT ![repository][c] =
                               Older(@, tool[repository])]
        PROVE  MetadataModest'
    <3>1. CASE repository = "base"
      <4>1. Older(content["base"][c], tool["base"]) \in {None} \cup Versions
        BY DEF TypeOK, Content, Older
      <4>2. Older(content["base"][c], tool["base"]) = content["base"][c]
        BY <4>1 DEF TypeOK, Content, MetadataModest, Older, Versions, None
      <4>3. content'["base"] = content["base"]
        BY <2>2, <3>1, <4>2 DEF TypeOK, Content
      <4> QED
        BY <1>5, <2>2, <4>3 DEF Stop, MetadataModest
    <3>2. CASE repository = "landscape"
      <4>1. content'["base"] = content["base"]
        BY <2>2, <3>2 DEF TypeOK
      <4> QED
        BY <1>5, <2>2, <4>1 DEF Stop, MetadataModest
    <3> QED
      BY <3>1, <3>2 DEF TypeOK
  <2>3. CASE version' = None /\ UNCHANGED <<content, vector>>
    BY <1>5, <2>3
       DEF Stop, MetadataModest, TypeOK, Content, None, Versions
  <2>4. CASE /\ UNCHANGED <<content, version>>
             /\ vector' = [vector EXCEPT
                              ![repository][Target[repository]] = Broken]
    <3>1. \A d \in Dirs : vector'["base"][d] \in {vector["base"][d], Broken}
      BY <2>4 DEF TypeOK
    <3> QED
      BY <1>5, <2>4, <3>1
         DEF Stop, MetadataModest, TypeOK, Content, None, Broken, Versions
  <2> QED
    BY <1>5, <2>1, <2>2, <2>3, <2>4 DEF Stop
<1>6. CASE UpdateBaseLink
  BY <1>6 DEF UpdateBaseLink, files, MetadataModest
<1>7. ASSUME NEW c \in Components, Generate(c) PROVE MetadataModest'
  <2>1. CASE repository = "base"
    <3>1. /\ content' = [content EXCEPT !["base"][c] = tool["base"]]
          /\ vouched' = vouched \cup {c}
      BY <1>7, <2>1 DEF Generate
    <3> QED
      BY <1>7, <3>1, ContentGrows DEF Generate
  <2>2. CASE repository = "landscape"
    <3>1. content'["base"] = content["base"] /\ vouched' = vouched
      BY <1>7, <2>2 DEF Generate, TypeOK
    <3> QED
      BY <1>7, <3>1 DEF Generate, MetadataModest
  <2> QED
    BY <2>1, <2>2 DEF TypeOK
<1>8. ASSUME NEW r \in Repositories, InstallTool(r) PROVE MetadataModest'
  <2>1. tool["base"] <= tool'["base"] /\ tool'["base"] \in Versions
    BY <1>8 DEF InstallTool, TypeOK, Versions
  <2> QED
    BY <1>8, <2>1
       DEF InstallTool, files, MetadataModest, TypeOK, Content, None, Broken, Versions
<1>9. ASSUME NEW r \in Repositories, RemoveVector(r) PROVE MetadataModest'
  <2>1. \A d \in Dirs : vector'["base"][d] \in {vector["base"][d], None}
    BY <1>9 DEF RemoveVector, TypeOK
  <2> QED
    BY <1>9, <2>1
       DEF RemoveVector, MetadataModest, TypeOK, Content, None, Broken, Versions
<1>10. CASE UNCHANGED vars
  BY <1>10 DEF vars, files, MetadataModest
<1> QED
  BY <1>1, <1>2, <1>3, <1>4, <1>5, <1>6, <1>7, <1>8, <1>9, <1>10 DEF Next

GenerationInv == TypeOK /\ RunConsistent /\ MetadataModest

LEMMA GenerationInvariant ==
    ASSUME ~Downgrades
    PROVE  Spec => []GenerationInv
<1>1. Init => GenerationInv
  BY InitTyped, InitRun, InitModest DEF GenerationInv
<1>2. GenerationInv /\ [Next]_vars => GenerationInv'
  BY NextTyped, NextRun, NextModest DEF GenerationInv
<1> QED
  BY <1>1, <1>2, PTL DEF Spec

(***************************************************************************)
(* The version check keeps its promise if no older release regenerates the *)
(* base: a landscape is not generated from components that are older than  *)
(* the tool, wherever the runs that generated the base were cut short.     *)
(***************************************************************************)
THEOREM LandscapeFollows ==
    ASSUME ~Downgrades
    PROVE  Spec => []LandscapeFollowsBase
<1>1. ASSUME GenerationInv PROVE LandscapeFollowsBase
  <2> SUFFICES ASSUME step # "idle", repository = "landscape",
                      NEW c \in registered \cap link.covered
               PROVE  tool["landscape"] <= link.content[c]
    BY DEF LandscapeFollowsBase
  <2>1. tool["landscape"] <= link.version /\ link.version <= link.content[c]
    BY <1>1 DEF GenerationInv, RunConsistent, MetadataModest
  <2>2. tool["landscape"] \in Int /\ link.version \in Int /\ link.content[c] \in Int
    BY <1>1, GenerationAssumption
       DEF GenerationInv, TypeOK, Content, None, Versions, Repositories
  <2> QED
    BY <2>1, <2>2
<1> QED
  BY <1>1, GenerationInvariant, PTL

(***************************************************************************)
(* In such a base a component can be upgraded from a version that it does  *)
(* not have yet only if the run that wrote the vector left it out and none *)
(* has generated it since.                                                 *)
(***************************************************************************)
THEOREM UpgradesSkipOnlyExcluded ==
    ASSUME ~Downgrades
    PROVE  Spec => []UpgradeSkipsOnlyExcluded
<1>1. ASSUME GenerationInv PROVE UpgradeSkipsOnlyExcluded
  <2> SUFFICES ASSUME step = "generating", repository = "base",
                      NEW c \in todo, c \in vouched
               PROVE  ~(context[c] > content["base"][c])
    BY DEF UpgradeSkipsOnlyExcluded
  <2>1. context[c] = vector["base"][Root] /\ vector["base"][Root] <= content["base"][c]
    BY <1>1, GenerationAssumption
       DEF GenerationInv, TypeOK, RunConsistent, MetadataModest
  <2>2. context[c] \in Int /\ content["base"][c] \in Int
    BY <1>1, GenerationAssumption
       DEF GenerationInv, TypeOK, Content, None, Versions, Repositories
  <2> QED
    BY <2>1, <2>2
<1> QED
  BY <1>1, GenerationInvariant, PTL

(***************************************************************************)
(* The vector describes the components of a completed run, unless the      *)
(* present run has already generated them anew.                            *)
(***************************************************************************)
VectorExact ==
    \A r \in Repositories : \A c \in complete[r] :
        \/ vector[r][Root] = content[r][c]
        \/ step # "idle" /\ repository = r /\ c \notin todo

LEMMA NextExact ==
    ASSUME \A r \in Repositories : Target[r] = Root,
           TypeOK, RunConsistent, VectorExact, [Next]_vars
    PROVE  VectorExact'
<1> USE GenerationAssumption
<1>1. CASE StartBase \/ StartLandscape
  BY <1>1 DEF StartBase, StartLandscape, Register, VectorExact
<1>2. CASE AllGenerated
  BY <1>2 DEF AllGenerated, files, VectorExact
<1>3. CASE WriteVersionMetadata
  BY <1>3 DEF WriteVersionMetadata, VectorExact
<1>4. CASE WriteComponentVectorMetadata
  <2>1. vector' = [vector EXCEPT ![repository][Root] = tool[repository]]
    BY <1>4 DEF WriteComponentVectorMetadata, TypeOK
  <2>2. \A c \in registered : content[repository][c] = tool[repository]
    BY <1>4 DEF WriteComponentVectorMetadata, RunConsistent
  <2>3. /\ complete' = [complete EXCEPT ![repository] = registered]
        /\ UNCHANGED content
    BY <1>4 DEF WriteComponentVectorMetadata
  <2>4. \A c \in complete'[repository] :
            vector'[repository][Root] = content'[repository][c]
    BY <2>1, <2>2, <2>3 DEF TypeOK
  <2>5. ASSUME NEW r \in Repositories \ {repository}, NEW c \in complete'[r]
        PROVE  vector'[r][Root] = content'[r][c]
    <3>1. complete'[r] = complete[r] /\ vector'[r] = vector[r]
      BY <2>1, <2>3 DEF TypeOK
    <3> QED
      BY <2>3, <2>5, <3>1 DEF VectorExact
  <2> QED
    BY <2>4, <2>5 DEF VectorExact
<1>5. CASE Stop
  <2>1. \A c \in complete'[repository] : FALSE
    BY <1>5 DEF Stop, TypeOK
  <2>2. ASSUME NEW r \in Repositories \ {repository}, NEW c \in complete'[r]
        PROVE  vector'[r][Root] = content'[r][c]
    <3>1. complete'[r] = complete[r]
      BY <1>5 DEF Stop, TypeOK
    <3>2. vector'[r] = vector[r] /\ content'[r] = content[r]
      BY <1>5 DEF Stop, files, TypeOK
    <3> QED
      BY <2>2, <3>1, <3>2 DEF VectorExact
  <2> QED
    BY <2>1, <2>2 DEF VectorExact
<1>6. CASE UpdateBaseLink
  BY <1>6 DEF UpdateBaseLink, files, run, VectorExact
<1>7. ASSUME NEW d \in Components, Generate(d) PROVE VectorExact'
  <2> SUFFICES ASSUME NEW r \in Repositories, NEW c \in complete[r]
               PROVE  \/ vector[r][Root] = content'[r][c]
                      \/ step # "idle" /\ repository = r /\ c \notin todo'
    BY <1>7 DEF Generate, VectorExact
  <2>1. CASE r = repository /\ c = d
    BY <1>7, <2>1 DEF Generate
  <2>2. CASE ~(r = repository /\ c = d)
    <3>1. content'[r][c] = content[r][c]
      BY <1>7, <2>2 DEF Generate, TypeOK, Content
    <3> QED
      BY <1>7, <3>1 DEF Generate, VectorExact
  <2> QED
    BY <2>1, <2>2
<1>8. ASSUME NEW r \in Repositories, InstallTool(r) PROVE VectorExact'
  BY <1>8 DEF InstallTool, files, run, VectorExact
<1>9. ASSUME NEW r \in Repositories, RemoveVector(r) PROVE VectorExact'
  <2>1. complete[r] = {}
    <3> SUFFICES ASSUME NEW c \in complete[r] PROVE FALSE
      OBVIOUS
    <3>1. content[r][c] # Broken
      BY DEF TypeOK, Content, None, Broken, Versions
    <3> QED
      BY <1>9, <3>1 DEF RemoveVector, VectorExact
  <2>2. \A s \in Repositories \ {r} : vector'[s] = vector[s]
    BY <1>9 DEF RemoveVector, TypeOK
  <2> QED
    BY <1>9, <2>1, <2>2 DEF RemoveVector, run, VectorExact
<1>10. CASE UNCHANGED vars
  BY <1>10 DEF vars, files, run, VectorExact
<1> QED
  BY <1>1, <1>2, <1>3, <1>4, <1>5, <1>6, <1>7, <1>8, <1>9, <1>10 DEF Next

(***************************************************************************)
(* "CurrentVersion is the currently installed version of the component",   *)
(* for components that the last run completed, if the content is generated *)
(* at the root of the repository.                                          *)
(***************************************************************************)
THEOREM CurrentVersionInstalled ==
    ASSUME \A r \in Repositories : Target[r] = Root
    PROVE  Spec => []CurrentVersionIsInstalled
<1> DEFINE Inv == TypeOK /\ RunConsistent /\ VectorExact
<1>1. Init => Inv
  BY InitTyped, InitRun DEF Init, VectorExact
<1>2. Inv /\ [Next]_vars => Inv'
  BY NextTyped, NextRun, NextExact
<1>3. ASSUME Inv PROVE CurrentVersionIsInstalled
  BY <1>3 DEF TypeOK, RunConsistent, VectorExact, CurrentVersionIsInstalled
<1> QED
  BY <1>1, <1>2, <1>3, PTL DEF Spec
=============================================================================
