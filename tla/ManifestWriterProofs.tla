------------------------- MODULE ManifestWriterProofs -------------------------
(***************************************************************************)
(* Proofs about the manifest writer and what it leaves of the operator's   *)
(* work, for any number of files, releases, edits and interruptions, and   *)
(* whatever the merge does that has the laws a theorem names.              *)
(***************************************************************************)
EXTENDS ManifestPins, TLAPS

\* What is assumed of the two parameters that are operators.
ParametersTyped ==
    /\ \A a, b, c \in Contents : Merge(a, b, c) \in Contents
    /\ \A c \in Contents \cup {NoFile} : Edits(c) \subseteq Contents

\* A file that is done with: deleted by the operator, or up to date.
Settled(f) == f \in removed \/ (status[f] = "done" /\ default[f] = object[f])

(***************************************************************************)
(* Why a deleted file is recognised: the run at a file never is at a       *)
(* deleted one, the operator's file is there before its default is, and so *)
(* a default without a file is the operator's doing.                       *)
(***************************************************************************)
DeletionsKnown ==
    /\ step \in {"write", "record"} => file \notin removed
    /\ step = "record" => current[file] # NoFile
    /\ \A f \in Files : deletedByUser(f) => f \in removed

(***************************************************************************)
(* Why a run that ends is complete: whatever it has visited is settled,    *)
(* but for the file it is at.                                              *)
(***************************************************************************)
VisitedSettled ==
    /\ outcome = "ok" => step = "idle" /\ \A f \in Files : Settled(f)
    /\ step # "idle" => \A f \in Files \ pending :
           Settled(f) \/ (step \in {"write", "record"} /\ f = file)

WriterInv ==
    /\ TypeOK
    /\ RemovedStayRemoved
    /\ DeletionsKnown
    /\ VisitedSettled

-----------------------------------------------------------------------------
LEMMA ReadTyped ==
    ASSUME NEW x \in Contents \cup {NoFile}
    PROVE  Read(x) \in Contents
BY WriterAssumption DEF Read

\* Every rendering gives every file a content.
LEMMA RenderingTyped ==
    ASSUME NEW r \in Renderings, NEW f \in Files
    PROVE  r[f] \in Contents /\ r[f] # NoFile
BY WriterAssumption

LEMMA InitInvariant == Init => WriterInv
BY WriterAssumption
   DEF Init, WriterInv, TypeOK, RemovedStayRemoved, DeletionsKnown,
       VisitedSettled, deletedByUser

-----------------------------------------------------------------------------
(* One lemma per action *)

LEMMA StartRunStep == WriterInv /\ StartRun => WriterInv'
BY DEF WriterInv, StartRun, TypeOK, RemovedStayRemoved, DeletionsKnown,
       VisitedSettled, deletedByUser, Settled, files, history, bounds

LEMMA SkipFileStep ==
    ASSUME NEW f \in Files
    PROVE  WriterInv /\ SkipFile(f) => WriterInv'
BY DEF WriterInv, SkipFile, Visit, TypeOK, RemovedStayRemoved, DeletionsKnown,
       VisitedSettled, deletedByUser, Settled, files, history, bounds

LEMMA MergeFileStep ==
    ASSUME ParametersTyped, NEW f \in Files
    PROVE  WriterInv /\ MergeFile(f) => WriterInv'
<1> SUFFICES ASSUME WriterInv, MergeFile(f)
             PROVE  WriterInv'
    OBVIOUS
<1> USE DEF WriterInv, MergeFile, Visit, files, bounds
<1>1. output' \in Contents
    BY ReadTyped, RenderingTyped DEF TypeOK, ParametersTyped, mergedFile
<1>2. TypeOK'
    BY <1>1 DEF TypeOK
<1>3. RemovedStayRemoved'
    BY DEF RemovedStayRemoved
<1>4. DeletionsKnown'
    BY DEF DeletionsKnown, RemovedStayRemoved, deletedByUser, TypeOK
<1>5. VisitedSettled'
    BY DEF VisitedSettled, Settled, TypeOK
<1> QED
    BY <1>2, <1>3, <1>4, <1>5

LEMMA MergeFailsStep ==
    ASSUME NEW f \in Files
    PROVE  WriterInv /\ MergeFails(f) => WriterInv'
BY DEF WriterInv, MergeFails, Visit, TypeOK, RemovedStayRemoved, DeletionsKnown,
       VisitedSettled, deletedByUser, Settled, files, history, bounds

LEMMA WriteCurrentStep == WriterInv /\ WriteCurrent => WriterInv'
<1> SUFFICES ASSUME WriterInv, WriteCurrent
             PROVE  WriterInv'
    OBVIOUS
<1> USE DEF WriterInv, WriteCurrent, history, bounds
<1>1. TypeOK'
    BY DEF TypeOK
<1>2. RemovedStayRemoved'
    BY DEF RemovedStayRemoved, DeletionsKnown, TypeOK
<1>3. DeletionsKnown'
    BY WriterAssumption DEF DeletionsKnown, deletedByUser, TypeOK
<1>4. VisitedSettled'
    BY DEF VisitedSettled, Settled
<1> QED
    BY <1>1, <1>2, <1>3, <1>4

LEMMA WriteDefaultStep == WriterInv /\ WriteDefault => WriterInv'
<1> SUFFICES ASSUME WriterInv, WriteDefault
             PROVE  WriterInv'
    OBVIOUS
<1> USE DEF WriterInv, WriteDefault, bounds
<1>1. TypeOK'
    BY RenderingTyped DEF TypeOK
<1>2. RemovedStayRemoved'
    BY DEF RemovedStayRemoved, DeletionsKnown, TypeOK
<1>3. DeletionsKnown'
    BY DEF DeletionsKnown, deletedByUser, TypeOK
<1>4. VisitedSettled'
    BY DEF VisitedSettled, Settled, TypeOK
<1> QED
    BY <1>1, <1>2, <1>3, <1>4

LEMMA EndRunStep == WriterInv /\ EndRun => WriterInv'
BY DEF WriterInv, EndRun, TypeOK, RemovedStayRemoved, DeletionsKnown,
       VisitedSettled, deletedByUser, Settled, files, history, bounds

\* A write that was torn may take the operator's file or the default, but not
\* those of a deleted file: the run is not at one.
LEMMA InterruptStep == WriterInv /\ Interrupt => WriterInv'
<1> SUFFICES ASSUME WriterInv, Interrupt
             PROVE  WriterInv'
    OBVIOUS
<1> USE DEF WriterInv, Interrupt, Stop, files
<1>1. TypeOK'
    BY WriterAssumption DEF TypeOK
<1>2. RemovedStayRemoved'
    BY DEF RemovedStayRemoved, DeletionsKnown, TypeOK
<1>3. DeletionsKnown'
    BY WriterAssumption DEF DeletionsKnown, deletedByUser, TypeOK
<1>4. VisitedSettled'
    BY DEF VisitedSettled
<1> QED
    BY <1>1, <1>2, <1>3, <1>4

LEMMA TearStep == WriterInv /\ Tear => WriterInv'
<1> SUFFICES ASSUME WriterInv, Tear
             PROVE  WriterInv'
    OBVIOUS
<1> USE DEF WriterInv, Tear, Stop
<1>1. TypeOK'
    BY WriterAssumption DEF TypeOK
<1>2. RemovedStayRemoved'
    BY DEF RemovedStayRemoved, DeletionsKnown, TypeOK
<1>3. DeletionsKnown'
    BY WriterAssumption DEF DeletionsKnown, deletedByUser, TypeOK
<1>4. VisitedSettled'
    BY DEF VisitedSettled
<1> QED
    BY <1>1, <1>2, <1>3, <1>4

LEMMA EditFileStep ==
    ASSUME ParametersTyped, NEW f \in Files
    PROVE  WriterInv /\ EditFile(f) => WriterInv'
<1> SUFFICES ASSUME WriterInv, EditFile(f)
             PROVE  WriterInv'
    OBVIOUS
<1> USE DEF WriterInv, EditFile, Operate, run
<1>1. PICK c \in Contents : current' = [current EXCEPT ![f] = c]
    BY DEF TypeOK, ParametersTyped
<1>2. TypeOK'
    BY <1>1, WriterAssumption DEF TypeOK
<1>3. RemovedStayRemoved'
    BY <1>1 DEF RemovedStayRemoved, TypeOK
<1>4. DeletionsKnown'
    BY <1>1, WriterAssumption DEF DeletionsKnown, deletedByUser, TypeOK
<1>5. VisitedSettled'
    BY DEF VisitedSettled
<1> QED
    BY <1>2, <1>3, <1>4, <1>5

LEMMA DeleteFileStep ==
    ASSUME NEW f \in Files
    PROVE  WriterInv /\ DeleteFile(f) => WriterInv'
<1> SUFFICES ASSUME WriterInv, DeleteFile(f)
             PROVE  WriterInv'
    OBVIOUS
<1> USE DEF WriterInv, DeleteFile, Operate, run
<1>1. TypeOK'
    BY WriterAssumption DEF TypeOK
<1>2. RemovedStayRemoved'
    BY DEF RemovedStayRemoved, TypeOK
<1>3. DeletionsKnown'
    BY DEF DeletionsKnown, deletedByUser, TypeOK
<1>4. VisitedSettled'
    BY DEF VisitedSettled
<1> QED
    BY <1>1, <1>2, <1>3, <1>4

LEMMA DeleteDefaultStep ==
    ASSUME NEW f \in Files
    PROVE  WriterInv /\ DeleteDefault(f) => WriterInv'
<1> SUFFICES ASSUME WriterInv, DeleteDefault(f)
             PROVE  WriterInv'
    OBVIOUS
<1> USE DEF WriterInv, DeleteDefault, Operate, run
<1>1. TypeOK'
    BY WriterAssumption DEF TypeOK
<1>2. RemovedStayRemoved'
    BY DEF RemovedStayRemoved, TypeOK
<1>3. DeletionsKnown'
    BY DEF DeletionsKnown, deletedByUser, TypeOK
<1>4. VisitedSettled'
    BY DEF VisitedSettled
<1> QED
    BY <1>1, <1>2, <1>3, <1>4

LEMMA UpgradeStep == WriterInv /\ Upgrade => WriterInv'
<1> SUFFICES ASSUME WriterInv, Upgrade
             PROVE  WriterInv'
    OBVIOUS
<1> USE DEF WriterInv, Upgrade, run, files
<1>1. TypeOK'
    BY WriterAssumption DEF TypeOK
<1>2. RemovedStayRemoved'
    BY DEF RemovedStayRemoved
<1>3. DeletionsKnown'
    BY DEF DeletionsKnown, deletedByUser
<1>4. VisitedSettled'
    BY DEF VisitedSettled
<1> QED
    BY <1>1, <1>2, <1>3, <1>4

-----------------------------------------------------------------------------
LEMMA WriterKept ==
    ASSUME ParametersTyped, WriterInv, [Next]_vars
    PROVE  WriterInv'
<1>1. CASE UNCHANGED vars
    BY <1>1 DEF WriterInv, vars, files, run, history, bounds, TypeOK,
                RemovedStayRemoved, DeletionsKnown, VisitedSettled,
                deletedByUser, Settled
<1>2. CASE Proceed
    BY <1>2, StartRunStep, WriteCurrentStep, WriteDefaultStep, EndRunStep,
       InterruptStep, SkipFileStep, MergeFailsStep DEF Proceed
<1>3. CASE Tear
    BY <1>3, TearStep
<1>4. CASE Upgrade
    BY <1>4, UpgradeStep
<1>5. CASE \E f \in Files : MergeFile(f)
    BY <1>5, MergeFileStep
<1>6. CASE \E f \in Files : Operator(f)
    BY <1>6, EditFileStep, DeleteFileStep, DeleteDefaultStep DEF Operator
<1> QED
    BY <1>1, <1>2, <1>3, <1>4, <1>5, <1>6 DEF Next

(***************************************************************************)
(* The writer maintains its invariant in all its states.                   *)
(***************************************************************************)
THEOREM WriterInvariant ==
    ASSUME ParametersTyped
    PROVE  Spec => []WriterInv
BY InitInvariant, WriterKept, PTL DEF Spec

(***************************************************************************)
(* The type invariant of the writer.                                       *)
(***************************************************************************)
THEOREM WriterTyped ==
    ASSUME ParametersTyped
    PROVE  Spec => []TypeOK
<1>1. WriterInv => TypeOK
    BY DEF WriterInv
<1> QED
    BY <1>1, WriterInvariant, PTL

(***************************************************************************)
(* A file the operator deleted is not generated again, whatever the merge  *)
(* does and wherever runs are cut short or writes torn.                    *)
(***************************************************************************)
THEOREM RemovedStays ==
    ASSUME ParametersTyped
    PROVE  Spec => []RemovedStayRemoved
<1>1. WriterInv => RemovedStayRemoved
    BY DEF WriterInv
<1> QED
    BY <1>1, WriterInvariant, PTL

(***************************************************************************)
(* A run that succeeds leaves no file behind, in whatever order it visits  *)
(* them and whatever runs before it failed half way.                       *)
(***************************************************************************)
THEOREM SuccessComplete ==
    ASSUME ParametersTyped
    PROVE  Spec => []SuccessIsComplete
<1>1. WriterInv => SuccessIsComplete
    BY DEF WriterInv, VisitedSettled, Settled, SuccessIsComplete
<1> QED
    BY <1>1, WriterInvariant, PTL

-----------------------------------------------------------------------------
(* Runs that are repeated *)

(***************************************************************************)
(* Why repeating a run agrees with the first attempt: until the default is *)
(* recorded, a file is either as the first attempt found it or as it left  *)
(* it, and merging gives what the first attempt was to write either way.   *)
(***************************************************************************)
AttemptsAgree ==
    /\ \A f \in Files :
           /\ default[f] \in DefaultsOf(f) \cup {NoFile}
           /\ status[f] = "attempted" =>
                  Equivalent(Merge(Read(default[f]), object[f], Read(current[f])), goal[f])
    /\ step \in {"write", "record"} =>
           /\ status[file] = "attempted"
           /\ Equivalent(output, goal[file])
           /\ \E c \in Contents :
                  ~Unparsable(c) /\ output = Merge(Read(default[file]), object[file], c)
    /\ step = "record" => current[file] = output

RepeatInv == WriterInv /\ AttemptsAgree /\ RepeatedRunAgrees

\* What the theorem about repeated runs assumes of the parameters.
MergeSettles == ParametersTyped /\ MergeRepeats(Contents) /\ Equivalence

\* An old default that was recorded or is missing.
LEMMA ReadDefault ==
    ASSUME NEW f \in Files, NEW d \in DefaultsOf(f) \cup {NoFile}
    PROVE  Read(d) \in DefaultsOf(f) /\ Read(d) \in Contents
BY WriterAssumption DEF Read, DefaultsOf

\* What is written is what the next run merges to, from either default.
LEMMA MergedAgain ==
    ASSUME MergeSettles, NEW f \in Files, NEW r \in Renderings,
           NEW old \in DefaultsOf(f), NEW c \in Contents, ~Unparsable(c),
           NEW g \in Contents, Equivalent(Merge(old, r[f], c), g)
    PROVE  /\ Merge(old, r[f], c) \in Contents
           /\ Equivalent(Merge(old, r[f], Merge(old, r[f], c)), g)
           /\ Equivalent(Merge(r[f], r[f], Merge(old, r[f], c)), Merge(old, r[f], c))
<1> DEFINE m == Merge(old, r[f], c)
<1>1. old \in Contents /\ r[f] \in Contents
    BY WriterAssumption DEF DefaultsOf
<1>2. m \in Contents /\ Merge(old, r[f], m) \in Contents
    BY <1>1 DEF MergeSettles, ParametersTyped
<1>3. Equivalent(Merge(old, r[f], m), m) /\ Equivalent(Merge(r[f], r[f], m), m)
    BY DEF MergeSettles, MergeRepeats
<1>4. Equivalent(Merge(old, r[f], m), g)
    BY <1>2, <1>3 DEF MergeSettles, Equivalence
<1> QED
    BY <1>2, <1>3, <1>4

LEMMA RepeatInit == Init => RepeatInv
BY InitInvariant
   DEF Init, RepeatInv, AttemptsAgree, RepeatedRunAgrees

\* A step that leaves the files, what is rendered and what was attempted alone,
\* and that is not about to write afterwards.
LEMMA NothingWritten ==
    ASSUME AttemptsAgree, RepeatedRunAgrees, UNCHANGED <<files, object, status, goal>>,
           step' \notin {"write", "record"}
    PROVE  AttemptsAgree' /\ RepeatedRunAgrees'
BY DEF AttemptsAgree, RepeatedRunAgrees, files

LEMMA MergeFileRepeats ==
    ASSUME MergeSettles, RepeatInv, NEW f \in Files, MergeFile(f)
    PROVE  AttemptsAgree' /\ RepeatedRunAgrees'
<1> DEFINE old == Read(default[f])
           c == Read(current[f])
           m == Merge(old, object[f], c)
<1>1. TypeOK /\ AttemptsAgree /\ RepeatedRunAgrees
    BY DEF RepeatInv, WriterInv
<1>2. old \in DefaultsOf(f) /\ old \in Contents
    BY <1>1, ReadDefault DEF AttemptsAgree
<1>3. c \in Contents /\ ~Unparsable(c) /\ object[f] \in Contents
    BY <1>1, ReadTyped, RenderingTyped DEF TypeOK, MergeFile, Readable
<1>4. m \in Contents
    BY <1>2, <1>3 DEF MergeSettles, ParametersTyped
<1>5. /\ output' = m /\ file' = f /\ step' = "write"
      /\ status' = [status EXCEPT ![f] = "attempted"]
      /\ goal' = IF status[f] = "attempted" THEN goal ELSE [goal EXCEPT ![f] = m]
      /\ UNCHANGED <<current, default, object>>
    BY DEF MergeFile, mergedFile, files
<1>6. Equivalent(m, goal'[f]) /\ \A g \in Files \ {f} : goal'[g] = goal[g]
    BY <1>1, <1>4, <1>5 DEF AttemptsAgree, MergeSettles, Equivalence, TypeOK
<1>7. AttemptsAgree'
    BY <1>1, <1>3, <1>5, <1>6 DEF AttemptsAgree, TypeOK
<1>8. RepeatedRunAgrees'
    BY <1>1, <1>5, <1>6 DEF RepeatedRunAgrees, TypeOK
<1> QED
    BY <1>7, <1>8

LEMMA WriteCurrentRepeats ==
    ASSUME MergeSettles, RepeatInv, WriteCurrent
    PROVE  AttemptsAgree' /\ RepeatedRunAgrees'
<1>1. TypeOK /\ AttemptsAgree /\ RepeatedRunAgrees
    BY DEF RepeatInv, WriterInv
<1>2. /\ file \in Files /\ output \in Contents /\ goal[file] \in Contents
      /\ current' = [current EXCEPT ![file] = output] /\ step' = "record"
      /\ UNCHANGED <<default, object, file, output, status, goal>>
      /\ status[file] = "attempted" /\ Equivalent(output, goal[file])
    BY <1>1 DEF WriteCurrent, history, TypeOK, AttemptsAgree
<1>3. PICK c \in Contents :
          ~Unparsable(c) /\ output = Merge(Read(default[file]), object[file], c)
    BY <1>1 DEF AttemptsAgree, WriteCurrent
<1>4. Read(default[file]) \in DefaultsOf(file)
    BY <1>1, <1>2, ReadDefault DEF AttemptsAgree
<1>5. object \in Renderings
    BY <1>1 DEF TypeOK
<1>6. Equivalent(Merge(Read(default[file]), object[file], output), goal[file])
    BY <1>2, <1>3, <1>4, <1>5, MergedAgain
<1>7. Read(output) = output
    BY <1>2, WriterAssumption DEF Read
<1>8. AttemptsAgree'
    BY <1>1, <1>2, <1>3, <1>6, <1>7 DEF AttemptsAgree, TypeOK
<1>9. RepeatedRunAgrees'
    BY <1>1, <1>2 DEF RepeatedRunAgrees, TypeOK
<1> QED
    BY <1>8, <1>9

LEMMA WriteDefaultRepeats ==
    ASSUME MergeSettles, RepeatInv, WriteDefault
    PROVE  AttemptsAgree' /\ RepeatedRunAgrees'
<1>1. TypeOK /\ AttemptsAgree /\ RepeatedRunAgrees
    BY DEF RepeatInv, WriterInv
<1>2. /\ file \in Files /\ goal[file] \in Contents /\ object \in Renderings
      /\ default' = [default EXCEPT ![file] = object[file]] /\ step' = "next"
      /\ status' = [status EXCEPT ![file] = "done"]
      /\ UNCHANGED <<current, object, goal>>
      /\ current[file] = output /\ Equivalent(output, goal[file])
    BY <1>1 DEF WriteDefault, TypeOK, AttemptsAgree
<1>3. PICK c \in Contents :
          ~Unparsable(c) /\ output = Merge(Read(default[file]), object[file], c)
    BY <1>1 DEF AttemptsAgree, WriteDefault
<1>4. Read(default[file]) \in DefaultsOf(file)
    BY <1>1, <1>2, ReadDefault DEF AttemptsAgree
<1>5. Equivalent(Merge(object[file], object[file], output), output)
    BY <1>2, <1>3, <1>4, MergedAgain
<1>6. object[file] \in DefaultsOf(file)
    BY <1>2 DEF DefaultsOf
<1>7. AttemptsAgree'
    BY <1>1, <1>2, <1>6 DEF AttemptsAgree, TypeOK
<1>8. RepeatedRunAgrees'
    BY <1>1, <1>2, <1>5 DEF RepeatedRunAgrees, TypeOK
<1> QED
    BY <1>7, <1>8

\* A file or a default that was truncated reads as nothing, and the attempt is
\* forgotten.
LEMMA TearRepeats ==
    ASSUME RepeatInv, Tear
    PROVE  AttemptsAgree' /\ RepeatedRunAgrees'
<1>1. TypeOK /\ AttemptsAgree /\ RepeatedRunAgrees
    BY DEF RepeatInv, WriterInv
<1>2. /\ step' = "idle" /\ UNCHANGED <<object, goal>>
      /\ status' = [status EXCEPT ![file] = "changed"] /\ file \in Files
      /\ current' \in {current, [current EXCEPT ![file] = EmptyFile]}
      /\ default' \in {default, [default EXCEPT ![file] = EmptyFile]}
    BY <1>1 DEF Tear, Stop, TypeOK
<1>3. \A f \in Files : /\ default'[f] \in DefaultsOf(f) \cup {NoFile}
                       /\ f # file => default'[f] = default[f] /\ current'[f] = current[f]
    BY <1>1, <1>2 DEF AttemptsAgree, DefaultsOf, TypeOK
<1> QED
    BY <1>1, <1>2, <1>3 DEF AttemptsAgree, RepeatedRunAgrees, TypeOK

LEMMA OperatorRepeats ==
    ASSUME RepeatInv, NEW f \in Files, Operator(f)
    PROVE  AttemptsAgree' /\ RepeatedRunAgrees'
<1>1. TypeOK /\ AttemptsAgree /\ RepeatedRunAgrees
    BY DEF RepeatInv, WriterInv
<1>2. /\ step' = "idle" /\ UNCHANGED <<object, goal>>
      /\ status' = [status EXCEPT ![f] = "changed"]
    BY DEF Operator, EditFile, DeleteFile, DeleteDefault, Operate, run
<1>3. default' \in {default, [default EXCEPT ![f] = NoFile]}
    BY DEF Operator, EditFile, DeleteFile, DeleteDefault
<1>4. \E c : current' \in {current, [current EXCEPT ![f] = c]}
    BY DEF Operator, EditFile, DeleteFile, DeleteDefault
<1>5. \A g \in Files : /\ default'[g] \in DefaultsOf(g) \cup {NoFile}
                       /\ g # f => default'[g] = default[g] /\ current'[g] = current[g]
    BY <1>1, <1>3, <1>4 DEF AttemptsAgree, TypeOK
<1> QED
    BY <1>1, <1>2, <1>5 DEF AttemptsAgree, RepeatedRunAgrees, TypeOK

\* What is rendered as before has been attempted as before.
LEMMA UpgradeRepeats ==
    ASSUME RepeatInv, Upgrade
    PROVE  AttemptsAgree' /\ RepeatedRunAgrees'
<1>1. TypeOK /\ AttemptsAgree /\ RepeatedRunAgrees
    BY DEF RepeatInv, WriterInv
<1>2. step' = "idle" /\ UNCHANGED <<current, default, goal>>
    BY DEF Upgrade, run, files
<1>3. \A f \in Files : status'[f] # "changed" =>
                           status'[f] = status[f] /\ object'[f] = object[f]
    BY DEF Upgrade
<1> QED
    BY <1>1, <1>2, <1>3 DEF AttemptsAgree, RepeatedRunAgrees

(***************************************************************************)
(* Repeating a run that was interrupted writes what the interrupted one    *)
(* would have written, and repeating one that ended changes nothing:       *)
(* however often runs are cut short, as merging is repeatable.             *)
(***************************************************************************)
THEOREM RepetitionAgrees ==
    ASSUME MergeSettles
    PROVE  Spec => []RepeatedRunAgrees
<1>1. RepeatInv /\ [Next]_vars => RepeatInv'
    <2> SUFFICES ASSUME RepeatInv, [Next]_vars
                 PROVE  AttemptsAgree' /\ RepeatedRunAgrees'
        BY WriterKept DEF RepeatInv, MergeSettles
    <2>0. AttemptsAgree /\ RepeatedRunAgrees
        BY DEF RepeatInv
    <2>1. CASE UNCHANGED vars
        BY <2>0, <2>1 DEF AttemptsAgree, RepeatedRunAgrees, vars, files, run, history
    <2>2. CASE StartRun \/ EndRun \/ Interrupt
        <3>1. UNCHANGED <<files, object, status, goal>> /\ step' \notin {"write", "record"}
            BY <2>2 DEF StartRun, EndRun, Interrupt, Stop, history
        <3> QED
            BY <2>0, <3>1, NothingWritten
    <2>3. CASE \E f \in Files : SkipFile(f) \/ MergeFails(f)
        <3>1. UNCHANGED <<files, object, status, goal>> /\ step' \notin {"write", "record"}
            BY <2>3 DEF SkipFile, MergeFails, Visit, history
        <3> QED
            BY <2>0, <3>1, NothingWritten
    <2>4. CASE WriteCurrent
        BY <2>4, WriteCurrentRepeats
    <2>5. CASE WriteDefault
        BY <2>5, WriteDefaultRepeats
    <2>6. CASE Tear
        BY <2>6, TearRepeats
    <2>7. CASE Upgrade
        BY <2>7, UpgradeRepeats
    <2>8. CASE \E f \in Files : MergeFile(f)
        BY <2>8, MergeFileRepeats
    <2>9. CASE \E f \in Files : Operator(f)
        BY <2>9, OperatorRepeats
    <2> QED
        BY <2>1, <2>2, <2>3, <2>4, <2>5, <2>6, <2>7, <2>8, <2>9 DEF Next, Proceed
<1>2. RepeatInv => RepeatedRunAgrees
    BY DEF RepeatInv
<1> QED
    BY <1>1, <1>2, RepeatInit, PTL DEF Spec

-----------------------------------------------------------------------------
(* Files that are left alone *)

(***************************************************************************)
(* Why a file that only the tool writes follows its object: it configures  *)
(* what its default does, or is about to be what it was merged to, which   *)
(* its default will be next.                                               *)
(***************************************************************************)
FollowsFrom(generated) ==
    /\ \A f \in Files : default[f] \in DefaultsOf(f) \cup {NoFile}
    /\ step = "record" => current[file] = output
    /\ \A f \in Files \ touched :
           /\ step \in {"write", "record"} /\ file = f =>
                  output \in generated[f] /\ Equivalent(output, object[f])
           /\ \/ current[f] = NoFile
              \/ step = "record" /\ file = f
              \/ current[f] \in generated[f] /\ Equivalent(current[f], Read(default[f]))

FollowInv(generated) ==
    WriterInv /\ FollowsFrom(generated) /\ UntouchedFollowsDefault

LEMMA FollowInit ==
    ASSUME NEW generated
    PROVE  Init => FollowInv(generated)
BY InitInvariant
   DEF Init, FollowInv, FollowsFrom, UntouchedFollowsDefault

LEMMA NothingFollows ==
    ASSUME NEW generated, FollowsFrom(generated), UntouchedFollowsDefault,
           UNCHANGED <<files, object, status, touched>>,
           step \notin {"write", "record"}, step' \notin {"write", "record"}
    PROVE  FollowsFrom(generated)' /\ UntouchedFollowsDefault'
BY DEF FollowsFrom, UntouchedFollowsDefault, files

\* Either the file says what its default does, or neither is there.
LEMMA MergeFileFollows ==
    ASSUME NEW generated, MergeFollows(generated), Equivalent(EmptyFile, EmptyFile),
           FollowInv(generated), NEW f \in Files, MergeFile(f)
    PROVE  FollowsFrom(generated)' /\ UntouchedFollowsDefault'
<1> DEFINE old == Read(default[f])
           c == Read(current[f])
<1>1. TypeOK /\ FollowsFrom(generated) /\ UntouchedFollowsDefault
    BY DEF FollowInv, WriterInv
<1>2. /\ step = "next" /\ step' = "write" /\ file' = f
      /\ output' = Merge(old, object[f], c) /\ ~deletedByUser(f)
      /\ status' = [status EXCEPT ![f] = "attempted"]
      /\ UNCHANGED <<current, default, object, touched>>
    BY DEF MergeFile, mergedFile, Visit, files
<1>3. old \in DefaultsOf(f)
    BY <1>1, ReadDefault DEF FollowsFrom
<1>4. ASSUME f \notin touched
      PROVE  c \in generated[f] /\ Equivalent(c, old)
    <2>1. CASE current[f] = NoFile
        <3>1. c = EmptyFile /\ old = EmptyFile
            BY <1>2, <2>1 DEF deletedByUser, Read
        <3> QED
            BY <3>1 DEF MergeFollows
    <2>2. CASE current[f] # NoFile
        BY <1>1, <1>2, <1>4, <2>2 DEF FollowsFrom, Read
    <2> QED
        BY <2>1, <2>2
<1>5. ASSUME f \notin touched
      PROVE  output' \in generated[f] /\ Equivalent(output', object[f])
    <2>1. object \in Renderings
        BY <1>1 DEF TypeOK
    <2>2. c \in generated[f] /\ Equivalent(c, old)
        BY <1>4, <1>5
    <2> QED
        BY <1>2, <1>3, <2>1, <2>2 DEF MergeFollows
<1>6. FollowsFrom(generated)'
    BY <1>1, <1>2, <1>5 DEF FollowsFrom
<1>7. UntouchedFollowsDefault'
    BY <1>1, <1>2 DEF UntouchedFollowsDefault, TypeOK
<1> QED
    BY <1>6, <1>7

LEMMA WriteCurrentFollows ==
    ASSUME NEW generated, FollowInv(generated), WriteCurrent
    PROVE  FollowsFrom(generated)' /\ UntouchedFollowsDefault'
<1>1. TypeOK /\ FollowsFrom(generated) /\ UntouchedFollowsDefault
    BY DEF FollowInv, WriterInv
<1>2. /\ step = "write" /\ step' = "record" /\ file \in Files
      /\ current' = [current EXCEPT ![file] = output]
      /\ UNCHANGED <<default, object, file, output, status, touched>>
    BY <1>1 DEF WriteCurrent, history, TypeOK
<1>3. FollowsFrom(generated)'
    BY <1>1, <1>2 DEF FollowsFrom, TypeOK
<1>4. UntouchedFollowsDefault'
    BY <1>1, <1>2 DEF UntouchedFollowsDefault, FollowsFrom, TypeOK
<1> QED
    BY <1>3, <1>4

LEMMA WriteDefaultFollows ==
    ASSUME NEW generated, FollowInv(generated), WriteDefault
    PROVE  FollowsFrom(generated)' /\ UntouchedFollowsDefault'
<1>1. TypeOK /\ FollowsFrom(generated) /\ UntouchedFollowsDefault
    BY DEF FollowInv, WriterInv
<1>2. /\ step = "record" /\ step' = "next" /\ file \in Files
      /\ default' = [default EXCEPT ![file] = object[file]]
      /\ status' = [status EXCEPT ![file] = "done"]
      /\ UNCHANGED <<current, object, touched>>
      /\ current[file] = output
    BY <1>1 DEF WriteDefault, TypeOK, FollowsFrom
<1>3. file \notin touched => /\ current[file] \in generated[file]
                             /\ Equivalent(current[file], object[file])
    BY <1>1, <1>2 DEF FollowsFrom
<1>4. object[file] \in DefaultsOf(file) /\ Read(object[file]) = object[file]
    BY <1>1, <1>2, RenderingTyped DEF DefaultsOf, Read, TypeOK
<1>5. FollowsFrom(generated)'
    BY <1>1, <1>2, <1>3, <1>4 DEF FollowsFrom, TypeOK
<1>6. UntouchedFollowsDefault'
    BY <1>1, <1>2, <1>3 DEF UntouchedFollowsDefault, TypeOK
<1> QED
    BY <1>5, <1>6

\* An edit takes a file out of the tool's hands; a deletion gives it back.
LEMMA OperatorFollows ==
    ASSUME NEW generated, FollowInv(generated), NEW f \in Files, Operator(f)
    PROVE  FollowsFrom(generated)' /\ UntouchedFollowsDefault'
<1>1. TypeOK /\ FollowsFrom(generated) /\ UntouchedFollowsDefault
    BY DEF FollowInv, WriterInv
<1>2. /\ step = "idle" /\ step' = "idle" /\ UNCHANGED <<object, file, output>>
      /\ status' = [status EXCEPT ![f] = "changed"]
    BY DEF Operator, EditFile, DeleteFile, DeleteDefault, Operate, run
<1>3. default' \in {default, [default EXCEPT ![f] = NoFile]}
    BY DEF Operator, EditFile, DeleteFile, DeleteDefault
<1>4. \E c : current' \in {current, [current EXCEPT ![f] = c]}
    BY DEF Operator, EditFile, DeleteFile, DeleteDefault
<1>5. /\ \A g \in Files : default'[g] \in DefaultsOf(g) \cup {NoFile}
      /\ \A g \in Files \ {f} : /\ default'[g] = default[g]
                                /\ current'[g] = current[g]
                                /\ g \in touched' <=> g \in touched
    BY <1>1, <1>3, <1>4
       DEF FollowsFrom, TypeOK, Operator, EditFile, DeleteFile, DeleteDefault
<1>6. f \in touched' \/ current'[f] = NoFile
    BY <1>1 DEF Operator, EditFile, DeleteFile, DeleteDefault, TypeOK
<1>7. FollowsFrom(generated)'
    BY <1>1, <1>2, <1>5, <1>6 DEF FollowsFrom
<1>8. UntouchedFollowsDefault'
    BY <1>1, <1>2, <1>5 DEF UntouchedFollowsDefault, TypeOK
<1> QED
    BY <1>7, <1>8

LEMMA UpgradeFollows ==
    ASSUME NEW generated, FollowInv(generated), Upgrade
    PROVE  FollowsFrom(generated)' /\ UntouchedFollowsDefault'
<1>1. FollowsFrom(generated) /\ UntouchedFollowsDefault
    BY DEF FollowInv
<1>2. step = "idle" /\ step' = "idle" /\ UNCHANGED <<current, default, touched>>
    BY DEF Upgrade, run, files
<1>3. \A f \in Files : status'[f] = "done" => status[f] = "done" /\ object'[f] = object[f]
    BY DEF Upgrade
<1>4. FollowsFrom(generated)'
    BY <1>1, <1>2 DEF FollowsFrom
<1>5. UntouchedFollowsDefault'
    BY <1>1, <1>2, <1>3 DEF UntouchedFollowsDefault
<1> QED
    BY <1>4, <1>5

(***************************************************************************)
(* A file that only the tool has written says what its object says, over   *)
(* any number of releases, deletions and edits of other files, if no run   *)
(* is cut short between its two writes.                                    *)
(***************************************************************************)
THEOREM UntouchedFollows ==
    ASSUME ParametersTyped, Equivalent(EmptyFile, EmptyFile),
           NEW generated, MergeFollows(generated)
    PROVE  Spec /\ [][~Stop]_vars => []UntouchedFollowsDefault
<1>1. FollowInv(generated) /\ [Next]_vars /\ [~Stop]_vars => FollowInv(generated)'
    <2> SUFFICES ASSUME FollowInv(generated), [Next]_vars, [~Stop]_vars
                 PROVE  FollowsFrom(generated)' /\ UntouchedFollowsDefault'
        BY WriterKept DEF FollowInv
    <2>0. FollowsFrom(generated) /\ UntouchedFollowsDefault
        BY DEF FollowInv
    <2>1. CASE UNCHANGED vars
        BY <2>0, <2>1 DEF FollowsFrom, UntouchedFollowsDefault, vars, files, run, history
    <2>2. CASE StartRun \/ EndRun \/ \E f \in Files : SkipFile(f) \/ MergeFails(f)
        <3>1. /\ UNCHANGED <<files, object, status, touched>>
              /\ step \notin {"write", "record"} /\ step' \notin {"write", "record"}
            BY <2>2 DEF StartRun, EndRun, SkipFile, MergeFails, Visit, history
        <3> QED
            BY <2>0, <3>1, NothingFollows
    <2>3. CASE WriteCurrent
        BY <2>3, WriteCurrentFollows
    <2>4. CASE WriteDefault
        BY <2>4, WriteDefaultFollows
    <2>5. CASE Upgrade
        BY <2>5, UpgradeFollows
    <2>6. CASE \E f \in Files : MergeFile(f)
        BY <2>6, MergeFileFollows
    <2>7. CASE \E f \in Files : Operator(f)
        BY <2>7, OperatorFollows
    <2>8. Interrupt \/ Tear => Stop
        BY DEF Interrupt, Tear
    <2> QED
        BY <2>1, <2>2, <2>3, <2>4, <2>5, <2>6, <2>7, <2>8 DEF Next, Proceed
<1>2. FollowInv(generated) => UntouchedFollowsDefault
    BY DEF FollowInv
<1>3. Init => FollowInv(generated)
    BY FollowInit
<1> QED
    BY <1>1, <1>2, <1>3, PTL DEF Spec

-----------------------------------------------------------------------------
(* What the operator did *)

\* The run is about to write this file, or its default.
AtFile(f) == step \in {"write", "record"} /\ file = f

DefaultsKnown == \A f \in Files : default[f] \in DefaultsOf(f) \cup {NoFile}

(***************************************************************************)
(* Why what the operator did is not taken back: it is in the file and not  *)
(* in the default that is remembered, and, while the run is at the file,   *)
(* it is in what will be written and not in what will be remembered, so    *)
(* that a run may end after either of the two writes.                      *)
(***************************************************************************)
PinsKept ==
    \A q \in pins :
        LET In(c) == q.place \in Places(c) /\ Value(c, q.place) = q.value
            Out(d) == Value(d, q.place) # q.value
        IN  /\ q.file \in Files /\ q.value # NoValue
            /\ In(Read(current[q.file])) /\ Out(Read(default[q.file]))
            /\ AtFile(q.file) => In(output) /\ Out(object[q.file])

DroppedKept ==
    \A d \in dropped :
        /\ d.file \in Files
        /\ d.place \in Places(Read(default[d.file])) \ Places(Read(current[d.file]))
        /\ AtFile(d.file) => d.place \in Places(object[d.file]) \ Places(output)

NotesKept ==
    \A m \in notes :
        LET In(c) == m.place \in Places(c) /\ m.note \in Comments(c, m.place)
            Out(d) == m.note \notin Comments(d, m.place)
        IN  /\ m.file \in Files
            /\ In(Read(current[m.file])) /\ Out(Read(default[m.file]))
            /\ AtFile(m.file) => In(output) /\ Out(object[m.file])

\* What is known of the writer in all of these proofs.
Known == WriterInv /\ DefaultsKnown

LEMMA PinsStep == [PinsNext]_<<vars, pinVars>> => [Next]_vars
BY DEF PinsNext, Next, Proceed, pinVars

LEMMA KnownInit == Init => Known
BY InitInvariant DEF Init, Known, DefaultsKnown

LEMMA KnownKept ==
    ASSUME ParametersTyped, Known, [Next]_vars
    PROVE  Known'
<1>1. TypeOK /\ DefaultsKnown
    BY DEF Known, WriterInv
<1>2. CASE UNCHANGED default
    BY <1>1, <1>2, WriterKept DEF Known, DefaultsKnown
<1>3. CASE \E f \in Files : default' = [default EXCEPT ![f] = NoFile]
    BY <1>1, <1>3, WriterKept DEF Known, DefaultsKnown, TypeOK
<1>4. CASE \E f \in Files : default' = [default EXCEPT ![f] = EmptyFile]
    BY <1>1, <1>4, WriterKept DEF Known, DefaultsKnown, DefaultsOf, TypeOK
<1>5. CASE \E f \in Files : default' = [default EXCEPT ![f] = object[f]]
    BY <1>1, <1>5, WriterKept DEF Known, DefaultsKnown, DefaultsOf, TypeOK
<1> QED
    BY <1>1, <1>2, <1>3, <1>4, <1>5
       DEF Next, Proceed, StartRun, SkipFile, MergeFile, MergeFails, WriteCurrent,
           WriteDefault, EndRun, Interrupt, Tear, Upgrade, Operator, EditFile,
           DeleteFile, DeleteDefault, vars, files, TypeOK

\* A file and its default only become what the run at the file has prepared,
\* and a step that is none of the operator's begins no other write.
LEMMA FilesProceed ==
    ASSUME Known, Proceed \/ Upgrade \/ UNCHANGED vars, NEW f \in Files
    PROVE  /\ \/ current'[f] = current[f]
              \/ AtFile(f) /\ Read(current'[f]) = output
           /\ \/ default'[f] = default[f]
              \/ AtFile(f) /\ Read(default'[f]) = object[f]
           /\ AtFile(f)' => AtFile(f) /\ output' = output /\ object'[f] = object[f]
<1>1. TypeOK /\ object[f] # NoFile
    BY RenderingTyped DEF Known, WriterInv, TypeOK
<1>2. CASE StartRun \/ EndRun \/ Interrupt \/ \E g \in Files : SkipFile(g) \/ MergeFails(g)
    BY <1>2 DEF StartRun, EndRun, Interrupt, Stop, SkipFile, MergeFails, Visit, files, AtFile
<1>3. CASE WriteCurrent
    BY <1>1, <1>3, WriterAssumption DEF WriteCurrent, AtFile, Read, TypeOK
<1>4. CASE WriteDefault
    BY <1>1, <1>4 DEF WriteDefault, AtFile, Read, TypeOK
<1>5. CASE Upgrade
    BY <1>5 DEF Upgrade, files, run, AtFile
<1>6. CASE UNCHANGED vars
    BY <1>6 DEF vars, files, run, AtFile
<1> QED
    BY <1>2, <1>3, <1>4, <1>5, <1>6 DEF Proceed

\* The other files are not touched when the operator, or a torn write, changes
\* one, and the run is at no file.
LEMMA FilesRemembered ==
    ASSUME Known, NEW f \in Files, Operator(f) \/ (Tear /\ file = f)
    PROVE  /\ \A g \in Files : ~AtFile(g)'
           /\ \A g \in Files \ {f} : current'[g] = current[g] /\ default'[g] = default[g]
           /\ Read(default'[f]) \in {Read(default[f]), EmptyFile}
<1>1. TypeOK
    BY DEF Known, WriterInv
<1>2. CASE Operator(f)
    BY <1>1, <1>2 DEF Operator, EditFile, DeleteFile, DeleteDefault, Operate, run,
                      AtFile, Read, TypeOK
<1>3. CASE Tear /\ file = f
    BY <1>1, <1>3, WriterAssumption DEF Tear, Stop, AtFile, Read, TypeOK
<1> QED
    BY <1>2, <1>3

\* What is merged, with what, and that no other file is concerned.
LEMMA FilesMerged ==
    ASSUME Known, NEW f \in Files, MergeFile(f)
    PROVE  /\ Read(default[f]) \in DefaultsOf(f) /\ Read(default[f]) \in Contents
           /\ object \in Renderings /\ object[f] \in Contents
           /\ Read(current[f]) \in Contents /\ ~Unparsable(Read(current[f]))
           /\ output' = Merge(Read(default[f]), object[f], Read(current[f]))
           /\ UNCHANGED <<current, default, object>>
           /\ \A g \in Files : AtFile(g)' => g = f
<1>1. TypeOK /\ DefaultsKnown
    BY DEF Known, WriterInv
<1> QED
    BY <1>1, ReadDefault, ReadTyped, RenderingTyped
       DEF MergeFile, mergedFile, Readable, files, AtFile, DefaultsKnown, TypeOK

-----------------------------------------------------------------------------
(* Values set by hand *)

\* What the theorem about values assumes of the parameters.
PinsRespected == ParametersTyped /\ PlacesHold(Contents) /\ MergeKeepsPins(Contents)

\* The first part of PlacesHold, for one place of one content.
LEMMA NotElsewhere ==
    ASSUME PlacesHold(Contents), NEW a \in Contents, NEW b \in Contents, NEW p \in Places(a)
    PROVE  /\ Places(EmptyFile) = {} /\ EmptyFile \in Contents
           /\ p \notin Places(b) => Value(b, p) = NoValue /\ Comments(b, p) = {}
BY WriterAssumption DEF PlacesHold

LEMMA PinsProceed ==
    ASSUME Known, PinsKept, Proceed \/ Upgrade \/ UNCHANGED vars, UNCHANGED pins
    PROVE  PinsKept'
<1> SUFFICES ASSUME NEW q \in pins
             PROVE  /\ q.file \in Files /\ q.value # NoValue
                    /\ q.place \in Places(Read(current'[q.file]))
                    /\ Value(Read(current'[q.file]), q.place) = q.value
                    /\ Value(Read(default'[q.file]), q.place) # q.value
                    /\ AtFile(q.file)' => /\ q.place \in Places(output')
                                          /\ Value(output', q.place) = q.value
                                          /\ Value(object'[q.file], q.place) # q.value
    BY DEF PinsKept, Read
<1> QED
    BY FilesProceed DEF PinsKept

\* The only step that needs the merge's law.
LEMMA PinsMerged ==
    ASSUME PinsRespected, Known, PinsKept, NEW f \in Files, MergeFile(f), Reconsider(f)
    PROVE  PinsKept'
<1> DEFINE old == Read(default[f])
           new == object[f]
           c == Read(current[f])
<1>1. /\ old \in DefaultsOf(f) /\ old \in Contents /\ object \in Renderings
      /\ new \in Contents /\ c \in Contents /\ ~Unparsable(c)
      /\ output' = Merge(old, new, c) /\ UNCHANGED <<current, default, object>>
      /\ \A g \in Files : AtFile(g)' => g = f
    BY FilesMerged
<1>2. output' \in Contents
    BY <1>1 DEF PinsRespected, ParametersTyped
<1>3. \A q \in pins' : /\ q \in pins
                       /\ q.file = f => /\ Value(new, q.place) # q.value
                                        /\ ~Lost(q.place, old, new)
    BY DEF Reconsider
<1> SUFFICES ASSUME NEW q \in pins', q.file = f
             PROVE  q.place \in Places(output') /\ Value(output', q.place) = q.value
    BY <1>1, <1>3 DEF PinsKept
<1>4. /\ q.place \in Places(c) /\ Value(c, q.place) = q.value /\ q.value # NoValue
      /\ Value(old, q.place) # q.value
    BY <1>3 DEF PinsKept
<1>5. Value(output', q.place) = q.value
    BY <1>1, <1>3, <1>4 DEF PinsRespected, MergeKeepsPins
<1> QED
    BY <1>1, <1>2, <1>4, <1>5, NotElsewhere DEF PinsRespected

\* Also what a torn write leaves.
LEMMA PinsRemembered ==
    ASSUME PinsRespected, Known, Known', PinsKept, NEW f \in Files,
           Operator(f) \/ (Tear /\ file = f), Remember(f)
    PROVE  PinsKept'
<1> DEFINE before == Read(current[f])
           after == Read(current'[f])
           base == Read(default'[f])
<1>1. /\ \A g \in Files : ~AtFile(g)'
      /\ \A g \in Files \ {f} : current'[g] = current[g] /\ default'[g] = default[g]
      /\ base \in {Read(default[f]), EmptyFile}
    BY FilesRemembered
<1>2. before \in Contents /\ after \in Contents /\ base \in Contents
    BY ReadTyped DEF Known, WriterInv, TypeOK
<1>3. pins' = {q \in pins : q.file = f => Value(after, q.place) = q.value}
              \cup {[file |-> f, place |-> p, value |-> Value(after, p)] :
                       p \in {p \in Places(after) : Value(after, p) \notin
                                  {NoValue, Value(before, p), Value(base, p)}}}
    BY DEF Remember
<1> SUFFICES ASSUME NEW q \in pins'
             PROVE  /\ q.file \in Files /\ q.value # NoValue
                    /\ q.place \in Places(Read(current'[q.file]))
                    /\ Value(Read(current'[q.file]), q.place) = q.value
                    /\ Value(Read(default'[q.file]), q.place) # q.value
    BY <1>1 DEF PinsKept, Read
<1>4. CASE q \in pins /\ q.file # f
    BY <1>1, <1>4 DEF PinsKept
<1>5. CASE q \in pins /\ q.file = f /\ Value(after, q.place) = q.value
    <2>1. /\ q.place \in Places(before) /\ q.value # NoValue
          /\ Value(Read(default[f]), q.place) # q.value
        BY <1>5 DEF PinsKept
    <2>2. q.place \in Places(after) /\ Value(EmptyFile, q.place) = NoValue
        BY <1>2, <1>5, <2>1, NotElsewhere DEF PinsRespected
    <2> QED
        BY <1>1, <1>5, <2>1, <2>2
<1>6. CASE q \notin pins
    BY <1>3, <1>6
<1> QED
    BY <1>3, <1>4, <1>5, <1>6

(***************************************************************************)
(* A value set by hand stays in its file through any number of releases,   *)
(* other edits, interrupted runs and torn writes, until a default agrees   *)
(* with it or its place goes away.                                         *)
(***************************************************************************)
THEOREM PinsStay ==
    ASSUME PinsRespected
    PROVE  PinsSpec => []PinsSurvive
<1>1. PinsInit => Known /\ PinsKept
    BY KnownInit DEF PinsInit, PinsKept
<1>2. Known /\ PinsKept /\ [PinsNext]_<<vars, pinVars>> => (Known /\ PinsKept)'
    <2> SUFFICES ASSUME Known, PinsKept, [PinsNext]_<<vars, pinVars>>
                 PROVE  Known' /\ PinsKept'
        OBVIOUS
    <2>1. Known'
        BY PinsStep, KnownKept DEF PinsRespected
    <2>2. CASE (Proceed \/ Upgrade \/ UNCHANGED vars) /\ UNCHANGED pinVars
        BY <2>1, <2>2, PinsProceed DEF pinVars
    <2>3. CASE \E f \in Files : MergeFile(f) /\ Reconsider(f)
        BY <2>1, <2>3, PinsMerged
    <2>4. CASE \E f \in Files : Operator(f) /\ Remember(f)
        BY <2>1, <2>4, PinsRemembered
    <2>5. CASE Tear /\ Remember(file)
        BY <2>1, <2>5, PinsRemembered DEF Known, WriterInv, TypeOK
    <2> QED
        BY <2>1, <2>2, <2>3, <2>4, <2>5 DEF PinsNext
<1>3. PinsKept => PinsSurvive
    BY DEF PinsKept, PinsSurvive
<1> QED
    BY <1>1, <1>2, <1>3, PTL DEF PinsSpec

-----------------------------------------------------------------------------
(* Places the operator removed *)

\* What the theorem about removed places assumes of the parameters.
DroppedRespected ==
    ParametersTyped /\ Places(EmptyFile) = {} /\ MergeKeepsDropped(Contents)

LEMMA DroppedProceed ==
    ASSUME Known, DroppedKept, Proceed \/ Upgrade \/ UNCHANGED vars, UNCHANGED dropped
    PROVE  DroppedKept'
<1> SUFFICES ASSUME NEW d \in dropped
             PROVE  /\ d.file \in Files
                    /\ d.place \in Places(Read(default'[d.file]))
                    /\ d.place \notin Places(Read(current'[d.file]))
                    /\ AtFile(d.file)' => d.place \in Places(object'[d.file]) \ Places(output')
    BY DEF DroppedKept, Read
<1> QED
    BY FilesProceed DEF DroppedKept

LEMMA DroppedMerged ==
    ASSUME DroppedRespected, Known, DroppedKept, NEW f \in Files, MergeFile(f), Reconsider(f)
    PROVE  DroppedKept'
<1> DEFINE old == Read(default[f])
           c == Read(current[f])
<1>1. /\ old \in DefaultsOf(f) /\ object \in Renderings
      /\ c \in Contents /\ ~Unparsable(c)
      /\ output' = Merge(old, object[f], c) /\ UNCHANGED <<current, default, object>>
      /\ \A g \in Files : AtFile(g)' => g = f
    BY FilesMerged
<1>2. (Places(old) \cap Places(object[f])) \cap Places(output') \subseteq Places(c)
    BY <1>1 DEF DroppedRespected, MergeKeepsDropped
<1>3. \A d \in dropped' : d \in dropped /\ (d.file = f => d.place \in Places(object[f]))
    BY DEF Reconsider
<1> QED
    BY <1>1, <1>2, <1>3 DEF DroppedKept

LEMMA DroppedRemembered ==
    ASSUME DroppedRespected, Known, DroppedKept, NEW f \in Files,
           Operator(f) \/ (Tear /\ file = f), Remember(f)
    PROVE  DroppedKept'
<1> DEFINE before == Read(current[f])
           after == Read(current'[f])
           base == Read(default'[f])
<1>1. /\ \A g \in Files : ~AtFile(g)'
      /\ \A g \in Files \ {f} : current'[g] = current[g] /\ default'[g] = default[g]
    BY FilesRemembered
<1>2. dropped' = {d \in dropped : d.file = f => d.place \in Places(base) \ Places(after)}
                 \cup {[file |-> f, place |-> p] :
                          p \in (Places(before) \cap Places(base)) \ Places(after)}
    BY DEF Remember
<1> SUFFICES ASSUME NEW d \in dropped'
             PROVE  /\ d.file \in Files
                    /\ d.place \in Places(Read(default'[d.file]))
                    /\ d.place \notin Places(Read(current'[d.file]))
    BY <1>1 DEF DroppedKept, Read
<1>3. CASE d \in dropped /\ d.file # f
    BY <1>1, <1>3 DEF DroppedKept
<1>4. CASE d \in dropped /\ d.file = f /\ d.place \in Places(base) \ Places(after)
    BY <1>4
<1>5. CASE d \notin dropped
    BY <1>2, <1>5
<1> QED
    BY <1>2, <1>3, <1>4, <1>5

(***************************************************************************)
(* What the operator removed from a file does not come back, through any   *)
(* number of releases that have it, interrupted runs and torn writes.      *)
(***************************************************************************)
THEOREM DroppedStay ==
    ASSUME DroppedRespected
    PROVE  PinsSpec => []DroppedStayDropped
<1>1. PinsInit => Known /\ DroppedKept
    BY KnownInit DEF PinsInit, DroppedKept
<1>2. Known /\ DroppedKept /\ [PinsNext]_<<vars, pinVars>> => (Known /\ DroppedKept)'
    <2> SUFFICES ASSUME Known, DroppedKept, [PinsNext]_<<vars, pinVars>>
                 PROVE  Known' /\ DroppedKept'
        OBVIOUS
    <2>1. Known'
        BY PinsStep, KnownKept DEF DroppedRespected
    <2>2. CASE (Proceed \/ Upgrade \/ UNCHANGED vars) /\ UNCHANGED pinVars
        BY <2>1, <2>2, DroppedProceed DEF pinVars
    <2>3. CASE \E f \in Files : MergeFile(f) /\ Reconsider(f)
        BY <2>1, <2>3, DroppedMerged
    <2>4. CASE \E f \in Files : Operator(f) /\ Remember(f)
        BY <2>1, <2>4, DroppedRemembered
    <2>5. CASE Tear /\ Remember(file)
        BY <2>1, <2>5, DroppedRemembered DEF Known, WriterInv, TypeOK
    <2> QED
        BY <2>1, <2>2, <2>3, <2>4, <2>5 DEF PinsNext
<1>3. DroppedKept => DroppedStayDropped
    BY DEF DroppedKept, DroppedStayDropped
<1> QED
    BY <1>1, <1>2, <1>3, PTL DEF PinsSpec

-----------------------------------------------------------------------------
(* Comments written by hand *)

\* What the theorem about comments assumes of the parameters.
NotesRespected == ParametersTyped /\ PlacesHold(Contents) /\ MergeKeepsNotes(Contents)

LEMMA NotesProceed ==
    ASSUME Known, NotesKept, Proceed \/ Upgrade \/ UNCHANGED vars, UNCHANGED notes
    PROVE  NotesKept'
<1> SUFFICES ASSUME NEW m \in notes
             PROVE  /\ m.file \in Files
                    /\ m.place \in Places(Read(current'[m.file]))
                    /\ m.note \in Comments(Read(current'[m.file]), m.place)
                    /\ m.note \notin Comments(Read(default'[m.file]), m.place)
                    /\ AtFile(m.file)' => /\ m.place \in Places(output')
                                          /\ m.note \in Comments(output', m.place)
                                          /\ m.note \notin Comments(object'[m.file], m.place)
    BY DEF NotesKept, Read
<1> QED
    BY FilesProceed DEF NotesKept

LEMMA NotesMerged ==
    ASSUME NotesRespected, Known, NotesKept, NEW f \in Files, MergeFile(f), Reconsider(f)
    PROVE  NotesKept'
<1> DEFINE old == Read(default[f])
           new == object[f]
           c == Read(current[f])
<1>1. /\ old \in DefaultsOf(f) /\ old \in Contents /\ object \in Renderings
      /\ new \in Contents /\ c \in Contents /\ ~Unparsable(c)
      /\ output' = Merge(old, new, c) /\ UNCHANGED <<current, default, object>>
      /\ \A g \in Files : AtFile(g)' => g = f
    BY FilesMerged
<1>2. output' \in Contents
    BY <1>1 DEF NotesRespected, ParametersTyped
<1>3. \A m \in notes' : /\ m \in notes
                        /\ m.file = f => /\ m.note \notin Comments(new, m.place)
                                         /\ ~Lost(m.place, old, new)
    BY DEF Reconsider
<1> SUFFICES ASSUME NEW m \in notes', m.file = f
             PROVE  m.place \in Places(output') /\ m.note \in Comments(output', m.place)
    BY <1>1, <1>3 DEF NotesKept
<1>4. /\ m.place \in Places(c)
      /\ m.note \in Comments(c, m.place) \ Comments(old, m.place)
    BY <1>3 DEF NotesKept
<1>5. m.note \in Comments(output', m.place)
    BY <1>1, <1>3, <1>4 DEF NotesRespected, MergeKeepsNotes
<1> QED
    BY <1>1, <1>2, <1>4, <1>5, NotElsewhere DEF NotesRespected

LEMMA NotesRemembered ==
    ASSUME NotesRespected, Known, Known', NotesKept, NEW f \in Files,
           Operator(f) \/ (Tear /\ file = f), Remember(f)
    PROVE  NotesKept'
<1> DEFINE before == Read(current[f])
           after == Read(current'[f])
           base == Read(default'[f])
<1>1. /\ \A g \in Files : ~AtFile(g)'
      /\ \A g \in Files \ {f} : current'[g] = current[g] /\ default'[g] = default[g]
      /\ base \in {Read(default[f]), EmptyFile}
    BY FilesRemembered
<1>2. before \in Contents /\ after \in Contents /\ base \in Contents
    BY ReadTyped DEF Known, WriterInv, TypeOK
<1>3. notes' = {m \in notes : m.file = f => m.note \in Comments(after, m.place)}
               \cup UNION {{[file |-> f, place |-> p, note |-> n] :
                               n \in Comments(after, p)
                                   \ (Comments(before, p) \cup Comments(base, p))} :
                                   p \in Places(after)}
    BY DEF Remember
<1> SUFFICES ASSUME NEW m \in notes'
             PROVE  /\ m.file \in Files
                    /\ m.place \in Places(Read(current'[m.file]))
                    /\ m.note \in Comments(Read(current'[m.file]), m.place)
                    /\ m.note \notin Comments(Read(default'[m.file]), m.place)
    BY <1>1 DEF NotesKept, Read
<1>4. CASE m \in notes /\ m.file # f
    BY <1>1, <1>4 DEF NotesKept
<1>5. CASE m \in notes /\ m.file = f /\ m.note \in Comments(after, m.place)
    <2>1. m.place \in Places(before) /\ m.note \notin Comments(Read(default[f]), m.place)
        BY <1>5 DEF NotesKept
    <2>2. m.place \in Places(after) /\ Comments(EmptyFile, m.place) = {}
        BY <1>2, <1>5, <2>1, NotElsewhere DEF NotesRespected
    <2> QED
        BY <1>1, <1>5, <2>1, <2>2
<1>6. CASE m \notin notes
    BY <1>3, <1>6
<1> QED
    BY <1>3, <1>4, <1>5, <1>6

(***************************************************************************)
(* A comment written by hand stays in its file, through any number of      *)
(* releases, interrupted runs and torn writes, until a default has it too  *)
(* or its place goes away.                                                 *)
(***************************************************************************)
THEOREM NotesStay ==
    ASSUME NotesRespected
    PROVE  PinsSpec => []NotesSurvive
<1>1. PinsInit => Known /\ NotesKept
    BY KnownInit DEF PinsInit, NotesKept
<1>2. Known /\ NotesKept /\ [PinsNext]_<<vars, pinVars>> => (Known /\ NotesKept)'
    <2> SUFFICES ASSUME Known, NotesKept, [PinsNext]_<<vars, pinVars>>
                 PROVE  Known' /\ NotesKept'
        OBVIOUS
    <2>1. Known'
        BY PinsStep, KnownKept DEF NotesRespected
    <2>2. CASE (Proceed \/ Upgrade \/ UNCHANGED vars) /\ UNCHANGED pinVars
        BY <2>1, <2>2, NotesProceed DEF pinVars
    <2>3. CASE \E f \in Files : MergeFile(f) /\ Reconsider(f)
        BY <2>1, <2>3, NotesMerged
    <2>4. CASE \E f \in Files : Operator(f) /\ Remember(f)
        BY <2>1, <2>4, NotesRemembered
    <2>5. CASE Tear /\ Remember(file)
        BY <2>1, <2>5, NotesRemembered DEF Known, WriterInv, TypeOK
    <2> QED
        BY <2>1, <2>2, <2>3, <2>4, <2>5 DEF PinsNext
<1>3. NotesKept => NotesSurvive
    BY DEF NotesKept, NotesSurvive
<1> QED
    BY <1>1, <1>2, <1>3, PTL DEF PinsSpec

(***************************************************************************)
(* All of the operator's work together survives runs that are cut short.   *)
(***************************************************************************)
THEOREM HandworkStays ==
    ASSUME PinsRespected, DroppedRespected, NotesRespected
    PROVE  PinsSpec => []HandworkSurvives
<1>1. PinsSurvive /\ DroppedStayDropped /\ NotesSurvive => HandworkSurvives
    BY DEF HandworkSurvives
<1> QED
    BY <1>1, PinsStay, DroppedStay, NotesStay, PTL

(***************************************************************************)
(* What was written into a file is carried over, whatever the merge does   *)
(* with what was removed.                                                  *)
(***************************************************************************)
THEOREM HandworkCarriedOver ==
    ASSUME PinsRespected, NotesRespected
    PROVE  PinsSpec => []HandworkIsCarriedOver
<1>1. PinsSurvive /\ NotesSurvive => HandworkIsCarriedOver
    BY DEF HandworkIsCarriedOver
<1> QED
    BY <1>1, PinsStay, NotesStay, PTL

-----------------------------------------------------------------------------
(* Hints *)

(***************************************************************************)
(* Why a refused default is hinted at: the hint in the file is at the      *)
(* default that is remembered, or at the one that will be, as long as no   *)
(* run ends between the two writes.                                        *)
(***************************************************************************)
RefusedKept ==
    \A q \in refused :
        LET Hinted(c, d) ==
                /\ Value(d, q.place) # NoValue
                /\ Mode = "Hint" => Hints(c, q.place) = <<Value(d, q.place)>>
        IN  /\ q \in pins
            /\ IF AtFile(q.file)
               THEN Hinted(output, object[q.file])
               ELSE Hinted(Read(current[q.file]), Read(default[q.file]))

\* How far the run is with a file.
AttemptsKnown ==
    /\ step \in {"write", "record"} => status[file] = "attempted"
    /\ step = "record" => current[file] = output
    /\ \A f \in Files : status[f] = "done" => default[f] = object[f]

RefusedInv == Known /\ PinsKept /\ RefusedKept /\ AttemptsKnown

\* What the theorem about hints assumes of the parameters.
RefusalsRespected == PinsRespected /\ MergeHints(Contents)

LEMMA AttemptsStay ==
    ASSUME Known, AttemptsKnown, Next
    PROVE  AttemptsKnown'
<1>1. TypeOK
    BY DEF Known, WriterInv
<1>2. CASE StartRun \/ EndRun \/ Interrupt \/ \E g \in Files : SkipFile(g) \/ MergeFails(g)
    BY <1>2 DEF StartRun, EndRun, Interrupt, Stop, SkipFile, MergeFails, Visit,
                files, history, AttemptsKnown
<1>3. CASE WriteCurrent
    BY <1>1, <1>3 DEF WriteCurrent, history, AttemptsKnown, TypeOK
<1>4. CASE WriteDefault
    BY <1>1, <1>4 DEF WriteDefault, AttemptsKnown, TypeOK
<1>5. CASE Upgrade
    BY <1>5 DEF Upgrade, files, run, AttemptsKnown
<1>6. CASE Tear
    BY <1>1, <1>6 DEF Tear, Stop, AttemptsKnown, TypeOK
<1>7. CASE \E f \in Files : MergeFile(f)
    BY <1>1, <1>7 DEF MergeFile, Visit, files, AttemptsKnown, TypeOK
<1>8. CASE \E f \in Files : Operator(f)
    BY <1>1, <1>8 DEF Operator, EditFile, DeleteFile, DeleteDefault, Operate, run,
                      AttemptsKnown, TypeOK
<1> QED
    BY <1>2, <1>3, <1>4, <1>5, <1>6, <1>7, <1>8 DEF Next, Proceed

\* A file that is written has its default recorded before anything else.
LEMMA RefusedProceed ==
    ASSUME RefusedInv, Proceed \/ Upgrade \/ UNCHANGED vars, UNCHANGED <<pins, refused>>,
           ~Interrupt
    PROVE  RefusedKept'
<1>1. TypeOK /\ PinsKept /\ RefusedKept /\ AttemptsKnown
    BY DEF RefusedInv, Known, WriterInv
<1>2. \A q \in refused : q \in pins /\ q.file \in Files
    BY <1>1 DEF RefusedKept, PinsKept
<1>3. CASE WriteCurrent
    BY <1>1, <1>2, <1>3 DEF WriteCurrent, RefusedKept, AtFile
<1>4. CASE WriteDefault
    <2>1. /\ step = "record" /\ step' = "next" /\ file \in Files
          /\ default' = [default EXCEPT ![file] = object[file]]
          /\ UNCHANGED <<current, object>>
          /\ Read(current[file]) = output /\ Read(object[file]) = object[file]
        BY <1>1, <1>4, RenderingTyped, WriterAssumption
           DEF WriteDefault, AttemptsKnown, TypeOK, Read
    <2>2. \A g \in Files : ~AtFile(g)' /\ (AtFile(g) <=> g = file)
        BY <2>1 DEF AtFile
    <2>3. \A g \in Files : default'[g] = IF g = file THEN object[g] ELSE default[g]
        BY <1>1, <2>1 DEF TypeOK
    <2> SUFFICES ASSUME NEW q \in refused
                 PROVE  /\ Value(Read(default'[q.file]), q.place) # NoValue
                        /\ Mode = "Hint" => Hints(Read(current'[q.file]), q.place)
                                               = <<Value(Read(default'[q.file]), q.place)>>
        BY <1>2, <2>2 DEF RefusedKept, Read
    <2>4. CASE q.file = file
        BY <1>1, <1>2, <2>1, <2>2, <2>3, <2>4 DEF RefusedKept
    <2>5. CASE q.file # file
        BY <1>1, <1>2, <2>1, <2>2, <2>3, <2>5 DEF RefusedKept
    <2> QED
        BY <2>4, <2>5
<1>5. CASE UNCHANGED vars
    BY <1>1, <1>5 DEF vars, files, run, RefusedKept, AtFile, Read
<1>6. CASE StartRun \/ EndRun \/ \E g \in Files : SkipFile(g) \/ MergeFails(g)
    <2>1. /\ UNCHANGED <<current, default>>
          /\ \A g \in Files : ~AtFile(g) /\ ~AtFile(g)'
        BY <1>6 DEF StartRun, EndRun, SkipFile, MergeFails, Visit, files, AtFile
    <2> QED
        BY <1>1, <1>2, <2>1 DEF RefusedKept, Read
<1>7. CASE Upgrade
    <2>1. /\ UNCHANGED <<current, default>>
          /\ \A g \in Files : ~AtFile(g) /\ ~AtFile(g)'
        BY <1>7 DEF Upgrade, files, run, AtFile
    <2> QED
        BY <1>1, <1>2, <2>1 DEF RefusedKept, Read
<1> QED
    BY <1>3, <1>4, <1>5, <1>6, <1>7 DEF Proceed

LEMMA RefusedMerged ==
    ASSUME RefusalsRespected, RefusedInv, NEW f \in Files, MergeFile(f), Reconsider(f)
    PROVE  RefusedKept'
<1> DEFINE old == Read(default[f])
           new == object[f]
           c == Read(current[f])
<1>1. /\ old \in DefaultsOf(f) /\ old \in Contents /\ object \in Renderings
      /\ new \in Contents /\ c \in Contents /\ ~Unparsable(c)
      /\ output' = Merge(old, new, c) /\ UNCHANGED <<current, default, object>>
      /\ \A g \in Files : AtFile(g)' => g = f
    BY FilesMerged DEF RefusedInv
<1>2. \A g \in Files : ~AtFile(g) /\ (AtFile(g)' <=> g = f)
    BY DEF MergeFile, Visit, AtFile
<1>3. \A q \in refused' :
          /\ q \in pins' /\ q \in pins
          /\ q.file # f => q \in refused
          /\ q.file = f => /\ Value(new, q.place) \notin {NoValue, q.value}
                           /\ ~Lost(q.place, old, new)
                           /\ \/ q \in refused
                              \/ Value(old, q.place) \notin {NoValue, Value(new, q.place)}
    BY DEF Reconsider
<1>4. \A q \in pins : q.file \in Files
    BY DEF RefusedInv, PinsKept
<1>5. ASSUME NEW q \in refused', q.file = f
      PROVE  /\ Value(new, q.place) # NoValue
             /\ Mode = "Hint" => Hints(output', q.place) = <<Value(new, q.place)>>
    <2>1. /\ q.place \in Places(c) /\ Value(c, q.place) = q.value /\ q.value # NoValue
          /\ Value(old, q.place) # q.value
        BY <1>3, <1>5 DEF RefusedInv, PinsKept
    <2>2. CASE q \in refused
        <3>1. /\ Value(old, q.place) # NoValue
              /\ Mode = "Hint" => Hints(c, q.place) = <<Value(old, q.place)>>
            BY <1>2, <1>5, <2>2 DEF RefusedInv, RefusedKept
        <3> QED
            BY <1>1, <1>3, <1>5, <2>1, <3>1 DEF RefusalsRespected, MergeHints
    <2>3. CASE q \notin refused
        BY <1>1, <1>3, <1>5, <2>1, <2>3 DEF RefusalsRespected, MergeHints
    <2> QED
        BY <2>2, <2>3
<1> SUFFICES ASSUME NEW q \in refused', q.file # f
             PROVE  /\ Value(Read(default[q.file]), q.place) # NoValue
                    /\ Mode = "Hint" => Hints(Read(current[q.file]), q.place)
                                           = <<Value(Read(default[q.file]), q.place)>>
    BY <1>1, <1>2, <1>3, <1>4, <1>5 DEF RefusedKept, Read
<1> QED
    BY <1>2, <1>3, <1>4 DEF RefusedInv, RefusedKept

\* Whatever the operator does to a file, its refusals are forgotten.
LEMMA RefusedRemembered ==
    ASSUME RefusedInv, NEW f \in Files, Operator(f), Remember(f)
    PROVE  RefusedKept'
<1>1. /\ \A g \in Files : ~AtFile(g)'
      /\ \A g \in Files \ {f} : current'[g] = current[g] /\ default'[g] = default[g]
    BY FilesRemembered DEF RefusedInv
<1>2. refused' = {q \in refused : q.file # f}
    BY DEF Remember
<1>3. \A q \in pins : q.file # f => q \in pins'
    BY DEF Remember
<1>4. \A g \in Files : ~AtFile(g)
    BY DEF Operator, EditFile, DeleteFile, DeleteDefault, Operate, AtFile
<1>5. \A q \in refused : q \in pins /\ q.file \in Files
    BY DEF RefusedInv, RefusedKept, PinsKept
<1> QED
    BY <1>1, <1>2, <1>3, <1>4, <1>5 DEF RefusedInv, RefusedKept, Read

(***************************************************************************)
(* A value that kept a changed default out carries one hint, at the        *)
(* default of today, through any number of releases and edits, if no run   *)
(* is cut short.                                                           *)
(***************************************************************************)
THEOREM RefusalsStayHinted ==
    ASSUME RefusalsRespected
    PROVE  PinsSpec /\ [][~Stop]_<<vars, pinVars>> => []RefusalsHinted
<1>1. PinsInit => RefusedInv
    BY KnownInit DEF PinsInit, Init, RefusedInv, PinsKept, RefusedKept, AttemptsKnown
<1>2. RefusedInv /\ [PinsNext]_<<vars, pinVars>> /\ [~Stop]_<<vars, pinVars>> => RefusedInv'
    <2> SUFFICES ASSUME RefusedInv, [PinsNext]_<<vars, pinVars>>, [~Stop]_<<vars, pinVars>>
                 PROVE  RefusedInv'
        OBVIOUS
    <2>1. /\ PinsRespected /\ ParametersTyped
          /\ Known /\ PinsKept /\ AttemptsKnown
        BY DEF RefusalsRespected, PinsRespected, RefusedInv
    <2>2. Known'
        BY <2>1, PinsStep, KnownKept
    <2>3. AttemptsKnown'
        <3>1. CASE Next
            BY <2>1, <3>1, AttemptsStay
        <3>2. CASE UNCHANGED vars
            BY <2>1, <3>2 DEF AttemptsKnown, vars, files, run, history
        <3> QED
            BY <3>1, <3>2, PinsStep
    <2>4. CASE UNCHANGED <<vars, pinVars>>
        BY <2>1, <2>2, <2>3, <2>4, PinsProceed, RefusedProceed
           DEF pinVars, RefusedInv, RefusedKept, vars, files, run, AtFile, Read, PinsKept
    <2>5. CASE (Proceed \/ Upgrade) /\ UNCHANGED pinVars /\ ~Stop
        BY <2>1, <2>2, <2>3, <2>5, PinsProceed, RefusedProceed
           DEF pinVars, RefusedInv, Interrupt
    <2>6. CASE \E f \in Files : MergeFile(f) /\ Reconsider(f)
        BY <2>1, <2>2, <2>3, <2>6, PinsMerged, RefusedMerged DEF RefusedInv
    <2>7. CASE \E f \in Files : Operator(f) /\ Remember(f)
        BY <2>1, <2>2, <2>3, <2>7, PinsRemembered, RefusedRemembered DEF RefusedInv
    <2>8. Tear => Stop
        BY DEF Tear
    <2> QED
        BY <2>4, <2>5, <2>6, <2>7, <2>8 DEF PinsNext
<1>3. RefusedInv => RefusalsHinted
    <2> SUFFICES ASSUME RefusedInv, NEW q \in refused, Mode = "Hint", status[q.file] = "done"
                 PROVE  Hints(current[q.file], q.place) = <<Value(object[q.file], q.place)>>
        BY DEF RefusalsHinted
    <2>1. q \in pins /\ q.file \in Files /\ q.place \in Places(Read(current[q.file]))
        BY DEF RefusedInv, RefusedKept, PinsKept
    <2>2. ~AtFile(q.file) /\ default[q.file] = object[q.file]
        BY <2>1 DEF RefusedInv, AttemptsKnown, AtFile
    <2>3. current[q.file] # NoFile
        BY <2>1 DEF RefusalsRespected, PinsRespected, PlacesHold, Read
    <2>4. Read(object[q.file]) = object[q.file]
        BY <2>1, RenderingTyped DEF RefusedInv, Known, WriterInv, TypeOK, Read
    <2> QED
        BY <2>2, <2>3, <2>4 DEF RefusedInv, RefusedKept, Read
<1> QED
    BY <1>1, <1>2, <1>3, PTL DEF PinsSpec
=============================================================================
