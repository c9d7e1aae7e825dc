---------------------------- MODULE ManifestWriter ----------------------------
(***************************************************************************)
(* WriteObjectsToFilesystem and the operator who edits what it wrote.      *)
(*                                                                         *)
(* Each file exists twice: in the repository, where the operator edits it, *)
(* and below .glk/defaults, where the tool remembers the default it was    *)
(* last generated from.  A run merges the two with the newly rendered      *)
(* object and writes both, the operator's file first.  A run may be cut    *)
(* short anywhere; the operator acts between runs.                         *)
(*                                                                         *)
(* How two contents are merged, and what an operator makes of one, are     *)
(* parameters.  That .gitattributes is written once is left out.           *)
(***************************************************************************)
EXTENDS Integers, FiniteSets

CONSTANTS
    Files,
    Contents,
    Renderings,       \* what the templates of a release render to, per file
    NoFile,
    EmptyFile,
    Merge(_, _, _),   \* of the old default, the new default and the current
    Unparsable(_),
    Equivalent(_, _), \* contents that configure the same
    Edits(_),         \* what the operator may make of a content
    TornWrites,       \* may an interrupted write leave an empty file?
    MaxEdits, MaxUpgrades, MaxInterrupts \* bounds for the model checker

ASSUME WriterAssumption ==
    /\ EmptyFile \in Contents
    /\ NoFile \notin Contents
    /\ Renderings \subseteq [Files -> Contents] /\ Renderings # {}
    /\ TornWrites \in BOOLEAN
    /\ {MaxEdits, MaxUpgrades, MaxInterrupts} \subseteq Nat

VARIABLES
    current,    \* the files in the repository
    default,    \* the files below .glk/defaults
    object,     \* what is rendered for each file at present
    step,       \* where the run is
    pending,    \* the files the run has yet to visit
    file,       \* the file the run is at
    output,     \* what it is about to write there
    outcome,    \* how the last run ended, until something changes
    removed,    \* history: generated files that the operator deleted
    touched,    \* history: files that are not only the tool's work
    status,     \* history: how far the file is behind its object
    goal,       \* history: what the first attempt to generate it was to write
    edits, upgrades, interrupts

files == <<current, default>>
run == <<step, pending, file, output>>
history == <<removed, touched, status, goal>>
bounds == <<edits, upgrades, interrupts>>
vars == <<files, object, run, outcome, history, bounds>>

\* A file that does not exist reads as nothing.
Read(content) == IF content = NoFile THEN EmptyFile ELSE content

Init ==
    /\ current = [f \in Files |-> NoFile]
    /\ default = [f \in Files |-> NoFile]
    /\ object \in Renderings
    /\ step = "idle"
    /\ pending = {}
    /\ file \in Files
    /\ output = EmptyFile
    /\ outcome = "none"
    /\ removed = {}
    /\ touched = {}
    /\ status = [f \in Files |-> "changed"]
    /\ goal = [f \in Files |-> EmptyFile]
    /\ edits = 0 /\ upgrades = 0 /\ interrupts = 0

-----------------------------------------------------------------------------
(* A run *)

StartRun ==
    /\ step = "idle"
    /\ step' = "next"
    /\ pending' = Files
    /\ outcome' = "running"
    /\ UNCHANGED <<files, object, file, output, history, bounds>>

\* Mutant: a missing file is generated whether or not it was before.
neverDeleted(f) == FALSE

\* "File has been deleted by the user."
deletedByUser(f) ==
    /\ default[f] \notin {NoFile, EmptyFile}
    /\ current[f] = NoFile

Visit(f) ==
    /\ step = "next"
    /\ f \in pending
    /\ pending' = pending \ {f}

SkipFile(f) ==
    /\ Visit(f)
    /\ deletedByUser(f)
    /\ UNCHANGED <<files, object, step, file, output, outcome, history, bounds>>

Readable(f) ==
    \A c \in {default[f], object[f], current[f]} : ~Unparsable(Read(c))

\* Mutant: the old default is not read.
mergedAnew(f) == Merge(EmptyFile, object[f], Read(current[f]))

mergedFile(f) == Merge(Read(default[f]), object[f], Read(current[f]))

MergeFile(f) ==
    /\ Visit(f)
    /\ ~deletedByUser(f)
    /\ Readable(f)
    /\ step' = "write"
    /\ file' = f
    /\ output' = mergedFile(f)
    /\ goal' = IF status[f] = "attempted" THEN goal
               ELSE [goal EXCEPT ![f] = output']
    /\ status' = [status EXCEPT ![f] = "attempted"]
    /\ UNCHANGED <<files, object, outcome, removed, touched, bounds>>

\* Mutant: the error of one file is not the error of the run.
MergeFailureIgnored(f) ==
    /\ Visit(f)
    /\ ~deletedByUser(f)
    /\ ~Readable(f)
    /\ UNCHANGED <<files, object, step, file, output, outcome, history, bounds>>

\* The files that were visited are written, the others are not.
MergeFails(f) ==
    /\ Visit(f)
    /\ ~deletedByUser(f)
    /\ ~Readable(f)
    /\ step' = "idle"
    /\ outcome' = "error"
    /\ UNCHANGED <<files, object, file, output, history, bounds>>

WriteCurrent ==
    /\ step = "write"
    /\ step' = "record"
    /\ current' = [current EXCEPT ![file] = output]
    /\ UNCHANGED <<default, object, pending, file, output, outcome, history, bounds>>

\* Mutant: a default that is there is not written again.
DefaultWrittenOnce ==
    /\ step = "record"
    /\ step' = "next"
    /\ default' = [default EXCEPT ![file] = IF @ = NoFile THEN object[file] ELSE @]
    /\ status' = [status EXCEPT ![file] = "done"]
    /\ UNCHANGED <<current, object, pending, file, output, outcome,
                   removed, touched, goal, bounds>>

\* Mutant: what was merged is taken for the default.
MergedRecorded ==
    /\ step = "record"
    /\ step' = "next"
    /\ default' = [default EXCEPT ![file] = output]
    /\ status' = [status EXCEPT ![file] = "done"]
    /\ UNCHANGED <<current, object, pending, file, output, outcome,
                   removed, touched, goal, bounds>>

WriteDefault ==
    /\ step = "record"
    /\ step' = "next"
    /\ default' = [default EXCEPT ![file] = object[file]]
    /\ status' = [status EXCEPT ![file] = "done"]
    /\ UNCHANGED <<current, object, pending, file, output, outcome,
                   removed, touched, goal, bounds>>

EndRun ==
    /\ step = "next"
    /\ pending = {}
    /\ step' = "idle"
    /\ outcome' = "ok"
    /\ UNCHANGED <<files, object, pending, file, output, history, bounds>>

\* The process is killed, or a read or a write fails.
Stop ==
    /\ step # "idle"
    /\ interrupts < MaxInterrupts
    /\ step' = "idle"
    /\ outcome' = "error"
    /\ interrupts' = interrupts + 1
    /\ UNCHANGED <<object, pending, file, output, removed, touched, goal,
                   edits, upgrades>>

Interrupt == Stop /\ UNCHANGED <<files, status>>

\* A file is truncated before it is written.
Tear ==
    /\ TornWrites
    /\ Stop
    /\ \/ /\ step = "write"
          /\ current' = [current EXCEPT ![file] = EmptyFile]
          /\ UNCHANGED default
       \/ /\ step = "record"
          /\ default' = [default EXCEPT ![file] = EmptyFile]
          /\ UNCHANGED current
    /\ status' = [status EXCEPT ![file] = "changed"]

Proceed ==
    \/ StartRun \/ WriteCurrent \/ WriteDefault \/ EndRun \/ Interrupt
    \/ \E f \in Files : SkipFile(f) \/ MergeFails(f)

-----------------------------------------------------------------------------
(* The operator, and what a new release or configuration brings *)

Operate(f) ==
    /\ step = "idle"
    /\ edits < MaxEdits
    /\ edits' = edits + 1
    /\ outcome' = "none"
    /\ status' = [status EXCEPT ![f] = "changed"]
    /\ UNCHANGED <<object, run, goal, upgrades, interrupts>>

\* Also to bring a deleted file back.
EditFile(f) ==
    /\ Operate(f)
    /\ \E c \in Edits(current[f]) : current' = [current EXCEPT ![f] = c]
    /\ touched' = touched \cup {f}
    /\ removed' = removed \ {f}
    /\ UNCHANGED default

DeleteFile(f) ==
    /\ Operate(f)
    /\ current[f] # NoFile
    /\ current' = [current EXCEPT ![f] = NoFile]
    /\ removed' = IF default[f] \in {NoFile, EmptyFile} THEN removed
                  ELSE removed \cup {f}
    /\ touched' = touched \ {f}
    /\ UNCHANGED default

\* What brings a deleted file back; a file that is still there becomes the
\* operator's own.
DeleteDefault(f) ==
    /\ Operate(f)
    /\ default[f] # NoFile
    /\ default' = [default EXCEPT ![f] = NoFile]
    /\ removed' = removed \ {f}
    /\ touched' = IF current[f] = NoFile THEN touched ELSE touched \cup {f}
    /\ UNCHANGED current

Upgrade ==
    /\ step = "idle"
    /\ upgrades < MaxUpgrades
    /\ upgrades' = upgrades + 1
    /\ object' \in Renderings \ {object}
    /\ outcome' = "none"
    /\ status' = [f \in Files |->
                     IF object'[f] = object[f] THEN status[f] ELSE "changed"]
    /\ UNCHANGED <<files, run, removed, touched, goal, edits, interrupts>>

Operator(f) == EditFile(f) \/ DeleteFile(f) \/ DeleteDefault(f)

Next == Proceed \/ Tear \/ Upgrade \/ \E f \in Files : MergeFile(f) \/ Operator(f)

Spec == Init /\ [][Next]_vars
-----------------------------------------------------------------------------
(* What the properties about values need of the merge.  The contents it is *)
(* about are a parameter, as a model checker can only look at a few.       *)

DefaultsOf(f) == {r[f] : r \in Renderings} \cup {EmptyFile}

\* A file that was merged already is not changed by merging it again, neither
\* with the default it was merged from nor once the new one is recorded.
MergeRepeats(contents) ==
    \A f \in Files : \A old \in DefaultsOf(f), r \in Renderings, c \in contents :
        ~Unparsable(c) =>
            LET merged == Merge(old, r[f], c)
            IN  /\ Equivalent(Merge(old, r[f], merged), merged)
                /\ Equivalent(Merge(r[f], r[f], merged), merged)

\* A file that configures what its default does will do what the next does.
MergeFollows(generated) ==
    \A f \in Files :
        /\ EmptyFile \in generated[f]
        /\ \A old \in DefaultsOf(f), r \in Renderings, c \in generated[f] :
               Equivalent(c, old) =>
                   /\ Merge(old, r[f], c) \in generated[f]
                   /\ Equivalent(Merge(old, r[f], c), r[f])

Equivalence ==
    \A a, b, c \in Contents :
        /\ Equivalent(a, a)
        /\ Equivalent(a, b) => Equivalent(b, a)
        /\ Equivalent(a, b) /\ Equivalent(b, c) => Equivalent(a, c)

-----------------------------------------------------------------------------
TypeOK ==
    /\ current \in [Files -> Contents \cup {NoFile}]
    /\ default \in [Files -> Contents \cup {NoFile}]
    /\ object \in Renderings
    /\ step \in {"idle", "next", "write", "record"}
    /\ pending \subseteq Files
    /\ file \in Files
    /\ output \in Contents
    /\ outcome \in {"none", "running", "ok", "error"}
    /\ removed \subseteq Files
    /\ touched \subseteq Files
    /\ status \in [Files -> {"changed", "attempted", "done"}]
    /\ goal \in [Files -> Contents]
    /\ edits \in 0 .. MaxEdits
    /\ upgrades \in 0 .. MaxUpgrades
    /\ interrupts \in 0 .. MaxInterrupts

(***************************************************************************)
(* "Do not recreate until the default file within the .glk directory is    *)
(* deleted": a generated file that the operator deleted stays away,        *)
(* through later releases, interrupted runs and torn writes.               *)
(***************************************************************************)
RemovedStayRemoved ==
    \A f \in removed : current[f] = NoFile /\ default[f] \notin {NoFile, EmptyFile}

(***************************************************************************)
(* A run that reports success has brought every file up to date, but for   *)
(* those the operator deleted.                                             *)
(***************************************************************************)
SuccessIsComplete ==
    outcome = "ok" =>
        \A f \in Files \ removed :
            status[f] = "done" /\ default[f] = object[f]

(***************************************************************************)
(* A file that only the tool has written says what its object says.        *)
(***************************************************************************)
UntouchedFollowsDefault ==
    \A f \in Files \ touched :
        status[f] = "done" => Equivalent(current[f], object[f])

(***************************************************************************)
(* Repeating an interrupted run writes what the interrupted one would have *)
(* written, unless a write was torn, and repeating a completed run changes *)
(* nothing.                                                                *)
(***************************************************************************)
RepeatedRunAgrees ==
    \A f \in Files :
        status[f] = "done" =>
            /\ Equivalent(current[f], goal[f])
            /\ Equivalent(Merge(default[f], object[f], current[f]), current[f])
=============================================================================
