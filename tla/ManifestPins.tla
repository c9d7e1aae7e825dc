----------------------------- MODULE ManifestPins -----------------------------
(***************************************************************************)
(* The manifest writer, and what the operator is promised of the values,   *)
(* comments and deletions that were made by hand.  The variables of this   *)
(* module only remember what the operator did.                             *)
(*                                                                         *)
(* A content has values and comments at places; how it has them is a       *)
(* parameter, and so is the merge.                                         *)
(***************************************************************************)
EXTENDS ManifestWriter, Sequences

CONSTANTS
    Places(_),     \* the places in a content
    Above(_),      \* a place and those it lies in
    Value(_, _),   \* what a content has at a place, if that is a scalar
    NoValue,       \* and otherwise
    Comments(_, _), \* the notes at a place, without hints
    Hints(_, _),   \* the values that hints at a place propose
    Mode           \* "Hint" or "Silent"

VARIABLES
    pins,     \* values the operator set that no default merged since agreed with
    dropped,  \* places the operator removed that every default since has had
    notes,    \* comments the operator wrote that no default since has had
    refused   \* the pins that a changed default was refused for

pinVars == <<pins, dropped, notes, refused>>

PinsInit ==
    /\ Init
    /\ pins = {} /\ dropped = {} /\ notes = {} /\ refused = {}

\* What an operator's step makes of the memory, with a look at the file and
\* its default after the step.  What a torn write loses counts as removed.
Remember(f) ==
    \E before \in {Read(current[f])}, after \in {Read(current'[f])},
       base \in {Read(default'[f])} :
        /\ pins' =
               {q \in pins : q.file = f => Value(after, q.place) = q.value}
               \cup {[file |-> f, place |-> p, value |-> Value(after, p)] :
                        p \in {p \in Places(after) : Value(after, p) \notin
                                   {NoValue, Value(before, p), Value(base, p)}}}
        /\ dropped' =
               {d \in dropped : d.file = f => d.place \in Places(base) \ Places(after)}
               \cup {[file |-> f, place |-> p] :
                         p \in (Places(before) \cap Places(base)) \ Places(after)}
        /\ notes' =
               {m \in notes : m.file = f => m.note \in Comments(after, m.place)}
               \cup UNION {{[file |-> f, place |-> p, note |-> n] :
                               n \in Comments(after, p)
                                   \ (Comments(before, p) \cup Comments(base, p))} :
                                   p \in Places(after)}
        /\ refused' = {q \in refused : q.file # f}

\* What goes with a place that the new default no longer has.
Lost(p, old, new) == \E q \in Above(p) : q \in Places(old) \ Places(new)

\* What merging with a new default makes of it.
Reconsider(f) ==
    \E old \in {Read(default[f])}, new \in {object[f]} :
        /\ pins' = {q \in pins : q.file = f =>
                       Value(new, q.place) # q.value /\ ~Lost(q.place, old, new)}
        /\ dropped' = {d \in dropped : d.file = f => d.place \in Places(new)}
        /\ notes' = {m \in notes : m.file = f =>
                        m.note \notin Comments(new, m.place) /\ ~Lost(m.place, old, new)}
        /\ refused' =
               {q \in pins' :
                   IF q.file = f
                   THEN /\ Value(new, q.place) # NoValue
                        /\ \/ q \in refused
                           \/ Value(old, q.place) \notin {NoValue, Value(new, q.place)}
                   ELSE q \in refused}

PinsNext ==
    \/ (Proceed \/ Upgrade) /\ UNCHANGED pinVars
    \/ \E f \in Files : MergeFile(f) /\ Reconsider(f)
    \/ \E f \in Files : Operator(f) /\ Remember(f)
    \/ Tear /\ Remember(file)

PinsSpec == PinsInit /\ [][PinsNext]_<<vars, pinVars>>

-----------------------------------------------------------------------------
(* What the properties need of one merge, of the contents given. *)

\* A value set by hand is not changed unless its place goes away.
MergeKeepsPins(contents) ==
    \A f \in Files : \A old \in DefaultsOf(f), r \in Renderings, c \in contents :
        ~Unparsable(c) =>
            \A p \in {p \in Places(c) : ~Lost(p, old, r[f])} :
                Value(c, p) \notin {NoValue, Value(old, p)} =>
                    Value(Merge(old, r[f], c), p) = Value(c, p)

\* What both defaults have and the file has not is not added.
MergeKeepsDropped(contents) ==
    \A f \in Files : \A old \in DefaultsOf(f), r \in Renderings, c \in contents :
        ~Unparsable(c) =>
            (Places(old) \cap Places(r[f])) \cap Places(Merge(old, r[f], c))
                \subseteq Places(c)

\* A comment stays unless it is the default's or its place goes away.
MergeKeepsNotes(contents) ==
    \A f \in Files : \A old \in DefaultsOf(f), r \in Renderings, c \in contents :
        ~Unparsable(c) =>
            \A p \in {p \in Places(c) : ~Lost(p, old, r[f])} :
                Comments(c, p) \ Comments(old, p) \subseteq Comments(Merge(old, r[f], c), p)

\* In the mode "Hint", a pin has one hint after a merge that changes the
\* default, and keeps it in one that does not.
MergeHints(contents) ==
    \A f \in Files : \A old \in DefaultsOf(f), r \in Renderings, c \in contents :
        ~Unparsable(c) /\ Mode = "Hint" =>
            \A p \in {p \in Places(c) : ~Lost(p, old, r[f])} :
                /\ NoValue \notin {Value(c, p), Value(old, p), Value(r[f], p)}
                /\ Value(c, p) \notin {Value(old, p), Value(r[f], p)}
                /\ Value(old, p) = Value(r[f], p) => Hints(c, p) = <<Value(old, p)>>
                => Hints(Merge(old, r[f], c), p) = <<Value(r[f], p)>>

\* A content has nothing at the places that only others have.
PlacesHold(contents) ==
    LET all == UNION {Places(c) : c \in contents}
    IN  /\ Places(EmptyFile) = {}
        /\ \A c \in contents : \A p \in all \ Places(c) :
               Value(c, p) = NoValue /\ Comments(c, p) = {}

-----------------------------------------------------------------------------
(***************************************************************************)
(* A value set by hand stays through any number of releases and            *)
(* interrupted runs, until a default agrees with it or drops its key.      *)
(***************************************************************************)
PinsSurvive ==
    \A q \in pins : Value(Read(current[q.file]), q.place) = q.value

(***************************************************************************)
(* A key, or a manifest with all its keys, that the operator removed does  *)
(* not come back as long as the defaults go on having it.                  *)
(***************************************************************************)
DroppedStayDropped ==
    \A d \in dropped : d.place \notin Places(Read(current[d.file]))

(***************************************************************************)
(* A comment written by hand stays with its key, whatever becomes of the   *)
(* default's comment and of the value, until a default drops the key or    *)
(* has the same comment.                                                   *)
(***************************************************************************)
NotesSurvive ==
    \A m \in notes : m.note \in Comments(Read(current[m.file]), m.place)

(***************************************************************************)
(* What the operator did to a file survives runs that are cut short, in    *)
(* the middle of a write or between the two writes of a file.              *)
(***************************************************************************)
HandworkSurvives == PinsSurvive /\ DroppedStayDropped /\ NotesSurvive

(***************************************************************************)
(* What the operator wrote into a file with a single manifest is carried   *)
(* over when a release gives the manifest another name.                    *)
(***************************************************************************)
HandworkIsCarriedOver == PinsSurvive /\ NotesSurvive

(***************************************************************************)
(* In the mode "Hint", a value that kept a changed default out carries one *)
(* hint, at the default of today.                                          *)
(***************************************************************************)
RefusalsHinted ==
    \A q \in refused :
        Mode = "Hint" /\ status[q.file] = "done" =>
            Hints(current[q.file], q.place) = <<Value(object[q.file], q.place)>>
=============================================================================
