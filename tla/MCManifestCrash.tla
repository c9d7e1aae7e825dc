---------------------------- MODULE MCManifestCrash ----------------------------
(***************************************************************************)
(* The releases and edits of MCManifestPins, and that the merge does with  *)
(* them what the theorem about repeated runs takes it to do: for defaults  *)
(* that were merged with one another, edited and merged again.             *)
(***************************************************************************)
EXTENDS MCManifestPins

MergesOf(f, contents) ==
    UNION {{Merge(old, r[f], c) : r \in Renderings, c \in contents} :
               old \in DefaultsOf(f)}

Unedited == DefaultsOf(f1) \cup MergesOf(f1, DefaultsOf(f1))
Edited == Unedited \cup UNION {MCEdits(c) : c \in Unedited}

ASSUME MergesAreRepeatable == MergeRepeats(Edited)
ASSUME PinsAreKept == MergeKeepsPins(Edited)
ASSUME DroppedAreKept == MergeKeepsDropped(Edited)
ASSUME NotesAreKept == MergeKeepsNotes(Edited)
ASSUME PinsAreHinted == MergeHints(Edited)
ASSUME PlacesAreKnown == PlacesHold(Edited)
=============================================================================
