------------------------------ MODULE YamlMerge ------------------------------
(***************************************************************************)
(* The three-way merge of YAML nodes: the previous default, the new one,   *)
(* and what the operator made of the previous one.                         *)
(*                                                                         *)
(* A node has one comment where yaml.Node has a head, a line and a foot    *)
(* comment; the code treats the three alike, and a conflict is hinted at   *)
(* in one of them.  A comment is a sequence of lines, a line a sequence of *)
(* notes, so that a hint can be told from what somebody wrote.  Styles and *)
(* tags are left out.                                                      *)
(***************************************************************************)
EXTENDS Integers, Sequences, SequencesExt

Note(text) == [hint |-> FALSE, text |-> text]
HintAt(value) == [hint |-> TRUE, text |-> value]

ScalarNode(value, comment) ==
    [kind |-> "scalar", value |-> value, comment |-> comment, content |-> <<>>]
MappingNode(entries, comment) ==
    [kind |-> "mapping", value |-> "", comment |-> comment, content |-> entries]
SequenceNode(items, comment) ==
    [kind |-> "sequence", value |-> "", comment |-> comment, content |-> items]
Entry(key, comment, node) == [key |-> key, comment |-> comment, node |-> node]

\* The zero yaml.Node, which has no kind.
ZeroNode == [kind |-> "none", value |-> "", comment |-> <<>>, content |-> <<>>]

-----------------------------------------------------------------------------
(* Looking into a mapping, or what is taken for one *)

\* What buildMap and findKeyNode see of an old default that is no mapping: the
\* items of a sequence in pairs.  Of equal keys the first is found, and the last
\* one's value.  On an odd number of items the code panics.
AsMapping(node) ==
    LET content == node.content
        keys == [i \in 1 .. (Len(content) + 1) \div 2 |-> content[2 * i - 1]]
        Paired(key) ==
            LET here == {i \in DOMAIN keys : keys[i].value = key}
            IN  Entry(key, keys[Min(here)].comment, content[2 * Max(here)])
    IN  IF node.kind = "mapping" THEN node
        ELSE [node EXCEPT !.kind = "pairs",
                          !.content = [i \in DOMAIN keys |-> Paired(keys[i].value)]]

\* And of one that is no sequence: the keys and the values of a mapping in turn.
AsSequence(node) ==
    LET KeyNode(e) == ScalarNode(e.key, e.comment)
        keysAndValues == [i \in DOMAIN node.content |->
                             <<KeyNode(node.content[i]), node.content[i].node>>]
    IN  IF node.kind # "mapping" THEN node
        ELSE [node EXCEPT !.kind = "nodes", !.content = FlattenSeq(keysAndValues)]

Keys(node) ==
    IF node.kind \in {"mapping", "pairs"}
    THEN {node.content[i].key : i \in DOMAIN node.content}
    ELSE {}

\* findKeyNode and buildMap in one: the entry, or a key without a value
EntryAt(node, key) ==
    IF key \in Keys(node)
    THEN node.content[CHOOSE i \in DOMAIN node.content :
                          node.content[i].key = key]
    ELSE Entry(key, <<>>, ZeroNode)

\* mappingValue: the text of a field, "" when there is none
mappingValue(node, key) == EntryAt(node, key).node.value

-----------------------------------------------------------------------------
(* nodesEqual with comments is equality.  Without, the order of the keys   *)
(* does not matter either.                                                 *)

RECURSIVE sameValue(_, _)
sameValue(a, b) ==
    /\ a.kind = b.kind
    /\ a.kind = "scalar" => a.value = b.value
    /\ a.kind \in {"sequence", "mapping"} => Len(a.content) = Len(b.content)
    /\ a.kind = "sequence" =>
           \A i \in DOMAIN a.content : sameValue(a.content[i], b.content[i])
    /\ a.kind = "mapping" =>
           /\ Keys(a) = Keys(b)
           /\ \A k \in Keys(a) : sameValue(EntryAt(a, k).node, EntryAt(b, k).node)

-----------------------------------------------------------------------------
(* Comments *)

\* Mutant: a hint is never taken off.
annotationKept(comment) == comment

\* A hint is taken off with whatever follows it in its line.
stripLine(line) ==
    LET hint == SelectInSeq(line, LAMBDA note : note.hint)
    IN  IF hint = 0 THEN line ELSE SubSeq(line, 1, hint - 1)

stripGLKAnnotation(comment) ==
    SelectSeq([i \in DOMAIN comment |-> stripLine(comment[i])],
              LAMBDA line : line # <<>>)

\* A value's hint goes to the end of its line, a key's to a line of its own.
annotateLine(comment, hint) ==
    LET rest == stripGLKAnnotation(comment)
    IN  IF rest = <<>> THEN <<<<hint>>>>
        ELSE [rest EXCEPT ![Len(rest)] = Append(@, hint)]
annotateHead(comment, hint) == Append(stripGLKAnnotation(comment), <<hint>>)

\* Mutant: the comment of the new default replaces the operator's.
commentReplaced(old, new, current) ==
    IF old = new THEN current ELSE new

\* The default's change wins over an untouched comment and is added to a
\* changed one.
mergeComment(old, new, current) ==
    IF old = new THEN current
    ELSE IF current = old THEN new
    ELSE current \o new

\* Mutant: a default that changed wins.
defaultWins(old, existed, new, current, keyComment, mode) ==
    [comment |-> keyComment,
     node |-> IF existed /\ ~sameValue(old, new) THEN new ELSE current]

(***************************************************************************)
(* A key that the operator and the new default both have, unless both have *)
(* a mapping or both a sequence below it: the default's change is taken if *)
(* the operator left the value alone.  In the mode "Hint" a refused change *)
(* is noted at the value, or at the key when the new value is not a        *)
(* scalar, and the hint disappears once the values agree.                  *)
(***************************************************************************)
mergedLeaf(old, existed, new, current, keyComment, mode) ==
    LET changed   == existed /\ ~sameValue(old, new)
        untouched == sameValue(old, current)
        converged == sameValue(new, current)
        taken     == changed /\ untouched
        hinted    == mode = "Hint" /\ changed /\ ~untouched /\ ~converged
        stripped  == mode = "Hint" /\ existed /\ ~taken /\ converged
        comment   == IF existed
                     THEN mergeComment(old.comment, new.comment, current.comment)
                     ELSE current.comment
        value     == IF taken THEN new ELSE current
    IN  [comment |->
            CASE hinted /\ new.kind # "scalar" ->
                     annotateHead(keyComment, HintAt("complex"))
              [] stripped -> stripGLKAnnotation(keyComment)
              [] OTHER -> keyComment,
         node |->
            [value EXCEPT !.comment =
                CASE hinted /\ new.kind = "scalar" ->
                         annotateLine(comment, HintAt(new.value))
                  [] stripped -> stripGLKAnnotation(comment)
                  [] OTHER -> comment]]

-----------------------------------------------------------------------------
(* How the items of three sequences are matched *)

candidateIdentityKeys == <<"name", "id", "key">>

Ids(seq, key) ==
    {mappingValue(seq.content[i], key) : i \in DOMAIN seq.content}
ItemAt(seq, key, id) ==
    seq.content[CHOOSE i \in DOMAIN seq.content :
                    mappingValue(seq.content[i], key) = id]

allMappings(seqs) ==
    \A s \in seqs : \A i \in DOMAIN s.content : s.content[i].kind = "mapping"

\* Every item has the key, no two of one sequence share its value, and there
\* is an item at all.
isValidIdentityKey(key, seqs) ==
    /\ \A s \in seqs :
           /\ "" \notin Ids(s, key)
           /\ \A i, j \in DOMAIN s.content :
                  mappingValue(s.content[i], key) = mappingValue(s.content[j], key)
                      => i = j
    /\ \E s \in seqs : s.content # <<>>

detectIdentityKey(seqs) ==
    LET valid == SelectSeq(candidateIdentityKeys,
                           LAMBDA key : isValidIdentityKey(key, seqs))
    IN  IF allMappings(seqs) /\ valid # <<>> THEN Head(valid) ELSE ""

\* Scalars are compared without, other items with their comments.
nodeToString(item) ==
    IF item.kind = "scalar" THEN [item EXCEPT !.comment = <<>>] ELSE item
ItemSet(seq) == {nodeToString(seq.content[i]) : i \in DOMAIN seq.content}

\* The items to keep of current, then those that are new in the new default.
mergedAsSets(old, new, current) ==
    SelectSeq(current.content,
              LAMBDA item : \/ nodeToString(item) \notin ItemSet(old)
                            \/ nodeToString(item) \in ItemSet(new))
    \o
    SelectSeq(new.content,
              LAMBDA item : nodeToString(item) \notin ItemSet(old) \cup ItemSet(current))

-----------------------------------------------------------------------------
(* The merge *)

RECURSIVE threeWayMerge(_, _, _, _), threeWayMergeSequence(_, _, _, _)

\* A key that both current and the new default have.
mergedEntry(old, new, current, key, mode) ==
    LET existed == key \in Keys(old)
        o == EntryAt(old, key)
        n == EntryAt(new, key)
        c == EntryAt(current, key)
        keyComment == mergeComment(o.comment, n.comment, c.comment)
        leaf == mergedLeaf(o.node, existed, n.node, c.node, keyComment, mode)
    IN  CASE {n.node.kind, c.node.kind} = {"mapping"} ->
               Entry(key, keyComment,
                     threeWayMerge(IF existed THEN AsMapping(o.node)
                                   ELSE MappingNode(<<>>, <<>>),
                                   n.node, c.node, mode))
          [] {n.node.kind, c.node.kind} = {"sequence"} ->
               Entry(key, keyComment,
                     threeWayMergeSequence(IF existed THEN AsSequence(o.node)
                                           ELSE SequenceNode(<<>>, <<>>),
                                           n.node, c.node, mode))
          [] OTHER -> Entry(key, leaf.comment, leaf.node)

threeWayMerge(old, new, current, mode) ==
    IF old = current THEN new
    ELSE LET droppedKey(key) == key \in Keys(old) /\ key \notin Keys(current)
             kept  == SelectSeq(new.content, LAMBDA e : ~droppedKey(e.key))
             added == SelectSeq(current.content,
                                LAMBDA e : e.key \notin Keys(new) \cup Keys(old))
         IN  MappingNode(
                 [i \in DOMAIN kept |->
                     IF kept[i].key \in Keys(current)
                     THEN mergedEntry(old, new, current, kept[i].key, mode)
                     ELSE kept[i]] \o added,
                 current.comment)

mergedById(old, new, current, key, mode) ==
    LET Id(item) == mappingValue(item, key)
        kept == SelectSeq(current.content,
                          LAMBDA c : \/ Id(c) \in Ids(new, key)
                                     \/ Id(c) \notin Ids(old, key))
    IN  [i \in DOMAIN kept |->
            IF Id(kept[i]) \in Ids(new, key)
            THEN threeWayMerge(IF Id(kept[i]) \in Ids(old, key)
                               THEN ItemAt(old, key, Id(kept[i]))
                               ELSE MappingNode(<<>>, <<>>),
                               ItemAt(new, key, Id(kept[i])), kept[i], mode)
            ELSE kept[i]]
        \o
        SelectSeq(new.content,
                  LAMBDA n : Id(n) \notin Ids(current, key) \cup Ids(old, key))

mergedByPosition(old, new, current, mode) ==
    [i \in DOMAIN current.content |->
        threeWayMerge(old.content[i], new.content[i], current.content[i], mode)]

threeWayMergeSequence(old, new, current, mode) ==
    IF old = current THEN new
    ELSE LET key == detectIdentityKey({old, new, current})
             aligned == /\ Len(old.content) = Len(new.content)
                        /\ Len(new.content) = Len(current.content)
                        /\ allMappings({old, new, current})
         IN  SequenceNode(
                 IF key # "" THEN mergedById(old, new, current, key, mode)
                 ELSE IF aligned THEN mergedByPosition(old, new, current, mode)
                 ELSE mergedAsSets(old, new, current),
                 current.comment)
=============================================================================
