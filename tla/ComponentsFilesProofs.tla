------------------------ MODULE ComponentsFilesProofs ------------------------
(***************************************************************************)
(* The components files, for every sequence of releases, every list that   *)
(* resolve ocm may write, and any number of edits, merges and releases.    *)
(*                                                                         *)
(* The merge and the edits are what Laws says of them, for a set Contents  *)
(* of what a file may have in it.  The argument has two halves.  Of the    *)
(* lists: the entries of a name in a merged list have the value on which   *)
(* those of the last override that says anything agree (VectorAgrees), and *)
(* if no name comes twice, the overrides decide in their order             *)
(* (VectorSays).  Of the files: a name with a pin says Pin, and one that   *)
(* nobody touched says what the default says (Followed), which the merge   *)
(* (PlainKeeps) and an edit (EditKeeps) keep.                              *)
(***************************************************************************)
EXTENDS ComponentsFiles, FiniteSetTheorems, SequenceTheorems, WellFoundedInduction, TLAPS

-----------------------------------------------------------------------------
(* Lists of entries. *)

\* The positions of a list.
LEMMA ListType ==
    ASSUME NEW list, IsList(list)
    PROVE  /\ Len(list) \in Nat /\ DOMAIN list = 1..Len(list)
           /\ IsFiniteSet(DOMAIN list) /\ DOMAIN list \subseteq Nat
<1>1. Len(list) \in Nat /\ DOMAIN list = 1..Len(list)
  BY DEF IsList
<1> QED
  BY <1>1, FS_Interval

\* Entries at the positions up to a number are a list.
LEMMA ListIntro ==
    ASSUME NEW n \in Nat, NEW list, list = [i \in 1..n |-> list[i]],
           \A i \in 1..n : list[i] = [f \in {"name"} \cup Fields |-> list[i][f]]
    PROVE  IsList(list)
<1>1. DOMAIN list = 1..n
  OBVIOUS
<1>2. list \in Seq({list[i] : i \in DOMAIN list})
  BY <1>1
<1> QED
  BY <1>1, <1>2 DEF IsList

\* Of some numbers, one is the first.
LEMMA FirstIsOne ==
    ASSUME NEW I \in SUBSET Nat, I # {}
    PROVE  FirstOf(I) \in I /\ \A j \in I : FirstOf(I) <= j
<1>1. PICK i \in I : \A j \in I : ~(<<j, i>> \in OpToRel(<, Nat))
  BY WFMin, NatLessThanWellFounded, Zenon
<1>2. \A j \in I : i <= j
  <2> TAKE j \in I
  <2>1. ~(j < i)
    BY <1>1 DEF OpToRel
  <2> QED
    BY <2>1
<1> QED
  BY <1>2 DEF FirstOf

\* Of some positions in a list, one is the last.
LEMMA LastIsOne ==
    ASSUME NEW list, IsList(list), NEW I \in SUBSET DOMAIN list, I # {}
    PROVE  LastOf(I) \in I
<1> DEFINE J == {Len(list) - i : i \in I}
<1>1. Len(list) \in Nat /\ DOMAIN list = 1..Len(list)
  BY ListType
<1>2. J \in SUBSET Nat /\ J # {}
  BY <1>1
<1>3. PICK j \in J : \A k \in J : j <= k
  BY <1>2, FirstIsOne
<1>4. PICK i \in I : j = Len(list) - i
  BY <1>3
<1>5. \A k \in I : k <= i
  <2> TAKE k \in I
  <2>1. Len(list) - k \in J
    OBVIOUS
  <2>2. Len(list) - i <= Len(list) - k
    BY <1>3, <1>4, <2>1
  <2> QED
    BY <1>1, <2>2
<1> QED
  BY <1>5 DEF LastOf

\* Named finds an entry of that name, if there is one, and the entry if it is alone.
LEMMA NamedIsOne ==
    ASSUME NEW list, IsList(list), NEW n \in NamesOf(list)
    PROVE  \E i \in DOMAIN list : list[i].name = n /\ Named(list, n) = list[i]
<1> DEFINE hits == {i \in DOMAIN list : list[i].name = n}
<1>1. hits # {} /\ hits \in SUBSET DOMAIN list
  BY DEF NamesOf
<1>2. LastOf(hits) \in hits
  BY <1>1, LastIsOne
<1>3. Named(list, n) = list[LastOf(hits)]
  BY <1>1 DEF Named
<1> QED
  BY <1>2, <1>3

\* What a list says is what an entry of it says, and Unset if none says anything.
LEMMA SaysIsOne ==
    ASSUME NEW list, IsList(list), NEW n, NEW f
    PROVE  \/ /\ \A i \in DOMAIN list : list[i].name = n => list[i][f] = Unset
              /\ Says(list, n, f) = Unset
           \/ \E i \in DOMAIN list : /\ list[i].name = n /\ list[i][f] # Unset
                                     /\ Says(list, n, f) = list[i][f]
<1>1. CASE Setting(list, n, f) = {}
  BY <1>1 DEF Says, Setting
<1>2. CASE Setting(list, n, f) # {}
  <2>1. Setting(list, n, f) \in SUBSET Nat
    BY ListType DEF Setting
  <2>2. FirstOf(Setting(list, n, f)) \in Setting(list, n, f)
    BY <1>2, <2>1, FirstIsOne
  <2> QED
    BY <1>2, <2>2 DEF Says, Setting
<1> QED
  BY <1>1, <1>2

\* If a name comes once, its entry says what there is to say.
LEMMA SaysOfUnique ==
    ASSUME NEW list, IsList(list), Unique(list), NEW i \in DOMAIN list, NEW f
    PROVE  Says(list, list[i].name, f) = list[i][f]
<1>1. \A j \in DOMAIN list : list[j].name = list[i].name => j = i
  BY DEF Unique
<1> QED
  BY <1>1, SaysIsOne

\* Nothing is said of names without an entry.
LEMMA SaysOfNone ==
    ASSUME NEW list, IsList(list), NEW n, n \notin NamesOf(list), NEW f
    PROVE  Says(list, n, f) = Unset
BY SaysIsOne DEF NamesOf

-----------------------------------------------------------------------------
(* The entries at some positions. *)

\* The ranks of positions are the numbers from 1, each of one position.
LEMMA Ranks ==
    ASSUME NEW I \in SUBSET Nat, IsFiniteSet(I)
    PROVE  /\ Cardinality(I) \in Nat
           /\ \A i, k \in I : Rank(I, i) = Rank(I, k) => i = k
           /\ \A k \in 1..Cardinality(I) : \E i \in I : Rank(I, i) = k
<1> DEFINE Upto(i) == {j \in I : j <= i}
           r == [i \in I |-> Rank(I, i)]
<1>1. ASSUME NEW i \in I
      PROVE  IsFiniteSet(Upto(i)) /\ Rank(I, i) \in 1..Cardinality(I)
  <2>1. Upto(i) \in SUBSET I /\ i \in Upto(i)
    OBVIOUS
  <2>2. IsFiniteSet(Upto(i)) /\ Cardinality(Upto(i)) <= Cardinality(I)
    BY <2>1, FS_Subset
  <2>3. Cardinality(Upto(i)) \in Nat /\ Cardinality(I) \in Nat
    BY <2>2, FS_CardinalityType
  <2>4. Cardinality(Upto(i)) # 0
    BY <2>1, <2>2, FS_EmptySet
  <2> QED
    BY <2>2, <2>3, <2>4 DEF Rank
<1>2. ASSUME NEW i \in I, NEW k \in I, Rank(I, i) = Rank(I, k), i < k PROVE FALSE
  <2>1. Upto(i) \in SUBSET Upto(k) /\ k \in Upto(k) /\ k \notin Upto(i)
    <3>1. i \in Nat /\ k \in Nat /\ \A j \in I : j \in Nat
      OBVIOUS
    <3>2. \A j \in I : j <= i => j <= k
      BY <1>2, <3>1
    <3>3. k <= k /\ ~(k <= i)
      BY <1>2, <3>1
    <3> QED
      BY <3>2, <3>3
  <2>2. Upto(i) # Upto(k)
    BY <2>1
  <2>3. Cardinality(Upto(i)) # Cardinality(Upto(k))
    BY <1>1, <2>1, <2>2, FS_Subset
  <2> QED
    BY <1>2, <2>3 DEF Rank
<1>3. \A i, k \in I : Rank(I, i) = Rank(I, k) => i = k
  <2> SUFFICES ASSUME NEW i \in I, NEW k \in I, Rank(I, i) = Rank(I, k) PROVE i = k
    OBVIOUS
  <2>1. i \in Nat /\ k \in Nat
    OBVIOUS
  <2>2. ~(i < k) /\ ~(k < i)
    BY <1>2
  <2> QED
    BY <2>1, <2>2
<1>4. Cardinality(I) \in Nat
  BY FS_CardinalityType
<1>5. r \in [I -> 1..Cardinality(I)]
  BY <1>1
<1>6. r \in Injection(I, 1..Cardinality(I))
  BY <1>3, <1>5 DEF Injection, IsInjective
<1>7. IsFiniteSet(1..Cardinality(I)) /\ Cardinality(1..Cardinality(I)) = Cardinality(I)
  BY <1>4, FS_Interval
<1>8. r \in Surjection(I, 1..Cardinality(I))
  BY <1>6, <1>7, FS_Injection
<1> QED
  BY <1>3, <1>4, <1>8 DEF Surjection

\* They are the entries at these positions, no more and no fewer.
LEMMA EntriesAtPositions ==
    ASSUME NEW list, IsList(list), NEW I \in SUBSET DOMAIN list
    PROVE  /\ IsList(EntriesAt(list, I))
           /\ \A k \in DOMAIN EntriesAt(list, I) : \E i \in I : EntriesAt(list, I)[k] = list[i]
           /\ \A i \in I : \E k \in DOMAIN EntriesAt(list, I) : EntriesAt(list, I)[k] = list[i]
           /\ Unique(list) => Unique(EntriesAt(list, I))
<1> DEFINE n == Cardinality(I)
           at(k) == CHOOSE i \in I : Rank(I, i) = k
           entries == EntriesAt(list, I)
<1>1. I \in SUBSET Nat /\ IsFiniteSet(I)
  BY ListType, FS_Subset
<1>2. n \in Nat /\ \A i, k \in I : Rank(I, i) = Rank(I, k) => i = k
  BY <1>1, Ranks
<1>3. \A k \in 1..n : at(k) \in I /\ Rank(I, at(k)) = k
  BY <1>1, Ranks
<1>4. \A i \in I : \E k \in 1..n : at(k) = i
  <2> TAKE i \in I
  <2>1. Rank(I, i) \in 1..n
    <3> DEFINE upto == {j \in I : j <= i}
    <3>1. upto \in SUBSET I /\ i \in upto
      BY <1>1
    <3>2. IsFiniteSet(upto) /\ Cardinality(upto) <= n
      BY <1>1, <3>1, FS_Subset
    <3>3. Cardinality(upto) \in Nat /\ Cardinality(upto) # 0
      BY <3>1, <3>2, FS_CardinalityType, FS_EmptySet
    <3> QED
      BY <1>2, <3>2, <3>3 DEF Rank
  <2>2. at(Rank(I, i)) = i
    BY <1>2, <1>3, <2>1
  <2> QED
    BY <2>1, <2>2
<1>5. entries = [k \in 1..n |-> list[at(k)]]
  BY DEF EntriesAt
<1>6. DOMAIN entries = 1..n /\ \A k \in 1..n : entries[k] = list[at(k)]
  BY <1>5
<1> HIDE DEF n, at, entries
<1>7. \A i \in I : list[i] = [f \in {"name"} \cup Fields |-> list[i][f]]
  BY DEF IsList
<1>8. IsList(entries)
  <2>1. entries = [k \in 1..n |-> entries[k]]
    BY <1>5, <1>6
  <2>2. \A k \in 1..n : entries[k] = [f \in {"name"} \cup Fields |-> entries[k][f]]
    BY <1>3, <1>6, <1>7
  <2> QED
    BY <1>2, <2>1, <2>2, ListIntro
<1>9. \A k \in DOMAIN entries : \E i \in I : entries[k] = list[i]
  BY <1>3, <1>6
<1>10. \A i \in I : \E k \in DOMAIN entries : entries[k] = list[i]
  BY <1>4, <1>6
<1>11. Unique(list) => Unique(entries)
  <2> SUFFICES ASSUME Unique(list), NEW j \in DOMAIN entries, NEW k \in DOMAIN entries,
                      entries[j].name = entries[k].name
               PROVE  j = k
    BY DEF Unique
  <2>1. at(j) = at(k)
    BY <1>3, <1>6 DEF Unique
  <2> QED
    BY <1>3, <1>6, <2>1
<1> QED
  BY <1>8, <1>9, <1>10, <1>11 DEF entries

-----------------------------------------------------------------------------
(* Overrides. *)

\* The list c has the entries of a and then those of b.
Concatenates(c, a, b) ==
    /\ IsList(c)
    /\ \A i \in DOMAIN a : i \in DOMAIN c /\ c[i] = a[i]
    /\ \A i \in DOMAIN b : Len(a) + i \in DOMAIN c /\ c[Len(a) + i] = b[i]
    /\ \A i \in DOMAIN c : \/ i \in DOMAIN a /\ c[i] = a[i]
                           \/ i - Len(a) \in DOMAIN b /\ c[i] = b[i - Len(a)]

\* One list after the other is a list.
LEMMA Concatenated ==
    ASSUME NEW a, IsList(a), NEW b, IsList(b)
    PROVE  Concatenates(a \o b, a, b)
<1> DEFINE S == {a[i] : i \in DOMAIN a} \cup {b[i] : i \in DOMAIN b}
           n == Len(a) + Len(b)
           c == a \o b
<1>1. /\ Len(a) \in Nat /\ DOMAIN a = 1..Len(a)
      /\ Len(b) \in Nat /\ DOMAIN b = 1..Len(b)
  BY ListType
<1>2. a \in Seq(S) /\ b \in Seq(S)
  <2>1. a \in Seq({a[i] : i \in DOMAIN a}) /\ b \in Seq({b[i] : i \in DOMAIN b})
    BY DEF IsList
  <2> QED
    BY <2>1, SeqMonotonic
<1>3. c \in Seq(S) /\ Len(c) = n
      /\ \A i \in 1..n : c[i] = IF i <= Len(a) THEN a[i] ELSE b[i - Len(a)]
  BY <1>2, ConcatProperties
<1>4. DOMAIN c = 1..n
  BY <1>1, <1>3
<1>5. \A i \in 1..n : \/ i \in 1..Len(a) /\ c[i] = a[i]
                      \/ i - Len(a) \in 1..Len(b) /\ c[i] = b[i - Len(a)]
  BY <1>1, <1>3
<1>6. \A i \in 1..Len(a) : i \in 1..n /\ c[i] = a[i]
  BY <1>1, <1>3
<1>7. \A i \in 1..Len(b) : Len(a) + i \in 1..n /\ c[Len(a) + i] = b[i]
  BY <1>1, <1>3
<1>8. \A i \in 1..n : c[i] = [f \in {"name"} \cup Fields |-> c[i][f]]
  BY <1>1, <1>5 DEF IsList
<1>9. n \in Nat
  BY <1>1
<1>10. c = [i \in 1..n |-> c[i]]
  <2>1. c \in [1..n -> S]
    BY <1>3, LenProperties
  <2> QED
    BY <2>1
<1> HIDE DEF n
<1>11. IsList(c)
  BY <1>8, <1>9, <1>10, ListIntro
<1> QED
  BY <1>1, <1>4, <1>5, <1>6, <1>7, <1>11 DEF n, Concatenates

\* What the entries of a merge are, and that no name comes twice in it if none
\* does in the two lists.
LEMMA MergedEntries ==
    ASSUME NEW base, IsList(base), NEW override, IsList(override)
    PROVE  /\ IsList(mergeComponents(base, override))
           /\ NamesOf(mergeComponents(base, override)) = NamesOf(base) \cup NamesOf(override)
           /\ \A i \in DOMAIN mergeComponents(base, override) :
                  LET entry == mergeComponents(base, override)[i] IN
                  \/ \E j \in DOMAIN base : base[j] = entry /\ entry.name \notin NamesOf(override)
                  \/ /\ entry.name \in NamesOf(base) \cap NamesOf(override)
                     /\ entry = mergeComponentVector(Named(override, entry.name), base)
                  \/ \E j \in DOMAIN override :
                         override[j] = entry /\ entry.name \notin NamesOf(base)
           /\ Unique(base) /\ Unique(override) => Unique(mergeComponents(base, override))
<1> DEFINE new == {i \in DOMAIN override : override[i].name \notin NamesOf(base)}
<1>a. PICK head : head = [i \in DOMAIN base |->
                             IF base[i].name \in NamesOf(override)
                             THEN mergeComponentVector(Named(override, base[i].name), base)
                             ELSE base[i]]
  OBVIOUS
<1>b. PICK tail : tail = EntriesAt(override, new)
  OBVIOUS
<1>c. PICK m : m = head \o tail
  OBVIOUS
<1>1. mergeComponents(base, override) = m
  BY <1>a, <1>b, <1>c DEF mergeComponents
<1>2. DOMAIN head = DOMAIN base /\ \A i \in DOMAIN base :
        head[i] = IF base[i].name \in NamesOf(override)
                  THEN mergeComponentVector(Named(override, base[i].name), base)
                  ELSE base[i]
  BY <1>a
<1>3. new \in SUBSET DOMAIN override
  OBVIOUS
<1>4. /\ IsList(tail)
      /\ \A k \in DOMAIN tail : \E i \in new : tail[k] = override[i]
      /\ \A i \in new : \E k \in DOMAIN tail : tail[k] = override[i]
      /\ Unique(override) => Unique(tail)
  BY <1>3, <1>b, EntriesAtPositions
<1>5. \A i \in DOMAIN base : head[i].name = base[i].name
  <2> TAKE i \in DOMAIN base
  <2>1. CASE base[i].name \in NamesOf(override)
    <3>1. Named(override, base[i].name).name = base[i].name
      BY <2>1, NamedIsOne
    <3> QED
      BY <1>2, <2>1, <3>1 DEF mergeComponentVector
  <2> QED
    BY <1>2, <2>1
<1>6. IsList(head)
  <2>1. Len(base) \in Nat /\ DOMAIN base = 1..Len(base)
    BY ListType
  <2>2. \A i \in DOMAIN base : head[i] = [f \in {"name"} \cup Fields |-> head[i][f]]
    <3> TAKE i \in DOMAIN base
    <3>1. CASE base[i].name \in NamesOf(override)
      BY <1>2, <3>1 DEF mergeComponentVector
    <3>2. CASE base[i].name \notin NamesOf(override)
      BY <1>2, <3>2 DEF IsList
    <3> QED
      BY <3>1, <3>2
  <2>3. head = [i \in 1..Len(base) |-> head[i]]
    BY <1>a, <2>1
  <2> QED
    BY <2>1, <2>2, <2>3, ListIntro
<1>7. /\ IsList(m)
      /\ \A i \in DOMAIN head : i \in DOMAIN m /\ m[i] = head[i]
      /\ \A i \in DOMAIN tail : Len(head) + i \in DOMAIN m /\ m[Len(head) + i] = tail[i]
      /\ \A i \in DOMAIN m : \/ i \in DOMAIN head /\ m[i] = head[i]
                             \/ i - Len(head) \in DOMAIN tail /\ m[i] = tail[i - Len(head)]
  <2>1. IsList(head) /\ IsList(tail)
    BY <1>4, <1>6
  <2>2. Concatenates(m, head, tail)
    BY <1>c, <2>1, Concatenated, Zenon
  <2> QED
    BY <2>2 DEF Concatenates
<1>8. NamesOf(head) = NamesOf(base)
  BY <1>2, <1>5 DEF NamesOf
<1>9. NamesOf(tail) = NamesOf(override) \ NamesOf(base)
  <2>1. NamesOf(tail) \subseteq NamesOf(override) \ NamesOf(base)
    BY <1>4 DEF NamesOf
  <2>2. NamesOf(override) \ NamesOf(base) \subseteq NamesOf(tail)
    BY <1>4 DEF NamesOf
  <2> QED
    BY <2>1, <2>2
<1>10. NamesOf(m) = NamesOf(head) \cup NamesOf(tail)
  <2>1. NamesOf(m) \subseteq NamesOf(head) \cup NamesOf(tail)
    BY <1>7 DEF NamesOf
  <2>2. NamesOf(head) \cup NamesOf(tail) \subseteq NamesOf(m)
    BY <1>7 DEF NamesOf
  <2> QED
    BY <2>1, <2>2
<1>11. ASSUME NEW i \in DOMAIN m
       PROVE  \/ \E j \in DOMAIN base : base[j] = m[i] /\ m[i].name \notin NamesOf(override)
              \/ /\ m[i].name \in NamesOf(base) \cap NamesOf(override)
                 /\ m[i] = mergeComponentVector(Named(override, m[i].name), base)
              \/ \E j \in DOMAIN override :
                     override[j] = m[i] /\ m[i].name \notin NamesOf(base)
  <2>1. CASE i \in DOMAIN head /\ m[i] = head[i]
    <3>1. base[i].name \in NamesOf(base)
      BY <1>2, <2>1 DEF NamesOf
    <3> QED
      BY <1>2, <1>5, <2>1, <3>1
  <2>2. CASE i - Len(head) \in DOMAIN tail /\ m[i] = tail[i - Len(head)]
    BY <1>4, <2>2
  <2> QED
    BY <1>7, <2>1, <2>2
<1>12. Unique(base) /\ Unique(override) => Unique(m)
  <2> SUFFICES ASSUME Unique(base), Unique(override), NEW i \in DOMAIN m, NEW j \in DOMAIN m,
                      m[i].name = m[j].name
               PROVE  i = j
    BY DEF Unique
  <2>1. Unique(head) /\ Unique(tail)
    BY <1>2, <1>4, <1>5 DEF Unique
  <2>2. \A k \in DOMAIN head : head[k].name \in NamesOf(base)
    BY <1>8 DEF NamesOf
  <2>3. \A k \in DOMAIN tail : tail[k].name \notin NamesOf(base)
    BY <1>9 DEF NamesOf
  <2>4. i \in Int /\ j \in Int /\ Len(head) \in Int
    BY <1>6, <1>7, ListType
  <2>5. CASE i \in DOMAIN head /\ m[i] = head[i]
    <3>1. j \in DOMAIN head /\ m[j] = head[j]
      BY <1>7, <2>2, <2>3, <2>5
    <3> QED
      BY <2>1, <2>5, <3>1 DEF Unique
  <2>6. CASE i - Len(head) \in DOMAIN tail /\ m[i] = tail[i - Len(head)]
    <3>1. j - Len(head) \in DOMAIN tail /\ m[j] = tail[j - Len(head)]
      BY <1>7, <2>2, <2>3, <2>6
    <3>2. i - Len(head) = j - Len(head)
      BY <2>1, <2>6, <3>1 DEF Unique
    <3> QED
      BY <2>4, <3>2
  <2> QED
    BY <1>7, <2>5, <2>6
<1> QED
  BY <1>1, <1>7, <1>8, <1>9, <1>10, <1>11, <1>12

\* All entries of that name have this value of a field.
AgreeOn(list, n, f, value) == \A i \in DOMAIN list : list[i].name = n => list[i][f] = value

\* What the entries of a name agree on is what the list says.
LEMMA SaysAgreed ==
    ASSUME NEW list, IsList(list), NEW n \in NamesOf(list), NEW f, NEW value,
           AgreeOn(list, n, f, value)
    PROVE  Says(list, n, f) = value
<1>1. PICK i \in DOMAIN list : list[i].name = n
  BY DEF NamesOf
<1> QED
  BY <1>1, SaysIsOne DEF AgreeOn

\* If no name comes twice, or nothing is said, the entries agree.
LEMMA AgreeOnSaid ==
    ASSUME NEW list, IsList(list), NEW n, NEW f, Unique(list) \/ Says(list, n, f) = Unset
    PROVE  AgreeOn(list, n, f, Says(list, n, f))
<1>1. CASE Unique(list)
  BY <1>1, SaysOfUnique DEF AgreeOn
<1>2. CASE Says(list, n, f) = Unset
  BY <1>2, SaysIsOne DEF AgreeOn
<1> QED
  BY <1>1, <1>2

\* An override decides on what it says.
LEMMA OverrideDecides ==
    ASSUME NEW base, IsList(base), NEW override, IsList(override),
           NEW f \in Fields, NEW value, value # Unset, NEW n \in NamesOf(override),
           AgreeOn(override, n, f, value)
    PROVE  AgreeOn(mergeComponents(base, override), n, f, value)
<1>1. PICK m : m = mergeComponents(base, override)
  OBVIOUS
<1>2. SUFFICES ASSUME NEW i \in DOMAIN m, m[i].name = n PROVE m[i][f] = value
  BY <1>1 DEF AgreeOn
<1>3. CASE \E j \in DOMAIN override : override[j] = m[i]
  BY <1>2, <1>3 DEF AgreeOn
<1>4. CASE m[i] = mergeComponentVector(Named(override, n), base)
  <2>1. Named(override, n)[f] = value
    BY NamedIsOne DEF AgreeOn
  <2> QED
    BY <1>4, <2>1 DEF mergeComponentVector, Fields
<1> QED
  BY <1>1, <1>2, <1>3, <1>4, MergedEntries

\* And it leaves the rest as it was.
LEMMA OverrideLeavesRest ==
    ASSUME NEW base, IsList(base), NEW override, IsList(override),
           NEW f \in Fields, NEW value, NEW n \in NamesOf(base),
           AgreeOn(override, n, f, Unset), AgreeOn(base, n, f, value)
    PROVE  AgreeOn(mergeComponents(base, override), n, f, value)
<1>1. PICK m : m = mergeComponents(base, override)
  OBVIOUS
<1>2. SUFFICES ASSUME NEW i \in DOMAIN m, m[i].name = n PROVE m[i][f] = value
  BY <1>1 DEF AgreeOn
<1>3. CASE \E j \in DOMAIN base : base[j] = m[i]
  BY <1>2, <1>3 DEF AgreeOn
<1>4. CASE n \in NamesOf(override) /\ m[i] = mergeComponentVector(Named(override, n), base)
  <2>1. Named(override, n)[f] = Unset /\ Named(override, n).name = n
    BY <1>4, NamedIsOne DEF AgreeOn
  <2>2. Says(base, n, f) = value
    BY SaysAgreed
  <2>3. m[i][f] = Says(base, n, f)
    BY <1>4, <2>1 DEF mergeComponentVector, Fields
  <2> QED
    BY <2>2, <2>3
<1> QED
  BY <1>1, <1>2, <1>3, <1>4, MergedEntries

\* If no name comes twice, the override says what it says, and else the base does.
LEMMA MergedSays ==
    ASSUME NEW base, IsList(base), Unique(base), NEW override, IsList(override),
           Unique(override), NEW f \in Fields, NEW n
    PROVE  Says(mergeComponents(base, override), n, f) =
               IF Says(override, n, f) # Unset THEN Says(override, n, f) ELSE Says(base, n, f)
<1>1. PICK m : m = mergeComponents(base, override)
  OBVIOUS
<1>2. IsList(m) /\ NamesOf(m) = NamesOf(base) \cup NamesOf(override)
  BY <1>1, MergedEntries
<1>3. CASE Says(override, n, f) # Unset
  <2>1. n \in NamesOf(override)
    BY <1>3, SaysOfNone
  <2>2. AgreeOn(override, n, f, Says(override, n, f))
    BY AgreeOnSaid
  <2>3. AgreeOn(m, n, f, Says(override, n, f))
    BY <1>1, <1>3, <2>1, <2>2, OverrideDecides
  <2>4. Says(m, n, f) = Says(override, n, f)
    BY <1>2, <2>1, <2>3, SaysAgreed
  <2> QED
    BY <1>1, <1>3, <2>4
<1>4. CASE Says(override, n, f) = Unset /\ n \in NamesOf(base)
  <2>1. AgreeOn(override, n, f, Unset) /\ AgreeOn(base, n, f, Says(base, n, f))
    BY <1>4, AgreeOnSaid
  <2>2. AgreeOn(m, n, f, Says(base, n, f))
    BY <1>1, <1>4, <2>1, OverrideLeavesRest
  <2>3. Says(m, n, f) = Says(base, n, f)
    BY <1>2, <1>4, <2>2, SaysAgreed
  <2> QED
    BY <1>1, <1>4, <2>3
<1>5. CASE Says(override, n, f) = Unset /\ n \notin NamesOf(base)
  <2>1. Says(base, n, f) = Unset
    BY <1>5, SaysOfNone
  <2>2. AgreeOn(override, n, f, Unset)
    BY <1>5, AgreeOnSaid
  <2>3. ASSUME NEW i \in DOMAIN m, m[i].name = n PROVE m[i][f] = Unset
    <3>1. PICK j \in DOMAIN override : override[j] = m[i]
      BY <1>1, <1>5, <2>3, MergedEntries DEF NamesOf
    <3> QED
      BY <2>2, <2>3, <3>1 DEF AgreeOn
  <2>4. Says(m, n, f) = Unset
    BY <1>2, <2>3, SaysIsOne
  <2> QED
    BY <1>1, <1>5, <2>1, <2>4
<1> QED
  BY <1>3, <1>4, <1>5

-----------------------------------------------------------------------------
(* An override that brings nothing new. *)

\* Two lists with the same entries at the same positions are the same.
LEMMA SameLists ==
    ASSUME NEW a, IsList(a), NEW b, IsList(b), DOMAIN a = DOMAIN b,
           \A i \in DOMAIN a : a[i] = b[i]
    PROVE  a = b
<1>1. a = [i \in DOMAIN a |-> a[i]] /\ b = [i \in DOMAIN b |-> b[i]]
  BY DEF IsList
<1> QED
  BY <1>1

\* An override without new names leaves the entries where they are.
LEMMA NothingAppended ==
    ASSUME NEW base, IsList(base), NEW override, IsList(override),
           NamesOf(override) \subseteq NamesOf(base),
           \A i \in DOMAIN base : base[i].name \in NamesOf(override) =>
               mergeComponentVector(Named(override, base[i].name), base) = base[i]
    PROVE  mergeComponents(base, override) = base
<1> DEFINE new == {i \in DOMAIN override : override[i].name \notin NamesOf(base)}
<1>a. PICK head : head = [i \in DOMAIN base |->
                             IF base[i].name \in NamesOf(override)
                             THEN mergeComponentVector(Named(override, base[i].name), base)
                             ELSE base[i]]
  OBVIOUS
<1>b. PICK tail : tail = EntriesAt(override, new)
  OBVIOUS
<1>1. new = {}
  BY DEF NamesOf
<1>2. head = base
  <2>1. base = [i \in DOMAIN base |-> base[i]]
    BY DEF IsList
  <2> QED
    BY <1>a, <2>1
<1>3. IsList(tail) /\ DOMAIN tail = {}
  <2>1. new \in SUBSET DOMAIN override
    OBVIOUS
  <2> QED
    BY <1>1, <1>b, <2>1, EntriesAtPositions
<1>4. PICK m : m = base \o tail
  OBVIOUS
<1>5. Concatenates(m, base, tail)
  BY <1>3, <1>4, Concatenated, Zenon
<1>6. m = base
  <2>1. IsList(m) /\ DOMAIN m = DOMAIN base /\ \A i \in DOMAIN m : m[i] = base[i]
    BY <1>3, <1>5 DEF Concatenates
  <2> QED
    BY <2>1, SameLists
<1>7. mergeComponents(base, override) = head \o tail
  BY <1>a, <1>b DEF mergeComponents
<1> QED
  BY <1>2, <1>4, <1>6, <1>7

LEMMA NothingOverridden ==
    ASSUME NEW base, IsList(base)
    PROVE  mergeComponents(base, <<>>) = base
<1>1. IsList(<<>>) /\ NamesOf(<<>>) = {}
  BY DEF IsList, NamesOf
<1> QED
  BY <1>1, NothingAppended

\* In a merge, the entries of a name of the override are all the same.
LEMMA OverriddenAlike ==
    ASSUME NEW base, IsList(base), NEW override, IsList(override), Unique(override),
           NEW i \in DOMAIN mergeComponents(base, override),
           NEW j \in DOMAIN mergeComponents(base, override),
           mergeComponents(base, override)[i].name \in NamesOf(override),
           mergeComponents(base, override)[j].name = mergeComponents(base, override)[i].name
    PROVE  mergeComponents(base, override)[i] = mergeComponents(base, override)[j]
<1>1. PICK m : m = mergeComponents(base, override)
  OBVIOUS
<1>2. SUFFICES ASSUME NEW n, n = m[i].name, n = m[j].name, n \in NamesOf(override)
               PROVE  m[i] = m[j]
  BY <1>1
<1>3. CASE n \in NamesOf(base)
  <2>1. m[i] = mergeComponentVector(Named(override, n), base)
    BY <1>1, <1>2, <1>3, MergedEntries
  <2>2. m[j] = mergeComponentVector(Named(override, n), base)
    BY <1>1, <1>2, <1>3, MergedEntries
  <2> QED
    BY <2>1, <2>2
<1>4. CASE n \notin NamesOf(base)
  <2>1. PICK k \in DOMAIN override : override[k] = m[i]
    BY <1>1, <1>2, <1>4, MergedEntries DEF NamesOf
  <2>2. PICK l \in DOMAIN override : override[l] = m[j]
    BY <1>1, <1>2, <1>4, MergedEntries DEF NamesOf
  <2> QED
    BY <1>2, <2>1, <2>2 DEF Unique
<1> QED
  BY <1>3, <1>4

\* They have what the override says.
LEMMA OverriddenSays ==
    ASSUME NEW base, IsList(base), NEW override, IsList(override), Unique(override),
           NEW i \in DOMAIN mergeComponents(base, override),
           mergeComponents(base, override)[i].name \in NamesOf(override)
    PROVE  LET entry == mergeComponents(base, override)[i]
               ov == Named(override, entry.name)
           IN  /\ ov.name = entry.name
               /\ \A f \in Fields : ov[f] # Unset => entry[f] = ov[f]
<1>1. PICK m : m = mergeComponents(base, override)
  OBVIOUS
<1>2. PICK n : n = m[i].name
  OBVIOUS
<1>3. PICK k \in DOMAIN override : override[k].name = n /\ Named(override, n) = override[k]
  BY <1>1, <1>2, NamedIsOne
<1>4. CASE n \in NamesOf(base)
  <2>1. m[i] = mergeComponentVector(override[k], base)
    BY <1>1, <1>2, <1>3, <1>4, MergedEntries
  <2> QED
    BY <1>1, <1>2, <1>3, <2>1 DEF mergeComponentVector, Fields
<1>5. CASE n \notin NamesOf(base)
  <2>1. PICK l \in DOMAIN override : override[l] = m[i]
    BY <1>1, <1>2, <1>5, MergedEntries DEF NamesOf
  <2>2. k = l
    BY <1>2, <1>3, <2>1 DEF Unique
  <2> QED
    BY <1>1, <1>2, <1>3, <2>1, <2>2
<1> QED
  BY <1>4, <1>5

(***************************************************************************)
(* Overriding a vector with a list a second time changes nothing: the      *)
(* entries, their number and their order stay (mergeComponents).           *)
(***************************************************************************)
THEOREM OverridingTwice ==
    ASSUME NEW base, IsList(base), NEW override, IsList(override), Unique(override)
    PROVE  mergeComponents(mergeComponents(base, override), override) =
               mergeComponents(base, override)
<1>1. PICK m : m = mergeComponents(base, override)
  OBVIOUS
<1>2. IsList(m) /\ NamesOf(override) \subseteq NamesOf(m)
  BY <1>1, MergedEntries
<1>3. ASSUME NEW i \in DOMAIN m, m[i].name \in NamesOf(override)
      PROVE  mergeComponentVector(Named(override, m[i].name), m) = m[i]
  <2>1. PICK ov : ov = Named(override, m[i].name)
    OBVIOUS
  <2>2. ov.name = m[i].name /\ \A f \in Fields : ov[f] # Unset => m[i][f] = ov[f]
    BY <1>1, <1>3, <2>1, OverriddenSays
  <2>3. \A f : AgreeOn(m, m[i].name, f, m[i][f])
    <3>1. \A j \in DOMAIN m : m[j].name = m[i].name => m[i] = m[j]
      BY <1>1, <1>3, OverriddenAlike
    <3> QED
      BY <3>1 DEF AgreeOn
  <2>4. m[i].name \in NamesOf(m)
    BY DEF NamesOf
  <2>5. \A f : Says(m, m[i].name, f) = m[i][f]
    BY <1>2, <2>3, <2>4, SaysAgreed
  <2>6. m[i] = [f \in {"name"} \cup Fields |-> m[i][f]]
    BY <1>2 DEF IsList
  <2>7. \A f \in {"name"} \cup Fields :
          m[i][f] = IF f = "name" \/ ov[f] # Unset THEN ov[f] ELSE Says(m, ov.name, f)
    BY <2>2, <2>5
  <2>8. mergeComponentVector(ov, m) = m[i]
    BY <2>6, <2>7 DEF mergeComponentVector
  <2> QED
    BY <2>1, <2>8
<1>4. mergeComponents(m, override) = m
  BY <1>2, <1>3, NothingAppended
<1> QED
  BY <1>1, <1>4

(***************************************************************************)
(* A landscape whose components file is a copy of that of its base is      *)
(* generated from the vector of the base, whether the landscape lists both *)
(* or only its own (loadComponentVector), in every state in which no name  *)
(* comes twice in the file.                                                *)
(***************************************************************************)
THEOREM CopiedOverride ==
    ASSUME release \in DOMAIN Releases,
           content["landscape"] = content["base"],
           IsList(EntriesOf(content["base"])), Unique(EntriesOf(content["base"]))
    PROVE  /\ loadComponentVector(Files) = loadComponentVector({"base"})
           /\ loadComponentVector({"landscape"}) = loadComponentVector({"base"})
<1>1. PICK base : base = Releases[release].builtin
  OBVIOUS
<1>2. PICK override : override = EntriesOf(content["base"])
  OBVIOUS
<1>3. IsList(base)
  BY <1>1, FilesAssumption DEF Vectors
<1>4. IsList(mergeComponents(base, override))
  BY <1>2, <1>3, MergedEntries
<1>5. merged(base, override, override) = mergeComponents(base, override)
  BY <1>2, <1>3, OverridingTwice DEF merged
<1>6. merged(base, override, <<>>) = mergeComponents(base, override)
  BY <1>4, NothingOverridden DEF merged
<1>7. merged(base, <<>>, override) = mergeComponents(base, override)
  BY <1>3, NothingOverridden DEF merged
<1>8. /\ NewWithOverride(base, override, override) = NewWithOverride(base, override, <<>>)
      /\ NewWithOverride(base, <<>>, override) = NewWithOverride(base, override, <<>>)
  BY <1>5, <1>6, <1>7 DEF NewWithOverride
<1> QED
  BY <1>1, <1>2, <1>8, FilesAssumption
     DEF loadComponentVector, readComponentsFileFails, Layer

-----------------------------------------------------------------------------
(* Vectors.  There is one only if the built-in list is valid, and it is that *)
(* of the lists merged.                                                       *)

LEMMA Loaded ==
    ASSUME NEW base, NEW first, NEW second, NewWithOverride(base, first, second) # None
    PROVE  /\ Unique(base)
           /\ NewWithOverride(base, first, second) = VectorOf(merged(base, first, second))
BY DEF NewWithOverride, ValidateComponents

\* The list of a vector.
LEMMA MergedIsList ==
    ASSUME NEW base, IsList(base), NEW first, IsList(first), NEW second, IsList(second)
    PROVE  /\ IsList(merged(base, first, second))
           /\ NamesOf(merged(base, first, second)) =
                  NamesOf(base) \cup NamesOf(first) \cup NamesOf(second)
<1>1. PICK m : m = mergeComponents(base, first)
  OBVIOUS
<1>2. IsList(m) /\ NamesOf(m) = NamesOf(base) \cup NamesOf(first)
  BY <1>1, MergedEntries
<1>3. /\ IsList(mergeComponents(m, second))
      /\ NamesOf(mergeComponents(m, second)) = NamesOf(m) \cup NamesOf(second)
  BY <1>2, MergedEntries
<1> QED
  BY <1>1, <1>2, <1>3 DEF merged

\* What the entries of a name agree on is what the vector has.
LEMMA VectorHasAgreed ==
    ASSUME NEW list, IsList(list), NEW n \in NamesOf(list), NEW f, NEW value,
           AgreeOn(list, n, f, value)
    PROVE  n \in DOMAIN VectorOf(list) /\ VectorOf(list)[n][f] = value
<1>1. PICK i \in DOMAIN list : list[i].name = n /\ Named(list, n) = list[i]
  BY NamedIsOne
<1> QED
  BY <1>1 DEF VectorOf, AgreeOn

\* The entries agree with the last override that says something.
LEMMA MergedAgree ==
    ASSUME NEW base, IsList(base), NEW first, IsList(first), NEW second, IsList(second),
           NEW f \in Fields, NEW value, NEW n,
           \/ /\ n \in NamesOf(second) /\ AgreeOn(second, n, f, value) /\ value # Unset
           \/ /\ n \in NamesOf(first) /\ AgreeOn(first, n, f, value) /\ value # Unset
              /\ AgreeOn(second, n, f, Unset)
           \/ /\ n \in NamesOf(base) /\ AgreeOn(base, n, f, value)
              /\ AgreeOn(first, n, f, Unset) /\ AgreeOn(second, n, f, Unset)
    PROVE  /\ n \in NamesOf(merged(base, first, second))
           /\ AgreeOn(merged(base, first, second), n, f, value)
<1>1. PICK m : m = mergeComponents(base, first)
  OBVIOUS
<1>2. IsList(m) /\ NamesOf(m) = NamesOf(base) \cup NamesOf(first)
  BY <1>1, MergedEntries
<1>3. PICK all : all = mergeComponents(m, second)
  OBVIOUS
<1>4. all = merged(base, first, second) /\ NamesOf(all) = NamesOf(m) \cup NamesOf(second)
  BY <1>1, <1>2, <1>3, MergedEntries DEF merged
<1>5. CASE n \in NamesOf(second) /\ AgreeOn(second, n, f, value) /\ value # Unset
  BY <1>2, <1>3, <1>4, <1>5, OverrideDecides
<1>6. CASE /\ n \in NamesOf(first) /\ AgreeOn(first, n, f, value) /\ value # Unset
           /\ AgreeOn(second, n, f, Unset)
  <2>1. AgreeOn(m, n, f, value)
    BY <1>1, <1>6, OverrideDecides
  <2> QED
    BY <1>2, <1>3, <1>4, <1>6, <2>1, OverrideLeavesRest
<1>7. CASE /\ n \in NamesOf(base) /\ AgreeOn(base, n, f, value)
           /\ AgreeOn(first, n, f, Unset) /\ AgreeOn(second, n, f, Unset)
  <2>1. AgreeOn(m, n, f, value)
    BY <1>1, <1>7, OverrideLeavesRest
  <2> QED
    BY <1>2, <1>3, <1>4, <1>7, <2>1, OverrideLeavesRest
<1> QED
  BY <1>5, <1>6, <1>7

\* And so does the vector.
LEMMA VectorAgrees ==
    ASSUME NEW base, IsList(base), NEW first, IsList(first), NEW second, IsList(second),
           NewWithOverride(base, first, second) # None,
           NEW f \in Fields, NEW value, NEW n,
           \/ /\ n \in NamesOf(second) /\ AgreeOn(second, n, f, value) /\ value # Unset
           \/ /\ n \in NamesOf(first) /\ AgreeOn(first, n, f, value) /\ value # Unset
              /\ AgreeOn(second, n, f, Unset)
           \/ /\ n \in NamesOf(base) /\ AgreeOn(base, n, f, value)
              /\ AgreeOn(first, n, f, Unset) /\ AgreeOn(second, n, f, Unset)
    PROVE  /\ n \in DOMAIN NewWithOverride(base, first, second)
           /\ NewWithOverride(base, first, second)[n][f] = value
<1>1. PICK all : all = merged(base, first, second)
  OBVIOUS
<1>2. IsList(all) /\ n \in NamesOf(all) /\ AgreeOn(all, n, f, value)
  BY <1>1, MergedIsList, MergedAgree
<1>3. NewWithOverride(base, first, second) = VectorOf(all)
  BY <1>1, Loaded
<1> QED
  BY <1>2, <1>3, VectorHasAgreed

\* If no name comes twice in any of them, the layers decide in their order.
LEMMA VectorSays ==
    ASSUME NEW base, IsList(base), NEW first, IsList(first), NEW second, IsList(second),
           Unique(base), Unique(first), Unique(second),
           NewWithOverride(base, first, second) # None,
           NEW n \in NamesOf(base) \cup NamesOf(first) \cup NamesOf(second),
           NEW f \in Fields
    PROVE  NewWithOverride(base, first, second)[n][f] =
               IF Says(second, n, f) # Unset THEN Says(second, n, f)
               ELSE IF Says(first, n, f) # Unset THEN Says(first, n, f)
               ELSE Says(base, n, f)
<1>1. PICK m : m = mergeComponents(base, first)
  OBVIOUS
<1>2. IsList(m) /\ Unique(m)
  BY <1>1, MergedEntries
<1>3. PICK all : all = mergeComponents(m, second)
  OBVIOUS
<1>4. IsList(all) /\ Unique(all)
  BY <1>2, <1>3, MergedEntries
<1>5. NewWithOverride(base, first, second) = VectorOf(all)
  BY <1>1, <1>3, Loaded DEF merged
<1>6. n \in NamesOf(all)
  BY <1>1, <1>3, MergedIsList DEF merged
<1>7. AgreeOn(all, n, f, Says(all, n, f))
  BY <1>4, AgreeOnSaid
<1>8. VectorOf(all)[n][f] = Says(all, n, f)
  BY <1>4, <1>6, <1>7, VectorHasAgreed
<1>9. Says(m, n, f) = IF Says(first, n, f) # Unset THEN Says(first, n, f) ELSE Says(base, n, f)
  BY <1>1, MergedSays
<1>10. Says(all, n, f) = IF Says(second, n, f) # Unset THEN Says(second, n, f) ELSE Says(m, n, f)
  BY <1>2, <1>3, MergedSays
<1> QED
  BY <1>5, <1>8, <1>9, <1>10

-----------------------------------------------------------------------------
(* Files. *)

LEMMA NoEntries == IsList(<<>>) /\ NamesOf(<<>>) = {} /\ Unique(<<>>)
BY DEF IsList, NamesOf, Unique

\* Two lists say the same of a name whose entries have the same value.
LEMMA SaysAlike ==
    ASSUME NEW a, IsList(a), Unique(a), NEW b, IsList(b), Unique(b), NEW n, NEW f,
           \A i \in DOMAIN a : a[i].name = n =>
               \E j \in DOMAIN b : b[j].name = n /\ b[j][f] = a[i][f],
           \A j \in DOMAIN b : b[j].name = n => n \in NamesOf(a)
    PROVE  Says(a, n, f) = Says(b, n, f)
<1>1. CASE n \in NamesOf(a)
  <2>1. PICK i \in DOMAIN a : a[i].name = n
    BY <1>1 DEF NamesOf
  <2>2. PICK j \in DOMAIN b : b[j].name = n /\ b[j][f] = a[i][f]
    BY <2>1
  <2>3. Says(a, n, f) = a[i][f] /\ Says(b, n, f) = b[j][f]
    BY <2>1, <2>2, SaysOfUnique
  <2> QED
    BY <2>2, <2>3
<1>2. CASE n \notin NamesOf(a)
  <2>1. n \notin NamesOf(b)
    BY <1>2 DEF NamesOf
  <2> QED
    BY <1>2, <2>1, SaysOfNone
<1> QED
  BY <1>1, <1>2

\* What an edit of the entries of the name n leaves of a list.
EditOf(list, after, n) ==
    /\ NamesOf(after) \subseteq NamesOf(list) \cup {n}
    /\ Unique(list) /\ Unique(after) =>
           \A m : m # n => Says(after, m, "version") = Says(list, m, "version")

LEMMA PinnedList ==
    ASSUME NEW list, IsList(list), NEW after, IsList(after), NEW i \in DOMAIN list,
           after = [list EXCEPT ![i].version = Pin]
    PROVE  /\ EditOf(list, after, list[i].name)
           /\ Unique(after) => Unique(list) /\ Says(after, list[i].name, "version") = Pin
<1>0. IsList(list) /\ IsList(after)
  OBVIOUS
<1>1. list[i] = [f \in {"name"} \cup Fields |-> list[i][f]]
  BY DEF IsList
<1>2. /\ DOMAIN after = DOMAIN list /\ \A j \in DOMAIN list : j # i => after[j] = list[j]
      /\ after[i].name = list[i].name /\ after[i].version = Pin
  BY <1>1 DEF Fields
<1>3. \A j \in DOMAIN list : after[j].name = list[j].name
  BY <1>2
<1>4. NamesOf(after) = NamesOf(list) /\ (Unique(after) <=> Unique(list))
  BY <1>2, <1>3 DEF NamesOf, Unique
<1>5. ASSUME Unique(after) PROVE Says(after, list[i].name, "version") = Pin
  <2>1. i \in DOMAIN after
    BY <1>2
  <2> QED
    BY ONLY <1>0, <1>2, <1>5, <2>1, SaysOfUnique
<1>6. ASSUME Unique(list), Unique(after), NEW m, m # list[i].name
      PROVE  Says(after, m, "version") = Says(list, m, "version")
  <2>1. \A j \in DOMAIN after : after[j].name = m =>
            \E k \in DOMAIN list : list[k].name = m /\ list[k]["version"] = after[j]["version"]
    BY <1>2, <1>3, <1>6
  <2>2. \A j \in DOMAIN list : list[j].name = m => m \in NamesOf(after)
    BY <1>2, <1>3 DEF NamesOf
  <2> QED
    BY ONLY <1>0, <1>6, <2>1, <2>2, SaysAlike
<1> QED
  BY <1>4, <1>5, <1>6 DEF EditOf

LEMMA ShortenedList ==
    ASSUME NEW list, IsList(list), NEW i \in DOMAIN list, NEW after,
           after = EntriesAt(list, DOMAIN list \ {i})
    PROVE  EditOf(list, after, list[i].name) /\ (Unique(list) => Unique(after))
<1> DEFINE I == DOMAIN list \ {i}
<1>1. /\ IsList(after) /\ (Unique(list) => Unique(after))
      /\ \A k \in DOMAIN after : \E j \in I : after[k] = list[j]
      /\ \A j \in I : \E k \in DOMAIN after : after[k] = list[j]
  <2>1. I \in SUBSET DOMAIN list
    OBVIOUS
  <2> QED
    BY <2>1, EntriesAtPositions
<1>0. IsList(list) /\ IsList(after)
  BY <1>1
<1>2. NamesOf(after) \subseteq NamesOf(list)
  BY <1>1 DEF NamesOf
<1>3. ASSUME Unique(list), Unique(after), NEW m, m # list[i].name
      PROVE  Says(after, m, "version") = Says(list, m, "version")
  <2>1. \A j \in DOMAIN after : after[j].name = m =>
            \E k \in DOMAIN list : list[k].name = m /\ list[k]["version"] = after[j]["version"]
    BY <1>1
  <2>2. ASSUME NEW j \in DOMAIN list, list[j].name = m PROVE m \in NamesOf(after)
    <3>1. j \in I
      BY <1>3, <2>2
    <3>2. PICK k \in DOMAIN after : after[k] = list[j]
      BY <1>1, <3>1
    <3> QED
      BY <2>2, <3>2 DEF NamesOf
  <2> QED
    BY ONLY <1>0, <1>3, <2>1, <2>2, SaysAlike
<1> QED
  BY <1>1, <1>2, <1>3 DEF EditOf

LEMMA LengthenedList ==
    ASSUME NEW list, IsList(list), NEW after, IsList(after), NEW entry,
           after = Append(list, entry), entry.version = Pin
    PROVE  /\ EditOf(list, after, entry.name)
           /\ Unique(after) => Unique(list) /\ Says(after, entry.name, "version") = Pin
<1> DEFINE n == Len(list)
<1>0. IsList(list) /\ IsList(after)
  OBVIOUS
<1>1. n \in Nat /\ DOMAIN list = 1..n
  BY ListType
<1>2. /\ DOMAIN after = 1..(n + 1) /\ after[n + 1] = entry
      /\ \A j \in 1..n : after[j] = list[j]
  <2>1. list \in Seq({list[j] : j \in DOMAIN list} \cup {entry})
    BY SeqMonotonic DEF IsList
  <2> QED
    BY <1>1, <2>1, AppendProperties
<1> HIDE DEF n
<1>3. NamesOf(after) \subseteq NamesOf(list) \cup {entry.name}
  BY <1>1, <1>2 DEF NamesOf
<1>4. n + 1 \in DOMAIN after /\ \A j \in DOMAIN list : j \in DOMAIN after
  BY <1>1, <1>2
<1>5. Unique(after) => Unique(list)
  BY <1>1, <1>2, <1>4 DEF Unique
<1>6. ASSUME Unique(after) PROVE Says(after, entry.name, "version") = Pin
  BY ONLY <1>0, <1>2, <1>4, <1>6, entry.version = Pin, SaysOfUnique
<1>7. ASSUME Unique(list), Unique(after), NEW m, m # entry.name
      PROVE  Says(after, m, "version") = Says(list, m, "version")
  <2>1. \A j \in DOMAIN after : j \in DOMAIN list \/ j = n + 1
    BY <1>1, <1>2
  <2>2. \A j \in DOMAIN after : after[j].name = m =>
            \E k \in DOMAIN list : list[k].name = m /\ list[k]["version"] = after[j]["version"]
    BY <1>1, <1>2, <1>7, <2>1
  <2>3. \A j \in DOMAIN list : list[j].name = m => m \in NamesOf(after)
    BY <1>1, <1>2, <1>4 DEF NamesOf
  <2> QED
    BY ONLY <1>0, <1>7, <2>2, <2>3, SaysAlike
<1> QED
  BY <1>3, <1>5, <1>6, <1>7 DEF EditOf

-----------------------------------------------------------------------------
(* What the parameters are taken to do, and what follows of the defaults.    *)

Laws(Contents) ==
    AreContents(Contents) /\ Closed(Contents) /\ EditsByName(Contents) /\ MergesByName(Contents)

\* A default has the names of its vector, each once, and no version set by hand.
LEMMA DefaultOfVector ==
    ASSUME NEW Contents, Laws(Contents), NEW vector \in Vectors, ValidateComponents(vector),
           NEW new, new = NameVersionBytes(vector)
    PROVE  /\ new \in Defaults /\ new # NoFile
           /\ IsList(Unmarshal(new)) /\ ValidateComponents(Unmarshal(new))
           /\ NamesOf(Unmarshal(new)) = NamesOf(vector) /\ NamesOf(vector) \subseteq Everything
           /\ \A n : Says(Unmarshal(new), n, "version") # Pin
<1>1. new \in Defaults
  BY DEF Defaults, NameVersionBytes
<1>2. new # NoFile
  BY <1>1 DEF Laws, Closed, AreContents
<1>3. PICK list : list = NamesAndVersions(vector)
  OBVIOUS
<1>4. Unmarshal(new) = list
  BY <1>3 DEF Laws, AreContents
<1>5. IsList(vector)
  BY FilesAssumption
<1>6. Len(vector) \in Nat /\ DOMAIN vector = 1..Len(vector)
  BY <1>5, ListType
<1>7. /\ DOMAIN list = DOMAIN vector /\ list = [i \in 1..Len(vector) |-> list[i]]
      /\ \A i \in DOMAIN vector : list[i] = NameVersion(vector[i])
  BY <1>3, <1>6 DEF NamesAndVersions
<1>8. \A i \in DOMAIN vector :
          /\ list[i] = [f \in {"name"} \cup Fields |-> list[i][f]]
          /\ list[i].name = vector[i].name /\ list[i].version = vector[i].version
  BY <1>7 DEF NameVersion, Fields
<1>9. IsList(list)
  BY <1>6, <1>7, <1>8, ListIntro
<1>10. ValidateComponents(list)
  <2>1. 1 \in DOMAIN vector
    BY <1>5, <1>6 DEF ValidateComponents, IsList
  <2>2. list # <<>>
    BY <1>7, <2>1
  <2>3. Unique(list)
    BY <1>7, <1>8 DEF ValidateComponents, Unique
  <2>4. \A i \in DOMAIN list : validateComponentVector(list[i])
    BY <1>7, <1>8 DEF ValidateComponents, validateComponentVector
  <2> QED
    BY <2>2, <2>3, <2>4 DEF ValidateComponents
<1>11. NamesOf(list) = NamesOf(vector)
  BY <1>7, <1>8 DEF NamesOf
<1>12. NamesOf(vector) \subseteq Everything
  BY DEF Everything
<1>13. \A i \in DOMAIN list : list[i].version # Pin
  BY <1>7, <1>8, FilesAssumption
<1>14. \A n : Says(list, n, "version") # Pin
  <2> TAKE n
  <2>1. Pin # Unset
    BY FilesAssumption
  <2> QED
    BY ONLY <1>9, <1>13, <2>1, SaysIsOne
<1> QED
  BY <1>1, <1>2, <1>4, <1>9, <1>10, <1>11, <1>12, <1>14

\* So has every default that was ever merged, and none was before the first.
LEMMA OldDefault ==
    ASSUME NEW Contents, Laws(Contents), NEW old \in Defaults \cup {NoFile}
    PROVE  /\ IsList(EntriesOf(old)) /\ Unique(EntriesOf(old))
           /\ old # NoFile => ValidateComponents(Unmarshal(old))
           /\ \A n : Says(EntriesOf(old), n, "version") # Pin
<1>1. CASE old = NoFile
  <2>1. EntriesOf(old) = <<>>
    BY <1>1 DEF EntriesOf
  <2>2. \A n : Says(<<>>, n, "version") = Unset
    BY NoEntries, SaysOfNone
  <2> QED
    BY <1>1, <2>1, <2>2, NoEntries, FilesAssumption
<1>2. CASE old # NoFile
  <2>1. PICK vector \in Vectors : ValidateComponents(vector) /\ old = NameVersionBytes(vector)
    BY <1>2 DEF Defaults, NameVersionBytes
  <2>2. /\ IsList(Unmarshal(old)) /\ ValidateComponents(Unmarshal(old))
        /\ \A n : Says(Unmarshal(old), n, "version") # Pin
    BY <2>1, DefaultOfVector
  <2>3. EntriesOf(old) = Unmarshal(old)
    BY <1>2 DEF EntriesOf
  <2> QED
    BY <2>2, <2>3 DEF ValidateComponents
<1> QED
  BY <1>1, <1>2

\* A file that exists has a list, and one that does not, an empty one.
LEMMA FileIsList ==
    ASSUME NEW Contents, Laws(Contents), NEW file \in Contents \cup {NoFile}
    PROVE  /\ IsList(EntriesOf(file)) /\ (file = NoFile => EntriesOf(file) = <<>>)
           /\ file \in Contents => file # NoFile /\ EntriesOf(file) = Unmarshal(file)
<1>1. file \in Contents => file # NoFile
  BY DEF Laws, AreContents
<1>2. CASE file = NoFile
  BY <1>1, <1>2, NoEntries DEF EntriesOf
<1>3. CASE file # NoFile
  BY <1>1, <1>3 DEF EntriesOf, Laws, AreContents
<1> QED
  BY <1>2, <1>3

-----------------------------------------------------------------------------
(***************************************************************************)
(* How a file stands to its last default: the names with a pin have it,    *)
(* and those untouched have the version of the default.  While a name      *)
(* comes twice in the file there are neither.                              *)
(***************************************************************************)
Followed(Contents, file, old, pinned, changed) ==
    /\ file \in Contents \cup {NoFile} /\ old \in Defaults \cup {NoFile}
    /\ NamesOf(EntriesOf(file)) \subseteq Everything
    /\ pinned \subseteq changed /\ changed \subseteq Everything
    /\ ~Unique(EntriesOf(file)) => pinned = {} /\ changed = Everything
    /\ \A n \in pinned : Says(EntriesOf(file), n, "version") = Pin
    /\ \A n \in Everything \ changed :
           Says(EntriesOf(file), n, "version") = Says(EntriesOf(old), n, "version")

\* resolve plain keeps it.
LEMMA PlainKeeps ==
    ASSUME NEW Contents, Laws(Contents), NEW file, NEW old, NEW pinned, NEW changed,
           Followed(Contents, file, old, pinned, changed), file # NoFile \/ old = NoFile,
           NEW vector \in Vectors, ValidateComponents(vector),
           NEW new, new = NameVersionBytes(vector), NEW result, result = Merge(old, new, file)
    PROVE  Followed(Contents, result, new,
                    pinned \ (NamesOf(EntriesOf(old)) \ NamesOf(vector)), changed)
<1>1. /\ new \in Defaults /\ new # NoFile
      /\ IsList(Unmarshal(new)) /\ ValidateComponents(Unmarshal(new))
      /\ NamesOf(Unmarshal(new)) = NamesOf(vector) /\ NamesOf(vector) \subseteq Everything
  BY DefaultOfVector
<1>2. /\ file \in Contents \cup {NoFile} /\ old \in Defaults \cup {NoFile}
      /\ NamesOf(EntriesOf(file)) \subseteq Everything
      /\ pinned \subseteq changed /\ changed \subseteq Everything
  BY DEF Followed
<1>3. result \in Contents
  BY <1>1, <1>2 DEF Laws, Closed
<1>4. EntriesOf(result) = Unmarshal(result) /\ EntriesOf(new) = Unmarshal(new)
  BY <1>1, <1>3, FileIsList DEF EntriesOf
<1>5. PICK before, list, after, wanted :
          /\ before = EntriesOf(old) /\ list = EntriesOf(file)
          /\ after = Unmarshal(result) /\ wanted = Unmarshal(new)
  OBVIOUS
<1>6. /\ NamesOf(after) \subseteq NamesOf(list) \cup NamesOf(wanted)
      /\ Unique(list) =>
             /\ Unique(after)
             /\ \A n \in NamesOf(before) \cup NamesOf(list) \cup NamesOf(wanted) :
                    Says(after, n, "version") =
                        IF n \in NamesOf(before) \ NamesOf(wanted) THEN Unset
                        ELSE IF Says(list, n, "version") = Says(before, n, "version")
                        THEN Says(wanted, n, "version")
                        ELSE Says(list, n, "version")
  BY <1>1, <1>2, <1>5 DEF Laws, MergesByName
<1>7. /\ IsList(before) /\ IsList(list) /\ IsList(after) /\ IsList(wanted)
      /\ \A n : Says(before, n, "version") # Pin
  <2>1. IsList(list) /\ IsList(after)
    BY <1>2, <1>3, <1>4, <1>5, FileIsList
  <2>2. IsList(before) /\ \A n : Says(before, n, "version") # Pin
    BY <1>2, <1>5, OldDefault
  <2> QED
    BY <1>1, <1>5, <2>1, <2>2
<1>8. NamesOf(after) \subseteq Everything
  BY <1>1, <1>2, <1>5, <1>6
<1>9. ASSUME NEW n \in pinned \ (NamesOf(before) \ NamesOf(vector))
      PROVE  Says(after, n, "version") = Pin
  <2>1. Unique(list) /\ Says(list, n, "version") = Pin
    BY <1>5, <1>9 DEF Followed
  <2>2. n \in NamesOf(list)
    BY <1>7, <2>1, SaysOfNone, FilesAssumption
  <2> QED
    BY <1>1, <1>5, <1>6, <1>7, <1>9, <2>1, <2>2
<1>10. ASSUME NEW n \in Everything \ changed
       PROVE  Says(after, n, "version") = Says(wanted, n, "version")
  <2>1. Unique(list) /\ Says(list, n, "version") = Says(before, n, "version")
    BY <1>5, <1>10 DEF Followed
  <2>2. CASE n \in NamesOf(before) \ NamesOf(wanted)
    BY <1>6, <1>7, <2>1, <2>2, SaysOfNone
  <2>3. CASE n \notin NamesOf(before) /\ n \notin NamesOf(list) /\ n \notin NamesOf(wanted)
    <3>1. n \notin NamesOf(after)
      BY <1>6, <2>3
    <3> QED
      BY <1>7, <2>3, <3>1, SaysOfNone
  <2> QED
    BY <1>6, <2>1, <2>2, <2>3
<1>11. ~Unique(after) => pinned = {} /\ changed = Everything
  BY <1>5, <1>6 DEF Followed
<1> QED
  BY <1>1, <1>2, <1>3, <1>4, <1>5, <1>8, <1>9, <1>10, <1>11 DEF Followed

\* An edit of the entries of a name keeps it.
LEMMA EditKeeps ==
    ASSUME NEW Contents, Laws(Contents), NEW file, NEW old, NEW pinned, NEW changed,
           Followed(Contents, file, old, pinned, changed),
           NEW n \in Everything, NEW result \in Contents,
           EditOf(EntriesOf(file), Unmarshal(result), n),
           NEW kept \in SUBSET (pinned \cup {n}),
           n \in kept /\ Unique(Unmarshal(result)) =>
               Says(Unmarshal(result), n, "version") = Pin,
           NEW unique, unique = Unique(Unmarshal(result))
    PROVE  Followed(Contents, result, old, IF unique THEN kept ELSE {},
                    IF unique THEN changed \cup {n} ELSE Everything)
<1>1. PICK list, after : list = EntriesOf(file) /\ after = Unmarshal(result)
  OBVIOUS
<1>2. EntriesOf(result) = after
  BY <1>1, FileIsList
<1>3. /\ old \in Defaults \cup {NoFile} /\ NamesOf(list) \subseteq Everything
      /\ pinned \subseteq changed /\ changed \subseteq Everything
      /\ ~Unique(list) => pinned = {} /\ changed = Everything
      /\ \A m \in pinned : Says(list, m, "version") = Pin
      /\ \A m \in Everything \ changed :
             Says(list, m, "version") = Says(EntriesOf(old), m, "version")
  BY <1>1 DEF Followed
<1>4. NamesOf(after) \subseteq Everything
  BY <1>1, <1>3 DEF EditOf
<1>5. CASE ~Unique(after)
  BY <1>1, <1>2, <1>3, <1>4, <1>5 DEF Followed
<1>6. CASE Unique(after)
  <2>1. Unique(list) => \A m : m # n => Says(after, m, "version") = Says(list, m, "version")
    BY <1>1, <1>6 DEF EditOf
  <2>2. \A m \in kept : Says(after, m, "version") = Pin
    <3> TAKE m \in kept
    <3>1. CASE m = n
      BY <1>1, <1>6, <3>1
    <3>2. CASE m # n
      BY <1>3, <2>1, <3>2
    <3> QED
      BY <3>1, <3>2
  <2>3. \A m \in Everything \ (changed \cup {n}) :
            Says(after, m, "version") = Says(EntriesOf(old), m, "version")
    BY <1>3, <2>1
  <2>4. kept \subseteq changed \cup {n} /\ changed \cup {n} \subseteq Everything
    BY <1>3
  <2> QED
    BY <1>1, <1>2, <1>3, <1>4, <1>6, <2>2, <2>3, <2>4 DEF Followed
<1> QED
  BY <1>5, <1>6

-----------------------------------------------------------------------------
(* The inductive invariant. *)

Inv(Contents) ==
    /\ release \in DOMAIN Releases
    /\ edits \in 0..MaxEdits
    /\ DOMAIN content = Files /\ DOMAIN snapshot = Files
    /\ DOMAIN pins = Files /\ DOMAIN touched = Files
    /\ \A f \in Files : Followed(Contents, content[f], snapshot[f], pins[f], touched[f])

LEMMA InvInit ==
    ASSUME NEW Contents, Laws(Contents), Init
    PROVE  Inv(Contents)
<1>1. release \in DOMAIN Releases
  BY FilesAssumption DEF Init
<1>2. edits \in 0..MaxEdits
  BY FilesAssumption DEF Init
<1>3. Followed(Contents, NoFile, NoFile, {}, {})
  <2>1. EntriesOf(NoFile) = <<>>
    BY DEF EntriesOf
  <2> QED
    BY <2>1, NoEntries DEF Followed
<1> QED
  BY <1>1, <1>2, <1>3 DEF Init, Inv

LEMMA PlainStep ==
    ASSUME NEW Contents, Laws(Contents), Inv(Contents), NEW f \in Files, ResolvePlain(f)
    PROVE  Inv(Contents)'
<1>1. PICK vector \in {Releases[release].builtin, Releases[release].branch} :
          /\ ValidateComponents(vector)
          /\ content' = [content EXCEPT ![f] =
                 Merge(snapshot[f], NameVersionBytes(vector), @)]
          /\ WriteSnapshot(f, NameVersionBytes(vector))
          /\ pins' = [pins EXCEPT ![f] =
                 @ \ (NamesOf(EntriesOf(snapshot[f])) \ NamesOf(vector))]
  BY DEF ResolvePlain
<1>2. vector \in Vectors
  BY <1>1 DEF Inv, Vectors
<1>3. PICK file, old, pinned, changed :
          /\ file = content[f] /\ old = snapshot[f] /\ pinned = pins[f] /\ changed = touched[f]
          /\ Followed(Contents, file, old, pinned, changed) /\ (file # NoFile \/ old = NoFile)
  BY DEF Inv, ResolvePlain
<1>4. PICK new, result :
          new = NameVersionBytes(vector) /\ result = Merge(old, new, file)
  OBVIOUS
<1>5. Followed(Contents, result, new,
               pinned \ (NamesOf(EntriesOf(old)) \ NamesOf(vector)), changed)
  BY <1>1, <1>2, <1>3, <1>4, PlainKeeps
<1>6. /\ content' = [content EXCEPT ![f] = result]
      /\ snapshot' = [snapshot EXCEPT ![f] = new]
      /\ pins' = [pins EXCEPT ![f] = pinned \ (NamesOf(EntriesOf(old)) \ NamesOf(vector))]
      /\ UNCHANGED <<release, edits, touched>>
  BY <1>1, <1>3, <1>4 DEF WriteSnapshot, ResolvePlain
<1> QED
  BY <1>3, <1>5, <1>6 DEF Inv

LEMMA OCMStep ==
    ASSUME NEW Contents, Laws(Contents), Inv(Contents), NEW f \in Files, ResolveOCM(f)
    PROVE  Inv(Contents)'
<1>1. PICK list \in Resolved : content' = [content EXCEPT ![f] = Marshal(list)]
  BY DEF ResolveOCM
<1>2. PICK file : file = Marshal(list)
  OBVIOUS
<1>3. file \in Contents /\ Unmarshal(file) = list
  BY <1>2 DEF Laws, AreContents, Closed
<1>4. EntriesOf(file) = list
  BY <1>3, FileIsList
<1>5. NamesOf(list) \subseteq Everything
  BY DEF Everything
<1>6. Followed(Contents, file, snapshot[f], {}, Everything)
  BY <1>3, <1>4, <1>5 DEF Inv, Followed
<1> QED
  BY <1>1, <1>2, <1>6 DEF Inv, ResolveOCM

LEMMA RewriteStep ==
    ASSUME NEW Contents, Laws(Contents), Inv(Contents), NEW f \in Files,
           NEW n \in Everything, NEW result \in Contents,
           EditOf(EntriesOf(content[f]), Unmarshal(result), n),
           NEW kept \in SUBSET (pins[f] \cup {n}),
           n \in kept /\ Unique(Unmarshal(result)) =>
               Says(Unmarshal(result), n, "version") = Pin,
           Rewrite(f, result, kept, n)
    PROVE  Inv(Contents)'
<1>1. PICK file, old, pinned, changed :
          /\ file = content[f] /\ old = snapshot[f] /\ pinned = pins[f] /\ changed = touched[f]
          /\ Followed(Contents, file, old, pinned, changed)
  BY DEF Inv
<1>2. PICK unique : unique = Unique(Unmarshal(result))
  OBVIOUS
<1>3. Followed(Contents, result, old, IF unique THEN kept ELSE {},
               IF unique THEN changed \cup {n} ELSE Everything)
  BY <1>1, <1>2, EditKeeps
<1>4. /\ edits < MaxEdits /\ edits' = edits + 1
      /\ content' = [content EXCEPT ![f] = result]
      /\ pins' = [pins EXCEPT ![f] = IF unique THEN kept ELSE {}]
      /\ touched' = [touched EXCEPT ![f] = IF unique THEN changed \cup {n} ELSE Everything]
      /\ UNCHANGED <<release, snapshot>>
  BY <1>1, <1>2 DEF Rewrite
<1>5. edits' \in 0..MaxEdits
  BY <1>4, FilesAssumption DEF Inv
<1> QED
  BY <1>1, <1>3, <1>4, <1>5 DEF Inv

LEMMA PinStep ==
    ASSUME NEW Contents, Laws(Contents), Inv(Contents), NEW f \in Files, PinVersion(f)
    PROVE  Inv(Contents)'
<1>1. PICK file, list : file = content[f] /\ list = EntriesOf(content[f])
  OBVIOUS
<1>2. PICK i \in DOMAIN list :
          /\ list[i].version \notin {Unset, Pin}
          /\ Rewrite(f, WithPin(file, i), pins[f] \cup {list[i].name}, list[i].name)
  BY <1>1 DEF PinVersion
<1>3. PICK result, n : result = WithPin(file, i) /\ n = list[i].name
  OBVIOUS
<1>4. file \in Contents \cup {NoFile} /\ NamesOf(list) \subseteq Everything
  BY <1>1 DEF Inv, Followed
<1>5. result \in Contents
  BY <1>1, <1>3, <1>4 DEF Laws, Closed
<1>6. Unmarshal(result) = [list EXCEPT ![i].version = Pin]
  BY <1>1, <1>2, <1>3, <1>4 DEF Laws, EditsByName
<1>7. IsList(list) /\ IsList(Unmarshal(result))
  BY <1>1, <1>4, <1>5, FileIsList
<1>8. /\ EditOf(list, Unmarshal(result), n)
      /\ Unique(Unmarshal(result)) => Says(Unmarshal(result), n, "version") = Pin
  BY <1>3, <1>6, <1>7, PinnedList
<1>9. n \in Everything
  BY <1>3, <1>4 DEF NamesOf
<1> QED
  BY <1>1, <1>2, <1>3, <1>5, <1>8, <1>9, RewriteStep

LEMMA RemoveStep ==
    ASSUME NEW Contents, Laws(Contents), Inv(Contents), NEW f \in Files, RemoveEntry(f)
    PROVE  Inv(Contents)'
<1>1. PICK file, list : file = content[f] /\ list = EntriesOf(content[f])
  OBVIOUS
<1>2. PICK i \in DOMAIN list :
          Rewrite(f, WithoutEntry(file, i), pins[f] \ {list[i].name}, list[i].name)
  BY <1>1 DEF RemoveEntry
<1>3. PICK result, n : result = WithoutEntry(file, i) /\ n = list[i].name
  OBVIOUS
<1>4. file \in Contents \cup {NoFile} /\ NamesOf(list) \subseteq Everything
  BY <1>1 DEF Inv, Followed
<1>5. result \in Contents
  BY <1>1, <1>3, <1>4 DEF Laws, Closed
<1>6. Unmarshal(result) = EntriesAt(list, DOMAIN list \ {i})
  BY <1>1, <1>3, <1>4 DEF Laws, EditsByName
<1>7. IsList(list)
  BY <1>1, <1>4, FileIsList
<1>8. EditOf(list, Unmarshal(result), n)
  BY <1>3, <1>6, <1>7, ShortenedList
<1>9. n \in Everything /\ pins[f] \ {n} \in SUBSET (pins[f] \cup {n}) /\ n \notin pins[f] \ {n}
  BY <1>3, <1>4 DEF NamesOf
<1> QED
  BY <1>1, <1>2, <1>3, <1>5, <1>8, <1>9, RewriteStep

LEMMA AddStep ==
    ASSUME NEW Contents, Laws(Contents), Inv(Contents), NEW f \in Files, AddEntry(f)
    PROVE  Inv(Contents)'
<1>1. PICK file, list : file = content[f] /\ list = EntriesOf(content[f])
  OBVIOUS
<1>2. PICK n \in Custom : Rewrite(f, WithEntry(file, n), pins[f] \cup {n}, n)
  BY <1>1 DEF AddEntry
<1>3. PICK result, entry :
          /\ result = WithEntry(file, n)
          /\ entry = [g \in {"name"} \cup Fields |->
                         CASE g = "name" -> n [] g = "version" -> Pin [] OTHER -> Unset]
  OBVIOUS
<1>4. file \in Contents \cup {NoFile}
  BY <1>1 DEF Inv, Followed
<1>5. result \in Contents
  BY <1>3, <1>4 DEF Laws, Closed
<1>6. Unmarshal(result) = Append(list, entry)
  BY <1>1, <1>3, <1>4 DEF Laws, EditsByName
<1>7. IsList(list) /\ IsList(Unmarshal(result))
  BY <1>1, <1>4, <1>5, FileIsList
<1>8. entry.name = n /\ entry.version = Pin
  BY <1>3 DEF Fields
<1>9. /\ EditOf(list, Unmarshal(result), n)
      /\ Unique(Unmarshal(result)) => Says(Unmarshal(result), n, "version") = Pin
  BY <1>6, <1>7, <1>8, LengthenedList
<1>10. n \in Everything
  BY DEF Everything
<1> QED
  BY <1>1, <1>2, <1>3, <1>5, <1>9, <1>10, RewriteStep

LEMMA DeleteStep ==
    ASSUME NEW Contents, Laws(Contents), Inv(Contents), NEW f \in Files, DeleteFile(f)
    PROVE  Inv(Contents)'
<1>1. Followed(Contents, NoFile, snapshot[f], {}, Everything)
  <2>1. EntriesOf(NoFile) = <<>>
    BY DEF EntriesOf
  <2>2. snapshot[f] \in Defaults \cup {NoFile}
    BY DEF Inv, Followed
  <2> QED
    BY <2>1, <2>2, NoEntries DEF Followed
<1>2. edits' \in 0..MaxEdits
  BY FilesAssumption DEF Inv, DeleteFile
<1> QED
  BY <1>1, <1>2 DEF Inv, DeleteFile

LEMMA UpgradeStep ==
    ASSUME NEW Contents, Inv(Contents), Upgrade
    PROVE  Inv(Contents)'
<1>1. release' \in DOMAIN Releases
  <2>1. DOMAIN Releases = 1..Len(Releases) /\ Len(Releases) \in Nat
    BY FilesAssumption
  <2> QED
    BY <2>1 DEF Inv, Upgrade
<1> QED
  BY <1>1 DEF Inv, Upgrade

LEMMA InvIsInductive ==
    ASSUME NEW Contents, Laws(Contents)
    PROVE  Spec => []Inv(Contents)
<1>1. Init => Inv(Contents)
  BY InvInit
<1>2. Inv(Contents) /\ [Next]_vars => Inv(Contents)'
  <2> SUFFICES ASSUME Inv(Contents), [Next]_vars PROVE Inv(Contents)'
    OBVIOUS
  <2>1. CASE Upgrade
    BY <2>1, UpgradeStep
  <2>2. ASSUME NEW f \in Files, ResolvePlain(f) PROVE Inv(Contents)'
    BY <2>2, PlainStep
  <2>3. ASSUME NEW f \in Files, ResolveOCM(f) PROVE Inv(Contents)'
    BY <2>3, OCMStep
  <2>4. ASSUME NEW f \in Files, PinVersion(f) PROVE Inv(Contents)'
    BY <2>4, PinStep
  <2>5. ASSUME NEW f \in Files, RemoveEntry(f) PROVE Inv(Contents)'
    BY <2>5, RemoveStep
  <2>6. ASSUME NEW f \in Files, AddEntry(f) PROVE Inv(Contents)'
    BY <2>6, AddStep
  <2>7. ASSUME NEW f \in Files, DeleteFile(f) PROVE Inv(Contents)'
    BY <2>7, DeleteStep
  <2>8. CASE UNCHANGED vars
    BY <2>8 DEF Inv, vars
  <2> QED
    BY <2>1, <2>2, <2>3, <2>4, <2>5, <2>6, <2>7, <2>8 DEF Next
<1> QED
  BY <1>1, <1>2, PTL DEF Spec

-----------------------------------------------------------------------------
(***************************************************************************)
(* Every file has a list of entries, every default a valid one of each     *)
(* name once, and the names with a pin are among those changed by hand.    *)
(***************************************************************************)
THEOREM TypesHold ==
    ASSUME NEW Contents, Laws(Contents)
    PROVE  Spec => []TypeOK
<1>1. Inv(Contents) => TypeOK
  <2> SUFFICES ASSUME Inv(Contents) PROVE TypeOK
    OBVIOUS
  <2>1. ASSUME NEW f \in Files
        PROVE  /\ pins[f] \subseteq touched[f] /\ touched[f] \subseteq Everything
               /\ IsList(EntriesOf(content[f])) /\ IsList(EntriesOf(snapshot[f]))
               /\ snapshot[f] # NoFile => ValidateComponents(Unmarshal(snapshot[f]))
    <3>1. PICK file, old : file = content[f] /\ old = snapshot[f]
      OBVIOUS
    <3>2. file \in Contents \cup {NoFile} /\ old \in Defaults \cup {NoFile}
      BY <3>1 DEF Inv, Followed
    <3>3. IsList(EntriesOf(file))
      BY <3>2, FileIsList
    <3>4. IsList(EntriesOf(old)) /\ (old # NoFile => ValidateComponents(Unmarshal(old)))
      BY <3>2, OldDefault
    <3> QED
      BY <3>1, <3>3, <3>4 DEF Inv, Followed
  <2>2. {DOMAIN content, DOMAIN snapshot, DOMAIN pins, DOMAIN touched} = {Files}
    BY DEF Inv
  <2> QED
    BY <2>1, <2>2 DEF TypeOK, Inv
<1> QED
  BY <1>1, InvIsInductive, PTL

(***************************************************************************)
(* An entry nobody touched has the version of the last default that was    *)
(* merged, whatever was done to the entries around it.                     *)
(***************************************************************************)
THEOREM UntouchedFollow ==
    ASSUME NEW Contents, Laws(Contents)
    PROVE  Spec => []UntouchedFollowDefault
<1>1. Inv(Contents) => UntouchedFollowDefault
  BY DEF Inv, Followed, EntriesOf, UntouchedFollowDefault
<1> QED
  BY <1>1, InvIsInductive, PTL

\* What a run of the generate commands reads.
LEMMA LayersAreLists ==
    ASSUME NEW Contents, Laws(Contents), Inv(Contents), NEW listed \in FileSets
    PROVE  /\ \A f \in Files : IsList(Layer(f, listed))
           /\ IsList(Releases[release].builtin)
           /\ loadComponentVector(listed) =
                  NewWithOverride(Releases[release].builtin,
                                  Layer("base", listed), Layer("landscape", listed))
           /\ loadComponentVector(listed) # None
<1>1. ASSUME NEW f \in Files PROVE IsList(Layer(f, listed))
  <2>1. PICK file : file = content[f]
    OBVIOUS
  <2>2. IsList(EntriesOf(file))
    BY <2>1, FileIsList DEF Inv, Followed
  <2> QED
    BY <2>1, <2>2, NoEntries DEF Layer
<1>2. Releases[release].builtin \in Vectors
  BY DEF Inv, Vectors
<1> QED
  BY <1>1, <1>2, FilesAssumption DEF FileSets, loadComponentVector

(***************************************************************************)
(* A version set by hand is the one the generate commands use: that of the *)
(* landscape's own file, and that of the base where the landscape says     *)
(* nothing.  The file that has the pin has its name once; nothing is asked *)
(* of the other.                                                           *)
(***************************************************************************)
THEOREM PinsDecide ==
    ASSUME NEW Contents, Laws(Contents)
    PROVE  Spec => []PinsTakeEffect
<1>1. Inv(Contents) => PinsTakeEffect
  <2> SUFFICES ASSUME Inv(Contents), NEW listed \in FileSets, NEW f \in listed, NEW n \in pins[f],
                      f = "base" => Says(Layer("landscape", listed), n, "version") = Unset
               PROVE  FindComponentVersion(loadComponentVector(listed), n) = Pin
    BY DEF PinsTakeEffect
  <2>1. f \in Files /\ f \in {"base", "landscape"}
    BY FilesAssumption DEF FileSets
  <2>2. PICK base, first, second :
            /\ base = Releases[release].builtin
            /\ first = Layer("base", listed) /\ second = Layer("landscape", listed)
    OBVIOUS
  <2>3. /\ IsList(base) /\ IsList(first) /\ IsList(second)
        /\ loadComponentVector(listed) = NewWithOverride(base, first, second)
        /\ NewWithOverride(base, first, second) # None
    BY <2>2, LayersAreLists, FilesAssumption
  <2>4. PICK layer : layer = Layer(f, listed)
    OBVIOUS
  <2>5. layer = EntriesOf(content[f])
    BY <2>4 DEF Layer
  <2>6. Unique(layer) /\ Says(layer, n, "version") = Pin
    BY <2>1, <2>5 DEF Inv, Followed
  <2>7. IsList(layer)
    BY <2>1, <2>2, <2>3, <2>4
  <2>8. n \in NamesOf(layer)
    BY <2>6, <2>7, SaysOfNone, FilesAssumption
  <2>9. AgreeOn(layer, n, "version", Pin)
    BY <2>6, <2>7, AgreeOnSaid
  <2>10. "version" \in Fields /\ Pin # Unset
    BY FilesAssumption DEF Fields
  <2>11. CASE f = "landscape"
    <3>1. layer = second
      BY <2>2, <2>4, <2>11
    <3> QED
      BY <2>3, <2>8, <2>9, <2>10, <3>1, VectorAgrees DEF FindComponentVersion
  <2>12. CASE f = "base"
    <3>1. layer = first /\ Says(second, n, "version") = Unset
      BY <2>2, <2>4, <2>12
    <3>2. AgreeOn(second, n, "version", Unset)
      BY <2>3, <3>1, AgreeOnSaid
    <3> QED
      BY <2>3, <2>8, <2>9, <2>10, <3>1, <3>2, VectorAgrees DEF FindComponentVersion
  <2> QED
    BY <2>1, <2>11, <2>12
<1> QED
  BY <1>1, InvIsInductive, PTL

(***************************************************************************)
(* A hand-set version moves every reference of its component that is made  *)
(* of the built-in repository and the version.                             *)
(***************************************************************************)
THEOREM ReferencesAreMoved ==
    ASSUME NEW Contents, Laws(Contents)
    PROVE  Spec => []ReferencesFollowPins
<1>1. Inv(Contents) => ReferencesFollowPins
  <2> SUFFICES ASSUME Inv(Contents), NEW listed \in FileSets,
                      NEW n \in UNION {pins[f] : f \in listed},
                      Named(Releases[release].builtin, n) # None,
                      Named(Releases[release].builtin, n).resources # Unset,
                      \A f \in listed : Says(Layer(f, listed), n, "resources") = Unset,
                      NEW r \in DOMAIN Named(Releases[release].builtin, n).resources,
                      Named(Releases[release].builtin, n).resources[r].ref = Unset,
                      Named(Releases[release].builtin, n).resources[r].tag = Unset,
                      TemplateValues(loadComponentVector(listed)[n]) # None
               PROVE  TemplateValues(loadComponentVector(listed)[n]).resources[r] =
                          <<Named(Releases[release].builtin, n).resources[r].repository,
                            loadComponentVector(listed)[n].version>>
    BY DEF ReferencesFollowPins
  <2>1. PICK base, first, second :
            /\ base = Releases[release].builtin
            /\ first = Layer("base", listed) /\ second = Layer("landscape", listed)
    OBVIOUS
  <2>2. /\ IsList(base) /\ IsList(first) /\ IsList(second)
        /\ loadComponentVector(listed) = NewWithOverride(base, first, second)
        /\ NewWithOverride(base, first, second) # None
    BY <2>1, LayersAreLists, FilesAssumption
  <2>3. PICK default, entry : default = Named(base, n) /\ entry = loadComponentVector(listed)[n]
    OBVIOUS
  <2>4. n \in NamesOf(base)
    BY <2>1 DEF Named, NamesOf
  <2>5. AgreeOn(base, n, "resources", default.resources)
    <3>1. Unique(base)
      BY <2>2, Loaded
    <3>2. PICK i \in DOMAIN base : base[i].name = n /\ default = base[i]
      BY <2>2, <2>3, <2>4, NamedIsOne
    <3> QED
      BY <3>1, <3>2 DEF AgreeOn, Unique
  <2>6. \A f \in Files : Says(Layer(f, listed), n, "resources") = Unset
    <3>1. \A f \in Files \ listed : Layer(f, listed) = <<>>
      BY DEF Layer
    <3>2. Says(<<>>, n, "resources") = Unset
      BY NoEntries, SaysOfNone
    <3> QED
      BY <3>1, <3>2
  <2>7. AgreeOn(first, n, "resources", Unset) /\ AgreeOn(second, n, "resources", Unset)
    <3>1. Says(first, n, "resources") = Unset /\ Says(second, n, "resources") = Unset
      BY <2>1, <2>6, FilesAssumption
    <3> QED
      BY <2>2, <3>1, AgreeOnSaid
  <2>8. "resources" \in Fields
    BY DEF Fields
  <2>9. entry.resources = default.resources
    BY <2>2, <2>3, <2>4, <2>5, <2>7, <2>8, VectorAgrees
  <2>10. TemplateValues(entry).resources[r] = ensureReference(entry.resources[r], entry.version)
    BY <2>1, <2>3, <2>9 DEF TemplateValues
  <2> QED
    BY <2>1, <2>3, <2>9, <2>10 DEF ensureReference
<1> QED
  BY <1>1, InvIsInductive, PTL

(***************************************************************************)
(* Every field of a component is the one of the landscape's file, or else  *)
(* of the base's, or else the built-in one.                                *)
(***************************************************************************)
THEOREM LayersInOrder ==
    ASSUME NEW Contents, Laws(Contents)
    PROVE  Spec => []LayersDecide
<1>1. Inv(Contents) => LayersDecide
  <2> SUFFICES ASSUME Inv(Contents), NEW listed \in FileSets, NEW layers,
                      layers = <<Layer("landscape", listed), Layer("base", listed),
                                 Releases[release].builtin>>,
                      \A l \in DOMAIN layers : Unique(layers[l])
               PROVE  /\ DOMAIN loadComponentVector(listed) =
                             UNION {NamesOf(layers[l]) : l \in DOMAIN layers}
                      /\ \A n \in DOMAIN loadComponentVector(listed), f \in Fields :
                             LET saying == {l \in DOMAIN layers : Says(layers[l], n, f) # Unset}
                             IN  loadComponentVector(listed)[n][f] =
                                     IF saying = {} THEN Unset
                                     ELSE Says(layers[FirstOf(saying)], n, f)
    BY DEF LayersDecide
  <2>1. PICK base, first, second :
            /\ base = Releases[release].builtin
            /\ first = Layer("base", listed) /\ second = Layer("landscape", listed)
    OBVIOUS
  <2>2. PICK vector : vector = loadComponentVector(listed)
    OBVIOUS
  <2>3. /\ IsList(base) /\ IsList(first) /\ IsList(second)
        /\ vector = NewWithOverride(base, first, second)
        /\ NewWithOverride(base, first, second) # None
    BY <2>1, <2>2, LayersAreLists, FilesAssumption
  <2>4. DOMAIN layers = 1..3 /\ layers[1] = second /\ layers[2] = first /\ layers[3] = base
    BY <2>1
  <2>5. Unique(base) /\ Unique(first) /\ Unique(second)
    BY <2>4
  <2>6. DOMAIN vector = NamesOf(base) \cup NamesOf(first) \cup NamesOf(second)
    <3>1. PICK all : all = merged(base, first, second)
      OBVIOUS
    <3>2. vector = VectorOf(all)
      BY <2>3, <3>1, Loaded
    <3>3. NamesOf(all) = NamesOf(base) \cup NamesOf(first) \cup NamesOf(second)
      BY <2>3, <3>1, MergedIsList
    <3> QED
      BY <3>2, <3>3 DEF VectorOf
  <2>7. DOMAIN vector = UNION {NamesOf(layers[l]) : l \in DOMAIN layers}
    BY <2>4, <2>6
  <2>8. ASSUME NEW n \in DOMAIN vector, NEW f \in Fields, NEW saying,
               saying = {l \in DOMAIN layers : Says(layers[l], n, f) # Unset}
        PROVE  vector[n][f] = IF saying = {} THEN Unset ELSE Says(layers[FirstOf(saying)], n, f)
    <3>1. vector[n][f] = IF Says(second, n, f) # Unset THEN Says(second, n, f)
                         ELSE IF Says(first, n, f) # Unset THEN Says(first, n, f)
                         ELSE Says(base, n, f)
      BY <2>3, <2>5, <2>6, VectorSays
    <3>2. /\ saying \in SUBSET (1..3)
          /\ 1 \in saying <=> Says(second, n, f) # Unset
          /\ 2 \in saying <=> Says(first, n, f) # Unset
          /\ 3 \in saying <=> Says(base, n, f) # Unset
      BY <2>4, <2>8
    <3>3. saying # {} =>
              FirstOf(saying) \in {1, 2, 3} \cap saying /\ \A l \in saying : FirstOf(saying) <= l
      <4>1. saying \in SUBSET Nat /\ saying \subseteq {1, 2, 3}
        BY <3>2
      <4> QED
        BY <4>1, FirstIsOne
    <3>4. CASE saying = {}
      BY <3>1, <3>2, <3>4
    <3>5. CASE 1 \in saying
      <4>1. FirstOf(saying) = 1
        BY ONLY <3>3, <3>5
      <4> QED
        BY <2>4, <3>1, <3>2, <3>5, <4>1
    <3>6. CASE 1 \notin saying /\ 2 \in saying
      <4>1. FirstOf(saying) = 2
        BY ONLY <3>3, <3>6
      <4> QED
        BY <2>4, <3>1, <3>2, <3>6, <4>1
    <3>7. CASE 1 \notin saying /\ 2 \notin saying /\ 3 \in saying
      <4>1. FirstOf(saying) = 3
        BY ONLY <3>3, <3>7
      <4> QED
        BY <2>4, <3>1, <3>2, <3>7, <4>1
    <3> QED
      BY <3>2, <3>4, <3>5, <3>6, <3>7
  <2> QED
    BY <2>2, <2>7, <2>8
<1> QED
  BY <1>1, InvIsInductive, PTL
=============================================================================
