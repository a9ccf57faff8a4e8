---------------------------- MODULE BundleProofs ----------------------------
(***************************************************************************)
(* What the loop over linux.namespaces and the loop over what it stored do *)
(* to a list of any length.                                                *)
(***************************************************************************)
EXTENDS Bundle, FiniteSetTheorems, TLAPS

Good(list) == {i \in DOMAIN list : WellFormed(list[i])}

(* A malformed entry precedes a well-formed one. *)
HasHole(list) ==
  \E i, j \in DOMAIN list : i < j /\ ~WellFormed(list[i]) /\ WellFormed(list[j])

(* namespaces_len never exceeds the length of the array, and the indexes below
   it are those of the well-formed entries or include one that is not. *)
LEMMA CountFacts ==
  ASSUME NEW list \in Seq(Entries)
  PROVE  LET k == StoredCount(list)
         IN /\ k \in Nat /\ k <= Len(list)
            /\ 1..k \subseteq Good(list) => Good(list) = 1..k
            /\ \A m \in Nat : Good(list) \subseteq 1..m => k <= m
<1> DEFINE k == StoredCount(list)
           n == Len(list)
<1>1. n \in Nat /\ DOMAIN list = 1..n
  OBVIOUS
<1>2. /\ IsFiniteSet(1..n) /\ Cardinality(1..n) = n
  BY <1>1, FS_Interval
<1>3. Good(list) \in SUBSET (1..n)
  BY <1>1 DEF Good
<1>4. IsFiniteSet(Good(list)) /\ Cardinality(Good(list)) <= n
  BY <1>2, <1>3, FS_Subset
<1>5. k = Cardinality(Good(list)) /\ k \in Nat
  BY <1>4, FS_CardinalityType DEF StoredCount, Good
<1>6. /\ IsFiniteSet(1..k) /\ Cardinality(1..k) = k
  BY <1>5, FS_Interval
<1>7. 1..k \subseteq Good(list) => Good(list) = 1..k
  <2>1. HAVE 1..k \in SUBSET Good(list)
  <2>2. Cardinality(Good(list)) = Cardinality(1..k) => Good(list) = 1..k
    BY <2>1, <1>4, FS_Subset
  <2>3. QED
    BY <2>2, <1>5, <1>6
<1>8. ASSUME NEW m \in Nat, Good(list) \subseteq 1..m
      PROVE  k <= m
  <2>1. IsFiniteSet(1..m) /\ Cardinality(1..m) = m
    BY FS_Interval
  <2>2. Good(list) \in SUBSET (1..m)
    BY <1>8
  <2>3. Cardinality(Good(list)) <= Cardinality(1..m)
    BY <2>1, <2>2, FS_Subset
  <2>4. QED
    BY <2>1, <2>3, <1>5
<1>9. QED
  BY <1>1, <1>4, <1>5, <1>7, <1>8

(* The slots start looks at, and which of them are holes. *)
LEMMA SlotFacts ==
  ASSUME NEW list \in Seq(Entries), NEW i \in DOMAIN list
  PROVE  LET slot == ParseNamespaces(list).slots[i]
         IN /\ WellFormed(list[i]) <=> slot # Hole
            /\ WellFormed(list[i]) => slot = list[i] /\ slot.type \in Kinds \cup {"other"}
<1>1. list[i] \in Entries
  OBVIOUS
<1>2. ParseNamespaces(list).slots[i] = IF WellFormed(list[i]) THEN list[i] ELSE Hole
  BY DEF ParseNamespaces
<1>3. WellFormed(list[i]) => list[i] # Hole /\ list[i].type \in Kinds \cup {"other"}
  BY <1>1 DEF Entries, WellFormed, Hole, Kinds
<1>4. QED
  BY <1>2, <1>3

(* start gives strcmp a NULL type if and only if a malformed entry precedes a
   well-formed one: storing by the index in the JSON array but counting apart
   (spec.c) is harmless for every other list, of any length. *)
THEOREM NullReadOnlyOnHole ==
  ASSUME NEW list \in Seq(Entries)
  PROVE  NullRead(ParseNamespaces(list)) <=> HasHole(list)
<1> DEFINE k == StoredCount(list)
           n == Len(list)
<1>1. n \in Nat /\ DOMAIN list = 1..n /\ k \in Nat /\ k <= n
  BY CountFacts
<1>2. NullRead(ParseNamespaces(list)) <=> \E i \in 1..k : ~WellFormed(list[i])
  <2>1. ParseNamespaces(list).len = k
    BY DEF ParseNamespaces
  <2>2. \A i \in 1..k : ParseNamespaces(list).slots[i] = Hole <=> ~WellFormed(list[i])
    BY <1>1, SlotFacts
  <2>3. QED
    BY <2>1, <2>2 DEF NullRead
<1>3. ASSUME NEW i \in 1..k, ~WellFormed(list[i])
      PROVE  HasHole(list)
  <2>1. SUFFICES ASSUME \A j \in DOMAIN list : i < j => ~WellFormed(list[j])
                 PROVE  FALSE
    BY <1>1, <1>3 DEF HasHole
  <2>2. Good(list) \subseteq 1..(i - 1)
    <3>1. SUFFICES ASSUME NEW j \in Good(list)
                   PROVE  j \in 1..(i - 1)
      OBVIOUS
    <3>2. j \in 1..n /\ WellFormed(list[j])
      BY <1>1 DEF Good
    <3>3. j # i /\ ~(i < j)
      BY <1>1, <1>3, <2>1, <3>2
    <3>4. QED
      BY <1>1, <3>2, <3>3
  <2>3. i - 1 \in Nat
    BY <1>1
  <2>4. k <= i - 1
    BY <2>2, <2>3, CountFacts
  <2>5. QED
    BY <2>4, <1>1
<1>4. ASSUME HasHole(list), \A i \in 1..k : WellFormed(list[i])
      PROVE  FALSE
  <2>1. PICK i, j \in DOMAIN list : i < j /\ ~WellFormed(list[i]) /\ WellFormed(list[j])
    BY <1>4 DEF HasHole
  <2>2. 1..k \subseteq Good(list)
    BY <1>1, <1>4 DEF Good
  <2>3. Good(list) = 1..k
    BY <2>2, CountFacts
  <2>4. j \in 1..k /\ i \notin 1..k
    BY <2>1, <2>3 DEF Good
  <2>5. QED
    BY <2>1, <2>4, <1>1
<1>5. QED
  BY <1>2, <1>3, <1>4

(* Where nothing NULL is read, clone is asked for the listed namespaces that
   are not given by path: none is lost behind namespaces_len. *)
THEOREM FlagsAsListed ==
  ASSUME NEW list \in Seq(Entries), ~NullRead(ParseNamespaces(list))
  PROVE  CloneFlags(ContextNamespaces(ParseNamespaces(list)))
           = {ContextKind(list[i].type) : i \in {j \in Good(list) : ~list[j].path}}
<1> DEFINE parsed == ParseNamespaces(list)
           k == StoredCount(list)
           namespaces == ContextNamespaces(parsed)
<1>1. DOMAIN list = 1..Len(list) /\ k \in Nat /\ k <= Len(list) /\ parsed.len = k
  BY CountFacts DEF ParseNamespaces
<1>2. \A i \in 1..k : i \in DOMAIN list
  BY <1>1
<1>3. \A i \in 1..k : parsed.slots[i] # Hole
  BY <1>1 DEF NullRead
<1>4. \A i \in 1..k : WellFormed(list[i]) /\ parsed.slots[i] = list[i]
  BY <1>2, <1>3, SlotFacts
<1>5. Good(list) = 1..k
  BY <1>2, <1>4, CountFacts DEF Good
<1>6. DOMAIN namespaces = 1..k
  BY <1>1 DEF ContextNamespaces
<1>7. \A i \in 1..k : /\ namespaces[i].kind = ContextKind(list[i].type)
                      /\ namespaces[i].path = list[i].path
  BY <1>1, <1>4 DEF ContextNamespaces
<1>8. CloneFlags(namespaces)
        = {namespaces[i].kind : i \in {j \in 1..k : ~namespaces[j].path}}
  BY <1>6 DEF CloneFlags
<1> HIDE DEF parsed, k, namespaces
<1>9. {j \in 1..k : ~namespaces[j].path} = {j \in 1..k : ~list[j].path}
  BY <1>7
<1>10. QED
  BY <1>5, <1>7, <1>8, <1>9 DEF parsed, namespaces
=============================================================================
