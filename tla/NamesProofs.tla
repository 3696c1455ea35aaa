---------------------------- MODULE NamesProofs ----------------------------
(***************************************************************************)
(* Why `unique_name` always finds a name nobody has: the candidates for    *)
(* different suffixes are different names, so more candidates than players *)
(* leave one that is free.  For every set of texts and every limit.        *)
(***************************************************************************)
EXTENDS Names, FiniteSetTheorems, WellFoundedInduction, TLAPS

\* A candidate is a name a player can have (`with_suffix`).
LEMMA SuffixMakesName ==
  ASSUME NEW base \in PlayerNames, NEW n \in Nat
  PROVE  WithSuffix(base, n) \in PlayerNames
BY TagRoomAssumption DEF WithSuffix, PlayerNames

\* Different suffixes make different candidates, whatever was cut off.
LEMMA SuffixesDiffer ==
  ASSUME NEW base \in PlayerNames, NEW m \in Nat, NEW n \in Nat,
         WithSuffix(base, m) = WithSuffix(base, n)
  PROVE  m = n
<1> DEFINE kept == IF Len(base.tags) < TagRoom
                   THEN base.tags ELSE SubSeq(base.tags, 1, TagRoom - 1)
<1>1. kept \in Seq(Nat)
  BY TagRoomAssumption DEF PlayerNames
<1>2. Append(kept, m) = Append(kept, n)
  BY DEF WithSuffix
<1> HIDE DEF kept
<1>3. /\ Append(kept, m)[Len(kept) + 1] = m
      /\ Append(kept, n)[Len(kept) + 1] = n
  BY <1>1
<1>4. QED
  BY <1>2, <1>3

\* Among the candidates `unique_name` tries there is one nobody has.
LEMMA SomeSuffixIsFree ==
  ASSUME NEW desired \in PlayerNames, NEW taken, IsFiniteSet(taken)
  PROVE  FreeSuffixes(desired, taken) # {}
<1> DEFINE tries == 2 .. Cardinality(taken) + 2
           candidate == [n \in tries |-> WithSuffix(desired, n)]
<1>1. Cardinality(taken) \in Nat
  BY FS_CardinalityType
<1>2. IsFiniteSet(tries) /\ Cardinality(tries) = Cardinality(taken) + 1
  BY <1>1, FS_Interval
<1>3. SUFFICES ASSUME FreeSuffixes(desired, taken) = {}
               PROVE  FALSE
  OBVIOUS
<1>4. candidate \in [tries -> taken]
  BY <1>3 DEF FreeSuffixes
<1> HIDE DEF candidate
<1>5. \E m, n \in tries : m # n /\ candidate[m] = candidate[n]
  BY <1>1, <1>2, <1>4, FS_PigeonHole
<1>6. \A m, n \in tries : candidate[m] = candidate[n] => m = n
  BY <1>1, SuffixesDiffer DEF candidate
<1>7. QED
  BY <1>5, <1>6

\* A set of numbers has a least one: the loop stops at the first free suffix.
LEMMA LeastNatural ==
  ASSUME NEW S \in SUBSET Nat, S # {}
  PROVE  \E n \in S : \A m \in S : n <= m
<1> DEFINE Less == {p \in Nat \X Nat : p[1] < p[2]}
<1>1. IsWellFoundedOn(Less, Nat)
  BY NatLessThanWellFounded DEF OpToRel
<1>2. \A m, n \in Nat : m < n => <<m, n>> \in Less
  OBVIOUS
<1> HIDE DEF Less
<1>3. PICK n \in S : \A m \in S : ~ (<<m, n>> \in Less)
  BY <1>1, WFMin
<1>4. \A m \in S : ~ (m < n)
  BY <1>2, <1>3
<1>5. \A m \in S : n <= m
  BY <1>4
<1>6. QED
  BY <1>5

\* `unique_name` returns a name that is not already in `taken`.
THEOREM UniqueNameIsFree ==
  ASSUME NEW desired \in PlayerNames, NEW taken, IsFiniteSet(taken)
  PROVE  /\ UniqueName(desired, taken) \in PlayerNames
         /\ UniqueName(desired, taken) \notin taken
<1>1. CASE desired \notin taken
  BY <1>1 DEF UniqueName
<1>2. CASE desired \in taken
  <2> DEFINE free == FreeSuffixes(desired, taken)
             least == CHOOSE n \in free : \A m \in free : n <= m
  <2>1. free \in SUBSET Nat /\ free # {}
    <3>1. Cardinality(taken) \in Nat
      BY FS_CardinalityType
    <3>2. QED
      BY <3>1, SomeSuffixIsFree DEF FreeSuffixes
  <2>2. \E n \in free : \A m \in free : n <= m
    BY <2>1, LeastNatural
  <2>3. least \in free
    BY <2>2
  <2>4. UniqueName(desired, taken) = WithSuffix(desired, least)
    BY <1>2 DEF UniqueName
  <2>5. WithSuffix(desired, least) \notin taken
    BY <2>3 DEF FreeSuffixes
  <2>6. QED
    BY <2>1, <2>3, <2>4, <2>5, SuffixMakesName
<1>3. QED
  BY <1>1, <1>2

=============================================================================
