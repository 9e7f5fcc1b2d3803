---------------------------- MODULE DocumentProofs ----------------------------
(***************************************************************************)
(* Proofs about Document, for every text of every length, every alphabet   *)
(* and every width of its characters: the document stays a text, an exact  *)
(* replacement finds its one place, positions and offsets denote each      *)
(* other, a line edit leaves the other lines alone, and the edits of a     *)
(* server have the effect of being applied at once.                        *)
(*                                                                         *)
(* The operators are folds and comprehensions.  A fold is unfolded by the  *)
(* function that computes it along the sequence (FoldExists), and the least*)
(* number of a set of numbers, which the library has for the well-founded  *)
(* order of the naturals, gives induction over numbers and over sequences. *)
(***************************************************************************)
EXTENDS Document, FiniteSetTheorems, FunctionTheorems, WellFoundedInduction,
        SequenceTheorems, TLAPS

(* Induction over numbers and over sequences.                              *)

(* The least number of a set; what follows is induction with it.           *)
LEMMA LeastNumber ==
    ASSUME NEW T \in SUBSET Nat, T # {}
    PROVE  \E n \in T : \A m \in T : n <= m
<1>1. PICK n \in T : \A m \in T : ~(<<m, n>> \in OpToRel(<, Nat))
  BY NatLessThanWellFounded, WFMin
<1>2. \A m \in T : ~(m < n)
  BY <1>1 DEF OpToRel
<1> QED BY <1>2

(* A set with 0 and with the successor of each of its numbers has them all.*)
LEMMA Induction ==
    ASSUME NEW T, 0 \in T, \A n \in Nat : n \in T => n + 1 \in T
    PROVE  Nat \subseteq T
<1> SUFFICES ASSUME Nat \ T # {} PROVE FALSE
  OBVIOUS
<1>1. PICK n \in Nat \ T : \A m \in Nat \ T : n <= m
  BY LeastNumber
<1>2. n # 0 /\ n - 1 \in Nat
  BY <1>1
<1>3. n - 1 \in T
  BY <1>1, <1>2
<1> QED BY <1>1, <1>2, <1>3

(* A set with the empty sequence and, with a sequence, whatever is one     *)
(* element longer, has all sequences.                                      *)
LEMMA SequenceInduction ==
    ASSUME NEW S, NEW T, <<>> \in T,
           \A s \in Seq(S), e \in S : s \in T => Append(s, e) \in T
    PROVE  Seq(S) \subseteq T
<1> DEFINE L == {n \in Nat : \A s \in Seq(S) : Len(s) = n => s \in T}
<1>1. 0 \in L
  BY EmptySeq
<1>2. ASSUME NEW n \in Nat, n \in L PROVE n + 1 \in L
  <2> SUFFICES ASSUME NEW s \in Seq(S), Len(s) = n + 1 PROVE s \in T
    OBVIOUS
  <2>1. s # <<>>
    BY EmptySeq
  <2>2. PICK t \in Seq(S), e \in S : s = Append(t, e)
    BY <2>1, SequenceEmptyOrAppend
  <2>3. Len(t) = n
    BY <2>2, AppendProperties, LenProperties
  <2> QED BY <1>2, <2>2, <2>3
<1> HIDE DEF L
<1>3. Nat \subseteq L
  BY <1>1, <1>2, Induction
<1> QED BY <1>3, LenProperties DEF L

-----------------------------------------------------------------------------
(* Folds over sequences.                                                   *)

(* The last of some numbers, taken first by FoldLeft.                      *)
LEMMA LastNumber ==
    ASSUME NEW n \in Nat, NEW s \in SUBSET (1..n), s # {}
    PROVE  Max(s) \in s /\ \A i \in s : i <= Max(s)
<1> DEFINE T == {m \in Nat : \A i \in s : i <= m}
<1>1. n \in T
  OBVIOUS
<1>2. PICK m \in T : \A k \in T : m <= k
  BY <1>1, LeastNumber
<1>3. m \in s
  <2> SUFFICES ASSUME m \notin s PROVE FALSE
    OBVIOUS
  <2>1. m \in Nat /\ \A i \in s : i \in 1..n /\ i <= m
    BY <1>2
  <2>2. PICK i \in s : TRUE
    OBVIOUS
  <2>3. m - 1 \in Nat
    BY <2>1, <2>2
  <2>4. m - 1 \in T
    BY <2>1, <2>3
  <2> QED BY <1>2, <2>1, <2>4
<1>4. \E x \in s : \A y \in s : x >= y
  BY <1>2, <1>3
<1> QED BY <1>4 DEF Max

LEMMA LastOfRange ==
    ASSUME NEW n \in Nat, n > 0
    PROVE  Max(1..n) = n /\ 1..n # {} /\ 1..n \ {n} = 1..(n - 1)
<1>1. 1..n \in SUBSET (1..n) /\ 1..n # {}
  OBVIOUS
<1>2. Max(1..n) \in 1..n /\ \A i \in 1..n : i <= Max(1..n)
  BY <1>1, LastNumber
<1> QED BY <1>1, <1>2

(* it folds step over every set of numbers up to n, from the least on.     *)
IsFold(it, base, step, n) ==
    it = [s \in SUBSET (1..n) |->
            IF s = {} THEN base ELSE step[<<it[s \ {Max(s)}], Max(s)>>]]

(* There is such a function, and it has the type of the steps.             *)
LEMMA FoldExists ==
    ASSUME NEW n \in Nat, NEW A, NEW base \in A,
           NEW step \in [A \X (1..n) -> A]
    PROVE  \E it \in [SUBSET (1..n) -> A] : IsFold(it, base, step, n)
<1> DEFINE Some(k) == \E it \in [SUBSET (1..k) -> A] : IsFold(it, base, step, k)
           T == {k \in Nat : k <= n => Some(k)}
<1>1. Some(0)
  <2> DEFINE it == [s \in SUBSET (1..0) |-> base]
  <2>1. \A s \in SUBSET (1..0) : s = {}
    OBVIOUS
  <2>2. it \in [SUBSET (1..0) -> A] /\ IsFold(it, base, step, 0)
    BY <2>1 DEF IsFold
  <2> QED BY <2>2
<1>2. ASSUME NEW k \in Nat, Some(k), k + 1 <= n
      PROVE  Some(k + 1)
  <2>1. PICK it \in [SUBSET (1..k) -> A] : IsFold(it, base, step, k)
    BY <1>2
  <2> DEFINE value(s) == IF s = {} THEN base
                         ELSE step[<<it[s \ {Max(s)}], Max(s)>>]
             jt == [s \in SUBSET (1..(k + 1)) |-> value(s)]
  <2>2. ASSUME NEW s \in SUBSET (1..(k + 1)), s # {}
        PROVE  s \ {Max(s)} \in SUBSET (1..k) /\ Max(s) \in 1..n
    <3>1. k + 1 \in Nat
      OBVIOUS
    <3>2. PICK m : m = Max(s) /\ m \in s /\ \A i \in s : i <= m
      BY <2>2, <3>1, LastNumber
    <3>3. \A i \in s : i \in 1..(k + 1)
      BY <2>2
    <3>4. m \in 1..(k + 1) /\ m \in 1..n
      BY <1>2, <3>2, <3>3
    <3>5. ASSUME NEW i \in s \ {m} PROVE i \in 1..k
      <4>1. i <= m /\ i # m /\ i \in 1..(k + 1)
        BY <3>2, <3>3
      <4> QED BY <3>4, <4>1
    <3> QED BY <3>2, <3>4, <3>5
  <2>3. \A s \in SUBSET (1..(k + 1)) : value(s) \in A
    BY <2>2
  <2>4. \A s \in SUBSET (1..k) : s \in SUBSET (1..(k + 1)) /\ it[s] = value(s)
    <3>1. \A s \in SUBSET (1..k) : it[s] = value(s)
      BY <2>1 DEF IsFold
    <3>2. \A s \in SUBSET (1..k) : s \in SUBSET (1..(k + 1))
      OBVIOUS
    <3> HIDE DEF value
    <3> QED BY <3>1, <3>2
  <2>5. \A s \in SUBSET (1..k) : jt[s] = it[s]
    BY <2>4
  <2>6. jt \in [SUBSET (1..(k + 1)) -> A]
    BY <2>3
  <2>7. \A s \in SUBSET (1..(k + 1)) :
           value(s) = IF s = {} THEN base
                      ELSE step[<<jt[s \ {Max(s)}], Max(s)>>]
    BY <2>2, <2>5
  <2>8. IsFold(jt, base, step, k + 1)
    <3>1. jt = [s \in SUBSET (1..(k + 1)) |->
                  IF s = {} THEN base ELSE step[<<jt[s \ {Max(s)}], Max(s)>>]]
      BY <2>7
    <3> HIDE DEF jt
    <3> QED BY <3>1 DEF IsFold
  <2> HIDE DEF jt
  <2> QED BY <2>6, <2>8
<1> HIDE DEF Some
<1>3. 0 \in T /\ \A k \in Nat : k \in T => k + 1 \in T
  BY <1>1, <1>2
<1> HIDE DEF T
<1>4. n \in T
  BY <1>3, Induction
<1>5. Some(n)
  BY <1>4 DEF T
<1> QED BY <1>5 DEF Some

-----------------------------------------------------------------------------
(* Exact replacement.                                                      *)

(* The matches found with i, if found are those before it.                 *)
WithMatch(t, old, found, i) ==
    IF /\ found = <<>> \/ Last(found) + Len(old) <= i
       /\ OccursAt(t, old, i)
    THEN Append(found, i) ELSE found

LEMMA WithMatchType ==
    ASSUME NEW t, NEW old, NEW found \in Seq(Nat), NEW i \in Nat
    PROVE  WithMatch(t, old, found, i) \in Seq(Nat)
BY AppendProperties DEF WithMatch

(* Matches goes through the places of a text from the left.                *)
LEMMA MatchesByPlace ==
    ASSUME NEW t, NEW old, Len(t) \in Nat
    PROVE  \E g : /\ g[0] = <<>>
                  /\ \A k \in 1..Len(t) :
                       g[k] = WithMatch(t, old, g[k - 1], k - 1)
                  /\ Matches(t, old) = g[Len(t)]
<1> DEFINE n == Len(t)
           P(it) == it = [s \in SUBSET (1..n) |->
                            IF s = {} THEN <<>>
                            ELSE WithMatch(t, old, it[s \ {Max(s)}],
                                  [i \in 1..n |-> i - 1][Max(s)])]
<1>1. Matches(t, old) = (CHOOSE it : P(it))[1..n]
  BY DEF Matches, FoldLeft, MapThenFoldSet, WithMatch
<1> DEFINE step == [p \in Seq(Nat) \X (1..n) |-> WithMatch(t, old, p[1], p[2] - 1)]
<1>2. step \in [Seq(Nat) \X (1..n) -> Seq(Nat)]
  BY WithMatchType
<1>3. \E it : P(it)
  <2> HIDE DEF step
  <2>1. <<>> \in Seq(Nat)
    BY EmptySeq
  <2>2. PICK it \in [SUBSET (1..n) -> Seq(Nat)] : IsFold(it, <<>>, step, n)
    BY <1>2, <2>1, FoldExists, Zenon
  <2>3. ASSUME NEW s \in SUBSET (1..n), s # {}
        PROVE  step[<<it[s \ {Max(s)}], Max(s)>>]
                 = WithMatch(t, old, it[s \ {Max(s)}],
                       [i \in 1..n |-> i - 1][Max(s)])
    <3>1. PICK m : m = Max(s) /\ m \in 1..n
      BY <2>3, LastNumber
    <3>2. it[s \ {m}] \in Seq(Nat)
      BY <2>2
    <3> QED BY <3>1, <3>2 DEF step
  <2>4. P(it)
    BY <2>2, <2>3 DEF IsFold
  <2> QED BY <2>4
<1>4. PICK it : P(it) /\ Matches(t, old) = it[1..n]
  <2> HIDE DEF P
  <2> QED BY <1>1, <1>3
<1>5. it[{}] = <<>>
  BY <1>4
<1>6. ASSUME NEW k \in 1..n
      PROVE  it[1..k] = WithMatch(t, old, it[1..(k - 1)], k - 1)
  <2>1. Max(1..k) = k /\ 1..k # {} /\ 1..k \ {k} = 1..(k - 1)
    BY SMTT(30), LastOfRange
  <2>2. 1..k \in SUBSET (1..n)
    OBVIOUS
  <2>3. it[1..k] = WithMatch(t, old, it[1..k \ {Max(1..k)}],
                      [i \in 1..n |-> i - 1][Max(1..k)])
    BY <1>4, <2>1, <2>2
  <2> QED BY <2>1, <2>3
<1> DEFINE g == [k \in 0..n |-> it[1..k]]
<1>7. g[0] = <<>> /\ g[n] = it[1..n]
  <2>1. 1..0 = {}
    OBVIOUS
  <2> QED BY <1>5, <2>1
<1>8. \A k \in 1..n : g[k] = WithMatch(t, old, g[k - 1], k - 1)
  BY <1>6
<1> HIDE DEF g
<1> QED BY <1>4, <1>7, <1>8

(* What the matches found before k say of the places before k.             *)
FoundUpTo(t, old, found, k) ==
    /\ found \in Seq(Nat)
    /\ found = <<>> => \A p \in 0..k - 1 : ~OccursAt(t, old, p)
    /\ found # <<>> => found[1] \in 0..k - 1 /\ OccursAt(t, old, found[1])
    /\ Len(found) = 1 =>
         \A p \in 0..k - 1 : OccursAt(t, old, p) =>
             found[1] <= p /\ p < found[1] + Len(old)
    /\ Len(found) > 1 =>
         \E p, q \in Nat : OccursAt(t, old, p) /\ OccursAt(t, old, q) /\ p # q

LEMMA FoundStep ==
    ASSUME NEW t, NEW old, Len(old) \in Nat \ {0}, NEW found, NEW k \in Nat,
           FoundUpTo(t, old, found, k)
    PROVE  FoundUpTo(t, old, WithMatch(t, old, found, k), k + 1)
<1>1. /\ found \in Seq(Nat)
      /\ Len(found) \in Nat
      /\ found # <<>> => Len(found) > 0
      /\ found = <<>> => Len(found) = 0
  BY EmptySeq, LenProperties DEF FoundUpTo
<1>2. \A p : p \in 0..(k + 1) - 1 <=> p \in 0..k - 1 \/ p = k
  OBVIOUS
<1> HIDE DEF OccursAt
<1>3. CASE ~OccursAt(t, old, k)
  <2>1. WithMatch(t, old, found, k) = found
    BY <1>3 DEF WithMatch
  <2> QED BY <1>1, <1>2, <1>3, <2>1 DEF FoundUpTo
<1>4. CASE OccursAt(t, old, k) /\ found = <<>>
  <2>1. WithMatch(t, old, found, k) = Append(found, k)
    BY <1>4 DEF WithMatch
  <2>2. PICK one : one = Append(found, k)
    OBVIOUS
  <2>4. one \in Seq(Nat) /\ one # <<>> /\ Len(one) = 1 /\ one[1] = k
    BY <1>1, <1>4, <2>2, AppendProperties
  <2>3. \A p \in 0..(k + 1) - 1 : OccursAt(t, old, p) => p = k
    BY <1>2, <1>4 DEF FoundUpTo
  <2>5. FoundUpTo(t, old, one, k + 1)
    BY <1>4, <2>3, <2>4 DEF FoundUpTo
  <2> QED BY <2>1, <2>2, <2>5
<1>5. CASE /\ OccursAt(t, old, k) /\ found # <<>>
           /\ ~(Last(found) + Len(old) <= k)
  <2>1. WithMatch(t, old, found, k) = found
    BY <1>5 DEF WithMatch
  <2>2. ASSUME Len(found) = 1
        PROVE  found[1] <= k /\ k < found[1] + Len(old)
    BY <1>1, <1>5, <2>2 DEF FoundUpTo, Last
  <2> QED BY <1>1, <1>2, <1>5, <2>1, <2>2 DEF FoundUpTo
<1>6. CASE /\ OccursAt(t, old, k) /\ found # <<>>
           /\ Last(found) + Len(old) <= k
  <2>1. WithMatch(t, old, found, k) = Append(found, k)
    BY <1>6 DEF WithMatch
  <2>2. PICK more : more = Append(found, k)
    OBVIOUS
  <2>3. /\ more \in Seq(Nat) /\ more # <<>>
        /\ Len(more) \in Nat /\ Len(more) > 1 /\ more[1] = found[1]
    BY <1>1, <1>6, <2>2, AppendProperties
  <2>4. found[1] \in 0..k - 1 /\ OccursAt(t, old, found[1])
    BY <1>6 DEF FoundUpTo
  <2>5. \E p, q \in Nat : OccursAt(t, old, p) /\ OccursAt(t, old, q) /\ p # q
    BY <1>6, <2>4
  <2>6. FoundUpTo(t, old, more, k + 1)
    <3>1. PICK n \in Nat : n = Len(more) /\ n > 1
      BY <2>3
    <3>2. ~(Len(more) = 1) /\ found[1] \in 0..(k + 1) - 1
      BY <2>4, <3>1
    <3> QED BY <2>3, <2>4, <2>5, <3>2 DEF FoundUpTo
  <2> QED BY <2>1, <2>2, <2>6
<1> QED BY <1>3, <1>4, <1>5, <1>6

(* What Matches finds in a text.                                           *)
LEMMA MatchesFound ==
    ASSUME NEW t, Len(t) \in Nat, NEW old, Len(old) \in Nat \ {0}
    PROVE  FoundUpTo(t, old, Matches(t, old), Len(t))
<1>1. PICK g : /\ g[0] = <<>>
               /\ \A k \in 1..Len(t) :
                    g[k] = WithMatch(t, old, g[k - 1], k - 1)
               /\ Matches(t, old) = g[Len(t)]
  BY MatchesByPlace
<1> DEFINE T == {k \in Nat : k <= Len(t) => FoundUpTo(t, old, g[k], k)}
<1>2. 0 \in T
  <2>1. PICK none : none = g[0] /\ none \in Seq(Nat) /\ none = <<>> /\ Len(none) = 0
    BY <1>1, EmptySeq
  <2>2. FoundUpTo(t, old, none, 0)
    BY <2>1 DEF FoundUpTo
  <2> QED BY <2>1, <2>2
<1>3. ASSUME NEW k \in Nat, k \in T PROVE k + 1 \in T
  <2> SUFFICES ASSUME k + 1 <= Len(t) PROVE FoundUpTo(t, old, g[k + 1], k + 1)
    OBVIOUS
  <2>1. k <= Len(t) /\ k + 1 \in 1..Len(t) /\ (k + 1) - 1 = k
    OBVIOUS
  <2>2. g[k + 1] = WithMatch(t, old, g[k], k)
    BY <1>1, <2>1
  <2>3. FoundUpTo(t, old, g[k], k)
    BY <1>3, <2>1
  <2> QED BY <2>2, <2>3, FoundStep
<1> HIDE DEF T
<1>4. Len(t) \in T
  BY <1>2, <1>3, Induction
<1> QED BY <1>1, <1>4 DEF T

(* In a text of characters, an exact replacement is as the property says.  *)
LEMMA ReplacedOnce ==
    ASSUME NEW t \in Seq(Chars), NEW old \in Seq(Chars), old # <<>>, NEW new
    PROVE  LET places == {i \in 0..Len(t) : OccursAt(t, old, i)}
               updated == UniqueReplace(t, old, new)
           IN  /\ places = {} => updated = Refused
               /\ (\E i, j \in places : i + Len(old) <= j) => updated = Refused
               /\ \A i \in places : places = {i} =>
                     updated = SubSeq(t, 1, i) \o new
                                  \o SubSeq(t, i + Len(old) + 1, Len(t))
<1> DEFINE places == {i \in 0..Len(t) : OccursAt(t, old, i)}
           updated == UniqueReplace(t, old, new)
<1>1. Len(t) \in Nat /\ Len(old) \in Nat \ {0}
  BY EmptySeq, LenProperties
<1>2. PICK found : found = Matches(t, old) /\ FoundUpTo(t, old, found, Len(t))
  BY <1>1, MatchesFound
<1>3. updated = IF Len(found) # 1 THEN Refused
                ELSE Replaced(t, found[1], found[1] + Len(old), new)
  BY <1>2 DEF UniqueReplace
<1>4. \A i \in Nat : OccursAt(t, old, i) => i \in 0..Len(t) - 1 /\ i \in places
  BY <1>1 DEF OccursAt
<1>5. /\ found \in Seq(Nat)
      /\ Len(found) \in Nat
      /\ found # <<>> => Len(found) > 0
      /\ found = <<>> => Len(found) = 0
  <2> HIDE DEF places, updated
  <2> QED BY <1>2, EmptySeq, LenProperties DEF FoundUpTo
<1>6. Len(found) = 1 =>
         /\ found[1] \in places
         /\ \A i \in places : found[1] <= i /\ i < found[1] + Len(old)
  <2>1. Len(found) = 1 => found[1] \in Nat /\ OccursAt(t, old, found[1])
    BY <1>1, <1>2, <1>5 DEF FoundUpTo
  <2>2. \A i \in places : i \in Nat /\ OccursAt(t, old, i)
    OBVIOUS
  <2>3. Len(found) = 1 =>
           \A i \in 0..Len(t) - 1 : OccursAt(t, old, i) =>
              found[1] <= i /\ i < found[1] + Len(old)
    BY <1>2 DEF FoundUpTo
  <2> QED BY <1>4, <2>1, <2>2, <2>3
<1>7. \A i \in places : i \in Nat
  OBVIOUS
<1>8. ASSUME NEW i \in places, places = {i} PROVE Len(found) = 1 /\ found[1] = i
  <2>1. found # <<>>
    BY <1>1, <1>2, <1>4, <1>8 DEF FoundUpTo
  <2>2. ~(Len(found) > 1)
    BY <1>2, <1>4, <1>8 DEF FoundUpTo
  <2>3. Len(found) = 1
    <3>1. PICK n : n = Len(found) /\ n \in Nat /\ n > 0 /\ ~(n > 1)
      BY <1>5, <2>1, <2>2
    <3> QED BY <3>1
  <2> QED BY <1>6, <1>8, <2>3
<1> HIDE DEF places, updated
<1>9. places = {} => updated = Refused
  BY <1>3, <1>6
<1>10. ASSUME NEW i \in places, NEW j \in places, i + Len(old) <= j
       PROVE  updated = Refused
  <2> SUFFICES ASSUME Len(found) = 1 PROVE FALSE
    BY <1>3
  <2>1. found[1] \in Nat /\ found[1] <= i /\ j < found[1] + Len(old)
    BY <1>6, <1>7
  <2> QED BY <1>1, <1>7, <1>10, <2>1
<1>11. ASSUME NEW i \in places, places = {i}
       PROVE  updated = SubSeq(t, 1, i) \o new
                           \o SubSeq(t, i + Len(old) + 1, Len(t))
  BY <1>3, <1>8, <1>11 DEF Replaced
<1> QED BY <1>9, <1>10, <1>11 DEF places, updated

-----------------------------------------------------------------------------
(* Texts put together.                                                     *)

(* f puts more and more of the texts ss together.                          *)
IsFlattening(f, ss, n) ==
    f = [i \in 1..n |-> IF i = 1 THEN ss[i] ELSE f[i - 1] \o ss[i]]

LEMMA FlatteningExists ==
    ASSUME NEW ss, NEW n \in Nat
    PROVE  \E f : IsFlattening(f, ss, n)
<1> DEFINE T == {k \in Nat : \E f : IsFlattening(f, ss, k)}
<1>1. 0 \in T
  <2> DEFINE f == [i \in 1..0 |-> 0]
  <2>1. \A i \in 1..0 : FALSE
    OBVIOUS
  <2>2. IsFlattening(f, ss, 0)
    BY <2>1 DEF IsFlattening
  <2> QED BY <2>2
<1>2. ASSUME NEW k \in Nat, k \in T PROVE k + 1 \in T
  <2>1. PICK f : IsFlattening(f, ss, k)
    BY <1>2
  <2> DEFINE value(i) == IF i = 1 THEN ss[i] ELSE f[i - 1] \o ss[i]
             g == [i \in 1..(k + 1) |-> value(i)]
  <2>2. \A i \in 1..k : i \in 1..(k + 1) /\ f[i] = value(i)
    <3>1. \A i \in 1..k : f[i] = value(i)
      BY <2>1 DEF IsFlattening
    <3>2. \A i \in 1..k : i \in 1..(k + 1)
      OBVIOUS
    <3> HIDE DEF value
    <3> QED BY <3>1, <3>2
  <2>3. \A i \in 1..k : g[i] = f[i]
    BY <2>2
  <2>4. \A i \in 1..(k + 1) : i = 1 \/ i - 1 \in 1..k
    OBVIOUS
  <2>5. \A i \in 1..(k + 1) :
           value(i) = IF i = 1 THEN ss[i] ELSE g[i - 1] \o ss[i]
    BY <2>3, <2>4
  <2>6. g = [i \in 1..(k + 1) |-> IF i = 1 THEN ss[i] ELSE g[i - 1] \o ss[i]]
    BY <2>5
  <2> HIDE DEF g
  <2>7. IsFlattening(g, ss, k + 1)
    BY <2>6 DEF IsFlattening
  <2> QED BY <2>7
<1> HIDE DEF T
<1>3. n \in T
  BY <1>1, <1>2, Induction
<1> QED BY <1>3 DEF T

LEMMA FlattenSteps ==
    ASSUME NEW ss, Len(ss) \in Nat \ {0}
    PROVE  \E f : /\ IsFlattening(f, ss, Len(ss))
                  /\ FlattenSeq(ss) = f[Len(ss)]
<1> DEFINE P(f) == f = [i \in 1..Len(ss) |->
                          IF i = 1 THEN ss[i] ELSE f[i - 1] \o ss[i]]
<1>1. FlattenSeq(ss) = (CHOOSE f : P(f))[Len(ss)]
  BY DEF FlattenSeq
<1>2. \E f : P(f)
  BY FlatteningExists DEF IsFlattening
<1> HIDE DEF P
<1>3. PICK f : P(f) /\ FlattenSeq(ss) = f[Len(ss)]
  BY <1>1, <1>2
<1> QED BY <1>3 DEF P, IsFlattening

LEMMA FlattenNone == FlattenSeq(<<>>) = <<>>
BY DEF FlattenSeq

(* Flattenings agree as far as the texts do.                               *)
LEMMA FlatteningsAgree ==
    ASSUME NEW ss, NEW tt, NEW n \in Nat, NEW m \in Nat, n <= m,
           \A i \in 1..n : tt[i] = ss[i]
    PROVE  \A f, g : IsFlattening(f, ss, n) /\ IsFlattening(g, tt, m) =>
                       \A i \in 1..n : g[i] = f[i]
<1> SUFFICES ASSUME NEW f, IsFlattening(f, ss, n), NEW g, IsFlattening(g, tt, m)
             PROVE  \A i \in 1..n : g[i] = f[i]
  OBVIOUS
<1> DEFINE T == {k \in Nat : k \in 1..n => g[k] = f[k]}
<1>1. 0 \in T
  OBVIOUS
<1>2. ASSUME NEW k \in Nat, k \in T PROVE k + 1 \in T
  <2> SUFFICES ASSUME k + 1 \in 1..n PROVE g[k + 1] = f[k + 1]
    OBVIOUS
  <2>1. k + 1 \in 1..m /\ (k + 1) - 1 = k
    OBVIOUS
  <2>2. /\ f[k + 1] = IF k + 1 = 1 THEN ss[k + 1] ELSE f[k] \o ss[k + 1]
        /\ g[k + 1] = IF k + 1 = 1 THEN tt[k + 1] ELSE g[k] \o tt[k + 1]
    BY <2>1 DEF IsFlattening
  <2>3. k + 1 # 1 => k \in 1..n
    OBVIOUS
  <2> QED BY <1>2, <2>2, <2>3
<1> HIDE DEF T
<1>3. Nat \subseteq T
  BY <1>1, <1>2, Induction
<1> QED BY <1>3 DEF T

LEMMA FlattenAppend ==
    ASSUME NEW S, NEW ss \in Seq(Seq(S)), NEW s \in Seq(S)
    PROVE  FlattenSeq(Append(ss, s)) = IF ss = <<>> THEN s
                                       ELSE FlattenSeq(ss) \o s
<1>1. PICK tt : tt = Append(ss, s)
  OBVIOUS
<1>2. PICK n \in Nat : n = Len(ss)
  BY LenProperties
<1>3. /\ tt \in Seq(Seq(S)) /\ Len(tt) = n + 1 /\ tt[n + 1] = s
      /\ \A i \in 1..n : tt[i] = ss[i]
  BY <1>1, <1>2, AppendProperties
<1>4. PICK g : IsFlattening(g, tt, n + 1) /\ FlattenSeq(tt) = g[n + 1]
  <2>1. Len(tt) \in Nat \ {0}
    BY <1>3
  <2> QED BY <1>3, <2>1, FlattenSteps
<1>5. g[n + 1] = IF n + 1 = 1 THEN s ELSE g[n] \o s
  <2>1. n + 1 \in 1..(n + 1) /\ (n + 1) - 1 = n
    OBVIOUS
  <2> QED BY <1>3, <1>4, <2>1 DEF IsFlattening
<1>6. CASE ss = <<>>
  <2>1. n = 0
    BY <1>2, <1>6
  <2> QED BY <1>1, <1>4, <1>5, <1>6, <2>1
<1>7. CASE ss # <<>>
  <2>1. n \in Nat \ {0}
    BY <1>2, <1>7, EmptySeq
  <2>2. PICK f : IsFlattening(f, ss, n) /\ FlattenSeq(ss) = f[n]
    BY <1>2, <2>1, FlattenSteps
  <2>3. \A i \in 1..n : g[i] = f[i]
    <3>1. PICK m \in Nat : m = n + 1 /\ n <= m
      OBVIOUS
    <3>2. IsFlattening(g, tt, m) /\ IsFlattening(f, ss, n)
      BY <1>4, <2>2, <3>1
    <3>3. \A i \in 1..n : tt[i] = ss[i]
      BY <1>3
    <3>4. \A h, i : IsFlattening(h, ss, n) /\ IsFlattening(i, tt, m) =>
                        \A j \in 1..n : i[j] = h[j]
      BY SMTT(30), <3>1, <3>3, FlatteningsAgree
    <3> QED BY <3>2, <3>4
  <2>4. n \in 1..n /\ n + 1 # 1
    BY <2>1
  <2> QED BY <1>1, <1>4, <1>5, <1>7, <2>2, <2>3, <2>4
<1> QED BY <1>6, <1>7

LEMMA FlattenType ==
    ASSUME NEW S, NEW ss \in Seq(Seq(S))
    PROVE  FlattenSeq(ss) \in Seq(S)
<1> DEFINE T == {ss_ \in Seq(Seq(S)) : FlattenSeq(ss_) \in Seq(S)}
<1>1. <<>> \in T
  BY FlattenNone, EmptySeq
<1>2. ASSUME NEW s \in Seq(Seq(S)), NEW e \in Seq(S), s \in T
      PROVE  Append(s, e) \in T
  <2>1. FlattenSeq(s) \in Seq(S)
    BY <1>2
  <2>2. FlattenSeq(s) \o e \in Seq(S)
    BY <2>1, ConcatProperties
  <2> QED BY <2>2, FlattenAppend, AppendProperties
<1> HIDE DEF T
<1>3. Seq(Seq(S)) \subseteq T
  BY <1>1, <1>2, SequenceInduction
<1> QED BY <1>3 DEF T

(* The simple form of the two.                                             *)
LEMMA FlattenMore ==
    ASSUME NEW S, NEW ss \in Seq(Seq(S)), NEW s \in Seq(S)
    PROVE  FlattenSeq(Append(ss, s)) = FlattenSeq(ss) \o s
<1>1. CASE ss = <<>>
  BY <1>1, FlattenNone, FlattenAppend, ConcatEmptySeq
<1>2. CASE ss # <<>>
  BY <1>2, FlattenAppend
<1> QED BY <1>1, <1>2

LEMMA FlattenConcat ==
    ASSUME NEW S, NEW ss \in Seq(Seq(S)), NEW tt \in Seq(Seq(S))
    PROVE  FlattenSeq(ss \o tt) = FlattenSeq(ss) \o FlattenSeq(tt)
<1> DEFINE T == {tt_ \in Seq(Seq(S)) :
                   FlattenSeq(ss \o tt_) = FlattenSeq(ss) \o FlattenSeq(tt_)}
<1>1. <<>> \in T
  <2>1. ss \o <<>> = ss /\ FlattenSeq(ss) \o <<>> = FlattenSeq(ss)
    BY FlattenType, ConcatEmptySeq
  <2> QED BY <2>1, FlattenNone, EmptySeq
<1>2. ASSUME NEW s \in Seq(Seq(S)), NEW e \in Seq(S), s \in T
      PROVE  Append(s, e) \in T
  <2>1. ss \o Append(s, e) = Append(ss \o s, e)
    <3>1. <<e>> \in Seq(Seq(S)) /\ ss \o s \in Seq(Seq(S))
      BY ConcatProperties
    <3>2. Append(s, e) = s \o <<e>> /\ Append(ss \o s, e) = (ss \o s) \o <<e>>
      BY <3>1, AppendIsConcat
    <3>3. (ss \o s) \o <<e>> = ss \o (s \o <<e>>)
      <4> HIDE DEF T
      <4>1. PICK one \in Seq(Seq(S)) : one = <<e>>
        BY <3>1
      <4>2. (ss \o s) \o one = ss \o (s \o one)
        BY SMTT(30)
      <4> QED BY <4>1, <4>2
    <3> QED BY <3>2, <3>3
  <2>2. FlattenSeq(Append(ss \o s, e)) = FlattenSeq(ss \o s) \o e
    <3>1. ss \o s \in Seq(Seq(S))
      BY ConcatProperties
    <3> QED BY <3>1, FlattenMore
  <2>3. FlattenSeq(Append(s, e)) = FlattenSeq(s) \o e
    BY FlattenMore
  <2>4. (FlattenSeq(ss) \o FlattenSeq(s)) \o e = FlattenSeq(ss) \o (FlattenSeq(s) \o e)
    <3>1. FlattenSeq(ss) \in Seq(S) /\ FlattenSeq(s) \in Seq(S)
      BY FlattenType
    <3> HIDE DEF T
    <3>2. PICK u \in Seq(S), v \in Seq(S) :
             u = FlattenSeq(ss) /\ v = FlattenSeq(s)
      BY <3>1
    <3>3. (u \o v) \o e = u \o (v \o e)
      BY SMTT(30)
    <3> QED BY <3>2, <3>3
  <2>5. Append(s, e) \in Seq(Seq(S))
    BY AppendProperties
  <2> QED BY <1>2, <2>1, <2>2, <2>3, <2>4, <2>5
<1> HIDE DEF T
<1>3. Seq(Seq(S)) \subseteq T
  BY <1>1, <1>2, SequenceInduction
<1> QED BY <1>3 DEF T

-----------------------------------------------------------------------------
(* Lines.                                                                  *)

(* The lines with one character more.                                      *)
WithChar(lines, c) ==
    IF lines = <<>> \/ EndsWith(Last(lines), NL)
    THEN Append(lines, <<c>>)
    ELSE Append(Front(lines), Append(Last(lines), c))

(* A sequence that is not empty is its front and its last.                 *)
LEMMA FrontAndLast ==
    ASSUME NEW S, NEW s \in Seq(S), s # <<>>
    PROVE  /\ Front(s) \in Seq(S) /\ Last(s) \in S
           /\ Len(s) \in Nat \ {0} /\ Len(Front(s)) = Len(s) - 1
           /\ \A i \in 1..Len(s) - 1 : Front(s)[i] = s[i]
           /\ Append(Front(s), Last(s)) = s
<1>1. PICK n \in Nat \ {0} : n = Len(s)
  BY EmptySeq
<1>2. \A i \in 1..n : s[i] \in S
  BY <1>1, ElementOfSeq
<1>3. n \in 1..n /\ 1 \in Int /\ n - 1 \in Int /\ \A i \in 1..n - 1 : i \in 1..n
  OBVIOUS
<1>4. \A i \in 1..n - 1 : s[i] \in S
  BY <1>2, <1>3
<1>5. PICK f : f = SubSeq(s, 1, n - 1)
  OBVIOUS
<1>6. /\ f \in Seq(S)
      /\ Len(f) = n - 1
      /\ \A i \in 1..n - 1 : f[i] = s[i]
  <2>1. /\ SubSeq(s, 1, n - 1) \in Seq(S)
        /\ Len(SubSeq(s, 1, n - 1)) = IF 1 <= n - 1 THEN n - 1 - 1 + 1 ELSE 0
        /\ \A i \in 1..n - 1 - 1 + 1 : SubSeq(s, 1, n - 1)[i] = s[1 + i - 1]
    BY <1>3, <1>4, SubSeqProperties
  <2> QED BY <1>5, <2>1
<1>7. Front(s) = f /\ Last(s) = s[n] /\ s[n] \in S
  BY <1>1, <1>2, <1>3, <1>5 DEF Front, Last
<1>8. Append(f, s[n]) = s
  <2>1. PICK t : t = Append(f, s[n])
    OBVIOUS
  <2>2. /\ t \in Seq(S) /\ Len(t) = n - 1 + 1
        /\ \A i \in 1..n - 1 : t[i] = f[i]
        /\ t[n - 1 + 1] = s[n]
    BY <1>6, <1>7, <2>1, AppendProperties
  <2>3. \A i \in 1..n : t[i] = s[i]
    BY <1>6, <2>2
  <2> QED BY <1>1, <2>1, <2>2, <2>3, SeqEqual
<1> QED BY <1>1, <1>6, <1>7, <1>8

LEMMA FrontOfAppend ==
    ASSUME NEW S, NEW s \in Seq(S), NEW e \in S
    PROVE  Front(Append(s, e)) = s /\ Last(Append(s, e)) = e
<1>1. PICK t \in Seq(S) : t = Append(s, e) /\ t # <<>>
  BY AppendProperties
<1>2. /\ Append(Front(t), Last(t)) = Append(s, e)
      /\ Front(t) \in Seq(S) /\ Last(t) \in S
  BY <1>1, FrontAndLast
<1> HIDE DEF Front, Last
<1> QED BY <1>1, <1>2, AppendInjective

LEMMA WithCharType ==
    ASSUME NEW lines \in Seq(Seq(Chars)), NEW c \in Chars
    PROVE  WithChar(lines, c) \in Seq(Seq(Chars))
<1>1. CASE lines = <<>> \/ EndsWith(Last(lines), NL)
  BY <1>1, AppendProperties DEF WithChar
<1>2. CASE ~(lines = <<>> \/ EndsWith(Last(lines), NL))
  <2>1. Front(lines) \in Seq(Seq(Chars)) /\ Last(lines) \in Seq(Chars)
    BY <1>2, FrontAndLast
  <2>2. Append(Last(lines), c) \in Seq(Chars)
    BY <2>1, AppendProperties
  <2>3. Append(Front(lines), Append(Last(lines), c)) \in Seq(Seq(Chars))
    BY <2>1, <2>2, AppendProperties
  <2> QED BY <1>2, <2>3 DEF WithChar
<1> QED BY <1>1, <1>2

(* SplitLines goes through the characters of a text from the left.         *)
LEMMA LinesByChar ==
    ASSUME NEW t \in Seq(Chars)
    PROVE  \E g : /\ g[0] = <<>>
                  /\ \A k \in 1..Len(t) : g[k] = WithChar(g[k - 1], t[k])
                  /\ SplitLines(t) = g[Len(t)]
<1>1. PICK n \in Nat : n = Len(t) /\ DOMAIN t = 1..n
  BY LenProperties
<1> DEFINE P(it) == it = [s \in SUBSET (1..n) |->
                            IF s = {} THEN <<>>
                            ELSE WithChar(it[s \ {Max(s)}], t[Max(s)])]
<1>2. SplitLines(t) = (CHOOSE it : P(it))[1..n]
  <2>1. SplitLines(t) = (CHOOSE it : it = [s \in SUBSET DOMAIN t |->
                            IF s = {} THEN <<>>
                            ELSE WithChar(it[s \ {Max(s)}], t[Max(s)])])[DOMAIN t]
    BY DEF SplitLines, FoldLeft, MapThenFoldSet, WithChar
  <2> QED BY <1>1, <2>1
<1> DEFINE step == [p \in Seq(Seq(Chars)) \X (1..n) |-> WithChar(p[1], t[p[2]])]
<1>3. step \in [Seq(Seq(Chars)) \X (1..n) -> Seq(Seq(Chars))]
  <2>1. \A i \in 1..n : t[i] \in Chars
    BY <1>1, ElementOfSeq
  <2> QED BY <2>1, WithCharType
<1>4. \E it : P(it)
  <2> HIDE DEF step
  <2>1. <<>> \in Seq(Seq(Chars))
    BY EmptySeq
  <2>2. PICK it \in [SUBSET (1..n) -> Seq(Seq(Chars))] : IsFold(it, <<>>, step, n)
    BY <1>3, <2>1, FoldExists, Zenon
  <2>3. ASSUME NEW s \in SUBSET (1..n), s # {}
        PROVE  step[<<it[s \ {Max(s)}], Max(s)>>]
                 = WithChar(it[s \ {Max(s)}], t[Max(s)])
    <3>1. PICK m : m = Max(s) /\ m \in 1..n
      BY <2>3, LastNumber
    <3>2. it[s \ {m}] \in Seq(Seq(Chars))
      BY <2>2
    <3> QED BY <3>1, <3>2 DEF step
  <2>4. P(it)
    BY <2>2, <2>3 DEF IsFold
  <2> QED BY <2>4
<1>5. PICK it : P(it) /\ SplitLines(t) = it[1..n]
  <2> HIDE DEF P
  <2> QED BY <1>2, <1>4
<1>6. it[{}] = <<>>
  BY <1>5
<1>7. ASSUME NEW k \in 1..n
      PROVE  it[1..k] = WithChar(it[1..(k - 1)], t[k])
  <2>1. Max(1..k) = k /\ 1..k # {} /\ 1..k \ {k} = 1..(k - 1)
    BY SMTT(30), LastOfRange
  <2>2. 1..k \in SUBSET (1..n)
    OBVIOUS
  <2>3. it[1..k] = WithChar(it[1..k \ {Max(1..k)}], t[Max(1..k)])
    BY <1>5, <2>1, <2>2
  <2> QED BY <2>1, <2>3
<1> DEFINE g == [k \in 0..n |-> it[1..k]]
<1>8. g[0] = <<>> /\ g[n] = it[1..n]
  <2>1. 1..0 = {}
    OBVIOUS
  <2> QED BY <1>6, <2>1
<1>9. \A k \in 1..n : g[k] = WithChar(g[k - 1], t[k])
  BY <1>7
<1> HIDE DEF g
<1> QED BY <1>1, <1>5, <1>8, <1>9

LEMMA SplitNone == SplitLines(<<>>) = <<>>
<1>1. PICK none \in Seq(Chars) : none = <<>> /\ Len(none) = 0
  BY EmptySeq
<1>2. PICK g : g[0] = <<>> /\ SplitLines(none) = g[Len(none)]
  BY LinesByChar
<1> QED BY <1>1, <1>2

LEMMA SplitAppend ==
    ASSUME NEW t \in Seq(Chars), NEW c \in Chars
    PROVE  SplitLines(Append(t, c)) = WithChar(SplitLines(t), c)
<1>1. PICK n \in Nat : n = Len(t)
  BY LenProperties
<1>2. PICK u \in Seq(Chars) : u = Append(t, c)
  BY AppendProperties
<1>3. Len(u) = n + 1 /\ u[n + 1] = c /\ \A i \in 1..n : u[i] = t[i]
  BY <1>1, <1>2, AppendProperties
<1>4. PICK g : /\ g[0] = <<>>
               /\ \A k \in 1..n : g[k] = WithChar(g[k - 1], t[k])
               /\ SplitLines(t) = g[n]
  BY <1>1, LinesByChar
<1>5. PICK h : /\ h[0] = <<>>
               /\ \A k \in 1..(n + 1) : h[k] = WithChar(h[k - 1], u[k])
               /\ SplitLines(u) = h[n + 1]
  BY <1>3, LinesByChar
<1> DEFINE T == {k \in Nat : k <= n => h[k] = g[k]}
<1>6. 0 \in T
  BY <1>4, <1>5
<1>7. ASSUME NEW k \in Nat, k \in T PROVE k + 1 \in T
  <2> SUFFICES ASSUME k + 1 <= n PROVE h[k + 1] = g[k + 1]
    OBVIOUS
  <2>1. k <= n /\ k + 1 \in 1..n /\ k + 1 \in 1..(n + 1) /\ (k + 1) - 1 = k
    OBVIOUS
  <2>2. g[k + 1] = WithChar(g[k], t[k + 1]) /\ h[k + 1] = WithChar(h[k], u[k + 1])
    BY <1>4, <1>5, <2>1
  <2>3. u[k + 1] = t[k + 1] /\ h[k] = g[k]
    BY <1>3, <1>7, <2>1
  <2> QED BY <2>2, <2>3
<1> HIDE DEF T
<1>8. n \in T
  BY <1>6, <1>7, Induction
<1>9. h[n] = g[n]
  BY <1>8 DEF T
<1>10. h[n + 1] = WithChar(h[n], u[n + 1])
  <2>1. n + 1 \in 1..(n + 1) /\ (n + 1) - 1 = n
    OBVIOUS
  <2> QED BY <1>5, <2>1
<1> QED BY <1>2, <1>3, <1>4, <1>5, <1>9, <1>10

(* A line: some characters, of which only the last may be a line feed.     *)
IsLine(l) ==
    /\ l \in Seq(Chars) /\ l # <<>>
    /\ \A j \in 1..Len(l) - 1 : l[j] # NL

(* Lines, all but the last of which are complete.                          *)
AreLines(ls) ==
    /\ ls \in Seq(Seq(Chars))
    /\ \A i \in 1..Len(ls) : IsLine(ls[i])
    /\ \A i \in 1..Len(ls) - 1 : EndsWith(ls[i], NL)

(* What another line may be put behind.                                    *)
Closed(ls) == ls = <<>> \/ EndsWith(Last(ls), NL)

LEMMA EndOfText ==
    ASSUME NEW t \in Seq(Chars), t # <<>>, NEW c
    PROVE  Len(t) \in Nat \ {0} /\ (EndsWith(t, c) <=> t[Len(t)] = c)
BY EmptySeq DEF EndsWith, Last

LEMMA LineGrows ==
    ASSUME NEW l \in Seq(Chars), NEW c \in Chars
    PROVE  IsLine(Append(l, c)) <=> l = <<>> \/ (IsLine(l) /\ ~EndsWith(l, NL))
<1>1. PICK n \in Nat : n = Len(l)
  BY LenProperties
<1>2. PICK m \in Seq(Chars) : m = Append(l, c)
  BY AppendProperties
<1>3. m # <<>> /\ Len(m) = n + 1 /\ \A i \in 1..n : m[i] = l[i]
  BY <1>1, <1>2, AppendProperties
<1>4. IsLine(m) <=> \A j \in 1..n : l[j] # NL
  <2>1. \A j : j \in 1..Len(m) - 1 <=> j \in 1..n
    BY <1>3
  <2> QED BY <1>3, <2>1 DEF IsLine
<1>5. CASE l = <<>>
  <2>1. n = 0
    BY <1>1, <1>5
  <2> QED BY <1>2, <1>4, <1>5, <2>1
<1>6. CASE l # <<>>
  <2>1. n > 0 /\ (EndsWith(l, NL) <=> l[n] = NL)
    BY <1>1, <1>6, EndOfText
  <2>2. \A j : j \in 1..n <=> j \in 1..n - 1 \/ j = n
    BY <2>1
  <2>3. IsLine(l) <=> \A j \in 1..n - 1 : l[j] # NL
    BY <1>1, <1>6 DEF IsLine
  <2> QED BY <1>2, <1>4, <1>6, <2>1, <2>2, <2>3
<1> QED BY <1>5, <1>6

LEMMA LinesGrow ==
    ASSUME NEW ls \in Seq(Seq(Chars)), NEW l \in Seq(Chars)
    PROVE  AreLines(Append(ls, l)) <=> AreLines(ls) /\ Closed(ls) /\ IsLine(l)
<1>1. PICK n \in Nat : n = Len(ls)
  BY LenProperties
<1>2. PICK ms \in Seq(Seq(Chars)) : ms = Append(ls, l)
  BY AppendProperties
<1>3. Len(ms) = n + 1 /\ ms[n + 1] = l /\ \A i \in 1..n : ms[i] = ls[i]
  BY <1>1, <1>2, AppendProperties
<1>4. \A i : /\ i \in 1..n + 1 <=> i \in 1..n \/ i = n + 1
             /\ i \in 1..(n + 1) - 1 <=> i \in 1..n
             /\ i \in 1..n => (i \in 1..n - 1 \/ i = n)
  OBVIOUS
<1>5. Closed(ls) <=> n = 0 \/ EndsWith(ls[n], NL)
  <2>1. CASE ls = <<>>
    BY <1>1, <2>1 DEF Closed
  <2>2. CASE ls # <<>>
    <3>1. n # 0
      BY <1>1, <2>2, EmptySeq
    <3> HIDE DEF EndsWith
    <3> QED BY <1>1, <2>2, <3>1 DEF Closed, Last
  <2> QED BY <2>1, <2>2
<1> HIDE DEF IsLine, EndsWith
<1>6. (\A i \in 1..Len(ms) : IsLine(ms[i]))
        <=> (\A i \in 1..n : IsLine(ls[i])) /\ IsLine(l)
  BY <1>3, <1>4
<1>7. (\A i \in 1..Len(ms) - 1 : EndsWith(ms[i], NL))
        <=> \A i \in 1..n : EndsWith(ls[i], NL)
  BY <1>3, <1>4
<1>8. (\A i \in 1..n : EndsWith(ls[i], NL))
        <=> (\A i \in 1..n - 1 : EndsWith(ls[i], NL)) /\ Closed(ls)
  <2>1. n # 0 => n \in 1..n
    OBVIOUS
  <2>2. \A i \in 1..n - 1 : i \in 1..n
    OBVIOUS
  <2>3. n = 0 => \A i \in 1..n : FALSE
    OBVIOUS
  <2> QED BY <1>4, <1>5, <2>1, <2>2, <2>3
<1> QED BY <1>1, <1>2, <1>6, <1>7, <1>8 DEF AreLines

LEMMA OneCharacter ==
    ASSUME NEW c \in Chars
    PROVE  /\ <<c>> \in Seq(Chars) /\ IsLine(<<c>>)
           /\ \A t \in Seq(Chars) : t \o <<c>> = Append(t, c)
<1>1. <<c>> \in Seq(Chars)
  OBVIOUS
<1>3. Len(<<c>>) = 1
  OBVIOUS
<1>4. PICK one : one = <<c>> /\ one \in Seq(Chars) /\ Len(one) = 1
  BY <1>1, <1>3
<1>2. IsLine(one)
  <2>1. one # <<>>
    BY <1>4, EmptySeq
  <2>2. \A j \in 1..Len(one) - 1 : FALSE
    BY <1>4
  <2> QED BY <1>4, <2>1, <2>2 DEF IsLine
<1> QED BY <1>4, <1>2, AppendIsConcat

LEMMA AppendToConcat ==
    ASSUME NEW S, NEW s \in Seq(S), NEW t \in Seq(S), NEW e \in S
    PROVE  s \o Append(t, e) = Append(s \o t, e)
OBVIOUS

(* Lines with one character more are lines, and of the longer text.        *)
LEMMA WithCharLines ==
    ASSUME NEW ls, AreLines(ls), NEW c \in Chars
    PROVE  /\ AreLines(WithChar(ls, c))
           /\ FlattenSeq(WithChar(ls, c)) = Append(FlattenSeq(ls), c)
<1>1. ls \in Seq(Seq(Chars)) /\ FlattenSeq(ls) \in Seq(Chars)
  BY FlattenType DEF AreLines
<1>2. CASE Closed(ls)
  <2>1. PICK one : one = <<c>> /\ one \in Seq(Chars) /\ IsLine(one)
                   /\ \A t \in Seq(Chars) : t \o one = Append(t, c)
    BY OneCharacter
  <2>2. WithChar(ls, c) = Append(ls, one)
    BY <1>2, <2>1 DEF WithChar, Closed
  <2>3. AreLines(Append(ls, one))
    BY <1>1, <1>2, <2>1, LinesGrow
  <2>4. FlattenSeq(Append(ls, one)) = FlattenSeq(ls) \o one
    BY <1>1, <2>1, FlattenMore
  <2> QED BY <1>1, <2>1, <2>2, <2>3, <2>4
<1>3. CASE ~Closed(ls)
  <2>1. ls # <<>> /\ ~EndsWith(Last(ls), NL)
    BY <1>3 DEF Closed
  <2>2. PICK f \in Seq(Seq(Chars)), l \in Seq(Chars) :
           f = Front(ls) /\ l = Last(ls) /\ Append(f, l) = ls
    BY <1>1, <2>1, FrontAndLast
  <2>3. WithChar(ls, c) = Append(f, Append(l, c))
    BY <2>1, <2>2 DEF WithChar
  <2>4. AreLines(f) /\ Closed(f) /\ IsLine(l)
    BY <2>2, LinesGrow
  <2>5. PICK m \in Seq(Chars) : m = Append(l, c)
    BY AppendProperties
  <2>6. IsLine(m)
    BY <2>1, <2>2, <2>4, <2>5, LineGrows
  <2>7. AreLines(Append(f, m))
    BY <2>4, <2>6, LinesGrow
  <2>8. FlattenSeq(Append(f, m)) = Append(FlattenSeq(ls), c)
    <3>1. FlattenSeq(Append(f, m)) = FlattenSeq(f) \o m
          /\ FlattenSeq(Append(f, l)) = FlattenSeq(f) \o l
      BY FlattenMore
    <3>2. FlattenSeq(f) \in Seq(Chars)
      BY FlattenType
    <3>3. FlattenSeq(f) \o Append(l, c) = Append(FlattenSeq(f) \o l, c)
      BY <3>2, AppendToConcat
    <3> QED BY <2>2, <2>5, <3>1, <3>3
  <2> QED BY <2>3, <2>5, <2>7, <2>8
<1> QED BY <1>2, <1>3

(* SplitLines gives the lines of the text.                                 *)
LEMMA SplitGivesLines ==
    ASSUME NEW t \in Seq(Chars)
    PROVE  AreLines(SplitLines(t)) /\ FlattenSeq(SplitLines(t)) = t
<1> DEFINE T == {u \in Seq(Chars) : /\ AreLines(SplitLines(u))
                                    /\ FlattenSeq(SplitLines(u)) = u}
<1>1. <<>> \in T
  <2>1. PICK none : /\ none = <<>> /\ none \in Seq(Chars)
                    /\ none \in Seq(Seq(Chars)) /\ Len(none) = 0
    BY EmptySeq
  <2>2. AreLines(none)
    BY <2>1 DEF AreLines
  <2> QED BY <2>1, <2>2, SplitNone, FlattenNone
<1>2. ASSUME NEW s \in Seq(Chars), NEW e \in Chars, s \in T
      PROVE  Append(s, e) \in T
  <2>1. SplitLines(Append(s, e)) = WithChar(SplitLines(s), e)
    BY SplitAppend
  <2>2. Append(s, e) \in Seq(Chars)
    BY AppendProperties
  <2>3. AreLines(SplitLines(s)) /\ FlattenSeq(SplitLines(s)) = s
    BY <1>2
  <2>4. /\ AreLines(WithChar(SplitLines(s), e))
        /\ FlattenSeq(WithChar(SplitLines(s), e)) = Append(s, e)
    BY <2>3, WithCharLines
  <2> QED BY <2>1, <2>2, <2>4
<1> HIDE DEF T
<1>3. Seq(Chars) \subseteq T
  BY <1>1, <1>2, SequenceInduction
<1> QED BY <1>3 DEF T

(* What comes of taking the last character away.                           *)
LEMMA LastCharacter ==
    ASSUME NEW ls, AreLines(ls), ls # <<>>
    PROVE  \E ms, c : AreLines(ms) /\ c \in Chars /\ ls = WithChar(ms, c)
<1>1. PICK f \in Seq(Seq(Chars)), l \in Seq(Chars) : Append(f, l) = ls
  BY FrontAndLast DEF AreLines
<1>2. AreLines(f) /\ Closed(f) /\ IsLine(l)
  BY <1>1, LinesGrow
<1>3. l # <<>>
  BY <1>2 DEF IsLine
<1>4. PICK m \in Seq(Chars), c \in Chars : l = Append(m, c)
  BY <1>3, SequenceEmptyOrAppend
<1>5. CASE m = <<>>
  <2>1. l = <<c>>
    BY <1>4, <1>5
  <2>2. ls = WithChar(f, c)
    BY <1>1, <1>2, <2>1 DEF WithChar, Closed
  <2> QED BY <1>2, <2>2
<1>6. CASE m # <<>>
  <2>1. IsLine(m) /\ ~EndsWith(m, NL)
    BY <1>2, <1>4, <1>6, LineGrows
  <2>2. PICK ms \in Seq(Seq(Chars)) : ms = Append(f, m) /\ ms # <<>>
    BY AppendProperties
  <2>3. AreLines(ms)
    BY <1>2, <2>1, <2>2, LinesGrow
  <2>4. Front(ms) = f /\ Last(ms) = m
    BY <2>2, FrontOfAppend
  <2>5. ls = WithChar(ms, c)
    BY <1>1, <1>4, <2>1, <2>2, <2>4 DEF WithChar
  <2> QED BY <2>3, <2>5
<1> QED BY <1>5, <1>6

(* Lines are what SplitLines makes of their text.                          *)
LEMMA LinesAreSplit ==
    ASSUME NEW ls, AreLines(ls)
    PROVE  SplitLines(FlattenSeq(ls)) = ls
<1> DEFINE T == {n \in Nat : \A ms : AreLines(ms) /\ Len(FlattenSeq(ms)) = n =>
                                        SplitLines(FlattenSeq(ms)) = ms}
<1>1. ASSUME NEW n \in Nat, \A k \in Nat : k + 1 = n => k \in T
      PROVE  n \in T
  <2> SUFFICES ASSUME NEW ms, AreLines(ms), Len(FlattenSeq(ms)) = n
               PROVE  SplitLines(FlattenSeq(ms)) = ms
    OBVIOUS
  <2>1. CASE ms = <<>>
    BY <2>1, SplitNone, FlattenNone
  <2>2. CASE ms # <<>>
    <3>1. PICK ks, c : AreLines(ks) /\ c \in Chars /\ ms = WithChar(ks, c)
      BY <2>2, LastCharacter
    <3>2. FlattenSeq(ms) = Append(FlattenSeq(ks), c)
      BY <3>1, WithCharLines
    <3>3. FlattenSeq(ks) \in Seq(Chars)
      BY <3>1, FlattenType DEF AreLines
    <3>4. PICK k \in Nat : k = Len(FlattenSeq(ks)) /\ k + 1 = n
      BY <3>2, <3>3, AppendProperties, LenProperties
    <3>5. SplitLines(FlattenSeq(ks)) = ks
      BY <1>1, <3>1, <3>4
    <3> QED BY <3>1, <3>2, <3>3, <3>5, SplitAppend
  <2> QED BY <2>1, <2>2
<1> HIDE DEF T
<1>2. 0 \in T /\ \A n \in Nat : n \in T => n + 1 \in T
  <2>1. \A k \in Nat : k + 1 # 0
    OBVIOUS
  <2>2. \A n \in Nat : n + 1 \in Nat /\ \A k \in Nat : k + 1 = n + 1 => k = n
    OBVIOUS
  <2> QED BY <1>1, <2>1, <2>2
<1>3. Nat \subseteq T
  BY <1>2, Induction
<1>4. Len(FlattenSeq(ls)) \in Nat
  BY FlattenType, LenProperties DEF AreLines
<1> QED BY <1>3, <1>4 DEF T

(* Parts of sequences that have been put together.                         *)
LEMMA PartOf ==
    ASSUME NEW S, NEW s \in Seq(S), NEW a \in 0..Len(s), NEW b \in a..Len(s)
    PROVE  /\ SubSeq(s, a + 1, b) \in Seq(S)
           /\ Len(SubSeq(s, a + 1, b)) = b - a
           /\ \A i \in 1..b - a : SubSeq(s, a + 1, b)[i] = s[a + i]
<1>1. Len(s) \in Nat /\ a + 1 \in Int /\ b \in Int
  BY LenProperties
<1>2. \A i \in a + 1..b : i \in 1..Len(s)
  BY <1>1
<1>3. \A i \in a + 1..b : s[i] \in S
  BY <1>2, ElementOfSeq
<1>4. PICK m \in Int : m = a + 1
  BY <1>1
<1>5. /\ SubSeq(s, m, b) \in Seq(S)
      /\ Len(SubSeq(s, m, b)) = IF m <= b THEN b - m + 1 ELSE 0
      /\ \A i \in 1..b - m + 1 : SubSeq(s, m, b)[i] = s[m + i - 1]
  BY <1>1, <1>3, <1>4, SubSeqProperties
<1>6. PICK u : u = SubSeq(s, m, b)
  OBVIOUS
<1>7. u \in Seq(S) /\ Len(u) = b - a /\ \A i \in 1..b - a : u[i] = s[a + i]
  <2>1. b - m + 1 = b - a /\ \A i \in 1..b - a : m + i - 1 = a + i
    BY <1>1, <1>4
  <2>2. Len(u) = b - a
    BY <1>1, <1>4, <1>5, <1>6
  <2> QED BY <1>5, <1>6, <2>1, <2>2
<1> QED BY <1>4, <1>6, <1>7

LEMMA Joined ==
    ASSUME NEW S, NEW u \in Seq(S), NEW v \in Seq(S), NEW w, w = u \o v
    PROVE  /\ w \in Seq(S)
           /\ Len(w) = Len(u) + Len(v)
           /\ \A i \in 1..Len(u) : w[i] = u[i]
           /\ \A i \in 1..Len(v) : w[Len(u) + i] = v[i]
<1>1. /\ u \o v \in Seq(S)
      /\ Len(u \o v) = Len(u) + Len(v)
      /\ \A i \in 1..Len(u) + Len(v) : (u \o v)[i] =
             IF i <= Len(u) THEN u[i] ELSE v[i - Len(u)]
  BY ConcatProperties
<1>2. PICK m \in Nat, n \in Nat : m = Len(u) /\ n = Len(v)
  BY LenProperties
<1>3. \A i \in 1..m : i \in 1..m + n /\ i <= m
  OBVIOUS
<1>4. \A i \in 1..n : m + i \in 1..m + n /\ ~(m + i <= m) /\ m + i - m = i
  OBVIOUS
<1>5. \A i \in 1..m + n : w[i] = IF i <= m THEN u[i] ELSE v[i - m]
  BY <1>1, <1>2
<1>6. \A i \in 1..m : w[i] = u[i]
  BY <1>3, <1>5
<1>7. ASSUME NEW i \in 1..n PROVE w[m + i] = v[i]
  <2>1. PICK k \in 1..m + n : k = m + i /\ ~(k <= m) /\ k - m = i
    BY <1>4
  <2> QED BY <1>5, <2>1
<1> QED BY <1>1, <1>2, <1>6, <1>7

LEMMA PartsOfConcat ==
    ASSUME NEW S, NEW u \in Seq(S), NEW v \in Seq(S)
    PROVE  /\ SubSeq(u \o v, 1, Len(u)) = u
           /\ SubSeq(u \o v, Len(u) + 1, Len(u) + Len(v)) = v
<1>1. PICK m \in Nat, n \in Nat, k \in Nat :
         m = Len(u) /\ n = Len(v) /\ k = m + n
  BY LenProperties
<1>2. PICK w : w = u \o v
  OBVIOUS
<1>3. /\ w \in Seq(S) /\ Len(w) = k
      /\ \A i \in 1..m : w[i] = u[i]
      /\ \A i \in 1..n : w[m + i] = v[i]
  BY <1>1, <1>2, Joined
<1>4. SubSeq(w, 1, m) = u
  <2>1. PICK o \in 0..Len(w) : o = 0 /\ m \in o..Len(w)
    BY <1>1, <1>3
  <2>2. PICK p : p = SubSeq(w, o + 1, m)
    OBVIOUS
  <2>3. p \in Seq(S) /\ Len(p) = m - o /\ \A i \in 1..m - o : p[i] = w[o + i]
    BY <1>3, <2>1, <2>2, PartOf
  <2>4. Len(p) = Len(u) /\ \A i \in 1..Len(p) : p[i] = u[i]
    BY <1>1, <1>3, <2>1, <2>3
  <2>5. p = u
    BY <2>3, <2>4, SeqEqual
  <2>6. o + 1 = 1
    BY <2>1
  <2> QED BY <2>2, <2>5, <2>6
<1>5. SubSeq(w, m + 1, k) = v
  <2>1. m \in 0..Len(w) /\ k \in m..Len(w) /\ k - m = n
    BY <1>1, <1>3
  <2>2. PICK p : p = SubSeq(w, m + 1, k)
    OBVIOUS
  <2>3. p \in Seq(S) /\ Len(p) = k - m /\ \A i \in 1..k - m : p[i] = w[m + i]
    BY <1>3, <2>1, <2>2, PartOf
  <2>4. Len(p) = Len(v) /\ \A i \in 1..Len(p) : p[i] = v[i]
    BY <1>1, <1>3, <2>1, <2>3
  <2>5. p = v
    BY <2>3, <2>4, SeqEqual
  <2> QED BY <2>2, <2>5
<1> QED BY <1>1, <1>2, <1>4, <1>5

LEMMA PartsOfThree ==
    ASSUME NEW S, NEW u \in Seq(S), NEW v \in Seq(S), NEW w \in Seq(S),
           NEW all, all = u \o v \o w
    PROVE  /\ all \in Seq(S)
           /\ Len(all) = Len(u) + Len(v) + Len(w)
           /\ SubSeq(all, 1, Len(u)) = u
           /\ SubSeq(all, Len(u) + 1, Len(u) + Len(v)) = v
           /\ SubSeq(all, Len(u) + Len(v) + 1, Len(all)) = w
<1>1. PICK a \in Nat, b \in Nat, c \in Nat :
         a = Len(u) /\ b = Len(v) /\ c = Len(w)
  BY LenProperties
<1>2. PICK x : x = u \o v
  OBVIOUS
<1>3. PICK y : y = v \o w
  OBVIOUS
<1>4. x \in Seq(S) /\ Len(x) = a + b /\ y \in Seq(S) /\ Len(y) = b + c
  BY <1>1, <1>2, <1>3, Joined
<1>5. all = x \o w /\ all = u \o y
  <2>1. (u \o v) \o w = u \o (v \o w)
    OBVIOUS
  <2> QED BY <1>2, <1>3, <2>1
<1>6. all \in Seq(S) /\ Len(all) = a + b + c
  <2>1. x \in Seq(S) /\ all = x \o w
    BY <1>4, <1>5
  <2>2. all \in Seq(S) /\ Len(all) = Len(x) + Len(w)
    BY <2>1, Joined
  <2> QED BY <1>1, <1>4, <2>2
<1>7. SubSeq(all, 1, a) = u /\ SubSeq(all, a + b + 1, a + b + c) = w
  <2>1. SubSeq(u \o y, 1, Len(u)) = u
    BY <1>4, PartsOfConcat
  <2>2. SubSeq(x \o w, Len(x) + 1, Len(x) + Len(w)) = w
    BY <1>4, PartsOfConcat
  <2> QED BY <1>1, <1>4, <1>5, <2>1, <2>2
<1>8. SubSeq(all, a + 1, a + b) = v
  <2>1. PICK k : k = a + b
    OBVIOUS
  <2>2. PICK z : z = SubSeq(all, a + 1, k)
    OBVIOUS
  <2>3. z \in Seq(S) /\ Len(z) = b /\ \A i \in 1..b : z[i] = all[a + i]
    <3>1. a \in 0..Len(all) /\ k \in a..Len(all) /\ k - a = b
      BY <1>6, <2>1
    <3>2. /\ z \in Seq(S) /\ Len(z) = k - a
          /\ \A i \in 1..k - a : z[i] = all[a + i]
      BY <1>6, <2>2, <3>1, PartOf
    <3> QED BY <3>1, <3>2
  <2>4. \A i \in 1..b + c : all[a + i] = y[i]
    BY <1>1, <1>4, <1>5, Joined
  <2>5. \A i \in 1..b : y[i] = v[i]
    BY <1>1, <1>3, Joined
  <2>6. \A i \in 1..b : i \in 1..b + c
    OBVIOUS
  <2>7. \A i \in 1..Len(z) : z[i] = v[i]
    BY <2>3, <2>4, <2>5, <2>6
  <2>8. z = v
    BY <1>1, <2>3, <2>7, SeqEqual
  <2> QED BY <2>1, <2>2, <2>8
<1> QED BY <1>1, <1>6, <1>7, <1>8

(* Some of the lines of a text are lines.                                  *)
LEMMA SomeLines ==
    ASSUME NEW ls, AreLines(ls), NEW a \in 0..Len(ls), NEW b \in a..Len(ls)
    PROVE  /\ AreLines(SubSeq(ls, a + 1, b))
           /\ SubSeq(ls, a + 1, b) \in Seq(Seq(Chars))
           /\ Len(SubSeq(ls, a + 1, b)) = b - a
           /\ b < Len(ls) => Closed(SubSeq(ls, a + 1, b))
           /\ b > 0 /\ EndsWith(ls[b], NL) => Closed(SubSeq(ls, a + 1, b))
<1>1. PICK n \in Nat : n = Len(ls)
  BY LenProperties DEF AreLines
<1>2. ls \in Seq(Seq(Chars))
  BY DEF AreLines
<1>3. PICK m : m = SubSeq(ls, a + 1, b)
  OBVIOUS
<1>4. /\ m \in Seq(Seq(Chars)) /\ Len(m) = b - a
      /\ \A i \in 1..b - a : m[i] = ls[a + i]
  BY <1>2, <1>3, PartOf
<1>5. \A i \in 1..b - a : a + i \in 1..n
  BY <1>1
<1>6. \A i \in 1..b - a - 1 : i \in 1..b - a /\ a + i \in 1..n - 1
  BY <1>1
<1> HIDE DEF IsLine, EndsWith
<1>7. \A i \in 1..Len(m) : IsLine(m[i])
  BY <1>1, <1>4, <1>5 DEF AreLines
<1>8. \A i \in 1..Len(m) - 1 : EndsWith(m[i], NL)
  BY <1>1, <1>4, <1>6 DEF AreLines
<1>9. AreLines(m)
  BY <1>4, <1>7, <1>8 DEF AreLines
<1>10. ASSUME m # <<>> PROVE b > 0 /\ Last(m) = ls[b]
  <2>1. PICK k \in Nat \ {0} : k = Len(m)
    BY <1>4, <1>10, EmptySeq
  <2>2. k \in 1..b - a /\ a + k = b
    BY <1>4, <2>1
  <2> QED BY <1>4, <2>1, <2>2 DEF Last
<1>11. ASSUME b < n, b > 0 PROVE EndsWith(ls[b], NL)
  <2>1. b \in 1..n - 1
    BY <1>1, <1>11
  <2> QED BY <1>1, <2>1 DEF AreLines
<1>12. b > 0 /\ EndsWith(ls[b], NL) => Closed(m)
  BY <1>10 DEF Closed
<1>13. b < n => Closed(m)
  BY <1>10, <1>11, <1>12 DEF Closed
<1> QED BY <1>1, <1>3, <1>4, <1>9, <1>12, <1>13

LEMMA JoinedLines ==
    ASSUME NEW u, AreLines(u), NEW v, AreLines(v), Closed(u) \/ v = <<>>
    PROVE  AreLines(u \o v)
<1>1. u \in Seq(Seq(Chars)) /\ v \in Seq(Seq(Chars))
  BY DEF AreLines
<1>2. PICK m \in Nat, n \in Nat : m = Len(u) /\ n = Len(v)
  BY <1>1, LenProperties
<1>3. PICK w : w = u \o v
  OBVIOUS
<1>4. /\ w \in Seq(Seq(Chars)) /\ Len(w) = m + n
      /\ \A i \in 1..m : w[i] = u[i]
      /\ \A i \in 1..n : w[m + i] = v[i]
  BY <1>1, <1>2, <1>3, Joined
<1>5. n > 0 /\ m > 0 => EndsWith(u[m], NL)
  <2>1. n > 0 => v # <<>>
    BY <1>2
  <2>2. m > 0 => u # <<>>
    BY <1>2
  <2> HIDE DEF EndsWith
  <2> QED BY <1>2, <2>1, <2>2 DEF Closed, Last
<1> HIDE DEF IsLine, EndsWith
<1>6. /\ \A i \in 1..m : IsLine(u[i])
      /\ \A i \in 1..m - 1 : EndsWith(u[i], NL)
      /\ \A i \in 1..n : IsLine(v[i])
      /\ \A i \in 1..n - 1 : EndsWith(v[i], NL)
  BY <1>2 DEF AreLines
<1>7. ASSUME NEW i \in 1..m + n
      PROVE  IsLine(w[i]) /\ (i < m + n => EndsWith(w[i], NL))
  <2>1. CASE i < m
    <3>1. i \in 1..m /\ i \in 1..m - 1
      BY <2>1
    <3> QED BY <1>4, <1>6, <3>1
  <2>2. CASE i = m
    <3>1. m \in 1..m /\ m > 0 /\ (i < m + n => n > 0)
      BY <2>2
    <3> QED BY <1>4, <1>5, <1>6, <2>2, <3>1
  <2>3. CASE i > m
    <3>1. PICK j \in 1..n : m + j = i /\ (i < m + n => j \in 1..n - 1)
      <4>1. i - m \in 1..n /\ m + (i - m) = i /\ (i < m + n => i - m \in 1..n - 1)
        BY <2>3
      <4> QED BY <4>1
    <3> QED BY <1>4, <1>6, <3>1
  <2> QED BY <2>1, <2>2, <2>3
<1>8. \A i \in 1..Len(w) - 1 : i \in 1..m + n /\ i < m + n
  BY <1>4
<1> QED BY <1>3, <1>4, <1>7, <1>8 DEF AreLines

(* The lines of a text are closed if the text is.                          *)
LEMMA EndOfLines ==
    ASSUME NEW t \in Seq(Chars), t # <<>>
    PROVE  /\ SplitLines(t) # <<>>
           /\ EndsWith(t, NL) <=> EndsWith(Last(SplitLines(t)), NL)
<1>1. PICK u \in Seq(Chars), c \in Chars : t = Append(u, c)
  BY SequenceEmptyOrAppend
<1>2. PICK ls : /\ ls = SplitLines(u) /\ ls \in Seq(Seq(Chars))
  BY SplitGivesLines DEF AreLines
<1>3. SplitLines(t) = WithChar(ls, c)
  BY <1>1, <1>2, SplitAppend
<1>4. EndsWith(t, NL) <=> c = NL
  BY <1>1, FrontOfAppend DEF EndsWith
<1>5. CASE ls = <<>> \/ EndsWith(Last(ls), NL)
  <2>1. PICK one : one = <<c>> /\ one \in Seq(Chars)
    BY OneCharacter
  <2>2. WithChar(ls, c) = Append(ls, one)
    BY <1>5, <2>1 DEF WithChar
  <2>3. Append(ls, one) # <<>> /\ Last(Append(ls, one)) = one
    <3>1. PICK k \in Seq(Seq(Chars)) : k = Append(ls, one) /\ k # <<>>
      <4>1. ls \in Seq(Seq(Chars)) /\ one \in Seq(Chars)
        BY <1>2, <2>1
      <4> QED BY <4>1, AppendProperties
    <3>2. Last(Append(ls, one)) = one
      BY <1>2, <2>1, FrontOfAppend
    <3> QED BY <3>1, <3>2
  <2>4. EndsWith(one, NL) <=> c = NL
    BY <2>1 DEF EndsWith, Last
  <2> QED BY <1>3, <1>4, <2>2, <2>3, <2>4
<1>6. CASE ~(ls = <<>> \/ EndsWith(Last(ls), NL))
  <2>1. PICK f, l : /\ f = Front(ls) /\ l = Last(ls)
                    /\ f \in Seq(Seq(Chars)) /\ l \in Seq(Chars)
    BY <1>2, <1>6, FrontAndLast
  <2>2. PICK m \in Seq(Chars) : m = Append(l, c) /\ m # <<>>
    BY <2>1, AppendProperties
  <2>3. Last(m) = c
    BY <2>1, <2>2, FrontOfAppend
  <2>4. WithChar(ls, c) = Append(f, m)
    BY <1>6, <2>1, <2>2 DEF WithChar
  <2>5. Append(f, m) # <<>> /\ Last(Append(f, m)) = m
    <3>1. PICK k \in Seq(Seq(Chars)) : k = Append(f, m) /\ k # <<>>
      <4>1. f \in Seq(Seq(Chars)) /\ m \in Seq(Chars)
        BY <2>1, <2>2
      <4> QED BY <4>1, AppendProperties
    <3>2. Last(Append(f, m)) = m
      BY <2>1, <2>2, FrontOfAppend
    <3> QED BY <3>1, <3>2
  <2>6. EndsWith(m, NL) <=> c = NL
    BY <2>2, <2>3 DEF EndsWith
  <2> QED BY <1>3, <1>4, <2>4, <2>5, <2>6
<1> QED BY <1>5, <1>6

(* The line feed that completes a text gives it no further line.           *)
LEMMA CompletedLines ==
    ASSUME NEW t \in Seq(Chars), t # <<>>, ~EndsWith(t, NL)
    PROVE  /\ Len(SplitLines(Append(t, NL))) = Len(SplitLines(t))
           /\ Closed(SplitLines(Append(t, NL)))
<1>1. PICK ls \in Seq(Seq(Chars)) : ls = SplitLines(t)
  BY SplitGivesLines DEF AreLines
<1>2. ls # <<>> /\ ~EndsWith(Last(ls), NL)
  BY <1>1, EndOfLines
<1>3. PICK f, l : /\ f = Front(ls) /\ l = Last(ls)
                  /\ f \in Seq(Seq(Chars)) /\ l \in Seq(Chars)
  BY <1>2, FrontAndLast
<1>4. NL \in Chars
  BY CharsAssumption
<1>5. PICK m \in Seq(Chars) : m = Append(l, NL) /\ m # <<>>
  BY <1>3, <1>4, AppendProperties
<1>6. SplitLines(Append(t, NL)) = Append(f, m)
  <2>1. SplitLines(Append(t, NL)) = WithChar(ls, NL)
    BY <1>1, <1>4, SplitAppend
  <2> QED BY <1>2, <1>3, <1>5, <2>1 DEF WithChar
<1>7. Len(Append(f, m)) = Len(ls)
  <2>1. Len(ls) \in Nat /\ Len(f) = Len(ls) - 1
    BY <1>2, <1>3, FrontAndLast
  <2>2. Len(Append(f, m)) = Len(f) + 1
    BY <1>3, <1>5, AppendProperties
  <2> QED BY <2>1, <2>2
<1>8. Closed(Append(f, m))
  <2>1. Last(Append(f, m)) = m
    BY <1>3, <1>5, FrontOfAppend
  <2>2. Last(m) = NL
    BY <1>3, <1>4, <1>5, FrontOfAppend
  <2>3. EndsWith(m, NL)
    BY <1>5, <2>2 DEF EndsWith
  <2> QED BY <2>1, <2>3 DEF Closed
<1> QED BY <1>1, <1>6, <1>7, <1>8

(* What a line edit puts between the lines that stay: the new text, and    *)
(* the line feed it may need.                                              *)
LEMMA NewLines ==
    ASSUME NEW new \in Seq(Chars), NEW last \in BOOLEAN
    PROVE  LET break == IF new # <<>> /\ ~EndsWith(new, NL) /\ ~last
                        THEN <<NL>> ELSE <<>>
           IN  \E ms \in Seq(Seq(Chars)) :
                  /\ AreLines(ms) /\ (last \/ Closed(ms))
                  /\ Len(ms) = Len(SplitLines(new))
                  /\ FlattenSeq(ms) = new \o break
                  /\ IsPrefix(new, FlattenSeq(ms))
<1>1. /\ AreLines(SplitLines(new)) /\ FlattenSeq(SplitLines(new)) = new
      /\ SplitLines(new) \in Seq(Seq(Chars))
  BY SplitGivesLines DEF AreLines
<1>2. CASE new # <<>> /\ ~EndsWith(new, NL) /\ ~last
  <2>1. PICK t : t = Append(new, NL)
    OBVIOUS
  <2>2. t \in Seq(Chars) /\ t = new \o <<NL>>
    BY <2>1, CharsAssumption, AppendProperties, OneCharacter
  <2>3. AreLines(SplitLines(t)) /\ FlattenSeq(SplitLines(t)) = t
    BY <2>2, SplitGivesLines
  <2>4. Len(SplitLines(t)) = Len(SplitLines(new)) /\ Closed(SplitLines(t))
    BY <1>2, <2>1, CompletedLines
  <2>5. IsPrefix(new, t)
    <3>1. PICK n \in Nat : n = Len(new)
      BY LenProperties
    <3>2. NL \in Chars
      BY CharsAssumption
    <3>3. PICK one : one = <<NL>> /\ one \in Seq(Chars)
      BY <3>2, OneCharacter
    <3>4. Len(t) = n + Len(one) /\ Len(one) \in Nat
      BY <2>2, <3>1, <3>3, Joined, LenProperties
    <3>5. SubSeq(t, 1, n) = new
      BY <2>2, <3>1, <3>3, PartsOfConcat
    <3>6. SubSeq(new, 1, n) = new
      BY <3>1, SubSeqFull
    <3> QED BY <3>1, <3>4, <3>5, <3>6 DEF IsPrefix
  <2> QED BY <1>2, <2>2, <2>3, <2>4, <2>5 DEF AreLines
<1>3. CASE ~(new # <<>> /\ ~EndsWith(new, NL) /\ ~last)
  <2>1. last \/ Closed(SplitLines(new))
    <3>1. CASE new = <<>>
      BY <3>1, SplitNone DEF Closed
    <3>2. CASE new # <<>> /\ EndsWith(new, NL)
      BY <3>2, EndOfLines DEF Closed
    <3> QED BY <1>3, <3>1, <3>2
  <2>2. new \o <<>> = new
    BY ConcatEmptySeq
  <2>3. IsPrefix(new, new)
    BY LenProperties DEF IsPrefix
  <2> QED BY <1>1, <1>3, <2>1, <2>2, <2>3
<1> QED BY <1>2, <1>3

(* now has the lines up to from, those of new, and the lines after to.     *)
KeepsLines(now, ls, from, to, new) ==
    LET added == Len(SplitLines(new))
    IN  /\ Len(now) = from + added + Len(ls) - to
        /\ SubSeq(now, 1, from) = SubSeq(ls, 1, from)
        /\ SubSeq(now, from + added + 1, Len(now)) = SubSeq(ls, to + 1, Len(ls))
        /\ IsPrefix(new, FlattenSeq(SubSeq(now, from + 1, from + added)))

LEMMA SplicedLines ==
    ASSUME NEW ls, AreLines(ls), NEW from \in 0..Len(ls), NEW to \in from..Len(ls),
           NEW new \in Seq(Chars),
           from < Len(ls) \/ from = 0 \/ EndsWith(ls[from], NL)
    PROVE  /\ Spliced(ls, from, to, new) \in Seq(Chars)
           /\ KeepsLines(SplitLines(Spliced(ls, from, to, new)), ls, from, to, new)
<1>1. PICK n \in Nat : n = Len(ls) /\ from \in Nat /\ to \in Nat
  BY LenProperties DEF AreLines
<1>2. ls \in Seq(Seq(Chars))
  BY DEF AreLines
<1>3. PICK a : a = SubSeq(ls, 1, from)
  OBVIOUS
<1>4. PICK c : c = SubSeq(ls, to + 1, n)
  OBVIOUS
<1>5. AreLines(a) /\ a \in Seq(Seq(Chars)) /\ Len(a) = from /\ Closed(a)
  <2>1. PICK o \in 0..Len(ls) : o = 0 /\ o + 1 = 1 /\ from \in o..Len(ls)
    BY <1>1
  <2>2. /\ AreLines(SubSeq(ls, o + 1, from))
        /\ SubSeq(ls, o + 1, from) \in Seq(Seq(Chars))
        /\ Len(SubSeq(ls, o + 1, from)) = from - o
        /\ from < Len(ls) => Closed(SubSeq(ls, o + 1, from))
        /\ from > 0 /\ EndsWith(ls[from], NL) => Closed(SubSeq(ls, o + 1, from))
    BY <2>1, SomeLines
  <2>3. Len(a) = from
    BY <1>1, <1>3, <2>1, <2>2
  <2>4. from = 0 => a = <<>>
    BY <1>3, <2>2, <2>1, <2>3, EmptySeq
  <2>5. Closed(a)
    <3>1. CASE from = 0
      BY <2>4, <3>1 DEF Closed
    <3>2. CASE from > 0
      BY <1>3, <2>1, <2>2, <3>2
    <3> QED BY <1>1, <3>1, <3>2
  <2> QED BY <1>3, <2>1, <2>2, <2>3, <2>5
<1>6. AreLines(c) /\ c \in Seq(Seq(Chars)) /\ Len(c) = n - to
  <2>1. to \in 0..Len(ls) /\ n \in to..Len(ls)
    BY <1>1
  <2> QED BY <1>4, <2>1, SomeLines
<1>7. PICK last \in BOOLEAN : last <=> ~(to < n)
  OBVIOUS
<1>8. last => c = <<>>
  <2>1. last => n - to = 0
    BY <1>1, <1>7
  <2> QED BY <1>6, <2>1, EmptySeq
<1>9. PICK break : break = IF new # <<>> /\ ~EndsWith(new, NL) /\ ~last
                           THEN <<NL>> ELSE <<>>
  OBVIOUS
<1>10. PICK ms \in Seq(Seq(Chars)) :
          /\ AreLines(ms) /\ (last \/ Closed(ms))
          /\ Len(ms) = Len(SplitLines(new))
          /\ FlattenSeq(ms) = new \o break
          /\ IsPrefix(new, FlattenSeq(ms))
  BY <1>9, NewLines
<1>11. Spliced(ls, from, to, new)
         = FlattenSeq(a) \o new \o break \o FlattenSeq(c)
  BY <1>1, <1>3, <1>4, <1>7, <1>9 DEF Spliced
<1>12. PICK x : x = a \o ms
  OBVIOUS
<1>13. AreLines(x) /\ x \in Seq(Seq(Chars)) /\ (last \/ Closed(x))
  <2>1. AreLines(x) /\ x \in Seq(Seq(Chars))
    BY <1>5, <1>10, <1>12, JoinedLines DEF AreLines
  <2>2. ASSUME Closed(ms) PROVE Closed(x)
    <3>1. CASE ms = <<>>
      <4>1. x = a
        BY <1>5, <1>12, <3>1, ConcatEmptySeq
      <4> QED BY <1>5, <4>1
    <3>2. CASE ms # <<>>
      <4>1. PICK j \in Nat, k \in Nat \ {0} : j = Len(a) /\ k = Len(ms)
        BY <1>5, <3>2, EmptySeq, LenProperties
      <4>2. Len(x) = j + k /\ \A i \in 1..k : x[j + i] = ms[i]
        <5>1. a \in Seq(Seq(Chars)) /\ ms \in Seq(Seq(Chars))
          BY <1>5
        <5>2. /\ Len(x) = Len(a) + Len(ms)
              /\ \A i \in 1..Len(ms) : x[Len(a) + i] = ms[i]
          BY <1>12, <5>1, Joined
        <5> QED BY <4>1, <5>2
      <4>3. Last(x) = Last(ms)
        <5>1. k \in 1..k
          BY <4>1
        <5>2. x[j + k] = ms[k]
          BY <4>2, <5>1
        <5>3. Last(x) = x[j + k] /\ Last(ms) = ms[k]
          BY <4>1, <4>2 DEF Last
        <5> QED BY <5>2, <5>3
      <4> QED BY <2>2, <3>2, <4>3 DEF Closed
    <3> QED BY <3>1, <3>2
  <2> QED BY <1>10, <2>1, <2>2
<1>14. PICK now : now = x \o c
  OBVIOUS
<1>15. AreLines(now)
  BY <1>6, <1>8, <1>13, <1>14, JoinedLines
<1>16. FlattenSeq(now) = Spliced(ls, from, to, new)
  <2>1. FlattenSeq(now) = FlattenSeq(x) \o FlattenSeq(c)
    BY <1>6, <1>13, <1>14, FlattenConcat
  <2>2. FlattenSeq(x) = FlattenSeq(a) \o FlattenSeq(ms)
    BY <1>5, <1>12, FlattenConcat
  <2>3. PICK p \in Seq(Chars) : p = FlattenSeq(a)
    BY <1>5, FlattenType
  <2>4. break \in Seq(Chars)
    <3>1. <<NL>> \in Seq(Chars) /\ <<>> \in Seq(Chars)
      BY CharsAssumption, OneCharacter, EmptySeq
    <3> QED BY <1>9, <3>1
  <2>5. p \o (new \o break) = p \o new \o break
    BY SMTT(30)
  <2> QED BY <1>10, <1>11, <2>1, <2>2, <2>3, <2>5
<1>17. /\ SplitLines(Spliced(ls, from, to, new)) = now
       /\ Spliced(ls, from, to, new) \in Seq(Chars)
  BY <1>15, <1>16, LinesAreSplit, FlattenType DEF AreLines
<1>18. PICK added \in Nat : added = Len(ms)
  BY LenProperties
<1>19. /\ Len(now) = Len(a) + Len(ms) + Len(c)
       /\ SubSeq(now, 1, Len(a)) = a
       /\ SubSeq(now, Len(a) + 1, Len(a) + Len(ms)) = ms
       /\ SubSeq(now, Len(a) + Len(ms) + 1, Len(now)) = c
  <2>1. now = a \o ms \o c
    BY <1>12, <1>14
  <2>2. PICK U : U = Seq(Chars)
    OBVIOUS
  <2>3. a \in Seq(U) /\ ms \in Seq(U) /\ c \in Seq(U)
    BY <1>5, <1>6, <2>2
  <2> QED BY SMTT(30), <2>1, <2>3, PartsOfThree
<1>20. Len(now) = from + added + n - to
  BY <1>1, <1>5, <1>6, <1>18, <1>19
<1>21. KeepsLines(now, ls, from, to, new)
  BY <1>1, <1>3, <1>4, <1>5, <1>10, <1>18, <1>19, <1>20 DEF KeepsLines
<1> QED BY <1>17, <1>21

-----------------------------------------------------------------------------
(* Positions.                                                              *)

LEMMA FeedsType ==
    ASSUME NEW t \in Seq(Chars)
    PROVE  LineFeeds(t) \in Nat
<1>1. PICK n \in Nat : DOMAIN t = 1..n
  BY LenProperties
<1>2. PICK F : F = {i \in DOMAIN t : t[i] = NL}
  OBVIOUS
<1>3. F \in SUBSET (1..n) /\ IsFiniteSet(1..n)
  BY <1>1, <1>2, FS_Interval
<1>4. IsFiniteSet(F)
  BY <1>3, FS_Subset
<1> QED BY <1>2, <1>4, FS_CardinalityType DEF LineFeeds

LEMMA FeedsAppend ==
    ASSUME NEW t \in Seq(Chars), NEW c \in Chars
    PROVE  LineFeeds(Append(t, c)) = LineFeeds(t) + (IF c = NL THEN 1 ELSE 0)
<1>1. PICK n \in Nat : n = Len(t) /\ DOMAIN t = 1..n
  BY LenProperties
<1>2. PICK u \in Seq(Chars) : u = Append(t, c)
  BY AppendProperties
<1>3. /\ DOMAIN u = 1..(n + 1) /\ u[n + 1] = c
      /\ \A i \in 1..n : u[i] = t[i]
  BY <1>1, <1>2, AppendProperties, LenProperties
<1>4. PICK F : F = {i \in DOMAIN t : t[i] = NL}
  OBVIOUS
<1>5. PICK G : G = {i \in DOMAIN u : u[i] = NL}
  OBVIOUS
<1>6. F \in SUBSET (1..n) /\ IsFiniteSet(1..n) /\ n + 1 \notin F
  <2>1. \A i \in F : i \in 1..n
    BY <1>1, <1>4
  <2>2. n + 1 \notin 1..n
    OBVIOUS
  <2>3. IsFiniteSet(1..n)
    BY FS_Interval
  <2> QED BY <2>1, <2>2, <2>3
<1>7. IsFiniteSet(F) /\ Cardinality(F) \in Nat
  BY <1>6, FS_Subset, FS_CardinalityType
<1>8. \A i : i \in 1..(n + 1) <=> i \in 1..n \/ i = n + 1
  OBVIOUS
<1>9. CASE c = NL
  <2>1. G = F \cup {n + 1}
    BY <1>1, <1>3, <1>4, <1>5, <1>8, <1>9
  <2>2. Cardinality(G) = Cardinality(F) + 1
    BY <1>6, <1>7, <2>1, FS_AddElement
  <2> QED BY <1>2, <1>4, <1>5, <1>9, <2>2 DEF LineFeeds
<1>10. CASE c # NL
  <2>1. G = F
    BY <1>1, <1>3, <1>4, <1>5, <1>8, <1>10
  <2>2. LineFeeds(t) = Cardinality(F) /\ LineFeeds(u) = Cardinality(G)
    BY <1>4, <1>5 DEF LineFeeds
  <2> QED BY <1>2, <1>7, <1>10, <2>1, <2>2
<1> QED BY <1>9, <1>10

LEMMA FeedsNone == LineFeeds(<<>>) = 0
<1>1. {i \in DOMAIN <<>> : <<>>[i] = NL} = {}
  OBVIOUS
<1> QED BY <1>1, FS_EmptySet DEF LineFeeds

(* How the lines end when there is one character more.                     *)
LEMMA WithCharCounts ==
    ASSUME NEW ls \in Seq(Seq(Chars)), NEW c \in Chars
    PROVE  /\ Len(WithChar(ls, c)) = IF Closed(ls) THEN Len(ls) + 1 ELSE Len(ls)
           /\ Closed(WithChar(ls, c)) <=> c = NL
           /\ ~Closed(ls) => Len(ls) \in Nat \ {0}
<1>1. CASE Closed(ls)
  <2>1. PICK one : one = <<c>> /\ one \in Seq(Chars)
    BY OneCharacter
  <2>2. WithChar(ls, c) = Append(ls, one)
    BY <1>1, <2>1 DEF WithChar, Closed
  <2>3. Last(Append(ls, one)) = one
    BY <2>1, FrontOfAppend
  <2>4. PICK ms \in Seq(Seq(Chars)) :
           ms = Append(ls, one) /\ ms # <<>> /\ Len(ms) = Len(ls) + 1
    BY <2>1, AppendProperties
  <2>5. EndsWith(one, NL) <=> c = NL
    BY <2>1 DEF EndsWith, Last
  <2>6. Closed(ms) <=> EndsWith(one, NL)
    BY <2>3, <2>4 DEF Closed
  <2> QED BY <1>1, <2>2, <2>4, <2>5, <2>6
<1>2. CASE ~Closed(ls)
  <2>1. ls # <<>> /\ ~EndsWith(Last(ls), NL)
    BY <1>2 DEF Closed
  <2>2. PICK f, l : /\ f = Front(ls) /\ l = Last(ls)
                    /\ f \in Seq(Seq(Chars)) /\ l \in Seq(Chars)
                    /\ Len(ls) \in Nat \ {0} /\ Len(f) = Len(ls) - 1
    BY <2>1, FrontAndLast
  <2>3. PICK m \in Seq(Chars) : m = Append(l, c) /\ m # <<>>
    BY <2>2, AppendProperties
  <2>4. WithChar(ls, c) = Append(f, m)
    BY <2>1, <2>2, <2>3 DEF WithChar
  <2>5. PICK ms \in Seq(Seq(Chars)) :
           ms = Append(f, m) /\ ms # <<>> /\ Len(ms) = Len(f) + 1
    <3>1. f \in Seq(Seq(Chars)) /\ m \in Seq(Chars)
      BY <2>2
    <3> QED BY <3>1, AppendProperties
  <2>6. Last(ms) = m
    BY <2>2, <2>3, <2>5, FrontOfAppend
  <2>7. Last(m) = c
    BY <2>2, <2>3, FrontOfAppend
  <2>8. EndsWith(m, NL) <=> c = NL
    BY <2>3, <2>7 DEF EndsWith
  <2>9. Closed(ms) <=> c = NL
    BY <2>5, <2>6, <2>8 DEF Closed
  <2> QED BY <1>2, <2>2, <2>4, <2>5, <2>9
<1> QED BY <1>1, <1>2

(* A text has a line feed for each of its lines but an open one.           *)
LEMMA FeedsOfLines ==
    ASSUME NEW t \in Seq(Chars)
    PROVE  /\ Len(SplitLines(t)) \in Nat
           /\ LineFeeds(t) = IF Closed(SplitLines(t)) THEN Len(SplitLines(t))
                                                      ELSE Len(SplitLines(t)) - 1
<1> DEFINE T == {u \in Seq(Chars) :
                   LineFeeds(u) = IF Closed(SplitLines(u)) THEN Len(SplitLines(u))
                                  ELSE Len(SplitLines(u)) - 1}
<1>1. <<>> \in T
  <2>1. PICK none : none = <<>> /\ none \in Seq(Chars) /\ Len(none) = 0
    BY EmptySeq
  <2>2. Closed(none)
    BY <2>1 DEF Closed
  <2> QED BY <2>1, <2>2, SplitNone, FeedsNone
<1>2. ASSUME NEW s \in Seq(Chars), NEW e \in Chars, s \in T
      PROVE  Append(s, e) \in T
  <2>1. PICK ls \in Seq(Seq(Chars)) : ls = SplitLines(s)
    BY SplitGivesLines DEF AreLines
  <2>2. SplitLines(Append(s, e)) = WithChar(ls, e)
    BY <2>1, SplitAppend
  <2>3. PICK n \in Nat : n = Len(ls)
    BY LenProperties
  <2>4. LineFeeds(s) = IF Closed(ls) THEN n ELSE n - 1
    BY <1>2, <2>1, <2>3
  <2>5. /\ Len(WithChar(ls, e)) = IF Closed(ls) THEN n + 1 ELSE n
        /\ Closed(WithChar(ls, e)) <=> e = NL
        /\ ~Closed(ls) => n \in Nat \ {0}
    BY <2>3, WithCharCounts
  <2>6. LineFeeds(Append(s, e)) = LineFeeds(s) + (IF e = NL THEN 1 ELSE 0)
    BY FeedsAppend
  <2>7. LineFeeds(Append(s, e)) = IF Closed(WithChar(ls, e))
                                  THEN Len(WithChar(ls, e))
                                  ELSE Len(WithChar(ls, e)) - 1
    BY <2>4, <2>5, <2>6
  <2> QED BY <2>2, <2>7, AppendProperties
<1> HIDE DEF T
<1>3. Seq(Chars) \subseteq T
  BY <1>1, <1>2, SequenceInduction
<1>4. Len(SplitLines(t)) \in Nat
  BY SplitGivesLines, LenProperties DEF AreLines
<1> QED BY <1>3, <1>4 DEF T

(* The first l lines, put together, and how long they are.                 *)
Prefix(ls, l) == FlattenSeq(SubSeq(ls, 1, l))
Base(ls, l) == Len(Prefix(ls, l))

LEMMA PrefixOfText ==
    ASSUME NEW t \in Seq(Chars), NEW ls, ls = SplitLines(t), NEW l \in 0..Len(ls)
    PROVE  /\ Prefix(ls, l) \in Seq(Chars) /\ Base(ls, l) \in 0..Len(t)
           /\ SubSeq(t, 1, Base(ls, l)) = Prefix(ls, l)
           /\ \A i \in 1..Base(ls, l) : t[i] = Prefix(ls, l)[i]
           /\ SubSeq(ls, 1, l) \in Seq(Seq(Chars)) /\ AreLines(SubSeq(ls, 1, l))
           /\ Len(SubSeq(ls, 1, l)) = l
           /\ l = 0 => Base(ls, l) = 0
           /\ l = Len(ls) => Base(ls, l) = Len(t)
<1>1. AreLines(ls) /\ FlattenSeq(ls) = t /\ ls \in Seq(Seq(Chars))
  BY SplitGivesLines DEF AreLines
<1>2. PICK n \in Nat : n = Len(ls) /\ l \in 0..n
  BY <1>1, LenProperties
<1>3. PICK a : a = SubSeq(ls, 1, l)
  OBVIOUS
<1>4. PICK b : b = SubSeq(ls, l + 1, n)
  OBVIOUS
<1>5. AreLines(a) /\ a \in Seq(Seq(Chars)) /\ Len(a) = l
  <2>1. PICK o \in 0..Len(ls) : o = 0 /\ o + 1 = 1 /\ l \in o..Len(ls)
    BY <1>2
  <2>2. /\ AreLines(SubSeq(ls, o + 1, l))
        /\ SubSeq(ls, o + 1, l) \in Seq(Seq(Chars))
        /\ Len(SubSeq(ls, o + 1, l)) = l - o
    BY <1>1, <2>1, SomeLines
  <2> QED BY <1>2, <1>3, <2>1, <2>2
<1>6. b \in Seq(Seq(Chars)) /\ Len(b) = n - l
  <2>1. l \in 0..Len(ls) /\ n \in l..Len(ls)
    BY <1>2
  <2> QED BY <1>1, <1>4, <2>1, PartOf
<1>7. a \o b = ls
  <2>1. PICK c : c = a \o b
    OBVIOUS
  <2>2. /\ c \in Seq(Seq(Chars)) /\ Len(c) = Len(a) + Len(b)
        /\ \A i \in 1..Len(a) : c[i] = a[i]
        /\ \A i \in 1..Len(b) : c[Len(a) + i] = b[i]
    <3>1. PICK U : U = Seq(Chars)
      OBVIOUS
    <3>2. a \in Seq(U) /\ b \in Seq(U)
      BY <1>5, <1>6, <3>1
    <3>3. c \in Seq(U) /\ Len(c) = Len(a) + Len(b)
      BY <2>1, <3>2, Joined
    <3>4. /\ \A i \in 1..Len(a) : c[i] = a[i]
          /\ \A i \in 1..Len(b) : c[Len(a) + i] = b[i]
      BY <2>1, <3>2, Joined
    <3> QED BY <3>1, <3>3, <3>4
  <2>3. Len(c) = n
    BY <1>2, <1>5, <1>6, <2>2
  <2>4. ASSUME NEW i \in 1..n PROVE c[i] = ls[i]
    <3>1. CASE i <= l
      <4>1. PICK o \in 0..Len(ls) : o = 0 /\ o + 1 = 1 /\ l \in o..Len(ls)
        BY <1>2
      <4>2. \A j \in 1..l - o : SubSeq(ls, o + 1, l)[j] = ls[o + j]
        BY <1>1, <4>1, PartOf
      <4>3. i \in 1..l - o /\ o + i = i /\ i \in 1..Len(a)
        BY <1>2, <1>5, <3>1, <4>1
      <4> QED BY <1>3, <2>2, <4>1, <4>2, <4>3
    <3>2. CASE i > l
      <4>1. l \in 0..Len(ls) /\ n \in l..Len(ls)
        BY <1>2
      <4>2. \A j \in 1..n - l : SubSeq(ls, l + 1, n)[j] = ls[l + j]
        BY <1>1, <4>1, PartOf
      <4>3. PICK j \in 1..n - l : l + j = i
        <5>1. i - l \in 1..n - l /\ l + (i - l) = i
          BY <1>2, <3>2
        <5> QED BY <5>1
      <4> QED BY <1>4, <1>5, <1>6, <2>2, <4>2, <4>3
    <3> QED BY <1>2, <3>1, <3>2
  <2>5. c = ls
    BY <1>1, <1>2, <2>2, <2>3, <2>4, SeqEqual
  <2> QED BY <2>1, <2>5
<1>8. PICK p \in Seq(Chars), q \in Seq(Chars) :
         p = FlattenSeq(a) /\ q = FlattenSeq(b)
  BY <1>5, <1>6, FlattenType
<1>9. t = p \o q
  BY <1>1, <1>5, <1>6, <1>7, <1>8, FlattenConcat
<1>10. Prefix(ls, l) = p /\ Base(ls, l) = Len(p)
  BY <1>3, <1>8 DEF Prefix, Base
<1>11. /\ Len(t) = Len(p) + Len(q) /\ Len(p) \in Nat /\ Len(q) \in Nat
       /\ \A i \in 1..Len(p) : t[i] = p[i]
  BY <1>9, Joined, LenProperties
<1>12. SubSeq(t, 1, Len(p)) = p
  BY <1>9, PartsOfConcat
<1>13. l = 0 => Len(p) = 0
  <2>1. l = 0 => a = <<>>
    BY <1>5, EmptySeq
  <2>2. l = 0 => p = <<>>
    BY <1>8, <2>1, FlattenNone
  <2> QED BY <2>2, EmptySeq
<1>14. l = n => Len(p) = Len(t)
  <2>1. l = n => Len(b) = 0
    BY <1>2, <1>6
  <2>2. l = n => b = <<>>
    BY <1>6, <2>1, EmptySeq
  <2>3. l = n => q = <<>>
    BY <1>8, <2>2, FlattenNone
  <2>4. l = n => Len(q) = 0
    BY <2>3, EmptySeq
  <2> QED BY <1>11, <2>4
<1> QED BY <1>2, <1>3, <1>5, <1>10, <1>11, <1>12, <1>13, <1>14

(* Where a line is in its text.                                            *)
LEMMA LinePlace ==
    ASSUME NEW t \in Seq(Chars), NEW ls, ls = SplitLines(t),
           NEW l \in 0..Len(ls) - 1
    PROVE  /\ Base(ls, l) \in Nat /\ ls[l + 1] \in Seq(Chars)
           /\ Base(ls, l + 1) = Base(ls, l) + Len(ls[l + 1])
           /\ Base(ls, l) + Len(ls[l + 1]) <= Len(t)
           /\ \A j \in 1..Len(ls[l + 1]) : t[Base(ls, l) + j] = ls[l + 1][j]
           /\ IsLine(ls[l + 1])
           /\ l + 1 < Len(ls) => EndsWith(ls[l + 1], NL)
<1>1. AreLines(ls) /\ ls \in Seq(Seq(Chars))
  BY SplitGivesLines DEF AreLines
<1>2. PICK n \in Nat, m \in Nat : n = Len(ls) /\ m = l + 1 /\ l \in 0..n /\ m \in 1..n
  BY <1>1, LenProperties
<1>3. /\ Prefix(ls, l) \in Seq(Chars) /\ Base(ls, l) \in 0..Len(t)
      /\ SubSeq(ls, 1, l) \in Seq(Seq(Chars))
  BY <1>2, PrefixOfText
<1>4. /\ Prefix(ls, m) \in Seq(Chars) /\ Base(ls, m) \in 0..Len(t)
      /\ \A i \in 1..Base(ls, m) : t[i] = Prefix(ls, m)[i]
  <2>1. m \in 0..Len(ls)
    BY <1>2
  <2> QED BY <2>1, PrefixOfText
<1>5. ls[m] \in Seq(Chars)
  BY <1>1, <1>2, ElementOfSeq
<1>6. SubSeq(ls, 1, m) = Append(SubSeq(ls, 1, l), ls[m])
  <2>1. 1 \in 1..Len(ls) /\ m \in 1..Len(ls) /\ m - 1 = l
    BY <1>2
  <2>2. SubSeq(ls, 1, m) = SubSeq(ls, 1, m - 1) \o <<ls[m]>>
    BY <1>1, <2>1, SubSeqRecursiveSecond
  <2>3. Append(SubSeq(ls, 1, l), ls[m]) = SubSeq(ls, 1, l) \o <<ls[m]>>
    BY <1>3, <1>5, AppendIsConcat
  <2> QED BY <2>1, <2>2, <2>3
<1>7. Prefix(ls, m) = Prefix(ls, l) \o ls[m]
  BY <1>3, <1>5, <1>6, FlattenMore DEF Prefix
<1>8. PICK p \in Seq(Chars), q \in Seq(Chars), k \in Seq(Chars) :
         p = Prefix(ls, l) /\ q = Prefix(ls, m) /\ k = ls[m]
  BY <1>3, <1>4, <1>5
<1>9. /\ Len(q) = Len(p) + Len(k)
      /\ \A i \in 1..Len(k) : q[Len(p) + i] = k[i]
  BY <1>7, <1>8, Joined
<1>10. Base(ls, l) = Len(p) /\ Base(ls, m) = Len(q)
  BY <1>8 DEF Base
<1>11. Len(p) \in Nat /\ Len(k) \in Nat
  BY LenProperties
<1>12. ASSUME NEW j \in 1..Len(k) PROVE t[Len(p) + j] = k[j]
  <2>1. Len(p) + j \in 1..Len(q)
    BY <1>9, <1>11
  <2> QED BY <1>4, <1>8, <1>9, <1>10, <2>1
<1>13. IsLine(ls[m]) /\ (m < n => EndsWith(ls[m], NL))
  <2>1. m < n => m \in 1..n - 1
    BY <1>2
  <2> HIDE DEF IsLine, EndsWith
  <2> QED BY <1>1, <1>2, <2>1 DEF AreLines
<1>14. Len(p) + Len(k) <= Len(t) /\ Len(t) \in Nat
  BY <1>4, <1>9, <1>10, LenProperties
<1> QED BY <1>2, <1>5, <1>8, <1>9, <1>10, <1>11, <1>12, <1>13, <1>14

LEMMA WithoutEnd ==
    ASSUME NEW t \in Seq(Chars), NEW c
    PROVE  /\ Without(t, c) \in Seq(Chars)
           /\ Len(Without(t, c)) = IF EndsWith(t, c) THEN Len(t) - 1 ELSE Len(t)
           /\ \A i \in 1..Len(Without(t, c)) : Without(t, c)[i] = t[i]
           /\ EndsWith(t, c) => Len(t) \in Nat \ {0} /\ t[Len(t)] = c
<1>1. CASE EndsWith(t, c)
  <2>1. t # <<>>
    BY <1>1 DEF EndsWith
  <2>2. /\ Front(t) \in Seq(Chars) /\ Len(Front(t)) = Len(t) - 1
        /\ \A i \in 1..Len(t) - 1 : Front(t)[i] = t[i]
    BY <2>1, FrontAndLast
  <2>3. Len(t) \in Nat \ {0} /\ t[Len(t)] = c
    BY <1>1, <2>1, EndOfText
  <2> HIDE DEF EndsWith, Front
  <2> QED BY <1>1, <2>2, <2>3 DEF Without
<1>2. CASE ~EndsWith(t, c)
  BY <1>2 DEF Without
<1> QED BY <1>1, <1>2

(* The characters of a line that a position of the protocol can point to.  *)
Source(ls, l) == IF l < Len(ls) THEN Without(ls[l + 1], NL) ELSE <<>>

(* The lines that a position can name: behind a last line feed there is    *)
(* one more, which is empty.                                               *)
Addressed(ls, l) == l \in 0..Len(ls) /\ (l < Len(ls) \/ Closed(ls))

LEMMA SourcePlace ==
    ASSUME NEW t \in Seq(Chars), NEW ls, ls = SplitLines(t), NEW l, Addressed(ls, l)
    PROVE  /\ Source(ls, l) \in Seq(Chars) /\ Base(ls, l) \in 0..Len(t)
           /\ Base(ls, l) + Len(Source(ls, l)) <= Len(t)
           /\ \A j \in 1..Len(Source(ls, l)) :
                /\ t[Base(ls, l) + j] = Source(ls, l)[j]
                /\ Source(ls, l)[j] # NL
           /\ Base(ls, l) > 0 => t[Base(ls, l)] = NL
<1>1. AreLines(ls) /\ ls \in Seq(Seq(Chars))
  BY SplitGivesLines DEF AreLines
<1>2. PICK n \in Nat : n = Len(ls) /\ l \in 0..n
  BY <1>1, LenProperties DEF Addressed
<1>3. PICK b \in 0..Len(t) : b = Base(ls, l) /\ (l = 0 => b = 0)
  BY <1>2, PrefixOfText
<1>4. Len(t) \in Nat
  BY LenProperties
<1>5. ASSUME b > 0 PROVE t[b] = NL
  <2>1. PICK k \in 0..n - 1 : k + 1 = l
    <3>1. l - 1 \in 0..n - 1 /\ (l - 1) + 1 = l
      BY <1>2, <1>3, <1>5
    <3> QED BY <3>1
  <2>2. /\ Base(ls, k) \in Nat /\ ls[k + 1] \in Seq(Chars)
        /\ Base(ls, k + 1) = Base(ls, k) + Len(ls[k + 1])
        /\ \A j \in 1..Len(ls[k + 1]) : t[Base(ls, k) + j] = ls[k + 1][j]
        /\ IsLine(ls[k + 1])
    BY <1>2, LinePlace
  <2>3. PICK line \in Seq(Chars) : line = ls[l] /\ line # <<>>
    BY <2>1, <2>2 DEF IsLine
  <2>4. Len(line) \in Nat \ {0} /\ b = Base(ls, k) + Len(line) /\ t[b] = line[Len(line)]
    <3>1. Len(line) \in Nat \ {0}
      BY <2>3, EmptySeq
    <3> QED BY SMTT(30), <1>3, <2>1, <2>2, <2>3, <3>1
  <2>5. EndsWith(line, NL)
    <3>1. CASE l < n
      <4>1. l \in 1..n - 1
        BY <1>2, <2>1, <3>1
      <4> HIDE DEF EndsWith
      <4> QED BY <1>1, <1>2, <2>3, <4>1 DEF AreLines
    <3>2. CASE l = n
      <4>1. ls # <<>> /\ Last(ls) = line
        BY <1>2, <2>1, <2>3, <3>2 DEF Last
      <4> HIDE DEF EndsWith
      <4> QED BY <1>2, <3>2, <4>1 DEF Addressed, Closed
    <3> QED BY <1>2, <3>1, <3>2
  <2>6. line[Len(line)] = NL
    BY <2>3, <2>5, EndOfText
  <2> QED BY <2>4, <2>6
<1>6. CASE l < n
  <2>1. /\ ls[l + 1] \in Seq(Chars) /\ b + Len(ls[l + 1]) <= Len(t)
        /\ \A j \in 1..Len(ls[l + 1]) : t[b + j] = ls[l + 1][j]
        /\ IsLine(ls[l + 1])
    <3>1. l \in 0..Len(ls) - 1
      BY <1>2, <1>6
    <3>2. /\ ls[l + 1] \in Seq(Chars) /\ Base(ls, l) + Len(ls[l + 1]) <= Len(t)
          /\ \A j \in 1..Len(ls[l + 1]) : t[Base(ls, l) + j] = ls[l + 1][j]
          /\ IsLine(ls[l + 1])
      BY SMTT(30), <3>1, LinePlace
    <3> HIDE DEF IsLine
    <3> QED BY <1>3, <3>2
  <2>2. PICK line \in Seq(Chars) : line = ls[l + 1] /\ IsLine(line)
    BY <2>1
  <2>3. PICK src : src = Source(ls, l) /\ src = Without(line, NL)
    BY <1>2, <1>6, <2>2 DEF Source
  <2>4. /\ src \in Seq(Chars)
        /\ Len(src) = IF EndsWith(line, NL) THEN Len(line) - 1 ELSE Len(line)
        /\ \A i \in 1..Len(src) : src[i] = line[i]
        /\ EndsWith(line, NL) => Len(line) \in Nat \ {0} /\ line[Len(line)] = NL
    BY <2>3, WithoutEnd
  <2>5. PICK m \in Nat \ {0} : m = Len(line)
    BY <2>2, EmptySeq DEF IsLine
  <2>6. Len(src) \in 0..m /\ \A j \in 1..Len(src) : j \in 1..m
    BY <2>4, <2>5
  <2>7. ASSUME NEW j \in 1..Len(src) PROVE t[b + j] = src[j] /\ src[j] # NL
    <3>1. t[b + j] = src[j]
      BY <2>1, <2>2, <2>4, <2>5, <2>6
    <3>2. CASE j \in 1..m - 1
      BY <2>2, <2>4, <2>5, <3>1, <3>2 DEF IsLine
    <3>3. CASE j = m
      <4>1. ~EndsWith(line, NL)
        BY <2>4, <2>5, <3>3
      <4>2. line[m] # NL
        BY <2>2, <2>5, <4>1, EndOfText DEF IsLine
      <4> QED BY <2>4, <3>1, <3>3, <4>2
    <3> QED BY <2>6, <3>1, <3>2, <3>3
  <2>8. b + Len(src) <= Len(t)
    BY <1>3, <1>4, <2>1, <2>2, <2>5, <2>6
  <2> QED BY <1>3, <1>5, <2>3, <2>4, <2>7, <2>8
<1>7. CASE l = n
  <2>1. PICK src : src = Source(ls, l) /\ src = <<>>
    BY <1>2, <1>7 DEF Source
  <2>2. src \in Seq(Chars) /\ Len(src) = 0
    BY <2>1, EmptySeq
  <2>3. b + Len(src) <= Len(t) /\ \A j \in 1..Len(src) : FALSE
    BY <1>3, <1>4, <2>2
  <2> QED BY <1>3, <1>5, <2>1, <2>2, <2>3
<1> QED BY <1>2, <1>6, <1>7

(* A text up to a place, and up to the next.                               *)
LEMMA OneMore ==
    ASSUME NEW t \in Seq(Chars), NEW q \in 0..Len(t) - 1
    PROVE  /\ SubSeq(t, 1, q) \in Seq(Chars) /\ t[q + 1] \in Chars
           /\ SubSeq(t, 1, q + 1) = Append(SubSeq(t, 1, q), t[q + 1])
<1>1. PICK n \in Nat, m \in Nat :
         n = Len(t) /\ m = q + 1 /\ m \in 1..n /\ m - 1 = q /\ q \in 0..n
  BY LenProperties
<1>2. t[m] \in Chars
  BY <1>1, ElementOfSeq
<1>3. SubSeq(t, 1, q) \in Seq(Chars)
  <2>1. PICK o \in 0..Len(t) : o = 0 /\ o + 1 = 1 /\ q \in o..Len(t)
    BY <1>1
  <2>2. SubSeq(t, o + 1, q) \in Seq(Chars)
    BY <2>1, PartOf
  <2> QED BY <2>1, <2>2
<1>4. SubSeq(t, 1, m) = SubSeq(t, 1, m - 1) \o <<t[m]>>
  <2>1. 1 \in 1..Len(t) /\ m \in 1..Len(t)
    BY <1>1
  <2> QED BY <2>1, SubSeqRecursiveSecond
<1>5. Append(SubSeq(t, 1, q), t[m]) = SubSeq(t, 1, q) \o <<t[m]>>
  BY <1>2, <1>3, AppendIsConcat
<1> QED BY <1>1, <1>2, <1>3, <1>4, <1>5

(* Before an addressed line there are as many line feeds as lines.         *)
LEMMA FeedsBefore ==
    ASSUME NEW t \in Seq(Chars), NEW ls, ls = SplitLines(t), NEW l, Addressed(ls, l)
    PROVE  LineFeeds(SubSeq(t, 1, Base(ls, l))) = l
<1>1. AreLines(ls) /\ ls \in Seq(Seq(Chars))
  BY SplitGivesLines DEF AreLines
<1>2. PICK n \in Nat : n = Len(ls) /\ l \in 0..n
  BY <1>1, LenProperties DEF Addressed
<1>3. PICK a : a = SubSeq(ls, 1, l)
  OBVIOUS
<1>4. /\ SubSeq(t, 1, Base(ls, l)) = Prefix(ls, l)
      /\ Prefix(ls, l) \in Seq(Chars) /\ AreLines(a) /\ Len(a) = l
  <2>1. l \in 0..Len(ls)
    BY <1>2
  <2>2. /\ SubSeq(t, 1, Base(ls, l)) = Prefix(ls, l)
        /\ Prefix(ls, l) \in Seq(Chars)
        /\ AreLines(SubSeq(ls, 1, l)) /\ Len(SubSeq(ls, 1, l)) = l
    BY <2>1, PrefixOfText
  <2> QED BY <1>3, <2>2
<1>5. SplitLines(Prefix(ls, l)) = a
  BY <1>3, <1>4, LinesAreSplit DEF Prefix
<1>6. Closed(a)
  <2>1. CASE l < n
    <3>1. PICK o \in 0..Len(ls) : o = 0 /\ o + 1 = 1 /\ l \in o..Len(ls)
      BY <1>2
    <3>2. Closed(SubSeq(ls, o + 1, l))
      BY <1>1, <1>2, <2>1, <3>1, SomeLines
    <3> QED BY <1>3, <3>1, <3>2
  <2>2. CASE l = n
    <3>1. a = ls
      BY <1>1, <1>2, <1>3, <2>2, SubSeqFull
    <3> QED BY <1>2, <2>2, <3>1 DEF Addressed
  <2> QED BY <1>2, <2>1, <2>2
<1> QED BY <1>4, <1>5, <1>6, FeedsOfLines

(* The place k characters behind the beginning of a line has the position  *)
(* one expects.                                                            *)
LEMMA PositionAt ==
    ASSUME text \in Seq(Chars), NEW ls, ls = SplitLines(text),
           NEW l, Addressed(ls, l), NEW k \in 0..Len(Source(ls, l)),
           NEW q, q = Base(ls, l) + k
    PROVE  /\ q \in 0..Len(text)
           /\ LineFeeds(SubSeq(text, 1, q)) = l
           /\ LineStart(q) = Base(ls, l)
           /\ PositionOf(q) = [line |-> l,
                               character |-> Width(SubSeq(Source(ls, l), 1, k))]
<1>1. PICK src \in Seq(Chars), b \in 0..Len(text) :
         /\ src = Source(ls, l) /\ b = Base(ls, l)
         /\ b + Len(src) <= Len(text)
         /\ \A j \in 1..Len(src) : text[b + j] = src[j] /\ src[j] # NL
         /\ b > 0 => text[b] = NL
  BY SourcePlace
<1>2. PICK n \in Nat, m \in Nat : n = Len(text) /\ m = Len(src)
  BY LenProperties
<1>3. b \in 0..n /\ k \in 0..m /\ b + m <= n /\ q = b + k /\ q \in 0..n
  BY <1>1, <1>2
<1>4. LineFeeds(SubSeq(text, 1, b)) = l
  BY <1>1, FeedsBefore
<1> DEFINE T == {i \in Nat : i <= m => LineFeeds(SubSeq(text, 1, b + i)) = l}
<1>5. 0 \in T
  BY <1>3, <1>4
<1>6. ASSUME NEW i \in Nat, i \in T PROVE i + 1 \in T
  <2> SUFFICES ASSUME i + 1 <= m PROVE LineFeeds(SubSeq(text, 1, b + (i + 1))) = l
    OBVIOUS
  <2>1. PICK p \in 0..n - 1 : p = b + i /\ p + 1 = b + (i + 1)
    BY <1>3
  <2>2. /\ SubSeq(text, 1, p) \in Seq(Chars) /\ text[p + 1] \in Chars
        /\ SubSeq(text, 1, p + 1) = Append(SubSeq(text, 1, p), text[p + 1])
    BY <1>2, <2>1, OneMore
  <2>3. text[p + 1] # NL
    <3>1. PICK j \in 1..Len(src) : j = i + 1
      BY <1>2
    <3>2. text[b + j] # NL
      BY <1>1, <3>1
    <3> QED BY <2>1, <3>1, <3>2
  <2>4. LineFeeds(SubSeq(text, 1, p)) = l /\ l \in Nat
    <3>1. l \in Nat
      BY SplitGivesLines, LenProperties DEF Addressed, AreLines
    <3> QED BY <1>6, <2>1, <3>1
  <2>5. LineFeeds(Append(SubSeq(text, 1, p), text[p + 1]))
          = LineFeeds(SubSeq(text, 1, p)) + 0
    BY <2>2, <2>3, FeedsAppend
  <2>6. LineFeeds(SubSeq(text, 1, p + 1)) = l
    <3> HIDE DEF T
    <3>1. PICK x, y : x = LineFeeds(SubSeq(text, 1, p)) /\ y = LineFeeds(SubSeq(text, 1, p + 1))
      OBVIOUS
    <3>2. y = LineFeeds(Append(SubSeq(text, 1, p), text[p + 1]))
      BY <2>2, <3>1
    <3>3. y = x + 0
      BY <2>5, <3>1, <3>2
    <3>4. x = l /\ l \in Nat
      BY <2>4, <3>1
    <3>5. y = l
      BY <3>3, <3>4
    <3> QED BY <3>1, <3>5
  <2> QED BY <2>1, <2>6
<1> HIDE DEF T
<1>7. Nat \subseteq T
  BY <1>5, <1>6, Induction
<1>8. LineFeeds(SubSeq(text, 1, q)) = l
  BY <1>3, <1>7 DEF T
<1>9. ASSUME NEW i \in 1..q, i > b PROVE text[i] # NL
  <2>1. PICK j \in 1..m : i = b + j
    <3>1. i - b \in 1..m /\ i = b + (i - b)
      BY <1>3, <1>9
    <3> QED BY <3>1
  <2> QED BY <1>1, <1>2, <2>1
<1>10. LineStart(q) = b
  <2>1. PICK breaks : breaks = {i \in 1..q : text[i] = NL}
    OBVIOUS
  <2>2. LineStart(q) = IF breaks = {} THEN 0
                       ELSE CHOOSE i \in breaks : \A j \in breaks : j <= i
    BY <2>1 DEF LineStart
  <2>3. \A i \in breaks : i \in 1..q /\ i <= b
    BY <1>3, <1>9, <2>1
  <2>4. CASE b = 0
    <3>1. breaks = {}
      BY <1>3, <2>3, <2>4
    <3> QED BY <2>2, <2>4, <3>1
  <2>5. CASE b > 0
    <3>1. b \in breaks
      BY SMTT(30), <1>1, <1>3, <2>1, <2>5
    <3>2. \A i \in breaks : (\A j \in breaks : j <= i) <=> i = b
      BY <1>3, <2>3, <3>1
    <3>3. (CHOOSE i \in breaks : \A j \in breaks : j <= i) = b
      BY <3>1, <3>2
    <3> QED BY <2>2, <3>1, <3>3
  <2> QED BY <1>3, <2>4, <2>5
<1>11. SubSeq(text, b + 1, q) = SubSeq(src, 1, k)
  <2>1. PICK u : u = SubSeq(text, b + 1, q)
    OBVIOUS
  <2>2. u \in Seq(Chars) /\ Len(u) = q - b /\ \A i \in 1..q - b : u[i] = text[b + i]
    <3>1. b \in 0..Len(text) /\ q \in b..Len(text)
      BY <1>2, <1>3
    <3> QED BY <2>1, <3>1, PartOf
  <2>3. PICK o \in 0..Len(src) : o = 0 /\ o + 1 = 1 /\ k \in o..Len(src)
    BY <1>2, <1>3
  <2>4. PICK v : v = SubSeq(src, o + 1, k)
    OBVIOUS
  <2>5. v \in Seq(Chars) /\ Len(v) = k - o /\ \A i \in 1..k - o : v[i] = src[o + i]
    BY <2>3, <2>4, PartOf
  <2>6. Len(u) = k /\ Len(v) = k
    BY <1>3, <2>2, <2>3, <2>5
  <2>7. ASSUME NEW i \in 1..k PROVE u[i] = v[i]
    <3>1. i \in 1..q - b /\ i \in 1..k - o /\ o + i = i /\ i \in 1..Len(src)
      BY <1>2, <1>3, <2>3
    <3>2. text[b + i] = src[i]
      BY <1>1, <1>3, <3>1
    <3> QED BY <1>3, <2>2, <2>5, <3>1, <3>2
  <2>8. u = v
    BY <2>2, <2>5, <2>6, <2>7, SeqEqual
  <2> QED BY <2>1, <2>3, <2>4, <2>8
<1>12. PositionOf(q) = [line |-> l, character |-> Width(SubSeq(src, 1, k))]
  BY <1>8, <1>10, <1>11 DEF PositionOf
<1> QED BY <1>1, <1>2, <1>3, <1>8, <1>10, <1>12

(* Every place of a text is in a line, before its line feed.               *)
LEMMA PlaceOf ==
    ASSUME NEW t \in Seq(Chars), NEW ls, ls = SplitLines(t), NEW q \in 0..Len(t)
    PROVE  \E l, k : /\ Addressed(ls, l) /\ k \in 0..Len(Source(ls, l))
                     /\ q = Base(ls, l) + k
<1> DEFINE Found(p) == \E l, k : /\ Addressed(ls, l) /\ k \in 0..Len(Source(ls, l))
                                 /\ p = Base(ls, l) + k
           T == {p \in Nat : p <= Len(t) => Found(p)}
<1>1. AreLines(ls) /\ ls \in Seq(Seq(Chars))
  BY SplitGivesLines DEF AreLines
<1>2. PICK n \in Nat, m \in Nat : n = Len(ls) /\ m = Len(t)
  BY <1>1, LenProperties
<1>3. Found(0)
  <2>1. Addressed(ls, 0)
    <3>1. n = 0 => ls = <<>>
      BY <1>1, <1>2, EmptySeq
    <3> QED BY <1>2, <3>1 DEF Addressed, Closed
  <2>2. Base(ls, 0) = 0
    <3>1. PICK o \in 0..Len(ls) : o = 0
      BY <1>2
    <3> QED BY <3>1, PrefixOfText
  <2>3. Source(ls, 0) \in Seq(Chars)
    BY <2>1, SourcePlace
  <2>4. 0 \in 0..Len(Source(ls, 0)) /\ 0 = Base(ls, 0) + 0
    BY <2>2, <2>3, LenProperties
  <2> HIDE DEF Base, Addressed, Source
  <2> QED BY <2>1, <2>4
<1>4. ASSUME NEW p \in Nat, p + 1 <= m, Found(p) PROVE Found(p + 1)
  <2>1. PICK l, k : /\ Addressed(ls, l) /\ k \in 0..Len(Source(ls, l))
                    /\ p = Base(ls, l) + k
    BY <1>4
  <2>2. PICK src \in Seq(Chars), b \in 0..Len(t) :
           src = Source(ls, l) /\ b = Base(ls, l)
    BY <2>1, SourcePlace
  <2>3. PICK d \in Nat : d = Len(src) /\ k \in 0..d /\ p = b + k /\ b \in Nat /\ l \in 0..n
    BY <1>2, <2>1, <2>2, LenProperties DEF Addressed
  <2>4. CASE k < d
    <3>1. k + 1 \in 0..d /\ p + 1 = b + (k + 1)
      BY <2>3, <2>4
    <3> HIDE DEF Base, Addressed, Source
    <3> QED BY <2>1, <2>2, <2>3, <3>1
  <2>5. CASE k = d /\ l < n
    <3>1. l \in 0..Len(ls) - 1
      BY <1>2, <2>3, <2>5
    <3>2. /\ ls[l + 1] \in Seq(Chars)
          /\ Base(ls, l + 1) = b + Len(ls[l + 1])
          /\ l + 1 < n => EndsWith(ls[l + 1], NL)
      BY <1>2, <2>2, <3>1, LinePlace
    <3>3. PICK line \in Seq(Chars), i \in 1..n :
             line = ls[l + 1] /\ i = l + 1
      BY <2>3, <2>5, <3>2
    <3>4. /\ Base(ls, i) = b + Len(line)
          /\ i < n => EndsWith(line, NL)
      BY <3>2, <3>3
    <3>5. src = Without(line, NL)
      BY <1>2, <2>2, <2>5, <3>3 DEF Source
    <3>6. PICK e \in Nat : /\ e = Len(line)
                           /\ d = IF EndsWith(line, NL) THEN e - 1 ELSE e
                           /\ EndsWith(line, NL) => e > 0
      BY <2>3, <3>5, WithoutEnd, LenProperties
    <3>7. CASE EndsWith(line, NL)
      <4>1. Addressed(ls, i)
        <5>1. i = n => Closed(ls)
          <6>1. i = n => Last(ls) = line
            BY <1>2, <3>3 DEF Last
          <6> HIDE DEF EndsWith, Last
          <6> QED BY <3>7, <6>1 DEF Closed
        <5> QED BY <1>2, <3>3, <5>1 DEF Addressed
      <4>2. p + 1 = Base(ls, i) + 0
        BY <2>3, <2>5, <3>4, <3>6, <3>7
      <4>3. 0 \in 0..Len(Source(ls, i))
        <5>1. Source(ls, i) \in Seq(Chars)
          BY <4>1, SourcePlace
        <5> QED BY <5>1, LenProperties
      <4> HIDE DEF Base, Addressed, Source
      <4> QED BY <4>1, <4>2, <4>3
    <3>8. CASE ~EndsWith(line, NL)
      <4>1. i = n
        BY <3>3, <3>4, <3>8
      <4>2. Base(ls, i) = m
        <5>1. i \in 0..Len(ls) /\ i = Len(ls)
          BY <1>2, <4>1
        <5> QED BY SMTT(30), <1>2, <5>1, PrefixOfText
      <4>3. p = m
        BY <2>3, <2>5, <3>4, <3>6, <3>8, <4>2
      <4> QED BY <1>2, <1>4, <4>3
    <3> QED BY <3>7, <3>8
  <2>6. CASE k = d /\ l = n
    <3>1. Base(ls, l) = m
      BY <1>2, <2>3, <2>6, PrefixOfText
    <3>2. p >= m
      BY <1>2, <2>2, <2>3, <3>1
    <3> QED BY <1>2, <1>4, <3>2
  <2> QED BY <2>3, <2>4, <2>5, <2>6
<1> HIDE DEF Found
<1>5. 0 \in T /\ \A p \in Nat : p \in T => p + 1 \in T
  BY <1>2, <1>3, <1>4
<1> HIDE DEF T
<1>6. Nat \subseteq T
  BY <1>5, Induction
<1>7. Found(q)
  BY <1>2, <1>6 DEF T
<1> QED BY <1>7 DEF Found

-----------------------------------------------------------------------------
(* Widths.                                                                 *)

(* Width goes through the characters of a text from the left.              *)
LEMMA WidthByChar ==
    ASSUME NEW t \in Seq(Chars)
    PROVE  \E g : /\ g[0] = 0
                  /\ \A k \in 1..Len(t) : g[k] = g[k - 1] + Units[t[k]]
                  /\ Width(t) = g[Len(t)]
<1>1. PICK n \in Nat : n = Len(t) /\ DOMAIN t = 1..n
  BY LenProperties
<1> DEFINE P(it) == it = [s \in SUBSET (1..n) |->
                            IF s = {} THEN 0
                            ELSE it[s \ {Max(s)}] + Units[t[Max(s)]]]
<1>2. Width(t) = (CHOOSE it : P(it))[1..n]
  <2>1. Width(t) = (CHOOSE it : it = [s \in SUBSET DOMAIN t |->
                            IF s = {} THEN 0
                            ELSE it[s \ {Max(s)}] + Units[t[Max(s)]]])[DOMAIN t]
    BY DEF Width, FoldLeft, MapThenFoldSet
  <2> QED BY <1>1, <2>1
<1> DEFINE step == [p \in Nat \X (1..n) |-> p[1] + Units[t[p[2]]]]
<1>3. step \in [Nat \X (1..n) -> Nat]
  <2>1. \A i \in 1..n : Units[t[i]] \in Nat
    <3>1. \A i \in 1..n : t[i] \in Chars
      BY <1>1, ElementOfSeq
    <3> QED BY <3>1, CharsAssumption
  <2>2. \A p \in Nat \X (1..n) : p[1] \in Nat /\ p[2] \in 1..n
    OBVIOUS
  <2>3. \A p \in Nat \X (1..n) : p[1] + Units[t[p[2]]] \in Nat
    BY <2>1, <2>2
  <2> QED BY <2>3
<1>4. \E it : P(it)
  <2> HIDE DEF step
  <2>1. 0 \in Nat
    OBVIOUS
  <2>2. PICK it \in [SUBSET (1..n) -> Nat] : IsFold(it, 0, step, n)
    BY <1>3, <2>1, FoldExists, Zenon
  <2>3. ASSUME NEW s \in SUBSET (1..n), s # {}
        PROVE  step[<<it[s \ {Max(s)}], Max(s)>>]
                 = it[s \ {Max(s)}] + Units[t[Max(s)]]
    <3>1. PICK m : m = Max(s) /\ m \in 1..n
      BY <2>3, LastNumber
    <3>2. it[s \ {m}] \in Nat
      BY <2>2
    <3> QED BY <3>1, <3>2 DEF step
  <2>4. P(it)
    BY <2>2, <2>3 DEF IsFold
  <2> QED BY <2>4
<1>5. PICK it : P(it) /\ Width(t) = it[1..n]
  <2> HIDE DEF P
  <2> QED BY <1>2, <1>4
<1>6. it[{}] = 0
  BY <1>5
<1>7. ASSUME NEW k \in 1..n
      PROVE  it[1..k] = it[1..(k - 1)] + Units[t[k]]
  <2>1. Max(1..k) = k /\ 1..k # {} /\ 1..k \ {k} = 1..(k - 1)
    BY SMTT(30), LastOfRange
  <2>2. 1..k \in SUBSET (1..n)
    OBVIOUS
  <2>3. it[1..k] = it[1..k \ {Max(1..k)}] + Units[t[Max(1..k)]]
    BY <1>5, <2>1, <2>2
  <2> QED BY <2>1, <2>3
<1> DEFINE g == [k \in 0..n |-> it[1..k]]
<1>8. g[0] = 0 /\ g[n] = it[1..n]
  <2>1. 1..0 = {}
    OBVIOUS
  <2> QED BY <1>6, <2>1
<1>9. \A k \in 1..n : g[k] = g[k - 1] + Units[t[k]]
  BY <1>7
<1> HIDE DEF g
<1> QED BY <1>1, <1>5, <1>8, <1>9

(* The longer of two prefixes is the wider.                                *)
LEMMA WidthsGrow ==
    ASSUME NEW t \in Seq(Chars), NEW i \in 0..Len(t), NEW j \in 0..Len(t)
    PROVE  /\ Width(SubSeq(t, 1, i)) \in Nat
           /\ i < j => Width(SubSeq(t, 1, i)) < Width(SubSeq(t, 1, j))
<1>1. PICK n \in Nat : n = Len(t)
  BY LenProperties
<1>2. PICK g : /\ g[0] = 0
               /\ \A k \in 1..n : g[k] = g[k - 1] + Units[t[k]]
  BY <1>1, WidthByChar
<1>3. \A k \in 1..n : Units[t[k]] \in {1, 2}
  <2>1. \A k \in 1..n : t[k] \in Chars
    BY <1>1, ElementOfSeq
  <2> QED BY <2>1, CharsAssumption
<1>4. ASSUME NEW m \in 0..n PROVE Width(SubSeq(t, 1, m)) = g[m]
  <2>1. PICK u : u = SubSeq(t, 1, m)
    OBVIOUS
  <2>2. u \in Seq(Chars) /\ Len(u) = m /\ \A k \in 1..m : u[k] = t[k]
    <3>1. PICK o \in 0..Len(t) : o = 0 /\ o + 1 = 1 /\ m \in o..Len(t)
      BY <1>1
    <3>2. /\ SubSeq(t, o + 1, m) \in Seq(Chars) /\ Len(SubSeq(t, o + 1, m)) = m - o
          /\ \A k \in 1..m - o : SubSeq(t, o + 1, m)[k] = t[o + k]
      BY <3>1, PartOf
    <3> QED BY <1>1, <2>1, <3>1, <3>2
  <2>3. PICK h : /\ h[0] = 0
                 /\ \A k \in 1..m : h[k] = h[k - 1] + Units[u[k]]
                 /\ Width(u) = h[m]
    BY <2>2, WidthByChar
  <2> DEFINE T == {k \in Nat : k <= m => h[k] = g[k]}
  <2>4. 0 \in T
    BY <1>2, <2>3
  <2>5. ASSUME NEW k \in Nat, k \in T PROVE k + 1 \in T
    <3> SUFFICES ASSUME k + 1 <= m PROVE h[k + 1] = g[k + 1]
      OBVIOUS
    <3>1. k <= m /\ k + 1 \in 1..m /\ k + 1 \in 1..n /\ (k + 1) - 1 = k
      OBVIOUS
    <3>2. g[k + 1] = g[k] + Units[t[k + 1]] /\ h[k + 1] = h[k] + Units[u[k + 1]]
      BY <1>2, <2>3, <3>1
    <3>3. u[k + 1] = t[k + 1] /\ h[k] = g[k]
      BY <2>2, <2>5, <3>1
    <3> QED BY <3>2, <3>3
  <2> HIDE DEF T
  <2>6. m \in T
    BY <2>4, <2>5, Induction
  <2>7. h[m] = g[m]
    BY <2>6 DEF T
  <2> QED BY <2>1, <2>3, <2>7
<1> DEFINE G == {k \in Nat : k <= n =>
                   \A m \in 0..k : g[m] \in Nat /\ (m < k => g[m] < g[k])}
<1>5. 0 \in G
  <2>1. \A m \in 0..0 : m = 0
    OBVIOUS
  <2> QED BY <1>2, <2>1
<1>6. ASSUME NEW k \in Nat, k \in G PROVE k + 1 \in G
  <2> SUFFICES ASSUME k + 1 <= n, NEW m \in 0..(k + 1)
               PROVE  g[m] \in Nat /\ (m < k + 1 => g[m] < g[k + 1])
    OBVIOUS
  <2>1. k <= n /\ k + 1 \in 1..n /\ (k + 1) - 1 = k
    OBVIOUS
  <2>2. g[k + 1] = g[k] + Units[t[k + 1]] /\ Units[t[k + 1]] \in {1, 2}
    BY <1>2, <1>3, <2>1
  <2>3. \A i_ \in 0..k : g[i_] \in Nat /\ (i_ < k => g[i_] < g[k])
    BY <1>6, <2>1
  <2>4. g[k] \in Nat /\ g[k + 1] \in Nat /\ g[k] < g[k + 1]
    <3>1. k \in 0..k
      OBVIOUS
    <3>2. g[k] \in Nat
      BY <2>3, <3>1
    <3> QED BY <2>2, <3>2
  <2>5. CASE m = k + 1
    BY <2>4, <2>5
  <2>6. CASE m = k
    BY <2>4, <2>6
  <2>7. CASE m < k
    <3>1. m \in 0..k
      BY <2>7
    <3>2. g[m] \in Nat /\ g[m] < g[k]
      BY <2>3, <2>7, <3>1
    <3> QED BY <2>4, <3>2
  <2> QED BY <2>5, <2>6, <2>7
<1> HIDE DEF G
<1>7. Nat \subseteq G
  BY <1>5, <1>6, Induction
<1>8. g[i] \in Nat /\ (i < j => g[i] < g[j])
  <2>1. i \in 0..n /\ j \in 0..n /\ i \in 0..i /\ (i < j => i \in 0..j)
    BY <1>1
  <2>2. i \in G /\ j \in G
    BY <1>7, <2>1
  <2> QED BY <2>1, <2>2 DEF G
<1> QED BY <1>1, <1>4, <1>8

(* The positions that denote an offset are those of an addressed line.     *)
LEMMA LineDenoted ==
    ASSUME NEW t \in Seq(Chars), NEW ls, ls = SplitLines(t), NEW l \in Nat
    PROVE  Addressed(ls, l) <=> ~(l >= Len(ls) /\ l # LineFeeds(t))
<1>1. PICK n \in Nat : n = Len(ls)
  BY SplitGivesLines, LenProperties DEF AreLines
<1>2. LineFeeds(t) = IF Closed(ls) THEN n ELSE n - 1
  BY <1>1, FeedsOfLines
<1> QED BY <1>1, <1>2 DEF Addressed

(* The offset of a position.                                               *)
LEMMA OffsetAt ==
    ASSUME NEW t \in Seq(Chars), NEW ls, ls = SplitLines(t), NEW p, p.line \in Nat
    PROVE  LET fits == {k \in 0..Len(Source(ls, p.line)) :
                          Width(SubSeq(Source(ls, p.line), 1, k)) = p.character}
           IN  /\ ~Addressed(ls, p.line) => LspPositionToOffset(t, p) = Refused
               /\ fits = {} => LspPositionToOffset(t, p) = Refused
               /\ (Addressed(ls, p.line) /\ fits # {}) =>
                     \E k \in fits : LspPositionToOffset(t, p) = Base(ls, p.line) + k
<1> DEFINE fits == {k \in 0..Len(Source(ls, p.line)) :
                      Width(SubSeq(Source(ls, p.line), 1, k)) = p.character}
<1>1. LspPositionToOffset(t, p) =
        IF p.line >= Len(ls) /\ p.line # LineFeeds(t) THEN Refused
        ELSE IF fits = {} THEN Refused
             ELSE Base(ls, p.line) + (CHOOSE k \in fits : TRUE)
  BY DEF LspPositionToOffset, Source, Base, Prefix
<1>2. Addressed(ls, p.line) <=> ~(p.line >= Len(ls) /\ p.line # LineFeeds(t))
  BY LineDenoted
<1> HIDE DEF fits
<1>3. fits # {} => (CHOOSE k \in fits : TRUE) \in fits
  OBVIOUS
<1>4. /\ ~Addressed(ls, p.line) => LspPositionToOffset(t, p) = Refused
      /\ fits = {} => LspPositionToOffset(t, p) = Refused
      /\ (Addressed(ls, p.line) /\ fits # {}) =>
            \E k \in fits : LspPositionToOffset(t, p) = Base(ls, p.line) + k
  BY <1>1, <1>2, <1>3
<1> QED BY <1>4 DEF fits

(* Distinct places of a line have distinct widths before them.             *)
LEMMA WidthsDiffer ==
    ASSUME NEW t \in Seq(Chars), NEW i \in 0..Len(t), NEW j \in 0..Len(t),
           Width(SubSeq(t, 1, i)) = Width(SubSeq(t, 1, j))
    PROVE  i = j
<1>1. PICK n \in Nat : n = Len(t)
  BY LenProperties
<1>2. PICK v \in Nat : v = Width(SubSeq(t, 1, i)) /\ v = Width(SubSeq(t, 1, j))
  BY WidthsGrow
<1>3. ~(i < j)
  <2>1. i < j => v < v
    BY <1>2, WidthsGrow
  <2> QED BY <1>2, <2>1
<1>4. ~(j < i)
  <2>1. j < i => v < v
    BY <1>2, WidthsGrow
  <2> QED BY <1>2, <2>1
<1> QED BY <1>1, <1>3, <1>4

(* The first half of PositionsRoundTrip.                                   *)
LEMMA OffsetOfPosition ==
    ASSUME text \in Seq(Chars), NEW L \in SUBSET Nat, NEW W,
           NEW p \in [line : L, character : W]
    PROVE  LET o == LspPositionToOffset(text, p)
           IN  IF \E q \in 0..Len(text) : PositionOf(q) = p
               THEN o \in 0..Len(text) /\ PositionOf(o) = p
               ELSE o = Refused
<1>1. PICK ls : ls = SplitLines(text)
  OBVIOUS
<1>2. PICK l \in Nat : l = p.line
  OBVIOUS
<1>3. PICK o : o = LspPositionToOffset(text, p)
  OBVIOUS
<1>4. PICK c : c = p.character /\ p = [line |-> l, character |-> c]
  BY <1>2
<1>5. PICK fits : fits = {k \in 0..Len(Source(ls, l)) :
                            Width(SubSeq(Source(ls, l), 1, k)) = c}
  OBVIOUS
<1>6. /\ ~Addressed(ls, l) => o = Refused
      /\ fits = {} => o = Refused
      /\ (Addressed(ls, l) /\ fits # {}) => \E k \in fits : o = Base(ls, l) + k
  BY <1>1, <1>2, <1>3, <1>4, <1>5, OffsetAt
<1>7. ASSUME NEW k \in fits, Addressed(ls, l), NEW r, r = Base(ls, l) + k
      PROVE  r \in 0..Len(text) /\ PositionOf(r) = p
  <2>1. k \in 0..Len(Source(ls, l)) /\ Width(SubSeq(Source(ls, l), 1, k)) = c
    BY <1>5, <1>7
  <2>2. PositionOf(r) = [line |-> l,
                         character |-> Width(SubSeq(Source(ls, l), 1, k))]
    BY <1>1, <1>7, <2>1, PositionAt
  <2>3. r \in 0..Len(text)
    BY <1>1, <1>7, <2>1, PositionAt
  <2> QED BY <1>4, <2>1, <2>2, <2>3
<1>8. CASE \E q \in 0..Len(text) : PositionOf(q) = p
  <2>1. PICK q \in 0..Len(text) : PositionOf(q) = p
    BY <1>8
  <2>2. PICK m, k : /\ Addressed(ls, m) /\ k \in 0..Len(Source(ls, m))
                    /\ q = Base(ls, m) + k
    BY <1>1, PlaceOf
  <2>3. p = [line |-> m, character |-> Width(SubSeq(Source(ls, m), 1, k))]
    BY <1>1, <2>1, <2>2, PositionAt
  <2>4. m = l /\ Width(SubSeq(Source(ls, m), 1, k)) = c
    BY <1>2, <1>4, <2>3
  <2>5. Addressed(ls, l) /\ k \in fits
    BY <1>5, <2>2, <2>4
  <2>6. PICK j \in fits : o = Base(ls, l) + j
    BY <1>6, <2>5
  <2>7. o \in 0..Len(text) /\ PositionOf(o) = p
    BY <1>7, <2>5, <2>6
  <2> QED BY <1>3, <1>8, <2>7
<1>9. CASE ~\E q \in 0..Len(text) : PositionOf(q) = p
  <2>1. ASSUME Addressed(ls, l), fits # {} PROVE FALSE
    <3>1. PICK k \in fits : TRUE
      BY <2>1
    <3>2. PICK r : r = Base(ls, l) + k
      OBVIOUS
    <3>3. r \in 0..Len(text) /\ PositionOf(r) = p
      BY <1>7, <2>1, <3>1, <3>2
    <3> QED BY <1>9, <3>3
  <2>2. o = Refused
    BY <1>6, <2>1
  <2> QED BY <1>3, <1>9, <2>2
<1> QED BY <1>8, <1>9

(* The second half of PositionsRoundTrip.                                  *)
LEMMA OffsetOfColumn ==
    ASSUME text \in Seq(Chars), NEW line \in Nat, NEW column \in Nat
    PROVE  LET p == AgentPositionToLsp(text, line, column)
               o == LspPositionToOffset(text, p)
           IN  p # Refused => /\ LineFeeds(SubSeq(text, 1, o)) = line - 1
                              /\ o - LineStart(o) = column - 1
<1>1. PICK p : p = AgentPositionToLsp(text, line, column)
  OBVIOUS
<1>2. PICK o : o = LspPositionToOffset(text, p)
  OBVIOUS
<1> SUFFICES ASSUME p # Refused
             PROVE  /\ LineFeeds(SubSeq(text, 1, o)) = line - 1
                    /\ o - LineStart(o) = column - 1
  BY <1>1, <1>2
<1>3. PICK ls \in Seq(Seq(Chars)) : ls = SplitLines(text)
  BY SplitGivesLines DEF AreLines
<1>4. PICK ending : ending = Without(ls[line], NL)
  OBVIOUS
<1>5. PICK source : source = IF ending = ls[line] THEN ending ELSE Without(ending, CR)
  OBVIOUS
<1>6. p = IF line = 0 \/ column = 0 \/ line > Len(ls) THEN Refused
          ELSE IF column - 1 > Len(source) THEN Refused
               ELSE [line |-> line - 1,
                     character |-> Width(SubSeq(source, 1, column - 1))]
  BY <1>1, <1>3, <1>4, <1>5 DEF AgentPositionToLsp
<1>7. PICK n \in Nat : n = Len(ls)
  BY <1>3, LenProperties
<1>8. PICK l \in Nat, k \in Nat :
        /\ l = line - 1 /\ line = l + 1 /\ l < n /\ k = column - 1
        /\ k <= Len(source)
        /\ p = [line |-> l, character |-> Width(SubSeq(source, 1, k))]
  <2>1. line # 0 /\ column # 0 /\ ~(line > n)
    BY <1>6, <1>7
  <2>2. PICK l \in Nat, k \in Nat : l = line - 1 /\ line = l + 1 /\ l < n /\ k = column - 1
    <3>1. /\ line - 1 \in Nat /\ column - 1 \in Nat /\ line = (line - 1) + 1
          /\ line - 1 < n
      BY <1>7, <2>1
    <3> QED BY <3>1
  <2>3. p = IF k > Len(source) THEN Refused
            ELSE [line |-> l, character |-> Width(SubSeq(source, 1, k))]
    BY <1>6, <1>7, <2>1, <2>2
  <2>4. ~(k > Len(source))
    BY <2>3
  <2>5. Len(source) \in Nat
    <3>1. ls[line] \in Seq(Chars)
      <4>1. line \in 1..Len(ls)
        BY <1>7, <2>1
      <4> QED BY <1>3, <4>1, ElementOfSeq
    <3>2. ending \in Seq(Chars)
      BY <1>4, <3>1, WithoutEnd
    <3>3. source \in Seq(Chars)
      BY <1>5, <3>2, WithoutEnd
    <3> QED BY <3>3, LenProperties
  <2> QED BY <2>2, <2>3, <2>4, <2>5
<1>9. Addressed(ls, l) /\ ending = Source(ls, l)
  BY <1>4, <1>7, <1>8 DEF Addressed, Source
<1>10. ending \in Seq(Chars)
  BY <1>3, <1>9, SourcePlace
<1>11. /\ source \in Seq(Chars) /\ Len(source) <= Len(ending)
       /\ \A i \in 1..Len(source) : source[i] = ending[i]
  <2>1. Len(ending) \in Nat
    BY <1>10, LenProperties
  <2>2. CASE source = ending
    BY <1>10, <2>1, <2>2
  <2>3. CASE source = Without(ending, CR)
    BY <1>10, <2>1, <2>3, WithoutEnd
  <2> QED BY <1>5, <2>2, <2>3
<1>12. PICK a \in Nat, b \in Nat : a = Len(source) /\ b = Len(ending) /\ a <= b /\ k <= a
  BY <1>8, <1>10, <1>11, LenProperties
<1>13. SubSeq(source, 1, k) = SubSeq(ending, 1, k)
  <2>1. PICK z \in 0..a : z = 0 /\ z + 1 = 1 /\ k \in z..a /\ z \in 0..b /\ k \in z..b
    BY <1>12
  <2>2. PICK u, v : u = SubSeq(source, z + 1, k) /\ v = SubSeq(ending, z + 1, k)
    OBVIOUS
  <2>3. /\ u \in Seq(Chars) /\ Len(u) = k - z
        /\ \A i \in 1..k - z : u[i] = source[z + i]
    BY <1>11, <1>12, <2>1, <2>2, PartOf
  <2>4. /\ v \in Seq(Chars) /\ Len(v) = k - z
        /\ \A i \in 1..k - z : v[i] = ending[z + i]
    BY <1>10, <1>12, <2>1, <2>2, PartOf
  <2>5. \A i \in 1..k : u[i] = v[i]
    BY SMTT(30), <1>11, <1>12, <2>1, <2>3, <2>4
  <2>6. Len(u) = k /\ Len(v) = k
    BY <2>1, <2>3, <2>4
  <2>7. u = v
    BY <2>3, <2>4, <2>5, <2>6, SeqEqual
  <2> QED BY <2>1, <2>2, <2>7
<1>14. k \in 0..Len(Source(ls, l))
  BY <1>9, <1>12
<1>15. PICK fits : fits = {j \in 0..Len(Source(ls, l)) :
                             Width(SubSeq(Source(ls, l), 1, j))
                               = Width(SubSeq(Source(ls, l), 1, k))}
  OBVIOUS
<1>16. k \in fits
  BY <1>14, <1>15
<1>17. \E j \in fits : o = Base(ls, l) + j
  <2>1. p.line = l /\ p.character = Width(SubSeq(Source(ls, l), 1, k))
    BY <1>8, <1>9, <1>13
  <2> QED BY <1>2, <1>3, <1>9, <1>15, <1>16, <2>1, OffsetAt
<1>18. \A j \in fits : j = k
  <2>1. Source(ls, l) \in Seq(Chars)
    BY <1>9, <1>10
  <2> QED BY <1>14, <1>15, <2>1, WidthsDiffer
<1>19. o = Base(ls, l) + k
  BY <1>17, <1>18
<1>20. /\ LineFeeds(SubSeq(text, 1, o)) = l /\ LineStart(o) = Base(ls, l)
  BY <1>3, <1>9, <1>14, <1>19, PositionAt
<1>21. PICK c \in Nat : c = Base(ls, l)
  <2>1. Base(ls, l) \in 0..Len(text) /\ Len(text) \in Nat
    BY <1>3, <1>9, SourcePlace, LenProperties
  <2> QED BY <2>1
<1>22. o - LineStart(o) = k
  BY <1>19, <1>20, <1>21
<1> QED BY <1>8, <1>20, <1>22

(* The positions of every text.                                            *)
LEMMA PositionsAgree ==
    ASSUME text \in Seq(Chars)
    PROVE  PositionsRoundTrip
<1>1. Len(text) \in Nat
  BY LenProperties
<1>2. ASSUME NEW p \in [line : 0..Len(text) + 1, character : 0..2 * Len(text) + 1]
      PROVE  LET o == LspPositionToOffset(text, p)
             IN  IF \E q \in 0..Len(text) : PositionOf(q) = p
                 THEN o \in 0..Len(text) /\ PositionOf(o) = p
                 ELSE o = Refused
  <2>1. 0..Len(text) + 1 \in SUBSET Nat
    BY <1>1
  <2> HIDE DEF PositionOf, LspPositionToOffset
  <2> QED BY <1>2, <2>1, OffsetOfPosition
<1>3. ASSUME NEW line \in 0..Len(text) + 2, NEW column \in 0..Len(text) + 2
      PROVE  LET p == AgentPositionToLsp(text, line, column)
                 o == LspPositionToOffset(text, p)
             IN  p # Refused => /\ LineFeeds(SubSeq(text, 1, o)) = line - 1
                                /\ o - LineStart(o) = column - 1
  <2>1. line \in Nat /\ column \in Nat
    BY <1>1
  <2> QED BY <2>1, OffsetOfColumn
<1> QED BY <1>2, <1>3 DEF PositionsRoundTrip

-----------------------------------------------------------------------------
(* The edits of a document.                                                *)

LEMMA TextsType ==
    ASSUME NEW n \in Nat
    PROVE  TextsUpTo(n) \subseteq Seq(Chars)
<1> SUFFICES ASSUME NEW k \in 0..n, NEW t \in [1..k -> Chars] PROVE t \in Seq(Chars)
  BY DEF TextsUpTo
<1> QED BY SeqDef

LEMMA NewTextsType == NewTexts \subseteq Seq(Chars) /\ TextsUpTo(1) \subseteq Seq(Chars)
<1>1. MaxNew \in Nat /\ 1 \in Nat
  BY BoundsAssumption
<1> QED BY <1>1, TextsType DEF NewTexts

(* A range of lines is replaced, or refused.                               *)
LEMMA RangeReplaced ==
    ASSUME NEW t \in Seq(Chars), NEW ls, ls = SplitLines(t), NEW new \in Seq(Chars),
           NEW start \in Nat, NEW end \in Nat
    PROVE  LET updated == ReplaceLines(t, start, end, new)
           IN  IF 1 <= start /\ start <= end /\ end <= Len(ls)
               THEN /\ updated \in Seq(Chars)
                    /\ KeepsLines(SplitLines(updated), ls, start - 1, end, new)
               ELSE updated = Refused
<1>1. AreLines(ls)
  BY SplitGivesLines
<1>2. PICK n \in Nat : n = Len(ls)
  BY <1>1, LenProperties DEF AreLines
<1>3. PICK updated : updated = ReplaceLines(t, start, end, new)
  OBVIOUS
<1>4. updated = IF start = 0 \/ end < start \/ end > n THEN Refused
                ELSE Spliced(ls, start - 1, end, new)
  BY <1>2, <1>3 DEF ReplaceLines
<1>5. CASE 1 <= start /\ start <= end /\ end <= n
  <2>1. PICK from \in 0..Len(ls) : from = start - 1 /\ from < n /\ end \in from..Len(ls)
    <3>1. /\ start - 1 \in 0..Len(ls) /\ start - 1 < n
          /\ end \in start - 1..Len(ls)
      BY <1>2, <1>5
    <3> QED BY <3>1
  <2>2. updated = Spliced(ls, from, end, new)
    BY <1>4, <1>5, <2>1
  <2>3. /\ Spliced(ls, from, end, new) \in Seq(Chars)
        /\ KeepsLines(SplitLines(Spliced(ls, from, end, new)), ls, from, end, new)
    BY <1>1, <1>2, <2>1, SplicedLines
  <2> HIDE DEF KeepsLines
  <2> QED BY <1>2, <1>3, <1>5, <2>1, <2>2, <2>3
<1>6. CASE ~(1 <= start /\ start <= end /\ end <= n)
  <2>1. updated = Refused
    BY <1>4, <1>6
  <2> QED BY <1>2, <1>3, <1>6, <2>1
<1> QED BY <1>5, <1>6

(* New lines come before a line, or behind a line that ends.               *)
LEMMA LinesInserted ==
    ASSUME NEW t \in Seq(Chars), NEW ls, ls = SplitLines(t), NEW new \in Seq(Chars),
           NEW line \in 1..Len(ls)
    PROVE  /\ KeepsLines(SplitLines(InsertLine(t, line, new, FALSE)),
                         ls, line - 1, line - 1, new)
           /\ EndsWith(ls[line], NL) =>
                KeepsLines(SplitLines(InsertLine(t, line, new, TRUE)),
                           ls, line, line, new)
<1>1. AreLines(ls)
  BY SplitGivesLines
<1>2. PICK n \in Nat : n = Len(ls) /\ line \in 1..n
  BY <1>1, LenProperties DEF AreLines
<1>3. PICK before \in 0..Len(ls) : before = line - 1 /\ before < n /\ before \in before..Len(ls)
  <2>1. /\ line - 1 \in 0..Len(ls) /\ line - 1 < n
        /\ line - 1 \in line - 1..Len(ls)
    BY <1>2
  <2> QED BY <2>1
<1>4. InsertLine(t, line, new, FALSE) = Spliced(ls, before, before, new)
  BY <1>2, <1>3 DEF InsertLine
<1>5. KeepsLines(SplitLines(Spliced(ls, before, before, new)), ls, before, before, new)
  BY <1>1, <1>2, <1>3, SplicedLines
<1>6. ASSUME EndsWith(ls[line], NL)
      PROVE  KeepsLines(SplitLines(InsertLine(t, line, new, TRUE)), ls, line, line, new)
  <2>1. line \in 0..Len(ls) /\ line \in line..Len(ls) /\ line # 0 /\ ~(line > n) /\ line <= n
    BY <1>2
  <2>2. InsertLine(t, line, new, TRUE) = Spliced(ls, line, line, new)
    BY <1>2, <2>1 DEF InsertLine
  <2>3. KeepsLines(SplitLines(Spliced(ls, line, line, new)), ls, line, line, new)
    BY <1>1, <1>6, <2>1, SplicedLines
  <2> QED BY <2>2, <2>3
<1> QED BY <1>3, <1>4, <1>5, <1>6

(* The lines outside an edit, in every text.                               *)
LEMMA LinesStay ==
    ASSUME text \in Seq(Chars)
    PROVE  LinesOutsideStay
<1>1. PICK ls \in Seq(Seq(Chars)), n \in Nat :
         ls = Lines /\ ls = SplitLines(text) /\ n = Len(ls) /\ DOMAIN ls = 1..n
  BY SplitGivesLines, LenProperties DEF Lines, AreLines
<1>2. ASSUME NEW new \in NewTexts
      PROVE  /\ \A start, end \in 0..n + 1 :
                  IF 1 <= start /\ start <= end /\ end <= n
                  THEN KeepsLines(SplitLines(ReplaceLines(text, start, end, new)),
                                  ls, start - 1, end, new)
                  ELSE ReplaceLines(text, start, end, new) = Refused
             /\ \A line \in DOMAIN ls :
                  /\ KeepsLines(SplitLines(InsertLine(text, line, new, FALSE)),
                                ls, line - 1, line - 1, new)
                  /\ EndsWith(ls[line], NL) =>
                       KeepsLines(SplitLines(InsertLine(text, line, new, TRUE)),
                                  ls, line, line, new)
  <2>1. new \in Seq(Chars)
    BY NewTextsType
  <2>2. ASSUME NEW start \in 0..n + 1, NEW end \in 0..n + 1
        PROVE  IF 1 <= start /\ start <= end /\ end <= n
               THEN KeepsLines(SplitLines(ReplaceLines(text, start, end, new)),
                               ls, start - 1, end, new)
               ELSE ReplaceLines(text, start, end, new) = Refused
    <3>1. start \in Nat /\ end \in Nat
      OBVIOUS
    <3> HIDE DEF KeepsLines
    <3> QED BY <1>1, <2>1, <3>1, RangeReplaced
  <2>3. ASSUME NEW line \in 1..n
        PROVE  /\ KeepsLines(SplitLines(InsertLine(text, line, new, FALSE)),
                             ls, line - 1, line - 1, new)
               /\ EndsWith(ls[line], NL) =>
                    KeepsLines(SplitLines(InsertLine(text, line, new, TRUE)),
                               ls, line, line, new)
    BY <1>1, <2>1, LinesInserted
  <2> QED BY <1>1, <2>2, <2>3
<1>3. \A new \in NewTexts :
         /\ \A start, end \in 0..Len(Lines) + 1 :
               IF 1 <= start /\ start <= end /\ end <= Len(Lines)
               THEN KeepsLines(SplitLines(ReplaceLines(text, start, end, new)),
                               Lines, start - 1, end, new)
               ELSE ReplaceLines(text, start, end, new) = Refused
         /\ \A line \in DOMAIN Lines :
               /\ KeepsLines(SplitLines(InsertLine(text, line, new, FALSE)),
                             Lines, line - 1, line - 1, new)
               /\ EndsWith(Lines[line], NL) =>
                    KeepsLines(SplitLines(InsertLine(text, line, new, TRUE)),
                               Lines, line, line, new)
  <2> HIDE DEF KeepsLines, EndsWith
  <2> QED BY <1>1, <1>2
<1> QED BY <1>3, Zenon DEF LinesOutsideStay, KeepsLines

LEMMA ReplacedType ==
    ASSUME NEW t \in Seq(Chars), NEW new \in Seq(Chars),
           NEW s \in 0..Len(t), NEW e \in 0..Len(t)
    PROVE  Replaced(t, s, e, new) \in Seq(Chars)
<1>1. PICK n \in Nat : n = Len(t)
  BY LenProperties
<1>2. SubSeq(t, 1, s) \in Seq(Chars)
  <2>1. PICK o \in 0..Len(t) : o = 0 /\ o + 1 = 1 /\ s \in o..Len(t)
    BY <1>1
  <2> QED BY <2>1, PartOf
<1>3. SubSeq(t, e + 1, n) \in Seq(Chars)
  <2>1. e \in 0..Len(t) /\ n \in e..Len(t)
    BY <1>1
  <2> QED BY <2>1, PartOf
<1>4. SubSeq(t, 1, s) \o new \in Seq(Chars)
  BY <1>2, ConcatProperties
<1>5. (SubSeq(t, 1, s) \o new) \o SubSeq(t, e + 1, n) \in Seq(Chars)
  BY <1>3, <1>4, ConcatProperties
<1> QED BY <1>1, <1>5 DEF Replaced

LEMMA UniqueType ==
    ASSUME NEW t \in Seq(Chars), NEW old \in Seq(Chars), old # <<>>,
           NEW new \in Seq(Chars), UniqueReplace(t, old, new) # Refused
    PROVE  UniqueReplace(t, old, new) \in Seq(Chars)
<1>1. PICK n \in Nat, m \in Nat \ {0} : n = Len(t) /\ m = Len(old)
  BY LenProperties, EmptySeq
<1>2. PICK found : found = Matches(t, old)
  OBVIOUS
<1>3. FoundUpTo(t, old, found, n)
  BY <1>1, <1>2, MatchesFound
<1>4. Len(found) = 1 /\ UniqueReplace(t, old, new) = Replaced(t, found[1], found[1] + Len(old), new)
  BY <1>2 DEF UniqueReplace
<1>5. found # <<>>
  <2>1. Len(found) = 1
    BY <1>4
  <2>2. found = <<>> => Len(found) = 0
    BY EmptySeq
  <2> QED BY <2>1, <2>2
<1>6. PICK s \in 0..n - 1 : s = found[1] /\ OccursAt(t, old, s)
  BY <1>3, <1>5 DEF FoundUpTo
<1>7. s + m <= n
  BY <1>1, <1>6 DEF OccursAt
<1>8. PICK e \in 0..Len(t) : e = s + m /\ s \in 0..Len(t)
  <2>1. s + m \in 0..n /\ s \in 0..n
    BY <1>1, <1>7
  <2> QED BY <1>1, <2>1
<1>9. Replaced(t, s, e, new) \in Seq(Chars)
  BY <1>8, ReplacedType
<1> QED BY <1>1, <1>4, <1>6, <1>8, <1>9

LEMMA InsertedType ==
    ASSUME NEW t \in Seq(Chars), NEW line \in Nat, NEW new \in Seq(Chars),
           NEW after \in BOOLEAN, InsertLine(t, line, new, after) # Refused
    PROVE  InsertLine(t, line, new, after) \in Seq(Chars)
<1>1. PICK ls \in Seq(Seq(Chars)), n \in Nat : ls = SplitLines(t) /\ n = Len(ls)
  BY SplitGivesLines, LenProperties DEF AreLines
<1>2. PICK i : i = IF after /\ line <= n THEN line ELSE line - 1
  OBVIOUS
<1>3. InsertLine(t, line, new, after) = IF line = 0 \/ (line > n /\ line > 1) THEN Refused
                                        ELSE Spliced(ls, i, i, new)
  BY <1>1, <1>2 DEF InsertLine
<1>4. line # 0 /\ ~(line > n /\ line > 1)
  BY <1>3
<1>5. i \in 0..n
  BY <1>2, <1>4
<1>6. PICK break \in Seq(Chars) :
         break = IF new # <<>> /\ ~EndsWith(new, NL) /\ i < n THEN <<NL>> ELSE <<>>
  <2>1. <<NL>> \in Seq(Chars)
    BY CharsAssumption, OneCharacter
  <2>2. <<>> \in Seq(Chars)
    BY EmptySeq
  <2> HIDE DEF EndsWith
  <2> QED BY <2>1, <2>2
<1>7. PICK a \in Seq(Chars) : a = FlattenSeq(SubSeq(ls, 1, i))
  <2>1. PICK U : U = Seq(Chars)
    OBVIOUS
  <2>2. PICK o \in 0..Len(ls) : o = 0 /\ o + 1 = 1 /\ i \in o..Len(ls)
    BY <1>1, <1>5
  <2>3. ls \in Seq(U)
    BY <1>1, <2>1
  <2>4. SubSeq(ls, o + 1, i) \in Seq(U)
    BY <2>2, <2>3, PartOf
  <2> QED BY <2>1, <2>2, <2>4, FlattenType
<1>8. PICK b \in Seq(Chars) : b = FlattenSeq(SubSeq(ls, i + 1, n))
  <2>1. PICK U : U = Seq(Chars)
    OBVIOUS
  <2>2. i \in 0..Len(ls) /\ n \in i..Len(ls)
    BY <1>1, <1>5
  <2>3. ls \in Seq(U)
    BY <1>1, <2>1
  <2>4. SubSeq(ls, i + 1, n) \in Seq(U)
    BY <2>2, <2>3, PartOf
  <2> QED BY <2>1, <2>4, FlattenType
<1>9. Spliced(ls, i, i, new) = a \o new \o break \o b
  BY <1>1, <1>6, <1>7, <1>8 DEF Spliced
<1>10. a \o new \o break \o b \in Seq(Chars)
  <2>1. a \o new \in Seq(Chars)
    BY ConcatProperties
  <2>2. (a \o new) \o break \in Seq(Chars)
    BY <2>1, ConcatProperties
  <2>3. ((a \o new) \o break) \o b \in Seq(Chars)
    BY <2>2, ConcatProperties
  <2> QED BY <2>3
<1> QED BY <1>3, <1>4, <1>9, <1>10

(* An offset is given a position that is taken for that offset.            *)
LEMMA OffsetBack ==
    ASSUME text \in Seq(Chars), NEW q \in 0..Len(text)
    PROVE  LspPositionToOffset(text, PositionOf(q)) = q
<1>1. PICK ls : ls = SplitLines(text)
  OBVIOUS
<1>2. PICK l, k : /\ Addressed(ls, l) /\ k \in 0..Len(Source(ls, l))
                  /\ q = Base(ls, l) + k
  BY <1>1, PlaceOf
<1>3. PICK src \in Seq(Chars) : src = Source(ls, l)
  BY <1>1, <1>2, SourcePlace
<1>4. l \in Nat
  BY <1>1, <1>2, SplitGivesLines, LenProperties DEF Addressed, AreLines
<1>5. PICK p : p = PositionOf(q) /\ p.line = l /\ p.character = Width(SubSeq(src, 1, k))
  <2>1. PositionOf(q) = [line |-> l, character |-> Width(SubSeq(src, 1, k))]
    BY <1>1, <1>2, <1>3, PositionAt
  <2> QED BY <2>1
<1>6. PICK fits : fits = {j \in 0..Len(Source(ls, l)) :
                            Width(SubSeq(Source(ls, l), 1, j)) = p.character}
  OBVIOUS
<1>7. k \in fits
  BY <1>2, <1>3, <1>5, <1>6
<1>8. \E j \in fits : LspPositionToOffset(text, p) = Base(ls, l) + j
  BY <1>1, <1>2, <1>4, <1>5, <1>6, <1>7, OffsetAt
<1>9. \A j \in fits : j = k
  BY <1>2, <1>3, <1>5, <1>6, WidthsDiffer
<1> QED BY <1>2, <1>5, <1>8, <1>9

(* Edits applied to a text one after the other.                            *)
AppliedInTurn(t, es) ==
    FoldLeft(LAMBDA u, e : Replaced(u, e.start, e.end, e.new), t, es)

(* The texts on the way.                                                   *)
Stages(g, t, es, n) ==
    /\ g[0] = t
    /\ \A k \in 1..n :
         g[k] = Replaced(g[k - 1], es[k].start, es[k].end, es[k].new)

(* apply_text_edits goes through its sorted edits from the first.          *)
LEMMA EditsByPlace ==
    ASSUME NEW t, NEW es, NEW n \in Nat, DOMAIN es = 1..n
    PROVE  \E g : Stages(g, t, es, n) /\ AppliedInTurn(t, es) = g[n]
<1> DEFINE next(it, s) == Replaced(it[s \ {Max(s)}], es[Max(s)].start,
                                   es[Max(s)].end, es[Max(s)].new)
           Fold(it, k) == it = [s \in SUBSET (1..k) |->
                                  IF s = {} THEN t ELSE next(it, s)]
           T == {k \in Nat : k <= n => \E it : Fold(it, k)}
<1>1. \E it : Fold(it, 0)
  <2> DEFINE it == [s \in SUBSET (1..0) |-> t]
  <2>1. \A s \in SUBSET (1..0) : s = {}
    OBVIOUS
  <2>2. it = [s \in SUBSET (1..0) |-> IF s = {} THEN t ELSE next(it, s)]
    BY <2>1
  <2> QED BY <2>2
<1>2. ASSUME NEW k \in Nat, NEW it, Fold(it, k), k + 1 <= n
      PROVE  \E jt : Fold(jt, k + 1)
  <2> DEFINE value(s) == IF s = {} THEN t ELSE next(it, s)
             jt == [s \in SUBSET (1..(k + 1)) |-> value(s)]
  <2>1. ASSUME NEW s \in SUBSET (1..(k + 1)), s # {}
        PROVE  s \ {Max(s)} \in SUBSET (1..k)
    <3>1. k + 1 \in Nat
      OBVIOUS
    <3>2. PICK m : m = Max(s) /\ m \in s /\ \A i \in s : i <= m
      BY <2>1, <3>1, LastNumber
    <3>3. \A i \in s : i \in 1..(k + 1)
      BY <2>1
    <3>4. m \in 1..(k + 1)
      BY <3>2, <3>3
    <3>5. ASSUME NEW i \in s \ {m} PROVE i \in 1..k
      <4>1. i <= m /\ i # m /\ i \in 1..(k + 1)
        BY <3>2, <3>3
      <4> QED BY <3>4, <4>1
    <3> QED BY <3>2, <3>5
  <2>2. \A s \in SUBSET (1..k) : s \in SUBSET (1..(k + 1)) /\ it[s] = value(s)
    <3>1. \A s \in SUBSET (1..k) : it[s] = value(s)
      <4> HIDE DEF next
      <4> QED BY <1>2
    <3>2. \A s \in SUBSET (1..k) : s \in SUBSET (1..(k + 1))
      OBVIOUS
    <3> HIDE DEF value
    <3> QED BY <3>1, <3>2
  <2>3. \A s \in SUBSET (1..k) : jt[s] = it[s]
    <3> HIDE DEF value
    <3> QED BY <2>2
  <2>4. ASSUME NEW s \in SUBSET (1..(k + 1))
        PROVE  value(s) = IF s = {} THEN t ELSE next(jt, s)
    <3>1. s # {} => it[s \ {Max(s)}] = jt[s \ {Max(s)}]
      <4> HIDE DEF jt
      <4> QED BY <2>1, <2>3
    <3> HIDE DEF jt
    <3> QED BY <3>1
  <2>5. jt = [s \in SUBSET (1..(k + 1)) |-> IF s = {} THEN t ELSE next(jt, s)]
    <3>1. jt = [s \in SUBSET (1..(k + 1)) |-> value(s)]
      OBVIOUS
    <3> HIDE DEF jt, value, next
    <3> QED BY <2>4, <3>1
  <2> QED BY <2>5
<1>3. 0 \in T /\ \A k \in Nat : k \in T => k + 1 \in T
  <2> HIDE DEF Fold
  <2> QED BY <1>1, <1>2
<1> HIDE DEF T
<1>4. n \in T
  BY <1>3, Induction
<1>5. \E it : Fold(it, n)
  <2> HIDE DEF Fold
  <2> QED BY <1>4 DEF T
<1>6. PICK last : last = AppliedInTurn(t, es)
  OBVIOUS
<1>7. last = (CHOOSE it : Fold(it, n))[1..n]
  <2>1. last = (CHOOSE it : it = [s \in SUBSET DOMAIN es |->
                     IF s = {} THEN t
                     ELSE Replaced(it[s \ {Max(s)}], es[Max(s)].start,
                                   es[Max(s)].end, es[Max(s)].new)])[DOMAIN es]
    BY <1>6 DEF AppliedInTurn, FoldLeft, MapThenFoldSet
  <2> QED BY <2>1
<1>8. PICK it : Fold(it, n) /\ last = it[1..n]
  <2> HIDE DEF Fold
  <2> QED BY <1>5, <1>7
<1>9. it[{}] = t
  BY <1>8
<1>10. ASSUME NEW k \in 1..n
       PROVE  it[1..k] = Replaced(it[1..(k - 1)], es[k].start, es[k].end, es[k].new)
  <2>1. Max(1..k) = k /\ 1..k # {} /\ 1..k \ {k} = 1..(k - 1)
    <3> HIDE DEF next, Fold
    <3>1. k \in Nat /\ k > 0
      OBVIOUS
    <3> QED BY <3>1, LastOfRange
  <2>2. 1..k \in SUBSET (1..n)
    OBVIOUS
  <2>3. it[1..k] = next(it, 1..k)
    <3> HIDE DEF next
    <3> QED BY <1>8, <2>1, <2>2
  <2> QED BY <2>1, <2>3
<1> DEFINE g == [k \in 0..n |-> it[1..k]]
<1>11. g[0] = t /\ g[n] = it[1..n]
  <2>1. 1..0 = {}
    OBVIOUS
  <2> QED BY <1>9, <2>1
<1>12. \A k \in 1..n : g[k] = Replaced(g[k - 1], es[k].start, es[k].end, es[k].new)
  BY <1>10
<1> HIDE DEF g
<1>13. Stages(g, t, es, n)
  BY <1>11, <1>12 DEF Stages
<1> QED BY <1>6, <1>8, <1>11, <1>13

(* Edits whose ranges are offsets.                                         *)
AreRanges(es, n) ==
    /\ DOMAIN es = 1..n /\ Len(es) = n
    /\ \A i \in 1..n : es[i].start \in Nat /\ es[i].end \in Nat

LEMMA PrecedesOrders ==
    ASSUME NEW es, NEW n \in Nat, AreRanges(es, n),
           NEW i \in 1..n, NEW j \in 1..n
    PROVE  /\ ~Precedes(es, i, i)
           /\ i # j => Precedes(es, i, j) \/ Precedes(es, j, i)
           /\ \A k \in 1..n : Precedes(es, i, j) /\ Precedes(es, j, k) => Precedes(es, i, k)
<1>1. PICK a, b : \A k \in 1..n : /\ a[k] = es[k].start /\ a[k] \in Nat
                                  /\ b[k] = es[k].end /\ b[k] \in Nat
  <2>1. \A k \in 1..n : es[k].start \in Nat /\ es[k].end \in Nat
    BY DEF AreRanges
  <2> DEFINE a == [k \in 1..n |-> es[k].start]
             b == [k \in 1..n |-> es[k].end]
  <2>2. \A k \in 1..n : /\ a[k] = es[k].start /\ a[k] \in Nat
                        /\ b[k] = es[k].end /\ b[k] \in Nat
    BY <2>1
  <2> HIDE DEF a, b
  <2> QED BY <2>2
<1>2. \A k, l \in 1..n : Precedes(es, k, l) <=>
         \/ a[k] > a[l]
         \/ a[k] = a[l] /\ b[k] > b[l]
         \/ a[k] = a[l] /\ b[k] = b[l] /\ k < l
  BY <1>1 DEF Precedes
<1>3. ~Precedes(es, i, i)
  BY <1>1, <1>2
<1>4. i # j => Precedes(es, i, j) \/ Precedes(es, j, i)
  BY <1>1, <1>2
<1>5. ASSUME NEW k \in 1..n, Precedes(es, i, j), Precedes(es, j, k)
      PROVE  Precedes(es, i, k)
  BY <1>1, <1>2, <1>5
<1> QED BY <1>3, <1>4, <1>5

(* How many edits precede an edit.                                         *)
PlaceIn(es, i) == Cardinality({j \in DOMAIN es : Precedes(es, j, i)}) + 1

LEMMA PlacesDiffer ==
    ASSUME NEW es, NEW n \in Nat, AreRanges(es, n)
    PROVE  /\ \A i \in 1..n : PlaceIn(es, i) \in 1..n
           /\ \A i, j \in 1..n : Precedes(es, i, j) => PlaceIn(es, i) < PlaceIn(es, j)
<1>1. DOMAIN es = 1..n
  BY DEF AreRanges
<1>2. IsFiniteSet(1..n) /\ Cardinality(1..n) = n
  <2>1. 1 \in Int /\ n \in Int /\ (1 > n => n = 0) /\ n - 1 + 1 = n
    OBVIOUS
  <2> QED BY <2>1, FS_Interval
<1> DEFINE Before(i) == {j \in 1..n : Precedes(es, j, i)}
<1>3. ASSUME NEW i \in 1..n, NEW s, s \subseteq Before(i)
      PROVE  /\ IsFiniteSet(s) /\ Cardinality(s) \in Nat
             /\ Cardinality(s) <= Cardinality(Before(i))
             /\ IsFiniteSet(Before(i)) /\ Cardinality(Before(i)) \in Nat
  <2>1. PICK S : S = Before(i)
    OBVIOUS
  <2>2. S \subseteq 1..n
    BY <2>1
  <2> HIDE DEF Before
  <2>3. IsFiniteSet(S)
    BY <1>2, <2>2, FS_Subset
  <2>4. IsFiniteSet(s) /\ Cardinality(s) <= Cardinality(S)
    BY <1>3, <2>1, <2>3, FS_Subset
  <2> QED BY <2>1, <2>3, <2>4, FS_CardinalityType
<1>4. \A i \in 1..n : PlaceIn(es, i) = Cardinality(Before(i)) + 1
  BY <1>1 DEF PlaceIn
<1>5. ASSUME NEW i \in 1..n, NEW j \in 1..n, Precedes(es, i, j)
      PROVE  Cardinality(Before(i)) + 1 <= Cardinality(Before(j))
  <2>1. Before(i) \cup {i} \subseteq Before(j)
    <3> HIDE DEF Precedes
    <3> QED BY <1>5, PrecedesOrders
  <2>2. i \notin Before(i)
    <3> HIDE DEF Precedes
    <3> QED BY PrecedesOrders
  <2>3. PICK s, t, b : s = Before(i) \cup {i} /\ t = Before(j) /\ b = Before(i)
    OBVIOUS
  <2>4. IsFiniteSet(b) /\ Cardinality(b) \in Nat
    BY <1>3, <2>3
  <2> HIDE DEF Before
  <2>5. Cardinality(s) = Cardinality(b) + 1
    BY <2>2, <2>3, <2>4, FS_AddElement
  <2>6. Cardinality(s) <= Cardinality(t)
    BY <1>3, <2>1, <2>3
  <2> QED BY <2>3, <2>5, <2>6
<1>6. ASSUME NEW i \in 1..n PROVE Cardinality(Before(i)) \in 0..n - 1
  <2>1. Before(i) \subseteq 1..n \ {i}
    <3> HIDE DEF Precedes
    <3> QED BY PrecedesOrders
  <2>2. PICK b, r : b = Before(i) /\ r = 1..n \ {i}
    OBVIOUS
  <2> HIDE DEF Before
  <2>3. IsFiniteSet(r) /\ Cardinality(r) = n - 1
    BY <1>2, <2>2, FS_RemoveElement
  <2>4. IsFiniteSet(b) /\ Cardinality(b) <= n - 1
    BY <2>1, <2>2, <2>3, FS_Subset
  <2>5. Cardinality(b) \in Nat
    BY <2>4, FS_CardinalityType
  <2> QED BY <2>2, <2>4, <2>5
<1> HIDE DEF Before
<1>7. \A i, j \in 1..n : Precedes(es, i, j) => PlaceIn(es, i) < PlaceIn(es, j)
  BY <1>4, <1>5, <1>6
<1>8. \A i \in 1..n : PlaceIn(es, i) \in 1..n
  BY <1>4, <1>6
<1> QED BY <1>7, <1>8

(* order puts the edits in the order in which they are applied.            *)
IsOrder(order, es, n) ==
    /\ order \in [1..n -> 1..n]
    /\ \A i \in 1..n : \E m \in 1..n : order[m] = i
    /\ \A l, m \in 1..n : l < m => Precedes(es, order[l], order[m])

LEMMA SortedFromTheEnd ==
    ASSUME NEW es, NEW n \in Nat, AreRanges(es, n)
    PROVE  \E order : /\ IsOrder(order, es, n)
                      /\ FromTheEnd(es) = [m \in 1..n |-> es[order[m]]]
<1>1. DOMAIN es = 1..n
  BY DEF AreRanges
<1> DEFINE place == [i \in 1..n |-> PlaceIn(es, i)]
           order == [m \in 1..n |-> CHOOSE i \in 1..n : PlaceIn(es, i) = m]
<1>2. place \in [1..n -> 1..n]
  BY PlacesDiffer
<1>3. \A i, j \in 1..n : i # j => PlaceIn(es, i) # PlaceIn(es, j)
  <2>1. \A i, j \in 1..n : i # j => Precedes(es, i, j) \/ Precedes(es, j, i)
    BY PrecedesOrders
  <2>2. /\ \A i \in 1..n : PlaceIn(es, i) \in 1..n
        /\ \A i, j \in 1..n : Precedes(es, i, j) => PlaceIn(es, i) < PlaceIn(es, j)
    BY PlacesDiffer
  <2> QED BY <2>1, <2>2
<1>4. \A i, j \in 1..n : place[i] = place[j] => i = j
  BY <1>3
<1>5. \A m \in 1..n : \E i \in 1..n : place[i] = m
  <2> HIDE DEF place
  <2>1. IsFiniteSet(1..n)
    BY FS_Interval
  <2>2. place \in Injection(1..n, 1..n)
    BY <1>2, <1>4, Fun_IsInj
  <2>3. place \in Surjection(1..n, 1..n)
    BY <2>1, <2>2, FS_Injection
  <2> QED BY <2>3, Fun_SurjectionProperties
<1>6. \A m \in 1..n : order[m] \in 1..n /\ PlaceIn(es, order[m]) = m
  <2>1. \A m \in 1..n : \E i \in 1..n : PlaceIn(es, i) = m
    BY <1>5
  <2> QED BY <2>1
<1>7. \A i \in 1..n : \E m \in 1..n : order[m] = i
  <2> SUFFICES ASSUME NEW i \in 1..n PROVE \E m \in 1..n : order[m] = i
    OBVIOUS
  <2> HIDE DEF order
  <2>1. PICK m \in 1..n : m = PlaceIn(es, i)
    BY PlacesDiffer
  <2>2. order[m] \in 1..n /\ PlaceIn(es, order[m]) = PlaceIn(es, i)
    BY <1>6, <2>1
  <2> QED BY <1>3, <2>2
<1>8. ASSUME NEW l \in 1..n, NEW m \in 1..n, l < m
      PROVE  Precedes(es, order[l], order[m])
  <2> HIDE DEF order
  <2>1. PICK i \in 1..n, j \in 1..n : /\ i = order[l] /\ j = order[m]
                                      /\ PlaceIn(es, i) = l /\ PlaceIn(es, j) = m
    BY <1>6
  <2>2. ~Precedes(es, j, i)
    <3>1. Precedes(es, j, i) => PlaceIn(es, j) < PlaceIn(es, i)
      BY PlacesDiffer
    <3> QED BY <1>8, <2>1, <3>1
  <2>3. i # j
    BY <1>8, <2>1
  <2> QED BY <2>1, <2>2, <2>3, PrecedesOrders
<1>9. order \in [1..n -> 1..n]
  BY <1>6
<1>10. FromTheEnd(es) = [m \in 1..n |-> es[order[m]]]
  <2>1. FromTheEnd(es) = [m \in 1..n |-> es[CHOOSE i \in 1..n : PlaceIn(es, i) = m]]
    <3>1. FromTheEnd(es) = [m \in DOMAIN es |->
                              es[CHOOSE i \in DOMAIN es : PlaceIn(es, i) = m]]
      BY Zenon DEF FromTheEnd, PlaceIn
    <3> HIDE DEF PlaceIn
    <3> QED BY <1>1, <3>1
  <2> QED BY <2>1
<1> HIDE DEF order
<1>11. IsOrder(order, es, n)
  <2> HIDE DEF Precedes
  <2> QED BY <1>7, <1>8, <1>9 DEF IsOrder
<1> QED BY <1>10, <1>11

(* An edit that ends behind the start of the one applied before it.        *)
Adjoining(es, order, n) ==
    \E m \in 1..n - 1 : es[order[m + 1]].end > es[order[m]].start

Ordered(es, order, n) == [m \in 1..n |-> es[order[m]]]

(* The edits are refused, or applied in their order.                       *)
LEMMA AppliedInOrder ==
    ASSUME NEW t, NEW es, NEW n \in Nat, AreRanges(es, n)
    PROVE  \E order, g :
              /\ IsOrder(order, es, n)
              /\ Stages(g, t, Ordered(es, order, n), n)
              /\ ApplyRanges(t, es) = IF Adjoining(es, order, n) THEN Refused ELSE g[n]
<1>1. PICK order : /\ IsOrder(order, es, n)
                   /\ FromTheEnd(es) = [m \in 1..n |-> es[order[m]]]
  BY SortedFromTheEnd
<1>2. PICK sorted : sorted = FromTheEnd(es)
  OBVIOUS
<1>3. DOMAIN sorted = 1..n /\ \A m \in 1..n : sorted[m] = es[order[m]]
  BY <1>1, <1>2
<1>4. Len(sorted) = n
  <2>1. \A m \in 1..n : order[m] \in 1..n
    BY <1>1 DEF IsOrder
  <2>2. PICK E : E = {es[i] : i \in 1..n}
    OBVIOUS
  <2>3. sorted \in [1..n -> E]
    <3>1. \A m \in 1..n : sorted[m] \in E
      BY <1>3, <2>1, <2>2
    <3>2. sorted = [m \in 1..n |-> es[order[m]]]
      BY <1>1, <1>2
    <3> QED BY <3>1, <3>2
  <2> QED BY <2>3, SeqDef, LenProperties
<1>5. PICK g : Stages(g, t, sorted, n) /\ AppliedInTurn(t, sorted) = g[n]
  BY <1>3, EditsByPlace
<1>6. ApplyRanges(t, es) = IF Overlapping(sorted) THEN Refused ELSE g[n]
  <2>1. ApplyRanges(t, es) = IF Overlapping(sorted) THEN Refused
                             ELSE AppliedInTurn(t, sorted)
    BY <1>2, Zenon DEF ApplyRanges, AppliedInTurn
  <2> QED BY <1>5, <2>1
<1>7. Overlapping(sorted) <=> Adjoining(es, order, n)
  <2>1. Overlapping(sorted) <=>
          \E m \in 1..n - 1 : sorted[m + 1].end > sorted[m].start
    BY <1>4 DEF Overlapping
  <2>2. \A m \in 1..n - 1 : /\ sorted[m + 1] = es[order[m + 1]]
                            /\ sorted[m] = es[order[m]]
    <3>1. \A m \in 1..n - 1 : m \in 1..n /\ m + 1 \in 1..n
      OBVIOUS
    <3> QED BY <1>3, <3>1
  <2> QED BY <2>1, <2>2 DEF Adjoining
<1>8. sorted = Ordered(es, order, n)
  BY <1>1, <1>2 DEF Ordered
<1> QED BY <1>1, <1>5, <1>6, <1>7, <1>8

LEMMA OneEditApplied ==
    ASSUME NEW t, NEW start \in Nat, NEW end \in Nat, NEW new
    PROVE  ApplyRanges(t, <<[start |-> start, end |-> end, new |-> new]>>)
             = Replaced(t, start, end, new)
<1>0. PICK e : e = [start |-> start, end |-> end, new |-> new]
  OBVIOUS
<1>1. e.start = start /\ e.end = end /\ e.new = new
  BY <1>0
<1>2. PICK es : es = <<e>>
  OBVIOUS
<1>3. PICK one \in Nat : one = 1 /\ 1..one = {1} /\ 1..one - 1 = {} /\ one - 1 = 0
  OBVIOUS
<1>4. es[1] = e /\ DOMAIN es = 1..one /\ Len(es) = one
  BY <1>2, <1>3
<1>5. AreRanges(es, one)
  BY <1>1, <1>3, <1>4 DEF AreRanges
<1>6. PICK order, g :
         /\ IsOrder(order, es, one)
         /\ Stages(g, t, Ordered(es, order, one), one)
         /\ ApplyRanges(t, es) = IF Adjoining(es, order, one) THEN Refused ELSE g[one]
  BY <1>5, AppliedInOrder
<1>7. order[1] = 1
  BY <1>3, <1>6 DEF IsOrder
<1>8. ApplyRanges(t, es) = g[1]
  BY <1>3, <1>6 DEF Adjoining
<1>9. g[1] = Replaced(t, start, end, new)
  <2>1. PICK sorted : sorted = Ordered(es, order, one) /\ sorted[1] = es[order[1]]
    <3>1. Ordered(es, order, one)[1] = es[order[1]]
      BY <1>3 DEF Ordered
    <3> QED BY <3>1
  <2>2. g[0] = t /\ g[1] = Replaced(g[1 - 1], sorted[1].start, sorted[1].end, sorted[1].new)
    BY <1>3, <1>6, <2>1 DEF Stages
  <2>3. 1 - 1 = 0
    OBVIOUS
  <2> QED BY <1>1, <1>4, <1>7, <2>1, <2>2, <2>3
<1> QED BY <1>0, <1>2, <1>8, <1>9

(* The text of a document, however long it may become.                     *)
TextInv == text \in Seq(Chars) /\ Len(text) <= MaxLength

LEMMA EditedType ==
    ASSUME NEW updated, Edited(updated), updated # Refused => updated \in Seq(Chars)
    PROVE  TextInv'
BY DEF Edited, TextInv

LEMMA TextStep ==
    ASSUME TextInv, [Next]_vars
    PROVE  TextInv'
<1>1. text \in Seq(Chars)
  BY DEF TextInv
<1>2. Len(Lines) \in Nat /\ Len(text) \in Nat
  BY <1>1, SplitGivesLines, LenProperties DEF Lines, AreLines
<1>3. CASE ReplaceExact
  <2>1. PICK old \in NewTexts \ {<<>>}, new \in NewTexts :
           Edited(UniqueReplace(text, old, new))
    BY <1>3 DEF ReplaceExact
  <2>2. old \in Seq(Chars) /\ old # <<>> /\ new \in Seq(Chars)
    BY NewTextsType
  <2> QED BY <1>1, <2>1, <2>2, UniqueType, EditedType
<1>4. CASE ReplaceLineRange
  <2>1. PICK start \in 0..Len(Lines) + 1, end \in 0..Len(Lines) + 1, new \in NewTexts :
           Edited(ReplaceLines(text, start, end, new))
    BY <1>4 DEF ReplaceLineRange
  <2>2. start \in Nat /\ end \in Nat /\ new \in Seq(Chars)
    BY <1>2, NewTextsType
  <2>3. PICK updated : updated = ReplaceLines(text, start, end, new)
    OBVIOUS
  <2>4. updated # Refused => updated \in Seq(Chars)
    <3>1. PICK ls : ls = SplitLines(text)
      OBVIOUS
    <3> HIDE DEF KeepsLines
    <3> QED BY <1>1, <2>2, <2>3, <3>1, RangeReplaced
  <2> QED BY <2>1, <2>3, <2>4, EditedType
<1>5. CASE InsertBefore \/ InsertAfter
  <2>1. PICK line \in 0..Len(Lines) + 1, new \in NewTexts, after \in BOOLEAN :
           Edited(InsertLine(text, line, new, after))
    BY <1>5 DEF InsertBefore, InsertAfter
  <2>2. line \in Nat /\ new \in Seq(Chars)
    BY <1>2, NewTextsType
  <2> QED BY <1>1, <2>1, <2>2, InsertedType, EditedType
<1>6. CASE ServerEdit
  <2>1. PICK start \in 0..Len(text), end \in 0..Len(text), new \in TextsUpTo(1) :
           Edited(ApplyTextEdits(text, <<[start |-> PositionOf(start),
                                          end |-> PositionOf(end), new |-> new]>>))
    BY <1>6 DEF ServerEdit
  <2>2. new \in Seq(Chars) /\ start \in Nat /\ end \in Nat
    BY <1>2, NewTextsType
  <2>3. PICK asked : asked = <<[start |-> PositionOf(start),
                                end |-> PositionOf(end), new |-> new]>>
    OBVIOUS
  <2>4. PICK updated : updated = ApplyTextEdits(text, asked)
    OBVIOUS
  <2>5. ASSUME updated # Refused PROVE updated \in Seq(Chars)
    <3>1. DOMAIN asked = 1..1 /\ asked[1].start = PositionOf(start)
            /\ asked[1].end = PositionOf(end) /\ asked[1].new = new
      BY <2>3
    <3>2. PICK ranges :
             ranges = [i \in DOMAIN asked |->
                         [start |-> LspPositionToOffset(text, asked[i].start),
                          end |-> LspPositionToOffset(text, asked[i].end),
                          new |-> asked[i].new]]
      OBVIOUS
    <3>3. updated = ApplyRanges(text, ranges)
      BY <2>4, <2>5, <3>2 DEF ApplyTextEdits
    <3>4. PICK one : one = <<[start |-> start, end |-> end, new |-> new]>>
      OBVIOUS
    <3>5. ranges = one
      <4>1. \A i \in 1..1 : i = 1
        OBVIOUS
      <4>2. ranges = [i \in 1..1 |-> [start |-> start, end |-> end, new |-> new]]
        BY <1>1, <3>1, <3>2, <4>1, OffsetBack
      <4> QED BY <3>4, <4>2
    <3>6. updated = Replaced(text, start, end, new)
      BY <2>2, <3>3, <3>4, <3>5, OneEditApplied
    <3> QED BY <1>1, <2>2, <3>6, ReplacedType
  <2> QED BY <2>1, <2>3, <2>4, <2>5, EditedType
<1>7. CASE UNCHANGED vars
  BY <1>7 DEF vars, TextInv
<1> QED BY <1>3, <1>4, <1>5, <1>6, <1>7 DEF Next

(* A document is a text at every time, within its bound: whatever the      *)
(* edits do to offsets, they never take characters from outside of it.     *)
THEOREM DocumentIsText == Spec => []TextInv
<1>1. Init => TextInv
  BY EmptySeq, BoundsAssumption DEF Init, TextInv
<1>2. TextInv /\ [Next]_vars => TextInv'
  BY TextStep
<1> QED BY <1>1, <1>2, PTL DEF Spec

(* An exact replacement changes the one place where the old text is, and   *)
(* is refused if there is none or if there are two.                        *)
THEOREM ExactIsUnique == Spec => []ReplacesTheOnlyMatch
<1>1. ASSUME TextInv PROVE ReplacesTheOnlyMatch
  <2>1. text \in Seq(Chars)
    BY <1>1 DEF TextInv
  <2>2. ASSUME NEW old \in NewTexts \ {<<>>}, NEW new \in TextsUpTo(1)
        PROVE  LET places == {i \in 0..Len(text) : OccursAt(text, old, i)}
                   updated == UniqueReplace(text, old, new)
               IN  /\ places = {} => updated = Refused
                   /\ (\E i, j \in places : i + Len(old) <= j) => updated = Refused
                   /\ \A i \in places : places = {i} =>
                         updated = SubSeq(text, 1, i) \o new
                                      \o SubSeq(text, i + Len(old) + 1, Len(text))
    <3>1. old \in Seq(Chars) /\ old # <<>>
      BY NewTextsType
    <3> HIDE DEF OccursAt, UniqueReplace
    <3> QED BY <2>1, <3>1, ReplacedOnce
  <2> QED BY <2>2 DEF ReplacesTheOnlyMatch
<1> QED BY <1>1, DocumentIsText, PTL

(* Positions of the protocol and offsets of a text denote each other.      *)
THEOREM PositionsDenote == Spec => []PositionsRoundTrip
<1>1. TextInv => PositionsRoundTrip
  BY PositionsAgree DEF TextInv
<1> QED BY <1>1, DocumentIsText, PTL

(* The lines outside a line edit stay as they are.                         *)
THEOREM OtherLinesStay == Spec => []LinesOutsideStay
<1>1. TextInv => LinesOutsideStay
  BY LinesStay DEF TextInv
<1> QED BY <1>1, DocumentIsText, PTL

-----------------------------------------------------------------------------
(* Several edits.  A reference text is cut at the offsets of the document  *)
(* into what comes from each offset on (Sections).  The code applies edits *)
(* from the end: each leaves a beginning of the document untouched, and    *)
(* what follows it is, by then, the section from there on (EditStep).      *)

(* Edits of a text of N characters.                                        *)
AreEdits(es, n, N) ==
    /\ AreRanges(es, n)
    /\ \A i \in 1..n : /\ es[i].start <= es[i].end /\ es[i].end <= N
                       /\ es[i].new \in Seq(Chars)

(* The starts and the ends of the edits, in the order of application.      *)
Limits(a, b, es, order, n, N) ==
    /\ \A m \in 1..n :
         /\ a[m] = es[order[m]].start /\ b[m] = es[order[m]].end
         /\ a[m] \in Nat /\ b[m] \in Nat /\ a[m] <= b[m] /\ b[m] <= N
    /\ \A l, m \in 1..n : l < m =>
         /\ order[l] # order[m]
         /\ (a[m] < a[l] \/ (a[m] = a[l] /\ b[m] <= b[l]))

LEMMA InOrder ==
    ASSUME NEW es, NEW n \in Nat, NEW N \in Nat, AreEdits(es, n, N),
           NEW order, IsOrder(order, es, n)
    PROVE  \E a, b : Limits(a, b, es, order, n, N)
<1> DEFINE a == [m \in 1..n |-> es[order[m]].start]
           b == [m \in 1..n |-> es[order[m]].end]
<1>1. \A m \in 1..n : /\ a[m] = es[order[m]].start /\ b[m] = es[order[m]].end
                      /\ order[m] \in 1..n
  BY DEF IsOrder
<1>2. \A i \in 1..n : /\ es[i].start \in Nat /\ es[i].end \in Nat
                      /\ es[i].start <= es[i].end /\ es[i].end <= N
  BY DEF AreEdits, AreRanges
<1> HIDE DEF a, b
<1>3. \A m \in 1..n : a[m] \in Nat /\ b[m] \in Nat /\ a[m] <= b[m] /\ b[m] <= N
  BY <1>1, <1>2
<1>4. ASSUME NEW l \in 1..n, NEW m \in 1..n, l < m
      PROVE  /\ order[l] # order[m]
             /\ (a[m] < a[l] \/ (a[m] = a[l] /\ b[m] <= b[l]))
  <2>1. Precedes(es, order[l], order[m])
    BY <1>4 DEF IsOrder
  <2>2. order[l] # order[m]
    BY <1>1, <2>1, PrecedesOrders DEF AreEdits
  <2>3. \/ a[l] > a[m]
        \/ a[l] = a[m] /\ b[l] > b[m]
        \/ a[l] = a[m] /\ b[l] = b[m]
    BY <1>1, <2>1 DEF Precedes
  <2>4. a[l] \in Nat /\ a[m] \in Nat /\ b[l] \in Nat /\ b[m] \in Nat
    BY <1>3
  <2> QED BY <2>2, <2>3, <2>4
<1>5. Limits(a, b, es, order, n, N)
  BY <1>1, <1>3, <1>4 DEF Limits
<1> QED BY <1>5

(* If no neighbours overlap, each edit ends before those applied before it.*)
LEMMA EndsBefore ==
    ASSUME NEW n \in Nat, NEW a, NEW b,
           \A m \in 1..n : a[m] \in Nat /\ b[m] \in Nat /\ a[m] <= b[m],
           \A m \in 1..n - 1 : b[m + 1] <= a[m]
    PROVE  \A l, m \in 1..n : l < m => b[m] <= a[l]
<1> DEFINE T == {m \in Nat : m <= n => \A l \in 1..m - 1 : b[m] <= a[l]}
<1>1. 0 \in T
  OBVIOUS
<1>2. ASSUME NEW m \in Nat, m \in T PROVE m + 1 \in T
  <2> SUFFICES ASSUME m + 1 <= n, NEW l \in 1..(m + 1) - 1 PROVE b[m + 1] <= a[l]
    OBVIOUS
  <2>1. m \in 1..n - 1 /\ m \in 1..n /\ m + 1 \in 1..n /\ l \in 1..n /\ m <= n
    OBVIOUS
  <2>2. b[m + 1] <= a[m] /\ a[m] <= b[m]
    BY <2>1
  <2>3. b[m + 1] \in Nat /\ a[m] \in Nat /\ b[m] \in Nat /\ a[l] \in Nat
    BY <2>1
  <2>4. l = m \/ l \in 1..m - 1
    OBVIOUS
  <2>5. l \in 1..m - 1 => b[m] <= a[l]
    BY <1>2, <2>1
  <2> QED BY <2>2, <2>3, <2>4, <2>5
<1> HIDE DEF T
<1>3. Nat \subseteq T
  BY <1>1, <1>2, Induction
<1> SUFFICES ASSUME NEW l \in 1..n, NEW m \in 1..n, l < m PROVE b[m] <= a[l]
  OBVIOUS
<1>4. m \in T /\ m <= n /\ l \in 1..m - 1
  BY <1>3
<1> QED BY <1>4 DEF T

(* Neighbours overlap if and only if some edits do.                        *)
LEMMA OverlapsAdjoin ==
    ASSUME NEW es, NEW n \in Nat, NEW N \in Nat, AreEdits(es, n, N),
           NEW order, IsOrder(order, es, n)
    PROVE  Adjoining(es, order, n) <=> Overlap(es)
<1>0. PICK a, b : Limits(a, b, es, order, n, N)
  BY InOrder
<1>1. /\ \A m \in 1..n :
           /\ a[m] = es[order[m]].start /\ b[m] = es[order[m]].end
           /\ a[m] \in Nat /\ b[m] \in Nat /\ a[m] <= b[m] /\ b[m] <= N
      /\ \A l, m \in 1..n : l < m =>
           /\ order[l] # order[m]
           /\ (a[m] < a[l] \/ (a[m] = a[l] /\ b[m] <= b[l]))
  BY <1>0 DEF Limits
<1>2. DOMAIN es = 1..n
  BY DEF AreEdits, AreRanges
<1>3. /\ \A m \in 1..n : order[m] \in 1..n
      /\ \A i \in 1..n : \E m \in 1..n : order[m] = i
  BY DEF IsOrder
<1>4. ASSUME Adjoining(es, order, n) PROVE Overlap(es)
  <2>1. PICK m \in 1..n - 1 : es[order[m + 1]].end > es[order[m]].start
    BY <1>4 DEF Adjoining
  <2>2. m \in 1..n /\ m + 1 \in 1..n /\ m < m + 1
    OBVIOUS
  <2>3. PICK k \in 1..n : k = m + 1
    BY <2>2
  <2>4. b[k] > a[m] /\ order[m] # order[k]
    BY <1>1, <2>1, <2>2, <2>3
  <2>5. a[k] < b[m]
    BY <1>1, <2>2, <2>3, <2>4
  <2>6. /\ order[m] \in 1..n /\ order[k] \in 1..n
        /\ es[order[m]].start < es[order[k]].end
        /\ es[order[k]].start < es[order[m]].end
    BY <1>1, <1>3, <2>2, <2>4, <2>5
  <2> QED BY <1>2, <2>4, <2>6 DEF Overlap
<1>5. ASSUME ~Adjoining(es, order, n) PROVE ~Overlap(es)
  <2>1. \A m \in 1..n - 1 : b[m + 1] <= a[m]
    <3> SUFFICES ASSUME NEW m \in 1..n - 1 PROVE b[m + 1] <= a[m]
      OBVIOUS
    <3>1. ~(es[order[m + 1]].end > es[order[m]].start)
      BY <1>5 DEF Adjoining
    <3>2. PICK k \in 1..n : k = m + 1 /\ m \in 1..n
      <4>1. m + 1 \in 1..n /\ m \in 1..n
        OBVIOUS
      <4> QED BY <4>1
    <3>3. ~(b[k] > a[m]) /\ b[k] \in Nat /\ a[m] \in Nat
      BY <1>1, <3>1, <3>2
    <3> QED BY <3>2, <3>3
  <2>2. \A l, m \in 1..n : l < m => b[m] <= a[l]
    BY <1>1, <2>1, EndsBefore
  <2> SUFFICES ASSUME NEW i \in 1..n, NEW j \in 1..n, i # j,
                      es[i].start < es[j].end, es[j].start < es[i].end
               PROVE  FALSE
    BY <1>2 DEF Overlap
  <2>3. PICK l \in 1..n, m \in 1..n : order[l] = i /\ order[m] = j
    BY <1>3
  <2>4. a[l] < b[m] /\ a[m] < b[l] /\ l # m
    BY <1>1, <2>3
  <2> QED BY <1>1, <2>2, <2>4
<1> QED BY <1>4, <1>5

(* What becomes of a text, cut at its offsets: R[o] is what is there from  *)
(* o on, B[o] the same without what is inserted at o.                      *)
Sections(t, R, B, I, P, K) ==
    /\ \A o \in 0..Len(t) :
         /\ I[o] \in Seq(Chars) /\ P[o] \in Seq(Chars) /\ K[o] \in Seq(Chars)
         /\ B[o] \in Seq(Chars)
         /\ R[o] = I[o] \o B[o]
         /\ B[o] = (P[o] \o K[o]) \o R[o + 1]
    /\ \A o \in 0..Len(t) + 1 : R[o] \in Seq(Chars)

(* Concatenation, where its definition is not to be looked at.             *)
Glued(u, v) == u \o v

LEMMA GluedAssociates ==
    ASSUME NEW S, NEW u \in Seq(S), NEW v \in Seq(S), NEW w \in Seq(S)
    PROVE  Glued(u, Glued(v, w)) = Glued(Glued(u, v), w)
BY DEF Glued

LEMMA NothingJoined ==
    ASSUME NEW S, NEW s \in Seq(S), NEW none, none = <<>>
    PROVE  s \o none = s /\ none \o s = s
BY ConcatEmptySeq

LEMMA SectionKept ==
    ASSUME NEW t \in Seq(Chars), NEW R, NEW B, NEW I, NEW P, NEW K,
           Sections(t, R, B, I, P, K), NEW o \in 0..Len(t) - 1,
           P[o] = <<>>, K[o] = <<t[o + 1]>>
    PROVE  /\ R[o + 1] \in Seq(Chars) /\ <<t[o + 1]>> \in Seq(Chars)
           /\ B[o] = <<t[o + 1]>> \o R[o + 1]
           /\ I[o] = <<>> => R[o] = <<t[o + 1]>> \o R[o + 1]
<1>1. PICK m : m = o + 1 /\ m \in 0..Len(t) + 1 /\ o \in 0..Len(t) /\ m \in 1..Len(t)
  BY LenProperties
<1>2. PICK one, r, i, p, k, b :
         one = <<t[m]>> /\ r = R[m] /\ i = I[o] /\ p = P[o] /\ k = K[o] /\ b = B[o]
  OBVIOUS
<1>3. r \in Seq(Chars) /\ i \in Seq(Chars) /\ b \in Seq(Chars) /\ R[o] = i \o b
      /\ k \in Seq(Chars) /\ b = (p \o k) \o r
  BY <1>1, <1>2 DEF Sections
<1>4. k = one /\ p = <<>>
  BY <1>1, <1>2
<1>5. p \o k = one
  BY <1>3, <1>4, NothingJoined
<1>6. b = one \o r
  BY <1>3, <1>5
<1>7. i = <<>> => R[o] = b
  BY <1>3, NothingJoined
<1> QED BY <1>1, <1>2, <1>3, <1>4, <1>6, <1>7

LEMMA SectionDropped ==
    ASSUME NEW t \in Seq(Chars), NEW R, NEW B, NEW I, NEW P, NEW K,
           Sections(t, R, B, I, P, K), NEW o \in 0..Len(t) - 1, K[o] = <<>>
    PROVE  /\ B[o] = Glued(P[o], R[o + 1])
           /\ (I[o] = <<>> /\ P[o] = <<>>) => R[o] = R[o + 1]
<1>1. PICK m : m = o + 1 /\ m \in 0..Len(t) + 1 /\ o \in 0..Len(t)
  BY LenProperties
<1>2. PICK r, i, p, k, b : r = R[m] /\ i = I[o] /\ p = P[o] /\ k = K[o] /\ b = B[o]
  OBVIOUS
<1>3. /\ r \in Seq(Chars) /\ p \in Seq(Chars) /\ b \in Seq(Chars)
      /\ R[o] = i \o b /\ b = (p \o k) \o r /\ k = <<>>
  BY <1>1, <1>2 DEF Sections
<1>4. p \o k = p
  BY <1>3, NothingJoined
<1>5. b = p \o r
  BY <1>3, <1>4
<1>6. p = <<>> => b = r
  BY <1>3, <1>5, NothingJoined
<1>7. i = <<>> => R[o] = b
  BY <1>3, NothingJoined
<1>8. b = Glued(p, r)
  BY <1>5 DEF Glued
<1> QED BY <1>1, <1>2, <1>6, <1>7, <1>8

(* Where nothing is inserted, put in or left out, the text stays.          *)
LEMMA TextKept ==
    ASSUME NEW t \in Seq(Chars), NEW R, NEW B, NEW I, NEW P, NEW K,
           Sections(t, R, B, I, P, K), NEW b \in 0..Len(t), NEW a \in 0..b,
           \A o \in a..b - 1 : I[o] = <<>> /\ P[o] = <<>> /\ K[o] = <<t[o + 1]>>
    PROVE  R[a] = Glued(SubSeq(t, a + 1, b), R[b])
<1>1. PICK n \in Nat : n = Len(t) /\ b \in 0..n
  BY LenProperties
<1>2. PICK r \in Seq(Chars) : r = R[b]
  BY <1>1 DEF Sections
<1> DEFINE T == {d \in Nat : d <= b - a => R[b - d] = SubSeq(t, (b - d) + 1, b) \o r}
<1>3. 0 \in T
  <2>1. b - 0 = b /\ b \in 0..Len(t) /\ b \in b..Len(t) /\ b - b = 0
    BY <1>1
  <2>2. PICK u : u = SubSeq(t, b + 1, b)
    OBVIOUS
  <2>3. u \in Seq(Chars) /\ Len(u) = 0
    <3>1. b \in 0..Len(t) /\ b \in b..Len(t)
      BY <2>1
    <3>2. u \in Seq(Chars) /\ Len(u) = b - b
      BY <2>2, <3>1, PartOf
    <3> QED BY <2>1, <3>2
  <2>4. u = <<>>
    BY <2>3, EmptySeq
  <2>5. R[b] = u \o r
    BY <1>2, <2>4, NothingJoined
  <2> QED BY <2>1, <2>2, <2>5
<1>4. ASSUME NEW d \in Nat, d \in T PROVE d + 1 \in T
  <2> SUFFICES ASSUME d + 1 <= b - a
               PROVE  R[b - (d + 1)] = SubSeq(t, (b - (d + 1)) + 1, b) \o r
    OBVIOUS
  <2>1. PICK o \in 0..n - 1 : o = b - (d + 1) /\ o + 1 = b - d /\ o \in a..b - 1
    <3>1. /\ b - (d + 1) \in 0..n - 1 /\ b - (d + 1) + 1 = b - d
          /\ b - (d + 1) \in a..b - 1
      BY <1>1
    <3> QED BY <3>1
  <2>2. PICK m \in 1..n : m = o + 1 /\ m = b - d /\ m <= b
    BY <1>1, <2>1
  <2>3. R[m] = SubSeq(t, m + 1, b) \o r
    <3>1. d <= b - a
      BY <1>1
    <3> QED BY <1>4, <2>2, <3>1
  <2>4. /\ <<t[m]>> \in Seq(Chars)
        /\ R[o] = <<t[m]>> \o R[m]
    <3>1. o \in 0..Len(t) - 1 /\ P[o] = <<>> /\ K[o] = <<t[o + 1]>> /\ I[o] = <<>>
      BY <1>1, <2>1
    <3>2. /\ <<t[o + 1]>> \in Seq(Chars)
          /\ R[o] = <<t[o + 1]>> \o R[o + 1]
      BY <3>1, SectionKept
    <3> QED BY <2>2, <3>2
  <2>5. PICK one, v : one = <<t[m]>> /\ v = SubSeq(t, m + 1, b)
    OBVIOUS
  <2>6. v \in Seq(Chars) /\ Len(v) = b - m /\ \A i \in 1..b - m : v[i] = t[m + i]
    <3>1. m \in 0..Len(t) /\ b \in m..Len(t)
      BY <1>1, <2>2
    <3> QED BY <2>5, <3>1, PartOf
  <2>7. PICK w : w = SubSeq(t, o + 1, b)
    OBVIOUS
  <2>8. w \in Seq(Chars) /\ Len(w) = b - o /\ \A i \in 1..b - o : w[i] = t[o + i]
    <3>1. o \in 0..Len(t) /\ b \in o..Len(t)
      BY <1>1, <2>1, <2>2
    <3> QED BY <2>7, <3>1, PartOf
  <2>9. w = one \o v
    <3>1. PICK x : x = one \o v
      OBVIOUS
    <3>2. Len(one) = 1 /\ one[1] = t[m]
      BY <2>5
    <3>3. /\ x \in Seq(Chars) /\ Len(x) = 1 + Len(v) /\ x[1] = t[m]
          /\ \A i \in 1..Len(v) : x[1 + i] = v[i]
      <4>1. /\ x \in Seq(Chars) /\ Len(x) = Len(one) + Len(v)
            /\ \A i \in 1..Len(one) : x[i] = one[i]
            /\ \A i \in 1..Len(v) : x[Len(one) + i] = v[i]
        BY <2>4, <2>5, <2>6, <3>1, Joined
      <4> QED BY <3>2, <4>1
    <3>4. Len(x) = b - o /\ Len(v) = b - m /\ b - m \in Nat /\ b - o = 1 + (b - m)
      BY SMTT(30), <1>1, <2>2, <2>6, <3>3
    <3>5. ASSUME NEW i \in 1..b - o PROVE x[i] = w[i]
      <4>1. CASE i = 1
        <5>1. o + i = m
          BY <2>2, <4>1
        <5> QED BY <2>8, <3>3, <4>1, <5>1
      <4>2. CASE i # 1
        <5>1. PICK j \in 1..b - m : i = 1 + j /\ m + j = o + i
          <6>1. i - 1 \in 1..b - m /\ i = 1 + (i - 1) /\ m + (i - 1) = o + i
            BY <1>1, <2>2, <4>2
          <6> QED BY <6>1
        <5> QED BY <2>6, <2>8, <3>3, <3>4, <5>1
      <4> QED BY <4>1, <4>2
    <3>6. x = w
      BY <2>8, <3>3, <3>4, <3>5, SeqEqual
    <3> QED BY <3>1, <3>6
  <2>10. one \o (v \o r) = (one \o v) \o r
    <3> HIDE DEF T
    <3>1. v \in Seq(Chars) /\ one \in Seq(Chars)
      BY <2>4, <2>5, <2>6
    <3>2. Glued(one, Glued(v, r)) = Glued(Glued(one, v), r)
      BY <3>1, GluedAssociates
    <3> QED BY <3>2 DEF Glued
  <2>11. R[o] = w \o r
    BY <2>3, <2>4, <2>5, <2>9, <2>10
  <2> QED BY <2>1, <2>7, <2>11
<1> HIDE DEF T
<1>5. Nat \subseteq T
  BY <1>3, <1>4, Induction
<1>6. PICK d \in Nat : d = b - a /\ b - d = a /\ d <= b - a
  <2>1. b - a \in Nat /\ b - (b - a) = a
    BY <1>1
  <2> QED BY <2>1
<1>7. R[a] = SubSeq(t, a + 1, b) \o r
  BY <1>5, <1>6 DEF T
<1> QED BY <1>2, <1>7 DEF Glued

(* Where nothing is put in and all is left out, nothing stays.             *)
LEMMA TextDropped ==
    ASSUME NEW t \in Seq(Chars), NEW R, NEW B, NEW I, NEW P, NEW K,
           Sections(t, R, B, I, P, K), NEW b \in 0..Len(t), NEW a \in 0..b,
           \A o \in a..b - 1 : I[o] = <<>> /\ P[o] = <<>> /\ K[o] = <<>>
    PROVE  R[a] = R[b]
<1>1. PICK n \in Nat : n = Len(t) /\ b \in 0..n
  BY LenProperties
<1> DEFINE T == {d \in Nat : d <= b - a => R[b - d] = R[b]}
<1>2. 0 \in T
  <2>1. b - 0 = b
    BY <1>1
  <2> QED BY <2>1
<1>3. ASSUME NEW d \in Nat, d \in T PROVE d + 1 \in T
  <2> SUFFICES ASSUME d + 1 <= b - a PROVE R[b - (d + 1)] = R[b]
    OBVIOUS
  <2>1. PICK o \in 0..n - 1 : o = b - (d + 1) /\ o + 1 = b - d /\ o \in a..b - 1
    <3>1. /\ b - (d + 1) \in 0..n - 1 /\ b - (d + 1) + 1 = b - d
          /\ b - (d + 1) \in a..b - 1
      BY <1>1
    <3> QED BY <3>1
  <2>2. R[o] = R[o + 1]
    <3>1. o \in 0..Len(t) - 1 /\ P[o] = <<>> /\ K[o] = <<>> /\ I[o] = <<>>
      BY <1>1, <2>1
    <3> HIDE DEF T
    <3> QED BY <3>1, SectionDropped
  <2>3. R[b - d] = R[b]
    <3>1. d <= b - a
      BY <1>1
    <3> QED BY <1>3, <3>1
  <2> QED BY <2>1, <2>2, <2>3
<1> HIDE DEF T
<1>4. Nat \subseteq T
  BY <1>2, <1>3, Induction
<1>5. PICK d \in Nat : d = b - a /\ b - d = a /\ d <= b - a
  <2>1. b - a \in Nat /\ b - (b - a) = a
    BY <1>1
  <2> QED BY <2>1
<1>6. d \in T
  BY <1>4
<1> QED BY <1>5, <1>6 DEF T

(* The pieces from each place on.                                          *)
LEMMA PiecesFrom ==
    ASSUME NEW ps \in Seq(Seq(Chars)), NEW M, M = Len(ps)
    PROVE  \E R : /\ \A o \in 0..M : R[o] \in Seq(Chars)
                  /\ \A o \in 0..M - 1 : R[o] = Glued(ps[o + 1], R[o + 1])
                  /\ R[0] = FlattenSeq(ps) /\ R[M] = <<>>
<1>1. M \in Nat
  BY LenProperties
<1> DEFINE R == [o \in 0..M |-> FlattenSeq(SubSeq(ps, o + 1, M))]
<1>2. ASSUME NEW o \in 0..M
      PROVE  /\ SubSeq(ps, o + 1, M) \in Seq(Seq(Chars))
             /\ Len(SubSeq(ps, o + 1, M)) = M - o
             /\ \A i \in 1..M - o : SubSeq(ps, o + 1, M)[i] = ps[o + i]
  <2>1. PICK U : U = Seq(Chars)
    OBVIOUS
  <2>2. ps \in Seq(U) /\ o \in 0..Len(ps) /\ M \in o..Len(ps)
    BY <1>1, <2>1
  <2>3. /\ SubSeq(ps, o + 1, M) \in Seq(U)
        /\ Len(SubSeq(ps, o + 1, M)) = M - o
        /\ \A i \in 1..M - o : SubSeq(ps, o + 1, M)[i] = ps[o + i]
    BY <2>2, PartOf
  <2> QED BY <2>1, <2>3
<1>3. \A o \in 0..M : R[o] \in Seq(Chars)
  <2> SUFFICES ASSUME NEW o \in 0..M PROVE R[o] \in Seq(Chars)
    OBVIOUS
  <2>1. PICK s \in Seq(Seq(Chars)) : s = SubSeq(ps, o + 1, M)
    BY <1>2
  <2>2. FlattenSeq(s) \in Seq(Chars)
    BY FlattenType
  <2> QED BY <2>1, <2>2
<1>4. ASSUME NEW o \in 0..M - 1 PROVE R[o] = Glued(ps[o + 1], R[o + 1])
  <2>1. PICK k \in 1..M : k = o + 1 /\ k \in 0..M /\ o \in 0..M /\ M - o = 1 + (M - k)
    <3>1. o + 1 \in 1..M /\ o + 1 \in 0..M /\ o \in 0..M /\ M - o = 1 + (M - (o + 1))
      BY <1>1
    <3> QED BY <3>1
  <2>2. PICK U : U = Seq(Chars)
    OBVIOUS
  <2>3. PICK s, r : s = SubSeq(ps, k, M) /\ r = SubSeq(ps, k + 1, M)
    OBVIOUS
  <2>4. /\ s \in Seq(U) /\ Len(s) = M - o
        /\ \A i \in 1..M - o : s[i] = ps[o + i]
    BY <1>2, <2>1, <2>2, <2>3
  <2>5. /\ r \in Seq(U) /\ Len(r) = M - k
        /\ \A i \in 1..M - k : r[i] = ps[k + i]
    BY <1>2, <2>1, <2>2, <2>3
  <2>6. PICK p : p = ps[k] /\ p \in U
    <3>1. k \in 1..Len(ps) /\ ps \in Seq(U)
      BY <2>1, <2>2
    <3>2. ps[k] \in U
      BY <3>1, ElementOfSeq
    <3> QED BY <3>2
  <2>7. PICK one : one = <<p>>
    OBVIOUS
  <2>8. one \in Seq(U) /\ Len(one) = 1 /\ one[1] = p
    BY <2>6, <2>7
  <2>9. one \o r = s
    <3>1. PICK x : x = one \o r
      OBVIOUS
    <3>2. /\ x \in Seq(U) /\ Len(x) = Len(one) + Len(r)
          /\ \A i \in 1..Len(one) : x[i] = one[i]
          /\ \A i \in 1..Len(r) : x[Len(one) + i] = r[i]
      <4> HIDE DEF R
      <4>1. one \in Seq(U) /\ r \in Seq(U)
        BY <2>5, <2>8
      <4> QED BY <3>1, <4>1, Joined
    <3>3. Len(x) = M - o /\ x[1] = p /\ \A i \in 1..M - k : x[1 + i] = ps[k + i]
      <4> HIDE DEF R
      <4>1. Len(x) = 1 + (M - k)
        BY <2>5, <2>8, <3>2
      <4>2. x[1] = p
        BY <2>8, <3>2
      <4>3. \A i \in 1..M - k : x[1 + i] = r[i] /\ r[i] = ps[k + i]
        BY <2>5, <2>8, <3>2
      <4> QED BY <2>1, <4>1, <4>2, <4>3
    <3>4. ASSUME NEW i \in 1..M - o PROVE x[i] = s[i]
      <4>1. CASE i = 1
        BY <2>1, <2>4, <2>6, <3>3, <4>1
      <4>2. CASE i # 1
        <5>1. PICK j \in 1..M - k : i = 1 + j /\ k + j = o + i
          <6>1. i - 1 \in 1..M - k /\ i = 1 + (i - 1) /\ k + (i - 1) = o + i
            BY <1>1, <2>1, <4>2
          <6> QED BY <6>1
        <5> QED BY <2>4, <3>3, <5>1
      <4> QED BY <4>1, <4>2
    <3>5. M - o \in Nat
      BY <1>1, <2>1
    <3>6. x = s
      BY <2>4, <3>2, <3>3, <3>4, <3>5, SeqEqual
    <3> QED BY <3>1, <3>6
  <2>10. FlattenSeq(one) = p
    <3>1. PICK none : none = <<>>
      OBVIOUS
    <3>2. none \in Seq(U)
      BY <3>1, EmptySeq
    <3>3. Append(none, p) = one
      BY <2>7, <3>1
    <3>4. FlattenSeq(Append(none, p)) = IF none = <<>> THEN p ELSE FlattenSeq(none) \o p
      BY <2>2, <2>6, <3>2, FlattenAppend
    <3> QED BY <3>1, <3>3, <3>4
  <2>11. FlattenSeq(one \o r) = FlattenSeq(one) \o FlattenSeq(r)
    BY <2>2, <2>5, <2>8, FlattenConcat
  <2>12. FlattenSeq(s) = Glued(p, FlattenSeq(r))
    BY <2>9, <2>10, <2>11 DEF Glued
  <2>13. R[o] = FlattenSeq(s) /\ R[k] = FlattenSeq(r)
    BY <2>1, <2>3
  <2> HIDE DEF R
  <2> QED BY <2>1, <2>6, <2>12, <2>13
<1>5. R[0] = FlattenSeq(ps)
  <2>1. SubSeq(ps, 1, M) = ps
    BY SubSeqFull
  <2>2. 0 \in 0..M /\ 0 + 1 = 1
    BY <1>1
  <2>3. R[0] = FlattenSeq(SubSeq(ps, 0 + 1, M))
    BY <2>2
  <2> HIDE DEF R
  <2> QED BY <2>1, <2>2, <2>3
<1>6. R[M] = <<>>
  <2>1. M \in 0..M /\ M - M = 0
    BY <1>1
  <2>2. PICK s : s = SubSeq(ps, M + 1, M) /\ s \in Seq(Seq(Chars)) /\ Len(s) = 0
    BY <1>2, <2>1
  <2>3. s = <<>>
    BY <2>2, EmptySeq
  <2>4. R[M] = FlattenSeq(s)
    BY <2>1, <2>2
  <2> QED BY <2>3, <2>4, FlattenNone
<1> HIDE DEF R
<1> QED BY <1>3, <1>4, <1>5, <1>6

(* The edits at an offset that insert, or that put in for something, and   *)
(* what an edit of them brings.                                            *)
EditsAt(es, o, inserts) ==
    {i \in DOMAIN es : es[i].start = o /\ (es[i].end = o) = inserts}

NewOf(es, is) == IF is = {} THEN <<>> ELSE es[CHOOSE i \in is : TRUE].new

Covered(es, o) == \E i \in DOMAIN es : es[i].start < o /\ o <= es[i].end

KeptAt(t, es, k) == IF k > Len(t) \/ Covered(es, k) THEN <<>> ELSE <<t[k]>>

Pieces(t, es) ==
    [k \in 1..Len(t) + 1 |->
        NewOf(es, EditsAt(es, k - 1, TRUE)) \o NewOf(es, EditsAt(es, k - 1, FALSE))
            \o KeptAt(t, es, k)]

LEMMA AtOnceIsPieces ==
    ASSUME NEW es
    PROVE  AppliedAtOnce(es) = FlattenSeq(Pieces(text, es))
BY Zenon DEF AppliedAtOnce, Pieces, EditsAt, NewOf, Covered, KeptAt

MadeOf(I, P, K, t, es) ==
    \A o \in 0..Len(t) : /\ I[o] = NewOf(es, EditsAt(es, o, TRUE))
                         /\ P[o] = NewOf(es, EditsAt(es, o, FALSE))
                         /\ K[o] = KeptAt(t, es, o + 1)

LEMMA NewOfType ==
    ASSUME NEW es, NEW n \in Nat, NEW N, AreEdits(es, n, N), NEW o, NEW inserts
    PROVE  NewOf(es, EditsAt(es, o, inserts)) \in Seq(Chars)
<1>1. PICK is : is = EditsAt(es, o, inserts)
  OBVIOUS
<1>2. is \subseteq 1..n
  BY <1>1 DEF EditsAt, AreEdits, AreRanges
<1>3. CASE is = {}
  BY <1>1, <1>3, EmptySeq DEF NewOf
<1>4. CASE is # {}
  <2>1. PICK i \in 1..n : i = CHOOSE j \in is : TRUE
    BY <1>2, <1>4
  <2>2. es[i].new \in Seq(Chars)
    BY DEF AreEdits
  <2> QED BY <1>1, <1>4, <2>1, <2>2 DEF NewOf
<1> QED BY <1>3, <1>4

LEMMA KeptType ==
    ASSUME NEW t \in Seq(Chars), NEW es, NEW k \in 1..Len(t) + 1
    PROVE  KeptAt(t, es, k) \in Seq(Chars)
<1>1. PICK n \in Nat : n = Len(t)
  BY LenProperties
<1>2. CASE k > n \/ Covered(es, k)
  BY <1>1, <1>2, EmptySeq DEF KeptAt
<1>3. CASE ~(k > n \/ Covered(es, k))
  <2>1. t[k] \in Chars
    BY <1>1, <1>3, ElementOfSeq
  <2>2. <<t[k]>> \in Seq(Chars)
    BY <2>1, OneCharacter
  <2> QED BY <1>1, <1>3, <2>2 DEF KeptAt
<1> QED BY <1>2, <1>3

LEMMA SectionsExist ==
    ASSUME NEW t \in Seq(Chars), NEW es, NEW n \in Nat, AreEdits(es, n, Len(t))
    PROVE  \E R, B, I, P, K :
              /\ Sections(t, R, B, I, P, K) /\ MadeOf(I, P, K, t, es)
              /\ R[0] = FlattenSeq(Pieces(t, es)) /\ R[Len(t) + 1] = <<>>
<1>1. PICK N \in Nat, M \in Nat : N = Len(t) /\ M = N + 1
  BY LenProperties
<1> DEFINE I == [o \in 0..N |-> NewOf(es, EditsAt(es, o, TRUE))]
           P == [o \in 0..N |-> NewOf(es, EditsAt(es, o, FALSE))]
           K == [o \in 0..N |-> KeptAt(t, es, o + 1)]
<1>2. MadeOf(I, P, K, t, es)
  BY <1>1 DEF MadeOf
<1>3. \A o \in 0..N : I[o] \in Seq(Chars) /\ P[o] \in Seq(Chars)
  BY <1>1, NewOfType
<1>4. \A o \in 0..N : K[o] \in Seq(Chars)
  <2>1. \A o \in 0..N : o + 1 \in 1..Len(t) + 1
    BY <1>1
  <2> QED BY <2>1, KeptType
<1> DEFINE ps == Pieces(t, es)
<1>5. ps = [k \in 1..M |-> (I[k - 1] \o P[k - 1]) \o K[k - 1]]
  <2>1. \A k \in 1..M : k - 1 \in 0..N /\ (k - 1) + 1 = k
    BY <1>1
  <2>2. \A k \in 1..M : /\ I[k - 1] = NewOf(es, EditsAt(es, k - 1, TRUE))
                        /\ P[k - 1] = NewOf(es, EditsAt(es, k - 1, FALSE))
                        /\ K[k - 1] = KeptAt(t, es, k)
    BY <2>1
  <2> HIDE DEF I, P, K
  <2>3. ps = [k \in 1..M |->
                (NewOf(es, EditsAt(es, k - 1, TRUE)) \o NewOf(es, EditsAt(es, k - 1, FALSE)))
                    \o KeptAt(t, es, k)]
    BY <1>1 DEF Pieces
  <2> QED BY <2>2, <2>3
<1> HIDE DEF I, P, K, ps
<1>6. \A k \in 1..M : ps[k] \in Seq(Chars)
  <2> SUFFICES ASSUME NEW k \in 1..M PROVE ps[k] \in Seq(Chars)
    OBVIOUS
  <2>1. PICK i \in Seq(Chars), p \in Seq(Chars), r \in Seq(Chars) :
           i = I[k - 1] /\ p = P[k - 1] /\ r = K[k - 1]
    <3>1. k - 1 \in 0..N
      BY <1>1
    <3> QED BY <1>3, <1>4, <3>1
  <2>2. i \o p \in Seq(Chars)
    BY ConcatProperties
  <2>3. (i \o p) \o r \in Seq(Chars)
    BY <2>2, ConcatProperties
  <2> QED BY <1>5, <2>1, <2>3
<1>7. ps \in Seq(Seq(Chars)) /\ Len(ps) = M
  <2>1. PICK U : U = Seq(Chars)
    OBVIOUS
  <2>2. DOMAIN ps = 1..M /\ ps = [k \in 1..M |-> ps[k]]
    BY <1>5
  <2>3. ps \in [1..M -> U]
    BY <1>6, <2>1, <2>2
  <2>4. ps \in Seq(U) /\ Len(ps) = M
    BY <2>3, SeqDef, LenProperties
  <2> QED BY <2>1, <2>4
<1>8. PICK R : /\ \A o \in 0..M : R[o] \in Seq(Chars)
               /\ \A o \in 0..M - 1 : R[o] = Glued(ps[o + 1], R[o + 1])
               /\ R[0] = FlattenSeq(ps) /\ R[M] = <<>>
  BY <1>7, PiecesFrom
<1> DEFINE B == [o \in 0..N |-> (P[o] \o K[o]) \o R[o + 1]]
<1>9. ASSUME NEW o \in 0..N
      PROVE  /\ B[o] \in Seq(Chars) /\ R[o] = I[o] \o B[o]
             /\ B[o] = (P[o] \o K[o]) \o R[o + 1]
  <2>1. PICK k \in 1..M : k = o + 1 /\ k - 1 = o /\ o \in 0..M - 1 /\ k \in 0..M
    <3>1. o + 1 \in 1..M /\ (o + 1) - 1 = o /\ o \in 0..M - 1 /\ o + 1 \in 0..M
      BY <1>1
    <3> QED BY <3>1
  <2>2. PICK i \in Seq(Chars), p \in Seq(Chars), l \in Seq(Chars), r \in Seq(Chars) :
           i = I[o] /\ p = P[o] /\ l = K[o] /\ r = R[k]
    BY <1>3, <1>4, <1>8, <2>1
  <2>3. B[o] = (p \o l) \o r
    BY <2>1, <2>2
  <2> HIDE DEF B
  <2>4. p \o l \in Seq(Chars)
    BY ConcatProperties
  <2>5. (p \o l) \o r \in Seq(Chars)
    BY <2>4, ConcatProperties
  <2>6. PICK q \in Seq(Chars) : q = p \o l /\ q = Glued(p, l)
    BY <2>4 DEF Glued
  <2>7. R[o] = ((i \o p) \o l) \o r
    <3>1. ps[k] = (i \o p) \o l
      BY <1>5, <2>1, <2>2
    <3>2. R[o] = Glued(ps[k], r)
      BY <1>8, <2>1, <2>2
    <3> QED BY <3>1, <3>2 DEF Glued
  <2>8. Glued(i, q) = Glued(Glued(i, p), l)
    BY <2>6, GluedAssociates
  <2>9. Glued(i, Glued(q, r)) = Glued(Glued(i, q), r)
    BY GluedAssociates
  <2>10. R[o] = i \o B[o]
    <3>1. R[o] = Glued(Glued(Glued(i, p), l), r) /\ B[o] = Glued(q, r)
      BY <2>3, <2>6, <2>7 DEF Glued
    <3>2. R[o] = Glued(i, B[o])
      BY <2>8, <2>9, <3>1
    <3> QED BY <3>2 DEF Glued
  <2> QED BY <2>1, <2>2, <2>3, <2>5, <2>10
<1> HIDE DEF B
<1>10. Sections(t, R, B, I, P, K)
  BY <1>1, <1>3, <1>4, <1>8, <1>9 DEF Sections
<1>11. R[0] = FlattenSeq(Pieces(t, es)) /\ R[Len(t) + 1] = <<>>
  BY <1>1, <1>8 DEF ps
<1> QED BY <1>2, <1>10, <1>11

(* What is inserted, put in, and kept at an offset.                        *)
NoneInserts(es, n, o) == \A i \in 1..n : ~(es[i].start = o /\ es[i].end = o)
NonePutsIn(es, n, o) == \A i \in 1..n : ~(es[i].start = o /\ es[i].end # o)
NoneCovers(es, n, k) == \A i \in 1..n : ~(es[i].start < k /\ k <= es[i].end)

(* Only edit i inserts at o, or puts something in there.                   *)
OneInserts(es, n, i, o) ==
    \A j \in 1..n : (es[j].start = o /\ es[j].end = o) <=> j = i
OnePutsIn(es, n, i, o) ==
    \A j \in 1..n : (es[j].start = o /\ es[j].end # o) <=> j = i

LEMMA NewOfSome ==
    ASSUME NEW es, NEW is
    PROVE  /\ is = {} => NewOf(es, is) = <<>>
           /\ \A i : is = {i} => NewOf(es, is) = es[i].new
<1>1. \A i : (CHOOSE j \in {i} : TRUE) = i
  OBVIOUS
<1> QED BY <1>1 DEF NewOf

LEMMA InsertedAt ==
    ASSUME NEW t, NEW es, NEW n, AreEdits(es, n, Len(t)),
           NEW I, NEW P, NEW K, MadeOf(I, P, K, t, es), NEW o \in 0..Len(t)
    PROVE  /\ NoneInserts(es, n, o) => I[o] = <<>>
           /\ \A i \in 1..n : OneInserts(es, n, i, o) => I[o] = es[i].new
<1>1. PICK is : is = EditsAt(es, o, TRUE) /\ I[o] = NewOf(es, is)
  BY DEF MadeOf
<1>2. is = {j \in 1..n : es[j].start = o /\ es[j].end = o}
  <2>1. DOMAIN es = 1..n
    BY DEF AreEdits, AreRanges
  <2> QED BY <1>1, <2>1 DEF EditsAt
<1>3. ASSUME NoneInserts(es, n, o) PROVE I[o] = <<>>
  <2>1. is = {}
    BY <1>2, <1>3 DEF NoneInserts
  <2> QED BY <1>1, <2>1, NewOfSome
<1>4. ASSUME NEW i \in 1..n, OneInserts(es, n, i, o) PROVE I[o] = es[i].new
  <2>1. is = {i}
    BY <1>2, <1>4 DEF OneInserts
  <2> QED BY <1>1, <2>1, NewOfSome
<1> QED BY <1>3, <1>4

LEMMA PutInAt ==
    ASSUME NEW t, NEW es, NEW n, AreEdits(es, n, Len(t)),
           NEW I, NEW P, NEW K, MadeOf(I, P, K, t, es), NEW o \in 0..Len(t)
    PROVE  /\ NonePutsIn(es, n, o) => P[o] = <<>>
           /\ \A i \in 1..n : OnePutsIn(es, n, i, o) => P[o] = es[i].new
<1>1. PICK is : is = EditsAt(es, o, FALSE) /\ P[o] = NewOf(es, is)
  BY DEF MadeOf
<1>2. is = {j \in 1..n : es[j].start = o /\ es[j].end # o}
  <2>1. DOMAIN es = 1..n
    BY DEF AreEdits, AreRanges
  <2> QED BY <1>1, <2>1 DEF EditsAt
<1>3. ASSUME NonePutsIn(es, n, o) PROVE P[o] = <<>>
  <2>1. is = {}
    BY <1>2, <1>3 DEF NonePutsIn
  <2> QED BY <1>1, <2>1, NewOfSome
<1>4. ASSUME NEW i \in 1..n, OnePutsIn(es, n, i, o) PROVE P[o] = es[i].new
  <2>1. is = {i}
    BY <1>2, <1>4 DEF OnePutsIn
  <2> QED BY <1>1, <2>1, NewOfSome
<1> QED BY <1>3, <1>4

KeptAs(t, es, n, K, o) ==
    K[o] = IF NoneCovers(es, n, o + 1) THEN <<t[o + 1]>> ELSE <<>>

LEMMA KeptOrNot ==
    ASSUME NEW t \in Seq(Chars), NEW es, NEW n, AreEdits(es, n, Len(t)),
           NEW I, NEW P, NEW K, MadeOf(I, P, K, t, es), NEW o \in 0..Len(t) - 1
    PROVE  KeptAs(t, es, n, K, o)
<1>1. PICK m : m = o + 1 /\ o \in 0..Len(t) /\ ~(m > Len(t))
  BY LenProperties
<1>2. K[o] = KeptAt(t, es, m)
  BY <1>1 DEF MadeOf
<1>3. DOMAIN es = 1..n
  BY DEF AreEdits, AreRanges
<1>4. Covered(es, m) <=> ~NoneCovers(es, n, m)
  BY <1>3 DEF Covered, NoneCovers
<1> QED BY <1>1, <1>2, <1>4 DEF KeptAt, KeptAs

(* A text from a place on is the character there and what follows.         *)
LEMMA CharacterFirst ==
    ASSUME NEW t \in Seq(Chars), NEW b \in 0..Len(t), NEW o \in 0..b - 1,
           NEW r \in Seq(Chars)
    PROVE  Glued(SubSeq(t, o + 1, b), r)
             = Glued(<<t[o + 1]>>, Glued(SubSeq(t, o + 2, b), r))
<1>1. PICK n \in Nat, m \in Nat : /\ n = Len(t) /\ m = o + 1 /\ m + 1 = o + 2
                                  /\ m \in 1..n /\ m <= b /\ b \in 0..n
  <2>1. o + 1 \in Nat /\ (o + 1) + 1 = o + 2 /\ o + 1 <= b /\ o + 1 \in 1..Len(t) /\ Len(t) \in Nat
    BY LenProperties
  <2> QED BY <2>1
<1>2. PICK one, v, w : one = <<t[m]>> /\ v = SubSeq(t, m + 1, b) /\ w = SubSeq(t, o + 1, b)
  OBVIOUS
<1>3. one \in Seq(Chars) /\ Len(one) = 1 /\ one[1] = t[m]
  <2>1. t[m] \in Chars
    BY <1>1, ElementOfSeq
  <2>2. <<t[m]>> \in Seq(Chars)
    BY <2>1, OneCharacter
  <2> QED BY <1>2, <2>2
<1>4. v \in Seq(Chars) /\ Len(v) = b - m /\ \A i \in 1..b - m : v[i] = t[m + i]
  <2>1. m \in 0..Len(t) /\ b \in m..Len(t)
    BY <1>1
  <2> QED BY <1>2, <2>1, PartOf
<1>5. w \in Seq(Chars) /\ Len(w) = b - o /\ \A i \in 1..b - o : w[i] = t[o + i]
  <2>1. o \in 0..Len(t) /\ b \in o..Len(t)
    BY <1>1
  <2> QED BY <1>2, <2>1, PartOf
<1>6. w = Glued(one, v)
  <2>1. PICK x : x = one \o v
    OBVIOUS
  <2>2. /\ x \in Seq(Chars) /\ Len(x) = Len(one) + Len(v)
        /\ \A i \in 1..Len(one) : x[i] = one[i]
        /\ \A i \in 1..Len(v) : x[Len(one) + i] = v[i]
    <3>1. one \in Seq(Chars) /\ v \in Seq(Chars)
      BY <1>3, <1>4
    <3> QED BY <2>1, <3>1, Joined
  <2>3. /\ Len(x) = b - o /\ b - o \in Nat /\ x[1] = t[m]
        /\ \A i \in 1..b - m : x[1 + i] = v[i]
    BY <1>1, <1>3, <1>4, <2>2
  <2>4. ASSUME NEW i \in 1..b - o PROVE x[i] = w[i]
    <3>1. CASE i = 1
      <4>1. o + i = m
        BY <1>1, <3>1
      <4> QED BY <1>5, <2>3, <3>1, <4>1
    <3>2. CASE i # 1
      <4>1. PICK j \in 1..b - m : i = 1 + j /\ m + j = o + i
        <5>1. i - 1 \in 1..b - m /\ i = 1 + (i - 1) /\ m + (i - 1) = o + i
          BY <1>1, <3>2
        <5> QED BY <5>1
      <4> QED BY <1>4, <1>5, <2>3, <4>1
    <3> QED BY <3>1, <3>2
  <2>5. x = w
    BY <1>5, <2>2, <2>3, <2>4, SeqEqual
  <2> QED BY <2>1, <2>5 DEF Glued
<1>7. Glued(one, Glued(v, r)) = Glued(Glued(one, v), r)
  BY <1>3, <1>4, GluedAssociates
<1> QED BY <1>1, <1>2, <1>6, <1>7

(* A replacement in the part of a text that is there as it was.            *)
LEMMA ReplacedBehind ==
    ASSUME NEW t \in Seq(Chars), NEW c \in Seq(Chars), NEW new \in Seq(Chars),
           NEW x \in 0..Len(t), NEW e \in 0..x, NEW s \in 0..e
    PROVE  Replaced(Glued(SubSeq(t, 1, x), c), s, e, new)
             = Glued(SubSeq(t, 1, s), Glued(new, Glued(SubSeq(t, e + 1, x), c)))
<1>1. PICK N \in Nat : N = Len(t) /\ x \in 0..N /\ 0 \in 0..N
  BY LenProperties
<1>2. PICK h, f, v : h = SubSeq(t, 1, x) /\ f = SubSeq(t, 1, s) /\ v = SubSeq(t, e + 1, x)
  OBVIOUS
<1>3. h \in Seq(Chars) /\ Len(h) = x /\ \A i \in 1..x : h[i] = t[i]
  <2>1. 0 \in 0..Len(t) /\ x \in 0..Len(t) /\ 0 + 1 = 1 /\ x - 0 = x /\ \A i \in 1..x : 0 + i = i
    BY <1>1
  <2>2. PICK z : z = 0
    OBVIOUS
  <2>3. PICK g : g = SubSeq(t, z + 1, x)
    OBVIOUS
  <2>4. g \in Seq(Chars) /\ Len(g) = x - z /\ \A i \in 1..x - z : g[i] = t[z + i]
    BY <2>1, <2>2, <2>3, PartOf
  <2> QED BY <1>2, <2>1, <2>2, <2>3, <2>4
<1>4. f \in Seq(Chars) /\ Len(f) = s /\ \A i \in 1..s : f[i] = t[i]
  <2>1. /\ 0 \in 0..Len(t) /\ s \in 0..Len(t) /\ 0 + 1 = 1 /\ s - 0 = s
        /\ \A i \in 1..s : 0 + i = i
    BY <1>1
  <2>2. PICK z : z = 0
    OBVIOUS
  <2>3. PICK g : g = SubSeq(t, z + 1, s)
    OBVIOUS
  <2>4. g \in Seq(Chars) /\ Len(g) = s - z /\ \A i \in 1..s - z : g[i] = t[z + i]
    BY <2>1, <2>2, <2>3, PartOf
  <2> QED BY <1>2, <2>1, <2>2, <2>3, <2>4
<1>5. v \in Seq(Chars) /\ Len(v) = x - e /\ \A i \in 1..x - e : v[i] = t[e + i]
  <2>1. e \in 0..Len(t) /\ x \in e..Len(t)
    BY <1>1
  <2> QED BY <1>2, <2>1, PartOf
<1>6. PICK k \in Nat : k = Len(c)
  BY LenProperties
<1>7. PICK u : u = h \o c
  OBVIOUS
<1>8. /\ u \in Seq(Chars) /\ Len(u) = x + k
      /\ \A i \in 1..x : u[i] = t[i]
      /\ \A i \in 1..k : u[x + i] = c[i]
  <2>1. h \in Seq(Chars) /\ c \in Seq(Chars)
    BY <1>3
  <2>2. /\ u \in Seq(Chars) /\ Len(u) = Len(h) + Len(c)
        /\ \A i \in 1..Len(h) : u[i] = h[i]
        /\ \A i \in 1..Len(c) : u[Len(h) + i] = c[i]
    BY <1>7, <2>1, Joined
  <2> QED BY <1>3, <1>6, <2>2
<1>9. SubSeq(u, 1, s) = f
  <2>1. PICK z, g : z = 0 /\ g = SubSeq(u, z + 1, s)
    OBVIOUS
  <2>2. z \in 0..Len(u) /\ s \in z..Len(u) /\ z + 1 = 1
    BY <1>1, <1>6, <1>8, <2>1
  <2>3. g \in Seq(Chars) /\ Len(g) = s - z /\ \A i \in 1..s - z : g[i] = u[z + i]
    BY <1>8, <2>1, <2>2, PartOf
  <2>4. s - z = s /\ s \in Nat /\ (\A i \in 1..s : z + i = i /\ i \in 1..x)
    BY <1>1, <2>1
  <2>5. \A i \in 1..s : g[i] = f[i]
    BY <1>4, <1>8, <2>3, <2>4
  <2>6. g = f
    BY <1>4, <2>3, <2>4, <2>5, SeqEqual
  <2> QED BY <2>1, <2>2, <2>6
<1>10. SubSeq(u, e + 1, x + k) = Glued(v, c)
  <2>1. PICK g, w, m : g = SubSeq(u, e + 1, m) /\ w = v \o c /\ m = x + k
    OBVIOUS
  <2>2. e \in 0..Len(u) /\ m \in e..Len(u)
    BY <1>1, <1>6, <1>8, <2>1
  <2>3. g \in Seq(Chars) /\ Len(g) = m - e /\ \A i \in 1..m - e : g[i] = u[e + i]
    <3>1. u \in Seq(Chars) /\ e \in 0..Len(u) /\ m \in e..Len(u)
      BY <1>8, <2>2
    <3>2. PICK h2 : h2 = SubSeq(u, e + 1, m)
      OBVIOUS
    <3>3. h2 \in Seq(Chars) /\ Len(h2) = m - e /\ \A i \in 1..m - e : h2[i] = u[e + i]
      BY <3>1, <3>2, PartOf
    <3> QED BY <2>1, <3>2, <3>3
  <2>4. /\ w \in Seq(Chars) /\ Len(w) = (x - e) + k
        /\ \A i \in 1..x - e : w[i] = t[e + i]
        /\ \A i \in 1..k : w[(x - e) + i] = c[i]
    <3>1. v \in Seq(Chars) /\ c \in Seq(Chars)
      BY <1>5
    <3>2. /\ w \in Seq(Chars) /\ Len(w) = Len(v) + Len(c)
          /\ \A i \in 1..Len(v) : w[i] = v[i]
          /\ \A i \in 1..Len(c) : w[Len(v) + i] = c[i]
      BY <2>1, <3>1, Joined
    <3> QED BY <1>5, <1>6, <3>2
  <2>5. m - e = (x - e) + k /\ m - e \in Nat /\ x - e \in Nat
    BY <1>1, <1>6, <2>1
  <2>6. ASSUME NEW i \in 1..m - e PROVE g[i] = w[i]
    <3>1. CASE i <= x - e
      <4>1. i \in 1..x - e /\ e + i \in 1..x
        BY <1>1, <2>5, <3>1
      <4> QED BY <1>8, <2>3, <2>4, <4>1
    <3>2. CASE ~(i <= x - e)
      <4>1. PICK j \in 1..k : i = (x - e) + j /\ e + i = x + j
        <5>1. /\ i - (x - e) \in 1..k /\ i = (x - e) + (i - (x - e))
              /\ e + i = x + (i - (x - e))
          BY <1>1, <1>6, <2>5, <3>2
        <5> QED BY <5>1
      <4> QED BY <1>8, <2>3, <2>4, <4>1
    <3> QED BY <3>1, <3>2
  <2>7. g = w
    BY <2>3, <2>4, <2>5, <2>6, SeqEqual
  <2> QED BY <2>1, <2>7 DEF Glued
<1>11. Replaced(u, s, e, new) = (f \o new) \o Glued(v, c)
  BY <1>8, <1>9, <1>10 DEF Replaced
<1>12. PICK w \in Seq(Chars) : w = Glued(v, c)
  <2>1. v \o c \in Seq(Chars)
    BY <1>5, ConcatProperties
  <2> QED BY <2>1 DEF Glued
<1>13. Glued(f, Glued(new, w)) = Glued(Glued(f, new), w)
  <2>1. f \in Seq(Chars) /\ new \in Seq(Chars) /\ w \in Seq(Chars)
    BY <1>4
  <2> QED BY <2>1, GluedAssociates
<1>14. (f \o new) \o w = Glued(Glued(f, new), w)
  BY DEF Glued
<1>15. Glued(h, c) = u
  BY <1>7 DEF Glued
<1> QED BY <1>2, <1>11, <1>12, <1>13, <1>14, <1>15

(* What a set of sections, and what made them, have to do with the edits.  *)
SectionsOf(t, es, n, R, B, I, P, K) ==
    /\ AreEdits(es, n, Len(t))
    /\ Sections(t, R, B, I, P, K) /\ MadeOf(I, P, K, t, es)

(* Every edit but those at x or behind it ends before y.                   *)
QuietIn(es, n, y, x) ==
    \A j \in 1..n : es[j].start >= x \/ (es[j].start < y /\ es[j].end <= y)

LEMMA QuietBetween ==
    ASSUME NEW t \in Seq(Chars), NEW es, NEW n, NEW R, NEW B, NEW I, NEW P, NEW K,
           SectionsOf(t, es, n, R, B, I, P, K),
           NEW x \in 0..Len(t), NEW y \in 0..x, QuietIn(es, n, y, x)
    PROVE  R[y] = Glued(SubSeq(t, y + 1, x), R[x])
<1>1. PICK N \in Nat : N = Len(t) /\ x \in 0..N /\ AreEdits(es, n, N)
  BY LenProperties DEF SectionsOf
<1>2. \A j \in 1..n : es[j].start \in Nat /\ es[j].end \in Nat
  BY <1>1 DEF AreEdits, AreRanges
<1>3. ASSUME NEW o \in y..x - 1
      PROVE  I[o] = <<>> /\ P[o] = <<>> /\ K[o] = <<t[o + 1]>>
  <2>1. o \in 0..Len(t) /\ o \in 0..Len(t) - 1 /\ o < x /\ o >= y
    BY <1>1
  <2>2. NoneInserts(es, n, o) /\ NonePutsIn(es, n, o)
    BY <1>2, <2>1 DEF QuietIn, NoneInserts, NonePutsIn
  <2>3. NoneCovers(es, n, o + 1)
    BY <1>2, <2>1 DEF QuietIn, NoneCovers
  <2>4. AreEdits(es, n, Len(t)) /\ MadeOf(I, P, K, t, es)
    BY DEF SectionsOf
  <2>5. I[o] = <<>>
    BY <2>1, <2>2, <2>4, InsertedAt
  <2>6. P[o] = <<>>
    BY <2>1, <2>2, <2>4, PutInAt
  <2>7. KeptAs(t, es, n, K, o)
    BY <2>1, <2>4, KeptOrNot
  <2> QED BY <2>3, <2>5, <2>6, <2>7 DEF KeptAs
<1>4. Sections(t, R, B, I, P, K)
  BY DEF SectionsOf
<1> QED BY <1>3, <1>4, TextKept

(* Edit i is the next, and the others are behind x or end before s.        *)
NextEdit(es, n, i, s, e, x) ==
    /\ i \in 1..n /\ es[i].start = s /\ es[i].end = e /\ e <= x
    /\ \A j \in 1..n : j # i =>
         /\ es[j].start >= x \/ es[j].end <= s
         /\ ~(s = e /\ es[j].start = s /\ es[j].end = s)

(* An insertion where nothing else happens.                                *)
LEMMA InsertionStep ==
    ASSUME NEW t \in Seq(Chars), NEW es, NEW n, NEW R, NEW B, NEW I, NEW P, NEW K,
           SectionsOf(t, es, n, R, B, I, P, K),
           NEW i, NEW x \in 0..Len(t), NEW s \in 0..x, NextEdit(es, n, i, s, s, x), s < x
    PROVE  R[s] = Glued(es[i].new, Glued(SubSeq(t, s + 1, x), R[x]))
<1>1. PICK N \in Nat : N = Len(t) /\ x \in 0..N /\ AreEdits(es, n, N)
  BY LenProperties DEF SectionsOf
<1>2. \A j \in 1..n : /\ es[j].start \in Nat /\ es[j].end \in Nat
                      /\ es[j].start <= es[j].end
  BY <1>1 DEF AreEdits, AreRanges
<1>3. /\ AreEdits(es, n, Len(t)) /\ MadeOf(I, P, K, t, es)
      /\ Sections(t, R, B, I, P, K)
  BY DEF SectionsOf
<1>4. s \in 0..Len(t) /\ s \in 0..Len(t) - 1 /\ s + 1 \in 0..x /\ s \in 0..x - 1
      /\ (s + 1) + 1 = s + 2
  BY <1>1
<1>5. i \in 1..n /\ es[i].start = s /\ es[i].end = s
  BY DEF NextEdit
<1>6. I[s] = es[i].new
  <2>1. OneInserts(es, n, i, s)
    BY <1>5 DEF OneInserts, NextEdit
  <2> QED BY <1>3, <1>4, <1>5, <2>1, InsertedAt
<1>7. P[s] = <<>>
  <2>1. NonePutsIn(es, n, s)
    BY <1>2, <1>4, <1>5 DEF NonePutsIn, NextEdit
  <2> QED BY <1>3, <1>4, <2>1, PutInAt
<1>8. K[s] = <<t[s + 1]>>
  <2>1. NoneCovers(es, n, s + 1)
    BY SMTT(30), <1>2, <1>4, <1>5 DEF NoneCovers, NextEdit
  <2>2. KeptAs(t, es, n, K, s)
    BY <1>3, <1>4, KeptOrNot
  <2> QED BY <2>1, <2>2 DEF KeptAs
<1>9. QuietIn(es, n, s + 1, x)
  <2> SUFFICES ASSUME NEW j \in 1..n, ~(es[j].start >= x)
               PROVE  es[j].start < s + 1 /\ es[j].end <= s + 1
    BY DEF QuietIn
  <2>1. es[j].end <= s
    BY <1>5 DEF NextEdit
  <2> QED BY <1>2, <2>1
<1>10. R[s + 1] = Glued(SubSeq(t, s + 2, x), R[x])
  <2>1. PICK y \in 0..x : y = s + 1
    BY <1>4
  <2>2. QuietIn(es, n, y, x)
    BY <1>9, <2>1
  <2>3. R[y] = Glued(SubSeq(t, y + 1, x), R[x])
    BY <2>2, QuietBetween
  <2>4. y + 1 = s + 2
    BY <2>1
  <2> QED BY <2>1, <2>3, <2>4
<1>11. PICK r : r = R[x] /\ r \in Seq(Chars)
  BY <1>1, <1>3 DEF Sections
<1>12. B[s] = <<t[s + 1]>> \o R[s + 1]
  BY <1>3, <1>4, <1>7, <1>8, SectionKept
<1>13. Glued(SubSeq(t, s + 1, x), r) = Glued(<<t[s + 1]>>, Glued(SubSeq(t, s + 2, x), r))
  BY <1>4, <1>11, CharacterFirst
<1>14. B[s] = Glued(SubSeq(t, s + 1, x), r)
  <2>1. B[s] = Glued(<<t[s + 1]>>, R[s + 1])
    BY <1>12 DEF Glued
  <2> QED BY <1>10, <1>11, <1>13, <2>1
<1>15. R[s] = Glued(I[s], B[s])
  <2>1. R[s] = I[s] \o B[s]
    BY <1>3, <1>4 DEF Sections
  <2> QED BY <2>1 DEF Glued
<1> QED BY <1>6, <1>11, <1>14, <1>15

(* What is put in at s, and the text from e up to x, precede what is at x. *)
PutBefore(t, new, R, B, s, e, x) ==
    B[s] = Glued(new, Glued(SubSeq(t, e + 1, x), R[x]))

(* A replacement of some characters.                                       *)
LEMMA ReplacementStep ==
    ASSUME NEW t \in Seq(Chars), NEW es, NEW n, NEW R, NEW B, NEW I, NEW P, NEW K,
           SectionsOf(t, es, n, R, B, I, P, K),
           NEW i, NEW x \in 0..Len(t), NEW e \in 0..x, NEW s \in 0..e,
           NextEdit(es, n, i, s, e, x), s < e
    PROVE  PutBefore(t, es[i].new, R, B, s, e, x)
<1>1. PICK N \in Nat : N = Len(t) /\ x \in 0..N /\ AreEdits(es, n, N)
  BY LenProperties DEF SectionsOf
<1>2. \A j \in 1..n : /\ es[j].start \in Nat /\ es[j].end \in Nat
                      /\ es[j].start <= es[j].end
  BY <1>1 DEF AreEdits, AreRanges
<1>3. /\ AreEdits(es, n, Len(t)) /\ MadeOf(I, P, K, t, es)
      /\ Sections(t, R, B, I, P, K)
  BY DEF SectionsOf
<1>4. s \in 0..Len(t) /\ s \in 0..Len(t) - 1 /\ e \in 0..Len(t) /\ s + 1 \in 0..e
  BY <1>1
<1>5. i \in 1..n /\ es[i].start = s /\ es[i].end = e
  BY DEF NextEdit
<1>6. P[s] = es[i].new
  <2>1. OnePutsIn(es, n, i, s)
    <3> SUFFICES ASSUME NEW j \in 1..n, j # i PROVE ~(es[j].start = s /\ es[j].end # s)
      BY <1>4, <1>5 DEF OnePutsIn
    <3>1. es[j].start >= x \/ es[j].end <= s
      BY DEF NextEdit
    <3> QED BY <1>2, <1>4, <3>1
  <2> QED BY <1>3, <1>4, <1>5, <2>1, PutInAt
<1>7. ASSUME NEW o \in s..e - 1 PROVE K[o] = <<>>
  <2>1. ~NoneCovers(es, n, o + 1)
    <3>1. es[i].start < o + 1 /\ o + 1 <= es[i].end
      BY <1>4, <1>5
    <3> QED BY <1>5, <3>1 DEF NoneCovers
  <2>2. o \in 0..Len(t) - 1
    BY <1>1
  <2>3. KeptAs(t, es, n, K, o)
    BY <1>3, <2>2, KeptOrNot
  <2> QED BY <2>1, <2>3 DEF KeptAs
<1>8. ASSUME NEW o \in s + 1..e - 1 PROVE I[o] = <<>> /\ P[o] = <<>>
  <2>1. o \in 0..Len(t) /\ s < o /\ o < x
    BY <1>1
  <2>2. \A j \in 1..n : es[j].start # o
    <3> SUFFICES ASSUME NEW j \in 1..n PROVE es[j].start # o
      OBVIOUS
    <3>1. j = i \/ es[j].start >= x \/ es[j].end <= s
      BY DEF NextEdit
    <3> QED BY <1>2, <1>5, <2>1, <3>1
  <2>3. NoneInserts(es, n, o) /\ NonePutsIn(es, n, o)
    BY <2>2 DEF NoneInserts, NonePutsIn
  <2>4. I[o] = <<>>
    BY <1>3, <2>1, <2>3, InsertedAt
  <2>5. P[o] = <<>>
    BY <1>3, <2>1, <2>3, PutInAt
  <2> QED BY <2>4, <2>5
<1>9. R[s + 1] = R[e]
  <2>1. PICK a \in 0..e : a = s + 1
    BY <1>4
  <2>2. \A o \in a..e - 1 : I[o] = <<>> /\ P[o] = <<>> /\ K[o] = <<>>
    <3>1. \A o \in a..e - 1 : o \in s..e - 1 /\ o \in s + 1..e - 1
      BY <2>1
    <3> QED BY <1>7, <1>8, <3>1
  <2>3. R[a] = R[e]
    BY <1>3, <1>4, <2>2, TextDropped
  <2> QED BY <2>1, <2>3
<1>10. R[e] = Glued(SubSeq(t, e + 1, x), R[x])
  <2>1. QuietIn(es, n, e, x)
    <3> SUFFICES ASSUME NEW j \in 1..n, ~(es[j].start >= x)
                 PROVE  es[j].start < e /\ es[j].end <= e
      BY DEF QuietIn
    <3>1. j = i \/ es[j].end <= s
      BY DEF NextEdit
    <3> QED BY <1>2, <1>5, <3>1
  <2> QED BY <2>1, QuietBetween
<1>11. B[s] = Glued(P[s], R[s + 1])
  <2>1. s \in s..e - 1
    OBVIOUS
  <2>2. K[s] = <<>>
    BY <1>7, <2>1
  <2> QED BY <1>3, <1>4, <2>2, SectionDropped
<1> QED BY <1>6, <1>9, <1>10, <1>11 DEF PutBefore

NoTwins(es, n) ==
    \A i, j \in 1..n :
       i # j => ~(/\ es[i].start = es[i].end
                  /\ es[j].start = es[i].start /\ es[j].end = es[i].start)

(* Edits of a text in the order of their application: where each of them   *)
(* leaves the untouched beginning of the text, and what follows it then.   *)
InTurn(t, es, n, order, a, b, R, B, I, P, K, X, C) ==
    /\ SectionsOf(t, es, n, R, B, I, P, K)
    /\ IsOrder(order, es, n) /\ Limits(a, b, es, order, n, Len(t))
    /\ \A l, m \in 1..n : l < m => b[m] <= a[l]
    /\ NoTwins(es, n)
    /\ X[0] = Len(t) /\ C[0] = B[Len(t)]
    /\ \A m \in 1..n : /\ X[m] = a[m]
                       /\ C[m] = IF a[m] = b[m] THEN R[a[m]] ELSE B[a[m]]

(* Where the edits are, and that all is made of texts.                      *)
PlacesOf(t, es, n, order, a, b) ==
    /\ \A m \in 1..n :
         /\ a[m] \in Nat /\ b[m] \in Nat /\ a[m] <= b[m] /\ b[m] <= Len(t)
         /\ order[m] \in 1..n
         /\ es[order[m]].start = a[m] /\ es[order[m]].end = b[m]
    /\ \A i \in 1..n : \E m \in 1..n : order[m] = i
    /\ \A l, m \in 1..n : l < m => /\ order[l] # order[m]
                                   /\ a[m] <= a[l] /\ b[m] <= a[l]

StatesOf(t, n, X, C) ==
    \A m \in 0..n : X[m] \in 0..Len(t) /\ C[m] \in Seq(Chars)

TextsOf(t, R, B, I) ==
    \A o \in 0..Len(t) : /\ B[o] \in Seq(Chars) /\ R[o] \in Seq(Chars)
                         /\ I[o] \in Seq(Chars) /\ R[o] = Glued(I[o], B[o])

LEMMA InTurnFacts ==
    ASSUME NEW t \in Seq(Chars), NEW es, NEW n \in Nat, NEW order, NEW a, NEW b,
           NEW R, NEW B, NEW I, NEW P, NEW K, NEW X, NEW C,
           InTurn(t, es, n, order, a, b, R, B, I, P, K, X, C)
    PROVE  /\ PlacesOf(t, es, n, order, a, b)
           /\ StatesOf(t, n, X, C)
           /\ TextsOf(t, R, B, I)
<1>1. PICK N \in Nat : N = Len(t)
  BY LenProperties
<1>2. /\ \A m \in 1..n : order[m] \in 1..n
      /\ \A i \in 1..n : \E m \in 1..n : order[m] = i
  BY DEF InTurn, IsOrder
<1>3. \A m \in 1..n :
         /\ a[m] = es[order[m]].start /\ b[m] = es[order[m]].end
         /\ a[m] \in Nat /\ b[m] \in Nat /\ a[m] <= b[m] /\ b[m] <= N
  BY <1>1 DEF InTurn, Limits
<1>4. \A l, m \in 1..n : l < m => order[l] # order[m] /\ b[m] <= a[l]
  BY DEF InTurn, Limits
<1>5. \A l, m \in 1..n : l < m => a[m] <= a[l]
  BY SMTT(30), <1>3, <1>4
<1>6. ASSUME NEW o \in 0..N
      PROVE  /\ B[o] \in Seq(Chars) /\ R[o] \in Seq(Chars)
             /\ I[o] \in Seq(Chars) /\ R[o] = Glued(I[o], B[o])
  <2>1. Sections(t, R, B, I, P, K) /\ o \in 0..Len(t) /\ o \in 0..Len(t) + 1
    BY <1>1 DEF InTurn, SectionsOf
  <2>2. R[o] = I[o] \o B[o]
    BY <2>1 DEF Sections
  <2>3. R[o] = Glued(I[o], B[o])
    BY <2>2 DEF Glued
  <2> QED BY <2>1, <2>3 DEF Sections
<1>7. ASSUME NEW m \in 0..n PROVE X[m] \in 0..N /\ C[m] \in Seq(Chars)
  <2>1. CASE m = 0
    <3>1. X[m] = N /\ C[m] = B[N] /\ N \in 0..N
      BY <1>1, <2>1 DEF InTurn
    <3> QED BY <1>6, <3>1
  <2>2. CASE m # 0
    <3>1. m \in 1..n
      BY <2>2
    <3>2. X[m] = a[m] /\ C[m] = IF a[m] = b[m] THEN R[a[m]] ELSE B[a[m]]
      BY <3>1 DEF InTurn
    <3>3. a[m] \in 0..N
      BY <1>3, <3>1
    <3> QED BY <1>6, <3>2, <3>3
  <2> QED BY <2>1, <2>2
<1>8. PlacesOf(t, es, n, order, a, b)
  BY <1>1, <1>2, <1>3, <1>4, <1>5 DEF PlacesOf
<1>9. StatesOf(t, n, X, C) /\ TextsOf(t, R, B, I)
  BY <1>1, <1>6, <1>7 DEF StatesOf, TextsOf
<1> QED BY <1>8, <1>9

(* Once nothing can be inserted any more where the beginning ends.         *)
LEMMA SectionDone ==
    ASSUME NEW t \in Seq(Chars), NEW es, NEW n \in Nat, NEW order, NEW a, NEW b,
           NEW R, NEW B, NEW I, NEW P, NEW K, NEW X, NEW C,
           InTurn(t, es, n, order, a, b, R, B, I, P, K, X, C),
           NEW m \in 0..n, m < n => a[m + 1] < X[m]
    PROVE  C[m] = R[X[m]]
<1>1. /\ \A l \in 1..n :
           /\ a[l] \in Nat /\ b[l] \in Nat /\ a[l] <= b[l]
           /\ order[l] \in 1..n
           /\ es[order[l]].start = a[l] /\ es[order[l]].end = b[l]
      /\ \A i \in 1..n : \E l \in 1..n : order[l] = i
      /\ \A k, l \in 1..n : k < l => a[l] <= a[k] /\ b[l] <= a[k]
      /\ X[m] \in 0..Len(t) /\ C[m] \in Seq(Chars)
  <2>1. PlacesOf(t, es, n, order, a, b) /\ StatesOf(t, n, X, C)
    BY InTurnFacts
  <2> QED BY <2>1 DEF PlacesOf, StatesOf
<1>2. /\ m = 0 => C[m] = B[X[m]]
      /\ m # 0 => /\ X[m] = a[m]
                  /\ C[m] = IF a[m] = b[m] THEN R[X[m]] ELSE B[X[m]]
  <2>1. m # 0 => m \in 1..n
    OBVIOUS
  <2> QED BY <2>1 DEF InTurn
<1> SUFFICES ASSUME m # 0 => a[m] # b[m] PROVE C[m] = R[X[m]]
  BY <1>2
<1>3. PICK x : x = X[m] /\ x \in 0..Len(t) /\ x \in Nat
  <2>1. \A y \in 0..Len(t) : y \in Nat
    BY LenProperties
  <2> QED BY <1>1, <2>1
<1>4. C[m] = B[x]
  BY <1>2, <1>3
<1>5. NoneInserts(es, n, x)
  <2> SUFFICES ASSUME NEW i \in 1..n, es[i].start = x, es[i].end = x PROVE FALSE
    BY DEF NoneInserts
  <2>1. PICK l \in 1..n : order[l] = i
    BY <1>1
  <2>2. a[l] = x /\ b[l] = x
    BY <1>1, <2>1
  <2>3. CASE l <= m
    <3>1. m \in 1..n /\ x = a[m] /\ a[m] # b[m]
      BY <1>2, <1>3, <2>3
    <3>2. a[m] \in Nat /\ b[m] \in Nat /\ a[m] <= b[m]
      BY <1>1, <3>1
    <3>3. l # m
      BY <2>2, <3>1
    <3>4. l < m
      BY <2>3, <3>3
    <3>5. b[m] <= a[l]
      BY <1>1, <3>1, <3>4
    <3> QED BY <2>2, <3>1, <3>2, <3>5
  <2>4. CASE ~(l <= m)
    <3>1. PICK k \in 1..n : k = m + 1 /\ (k = l \/ k < l) /\ m < n
      <4>1. m + 1 \in 1..n /\ (m + 1 = l \/ m + 1 < l) /\ m < n
        BY <2>4
      <4> QED BY <4>1
    <3>2. a[k] < x /\ a[k] \in Nat
      BY <1>1, <1>3, <3>1
    <3>3. a[l] <= a[k]
      <4>1. k < l => a[l] <= a[k]
        BY <1>1
      <4> QED BY <3>1, <3>2, <4>1
    <3> QED BY <1>3, <2>2, <3>2, <3>3
  <2> QED BY <2>3, <2>4
<1>6. I[x] = <<>>
  <2>1. AreEdits(es, n, Len(t)) /\ MadeOf(I, P, K, t, es)
    BY DEF InTurn, SectionsOf
  <2> QED BY <1>3, <1>5, <2>1, InsertedAt
<1>7. B[x] \in Seq(Chars) /\ R[x] = Glued(I[x], B[x])
  <2>1. TextsOf(t, R, B, I)
    BY InTurnFacts
  <2> QED BY <1>3, <2>1 DEF TextsOf
<1>8. R[x] = B[x]
  <2>1. PICK i : i = I[x] /\ i = <<>>
    BY <1>6
  <2>2. i \o B[x] = B[x]
    BY <1>7, <2>1, NothingJoined
  <2> QED BY <1>7, <2>1, <2>2 DEF Glued
<1> QED BY <1>3, <1>4, <1>8

(* What is put before the rest of a text, when an edit is applied.         *)
LEMMA EditStep ==
    ASSUME NEW t \in Seq(Chars), NEW es, NEW n \in Nat, NEW order, NEW a, NEW b,
           NEW R, NEW B, NEW I, NEW P, NEW K, NEW X, NEW C,
           InTurn(t, es, n, order, a, b, R, B, I, P, K, X, C),
           NEW m \in 0..n - 1, NEW k \in 1..n, k = m + 1
    PROVE  /\ b[k] <= X[m]
           /\ C[k] = Glued(es[order[k]].new, Glued(SubSeq(t, b[k] + 1, X[m]), C[m]))
<1>1. /\ \A l \in 1..n :
           /\ a[l] \in Nat /\ b[l] \in Nat /\ a[l] <= b[l] /\ b[l] <= Len(t)
           /\ order[l] \in 1..n
           /\ es[order[l]].start = a[l] /\ es[order[l]].end = b[l]
      /\ \A i \in 1..n : \E l \in 1..n : order[l] = i
      /\ \A j, l \in 1..n : j < l => /\ order[j] # order[l]
                                     /\ a[l] <= a[j] /\ b[l] <= a[j]
  <2>1. PlacesOf(t, es, n, order, a, b)
    BY InTurnFacts
  <2> QED BY <2>1 DEF PlacesOf
<1>2. PICK N \in Nat : N = Len(t)
  BY LenProperties
<1>3. m \in 0..n
  OBVIOUS
<1>4. PICK x \in 0..N : x = X[m] /\ C[m] \in Seq(Chars)
  <2>1. StatesOf(t, n, X, C)
    BY InTurnFacts
  <2> QED BY <1>2, <1>3, <2>1 DEF StatesOf
<1>5. PICK s \in Nat, e \in Nat, i \in 1..n :
         /\ s = a[k] /\ e = b[k] /\ i = order[k]
         /\ s <= e /\ e <= N /\ es[i].start = s /\ es[i].end = e
  <2>1. /\ a[k] \in Nat /\ b[k] \in Nat /\ a[k] <= b[k] /\ b[k] <= N
        /\ order[k] \in 1..n
        /\ es[order[k]].start = a[k] /\ es[order[k]].end = b[k]
    BY <1>1, <1>2
  <2> QED BY <2>1
<1>6. m # 0 => m \in 1..n /\ x = a[m]
  <2>1. m # 0 => m \in 1..n
    OBVIOUS
  <2> QED BY <1>4, <2>1 DEF InTurn
<1>7. m = 0 => x = N /\ C[m] = B[x]
  BY <1>2, <1>4 DEF InTurn
<1>8. e <= x
  <2>1. CASE m = 0
    BY <1>5, <1>7, <2>1
  <2>2. CASE m # 0
    <3>1. m \in 1..n /\ m < k /\ x = a[m]
      BY <1>6, <2>2
    <3>2. b[k] <= a[m]
      BY <1>1, <3>1
    <3> QED BY <1>5, <3>1, <3>2
  <2> QED BY <2>1, <2>2
<1>9. NoTwins(es, n) /\ SectionsOf(t, es, n, R, B, I, P, K)
  BY DEF InTurn
<1>10. NextEdit(es, n, i, s, e, x)
  <2> SUFFICES ASSUME NEW j \in 1..n, j # i
               PROVE  /\ es[j].start >= x \/ es[j].end <= s
                      /\ ~(s = e /\ es[j].start = s /\ es[j].end = s)
    BY <1>5, <1>8 DEF NextEdit
  <2>1. ~(s = e /\ es[j].start = s /\ es[j].end = s)
    BY <1>5, <1>9 DEF NoTwins
  <2>2. PICK l \in 1..n : order[l] = j
    BY <1>1
  <2>3. l # k /\ es[j].start = a[l] /\ es[j].end = b[l]
    BY <1>1, <1>5, <2>2
  <2>4. CASE l < k
    <3>1. l = m \/ l < m
      BY <2>4
    <3>2. m \in 1..n /\ x = a[m] /\ a[m] \in Nat /\ a[l] \in Nat
      BY <1>1, <1>6, <2>4
    <3>3. a[m] <= a[l]
      BY <1>1, <3>1, <3>2
    <3> QED BY <2>1, <2>3, <3>2, <3>3
  <2>5. CASE l > k
    <3>1. k < l
      BY <2>5
    <3>2. b[l] <= a[k]
      BY <1>1, <3>1
    <3> QED BY <1>5, <2>1, <2>3, <3>2
  <2> QED BY <2>3, <2>4, <2>5
<1>11. C[k] = IF s = e THEN R[s] ELSE B[s]
  BY <1>5 DEF InTurn
<1>12. x \in 0..Len(t) /\ e \in 0..x /\ s \in 0..e /\ s \in 0..x
  BY <1>2, <1>4, <1>5, <1>8
<1>13. CASE s < x
  <2>1. C[m] = R[x]
    <3>1. m < n => a[m + 1] < X[m]
      BY <1>4, <1>5, <1>13
    <3> QED BY <1>3, <1>4, <3>1, SectionDone
  <2>2. CASE s = e
    <3>1. NextEdit(es, n, i, s, s, x)
      BY <1>10, <2>2
    <3>2. R[s] = Glued(es[i].new, Glued(SubSeq(t, s + 1, x), R[x]))
      BY <1>9, <1>12, <1>13, <3>1, InsertionStep
    <3> QED BY <1>4, <1>5, <1>8, <1>11, <2>1, <2>2, <3>2
  <2>3. CASE s # e
    <3>1. s < e
      BY <1>5, <2>3
    <3>2. B[s] = Glued(es[i].new, Glued(SubSeq(t, e + 1, x), R[x]))
      <4>1. NextEdit(es, n, i, s, e, x) /\ SectionsOf(t, es, n, R, B, I, P, K)
        BY <1>9, <1>10
      <4>2. x \in 0..Len(t) /\ e \in 0..x /\ s \in 0..e
        BY <1>12
      <4>3. PutBefore(t, es[i].new, R, B, s, e, x)
        BY <3>1, <4>1, <4>2, ReplacementStep
      <4> QED BY <4>3 DEF PutBefore
    <3> QED BY <1>4, <1>5, <1>8, <1>11, <2>1, <2>3, <3>2
  <2> QED BY <2>2, <2>3
<1>14. CASE ~(s < x)
  <2>1. s = x /\ e = x
    BY <1>4, <1>5, <1>8, <1>14
  <2>2. C[m] = B[x]
    <3>1. CASE m = 0
      BY <1>7, <3>1
    <3>2. CASE m # 0
      <4>1. m \in 1..n /\ m < k /\ x = a[m]
        BY <1>6, <3>2
      <4>2. a[m] # b[m]
        <5> SUFFICES ASSUME a[m] = b[m] PROVE FALSE
          OBVIOUS
        <5>1. /\ order[m] # i /\ order[m] \in 1..n
              /\ es[order[m]].start = x /\ es[order[m]].end = x
          BY <1>1, <1>5, <4>1
        <5> QED BY <1>5, <1>9, <2>1, <5>1 DEF NoTwins
      <4>3. C[m] = IF a[m] = b[m] THEN R[a[m]] ELSE B[a[m]]
        BY <4>1 DEF InTurn
      <4> QED BY <4>1, <4>2, <4>3
    <3> QED BY <3>1, <3>2
  <2>3. /\ B[x] \in Seq(Chars) /\ R[x] = Glued(I[x], B[x])
    <3>1. TextsOf(t, R, B, I)
      BY InTurnFacts
    <3> QED BY <1>12, <3>1 DEF TextsOf
  <2>4. I[x] = es[i].new
    <3>1. OneInserts(es, n, i, x)
      BY <1>5, <1>9, <2>1 DEF OneInserts, NoTwins
    <3>2. AreEdits(es, n, Len(t)) /\ MadeOf(I, P, K, t, es)
      BY <1>9 DEF SectionsOf
    <3> QED BY <1>12, <3>1, <3>2, InsertedAt
  <2>5. Glued(SubSeq(t, x + 1, x), B[x]) = B[x]
    <3>1. PICK v : v = SubSeq(t, x + 1, x)
      OBVIOUS
    <3>2. x \in x..Len(t) /\ x - x = 0
      BY <1>2, <1>4
    <3>3. v \in Seq(Chars) /\ Len(v) = 0
      <4>1. v \in Seq(Chars) /\ Len(v) = x - x
        BY <1>12, <3>1, <3>2, PartOf
      <4> QED BY <3>2, <4>1
    <3>4. v = <<>>
      BY <3>3, EmptySeq
    <3>5. v \o B[x] = B[x]
      BY <2>3, <3>4, NothingJoined
    <3> QED BY <3>1, <3>5 DEF Glued
  <2> QED BY <1>4, <1>5, <1>8, <1>11, <2>1, <2>2, <2>3, <2>4, <2>5
<1> QED BY <1>13, <1>14

(* The edits applied one after the other from the end are applied at once. *)
LEMMA AppliedTogether ==
    ASSUME NEW t \in Seq(Chars), NEW es, NEW n \in Nat, NEW order, NEW a, NEW b,
           NEW R, NEW B, NEW I, NEW P, NEW K, NEW X, NEW C,
           InTurn(t, es, n, order, a, b, R, B, I, P, K, X, C),
           R[Len(t) + 1] = <<>>,
           NEW g, Stages(g, t, Ordered(es, order, n), n)
    PROVE  g[n] = R[0]
<1>1. PICK N \in Nat : N = Len(t)
  BY LenProperties
<1>2. \A m \in 0..n : X[m] \in 0..N /\ C[m] \in Seq(Chars)
  <2>1. StatesOf(t, n, X, C)
    BY InTurnFacts
  <2> QED BY <1>1, <2>1 DEF StatesOf
<1>0. PlacesOf(t, es, n, order, a, b)
  BY InTurnFacts
<1>3. AreEdits(es, n, N) /\ SectionsOf(t, es, n, R, B, I, P, K)
  BY <1>1 DEF InTurn, SectionsOf
<1> DEFINE T == {m \in Nat : m <= n => g[m] = Glued(SubSeq(t, 1, X[m]), C[m])}
<1>4. 0 \in T
  <2>1. X[0] = N /\ C[0] = B[N]
    BY <1>1 DEF InTurn
  <2>2. PICK none : none = B[N] /\ none = <<>>
    <3>1. N \in 0..Len(t) /\ AreEdits(es, n, Len(t)) /\ MadeOf(I, P, K, t, es)
      BY <1>1, <1>3 DEF SectionsOf
    <3>2. NonePutsIn(es, n, N)
      BY <1>1, <1>3 DEF NonePutsIn, AreEdits, AreRanges
    <3>3. P[N] = <<>>
      BY <3>1, <3>2, PutInAt
    <3>4. K[N] = <<>>
      <4>1. K[N] = KeptAt(t, es, N + 1)
        BY <3>1 DEF MadeOf
      <4>2. N + 1 > Len(t)
        BY <1>1
      <4> QED BY <4>1, <4>2 DEF KeptAt
    <3>5. B[N] = (P[N] \o K[N]) \o R[N + 1]
      BY <1>1, <1>3, <3>1 DEF Sections, SectionsOf
    <3>6. PICK e : e = <<>> /\ e \in Seq(Chars)
      BY EmptySeq
    <3>7. e \o e = e
      BY <3>6, NothingJoined
    <3>8. B[N] = (e \o e) \o e
      BY <1>1, <3>3, <3>4, <3>5, <3>6
    <3> QED BY <3>6, <3>7, <3>8
  <2>3. SubSeq(t, 1, N) = t
    BY <1>1, SubSeqFull
  <2>4. t \o none = t
    BY <2>2, NothingJoined
  <2>5. Glued(t, none) = t
    BY <2>4 DEF Glued
  <2>6. g[0] = t
    BY DEF Stages
  <2> QED BY <2>1, <2>2, <2>3, <2>5, <2>6
<1>5. ASSUME NEW m \in Nat, m \in T PROVE m + 1 \in T
  <2> SUFFICES ASSUME m + 1 <= n
               PROVE  g[m + 1] = Glued(SubSeq(t, 1, X[m + 1]), C[m + 1])
    OBVIOUS
  <2>1. PICK k \in 1..n : k = m + 1 /\ k - 1 = m /\ m \in 0..n - 1 /\ m \in 0..n
    <3>1. m + 1 \in 1..n /\ (m + 1) - 1 = m /\ m \in 0..n - 1 /\ m \in 0..n
      OBVIOUS
    <3> QED BY <3>1
  <2>2. g[m] = Glued(SubSeq(t, 1, X[m]), C[m])
    <3>1. m <= n
      BY <2>1
    <3> QED BY <1>5, <3>1
  <2> HIDE DEF T
  <2>3. PICK i \in 1..n, new \in Seq(Chars), s \in Nat, e \in Nat :
           /\ i = order[k] /\ new = es[i].new /\ s = es[i].start /\ e = es[i].end
           /\ s = a[k] /\ e = b[k] /\ s <= e
    <3>1. /\ order[k] \in 1..n /\ a[k] \in Nat /\ b[k] \in Nat /\ a[k] <= b[k]
          /\ es[order[k]].start = a[k] /\ es[order[k]].end = b[k]
      BY <1>0 DEF PlacesOf
    <3>2. es[order[k]].new \in Seq(Chars)
      BY <1>3, <3>1 DEF AreEdits
    <3> QED BY <3>1, <3>2
  <2>4. g[k] = Replaced(g[m], s, e, new)
    <3>1. PICK f : f = Ordered(es, order, n) /\ f[k] = es[i]
      <4>1. Ordered(es, order, n)[k] = es[order[k]]
        BY DEF Ordered
      <4> QED BY <2>3, <4>1
    <3>2. g[k] = Replaced(g[k - 1], f[k].start, f[k].end, f[k].new)
      BY <3>1 DEF Stages
    <3> QED BY <2>1, <2>3, <3>1, <3>2
  <2>5. PICK x \in 0..N, c \in Seq(Chars) : x = X[m] /\ c = C[m]
    BY <1>2, <2>1
  <2>6. e <= x /\ C[k] = Glued(new, Glued(SubSeq(t, e + 1, x), c))
    BY <2>1, <2>3, <2>5, EditStep
  <2>7. x \in 0..Len(t) /\ e \in 0..x /\ s \in 0..e
    BY <1>1, <2>3, <2>6
  <2>8. Replaced(Glued(SubSeq(t, 1, x), c), s, e, new)
          = Glued(SubSeq(t, 1, s), Glued(new, Glued(SubSeq(t, e + 1, x), c)))
    BY <2>7, ReplacedBehind
  <2>9. X[k] = s
    BY <2>3 DEF InTurn
  <2> QED BY <2>1, <2>2, <2>4, <2>5, <2>6, <2>8, <2>9
<1> HIDE DEF T
<1>6. n \in T
  BY <1>4, <1>5, Induction
<1>7. PICK x \in 0..N : x = X[n]
  BY <1>2
<1>8. g[n] = Glued(SubSeq(t, 1, x), C[n])
  BY <1>6, <1>7 DEF T
<1>9. C[n] = R[x]
  <2>1. n \in 0..n /\ (n < n => a[n + 1] < X[n])
    OBVIOUS
  <2> QED BY <1>7, <2>1, SectionDone
<1>10. QuietIn(es, n, 0, x)
  <2> SUFFICES ASSUME NEW j \in 1..n PROVE es[j].start >= x
    BY DEF QuietIn
  <2>1. PICK l \in 1..n : order[l] = j
    BY <1>0 DEF PlacesOf
  <2>2. n \in 1..n /\ (l = n \/ l < n)
    OBVIOUS
  <2>3. /\ a[l] \in Nat /\ a[n] \in Nat /\ es[j].start = a[l]
        /\ (l < n => a[n] <= a[l])
    BY <1>0, <2>1, <2>2 DEF PlacesOf
  <2>4. x = a[n]
    BY <1>7, <2>2 DEF InTurn
  <2> QED BY <2>2, <2>3, <2>4
<1>11. R[0] = Glued(SubSeq(t, 0 + 1, x), R[x])
  <2>1. x \in 0..Len(t) /\ 0 \in 0..x
    BY <1>1
  <2> QED BY <1>3, <1>10, <2>1, QuietBetween
<1> QED BY <1>8, <1>9, <1>11

(* A replacement leaves all that was there before its range.               *)
LEMMA ReplacedLength ==
    ASSUME NEW u \in Seq(Chars), NEW new \in Seq(Chars),
           NEW s \in 0..Len(u), NEW e \in 0..Len(u)
    PROVE  /\ Replaced(u, s, e, new) \in Seq(Chars)
           /\ s <= Len(Replaced(u, s, e, new))
<1>1. PICK n \in Nat : n = Len(u)
  BY LenProperties
<1>2. PICK f : f = SubSeq(u, 1, s) /\ f \in Seq(Chars) /\ Len(f) = s
  <2>1. PICK z \in 0..Len(u) : z = 0 /\ z + 1 = 1 /\ s \in z..Len(u) /\ s - z = s
    <3>1. 0 \in 0..Len(u) /\ 0 + 1 = 1 /\ s \in 0..Len(u) /\ s - 0 = s
      BY <1>1
    <3> QED BY <3>1
  <2>2. SubSeq(u, z + 1, s) \in Seq(Chars) /\ Len(SubSeq(u, z + 1, s)) = s - z
    BY <2>1, PartOf
  <2> QED BY <2>1, <2>2
<1>3. PICK v : v = SubSeq(u, e + 1, n) /\ v \in Seq(Chars)
  <2>1. e \in 0..Len(u) /\ n \in e..Len(u)
    BY <1>1
  <2>2. SubSeq(u, e + 1, n) \in Seq(Chars)
    BY <2>1, PartOf
  <2> QED BY <2>2
<1>4. PICK w : w = f \o new /\ w \in Seq(Chars) /\ Len(w) = s + Len(new)
  <2>1. f \o new \in Seq(Chars) /\ Len(f \o new) = Len(f) + Len(new)
    BY <1>2, ConcatProperties
  <2> QED BY <1>2, <2>1
<1>5. w \o v \in Seq(Chars) /\ Len(w \o v) = Len(w) + Len(v)
  BY <1>3, <1>4, ConcatProperties
<1>6. Replaced(u, s, e, new) = w \o v
  BY <1>1, <1>2, <1>3, <1>4 DEF Replaced
<1>7. Len(w) \in Nat /\ Len(v) \in Nat /\ Len(new) \in Nat /\ s \in Nat
  BY <1>1, <1>3, <1>4, LenProperties
<1> QED BY <1>4, <1>5, <1>6, <1>7

(* Edits that do not overlap make a text of a text.                        *)
LEMMA StagesAreTexts ==
    ASSUME NEW t \in Seq(Chars), NEW es, NEW n \in Nat, AreEdits(es, n, Len(t)),
           NEW order, IsOrder(order, es, n), NEW a, NEW b,
           Limits(a, b, es, order, n, Len(t)),
           \A l, m \in 1..n : l < m => b[m] <= a[l],
           NEW g, Stages(g, t, Ordered(es, order, n), n)
    PROVE  g[n] \in Seq(Chars)
<1>1. PICK N \in Nat : N = Len(t)
  BY LenProperties
<1> DEFINE T == {m \in Nat : m <= n => /\ g[m] \in Seq(Chars)
                                       /\ m < n => b[m + 1] <= Len(g[m])}
<1>2. \A m \in 1..n : /\ a[m] \in Nat /\ b[m] \in Nat /\ a[m] <= b[m] /\ b[m] <= N
                      /\ order[m] \in 1..n
                      /\ es[order[m]].start = a[m] /\ es[order[m]].end = b[m]
  BY <1>1 DEF Limits, IsOrder
<1>3. 0 \in T
  <2>1. g[0] = t
    BY DEF Stages
  <2>2. 0 < n => 0 + 1 \in 1..n
    OBVIOUS
  <2> QED BY <1>1, <1>2, <2>1, <2>2
<1>4. ASSUME NEW m \in Nat, m \in T PROVE m + 1 \in T
  <2> SUFFICES ASSUME m + 1 <= n
               PROVE  /\ g[m + 1] \in Seq(Chars)
                      /\ m + 1 < n => b[(m + 1) + 1] <= Len(g[m + 1])
    OBVIOUS
  <2>1. PICK k \in 1..n : k = m + 1 /\ k - 1 = m /\ m < n /\ m <= n
    <3>1. m + 1 \in 1..n /\ (m + 1) - 1 = m /\ m < n /\ m <= n
      OBVIOUS
    <3> QED BY <3>1
  <2>2. g[m] \in Seq(Chars) /\ b[k] <= Len(g[m])
    BY <1>4, <2>1
  <2> HIDE DEF T
  <2>3. PICK u \in Seq(Chars), new \in Seq(Chars), s \in Nat, e \in Nat :
           /\ u = g[m] /\ new = es[order[k]].new
           /\ s = a[k] /\ e = b[k] /\ s <= e /\ e <= Len(u)
    <3>1. es[order[k]].new \in Seq(Chars)
      BY <1>2 DEF AreEdits
    <3> QED BY <1>2, <2>2, <3>1
  <2>4. g[k] = Replaced(u, s, e, new)
    <3>1. PICK f : f = Ordered(es, order, n) /\ f[k] = es[order[k]]
      <4>1. Ordered(es, order, n)[k] = es[order[k]]
        BY DEF Ordered
      <4> QED BY <4>1
    <3>2. g[k] = Replaced(g[k - 1], f[k].start, f[k].end, f[k].new)
      BY <3>1 DEF Stages
    <3> QED BY <1>2, <2>1, <2>3, <3>1, <3>2
  <2>5. s \in 0..Len(u) /\ e \in 0..Len(u)
    <3>1. Len(u) \in Nat
      BY LenProperties
    <3> QED BY <2>3, <3>1
  <2>6. g[k] \in Seq(Chars) /\ s <= Len(g[k])
    BY <2>4, <2>5, ReplacedLength
  <2>7. ASSUME k < n PROVE b[k + 1] <= Len(g[k])
    <3>1. PICK l \in 1..n : l = k + 1 /\ k < l
      <4>1. k + 1 \in 1..n /\ k < k + 1
        BY <2>7
      <4> QED BY <4>1
    <3>2. b[l] <= a[k] /\ b[l] \in Nat
      BY <1>2, <3>1
    <3>3. Len(g[k]) \in Nat
      BY <2>6, LenProperties
    <3> QED BY <2>3, <2>6, <3>1, <3>2, <3>3
  <2> QED BY <2>1, <2>6, <2>7
<1> HIDE DEF T
<1>5. n \in T
  BY <1>3, <1>4, Induction
<1> QED BY <1>5 DEF T

(* Ranges of a text are refused if two of them overlap, and have otherwise *)
(* the effect of being applied at once.                                    *)
LEMMA RangesTogether ==
    ASSUME text \in Seq(Chars), NEW es, NEW n \in Nat, AreEdits(es, n, Len(text))
    PROVE  /\ Overlap(es) => ApplyRanges(text, es) = Refused
           /\ ~Overlap(es) => ApplyRanges(text, es) \in Seq(Chars)
           /\ ~Overlap(es) /\ NoTwins(es, n) => ApplyRanges(text, es) = AppliedAtOnce(es)
<1>1. PICK t \in Seq(Chars), N \in Nat : t = text /\ N = Len(t)
  BY LenProperties
<1>2. AreEdits(es, n, N) /\ AreRanges(es, n)
  BY <1>1 DEF AreEdits
<1>3. PICK order, g :
         /\ IsOrder(order, es, n)
         /\ Stages(g, t, Ordered(es, order, n), n)
         /\ ApplyRanges(t, es) = IF Adjoining(es, order, n) THEN Refused ELSE g[n]
  BY <1>2, AppliedInOrder
<1>4. Adjoining(es, order, n) <=> Overlap(es)
  BY <1>2, <1>3, OverlapsAdjoin
<1>5. Overlap(es) => ApplyRanges(text, es) = Refused
  BY <1>1, <1>3, <1>4
<1> SUFFICES ASSUME ~Overlap(es)
             PROVE  /\ ApplyRanges(text, es) \in Seq(Chars)
                    /\ NoTwins(es, n) => ApplyRanges(text, es) = AppliedAtOnce(es)
  BY <1>5
<1>6. ApplyRanges(text, es) = g[n] /\ ~Adjoining(es, order, n)
  BY <1>1, <1>3, <1>4
<1>7. PICK a, b : Limits(a, b, es, order, n, N)
  BY <1>2, <1>3, InOrder
<1>8. \A m \in 1..n : /\ a[m] = es[order[m]].start /\ b[m] = es[order[m]].end
                      /\ a[m] \in Nat /\ b[m] \in Nat /\ a[m] <= b[m] /\ b[m] <= N
  BY <1>7 DEF Limits
<1>9. \A l, m \in 1..n : l < m => b[m] <= a[l]
  <2>1. \A m \in 1..n - 1 : b[m + 1] <= a[m]
    <3> SUFFICES ASSUME NEW m \in 1..n - 1 PROVE b[m + 1] <= a[m]
      OBVIOUS
    <3>1. ~(es[order[m + 1]].end > es[order[m]].start)
      BY <1>6 DEF Adjoining
    <3>2. PICK k \in 1..n : k = m + 1 /\ m \in 1..n
      <4>1. m + 1 \in 1..n /\ m \in 1..n
        OBVIOUS
      <4> QED BY <4>1
    <3>3. ~(b[k] > a[m]) /\ b[k] \in Nat /\ a[m] \in Nat
      BY <1>8, <3>1, <3>2
    <3> QED BY <3>2, <3>3
  <2>2. \A m \in 1..n : a[m] \in Nat /\ b[m] \in Nat /\ a[m] <= b[m]
    BY <1>8
  <2> QED BY <2>1, <2>2, EndsBefore
<1>10. g[n] \in Seq(Chars)
  BY <1>1, <1>2, <1>3, <1>7, <1>9, StagesAreTexts
<1>11. ASSUME NoTwins(es, n) PROVE g[n] = AppliedAtOnce(es)
  <2>1. PICK R, B, I, P, K :
           /\ Sections(t, R, B, I, P, K) /\ MadeOf(I, P, K, t, es)
           /\ R[0] = FlattenSeq(Pieces(t, es)) /\ R[Len(t) + 1] = <<>>
    BY <1>1, <1>2, SectionsExist
  <2>2. PICK X : X = [m \in 0..n |-> IF m = 0 THEN N ELSE a[m]]
    OBVIOUS
  <2>3. PICK C : C = [m \in 0..n |-> IF m = 0 THEN B[N]
                                     ELSE IF a[m] = b[m] THEN R[a[m]] ELSE B[a[m]]]
    OBVIOUS
  <2>4. 0 \in 0..n /\ \A m \in 1..n : m \in 0..n /\ m # 0
    OBVIOUS
  <2>5. X[0] = N /\ \A m \in 1..n : X[m] = a[m]
    BY <2>2, <2>4
  <2>6. C[0] = B[N] /\ \A m \in 1..n : C[m] = IF a[m] = b[m] THEN R[a[m]] ELSE B[a[m]]
    BY <2>3, <2>4
  <2>7. SectionsOf(t, es, n, R, B, I, P, K)
    BY <1>1, <1>2, <2>1 DEF SectionsOf
  <2>8. InTurn(t, es, n, order, a, b, R, B, I, P, K, X, C)
    BY <1>1, <1>3, <1>7, <1>9, <1>11, <2>5, <2>6, <2>7 DEF InTurn
  <2>9. g[n] = R[0]
    BY <1>3, <2>1, <2>8, AppliedTogether
  <2>10. AppliedAtOnce(es) = FlattenSeq(Pieces(text, es))
    BY AtOnceIsPieces
  <2> QED BY <1>1, <2>1, <2>9, <2>10
<1> QED BY <1>6, <1>10, <1>11

(* A server that names ranges by their positions means these ranges.       *)
LEMMA RangesBack ==
    ASSUME text \in Seq(Chars), NEW es, NEW n \in Nat, NEW S,
           es \in [1..n -> [start : 0..Len(text), end : 0..Len(text), new : S]],
           \A i \in 1..n : es[i].start <= es[i].end,
           NEW asked, asked = [i \in 1..n |-> [start |-> PositionOf(es[i].start),
                                               end |-> PositionOf(es[i].end),
                                               new |-> es[i].new]]
    PROVE  ApplyTextEdits(text, asked) = ApplyRanges(text, es)
<1>1. PICK N \in Nat : N = Len(text)
  BY LenProperties
<1>2. \A i \in 1..n :
         /\ es[i] = [start |-> es[i].start, end |-> es[i].end, new |-> es[i].new]
         /\ es[i].start \in 0..N /\ es[i].end \in 0..N
  BY <1>1
<1>3. PICK ranges :
         ranges = [i \in DOMAIN asked |->
                     [start |-> LspPositionToOffset(text, asked[i].start),
                      end |-> LspPositionToOffset(text, asked[i].end),
                      new |-> asked[i].new]]
  OBVIOUS
<1>4. \A i \in 1..n : /\ LspPositionToOffset(text, PositionOf(es[i].start)) = es[i].start
                      /\ LspPositionToOffset(text, PositionOf(es[i].end)) = es[i].end
  BY <1>1, <1>2, OffsetBack
<1>5. DOMAIN asked = 1..n /\ \A i \in 1..n : /\ asked[i].start = PositionOf(es[i].start)
                                             /\ asked[i].end = PositionOf(es[i].end)
                                             /\ asked[i].new = es[i].new
  OBVIOUS
<1>6. ranges = es
  <2>1. ranges = [i \in 1..n |-> [start |-> es[i].start, end |-> es[i].end,
                                  new |-> es[i].new]]
    BY <1>3, <1>4, <1>5
  <2>2. ranges = [i \in 1..n |-> es[i]]
    BY <1>2, <2>1
  <2> QED BY <2>2
<1>7. \A i \in 1..n : /\ ~(es[i].start > es[i].end)
                      /\ Refused \notin {es[i].start, es[i].end}
  <2>1. \A i \in 1..n : es[i].start \in Nat /\ es[i].end \in Nat
    BY <1>2
  <2> QED BY <2>1, RefusedAssumption
<1>8. /\ ~\E i \in DOMAIN asked : Refused \in {ranges[i].start, ranges[i].end}
      /\ ~\E i \in DOMAIN asked : ranges[i].start > ranges[i].end
  BY <1>5, <1>6, <1>7
<1>9. ApplyTextEdits(text, asked) = ApplyRanges(text, ranges)
  BY <1>3, <1>8 DEF ApplyTextEdits
<1> QED BY <1>6, <1>9

(* The edits of a server are refused if they overlap, and have otherwise   *)
(* the effect of being applied at once, in whatever order it lists them.   *)
THEOREM EditsAreTogether == Spec => []EditsApplyTogether
<1>1. ASSUME TextInv PROVE EditsApplyTogether
  <2>0. text \in Seq(Chars)
    BY <1>1 DEF TextInv
  <2>1. PICK some :
           some = {e \in [start : 0..Len(text), end : 0..Len(text), new : {<<NL>>, <<CR>>}] :
                     e.start <= e.end /\ (e.new = <<NL>>) = (e.start = e.end)}
    OBVIOUS
  <2>2. ASSUME NEW edits \in UNION {[1..k -> some] : k \in 2..3}
        PROVE  LET asked == [i \in DOMAIN edits |->
                                [start |-> PositionOf(edits[i].start),
                                 end |-> PositionOf(edits[i].end),
                                 new |-> edits[i].new]]
                   updated == ApplyTextEdits(text, asked)
               IN  /\ Overlap(edits) <=> updated = Refused
                   /\ (~Overlap(edits) /\ ~TwoInsertions(edits)) =>
                         updated = AppliedAtOnce(edits)
    <3>1. PICK n \in Nat : edits \in [1..n -> some]
      <4>1. PICK k \in 2..3 : edits \in [1..k -> some]
        BY Zenon
      <4>2. k \in Nat
        OBVIOUS
      <4> QED BY <4>1, <4>2
    <3>2. PICK S : S = {<<NL>>, <<CR>>} /\ S \subseteq Seq(Chars)
      <4>1. <<NL>> \in Seq(Chars) /\ <<CR>> \in Seq(Chars)
        BY CharsAssumption, OneCharacter
      <4> QED BY <4>1
    <3>3. PICK nl : nl = <<NL>>
      OBVIOUS
    <3>4. \A i \in 1..n :
             /\ edits[i] \in [start : 0..Len(text), end : 0..Len(text), new : S]
             /\ edits[i].start <= edits[i].end
             /\ (edits[i].start = edits[i].end) => edits[i].new = nl
      BY <2>1, <3>1, <3>2, <3>3
    <3>5. edits \in [1..n -> [start : 0..Len(text), end : 0..Len(text), new : S]]
      BY <3>1, <3>4
    <3>6. PICK N \in Nat : N = Len(text)
      BY <2>0, LenProperties
    <3>7. AreEdits(edits, n, N)
      <4>1. DOMAIN edits = 1..n /\ Len(edits) = n
        <5>1. edits \in Seq(some) /\ Len(edits) = n
          BY <3>1, SeqDef, LenProperties
        <5> QED BY <3>1, <5>1
      <4>2. \A i \in 1..n : /\ edits[i].start \in 0..N /\ edits[i].end \in 0..N
                            /\ edits[i].new \in S /\ edits[i].start <= edits[i].end
        BY <3>4, <3>6
      <4>3. \A i \in 1..n : /\ edits[i].start \in Nat /\ edits[i].end \in Nat
                            /\ edits[i].start <= edits[i].end /\ edits[i].end <= N
        BY <4>2
      <4>4. \A i \in 1..n : edits[i].new \in Seq(Chars)
        BY <3>2, <4>2
      <4> QED BY <4>1, <4>3, <4>4 DEF AreEdits, AreRanges
    <3>8. PICK asked : asked = [i \in 1..n |-> [start |-> PositionOf(edits[i].start),
                                                end |-> PositionOf(edits[i].end),
                                                new |-> edits[i].new]]
      OBVIOUS
    <3>9. PICK updated : updated = ApplyTextEdits(text, asked)
      OBVIOUS
    <3>10. updated = ApplyRanges(text, edits)
      <4>1. \A i \in 1..n : edits[i].start <= edits[i].end
        BY <3>4
      <4> QED BY <2>0, <3>5, <3>8, <3>9, <4>1, RangesBack
    <3>11. AreEdits(edits, n, Len(text))
      BY <3>6, <3>7
    <3>12. /\ Overlap(edits) => updated = Refused
           /\ ~Overlap(edits) => updated \in Seq(Chars)
           /\ ~Overlap(edits) /\ NoTwins(edits, n) => updated = AppliedAtOnce(edits)
      BY <2>0, <3>10, <3>11, RangesTogether
    <3>13. ASSUME ~TwoInsertions(edits) PROVE NoTwins(edits, n)
      <4> SUFFICES ASSUME NEW i \in 1..n, NEW j \in 1..n, i # j,
                          edits[i].start = edits[i].end,
                          edits[j].start = edits[i].start, edits[j].end = edits[i].start
                   PROVE  FALSE
        BY DEF NoTwins
      <4>1. edits[i].new = edits[j].new
        BY <3>4
      <4>2. edits[i] = edits[j]
        BY SMTT(30), <3>4, <4>1
      <4>3. i \in DOMAIN edits /\ j \in DOMAIN edits
        BY <3>1
      <4> QED BY <3>13, <4>2, <4>3 DEF TwoInsertions
    <3>14. /\ Overlap(edits) <=> updated = Refused
           /\ (~Overlap(edits) /\ ~TwoInsertions(edits)) => updated = AppliedAtOnce(edits)
      BY <3>12, <3>13, RefusedAssumption
    <3>15. DOMAIN edits = 1..n
      BY <3>1
    <3> QED BY <3>8, <3>9, <3>14, <3>15, Zenon
  <2> QED BY <2>1, <2>2, Zenon DEF EditsApplyTogether
<1> QED BY <1>1, DocumentIsText, PTL

=============================================================================
