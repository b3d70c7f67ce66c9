--------------------------- MODULE SequenceFacts ---------------------------
(***************************************************************************)
(* What the proofs need to know of sequences of numbers: their elements and  *)
(* their order when they grow, shrink and are joined, the joining of a whole *)
(* sequence of them (FlattenSeq), and the sum over one (FoldSeq).  The last  *)
(* two are recursive; what is said of them is proved by induction, over      *)
(* numbers and over finite sets, from the theorem that a set on which an     *)
(* order is well-founded has a least element.                                *)
(***************************************************************************)
EXTENDS Integers, SequencesExt, FiniteSetTheorems, SequenceTheorems,
        WellFoundedInduction, TLAPS

-----------------------------------------------------------------------------
(* Induction                                                                *)

Before == {ss \in Nat \X Nat : ss[1] < ss[2]}

LEMMA Least ==
  ASSUME NEW T, T \subseteq Nat, T # {}
  PROVE  \E m \in T : \A k \in T : m <= k
<1>1. IsWellFoundedOn(Before, Nat)
  BY NatLessThanWellFounded DEF OpToRel, Before
<1>2. PICK m \in T : \A k \in T : ~(<<k, m>> \in Before)
  BY <1>1, WFMin
<1>3. ASSUME NEW k \in T PROVE m <= k
  <2>1. k \in Nat /\ m \in Nat
    OBVIOUS
  <2>2. k < m => <<k, m>> \in Before
    BY <2>1 DEF Before
  <2> QED
    BY <1>2, <2>1, <2>2
<1> QED
  BY <1>3

\* What holds of 0, and of k + 1 if it holds of k, holds up to n.
LEMMA CountUp ==
  ASSUME NEW n \in Nat, NEW T, 0 \in T, \A k \in 0 .. n - 1 : k \in T => k + 1 \in T
  PROVE  \A k \in 0 .. n : k \in T
<1> DEFINE Missing == {k \in 0 .. n : k \notin T}
<1> SUFFICES ASSUME Missing # {} PROVE FALSE
  OBVIOUS
<1>1. PICK m \in Missing : \A k \in Missing : m <= k
  <2>1. Missing \subseteq Nat
    OBVIOUS
  <2> HIDE DEF Missing
  <2> QED
    BY <2>1, Least
<1>2. m - 1 \in 0 .. n - 1 /\ m - 1 \notin Missing /\ (m - 1) + 1 = m
  BY <1>1
<1> QED
  BY <1>1, <1>2

\* What holds of a finite set if it holds of all sets with one element less holds of all.
LEMMA SetsUp ==
  ASSUME NEW D, IsFiniteSet(D), NEW T,
         \A A \in SUBSET D : (\A x \in A : A \ {x} \in T) => A \in T
  PROVE  \A A \in SUBSET D : A \in T
<1> SUFFICES ASSUME NEW B \in SUBSET D, B \notin T PROVE FALSE
  OBVIOUS
<1> DEFINE Missing == {A \in SUBSET D : A \notin T}
           sizes == {Cardinality(A) : A \in Missing}
<1>1. \A A \in SUBSET D : IsFiniteSet(A) /\ Cardinality(A) \in Nat
  BY FS_Subset, FS_CardinalityType
<1>2. PICK m \in sizes : \A k \in sizes : m <= k
  <2>1. sizes \subseteq Nat /\ sizes # {}
    BY <1>1
  <2> HIDE DEF sizes
  <2> QED
    BY <2>1, Least
<1>3. PICK A \in Missing : m = Cardinality(A)
  OBVIOUS
<1>4. PICK x \in A : A \ {x} \notin T
  BY <1>3
<1>5. A \ {x} \in Missing /\ Cardinality(A \ {x}) = Cardinality(A) - 1
  BY <1>1, <1>3, <1>4, FS_RemoveElement
<1>6. m <= Cardinality(A) - 1 /\ Cardinality(A) \in Nat
  BY <1>1, <1>2, <1>3, <1>5
<1> QED
  BY <1>3, <1>6

-----------------------------------------------------------------------------
(* Sequences of numbers, by the set of their elements                       *)

Increasing(s) == \A i, j \in 1 .. Len(s) : i < j => s[i] < s[j]
Below(S, T) == \A a \in S, b \in T : a < b

LEMMA InSeq ==
  ASSUME NEW s \in Seq(Nat)
  PROVE  /\ \A x : x \in ToSet(s) <=> \E i \in 1 .. Len(s) : x = s[i]
         /\ ToSet(s) \subseteq Nat
<1>1. DOMAIN s = 1 .. Len(s)
  OBVIOUS
<1> QED
  BY <1>1 DEF ToSet

LEMMA EmptyElements == ToSet(<<>>) = {} /\ Increasing(<<>>)
  BY DEF ToSet, Increasing

LEMMA AppendElements ==
  ASSUME NEW s \in Seq(Nat), NEW e \in Nat
  PROVE  /\ Append(s, e) \in Seq(Nat) /\ ToSet(Append(s, e)) = ToSet(s) \cup {e}
         /\ Increasing(s) /\ Below(ToSet(s), {e}) => Increasing(Append(s, e))
<1> DEFINE r == Append(s, e)
<1>1. /\ r \in Seq(Nat) /\ Len(r) = Len(s) + 1 /\ Len(s) \in Nat
      /\ r[Len(s) + 1] = e
      /\ \A i \in 1 .. Len(s) : r[i] = s[i]
  OBVIOUS
<1> HIDE DEF r
<1>2. \A x : x \in ToSet(r) <=> x \in ToSet(s) \/ x = e
  <2>1. ASSUME NEW x \in ToSet(r) PROVE x \in ToSet(s) \/ x = e
    <3>1. PICK i \in 1 .. Len(r) : x = r[i]
      BY <1>1, InSeq
    <3>2. i \in 1 .. Len(s) \/ i = Len(s) + 1
      BY <1>1
    <3>3. CASE i \in 1 .. Len(s)
      BY <1>1, <3>1, <3>3, InSeq
    <3> QED
      BY <1>1, <3>1, <3>2, <3>3
  <2>2. ASSUME NEW x \in ToSet(s) PROVE x \in ToSet(r)
    <3>1. PICK i \in 1 .. Len(s) : x = s[i]
      BY InSeq
    <3>2. i \in 1 .. Len(r) /\ x = r[i]
      BY <1>1, <3>1
    <3> QED
      BY <1>1, <3>2, InSeq
  <2>3. e \in ToSet(r)
    <3>1. Len(s) + 1 \in 1 .. Len(r)
      BY <1>1
    <3> QED
      BY <1>1, <3>1, InSeq
  <2> QED
    BY <2>1, <2>2, <2>3
<1>3. ASSUME Increasing(s), Below(ToSet(s), {e}) PROVE Increasing(r)
  <2> SUFFICES ASSUME NEW i \in 1 .. Len(r), NEW j \in 1 .. Len(r), i < j PROVE r[i] < r[j]
    BY DEF Increasing
  <2>1. i \in 1 .. Len(s) /\ r[i] = s[i]
    BY <1>1
  <2>2. CASE j \in 1 .. Len(s)
    BY <1>1, <1>3, <2>1, <2>2 DEF Increasing
  <2>3. CASE j = Len(s) + 1
    <3>1. s[i] \in ToSet(s)
      BY <2>1, InSeq
    <3> QED
      BY <1>1, <1>3, <2>1, <2>3, <3>1 DEF Below
  <2>4. j \in 1 .. Len(s) \/ j = Len(s) + 1
    <3>1. Len(r) = Len(s) + 1 /\ Len(s) \in Nat
      BY <1>1
    <3> HIDE <1>1
    <3> QED
      BY <3>1
  <2> QED
    BY <2>2, <2>3, <2>4
<1>4. r \in Seq(Nat) /\ ToSet(r) = ToSet(s) \cup {e}
  BY <1>1, <1>2
<1> QED
  BY <1>3, <1>4 DEF r

LEMMA TailElements ==
  ASSUME NEW s \in Seq(Nat), s # <<>>
  PROVE  /\ Tail(s) \in Seq(Nat) /\ Head(s) \in Nat /\ ToSet(s) = ToSet(Tail(s)) \cup {Head(s)}
         /\ Len(Tail(s)) = Len(s) - 1
         /\ Increasing(s) => Increasing(Tail(s)) /\ Below({Head(s)}, ToSet(Tail(s)))
<1> DEFINE r == Tail(s)
<1>1. /\ r \in Seq(Nat) /\ Len(s) \in Nat \ {0} /\ Len(r) = Len(s) - 1
      /\ Head(s) = s[1] /\ s[1] \in Nat
      /\ \A i \in 1 .. Len(r) : r[i] = s[i + 1]
  BY EmptySeq, HeadTailProperties
<1>2. Head(s) \in ToSet(s)
  BY <1>1, InSeq
<1> HIDE DEF r
<1>3. \A x : x \in ToSet(s) <=> x \in ToSet(r) \/ x = Head(s)
  <2>1. ASSUME NEW x \in ToSet(s) PROVE x \in ToSet(r) \/ x = Head(s)
    <3>1. PICK i \in 1 .. Len(s) : x = s[i]
      BY InSeq
    <3>2. CASE i # 1
      <4>1. i - 1 \in 1 .. Len(r) /\ r[i - 1] = s[i]
        BY <1>1, <3>2
      <4> QED
        BY <1>1, <3>1, <4>1, InSeq
    <3> QED
      BY <1>1, <3>1, <3>2
  <2>2. ASSUME NEW x \in ToSet(r) PROVE x \in ToSet(s)
    <3>1. PICK i \in 1 .. Len(r) : x = r[i]
      BY <1>1, InSeq
    <3>2. i + 1 \in 1 .. Len(s) /\ x = s[i + 1]
      BY <1>1, <3>1
    <3> QED
      BY <3>2, InSeq
  <2> QED
    BY <1>2, <2>1, <2>2
<1>4. ASSUME Increasing(s) PROVE Increasing(r) /\ Below({Head(s)}, ToSet(r))
  <2>1. Increasing(r)
    <3> SUFFICES ASSUME NEW i \in 1 .. Len(r), NEW j \in 1 .. Len(r), i < j PROVE r[i] < r[j]
      BY DEF Increasing
    <3>1. i + 1 \in 1 .. Len(s) /\ j + 1 \in 1 .. Len(s) /\ i + 1 < j + 1
      BY <1>1
    <3> QED
      BY <1>1, <1>4, <3>1 DEF Increasing
  <2>2. ASSUME NEW x \in ToSet(r) PROVE s[1] < x
    <3>1. PICK i \in 1 .. Len(r) : x = r[i]
      BY <1>1, InSeq
    <3>2. i + 1 \in 1 .. Len(s) /\ 1 \in 1 .. Len(s) /\ 1 < i + 1 /\ x = s[i + 1]
      BY <1>1, <3>1
    <3> QED
      BY <1>4, <3>2 DEF Increasing
  <2> QED
    BY <1>1, <2>1, <2>2 DEF Below
<1>5. r \in Seq(Nat) /\ Head(s) \in Nat /\ ToSet(s) = ToSet(r) \cup {Head(s)} /\ Len(r) = Len(s) - 1
  BY <1>1, <1>3
<1> QED
  BY <1>4, <1>5 DEF r

LEMMA JoinElements ==
  ASSUME NEW s \in Seq(Nat), NEW t \in Seq(Nat)
  PROVE  /\ s \o t \in Seq(Nat) /\ ToSet(s \o t) = ToSet(s) \cup ToSet(t)
         /\ Increasing(s) /\ Increasing(t) /\ Below(ToSet(s), ToSet(t)) => Increasing(s \o t)
<1>1. /\ s \o t \in Seq(Nat) /\ Len(s \o t) = Len(s) + Len(t) /\ Len(s) \in Nat /\ Len(t) \in Nat
      /\ \A i \in 1 .. Len(s) : (s \o t)[i] = s[i]
  BY ConcatProperties
<1>2. \A i \in 1 .. Len(t) : (s \o t)[Len(s) + i] = t[i] /\ Len(s) + i \in 1 .. Len(s \o t)
  BY <1>1, ConcatProperties
<1>3. \A i \in 1 .. Len(s \o t) :
        \/ i \in 1 .. Len(s)
        \/ i - Len(s) \in 1 .. Len(t) /\ i = Len(s) + (i - Len(s))
  BY <1>1
<1>4. \A x : x \in ToSet(s \o t) <=> x \in ToSet(s) \/ x \in ToSet(t)
  <2>1. ASSUME NEW x \in ToSet(s \o t) PROVE x \in ToSet(s) \/ x \in ToSet(t)
    <3>1. PICK i \in 1 .. Len(s \o t) : x = (s \o t)[i]
      BY <1>1, InSeq
    <3>2. CASE i \in 1 .. Len(s)
      BY <1>1, <3>1, <3>2, InSeq
    <3>3. CASE i - Len(s) \in 1 .. Len(t) /\ i = Len(s) + (i - Len(s))
      BY <1>2, <3>1, <3>3, InSeq
    <3> QED
      BY <1>3, <3>2, <3>3
  <2>2. ASSUME NEW x, x \in ToSet(s) PROVE x \in ToSet(s \o t)
    <3>1. PICK i \in 1 .. Len(s) : x = s[i]
      BY <2>2, InSeq
    <3>2. i \in 1 .. Len(s \o t)
      BY <1>1
    <3> QED
      BY <1>1, <3>1, <3>2, InSeq
  <2>3. ASSUME NEW x, x \in ToSet(t) PROVE x \in ToSet(s \o t)
    <3>1. PICK i \in 1 .. Len(t) : x = t[i]
      BY <2>3, InSeq
    <3> QED
      BY <1>1, <1>2, <3>1, InSeq
  <2> QED
    BY <2>1, <2>2, <2>3
<1>5. ASSUME Increasing(s), Increasing(t), Below(ToSet(s), ToSet(t)) PROVE Increasing(s \o t)
  <2> DEFINE r == s \o t
  <2> SUFFICES ASSUME NEW i \in 1 .. Len(r), NEW j \in 1 .. Len(r), i < j PROVE r[i] < r[j]
    BY DEF Increasing
  <2>1. CASE j \in 1 .. Len(s)
    <3>1. i \in 1 .. Len(s)
      BY <1>1, <2>1
    <3> QED
      BY <1>1, <1>5, <2>1, <3>1 DEF Increasing
  <2>2. CASE j - Len(s) \in 1 .. Len(t) /\ j = Len(s) + (j - Len(s))
    <3>1. r[j] = t[j - Len(s)]
      BY <1>2, <2>2
    <3>2. CASE i \in 1 .. Len(s)
      <4>1. r[i] = s[i] /\ s[i] \in ToSet(s) /\ t[j - Len(s)] \in ToSet(t)
        BY <1>1, <2>2, <3>2, InSeq
      <4> QED
        BY <1>5, <3>1, <4>1 DEF Below
    <3>3. CASE i - Len(s) \in 1 .. Len(t) /\ i = Len(s) + (i - Len(s))
      <4>1. r[i] = t[i - Len(s)] /\ i - Len(s) < j - Len(s)
        BY <1>1, <1>2, <2>2, <3>3
      <4> QED
        BY <1>5, <2>2, <3>1, <3>3, <4>1 DEF Increasing
    <3> QED
      BY <1>3, <3>2, <3>3
  <2> QED
    BY <1>3, <2>1, <2>2
<1> QED
  BY <1>1, <1>4, <1>5

\* An increasing sequence has as many elements as places, ...
LEMMA ElementsCount ==
  ASSUME NEW s \in Seq(Nat), Increasing(s)
  PROVE  IsFiniteSet(ToSet(s)) /\ Cardinality(ToSet(s)) = Len(s)
<1>1. /\ Len(s) \in Nat /\ DOMAIN s = 1 .. Len(s) /\ \A i \in 1 .. Len(s) : s[i] \in Nat
      /\ s = [i \in 1 .. Len(s) |-> s[i]]
  OBVIOUS
<1>2. s \in [1 .. Len(s) -> ToSet(s)] /\ \A x \in ToSet(s) : \E i \in 1 .. Len(s) : s[i] = x
  BY <1>1, InSeq
<1>3. \A i, j \in 1 .. Len(s) : s[i] = s[j] => i = j
  <2> SUFFICES ASSUME NEW i \in 1 .. Len(s), NEW j \in 1 .. Len(s), s[i] = s[j] PROVE i = j
    OBVIOUS
  <2>1. ~(i < j) /\ ~(j < i)
    BY <1>1 DEF Increasing
  <2> QED
    BY <2>1
<1>4. s \in Bijection(1 .. Len(s), ToSet(s))
  BY <1>1, <1>2, <1>3 DEF Bijection, Injection, Surjection, IsInjective
<1>5. IsFiniteSet(1 .. Len(s)) /\ Cardinality(1 .. Len(s)) = Len(s)
  <2>1. \A n \in Nat : IsFiniteSet(1 .. n) /\ Cardinality(1 .. n) = n
    BY FS_Interval
  <2> QED
    BY <1>1, <2>1
<1> QED
  BY <1>4, <1>5, FS_Bijection DEF ExistsBijection

\* ... and from 1 on its places run no faster than its elements.
LEMMA ElementAtLeast ==
  ASSUME NEW s \in Seq(Nat), Increasing(s), 0 \notin ToSet(s)
  PROVE  \A i \in 1 .. Len(s) : i <= s[i]
<1> DEFINE T == {k \in Nat : k = 0 \/ k > Len(s) \/ k <= s[k]}
<1>1. Len(s) \in Nat /\ \A i \in 1 .. Len(s) : s[i] \in Nat /\ s[i] # 0
  BY InSeq
<1>2. ASSUME NEW k \in 0 .. Len(s) - 1, k \in T PROVE k + 1 \in T
  <2>1. k + 1 \in 1 .. Len(s) /\ s[k + 1] \in Nat /\ s[k + 1] # 0
    BY <1>1
  <2>2. CASE k = 0
    BY <2>1, <2>2
  <2>3. CASE k # 0
    <3>1. k \in 1 .. Len(s) /\ k < k + 1 /\ s[k] \in Nat /\ k <= s[k]
      BY <1>1, <1>2, <2>3
    <3>2. s[k] < s[k + 1]
      BY <2>1, <3>1 DEF Increasing
    <3> QED
      BY <2>1, <3>1, <3>2
  <2> QED
    BY <2>2, <2>3
<1>3. 0 \in T
  OBVIOUS
<1> HIDE DEF T
<1>4. \A k \in 0 .. Len(s) : k \in T
  BY <1>1, <1>2, <1>3, CountUp
<1> QED
  BY <1>1, <1>4 DEF T

\* The two parts of a sequence.
LEMMA SplitElements ==
  ASSUME NEW s \in Seq(Nat), NEW n \in 0 .. Len(s)
  PROVE  LET a == SubSeq(s, 1, n)
             b == SubSeq(s, n + 1, Len(s))
         IN  /\ a \in Seq(Nat) /\ b \in Seq(Nat) /\ Len(a) = n
             /\ ToSet(s) = ToSet(a) \cup ToSet(b)
             /\ Increasing(s) => Increasing(a) /\ Increasing(b) /\ Below(ToSet(a), ToSet(b))
<1> DEFINE a == SubSeq(s, 1, n)
           b == SubSeq(s, n + 1, Len(s))
<1>1. n \in Nat /\ Len(s) \in Nat /\ n <= Len(s) /\ \A i \in 1 .. Len(s) : s[i] \in Nat
  OBVIOUS
<1>2. a \in Seq(Nat) /\ Len(a) = n /\ \A i \in 1 .. n : a[i] = s[i] /\ i \in 1 .. Len(s)
  BY <1>1
<1>3. /\ b \in Seq(Nat) /\ Len(b) = Len(s) - n
      /\ \A i \in 1 .. Len(s) - n : b[i] = s[n + i] /\ n + i \in 1 .. Len(s)
  BY <1>1
<1> HIDE DEF a, b
<1>4. \A i \in 1 .. Len(s) : i \in 1 .. n \/ (i - n \in 1 .. Len(b) /\ s[i] = b[i - n])
  <2> SUFFICES ASSUME NEW i \in 1 .. Len(s), i \notin 1 .. n
               PROVE  i - n \in 1 .. Len(b) /\ s[i] = b[i - n]
    OBVIOUS
  <2>1. i - n \in 1 .. Len(s) - n /\ n + (i - n) = i
    BY <1>1
  <2> QED
    BY <1>3, <2>1
<1>5. \A x : x \in ToSet(s) <=> x \in ToSet(a) \/ x \in ToSet(b)
  <2>1. ASSUME NEW x \in ToSet(s) PROVE x \in ToSet(a) \/ x \in ToSet(b)
    <3>1. PICK i \in 1 .. Len(s) : x = s[i]
      BY InSeq
    <3> QED
      BY <1>2, <1>3, <1>4, <3>1, InSeq
  <2>2. ASSUME NEW x \in ToSet(a) PROVE x \in ToSet(s)
    BY <1>2, InSeq
  <2>3. ASSUME NEW x \in ToSet(b) PROVE x \in ToSet(s)
    <3>1. PICK i \in 1 .. Len(s) - n : x = b[i]
      BY <1>3, InSeq
    <3> QED
      BY <1>3, <3>1, InSeq
  <2> QED
    BY <2>1, <2>2, <2>3
<1>6. ASSUME Increasing(s) PROVE Increasing(a) /\ Increasing(b) /\ Below(ToSet(a), ToSet(b))
  <2>1. Increasing(a)
    BY <1>2, <1>6 DEF Increasing
  <2>2. Increasing(b)
    <3> SUFFICES ASSUME NEW i \in 1 .. Len(b), NEW j \in 1 .. Len(b), i < j PROVE b[i] < b[j]
      BY DEF Increasing
    <3>1. n + i < n + j /\ b[i] = s[n + i] /\ b[j] = s[n + j]
          /\ n + i \in 1 .. Len(s) /\ n + j \in 1 .. Len(s)
      BY <1>1, <1>3
    <3> QED
      BY <1>6, <3>1 DEF Increasing
  <2>3. ASSUME NEW x \in ToSet(a), NEW y \in ToSet(b) PROVE x < y
    <3>1. PICK i \in 1 .. n : x = a[i]
      BY <1>2, InSeq
    <3>2. PICK j \in 1 .. Len(s) - n : y = b[j]
      BY <1>3, InSeq
    <3>3. i < n + j /\ x = s[i] /\ y = s[n + j] /\ i \in 1 .. Len(s) /\ n + j \in 1 .. Len(s)
      BY <1>1, <1>2, <1>3, <3>1, <3>2
    <3> QED
      BY <1>6, <3>3 DEF Increasing
  <2> QED
    BY <2>1, <2>2, <2>3 DEF Below
<1>7. ToSet(s) = ToSet(a) \cup ToSet(b)
  BY <1>5
<1> QED
  BY <1>2, <1>3, <1>6, <1>7 DEF a, b

-----------------------------------------------------------------------------
(* Zeros among the numbers                                                  *)

\* As far as they are not zero.
Grows(s) == \A i, j \in 1 .. Len(s) : i < j /\ s[i] # 0 /\ s[j] # 0 => s[i] < s[j]

NonZero(s) == ToSet(s) \ {0}

LEMMA JoinGrows ==
  ASSUME NEW s \in Seq(Nat), NEW t \in Seq(Nat), Grows(s), Grows(t),
         Below(NonZero(s), NonZero(t))
  PROVE  Grows(s \o t) /\ NonZero(s \o t) = NonZero(s) \cup NonZero(t)
<1> DEFINE r == s \o t
<1>1. /\ Len(r) = Len(s) + Len(t) /\ Len(s) \in Nat /\ Len(t) \in Nat
      /\ \A i \in 1 .. Len(s) : r[i] = s[i]
      /\ \A i \in 1 .. Len(t) : r[Len(s) + i] = t[i]
  BY ConcatProperties
<1>2. NonZero(r) = NonZero(s) \cup NonZero(t)
  BY JoinElements DEF NonZero
<1> HIDE DEF r
<1>3. \A i \in 1 .. Len(r) :
        \/ i \in 1 .. Len(s) /\ r[i] = s[i]
        \/ i - Len(s) \in 1 .. Len(t) /\ i > Len(s) /\ r[i] = t[i - Len(s)]
  <2> SUFFICES ASSUME NEW i \in 1 .. Len(r), i \notin 1 .. Len(s)
               PROVE  i - Len(s) \in 1 .. Len(t) /\ i > Len(s) /\ r[i] = t[i - Len(s)]
    BY <1>1
  <2>1. i - Len(s) \in 1 .. Len(t) /\ i > Len(s) /\ Len(s) + (i - Len(s)) = i
    BY <1>1
  <2> QED
    BY <1>1, <2>1
<1>4. Grows(r)
  <2> SUFFICES ASSUME NEW i \in 1 .. Len(r), NEW j \in 1 .. Len(r), i < j, r[i] # 0, r[j] # 0
               PROVE  r[i] < r[j]
    BY DEF Grows
  <2>1. CASE j \in 1 .. Len(s) /\ r[j] = s[j]
    <3>1. i \in 1 .. Len(s) /\ r[i] = s[i]
      BY <1>1, <2>1
    <3> QED
      BY <2>1, <3>1 DEF Grows
  <2>2. CASE j - Len(s) \in 1 .. Len(t) /\ j > Len(s) /\ r[j] = t[j - Len(s)]
    <3>1. CASE i \in 1 .. Len(s) /\ r[i] = s[i]
      BY <2>2, <3>1, InSeq DEF NonZero, Below
    <3>2. CASE i - Len(s) \in 1 .. Len(t) /\ i > Len(s) /\ r[i] = t[i - Len(s)]
      <4>1. i - Len(s) < j - Len(s)
        BY <1>1
      <4> QED
        BY <2>2, <3>2, <4>1 DEF Grows
    <3> QED
      BY <1>3, <3>1, <3>2
  <2> QED
    BY <1>3, <2>1, <2>2
<1> QED
  BY <1>2, <1>4 DEF r

-----------------------------------------------------------------------------
(* Sequences of sequences, joined                                           *)

\* f[i] is the first i of them joined.
Joins(f, s, n) == f = [i \in 1 .. n |-> IF i = 1 THEN s[i] ELSE f[i - 1] \o s[i]]

LEMMA JoinsExists == ASSUME NEW s, NEW n \in Nat PROVE \E f : Joins(f, s, n)
<1> DEFINE T == {k \in 0 .. n : \E f : Joins(f, s, k)}
<1>1. 0 \in T
  <2> DEFINE f == [i \in 1 .. 0 |-> 0]
  <2>1. Joins(f, s, 0)
    BY DEF Joins
  <2> QED
    BY <2>1
<1>2. ASSUME NEW k \in 0 .. n - 1, k \in T PROVE k + 1 \in T
  <2>1. PICK f : Joins(f, s, k)
    BY <1>2
  <2> DEFINE g == [i \in 1 .. k + 1 |->
                    IF i <= k THEN f[i] ELSE IF i = 1 THEN s[i] ELSE f[i - 1] \o s[i]]
  <2>2. ASSUME NEW i \in 1 .. k + 1
        PROVE  g[i] = IF i = 1 THEN s[i] ELSE g[i - 1] \o s[i]
    <3>1. CASE i <= k
      <4>1. i \in 1 .. k
        BY <3>1
      <4>2. f[i] = IF i = 1 THEN s[i] ELSE f[i - 1] \o s[i]
        BY <2>1, <4>1 DEF Joins
      <4>3. i # 1 => i - 1 \in 1 .. k /\ g[i - 1] = f[i - 1]
        BY <4>1
      <4> QED
        BY <3>1, <4>2, <4>3
    <3>2. CASE ~(i <= k)
      <4>1. i # 1 => i - 1 \in 1 .. k /\ g[i - 1] = f[i - 1]
        BY <3>2
      <4> QED
        BY <3>2, <4>1
    <3> QED
      BY <3>1, <3>2
  <2>3. g = [i \in 1 .. k + 1 |-> g[i]]
    OBVIOUS
  <2> HIDE DEF g
  <2>4. Joins(g, s, k + 1)
    BY <2>2, <2>3 DEF Joins
  <2> QED
    BY <2>4
<1> HIDE DEF T
<1>3. n \in T
  BY <1>1, <1>2, CountUp
<1> QED
  BY <1>3 DEF T

LEMMA FlattenIs ==
  ASSUME NEW s, Len(s) \in Nat \ {0}
  PROVE  \E f : Joins(f, s, Len(s)) /\ FlattenSeq(s) = f[Len(s)]
<1> DEFINE f == CHOOSE f : f = [i \in 1 .. Len(s) |-> IF i = 1 THEN s[i] ELSE f[i - 1] \o s[i]]
<1>1. f = [i \in 1 .. Len(s) |-> IF i = 1 THEN s[i] ELSE f[i - 1] \o s[i]]
  <2>1. \E g : g = [i \in 1 .. Len(s) |-> IF i = 1 THEN s[i] ELSE g[i - 1] \o s[i]]
    BY JoinsExists DEF Joins
  <2> QED
    BY <2>1
<1>2. FlattenSeq(s) = f[Len(s)]
  BY DEF FlattenSeq
<1> QED
  BY <1>1, <1>2 DEF Joins

\* Increasing sequences, each past the one before it, join to an increasing one.
LEMMA FlattenIncreasing ==
  ASSUME NEW s \in Seq(Seq(Nat)),
         \A i \in 1 .. Len(s) : Increasing(s[i]),
         \A i, j \in 1 .. Len(s) : i < j => Below(ToSet(s[i]), ToSet(s[j]))
  PROVE  /\ FlattenSeq(s) \in Seq(Nat) /\ Increasing(FlattenSeq(s))
         /\ \A x : x \in ToSet(FlattenSeq(s)) <=> \E i \in 1 .. Len(s) : x \in ToSet(s[i])
<1>1. CASE Len(s) = 0
  <2>1. FlattenSeq(s) = <<>>
    BY <1>1, EmptySeq DEF FlattenSeq
  <2> QED
    BY <1>1, <2>1, EmptyElements
<1>2. CASE Len(s) # 0
  <2>1. PICK f : Joins(f, s, Len(s)) /\ FlattenSeq(s) = f[Len(s)]
    BY <1>2, FlattenIs
  <2> DEFINE Good(k) ==
               /\ f[k] \in Seq(Nat) /\ Increasing(f[k])
               /\ \A x : x \in ToSet(f[k]) <=> \E i \in 1 .. k : x \in ToSet(s[i])
             T == {k \in 0 .. Len(s) : k = 0 \/ Good(k)}
  <2>2. 0 \in T
    OBVIOUS
  <2>3. ASSUME NEW k \in 0 .. Len(s) - 1, k \in T PROVE k + 1 \in T
    <3>1. k + 1 \in 1 .. Len(s) /\ s[k + 1] \in Seq(Nat) /\ Increasing(s[k + 1])
      OBVIOUS
    <3>2. f[k + 1] = IF k + 1 = 1 THEN s[k + 1] ELSE f[(k + 1) - 1] \o s[k + 1]
      BY <2>1, <3>1 DEF Joins
    <3>3. CASE k = 0
      <4>1. f[k + 1] = s[k + 1] /\ \A i \in 1 .. k + 1 : i = k + 1
        BY <3>2, <3>3
      <4>2. k + 1 \in 1 .. k + 1
        BY <3>1
      <4>3. Good(k + 1)
        BY <3>1, <4>1, <4>2
      <4> HIDE DEF Good
      <4> QED
        BY <3>1, <4>3
    <3>4. CASE k # 0
      <4>1. f[k + 1] = f[k] \o s[k + 1] /\ Good(k)
        <5>1. k + 1 # 1 /\ (k + 1) - 1 = k
          BY <3>4
        <5>2. Good(k)
          BY <2>3, <3>4
        <5> HIDE DEF Good
        <5> QED
          BY <3>2, <5>1, <5>2
      <4>2. Below(ToSet(f[k]), ToSet(s[k + 1]))
        <5> SUFFICES ASSUME NEW a \in ToSet(f[k]), NEW b \in ToSet(s[k + 1]) PROVE a < b
          BY DEF Below
        <5>1. PICK i \in 1 .. k : a \in ToSet(s[i])
          BY <4>1
        <5>2. i \in 1 .. Len(s) /\ i < k + 1
          OBVIOUS
        <5> QED
          BY <3>1, <5>1, <5>2 DEF Below
      <4>3. /\ f[k + 1] \in Seq(Nat) /\ Increasing(f[k + 1])
            /\ ToSet(f[k + 1]) = ToSet(f[k]) \cup ToSet(s[k + 1])
        BY <3>1, <4>1, <4>2, JoinElements
      <4>4. \A i : i \in 1 .. k + 1 <=> i \in 1 .. k \/ i = k + 1
        BY <3>1
      <4>5. Good(k + 1)
        BY <4>1, <4>3, <4>4
      <4> HIDE DEF Good
      <4> QED
        BY <3>1, <4>5
    <3> QED
      BY <3>3, <3>4
  <2> HIDE DEF T
  <2>4. Len(s) \in T
    <3>1. Len(s) \in Nat
      OBVIOUS
    <3>2. \A k \in 0 .. Len(s) : k \in T
      BY <2>2, <2>3, <3>1, CountUp
    <3> QED
      BY <3>1, <3>2
  <2> QED
    BY <1>2, <2>1, <2>4 DEF T
<1> QED
  BY <1>1, <1>2

-----------------------------------------------------------------------------
(* The sum over a sequence                                                  *)

\* What the things s lists weigh together, if p weighs size[p].
Total(size, s) == FoldSeq(LAMBDA p, n : size[p] + n, 0, s)

Choice(A) == CHOOSE x \in A : TRUE

\* f[A] is what those at the places A weigh.
Weighs(f, size, s, A) ==
  f[A] = IF A = {} THEN 0 ELSE size[s[Choice(A)]] + f[A \ {Choice(A)}]

Sums(f, size, s) ==
  f = [A \in SUBSET DOMAIN s |-> IF A = {} THEN 0 ELSE size[s[Choice(A)]] + f[A \ {Choice(A)}]]

LEMMA ChoiceIn == ASSUME NEW A, A # {} PROVE Choice(A) \in A
  BY DEF Choice

LEMMA SumsExists == ASSUME NEW size, NEW s, IsFiniteSet(DOMAIN s) PROVE \E f : Sums(f, size, s)
<1> DEFINE D == DOMAIN s
           n == Cardinality(D)
           Small(k) == {A \in SUBSET D : Cardinality(A) <= k}
           T == {k \in 0 .. n : \E f : \A A \in Small(k) : Weighs(f, size, s, A)}
<1>1. n \in Nat /\ \A A \in SUBSET D : IsFiniteSet(A) /\ Cardinality(A) \in 0 .. n
  BY FS_Subset, FS_CardinalityType
<1> HIDE DEF n
<1>2. 0 \in T
  <2> DEFINE f == [A \in {{}} |-> 0]
  <2>1. \A A \in Small(0) : A = {}
    BY <1>1, FS_EmptySet
  <2>2. f[{}] = 0
    OBVIOUS
  <2> HIDE DEF f
  <2>3. \A A \in Small(0) : Weighs(f, size, s, A)
    BY <2>1, <2>2 DEF Weighs
  <2> QED
    BY <1>1, <2>3
<1>3. ASSUME NEW k \in 0 .. n - 1, k \in T PROVE k + 1 \in T
  <2>1. PICK f : \A A \in Small(k) : Weighs(f, size, s, A)
    BY <1>3
  <2> DEFINE Value(A) == IF A \in Small(k) THEN f[A]
                         ELSE IF A = {} THEN 0
                         ELSE size[s[Choice(A)]] + f[A \ {Choice(A)}]
             g == [A \in SUBSET D |-> Value(A)]
  <2>2. ASSUME NEW A \in Small(k + 1), A # {}
        PROVE  A \ {Choice(A)} \in Small(k)
    <3>1. Choice(A) \in A /\ IsFiniteSet(A) /\ Cardinality(A) \in Nat
      BY <1>1, <2>2, ChoiceIn
    <3>2. Cardinality(A \ {Choice(A)}) = Cardinality(A) - 1
      BY <3>1, FS_RemoveElement
    <3> QED
      BY <1>1, <3>1, <3>2
  <2>3. \A A \in SUBSET D : g[A] = Value(A)
    OBVIOUS
  <2> HIDE DEF g
  <2>4. ASSUME NEW A \in Small(k + 1) PROVE Weighs(g, size, s, A)
    <3>1. CASE A = {}
      <4>1. Value(A) = 0
        BY <2>1, <3>1 DEF Weighs
      <4> QED
        BY <2>3, <3>1, <4>1 DEF Weighs
    <3>2. CASE A # {}
      <4> DEFINE rest == A \ {Choice(A)}
      <4>1. rest \in Small(k)
        BY <2>2, <3>2
      <4>2. g[rest] = f[rest]
        BY <2>3, <4>1
      <4>3. Value(A) = size[s[Choice(A)]] + f[rest]
        BY <2>1, <3>2 DEF Weighs
      <4> QED
        BY <2>3, <3>2, <4>2, <4>3 DEF Weighs
    <3> QED
      BY <3>1, <3>2
  <2> QED
    BY <1>1, <2>4
<1> HIDE DEF T
<1>4. n \in T
  BY <1>1, <1>2, <1>3, CountUp
<1>5. PICK f : \A A \in Small(n) : Weighs(f, size, s, A)
  BY <1>4 DEF T
<1>6. \A A \in SUBSET D : A \in Small(n) /\ A \ {Choice(A)} \in SUBSET D
  BY <1>1
<1> DEFINE g == [A \in SUBSET D |-> f[A]]
<1>7. \A A \in SUBSET D :
        g[A] = IF A = {} THEN 0 ELSE size[s[Choice(A)]] + g[A \ {Choice(A)}]
  BY <1>5, <1>6 DEF Weighs
<1>8. g = [A \in SUBSET D |-> g[A]]
  OBVIOUS
<1> HIDE DEF g
<1>9. Sums(g, size, s)
  BY <1>7, <1>8 DEF Sums
<1> QED
  BY <1>9

LEMMA TotalIs ==
  ASSUME NEW size, NEW s, IsFiniteSet(DOMAIN s)
  PROVE  \E f : Sums(f, size, s) /\ Total(size, s) = f[DOMAIN s]
<1> DEFINE f == CHOOSE f :
             f = [A \in SUBSET DOMAIN s |->
                   IF A = {} THEN 0 ELSE size[s[Choice(A)]] + f[A \ {Choice(A)}]]
<1>1. f = [A \in SUBSET DOMAIN s |->
             IF A = {} THEN 0 ELSE size[s[Choice(A)]] + f[A \ {Choice(A)}]]
  <2>1. \E g : g = [A \in SUBSET DOMAIN s |->
                      IF A = {} THEN 0 ELSE size[s[Choice(A)]] + g[A \ {Choice(A)}]]
    <3>1. PICK g : Sums(g, size, s)
      BY SumsExists
    <3> QED
      BY <3>1 DEF Sums
  <2> QED
    BY <2>1
<1>2. Total(size, s) = f[DOMAIN s]
  BY DEF Total, FoldSeq, FoldFunction, FoldFunctionOnSet, MapThenFoldSet, Choice
<1> QED
  BY <1>1, <1>2 DEF Sums

LEMMA SumsNat ==
  ASSUME NEW size, NEW s, IsFiniteSet(DOMAIN s), \A i \in DOMAIN s : size[s[i]] \in Nat,
         NEW f, Sums(f, size, s)
  PROVE  /\ \A A \in SUBSET DOMAIN s : f[A] \in Nat /\ Weighs(f, size, s, A)
<1> DEFINE D == DOMAIN s
           T == {A \in SUBSET D : f[A] \in Nat}
<1>1. \A A \in SUBSET D : Weighs(f, size, s, A)
  BY DEF Sums, Weighs
<1>2. ASSUME NEW A \in SUBSET D, \A x \in A : A \ {x} \in T PROVE A \in T
  <2>1. CASE A = {}
    BY <1>1, <2>1 DEF Weighs
  <2>2. CASE A # {}
    <3>1. Choice(A) \in A
      BY <2>2, ChoiceIn
    <3>2. size[s[Choice(A)]] \in Nat /\ f[A \ {Choice(A)}] \in Nat
      BY <1>2, <3>1
    <3> QED
      BY <1>1, <2>2, <3>2 DEF Weighs
  <2> QED
    BY <2>1, <2>2
<1>3. \A A \in SUBSET D : A \in T
  <2> HIDE DEF T
  <2> QED
    BY <1>2, SetsUp
<1> QED
  BY <1>1, <1>3

\* Any one of the places may be counted last.
LEMMA SumsAny ==
  ASSUME NEW size, NEW s, IsFiniteSet(DOMAIN s), \A i \in DOMAIN s : size[s[i]] \in Nat,
         NEW f, Sums(f, size, s)
  PROVE  \A A \in SUBSET DOMAIN s : \A x \in A : f[A] = size[s[x]] + f[A \ {x}]
<1> DEFINE D == DOMAIN s
           T == {A \in SUBSET D : \A x \in A : f[A] = size[s[x]] + f[A \ {x}]}
<1>1. \A A \in SUBSET D : f[A] \in Nat /\ Weighs(f, size, s, A)
  BY SumsNat
<1>2. ASSUME NEW A \in SUBSET D, \A x \in A : A \ {x} \in T PROVE A \in T
  <2> SUFFICES ASSUME NEW x \in A PROVE f[A] = size[s[x]] + f[A \ {x}]
    OBVIOUS
  <2> DEFINE c == Choice(A)
  <2>1. c \in A /\ f[A] = size[s[c]] + f[A \ {c}]
    BY <1>1, ChoiceIn DEF Weighs
  <2> HIDE DEF c
  <2>2. CASE x = c
    BY <2>1, <2>2
  <2>3. CASE x # c
    <3> DEFINE both == (A \ {c}) \ {x}
               wx == size[s[x]]
               wc == size[s[c]]
    <3>1. f[A \ {c}] = wx + f[both]
      BY <1>2, <2>1, <2>3
    <3>2. f[A \ {x}] = wc + f[both]
      <4>1. f[A \ {x}] = wc + f[(A \ {x}) \ {c}]
        BY <1>2, <2>1, <2>3
      <4>2. (A \ {x}) \ {c} = both
        OBVIOUS
      <4> QED
        BY <4>1, <4>2
    <3>3. f[both] \in Nat /\ wx \in Nat /\ wc \in Nat
      BY <1>1, <2>1
    <3>4. f[A] = wc + f[A \ {c}]
      BY <2>1
    <3> HIDE DEF both, wx, wc
    <3>5. f[A] = wx + f[A \ {x}]
      BY <3>1, <3>2, <3>3, <3>4
    <3> QED
      BY <3>5 DEF wx
  <2> QED
    BY <2>2, <2>3
<1>3. \A A \in SUBSET D : A \in T
  <2> HIDE DEF T
  <2> QED
    BY <1>2, SetsUp
<1> QED
  BY <1>3

\* What stands at the same places and weighs the same sums to the same.
LEMMA SumsSame ==
  ASSUME NEW size, NEW s, NEW f, Sums(f, size, s), IsFiniteSet(DOMAIN s),
         NEW other, NEW t, NEW g, Sums(g, other, t), DOMAIN s \subseteq DOMAIN t,
         \A i \in DOMAIN s : other[t[i]] = size[s[i]]
  PROVE  \A A \in SUBSET DOMAIN s : g[A] = f[A]
<1> DEFINE D == DOMAIN s
           T == {A \in SUBSET D : g[A] = f[A]}
<1>1. \A A \in SUBSET D : Weighs(f, size, s, A) /\ Weighs(g, other, t, A)
  BY DEF Sums, Weighs
<1>2. ASSUME NEW A \in SUBSET D, \A x \in A : A \ {x} \in T PROVE A \in T
  <2>1. CASE A = {}
    BY <1>1, <2>1 DEF Weighs
  <2>2. CASE A # {}
    <3>1. Choice(A) \in A
      BY <2>2, ChoiceIn
    <3>2. other[t[Choice(A)]] = size[s[Choice(A)]] /\ g[A \ {Choice(A)}] = f[A \ {Choice(A)}]
      BY <1>2, <3>1
    <3> QED
      BY <1>1, <2>2, <3>2 DEF Weighs
  <2> QED
    BY <2>1, <2>2
<1>3. \A A \in SUBSET D : A \in T
  <2> HIDE DEF T
  <2> QED
    BY <1>2, SetsUp
<1> QED
  BY <1>3

LEMMA TotalEmpty == ASSUME NEW size PROVE Total(size, <<>>) = 0
<1>1. DOMAIN <<>> = {}
  OBVIOUS
<1>2. PICK f : Sums(f, size, <<>>) /\ Total(size, <<>>) = f[{}]
  BY <1>1, TotalIs, FS_EmptySet
<1>3. Weighs(f, size, <<>>, {})
  BY <1>1, <1>2 DEF Sums, Weighs
<1> QED
  BY <1>2, <1>3 DEF Weighs

\* Sizes that are the same for all that s lists give the same sum.
LEMMA TotalSame ==
  ASSUME NEW s \in Seq(Nat), NEW size, NEW other, \A p \in ToSet(s) : other[p] = size[p]
  PROVE  Total(other, s) = Total(size, s)
<1>1. DOMAIN s = 1 .. Len(s) /\ Len(s) \in Nat
  OBVIOUS
<1>2. IsFiniteSet(DOMAIN s)
  <2>1. Len(s) \in Int /\ IsFiniteSet(1 .. Len(s))
    BY <1>1, FS_Interval
  <2> QED
    BY <1>1, <2>1
<1>3. PICK f : Sums(f, size, s) /\ Total(size, s) = f[DOMAIN s]
  BY <1>2, TotalIs
<1>4. PICK g : Sums(g, other, s) /\ Total(other, s) = g[DOMAIN s]
  BY <1>2, TotalIs
<1>5. \A i \in DOMAIN s : other[s[i]] = size[s[i]]
  BY <1>1, InSeq
<1>6. \A A \in SUBSET DOMAIN s : g[A] = f[A]
  BY <1>2, <1>3, <1>4, <1>5, SumsSame
<1> QED
  BY <1>3, <1>4, <1>6

\* One more weighs what it weighs.
LEMMA TotalAppend ==
  ASSUME NEW s \in Seq(Nat), NEW e \in Nat, NEW size, size[e] \in Nat,
         \A p \in ToSet(s) : size[p] \in Nat
  PROVE  Total(size, Append(s, e)) = Total(size, s) + size[e] /\ Total(size, s) \in Nat
<1> DEFINE t == Append(s, e)
           k == Len(s) + 1
<1>1. /\ DOMAIN s = 1 .. Len(s) /\ DOMAIN t = 1 .. k /\ Len(s) \in Nat
      /\ t[k] = e /\ \A i \in 1 .. Len(s) : t[i] = s[i]
  OBVIOUS
<1>2. IsFiniteSet(DOMAIN s) /\ IsFiniteSet(DOMAIN t)
  <2>1. k \in Int /\ Len(s) \in Int
    BY <1>1
  <2> HIDE DEF k
  <2> QED
    BY <1>1, <2>1, FS_Interval
<1>3. DOMAIN t \ {k} = DOMAIN s /\ k \in DOMAIN t /\ DOMAIN s \subseteq DOMAIN t
  BY <1>1
<1>4. \A i \in DOMAIN s : size[t[i]] = size[s[i]] /\ size[s[i]] \in Nat
  BY <1>1, InSeq
<1> HIDE DEF t
<1>5. PICK f : Sums(f, size, s) /\ Total(size, s) = f[DOMAIN s]
  BY <1>2, TotalIs
<1>6. PICK g : Sums(g, size, t) /\ Total(size, t) = g[DOMAIN t]
  BY <1>2, TotalIs
<1>7. \A i \in DOMAIN t : size[t[i]] \in Nat
  BY <1>1, <1>3, <1>4
<1>8. g[DOMAIN t] = size[t[k]] + g[DOMAIN t \ {k}]
  <2>1. \A A \in SUBSET DOMAIN t : \A x \in A : g[A] = size[t[x]] + g[A \ {x}]
    <3>1. IsFiniteSet(DOMAIN t) /\ Sums(g, size, t)
      BY <1>2, <1>6
    <3> SUFFICES ASSUME NEW A \in SUBSET DOMAIN t, NEW x \in A
                 PROVE  g[A] = size[t[x]] + g[A \ {x}]
      OBVIOUS
    <3> QED
      BY <1>7, <3>1, SumsAny
  <2> QED
    BY <1>3, <2>1
<1>9. g[DOMAIN s] = f[DOMAIN s]
  BY <1>2, <1>3, <1>4, <1>5, <1>6, SumsSame
<1>10. f[DOMAIN s] \in Nat
  BY <1>2, <1>4, <1>5, SumsNat
<1>11. Total(size, t) = size[e] + Total(size, s) /\ Total(size, s) \in Nat
  BY <1>1, <1>3, <1>5, <1>6, <1>8, <1>9, <1>10
<1> QED
  BY <1>11 DEF t
=============================================================================
