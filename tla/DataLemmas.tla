----------------------------- MODULE DataLemmas -----------------------------
(***************************************************************************)
(* Lemmas about sequences, numbers and sums that several proofs rest on,   *)
(* and about rationals in lowest terms.                                    *)
(***************************************************************************)
EXTENDS Integers, Sequences, SequencesExt, FiniteSets, Rationals, SequenceTheorems, FiniteSetTheorems,
        WellFoundedInduction, TLAPS

(* What the induction over a search or a count rests on.                   *)
LEMMA LeastOf ==
  ASSUME NEW S \in SUBSET Nat, NEW x \in S
  PROVE  \E n \in S : \A m \in S : n <= m
<1>1. PICK n \in S : \A m \in S : ~(<<m, n>> \in OpToRel(<, Nat))
  BY WFMin, NatLessThanWellFounded
<1>2. \A m \in S : m < n => <<m, n>> \in OpToRel(<, Nat)
  BY DEF OpToRel
<1>3. \A m \in S : ~(m < n)
  BY <1>1, <1>2
<1>4. n \in Nat /\ \A m \in S : m \in Nat
  OBVIOUS
<1> QED
  BY <1>3, <1>4

LEMMA FrontIs ==
  ASSUME NEW S, NEW s \in Seq(S), s # <<>>
  PROVE  /\ Front(s) \in Seq(S) /\ Len(s) \in Nat \ {0} /\ Len(Front(s)) = Len(s) - 1
         /\ \A i \in 1..Len(s) - 1 : Front(s)[i] = s[i]
<1>1. Len(s) \in Nat \ {0} /\ \A i \in 1..Len(s) : s[i] \in S
  BY ElementOfSeq, EmptySeq
<1>2. \A i \in 1..Len(s) - 1 : s[i] \in S
  BY <1>1
<1> DEFINE front == SubSeq(s, 1, Len(s) - 1)
<1>3. /\ front \in Seq(S) /\ Len(front) = IF 1 <= Len(s) - 1 THEN Len(s) - 1 - 1 + 1 ELSE 0
      /\ \A i \in 1..Len(s) - 1 - 1 + 1 : front[i] = s[1 + i - 1]
  BY <1>1, <1>2, SubSeqProperties
<1>4. Front(s) = front
  BY DEF Front
<1> HIDE DEF front
<1> QED
  BY <1>1, <1>3, <1>4

LEMMA RemoveAtIs ==
  ASSUME NEW S, NEW s \in Seq(S), NEW k \in 1..Len(s)
  PROVE  /\ RemoveAt(s, k) \in Seq(S) /\ Len(RemoveAt(s, k)) = Len(s) - 1
         /\ \A i \in 1..Len(s) - 1 : RemoveAt(s, k)[i] = IF i < k THEN s[i] ELSE s[i + 1]
<1> DEFINE front == SubSeq(s, 1, k - 1)
           back == SubSeq(s, k + 1, Len(s))
<1>1. Len(s) \in Nat /\ k \in Int /\ k - 1 \in Int /\ k + 1 \in Int /\ \A i \in 1..Len(s) : s[i] \in S
  BY ElementOfSeq
<1>2. /\ front \in Seq(S) /\ Len(front) = k - 1
      /\ \A i \in 1..k - 1 : front[i] = s[i]
  <2>1. \A i \in 1..k - 1 : s[i] \in S
    BY <1>1
  <2>2. /\ front \in Seq(S) /\ Len(front) = IF 1 <= k - 1 THEN k - 1 - 1 + 1 ELSE 0
        /\ \A i \in 1..(k - 1) - 1 + 1 : front[i] = s[1 + i - 1]
    BY <1>1, <2>1, SubSeqProperties
  <2> HIDE DEF front
  <2>3. \A i \in 1..k - 1 : i \in 1..(k - 1) - 1 + 1 /\ 1 + i - 1 = i
    BY <1>1
  <2>4. Len(front) = k - 1
    BY <1>1, <2>2
  <2> QED
    BY <2>2, <2>3, <2>4
<1>3. /\ back \in Seq(S) /\ Len(back) = Len(s) - k
      /\ \A i \in 1..Len(s) - k : back[i] = s[k + i]
  <2>1. \A i \in k + 1..Len(s) : s[i] \in S
    BY <1>1
  <2>2. /\ back \in Seq(S) /\ Len(back) = IF k + 1 <= Len(s) THEN Len(s) - (k + 1) + 1 ELSE 0
        /\ \A i \in 1..Len(s) - (k + 1) + 1 : back[i] = s[k + 1 + i - 1]
    BY <1>1, <2>1, SubSeqProperties
  <2> HIDE DEF back
  <2> QED
    BY <1>1, <2>2
<1>4. RemoveAt(s, k) = front \o back
  BY DEF RemoveAt
<1> HIDE DEF front, back
<1>5. /\ front \o back \in Seq(S) /\ Len(front \o back) = Len(front) + Len(back)
      /\ \A i \in 1..Len(front) + Len(back) :
           (front \o back)[i] = IF i <= Len(front) THEN front[i] ELSE back[i - Len(front)]
  BY <1>2, <1>3, ConcatProperties
<1>6. \A i \in 1..Len(s) - 1 : (front \o back)[i] = IF i < k THEN s[i] ELSE s[i + 1]
  <2> SUFFICES ASSUME NEW i \in 1..Len(s) - 1
               PROVE  (front \o back)[i] = IF i < k THEN s[i] ELSE s[i + 1]
    OBVIOUS
  <2>1. (front \o back)[i] = IF i <= k - 1 THEN front[i] ELSE back[i - (k - 1)]
    BY <1>1, <1>2, <1>3, <1>5
  <2>2. CASE i < k
    BY <1>1, <1>2, <2>1, <2>2
  <2>3. CASE i >= k
    <3>1. PICK j \in 1..Len(s) - k : j = i - (k - 1) /\ k + j = i + 1
      BY <1>1, <2>3
    <3>2. back[j] = s[i + 1] /\ ~(i <= k - 1) /\ ~(i < k)
      BY <1>1, <1>3, <2>3, <3>1
    <3> QED
      BY <2>1, <3>1, <3>2
  <2>4. i < k \/ i >= k
    BY <1>1
  <2> QED
    BY <2>2, <2>3, <2>4
<1> QED
  BY <1>1, <1>2, <1>3, <1>4, <1>5, <1>6

(* An element is inserted before itself.                                   *)
LEMMA InsertAtIs ==
  ASSUME NEW S, NEW s \in Seq(S), NEW k \in Nat, k - 1 \in 0..Len(s), NEW x \in S
  PROVE  /\ InsertAt(s, k, x) \in Seq(S) /\ Len(InsertAt(s, k, x)) = Len(s) + 1
         /\ InsertAt(s, k, x)[k] = x
         /\ \A i \in 1..k - 1 : InsertAt(s, k, x)[i] = s[i]
         /\ \A i \in 1..Len(s) : i >= k => InsertAt(s, k, x)[i + 1] = s[i]
<1> DEFINE front == SubSeq(s, 1, k - 1)
           mid == front \o <<x>>
           back == SubSeq(s, k, Len(s))
<1>1. Len(s) \in Nat /\ k \in Int /\ k - 1 \in Int /\ \A i \in 1..Len(s) : s[i] \in S
  BY ElementOfSeq
<1>2. /\ front \in Seq(S) /\ Len(front) = k - 1
      /\ \A i \in 1..k - 1 : front[i] = s[i]
  <2>1. \A i \in 1..k - 1 : s[i] \in S
    BY <1>1
  <2>2. /\ front \in Seq(S) /\ Len(front) = IF 1 <= k - 1 THEN k - 1 - 1 + 1 ELSE 0
        /\ \A i \in 1..(k - 1) - 1 + 1 : front[i] = s[1 + i - 1]
    BY <1>1, <2>1, SubSeqProperties
  <2> HIDE DEF front
  <2>3. \A i \in 1..k - 1 : i \in 1..(k - 1) - 1 + 1 /\ 1 + i - 1 = i
    BY <1>1
  <2>4. Len(front) = k - 1
    BY <1>1, <2>2
  <2> QED
    BY <2>2, <2>3, <2>4
<1>3. /\ back \in Seq(S) /\ Len(back) = Len(s) - k + 1
      /\ \A i \in 1..Len(s) - k + 1 : back[i] = s[k + i - 1]
  <2>1. \A i \in k..Len(s) : s[i] \in S
    BY <1>1
  <2>2. /\ back \in Seq(S) /\ Len(back) = IF k <= Len(s) THEN Len(s) - k + 1 ELSE 0
        /\ \A i \in 1..Len(s) - k + 1 : back[i] = s[k + i - 1]
    BY <1>1, <2>1, SubSeqProperties
  <2> HIDE DEF back
  <2> QED
    BY <1>1, <2>2
<1>4. InsertAt(s, k, x) = mid \o back
  BY DEF InsertAt
<1> HIDE DEF front, back
<1>5. /\ mid \in Seq(S) /\ Len(mid) = k
      /\ \A i \in 1..k - 1 : mid[i] = s[i]
      /\ mid[k] = x
  <2>1. <<x>> \in Seq(S) /\ Len(<<x>>) = 1 /\ <<x>>[1] = x
    BY <1>1
  <2>2. /\ mid \in Seq(S) /\ Len(mid) = Len(front) + Len(<<x>>)
        /\ \A i \in 1..Len(front) + Len(<<x>>) :
             mid[i] = IF i <= Len(front) THEN front[i] ELSE <<x>>[i - Len(front)]
    BY <1>2, <2>1, ConcatProperties
  <2> HIDE DEF mid
  <2>3. Len(front) + Len(<<x>>) = k
    BY <1>1, <1>2, <2>1
  <2>4. ASSUME NEW i \in 1..k PROVE mid[i] = IF i < k THEN s[i] ELSE x
    <3>1. mid[i] = IF i <= k - 1 THEN front[i] ELSE <<x>>[i - (k - 1)]
      BY <1>2, <2>2, <2>3
    <3>2. CASE i <= k - 1
      BY <1>1, <1>2, <3>1, <3>2
    <3>3. CASE i = k
      BY <1>1, <2>1, <3>1, <3>3
    <3> QED
      BY <1>1, <3>2, <3>3
  <2> QED
    BY <1>1, <1>2, <2>1, <2>2, <2>4
<1> HIDE DEF mid
<1>6. /\ mid \o back \in Seq(S) /\ Len(mid \o back) = Len(mid) + Len(back)
      /\ \A i \in 1..Len(mid) + Len(back) :
           (mid \o back)[i] = IF i <= Len(mid) THEN mid[i] ELSE back[i - Len(mid)]
  BY <1>3, <1>5, ConcatProperties
<1>7. (mid \o back)[k] = x
  <2>1. k \in 1..Len(mid) + Len(back) /\ k <= Len(mid)
    BY <1>1, <1>3, <1>5
  <2> QED
    BY <1>5, <1>6, <2>1
<1>8. ASSUME NEW i \in 1..k - 1 PROVE (mid \o back)[i] = s[i]
  <2>1. i \in 1..Len(mid) + Len(back) /\ i <= Len(mid)
    BY <1>1, <1>3, <1>5
  <2> QED
    BY <1>5, <1>6, <2>1
<1>9. ASSUME NEW i \in 1..Len(s), i >= k PROVE (mid \o back)[i + 1] = s[i]
  <2>1. PICK j \in 1..Len(s) - k + 1 : j = i + 1 - k
    BY <1>1, <1>9
  <2>2. Len(mid) = k /\ Len(mid) + Len(back) = Len(s) + 1
    BY <1>1, <1>3, <1>5
  <2>3. i + 1 \in 1..Len(mid) + Len(back) /\ ~(i + 1 <= Len(mid)) /\ i + 1 - Len(mid) = j /\ k + j - 1 = i
    BY <1>1, <1>9, <2>1, <2>2
  <2>4. (mid \o back)[i + 1] = back[j]
    BY <1>6, <2>3
  <2>5. back[j] = s[i]
    BY <1>3, <2>1, <2>3
  <2> QED
    BY <2>4, <2>5
<1> QED
  BY <1>1, <1>3, <1>4, <1>5, <1>6, <1>7, <1>8, <1>9

(***************************************************************************)
(* Sums over finite sets.                                                  *)
(***************************************************************************)

(* What a fold with + computes, as an equation: f[s] is the sum of v over  *)
(* s, one element of s after another.                                      *)
SumStep(v, f, s) ==
  IF s = {} THEN 0 ELSE v[CHOOSE x \in s : TRUE] + f[s \ {CHOOSE x \in s : TRUE}]

Sums(v, D, f) == f = [s \in SUBSET D |-> SumStep(v, f, s)]

IntTerms(v, D) == \A x \in D : v[x] \in Int

(* What it means: any element can be the first.                            *)
Adds(v, D, f) ==
  /\ f[{}] = 0
  /\ \A s \in SUBSET D : f[s] \in Int
  /\ \A s \in SUBSET D : \A x \in s : f[s] = v[x] + f[s \ {x}]

LEMMA SmallestOf ==
  ASSUME NEW D, IsFiniteSet(D), NEW T \in SUBSET (SUBSET D), NEW t0 \in T
  PROVE  \E s \in T : \A t \in T : ~(Cardinality(t) < Cardinality(s))
<1> DEFINE S == {Cardinality(t) : t \in T}
<1>1. \A t \in T : Cardinality(t) \in Nat
  BY FS_Subset, FS_CardinalityType
<1>2. S \in SUBSET Nat /\ Cardinality(t0) \in S
  BY <1>1
<1>3. PICK n \in S : \A m \in S : n <= m
  <2> HIDE DEF S
  <2> QED
    BY <1>2, LeastOf
<1>4. PICK s \in T : n = Cardinality(s)
  OBVIOUS
<1>5. \A t \in T : Cardinality(s) <= Cardinality(t)
  BY <1>3, <1>4
<1> QED
  BY <1>1, <1>4, <1>5

LEMMA OneLess ==
  ASSUME NEW D, IsFiniteSet(D), NEW s \in SUBSET D, NEW x \in s
  PROVE  /\ s \ {x} \in SUBSET D /\ Cardinality(s) \in Nat \ {0}
         /\ Cardinality(s \ {x}) = Cardinality(s) - 1
<1>1. IsFiniteSet(s)
  BY FS_Subset
<1>2. Cardinality(s) \in Nat /\ Cardinality(s \ {x}) = Cardinality(s) - 1
  BY <1>1, FS_CardinalityType, FS_RemoveElement
<1>3. Cardinality(s \ {x}) \in Nat
  BY <1>1, FS_CardinalityType, FS_RemoveElement
<1> QED
  BY <1>2, <1>3

(* The equation has a solution: solved for sets of ever more elements.     *)
LEMMA SumExists ==
  ASSUME NEW D, IsFiniteSet(D), NEW v
  PROVE  \E f : Sums(v, D, f)
<1> DEFINE UpTo(n) ==
             \E f : /\ f = [s \in SUBSET D |-> f[s]]
                    /\ \A s \in SUBSET D : Cardinality(s) <= n => f[s] = SumStep(v, f, s)
           S == {n \in Nat : ~UpTo(n)}
<1>1. \A s \in SUBSET D : Cardinality(s) \in Nat /\ (Cardinality(s) <= Cardinality(D))
  BY FS_Subset, FS_CardinalityType
<1>2. S = {}
  <2> SUFFICES ASSUME S # {} PROVE FALSE
    OBVIOUS
  <2>1. PICK n \in S : \A m \in S : n <= m
    <3>1. S \in SUBSET Nat /\ \E x : x \in S
      OBVIOUS
    <3> HIDE DEF S
    <3> QED
      BY <3>1, LeastOf
  <2>2. n \in Nat /\ ~UpTo(n)
    OBVIOUS
  <2>3. CASE n = 0
    <3> DEFINE f == [s \in SUBSET D |-> 0]
    <3>1. ASSUME NEW s \in SUBSET D, Cardinality(s) <= n PROVE f[s] = SumStep(v, f, s)
      <4>1. s = {}
        BY <1>1, <2>3, <3>1, FS_Subset, FS_EmptySet
      <4> QED
        BY <4>1 DEF SumStep
    <3>2. f = [s \in SUBSET D |-> f[s]]
      OBVIOUS
    <3> HIDE DEF f
    <3>3. UpTo(n)
      BY <3>1, <3>2
    <3> QED
      BY <2>2, <3>3
  <2>4. CASE n # 0
    <3>1. n - 1 \in Nat /\ ~(n <= n - 1)
      BY <2>2, <2>4
    <3>2. UpTo(n - 1)
      BY <2>1, <3>1
    <3> HIDE DEF S
    <3>3. PICK f : /\ f = [s \in SUBSET D |-> f[s]]
                   /\ \A s \in SUBSET D : Cardinality(s) <= n - 1 => f[s] = SumStep(v, f, s)
      BY <3>2
    <3> DEFINE g == [s \in SUBSET D |-> SumStep(v, f, s)]
    <3>4. ASSUME NEW s \in SUBSET D, Cardinality(s) <= n PROVE g[s] = SumStep(v, g, s)
      <4>1. CASE s = {}
        BY <4>1 DEF SumStep
      <4>2. CASE s # {}
        <5> DEFINE x == CHOOSE y \in s : TRUE
        <5>1. x \in s
          BY <4>2
        <5> HIDE DEF x
        <5>2. s \ {x} \in SUBSET D /\ Cardinality(s \ {x}) <= n - 1
          BY <2>2, <3>4, <5>1, OneLess
        <5>3. f[s \ {x}] = g[s \ {x}]
          BY <3>3, <5>2
        <5>4. g[s] = v[x] + f[s \ {x}] /\ SumStep(v, g, s) = v[x] + g[s \ {x}]
          BY <4>2 DEF x, SumStep
        <5> QED
          BY <5>3, <5>4
      <4> QED
        BY <4>1, <4>2
    <3>5. g = [s \in SUBSET D |-> g[s]]
      OBVIOUS
    <3> HIDE DEF g
    <3>6. UpTo(n)
      BY <3>4, <3>5
    <3> QED
      BY <2>2, <3>6
  <2> QED
    BY <2>3, <2>4
<1>3. UpTo(Cardinality(D))
  <2>1. Cardinality(D) \in Nat
    BY FS_CardinalityType
  <2> QED
    BY <1>2, <2>1
<1>4. PICK f : /\ f = [s \in SUBSET D |-> f[s]]
               /\ \A s \in SUBSET D : Cardinality(s) <= Cardinality(D) => f[s] = SumStep(v, f, s)
  BY <1>3
<1>5. \A s \in SUBSET D : f[s] = SumStep(v, f, s)
  BY <1>1, <1>4
<1>6. Sums(v, D, f)
  BY <1>4, <1>5 DEF Sums
<1> QED
  BY <1>6

(* A solution is a sum of integers, and any element can be the first.      *)
LEMMA SumIs ==
  ASSUME NEW D, IsFiniteSet(D), NEW v, IntTerms(v, D), NEW f, Sums(v, D, f)
  PROVE  Adds(v, D, f)
<1>1. \A s \in SUBSET D : f[s] = SumStep(v, f, s)
  BY DEF Sums
<1>2. f[{}] = 0
  BY <1>1 DEF SumStep
<1>3. ASSUME NEW s \in SUBSET D, s # {}
      PROVE  \E c \in s : f[s] = v[c] + f[s \ {c}]
  <2> DEFINE c == CHOOSE x \in s : TRUE
  <2>1. c \in s /\ f[s] = v[c] + f[s \ {c}]
    BY <1>1, <1>3 DEF SumStep
  <2> QED
    BY <2>1
<1>4. \A s \in SUBSET D : f[s] \in Int
  <2> DEFINE T == {s \in SUBSET D : f[s] \notin Int}
  <2> SUFFICES ASSUME NEW t0 \in T PROVE FALSE
    OBVIOUS
  <2>1. PICK s \in T : \A t \in T : ~(Cardinality(t) < Cardinality(s))
    <3>1. T \in SUBSET (SUBSET D)
      OBVIOUS
    <3> HIDE DEF T
    <3> QED
      BY <3>1, SmallestOf
  <2>2. s \in SUBSET D /\ f[s] \notin Int /\ s # {}
    BY <1>2
  <2>3. PICK c \in s : f[s] = v[c] + f[s \ {c}]
    BY <1>3, <2>2
  <2>4. s \ {c} \in SUBSET D /\ Cardinality(s \ {c}) < Cardinality(s)
    <3>1. s \ {c} \in SUBSET D /\ Cardinality(s) \in Nat \ {0} /\ Cardinality(s \ {c}) = Cardinality(s) - 1
      BY <2>2, OneLess
    <3> QED
      BY <3>1
  <2>5. f[s \ {c}] \in Int /\ v[c] \in Int
    BY <2>1, <2>2, <2>4 DEF IntTerms
  <2> QED
    BY <2>2, <2>3, <2>5
<1>5. \A s \in SUBSET D : \A x \in s : f[s] = v[x] + f[s \ {x}]
  <2> DEFINE T == {s \in SUBSET D : ~\A x \in s : f[s] = v[x] + f[s \ {x}]}
  <2> SUFFICES ASSUME NEW t0 \in T PROVE FALSE
    OBVIOUS
  <2>1. PICK s \in T : \A t \in T : ~(Cardinality(t) < Cardinality(s))
    <3>1. T \in SUBSET (SUBSET D)
      OBVIOUS
    <3> HIDE DEF T
    <3> QED
      BY <3>1, SmallestOf
  <2>2. PICK x \in s : f[s] # v[x] + f[s \ {x}]
    OBVIOUS
  <2>3. s \in SUBSET D /\ s # {}
    OBVIOUS
  <2>4. PICK c \in s : f[s] = v[c] + f[s \ {c}]
    BY <1>3, <2>3
  <2>5. \A y \in s : s \ {y} \in SUBSET D /\ Cardinality(s \ {y}) < Cardinality(s)
    <3>1. \A y \in s : /\ s \ {y} \in SUBSET D /\ Cardinality(s) \in Nat \ {0}
                       /\ Cardinality(s \ {y}) = Cardinality(s) - 1
      BY <2>3, OneLess
    <3> QED
      BY <3>1
  <2>6. \A y \in s : s \ {y} \notin T
    BY <2>1, <2>5
  <2>7. \A y \in s : \A z \in s \ {y} : f[s \ {y}] = v[z] + f[(s \ {y}) \ {z}]
    BY <2>5, <2>6
  <2> HIDE DEF T
  <2>8. x # c
    BY <2>2, <2>4
  <2>9. f[s \ {c}] = v[x] + f[(s \ {c}) \ {x}] /\ f[s \ {x}] = v[c] + f[(s \ {x}) \ {c}]
    BY <2>7, <2>8
  <2>10. (s \ {c}) \ {x} = (s \ {x}) \ {c} /\ (s \ {c}) \ {x} \in SUBSET D
    BY <2>3
  <2> DEFINE rest == f[(s \ {c}) \ {x}]
  <2>11. v[x] \in Int /\ v[c] \in Int /\ rest \in Int
    BY <1>4, <2>3, <2>10 DEF IntTerms
  <2>12. f[s] = v[c] + (v[x] + rest) /\ f[s \ {x}] = v[c] + rest
    BY <2>4, <2>9, <2>10
  <2> HIDE DEF rest
  <2> QED
    BY <2>2, <2>11, <2>12
<1> QED
  BY <1>2, <1>4, <1>5 DEF Adds

AddTerms(u, v, w, D) == \A x \in D : u[x] = v[x] + w[x]

(* Sums of sums: equal term by term, equal in total.                       *)
LEMMA SumsAdd ==
  ASSUME NEW D, IsFiniteSet(D), NEW u, NEW v, NEW w,
         IntTerms(u, D), IntTerms(v, D), IntTerms(w, D), AddTerms(u, v, w, D),
         NEW f, NEW g, NEW h, Sums(u, D, f), Sums(v, D, g), Sums(w, D, h)
  PROVE  f[D] = g[D] + h[D]
<1>1. Adds(u, D, f) /\ Adds(v, D, g) /\ Adds(w, D, h)
  BY SumIs
<1>2. \A s \in SUBSET D : \A x \in s :
        f[s] = u[x] + f[s \ {x}] /\ g[s] = v[x] + g[s \ {x}] /\ h[s] = w[x] + h[s \ {x}]
  BY <1>1 DEF Adds
<1> DEFINE T == {s \in SUBSET D : f[s] # g[s] + h[s]}
<1> SUFFICES ASSUME NEW t0 \in T PROVE FALSE
  OBVIOUS
<1>3. PICK s \in T : \A t \in T : ~(Cardinality(t) < Cardinality(s))
  <2>1. T \in SUBSET (SUBSET D)
    OBVIOUS
  <2> HIDE DEF T
  <2> QED
    BY <2>1, SmallestOf
<1>4. s \in SUBSET D /\ f[s] # g[s] + h[s] /\ s # {}
  <2>1. f[{}] = g[{}] + h[{}]
    BY <1>1 DEF Adds
  <2> QED
    BY <2>1
<1>5. PICK x \in s : TRUE
  BY <1>4
<1>6. s \ {x} \in SUBSET D /\ Cardinality(s \ {x}) < Cardinality(s)
  <2>1. s \ {x} \in SUBSET D /\ Cardinality(s) \in Nat \ {0} /\ Cardinality(s \ {x}) = Cardinality(s) - 1
    BY <1>4, OneLess
  <2> QED
    BY <2>1
<1>7. f[s \ {x}] = g[s \ {x}] + h[s \ {x}]
  BY <1>3, <1>6
<1> HIDE DEF T
<1>8. f[s] = u[x] + f[s \ {x}] /\ g[s] = v[x] + g[s \ {x}] /\ h[s] = w[x] + h[s \ {x}]
  BY <1>2, <1>4
<1>9. /\ u[x] = v[x] + w[x] /\ v[x] \in Int /\ w[x] \in Int
      /\ g[s \ {x}] \in Int /\ h[s \ {x}] \in Int
  BY <1>1, <1>4, <1>6 DEF Adds, IntTerms, AddTerms
<1> QED
  BY <1>4, <1>7, <1>8, <1>9

MoveTerms(c, v, n) == \A k \in 1..n : v[k] = c[k + 1] - c[k]

(* What the moves between the members of a sequence add up to.             *)
LEMMA SumTelescopes ==
  ASSUME NEW n \in Nat, NEW c, IntTerms(c, 1..n + 1), NEW v, MoveTerms(c, v, n),
         NEW f, Sums(v, 1..n, f)
  PROVE  f[1..n] = c[n + 1] - c[1]
<1>1. IsFiniteSet(1..n)
  BY FS_Interval
<1>2. \A k \in 1..n : k + 1 \in 1..n + 1 /\ k \in 1..n + 1
  OBVIOUS
<1>3. \A k \in 1..n : v[k] \in Int /\ v[k] = c[k + 1] - c[k]
  BY <1>2 DEF IntTerms, MoveTerms
<1>4. Adds(v, 1..n, f)
  BY <1>1, <1>3, SumIs DEF IntTerms
<1>5. \A s \in SUBSET (1..n) : \A x \in s : f[s] = v[x] + f[s \ {x}]
  BY <1>4 DEF Adds
<1> DEFINE S == {m \in 0..n : f[1..m] # c[m + 1] - c[1]}
<1>6. S = {}
  <2> SUFFICES ASSUME S # {} PROVE FALSE
    OBVIOUS
  <2>1. PICK m \in S : \A k \in S : m <= k
    <3>1. S \in SUBSET Nat /\ \E x : x \in S
      OBVIOUS
    <3> HIDE DEF S
    <3> QED
      BY <3>1, LeastOf
  <2>2. m \in 0..n /\ f[1..m] # c[m + 1] - c[1]
    OBVIOUS
  <2>3. m # 0
    <3>1. 1..0 = {} /\ c[1] \in Int
      BY DEF IntTerms
    <3> QED
      BY <1>4, <2>2, <3>1 DEF Adds
  <2>4. m - 1 \in 0..n /\ ~(m <= m - 1) /\ m - 1 + 1 = m
    BY <2>2, <2>3
  <2>5. f[1..m - 1] = c[m] - c[1]
    <3>1. m - 1 \notin S
      BY <2>1, <2>4
    <3>2. f[1..m - 1] = c[m - 1 + 1] - c[1]
      BY <2>4, <3>1
    <3> QED
      BY <2>4, <3>2
  <2>6. 1..m \in SUBSET (1..n) /\ m \in 1..m /\ m \in 1..n /\ (1..m) \ {m} = 1..m - 1
    BY <2>2, <2>3
  <2>7. f[1..m] = v[m] + f[1..m - 1]
    BY <1>5, <2>6
  <2>8. c[m] \in Int /\ c[m + 1] \in Int /\ c[1] \in Int /\ v[m] = c[m + 1] - c[m]
    BY <1>2, <1>3, <2>6 DEF IntTerms
  <2> QED
    BY <2>2, <2>5, <2>7, <2>8
<1>7. n \notin S
  BY <1>6
<1> QED
  BY <1>7

(* Counting by numbering.                                                  *)
OneToOne(b, D) == \A x, y \in D : b[x] = b[y] => x = y

LEMMA CountIs ==
  ASSUME NEW n \in Nat, NEW b, OneToOne(b, 1..n)
  PROVE  IsFiniteSet({b[j] : j \in 1..n}) /\ Cardinality({b[j] : j \in 1..n}) = n
<1> DEFINE E == {b[j] : j \in 1..n}
           f == [j \in 1..n |-> b[j]]
<1>1. IsFiniteSet(1..n) /\ Cardinality(1..n) = n
  BY FS_Interval
<1>2. f \in [1..n -> E] /\ (\A e \in E : \E j \in 1..n : f[j] = e)
  OBVIOUS
<1>3. \A i, j \in 1..n : f[i] = f[j] => i = j
  BY DEF OneToOne
<1> HIDE DEF f, E
<1>4. f \in Bijection(1..n, E)
  BY <1>2, <1>3 DEF Bijection, Injection, Surjection, IsInjective
<1>5. ExistsBijection(1..n, E)
  BY <1>4 DEF ExistsBijection
<1>6. IsFiniteSet(E) /\ Cardinality(E) = n
  BY <1>1, <1>5, FS_Bijection
<1> QED
  BY <1>6 DEF E

(* A sum does not depend on how its terms are named: b names the elements  *)
(* of E by those of D.                                                     *)
Renames(b, D, E, v, w) ==
  /\ OneToOne(b, D) /\ E = {b[x] : x \in D}
  /\ \A x \in D : v[x] = w[b[x]]

LEMMA SumsMatch ==
  ASSUME NEW D, IsFiniteSet(D), NEW E, IsFiniteSet(E), NEW b, NEW v, NEW w, Renames(b, D, E, v, w),
         IntTerms(v, D), IntTerms(w, E), NEW f, NEW g, Sums(v, D, f), Sums(w, E, g)
  PROVE  f[D] = g[E]
<1>1. Adds(v, D, f) /\ Adds(w, E, g)
  BY SumIs
<1> DEFINE Im(s) == {b[x] : x \in s}
           T == {s \in SUBSET D : f[s] # g[Im(s)]}
<1>2. T = {}
  <2> SUFFICES ASSUME NEW t0 \in T PROVE FALSE
    OBVIOUS
  <2>1. PICK s \in T : \A t \in T : ~(Cardinality(t) < Cardinality(s))
    <3>1. T \in SUBSET (SUBSET D)
      OBVIOUS
    <3> HIDE DEF T
    <3> QED
      BY <3>1, SmallestOf
  <2>2. s \in SUBSET D /\ f[s] # g[Im(s)]
    OBVIOUS
  <2>3. s # {}
    BY <1>1, <2>2 DEF Adds
  <2>4. PICK x \in s : TRUE
    BY <2>3
  <2>5. s \ {x} \in SUBSET D /\ Cardinality(s \ {x}) < Cardinality(s)
    <3>1. s \ {x} \in SUBSET D /\ Cardinality(s) \in Nat \ {0} /\ Cardinality(s \ {x}) = Cardinality(s) - 1
      BY <2>2, OneLess
    <3> QED
      BY <3>1
  <2>6. f[s \ {x}] = g[Im(s \ {x})]
    BY <2>1, <2>5
  <2> HIDE DEF T
  <2>7. Im(s) \in SUBSET E /\ b[x] \in Im(s)
    BY <2>2 DEF Renames
  <2>8. Im(s \ {x}) = Im(s) \ {b[x]}
    BY <2>2 DEF Renames, OneToOne
  <2>9. f[s] = v[x] + f[s \ {x}]
    BY <1>1, <2>2 DEF Adds
  <2> HIDE DEF Im
  <2>10. g[Im(s)] = w[b[x]] + g[Im(s) \ {b[x]}]
    BY <1>1, <2>7 DEF Adds
  <2>11. v[x] = w[b[x]]
    BY <2>2 DEF Renames
  <2> QED
    BY <2>2, <2>6, <2>8, <2>9, <2>10, <2>11
<1>3. Im(D) = E
  BY DEF Renames
<1>4. f[D] = g[Im(D)]
  BY <1>2
<1> QED
  BY <1>3, <1>4

(* The library's sum of a function's values, as that equation.             *)
LEMMA SumFunctionIs ==
  ASSUME NEW v, NEW D, D = DOMAIN v, IsFiniteSet(D)
  PROVE  \E f : Sums(v, D, f) /\ SumFunction(v) = f[D]
<1>1. PICK f : Sums(v, D, f)
  BY SumExists
<1>2. \E g : Sums(v, D, g) /\ FoldFunctionOnSet(+, 0, v, D) = g[D]
  BY <1>1, ZenonT(30) DEF Sums, SumStep, FoldFunctionOnSet, MapThenFoldSet
<1>3. SumFunction(v) = FoldFunctionOnSet(+, 0, v, D)
  BY Zenon DEF SumFunction, SumFunctionOnSet
<1> QED
  BY <1>2, <1>3

(* The sum over a sequence of one more term.                               *)
LEMMA SumOfOneMore ==
  ASSUME NEW n \in Nat, NEW v, NEW w, DOMAIN v = 1..n, DOMAIN w = 1..n + 1,
         \A k \in 1..n : w[k] = v[k], IntTerms(w, 1..n + 1)
  PROVE  /\ SumFunction(v) \in Int
         /\ SumFunction(w) = SumFunction(v) + w[n + 1]
<1>1. IsFiniteSet(1..n) /\ IsFiniteSet(1..n + 1)
  BY FS_Interval
<1>2. /\ 1..n \in SUBSET (1..n + 1) /\ 1..n + 1 \in SUBSET (1..n + 1) /\ n + 1 \in 1..n + 1
      /\ (1..n + 1) \ {n + 1} = 1..n
  OBVIOUS
<1>3. IntTerms(v, 1..n)
  BY <1>2 DEF IntTerms
<1>4. PICK f : Sums(v, 1..n, f) /\ SumFunction(v) = f[1..n]
  BY <1>1, SumFunctionIs
<1>5. PICK g : Sums(w, 1..n + 1, g) /\ SumFunction(w) = g[1..n + 1]
  BY <1>1, SumFunctionIs
<1>6. Adds(v, 1..n, f) /\ Adds(w, 1..n + 1, g)
  BY <1>1, <1>3, <1>4, <1>5, SumIs
<1>7. f[1..n] \in Int /\ g[1..n + 1] = w[n + 1] + g[1..n]
  <2>1. f[1..n] \in Int
    BY <1>6 DEF Adds
  <2>2. g[1..n + 1] = w[n + 1] + g[(1..n + 1) \ {n + 1}]
    BY <1>2, <1>6 DEF Adds
  <2> QED
    BY <1>2, <2>1, <2>2
<1> DEFINE h == [s \in SUBSET (1..n) |-> g[s]]
<1>8. Sums(v, 1..n, h)
  <2>1. ASSUME NEW s \in SUBSET (1..n) PROVE h[s] = SumStep(v, h, s)
    <3>1. s \in SUBSET (1..n + 1) /\ h[s] = g[s]
      BY <1>2
    <3>2. CASE s = {}
      BY <1>6, <3>1, <3>2 DEF Adds, SumStep
    <3>3. CASE s # {}
      <4>1. PICK x \in s : x = CHOOSE y \in s : TRUE
        BY <3>3
      <4>2. s \ {x} \in SUBSET (1..n) /\ h[s \ {x}] = g[s \ {x}] /\ w[x] = v[x]
        OBVIOUS
      <4>3. g[s] = w[x] + g[s \ {x}]
        BY <1>6, <3>1 DEF Adds
      <4> HIDE DEF h
      <4>4. SumStep(v, h, s) = v[x] + h[s \ {x}]
        BY <3>3, <4>1 DEF SumStep
      <4> QED
        BY <3>1, <4>2, <4>3, <4>4
    <3> QED
      BY <3>2, <3>3
  <2>2. h = [s \in SUBSET (1..n) |-> h[s]]
    OBVIOUS
  <2> HIDE DEF h
  <2> QED
    BY <2>1, <2>2, Zenon DEF Sums
<1>9. f[1..n] = h[1..n]
  <2> HIDE DEF h
  <2> DEFINE b == [x \in 1..n |-> x]
  <2>2. Renames(b, 1..n, 1..n, v, v)
    BY DEF Renames, OneToOne
  <2> HIDE DEF b
  <2> QED
    BY <1>1, <1>3, <1>4, <1>8, <2>2, SumsMatch
<1>10. h[1..n] = g[1..n]
  OBVIOUS
<1> HIDE DEF h
<1>11. f[1..n] = g[1..n]
  BY <1>9, <1>10
<1>12. w[n + 1] \in Int
  BY <1>2 DEF IntTerms
<1> QED
  BY <1>4, <1>5, <1>7, <1>11, <1>12

(***************************************************************************)
(* Rationals.                                                              *)
(***************************************************************************)
Positive == Nat \ {0}

(* The denominators p / q can be written with.                             *)
Denominators(p, q) == {e \in 1..q : (p * e) % q = 0}

LEMMA Cancel ==
  ASSUME NEW c \in Positive, NEW a \in Int, NEW b \in Int, c * a = c * b
  PROVE  a = b
BY DEF Positive

LEMMA RatIs ==
  ASSUME NEW p \in Int, NEW q \in Positive
  PROVE  \E d \in Positive, k \in Int :
           /\ Rat(p, q) = <<k, d>> /\ d <= q /\ p * d = q * k
           /\ \A e \in Positive, j \in Int : p * e = q * j => d <= e
<1>1. Denominators(p, q) \in SUBSET Nat /\ q \in Denominators(p, q)
  <2>1. (p * q) % q = 0
    BY DEF Positive
  <2> QED
    BY <2>1 DEF Denominators, Positive
<1>2. \E d \in Denominators(p, q) : \A e \in Denominators(p, q) : d <= e
  BY <1>1, LeastOf
<1>3. PICK d \in Denominators(p, q) :
        d = Min(Denominators(p, q)) /\ \A e \in Denominators(p, q) : d <= e
  BY <1>2 DEF Min
<1>4. d \in Positive /\ d <= q /\ (p * d) % q = 0
  BY DEF Denominators, Positive
<1>5. PICK k \in Int : k = (p * d) \div q /\ p * d = q * k
  BY <1>4 DEF Positive
<1>6. Rat(p, q) = <<k, d>>
  BY <1>3, <1>5 DEF Rat, Denominators
<1>7. ASSUME NEW e \in Positive, NEW j \in Int, p * e = q * j PROVE d <= e
  <2>1. CASE e <= q
    <3>1. (p * e) % q = 0
      BY <1>7 DEF Positive
    <3>2. e \in Denominators(p, q)
      BY <2>1, <3>1 DEF Denominators, Positive
    <3> QED
      BY <1>3, <3>2
  <2>2. CASE ~(e <= q)
    BY <1>4, <2>2 DEF Positive
  <2> QED
    BY <2>1, <2>2
<1> QED
  BY <1>4, <1>5, <1>6, <1>7

(* A number has one form in lowest terms.                                  *)
LEMMA RatSame ==
  ASSUME NEW p \in Int, NEW q \in Positive, NEW r \in Int, NEW s \in Positive, p * s = r * q
  PROVE  Rat(p, q) = Rat(r, s)
<1>1. PICK d \in Positive, k \in Int :
        /\ Rat(p, q) = <<k, d>> /\ p * d = q * k
        /\ \A e \in Positive, j \in Int : p * e = q * j => d <= e
  BY RatIs
<1>2. PICK c \in Positive, m \in Int :
        /\ Rat(r, s) = <<m, c>> /\ r * c = s * m
        /\ \A e \in Positive, j \in Int : r * e = s * j => c <= e
  BY RatIs
<1>3. p * c = q * m
  <2>1. s * (p * c) = s * (q * m)
    <3>1. s * (p * c) = (p * s) * c /\ s * (q * m) = q * (s * m) /\ (r * q) * c = q * (r * c)
      BY DEF Positive
    <3> QED
      BY <1>2, <3>1
  <2> QED
    BY <2>1, Cancel DEF Positive
<1>4. r * d = s * k
  <2>1. q * (r * d) = q * (s * k)
    <3>1. q * (r * d) = (r * q) * d /\ q * (s * k) = s * (q * k) /\ (p * s) * d = s * (p * d)
      BY DEF Positive
    <3> QED
      BY <1>1, <3>1
  <2> QED
    BY <2>1, Cancel DEF Positive
<1>5. d = c
  <2>1. d <= c /\ c <= d
    BY <1>1, <1>2, <1>3, <1>4
  <2> QED
    BY <2>1 DEF Positive
<1>6. k = m
  <2>1. q * k = q * m
    BY <1>1, <1>3, <1>5
  <2> QED
    BY <2>1, Cancel
<1> QED
  BY <1>1, <1>2, <1>5, <1>6

LEMMA WholeIs == ASSUME NEW p \in Int PROVE <<p, 1>> = Rat(p, 1)
<1>1. PICK d \in Positive, k \in Int : Rat(p, 1) = <<k, d>> /\ d <= 1 /\ p * d = 1 * k
  <2>1. 1 \in Positive
    BY DEF Positive
  <2> QED
    BY <2>1, RatIs
<1>2. d = 1 /\ k = p
  BY <1>1 DEF Positive
<1> QED
  BY <1>1, <1>2

(* What the operations give of two numbers, whatever form those came in.   *)
LEMMA PlusIs ==
  ASSUME NEW p \in Int, NEW q \in Positive, NEW r \in Int, NEW s \in Positive
  PROVE  /\ Plus(Rat(p, q), Rat(r, s)) = Rat(p * s + r * q, q * s)
         /\ Minus(Rat(p, q), Rat(r, s)) = Rat(p * s - r * q, q * s)
<1>1. PICK d \in Positive, k \in Int : Rat(p, q) = <<k, d>> /\ p * d = q * k
  BY RatIs
<1>2. PICK c \in Positive, m \in Int : Rat(r, s) = <<m, c>> /\ r * c = s * m
  BY RatIs
<1>3. d * c \in Positive /\ q * s \in Positive /\ k * c + m * d \in Int /\ k * c - m * d \in Int
      /\ p * s + r * q \in Int /\ p * s - r * q \in Int
  BY DEF Positive
<1>4. (k * c) * (q * s) = (p * s) * (d * c) /\ (m * d) * (q * s) = (r * q) * (d * c)
  <2>1. (k * c) * (q * s) = (q * k) * (c * s) /\ (p * s) * (d * c) = (p * d) * (c * s)
        /\ (m * d) * (q * s) = (s * m) * (d * q) /\ (r * q) * (d * c) = (r * c) * (d * q)
    BY DEF Positive
  <2> QED
    BY <1>1, <1>2, <2>1
<1>5. (k * c + m * d) * (q * s) = (p * s + r * q) * (d * c)
      /\ (k * c - m * d) * (q * s) = (p * s - r * q) * (d * c)
  <2>1. PICK a \in Int, b \in Int, x \in Int, y \in Int, u \in Int, v \in Int :
          a = k * c /\ b = m * d /\ x = p * s /\ y = r * q /\ u = q * s /\ v = d * c
    BY DEF Positive
  <2>2. (a + b) * u = a * u + b * u /\ (a - b) * u = a * u - b * u
        /\ (x + y) * v = x * v + y * v /\ (x - y) * v = x * v - y * v
    OBVIOUS
  <2> QED
    BY <1>4, <2>1, <2>2
<1>6. Rat(k * c + m * d, d * c) = Rat(p * s + r * q, q * s)
  BY <1>3, <1>5, RatSame
<1>7. Rat(k * c - m * d, d * c) = Rat(p * s - r * q, q * s)
  BY <1>3, <1>5, RatSame
<1> QED
  BY <1>1, <1>2, <1>6, <1>7 DEF Plus, Minus

LEMMA TimesIs ==
  ASSUME NEW p \in Int, NEW q \in Positive, NEW r \in Int, NEW s \in Positive
  PROVE  Times(Rat(p, q), Rat(r, s)) = Rat(p * r, q * s)
<1>1. PICK d \in Positive, k \in Int : Rat(p, q) = <<k, d>> /\ p * d = q * k
  BY RatIs
<1>2. PICK c \in Positive, m \in Int : Rat(r, s) = <<m, c>> /\ r * c = s * m
  BY RatIs
<1>3. d * c \in Positive /\ q * s \in Positive /\ k * m \in Int /\ p * r \in Int
  BY DEF Positive
<1>4. (k * m) * (q * s) = (p * r) * (d * c)
  <2>1. (k * m) * (q * s) = (q * k) * (s * m) /\ (p * r) * (d * c) = (p * d) * (r * c)
    BY DEF Positive
  <2> QED
    BY <1>1, <1>2, <2>1
<1>5. Rat(k * m, d * c) = Rat(p * r, q * s)
  BY <1>3, <1>4, RatSame
<1> QED
  BY <1>1, <1>2, <1>5 DEF Times

LEMMA OverIs ==
  ASSUME NEW p \in Int, NEW q \in Positive, NEW s \in Positive
  PROVE  Over(Rat(p, q), s) = Rat(p, q * s)
<1>1. PICK d \in Positive, k \in Int : Rat(p, q) = <<k, d>> /\ p * d = q * k
  BY RatIs
<1>2. d * s \in Positive /\ q * s \in Positive
  BY DEF Positive
<1>3. k * (q * s) = p * (d * s)
  <2>1. k * (q * s) = (q * k) * s /\ p * (d * s) = (p * d) * s
    BY DEF Positive
  <2> QED
    BY <1>1, <2>1
<1>4. Rat(k, d * s) = Rat(p, q * s)
  BY <1>2, <1>3, RatSame
<1> QED
  BY <1>1, <1>4 DEF Over
=============================================================================
