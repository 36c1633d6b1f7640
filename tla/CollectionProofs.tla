-------------------------- MODULE CollectionProofs --------------------------
(*****************************************************************************)
(* What the operators on maps and lists of Collections give, for every map   *)
(* and every list: an insertion, the entries a retain keeps and their        *)
(* order, and the queue of a sender. Retain keeps the element of rank r      *)
(* among the kept ones at place r; that every place has such an element is   *)
(* an induction on the numbers, made from the least element of a set of      *)
(* numbers (Least).                                                          *)
(*****************************************************************************)
EXTENDS Collections, Integers, Functions, SequencesExt, WellFoundedInduction,
        FiniteSetTheorems, SequenceTheorems, TLAPS

-----------------------------------------------------------------------------
(* Numbers, functions and sequences *)

\* A least number, from which every induction below is made: the relation < as a set
\* is well-founded.
LEMMA Least ==
  ASSUME NEW T \in SUBSET Nat, T # {}
  PROVE  \E x \in T : \A y \in T : x <= y
<1> DEFINE R == OpToRel(<, Nat)
<1>1. IsWellFoundedOn(R, Nat)
  BY NatLessThanWellFounded
<1>2. \A x, y \in Nat : y < x => <<y, x>> \in R
  BY DEF OpToRel
<1> HIDE DEF R
<1>3. PICK x \in T : \A y \in T : ~ (<<y, x>> \in R)
  BY <1>1, WFMin
<1>4. \A y \in T : ~(y < x)
  BY <1>2, <1>3
<1>5. \A y \in T : x <= y
  BY <1>4
<1>6. QED
  BY <1>5

\* The least element, where there is one.
LEMMA MinIsLeast ==
  ASSUME NEW T \in SUBSET Nat, T # {}
  PROVE  Min(T) \in T /\ \A y \in T : Min(T) <= y
BY Least DEF Min

\* Insertion into a map: one entry is new, the others stay.
LEMMA PutIs ==
  ASSUME NEW f, NEW x, NEW y
  PROVE  /\ DOMAIN Put(f, x, y) = DOMAIN f \cup {x}
         /\ Put(f, x, y)[x] = y
         /\ \A z \in DOMAIN f \ {x} : Put(f, x, y)[z] = f[z]
BY DEF Put

\* What a map without some of its keys has left.
LEMMA RestrictIs ==
  ASSUME NEW f, NEW S
  PROVE  DOMAIN Restrict(f, S) = S /\ \A x \in S : Restrict(f, S)[x] = f[x]
BY DEF Restrict

\* A set of positions is finite.
LEMMA Positions ==
  ASSUME NEW m \in Nat, NEW at, at \subseteq 1..m
  PROVE  /\ \A i \in at : i \in Nat /\ 1 <= i /\ i <= m
         /\ IsFiniteSet(at) /\ Cardinality(at) \in Nat
<1>1. IsFiniteSet(1..m)
  BY FS_Interval
<1>2. at \in SUBSET (1..m)
  OBVIOUS
<1>3. IsFiniteSet(at)
  BY <1>1, <1>2, FS_Subset
<1>4. QED
  BY <1>3, FS_CardinalityType

\* SetToSeqs of a finite set: its elements, each once.
LEMMA SetToSeqsIs ==
  ASSUME NEW D, IsFiniteSet(D), NEW s \in SetToSeqs(D)
  PROVE  /\ s \in Seq(D) /\ DOMAIN s \subseteq Nat
         /\ IsInjective(s) /\ ToSet(s) = D
<1> DEFINE n == Cardinality(D)
<1>1. n \in Nat
  BY FS_CardinalityType
<1>2. s \in [1..n -> D] /\ \A i, j \in 1..n : i # j => s[i] # s[j]
  BY DEF SetToSeqs
<1>3. IsFiniteSet(1..n) /\ Cardinality(1..n) = n
  BY <1>1, FS_Interval
<1> HIDE DEF n
<1>4. s \in Injection(1..n, D)
  BY <1>2 DEF Injection, IsInjective
<1>5. s \in Surjection(1..n, D)
  BY <1>3, <1>4, FS_Injection DEF n
<1>6. s \in Seq(D) /\ DOMAIN s = 1..n
  BY <1>1, <1>2
<1>7. IsInjective(s)
  BY <1>2, <1>6 DEF IsInjective
<1>8. ToSet(s) = D
  BY <1>2, <1>5, <1>6 DEF ToSet, Surjection
<1>9. QED
  BY <1>6, <1>7, <1>8

Rank(at, i) == Cardinality({j \in at : j <= i})

\* Every number up to the size of a finite set of positions is the rank of one of them.
LEMMA RankIsHit ==
  ASSUME NEW m \in Nat, NEW at, at \subseteq 1..m, NEW n \in 1..Cardinality(at)
  PROVE  \E i \in at : Rank(at, i) = n
<1> DEFINE upto(i) == {j \in at : j <= i}
<1>1. \A i \in Nat : IsFiniteSet(upto(i)) /\ Cardinality(upto(i)) \in Nat
  <2> TAKE i \in Nat
  <2>1. upto(i) \subseteq 1..m
    OBVIOUS
  <2> HIDE DEF upto
  <2>2. QED
    BY <2>1, Positions
<1>0. \A i \in at : i \in Nat /\ 1 <= i /\ i <= m
  OBVIOUS
<1>2. upto(m) = at /\ upto(0) = {}
  <2>1. \A x \in at : x <= m /\ ~(x <= 0)
    BY <1>0
  <2>2. QED
    BY <2>1
<1> DEFINE T == {i \in 0..m : n <= Cardinality(upto(i))}
<1>3. Cardinality(at) \in Nat /\ n \in Nat /\ n >= 1 /\ n <= Cardinality(at)
  BY <1>1, <1>2
<1>4. m \in T /\ T \in SUBSET Nat
  BY <1>2, <1>3
<1>5. PICK i \in T : \A k \in T : i <= k
  BY <1>4, Least
<1>50. i \in 0..m /\ n <= Cardinality(upto(i)) /\ \A k \in 0..m : n <= Cardinality(upto(k)) => i <= k
  BY <1>5
<1> HIDE DEF T
<1>6. i # 0
  BY <1>2, <1>3, <1>50, FS_EmptySet
<1>7. i - 1 \in 0..m /\ ~(n <= Cardinality(upto(i - 1)))
  <2>1. i - 1 \in 0..m /\ ~(i <= i - 1)
    BY <1>50, <1>6
  <2> HIDE DEF upto
  <2>2. QED
    BY <1>50, <2>1
<1>8. /\ i \in at => upto(i) = upto(i - 1) \cup {i}
      /\ i \notin at => upto(i) = upto(i - 1)
  <2>1. \A j \in Nat : j <= i <=> j <= i - 1 \/ j = i
    BY <1>50
  <2>2. QED
    BY <1>0, <2>1
<1>9. i \notin upto(i - 1)
  BY <1>50
<1> HIDE DEF upto
<1>10. i \in at
  BY <1>50, <1>7, <1>8
<1>11. Cardinality(upto(i)) = Cardinality(upto(i - 1)) + 1
  <2>1. i - 1 \in Nat
    BY <1>7
  <2>2. QED
    BY <1>1, <1>8, <1>9, <1>10, <2>1, FS_AddElement
<1>12. Cardinality(upto(i)) = n
  BY <1>1, <1>3, <1>50, <1>7, <1>11
<1>13. QED
  BY <1>10, <1>12 DEF Rank, upto

\* No two positions have the same rank.
LEMMA RankGrows ==
  ASSUME NEW m \in Nat, NEW at, at \subseteq 1..m, NEW i \in at
  PROVE  /\ Rank(at, i) \in 1..Cardinality(at)
         /\ \A j \in at : Rank(at, j) = Rank(at, i) => j = i
         /\ \A j \in at : j < i => Rank(at, j) < Rank(at, i)
<1> DEFINE upto(k) == {j \in at : j <= k}
<1>1. IsFiniteSet(at) /\ \A k \in at : k \in Nat
  BY Positions
<1>2. \A k \in at : upto(k) \in SUBSET at /\ k \in upto(k)
  OBVIOUS
<1>3. \A k \in at : IsFiniteSet(upto(k)) /\ Cardinality(upto(k)) \in Nat
                    /\ Cardinality(upto(k)) <= Cardinality(at)
  <2> HIDE DEF upto
  <2>1. QED
    BY <1>1, <1>2, FS_Subset, FS_CardinalityType
<1>4. Cardinality(upto(i)) # 0
  BY <1>2, <1>3, FS_EmptySet
<1>5. ASSUME NEW j \in at, NEW k \in at, j < k PROVE Cardinality(upto(j)) < Cardinality(upto(k))
  <2>1. upto(j) \in SUBSET upto(k) /\ k \notin upto(j)
    <3>1. \A x \in at : x <= j => x <= k
      BY <1>1, <1>5
    <3>2. ~(k <= j)
      BY <1>1, <1>5
    <3>3. QED
      BY <3>1, <3>2
  <2> HIDE DEF upto
  <2>2. QED
    BY <1>2, <1>3, <2>1, FS_Subset
<1>6. Cardinality(at) \in Nat
  BY <1>1, FS_CardinalityType
<1>7. \A j \in at : j < i \/ i < j \/ i = j
  OBVIOUS
<1> HIDE DEF upto
<1>8. \A j \in at : Cardinality(upto(j)) = Cardinality(upto(i)) => j = i
  <2>1. ASSUME NEW j \in at, j # i PROVE Cardinality(upto(j)) # Cardinality(upto(i))
    BY <1>3, <1>5, <1>7, <2>1
  <2>2. QED
    BY <2>1
<1>9. Cardinality(upto(i)) \in 1..Cardinality(at)
  BY <1>3, <1>4, <1>6
<1>10. \A j \in at : j < i => Cardinality(upto(j)) < Cardinality(upto(i))
  BY <1>5
<1>11. QED
  BY <1>8, <1>9, <1>10 DEF Rank, upto

\* What Vec::retain leaves.
LEMMA RetainIs ==
  ASSUME NEW S, NEW s \in Seq(S), NEW keep
  PROVE  /\ Retain(s, keep) \in Seq(S)
         /\ ToSet(Retain(s, keep)) = ToSet(s) \cap keep
         /\ IsInjective(s) => IsInjective(Retain(s, keep))
         /\ \A m, n \in 1..Len(Retain(s, keep)) : m < n =>
              \E i, j \in 1..Len(s) : i < j /\ Retain(s, keep)[m] = s[i] /\ Retain(s, keep)[n] = s[j]
<1> DEFINE at == {i \in DOMAIN s : s[i] \in keep}
           r == Retain(s, keep)
           N == Cardinality(at)
           pos(n) == CHOOSE i \in at : Rank(at, i) = n
<1>1. Len(s) \in Nat /\ DOMAIN s = 1..Len(s) /\ at \subseteq 1..Len(s)
  OBVIOUS
<1>2. N \in Nat
  BY <1>1, Positions
<1>3. r = [n \in 1..N |-> s[pos(n)]]
  BY DEF Retain, Rank
<1>4. ASSUME NEW n \in 1..N PROVE pos(n) \in at /\ Rank(at, pos(n)) = n
  <2>1. \E i \in at : Rank(at, i) = n
    BY <1>1, <1>4, RankIsHit
  <2>2. QED
    BY <2>1
<1>5. ASSUME NEW i \in at PROVE Rank(at, i) \in 1..N /\ pos(Rank(at, i)) = i
  <2>1. Rank(at, i) \in 1..N /\ \A j \in at : Rank(at, j) = Rank(at, i) => j = i
    BY <1>1, RankGrows
  <2>2. QED
    BY <1>4, <2>1
<1>6. \A i \in at : s[i] \in S /\ s[i] \in keep /\ s[i] \in ToSet(s)
  BY <1>1 DEF ToSet
<1>7. \A x \in ToSet(s) \cap keep : \E i \in at : x = s[i]
  BY <1>1 DEF ToSet
<1> HIDE DEF at, pos, N
<1>8. DOMAIN r = 1..N /\ \A n \in 1..N : r[n] = s[pos(n)]
  BY <1>3
<1>9. r \in Seq(S)
  <2>1. r \in [1..N -> S]
    BY <1>3, <1>4, <1>6
  <2>2. QED
    BY <1>2, <2>1
<1>10. ToSet(r) = ToSet(s) \cap keep
  <2>1. ASSUME NEW x \in ToSet(r) PROVE x \in ToSet(s) \cap keep
    <3>1. PICK n \in 1..N : x = s[pos(n)]
      BY <1>8, <2>1 DEF ToSet
    <3>2. QED
      BY <1>4, <1>6, <3>1
  <2>2. ASSUME NEW x \in ToSet(s) \cap keep PROVE x \in ToSet(r)
    <3>1. PICK i \in at : x = s[i]
      BY <1>7
    <3>2. x = r[Rank(at, i)] /\ Rank(at, i) \in DOMAIN r
      BY <1>5, <1>8, <3>1
    <3>3. QED
      BY <3>2 DEF ToSet
  <2>3. QED
    BY <2>1, <2>2
<1>11. ASSUME IsInjective(s) PROVE IsInjective(r)
  <2>1. ASSUME NEW m \in 1..N, NEW n \in 1..N, r[m] = r[n] PROVE m = n
    <3>1. s[pos(m)] = s[pos(n)] /\ pos(m) \in DOMAIN s /\ pos(n) \in DOMAIN s
      BY <1>1, <1>4, <1>8, <2>1 DEF at
    <3>2. pos(m) = pos(n)
      BY <1>11, <3>1 DEF IsInjective
    <3>3. QED
      BY <1>4, <3>2
  <2>2. QED
    BY <1>8, <2>1 DEF IsInjective
<1>12. ASSUME NEW m \in 1..Len(r), NEW n \in 1..Len(r), m < n
       PROVE  \E i, j \in 1..Len(s) : i < j /\ r[m] = s[i] /\ r[n] = s[j]
  <2>1. Len(r) = N
    BY <1>2, <1>8, <1>9
  <2>2. /\ pos(m) \in at /\ pos(n) \in at /\ Rank(at, pos(m)) = m /\ Rank(at, pos(n)) = n
        /\ r[m] = s[pos(m)] /\ r[n] = s[pos(n)]
    BY <1>4, <1>8, <2>1
  <2>3. at \subseteq 1..Len(s)
    BY <1>1 DEF at
  <2>4. pos(m) \in Nat /\ pos(n) \in Nat
    BY <2>2, <2>3, Positions, <1>1
  <2>5. pos(m) # pos(n)
    BY <1>12, <2>2
  <2>6. ~(pos(n) < pos(m))
    <3>1. ASSUME pos(n) < pos(m) PROVE Rank(at, pos(n)) < Rank(at, pos(m))
      BY <1>1, <2>2, <2>3, <3>1, RankGrows
    <3>2. QED
      BY <1>12, <2>2, <3>1
  <2>7. pos(m) < pos(n)
    BY <2>4, <2>5, <2>6
  <2>8. QED
    BY <2>2, <2>3, <2>7
<1>13. QED
  BY <1>9, <1>10, <1>11, <1>12

-----------------------------------------------------------------------------
(* Queues *)

LEMMA AppendIs ==
  ASSUME NEW S, NEW s \in Seq(S), NEW x \in S
  PROVE  /\ Append(s, x) \in Seq(S) /\ Len(Append(s, x)) = Len(s) + 1
         /\ ToSet(Append(s, x)) = ToSet(s) \cup {x}
<1> DEFINE r == Append(s, x)
<1>1. /\ r \in Seq(S) /\ Len(s) \in Nat /\ DOMAIN s = 1..Len(s) /\ Len(r) = Len(s) + 1
      /\ DOMAIN r = 1..Len(s) + 1
      /\ \A i \in 1..Len(s) : r[i] = s[i]
      /\ r[Len(s) + 1] = x
  OBVIOUS
<1> HIDE DEF r
<1>2. ASSUME NEW y \in ToSet(r) PROVE y \in ToSet(s) \cup {x}
  BY <1>1 DEF ToSet
<1>3. ASSUME NEW y \in ToSet(s) PROVE y \in ToSet(r)
  <2>1. PICK i \in 1..Len(s) : s[i] = y
    BY <1>1 DEF ToSet
  <2>2. i \in 1..Len(s) + 1 /\ r[i] = y
    BY <1>1, <2>1
  <2>3. QED
    BY <1>1, <2>2 DEF ToSet
<1>4. x \in ToSet(r)
  BY <1>1 DEF ToSet
<1>5. QED
  BY <1>1, <1>2, <1>3, <1>4 DEF r

\* What is left of a queue.
LEMMA TailIs ==
  ASSUME NEW S, NEW s \in Seq(S), s # <<>>
  PROVE  /\ Tail(s) \in Seq(S) /\ Head(s) = s[1] /\ Head(s) \in S
         /\ Len(s) \in Nat \ {0} /\ Len(Tail(s)) = Len(s) - 1
         /\ \A i \in 1..Len(s) - 1 : Tail(s)[i] = s[i + 1]
OBVIOUS

\* What a queue holds is its head and what is left.
LEMMA TailSet ==
  ASSUME NEW S, NEW s \in Seq(S), s # <<>>
  PROVE  ToSet(s) = {Head(s)} \cup ToSet(Tail(s))
<1> DEFINE t == Tail(s)
<1>1. /\ t \in Seq(S) /\ Len(s) \in Nat \ {0} /\ DOMAIN t = 1..Len(s) - 1 /\ DOMAIN s = 1..Len(s)
      /\ Head(s) = s[1] /\ \A i \in 1..Len(s) - 1 : t[i] = s[i + 1]
  BY TailIs
<1> HIDE DEF t
<1>2. ASSUME NEW x \in ToSet(s) PROVE x = s[1] \/ x \in ToSet(t)
  <2>1. PICK i \in 1..Len(s) : x = s[i]
    BY <1>1 DEF ToSet
  <2>2. CASE i = 1
    BY <2>1, <2>2
  <2>3. CASE i # 1
    <3>1. i - 1 \in 1..Len(s) - 1 /\ t[i - 1] = x
      BY <1>1, <2>1, <2>3
    <3>2. QED
      BY <1>1, <3>1 DEF ToSet
  <2>4. QED
    BY <2>2, <2>3
<1>3. ASSUME NEW x \in ToSet(t) PROVE x \in ToSet(s)
  <2>1. PICK i \in 1..Len(s) - 1 : x = s[i + 1]
    BY <1>1, <1>3 DEF ToSet
  <2>2. i + 1 \in 1..Len(s)
    BY <1>1, <2>1
  <2>3. QED
    BY <1>1, <2>1, <2>2 DEF ToSet
<1>4. s[1] \in ToSet(s)
  BY <1>1 DEF ToSet
<1>5. QED
  BY <1>1, <1>2, <1>3, <1>4 DEF t

\* The socket and the channel make one queue.
LEMMA OneQueue ==
  ASSUME NEW S, NEW w \in Seq(S), NEW c \in Seq(S)
  PROVE  /\ w \o c \in Seq(S)
         /\ \A x \in S : w \o Append(c, x) = Append(w \o c, x)
         /\ c # <<>> => Append(w, Head(c)) \o Tail(c) = w \o c
         /\ w # <<>> => /\ w \o c # <<>> /\ Head(w \o c) = Head(w)
                        /\ Tail(w \o c) = Tail(w) \o c
         /\ w = <<>> /\ c = <<>> => w \o c = <<>>
<1>1. Len(w) \in Nat /\ Len(c) \in Nat /\ w \o c \in Seq(S) /\ Len(w \o c) = Len(w) + Len(c)
  OBVIOUS
<1>2. ASSUME NEW x \in S PROVE w \o Append(c, x) = Append(w \o c, x)
  OBVIOUS
<1>3. ASSUME c # <<>> PROVE Append(w, Head(c)) \o Tail(c) = w \o c
  BY <1>3
<1>4. ASSUME w # <<>> PROVE /\ w \o c # <<>> /\ Head(w \o c) = Head(w)
                            /\ Tail(w \o c) = Tail(w) \o c
  BY <1>4
<1>5. w = <<>> /\ c = <<>> => w \o c = <<>>
  OBVIOUS
<1>6. QED
  BY <1>1, <1>2, <1>3, <1>4, <1>5
=============================================================================
