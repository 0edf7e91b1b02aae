--------------------------- MODULE DataProto_proofs ---------------------------
(***************************************************************************)
(* Facts about numbers and sequences, and what the operators of DataProto  *)
(* do to the rows of a batch of any size.                                  *)
(***************************************************************************)
EXTENDS DataProto, FiniteSetTheorems, SequenceTheorems, WellFoundedInduction, TLAPS

\* A nonempty set of natural numbers has a least element.
LEMMA Least ==
    ASSUME NEW T \in SUBSET Nat, T # {}
    PROVE \E x \in T : \A y \in T : x <= y
<1> DEFINE R == OpToRel(<, Nat)
<1>1. IsWellFoundedOn(R, Nat)
  BY NatLessThanWellFounded
<1>2. \A x, y \in Nat : x < y => <<x, y>> \in R
  BY DEF OpToRel
<1> HIDE DEF R
<1>3. PICK x \in T : \A y \in T : ~(<<y, x>> \in R)
  BY <1>1, WFMin
<1>4. \A y \in T : ~(y < x)
  BY <1>2, <1>3
<1> QED BY <1>4

\* Induction over the natural numbers, with a set for the predicate.
LEMMA NatSet ==
    ASSUME NEW T \in SUBSET Nat, 0 \in T, \A n \in T : n + 1 \in T
    PROVE T = Nat
<1> SUFFICES ASSUME Nat \ T # {} PROVE FALSE
  OBVIOUS
<1>1. PICK x \in Nat \ T : \A y \in Nat \ T : x <= y
  BY Least
<1>2. x # 0 /\ x - 1 \in Nat /\ x - 1 \notin T
  BY <1>1
<1>3. x - 1 \in Nat \ T
  BY <1>2
<1> QED BY <1>1, <1>3

-----------------------------------------------------------------------------
(* Division.                                                               *)

LEMMA Multiple ==
    ASSUME NEW b \in Nat, NEW m \in Nat, NEW n \in Nat, m <= n
    PROVE m * b <= n * b /\ m * b \in Nat /\ n * b \in Nat
<1>1. PICK k \in Nat : n = m + k
  <2>1. n - m \in Nat
    OBVIOUS
  <2> QED BY <2>1
<1>2. n * b = m * b + k * b
  BY <1>1
<1>3. k * b >= 0
  BY <1>1
<1> QED BY <1>2, <1>3

LEMMA Divide ==
    ASSUME NEW b \in Nat \ {0}, NEW s \in Nat
    PROVE /\ s \div b \in Nat /\ s % b \in 0 .. b - 1
          /\ s = (s \div b) * b + (s % b)
OBVIOUS

LEMMA Quotient ==
    ASSUME NEW b \in Nat \ {0}, NEW q \in Nat, NEW r \in 0 .. b - 1
    PROVE (q * b + r) \div b = q /\ (q * b + r) % b = r
<1> DEFINE s == q * b + r
           d == s \div b
           m == s % b
<1>1. s \in Nat
  OBVIOUS
<1>2. d \in Nat /\ m \in 0 .. b - 1 /\ s = d * b + m
  BY <1>1, Divide
<1>3. q * b + r = d * b + m
  BY <1>2
<1> HIDE DEF s, d, m
<1>4. ASSUME d < q
      PROVE FALSE
  <2>1. (d + 1) * b <= q * b
    BY <1>2, <1>4, Multiple
  <2>2. (d + 1) * b = d * b + b
    BY <1>2
  <2> QED BY <1>2, <1>3, <2>1, <2>2
<1>5. ASSUME d > q
      PROVE FALSE
  <2>1. (q + 1) * b <= d * b
    BY <1>2, <1>5, Multiple
  <2>2. (q + 1) * b = q * b + b
    BY <1>2
  <2> QED BY <1>2, <1>3, <2>1, <2>2
<1>6. d = q
  BY <1>2, <1>4, <1>5
<1>7. d = q /\ m = r
  BY <1>2, <1>3, <1>6
<1> QED BY <1>7 DEF s, d, m

\* A position in n blocks of b, as a block and a place in it.
LEMMA Block ==
    ASSUME NEW b \in Nat \ {0}, NEW n \in Nat, NEW i \in 1 .. n * b
    PROVE /\ ((i - 1) \div b) + 1 \in 1 .. n
          /\ i - ((i - 1) \div b) * b \in 1 .. b
<1> DEFINE q == (i - 1) \div b
           r == (i - 1) % b
<1>1. q \in Nat /\ r \in 0 .. b - 1 /\ i - 1 = q * b + r /\ n * b \in Nat
  BY Divide
<1> HIDE DEF q, r
<1>2. CASE q >= n
  <2>1. n * b <= q * b
    BY <1>1, <1>2, Multiple
  <2> QED BY <1>1, <2>1
<1>3. q < n /\ q * b \in Nat
  BY <1>1, <1>2
<1>4. q + 1 \in 1 .. n /\ i - q * b \in 1 .. b
  BY <1>1, <1>3
<1> QED BY <1>4 DEF q

\* The place j of the block k, as a position.
LEMMA PlaceInBlock ==
    ASSUME NEW b \in Nat \ {0}, NEW n \in Nat, NEW k \in 1 .. n, NEW j \in 1 .. b
    PROVE /\ (k - 1) * b + j \in 1 .. n * b
          /\ (((k - 1) * b + j - 1) \div b) + 1 = k
<1>1. k - 1 \in Nat /\ j - 1 \in 0 .. b - 1 /\ n * b \in Nat /\ (k - 1) * b \in Nat
  OBVIOUS
<1>2. ((k - 1) * b + (j - 1)) \div b = k - 1
  BY <1>1, Quotient
<1>3. (k - 1) * b + b = k * b /\ k * b <= n * b
  BY Multiple
<1>4. (k - 1) * b + j - 1 = (k - 1) * b + (j - 1)
  BY <1>1
<1>5. ((k - 1) * b + j - 1) \div b = k - 1
  BY <1>2, <1>4
<1> QED BY <1>1, <1>3, <1>5

-----------------------------------------------------------------------------
(* Selections.                                                             *)

\* The members of P up to k.
UpTo(P, k) == {j \in P : j <= k}

LEMMA UpToFinite ==
    ASSUME NEW n \in Nat, NEW P \in SUBSET (1 .. n), NEW k \in Nat
    PROVE /\ IsFiniteSet(P) /\ IsFiniteSet(UpTo(P, k))
          /\ Cardinality(P) \in Nat /\ Cardinality(UpTo(P, k)) \in Nat
          /\ Cardinality(UpTo(P, k)) <= Cardinality(P)
<1>1. IsFiniteSet(1 .. n)
  BY FS_Interval
<1>2. IsFiniteSet(P)
  BY <1>1, FS_Subset
<1>3. UpTo(P, k) \in SUBSET P
  BY DEF UpTo
<1> QED BY <1>2, <1>3, FS_Subset, FS_CardinalityType

\* Every count up to the size of P is that of some member.
LEMMA RankExists ==
    ASSUME NEW n \in Nat, NEW P \in SUBSET (1 .. n), NEW i \in 1 .. Cardinality(P)
    PROVE \E k \in P : Cardinality(UpTo(P, k)) = i
<1> DEFINE T == {k \in 0 .. n : Cardinality(UpTo(P, k)) >= i}
<1>0. \A j \in P : j \in Nat /\ 1 <= j /\ j <= n
  OBVIOUS
<1>1. UpTo(P, n) = P /\ UpTo(P, 0) = {}
  <2>1. \A j \in P : ~(j <= 0)
    BY <1>0
  <2> QED BY <1>0, <2>1 DEF UpTo
<1>2. Cardinality(P) \in Nat /\ i \in Nat /\ i > 0
  <2>1. Cardinality(P) \in Nat
    BY UpToFinite
  <2> QED BY <2>1
<1>3. n \in T /\ 0 \notin T /\ T \in SUBSET Nat
  BY <1>1, <1>2, FS_EmptySet
<1>4. PICK k \in T : \A j \in T : k <= j
  BY <1>3, Least
<1>5. k \in Nat /\ k # 0 /\ k - 1 \in 0 .. n /\ k - 1 \notin T /\ k - 1 \in Nat
  BY <1>3, <1>4
<1>6. /\ Cardinality(UpTo(P, k)) >= i /\ ~(Cardinality(UpTo(P, k - 1)) >= i)
      /\ Cardinality(UpTo(P, k)) \in Nat /\ Cardinality(UpTo(P, k - 1)) \in Nat
      /\ IsFiniteSet(UpTo(P, k - 1))
  BY <1>4, <1>5, UpToFinite
<1>7. UpTo(P, k) = IF k \in P THEN UpTo(P, k - 1) \cup {k} ELSE UpTo(P, k - 1)
  <2>1. \A j \in P : j <= k <=> j <= k - 1 \/ j = k
    BY <1>0, <1>5
  <2>2. \A j \in UpTo(P, k) : j \in UpTo(P, k - 1) \/ (j = k /\ k \in P)
    BY <2>1 DEF UpTo
  <2>3. \A j \in UpTo(P, k - 1) : j \in UpTo(P, k)
    BY <2>1 DEF UpTo
  <2>4. k \in P => k \in UpTo(P, k)
    BY <2>1 DEF UpTo
  <2> QED BY <2>2, <2>3, <2>4
<1>8. k \in P
  BY <1>6, <1>7
<1>9. Cardinality(UpTo(P, k)) <= Cardinality(UpTo(P, k - 1)) + 1
  BY <1>6, <1>7, <1>8, FS_AddElement
<1> QED BY <1>2, <1>6, <1>8, <1>9

LEMMA RankUnique ==
    ASSUME NEW n \in Nat, NEW P \in SUBSET (1 .. n), NEW k \in P, NEW l \in P,
           Cardinality(UpTo(P, k)) = Cardinality(UpTo(P, l))
    PROVE k = l
<1>1. ASSUME NEW a \in P, NEW b \in P, a < b,
             Cardinality(UpTo(P, a)) = Cardinality(UpTo(P, b))
      PROVE FALSE
  <2>0. \A j \in P : j \in Nat
    OBVIOUS
  <2>1. UpTo(P, a) \in SUBSET UpTo(P, b)
    <3>1. \A j \in P : j <= a => j <= b
      BY <1>1, <2>0
    <3> QED BY <3>1 DEF UpTo
  <2>2. b \in Nat /\ b <= b /\ ~(b <= a)
    BY <1>1, <2>0
  <2>3. b \in UpTo(P, b) /\ b \notin UpTo(P, a)
    BY <1>1, <2>2 DEF UpTo
  <2>4. IsFiniteSet(UpTo(P, b))
    BY <2>2, UpToFinite
  <2> QED BY <1>1, <2>1, <2>3, <2>4, FS_Subset
<1> QED BY <1>1

\* A selection has an element for each position in P, and no other.
LEMMA KeptFacts ==
    ASSUME NEW S, NEW s \in Seq(S), NEW P \in SUBSET DOMAIN s
    PROVE /\ Kept(s, P) \in Seq(S)
          /\ Len(Kept(s, P)) = Cardinality(P) /\ Cardinality(P) \in Nat
          /\ DOMAIN Kept(s, P) = 1 .. Cardinality(P)
          /\ \A i \in DOMAIN Kept(s, P) : \E k \in P : Kept(s, P)[i] = s[k]
          /\ \A k \in P : \E i \in DOMAIN Kept(s, P) : Kept(s, P)[i] = s[k]
          /\ (\A k, l \in P : s[k] = s[l] => k = l)
               => \A i, j \in DOMAIN Kept(s, P) : Kept(s, P)[i] = Kept(s, P)[j] => i = j
<1> DEFINE c == Cardinality(P)
           at(i) == CHOOSE k \in P : Cardinality(UpTo(P, k)) = i
<1>1. Len(s) \in Nat /\ DOMAIN s = 1 .. Len(s) /\ P \in SUBSET (1 .. Len(s)) /\ 0 \in Nat
  OBVIOUS
<1>2. c \in Nat
  BY <1>1, UpToFinite
<1>3. Kept(s, P) = [i \in 1 .. c |-> s[at(i)]]
  BY DEF Kept, UpTo
<1>4. \A i \in 1 .. c : at(i) \in P /\ Cardinality(UpTo(P, at(i))) = i
  <2> TAKE i \in 1 .. c
  <2>1. \E k \in P : Cardinality(UpTo(P, k)) = i
    BY <1>1, RankExists
  <2> QED BY <2>1
<1>5. \A k \in P : \E i \in 1 .. c : at(i) = k
  <2> TAKE k \in P
  <2> DEFINE i == Cardinality(UpTo(P, k))
  <2>1. k \in Nat /\ k \in UpTo(P, k)
    BY <1>1 DEF UpTo
  <2>2. i \in Nat /\ i <= c /\ IsFiniteSet(UpTo(P, k))
    BY <1>1, <2>1, UpToFinite
  <2>3. i # 0
    BY <2>1, <2>2, FS_EmptySet
  <2>4. i \in 1 .. c
    BY <1>2, <2>2, <2>3
  <2>5. at(i) = k
    BY <1>1, <1>4, <2>4, RankUnique
  <2> QED BY <2>4, <2>5
<1> HIDE DEF c, at
<1>6. \A i \in 1 .. c : Kept(s, P)[i] = s[at(i)] /\ s[at(i)] \in S
  BY <1>1, <1>3, <1>4
<1>7. Kept(s, P) \in [1 .. c -> S]
  BY <1>3, <1>6
<1>8. Kept(s, P) \in Seq(S) /\ Len(Kept(s, P)) = c /\ DOMAIN Kept(s, P) = 1 .. c
  BY <1>2, <1>7
<1>9. \A i \in 1 .. c : \E k \in P : Kept(s, P)[i] = s[k]
  BY <1>4, <1>6
<1>10. \A k \in P : \E i \in 1 .. c : Kept(s, P)[i] = s[k]
  BY <1>5, <1>6
<1>11. ASSUME \A k, l \in P : s[k] = s[l] => k = l
       PROVE \A i, j \in 1 .. c : Kept(s, P)[i] = Kept(s, P)[j] => i = j
  <2> TAKE i, j \in 1 .. c
  <2> HAVE Kept(s, P)[i] = Kept(s, P)[j]
  <2>1. at(i) = at(j)
    BY <1>4, <1>6, <1>11
  <2> QED BY <1>4, <2>1
<1>12. c = Cardinality(P)
  BY DEF c
<1> QED BY <1>2, <1>8, <1>9, <1>10, <1>11, <1>12

-----------------------------------------------------------------------------
(* Concatenations.                                                         *)

\* g concatenates the sequences one after the other.
Flattens(seqs, g) ==
    g = [i \in 1 .. Len(seqs) |-> IF i = 1 THEN seqs[i] ELSE g[i-1] \o seqs[i]]

LEMMA FlattensUnique ==
    ASSUME NEW seqs, Len(seqs) \in Nat \ {0}, NEW f, NEW g, Flattens(seqs, f), Flattens(seqs, g)
    PROVE f = g
<1> DEFINE n == Len(seqs)
           T == {i \in 1 .. n : f[i] # g[i]}
<1>1. /\ DOMAIN f = 1 .. n /\ DOMAIN g = 1 .. n
      /\ \A i \in 1 .. n : /\ f[i] = IF i = 1 THEN seqs[i] ELSE f[i-1] \o seqs[i]
                           /\ g[i] = IF i = 1 THEN seqs[i] ELSE g[i-1] \o seqs[i]
      /\ f = [i \in 1 .. n |-> f[i]] /\ g = [i \in 1 .. n |-> g[i]]
  BY DEF Flattens
<1>2. n \in Nat
  OBVIOUS
<1> HIDE DEF n
<1>3. T = {}
  <2> SUFFICES ASSUME T # {} PROVE FALSE
    OBVIOUS
  <2>1. T \in SUBSET Nat
    BY <1>2
  <2>2. PICK i \in T : \A j \in T : i <= j
    BY <2>1, Least
  <2>3. i \in 1 .. n /\ (i # 1 => i - 1 \in 1 .. n /\ i - 1 \notin T)
    BY <1>2, <2>1, <2>2
  <2>4. i # 1 => f[i-1] = g[i-1]
    BY <2>3
  <2>5. /\ f[i] = IF i = 1 THEN seqs[i] ELSE f[i-1] \o seqs[i]
        /\ g[i] = IF i = 1 THEN seqs[i] ELSE g[i-1] \o seqs[i]
    BY <1>1, <2>3
  <2>6. f[i] = g[i]
    BY <2>4, <2>5
  <2> QED BY <2>2, <2>6
<1>4. \A i \in 1 .. n : f[i] = g[i]
  BY <1>3
<1> QED BY <1>1, <1>4

LEMMA FlattenIs ==
    ASSUME NEW seqs, Len(seqs) \in Nat \ {0}, NEW g, Flattens(seqs, g)
    PROVE Concat(seqs) = g[Len(seqs)]
<1> DEFINE f == CHOOSE f : Flattens(seqs, f)
<1>1. Flattens(seqs, f)
  OBVIOUS
<1>2. Concat(seqs) = f[Len(seqs)]
  BY DEF Concat, FlattenSeq, Flattens
<1> HIDE DEF f
<1>3. f = g
  BY <1>1, FlattensUnique
<1> QED BY <1>2, <1>3

\* A batch that is chunked and put together is the batch.
LEMMA ChunksTogether ==
    ASSUME NEW S, NEW s \in Seq(S), NEW n \in Nat \ {0}, Len(s) % n = 0
    PROVE Concat(Chunk(s, n)) = s
<1> DEFINE size == Len(s) \div n
           c == Chunk(s, n)
           g == [i \in 1 .. n |-> SubSeq(s, 1, i * size)]
<1>1. Len(s) \in Nat /\ size \in Nat /\ Len(s) = size * n
  BY Divide
<1>2. c = [i \in 1 .. n |-> SubSeq(s, (i - 1) * size + 1, i * size)]
  BY DEF Chunk
<1> HIDE DEF size, c
<1>3. Len(c) = n
  BY <1>2
<1>4. ASSUME NEW i \in 1 .. n, i # 1
      PROVE g[i] = g[i-1] \o c[i]
  <2> DEFINE a == (i - 1) * size
             b == i * size
  <2>1. i - 1 \in Nat /\ i \in Nat /\ i - 1 \in 1 .. n /\ i <= n /\ i - 1 <= i
    BY <1>4
  <2>2. a \in Nat /\ b \in Nat /\ a <= b /\ b <= n * size
    BY <1>1, <2>1, Multiple
  <2>3. b <= Len(s)
    BY <1>1, <2>2
  <2>4. g[i] = SubSeq(s, 1, b) /\ g[i-1] = SubSeq(s, 1, a) /\ c[i] = SubSeq(s, a + 1, b)
    BY <1>2, <2>1
  <2> HIDE DEF a, b, g
  <2>5. SubSeq(s, 1, a) \o SubSeq(s, a + 1, b) = SubSeq(s, 1, b)
    BY <1>1, <2>2, <2>3, ConcatAdjacentSubSeq
  <2> QED BY <2>4, <2>5
<1>5. g[1] = c[1]
  <2>1. 1 \in 1 .. n /\ (1 - 1) * size + 1 = 1
    BY <1>1
  <2> QED BY <1>2, <2>1
<1>6. g[n] = s
  <2>1. n * size = Len(s) /\ n \in 1 .. n
    BY <1>1
  <2>2. g[n] = SubSeq(s, 1, Len(s))
    BY <2>1
  <2> QED BY <2>2, SubSeqFull
<1>7. DOMAIN g = 1 .. n /\ g = [i \in 1 .. n |-> g[i]]
  OBVIOUS
<1> HIDE DEF g
<1>8. Flattens(c, g)
  BY <1>3, <1>4, <1>5, <1>7 DEF Flattens
<1>9. Concat(c) = g[n]
  BY <1>3, <1>8, FlattenIs
<1> QED BY <1>6, <1>9 DEF c

LEMMA IntervalSize ==
    ASSUME NEW a \in Nat, NEW c \in Nat
    PROVE IsFiniteSet(a + 1 .. a + c) /\ Cardinality(a + 1 .. a + c) = c
<1> DEFINE l == a + 1
           h == a + c
<1>1. l \in Int /\ h \in Int /\ (l > h => c = 0) /\ (~(l > h) => h - l + 1 = c)
  OBVIOUS
<1> HIDE DEF l, h
<1>2. IsFiniteSet(l .. h) /\ Cardinality(l .. h) = IF l > h THEN 0 ELSE h - l + 1
  BY <1>1, FS_Interval
<1>3. IsFiniteSet(l .. h) /\ Cardinality(l .. h) = c
  BY <1>1, <1>2
<1> QED BY <1>3 DEF l, h

\* How often x is in s.
CountOf(s, x) == Cardinality({k \in DOMAIN s : s[k] = x})

LEMMA CountIsNat ==
    ASSUME NEW S, NEW s \in Seq(S), NEW x
    PROVE IsFiniteSet({k \in DOMAIN s : s[k] = x}) /\ CountOf(s, x) \in Nat
<1>1. IsFiniteSet(1 .. Len(s)) /\ DOMAIN s = 1 .. Len(s)
  BY FS_Interval
<1>2. {k \in DOMAIN s : s[k] = x} \in SUBSET (1 .. Len(s))
  BY <1>1
<1> QED BY <1>1, <1>2, FS_Subset, FS_CardinalityType DEF CountOf

\* c copies of x.
Run(x, c) == [j \in 1 .. c |-> x]

LEMMA RunFacts ==
    ASSUME NEW S, NEW x \in S, NEW c \in Nat, NEW y \in S
    PROVE /\ Run(x, c) \in Seq(S)
          /\ y = x => CountOf(Run(x, c), y) = c
          /\ y # x => CountOf(Run(x, c), y) = 0
<1> DEFINE r == Run(x, c)
<1>1. r \in Seq(S) /\ (\A j \in 1 .. c : r[j] = x) /\ DOMAIN r = 1 .. c
  BY DEF Run
<1> HIDE DEF r
<1>2. Cardinality(1 .. c) = c
  BY FS_Interval
<1>3. {k \in DOMAIN r : r[k] = y} = IF y = x THEN 1 .. c ELSE {}
  BY <1>1
<1>4. y = x => CountOf(r, y) = c
  BY <1>2, <1>3 DEF CountOf
<1>5. y # x => CountOf(r, y) = 0
  BY <1>3, FS_EmptySet DEF CountOf
<1> QED BY <1>1, <1>4, <1>5 DEF r

LEMMA CountRun ==
    ASSUME NEW S, NEW s \in Seq(S), NEW x \in S, NEW c \in Nat, NEW y \in S
    PROVE /\ s \o Run(x, c) \in Seq(S)
          /\ CountOf(s \o Run(x, c), y) = CountOf(s, y) + (IF y = x THEN c ELSE 0)
<1> DEFINE r == Run(x, c)
           t == s \o r
           n == Len(s)
           A == {k \in DOMAIN s : s[k] = y}
           B == n + 1 .. n + c
<1>1. r \in Seq(S) /\ Len(r) = c /\ (\A j \in 1 .. c : r[j] = x) /\ DOMAIN r = 1 .. c
  BY DEF Run
<1>2. n \in Nat /\ DOMAIN s = 1 .. n
  OBVIOUS
<1> HIDE DEF r, n
<1>3. /\ t \in Seq(S) /\ DOMAIN t = 1 .. n + c
      /\ \A k \in 1 .. n : t[k] = s[k]
      /\ \A k \in B : t[k] = x
  BY <1>1, <1>2 DEF n
<1>4. 1 .. n + c = (1 .. n) \cup B
  BY <1>2
<1>5. {k \in DOMAIN t : t[k] = y} = IF y = x THEN A \cup B ELSE A
  BY <1>2, <1>3, <1>4
<1>6. /\ IsFiniteSet(A) /\ Cardinality(A) = CountOf(s, y) /\ CountOf(s, y) \in Nat
      /\ IsFiniteSet(B) /\ Cardinality(B) = c
  <2>1. IsFiniteSet(A) /\ Cardinality(A) = CountOf(s, y) /\ CountOf(s, y) \in Nat
    BY CountIsNat DEF CountOf
  <2>2. IsFiniteSet(B) /\ Cardinality(B) = c
    BY <1>2, IntervalSize
  <2> QED BY <2>1, <2>2
<1>7. A \cap B = {}
  <2>1. \A k \in 1 .. n : k \notin B
    BY <1>2
  <2> QED BY <1>2, <2>1
<1>8. CountOf(t, y) = IF y = x THEN Cardinality(A \cup B) ELSE Cardinality(A)
  BY <1>5 DEF CountOf
<1> HIDE DEF A, B, t
<1>9. CountOf(t, y) = CountOf(s, y) + (IF y = x THEN c ELSE 0)
  <2>1. Cardinality(A \cup B) = Cardinality(A) + Cardinality(B) - Cardinality({})
    BY <1>6, <1>7, FS_Union
  <2> QED BY <1>6, <1>8, <2>1, FS_EmptySet
<1> QED BY <1>3, <1>9 DEF r, t

\* g concatenates the first m sequences one after the other.
FlattensTo(seqs, g, m) ==
    \A i \in 1 .. m : g[i] = IF i = 1 THEN seqs[i] ELSE g[i-1] \o seqs[i]

LEMMA FlattensExists ==
    ASSUME NEW S, NEW seqs, NEW n \in Nat \ {0}, Len(seqs) = n, \A i \in 1 .. n : seqs[i] \in Seq(S)
    PROVE \E g \in [1 .. n -> Seq(S)] : Flattens(seqs, g)
<1> DEFINE T == {m \in Nat : m < n => \E g \in [1 .. m + 1 -> Seq(S)] : FlattensTo(seqs, g, m + 1)}
<1>1. 0 \in T
  <2> DEFINE g == [i \in 1 .. 1 |-> seqs[1]]
  <2>1. 1 \in 1 .. n /\ 0 + 1 = 1 /\ 1 .. 1 = {1}
    OBVIOUS
  <2>2. g \in [1 .. 1 -> Seq(S)] /\ g[1] = seqs[1]
    BY <2>1
  <2>3. FlattensTo(seqs, g, 1)
    BY <2>1, <2>2 DEF FlattensTo
  <2> QED BY <2>1, <2>2, <2>3
<1>2. ASSUME NEW m \in T, m + 1 < n
      PROVE \E g \in [1 .. (m + 1) + 1 -> Seq(S)] : FlattensTo(seqs, g, (m + 1) + 1)
  <2>1. m \in Nat /\ m < n /\ (m + 1) + 1 \in 1 .. n
    BY <1>2
  <2>2. PICK f \in [1 .. m + 1 -> Seq(S)] : FlattensTo(seqs, f, m + 1)
    BY <2>1
  <2> DEFINE p == m + 1
             q == p + 1
             last == f[p] \o seqs[q]
             g == [i \in 1 .. q |-> IF i = q THEN last ELSE f[i]]
  <2>3. p \in Nat /\ q \in 1 .. n /\ q # 1 /\ p \in 1 .. p
    BY <2>1
  <2>4. f \in [1 .. p -> Seq(S)] /\ FlattensTo(seqs, f, p)
    BY <2>2
  <2> HIDE DEF p
  <2>5. last \in Seq(S)
    BY <2>3, <2>4
  <2>6. /\ \A i \in 1 .. q : i \in 1 .. p \/ i = q
        /\ \A i \in 1 .. p : i \in 1 .. q /\ i # q /\ (i # 1 => i - 1 \in 1 .. p)
        /\ q \in 1 .. q /\ q - 1 = p
    BY <2>3
  <2>7. g \in [1 .. q -> Seq(S)] /\ g[q] = last /\ \A i \in 1 .. p : g[i] = f[i]
    BY <2>4, <2>5, <2>6
  <2> HIDE DEF g, q
  <2>8. \A i \in 1 .. p : g[i] = IF i = 1 THEN seqs[i] ELSE g[i-1] \o seqs[i]
    BY <2>4, <2>6, <2>7 DEF FlattensTo
  <2>9. g[q-1] = f[p] /\ g[q] = g[q-1] \o seqs[q]
    BY <2>3, <2>6, <2>7
  <2>10. FlattensTo(seqs, g, q)
    BY <2>3, <2>6, <2>8, <2>9 DEF FlattensTo
  <2> QED BY <2>7, <2>10 DEF p, q
<1>3. \A m \in T : m + 1 \in T
  <2> TAKE m \in T
  <2>1. m + 1 \in Nat
    OBVIOUS
  <2>2. m + 1 < n => \E g \in [1 .. (m + 1) + 1 -> Seq(S)] : FlattensTo(seqs, g, (m + 1) + 1)
    BY <1>2
  <2> QED BY <2>1, <2>2
<1>4. T = Nat
  <2>1. T \in SUBSET Nat
    OBVIOUS
  <2> HIDE DEF T
  <2> QED BY <1>1, <1>3, <2>1, NatSet
<1>5. n - 1 \in Nat /\ n - 1 < n /\ (n - 1) + 1 = n
  OBVIOUS
<1>6. n - 1 \in T
  BY <1>4, <1>5
<1>7. PICK g \in [1 .. n -> Seq(S)] : FlattensTo(seqs, g, n)
  BY <1>5, <1>6
<1>8. g = [i \in 1 .. n |-> IF i = 1 THEN seqs[i] ELSE g[i-1] \o seqs[i]]
  BY <1>7 DEF FlattensTo
<1> QED BY <1>8 DEF Flattens

Different(e, n) == \A i, j \in 1 .. n : e[i] = e[j] => i = j

\* seqs is the runs of the elements e, each as long as c says.
RunsOf(seqs, e, c, n) == Len(seqs) = n /\ \A i \in 1 .. n : seqs[i] = Run(e[i], c[i])

\* s has y as often as c says, not at all when it is not one of the elements.
CountedIn(s, e, c, n, y) ==
    /\ \A i \in 1 .. n : y = e[i] => CountOf(s, y) = c[i]
    /\ (\A i \in 1 .. n : e[i] # y) => CountOf(s, y) = 0

\* Runs of different elements, one after the other, have as many of each as its
\* run.
LEMMA ConcatRuns ==
    ASSUME NEW S, NEW n \in Nat \ {0}, NEW e \in [1 .. n -> S], NEW c \in [1 .. n -> Nat],
           Different(e, n), NEW seqs, RunsOf(seqs, e, c, n), NEW y \in S
    PROVE Concat(seqs) \in Seq(S) /\ CountedIn(Concat(seqs), e, c, n, y)
<1>0. \A i, j \in 1 .. n : e[i] = e[j] => i = j
  BY DEF Different
<1>1. \A i \in 1 .. n : seqs[i] = Run(e[i], c[i]) /\ e[i] \in S /\ c[i] \in Nat
  BY DEF RunsOf
<1>2. Len(seqs) = n
  BY DEF RunsOf
<1>3. \A i \in 1 .. n : seqs[i] \in Seq(S)
  <2> TAKE i \in 1 .. n
  <2> DEFINE x == e[i]
             d == c[i]
  <2>1. x \in S /\ d \in Nat /\ seqs[i] = Run(x, d)
    BY <1>1
  <2> HIDE DEF x, d
  <2>2. Run(x, d) \in Seq(S)
    BY <2>1, RunFacts
  <2> QED BY <2>1, <2>2
<1>4. PICK g \in [1 .. n -> Seq(S)] : Flattens(seqs, g)
  BY <1>2, <1>3, FlattensExists
<1>5. Concat(seqs) = g[n]
  BY <1>2, <1>4, FlattenIs
<1>6. \A i \in 1 .. n : g[i] = IF i = 1 THEN seqs[i] ELSE g[i-1] \o seqs[i]
  BY <1>2, <1>4 DEF Flattens
<1>7. ASSUME NEW i \in 1 .. n
      PROVE CountOf(g[i], y) =
              (IF i = 1 THEN 0 ELSE CountOf(g[i-1], y)) + (IF y = e[i] THEN c[i] ELSE 0)
  <2>0. /\ y = e[i] => CountOf(seqs[i], y) = c[i]
        /\ y # e[i] => CountOf(seqs[i], y) = 0
    <3> DEFINE x == e[i]
               d == c[i]
    <3>1. x \in S /\ d \in Nat /\ seqs[i] = Run(x, d)
      BY <1>1
    <3> HIDE DEF x, d
    <3>2. y = x => CountOf(Run(x, d), y) = d
      BY <3>1, RunFacts
    <3>3. y # x => CountOf(Run(x, d), y) = 0
      BY <3>1, RunFacts
    <3> QED BY <3>1, <3>2, <3>3 DEF x, d
  <2>1. CASE i = 1
    <3>1. g[i] = seqs[i] /\ c[i] \in Nat
      BY <1>1, <1>6, <2>1
    <3> QED BY <2>0, <2>1, <3>1
  <2>2. CASE i # 1
    <3>1. i - 1 \in 1 .. n
      BY <2>2
    <3>2. g[i-1] \in Seq(S) /\ g[i] = g[i-1] \o Run(e[i], c[i])
      BY <1>1, <1>6, <2>2, <3>1
    <3> DEFINE x == e[i]
               d == c[i]
               b == g[i-1]
    <3>3. x \in S /\ d \in Nat /\ b \in Seq(S) /\ g[i] = b \o Run(x, d)
      BY <1>1, <3>2
    <3> HIDE DEF x, d, b
    <3>4. CountOf(g[i], y) = CountOf(b, y) + (IF y = x THEN d ELSE 0)
      BY <3>3, CountRun
    <3> QED BY <2>2, <3>4 DEF x, d, b
  <2> QED BY <2>1, <2>2
<1> DEFINE Had(k, i) == IF k <= i /\ k \in 1 .. n /\ y = e[k] THEN c[k] ELSE 0
<1>8. ASSUME NEW k \in Nat, \A j \in 1 .. n : y = e[j] => j = k
      PROVE \A i \in 1 .. n : CountOf(g[i], y) = Had(k, i)
  <2> DEFINE T == {i \in 1 .. n : CountOf(g[i], y) # Had(k, i)}
  <2> SUFFICES ASSUME T # {} PROVE FALSE
    OBVIOUS
  <2>1. T \in SUBSET Nat
    OBVIOUS
  <2>2. PICK i \in T : \A j \in T : i <= j
    BY <2>1, Least
  <2>3. i \in 1 .. n /\ i \in Nat
    OBVIOUS
  <2>4. i # 1 => i - 1 \in 1 .. n /\ CountOf(g[i-1], y) = Had(k, i - 1)
    <3> SUFFICES ASSUME i # 1 PROVE i - 1 \in 1 .. n /\ i - 1 \notin T
      OBVIOUS
    <3>1. i - 1 \in 1 .. n /\ i - 1 \in Nat /\ ~(i <= i - 1)
      BY <2>3
    <3> HIDE DEF T
    <3> QED BY <2>2, <3>1
  <2>5. CountOf(g[i], y) = (IF i = 1 THEN 0 ELSE Had(k, i - 1)) + (IF y = e[i] THEN c[i] ELSE 0)
    BY <1>7, <2>3, <2>4
  <2>6. (IF i = 1 THEN 0 ELSE Had(k, i - 1)) + (IF y = e[i] THEN c[i] ELSE 0) = Had(k, i)
    <3>1. c[i] \in Nat /\ (k \in 1 .. n => c[k] \in Nat)
      BY <1>1, <2>3
    <3>2. CASE y = e[i]
      <4>1. k = i
        BY <1>8, <2>3, <3>2
      <4> QED BY <2>3, <3>1, <3>2, <4>1
    <3>3. CASE y # e[i]
      <4>1. k \in 1 .. n /\ y = e[k] => k # i
        BY <2>3, <3>3
      <4> QED BY <2>3, <3>1, <3>3, <4>1
    <3> QED BY <3>2, <3>3
  <2> QED BY <2>2, <2>5, <2>6
<1>9. n \in 1 .. n
  OBVIOUS
<1>10. ASSUME NEW i \in 1 .. n, y = e[i] PROVE CountOf(g[n], y) = c[i]
  <2>1. i \in Nat /\ \A j \in 1 .. n : y = e[j] => j = i
    BY <1>0, <1>10
  <2>2. CountOf(g[n], y) = Had(i, n)
    BY <1>8, <1>9, <2>1
  <2> QED BY <1>10, <2>2
<1>11. ASSUME \A i \in 1 .. n : e[i] # y
       PROVE CountOf(g[n], y) = 0
  <2>1. CountOf(g[n], y) = Had(0, n)
    BY <1>8, <1>9, <1>11
  <2> QED BY <2>1
<1>12. g[n] \in Seq(S)
  BY <1>4, <1>9
<1> QED BY <1>5, <1>10, <1>11, <1>12 DEF CountedIn

-----------------------------------------------------------------------------
(* Repeated and padded rows.                                               *)

LEMMA RepeatFacts ==
    ASSUME NEW S, NEW s \in Seq(S), NEW c \in Nat \ {0}
    PROVE /\ Repeat(s, c) \in Seq(S) /\ Len(Repeat(s, c)) = Len(s) * c
          /\ Len(s) * c \in Nat
          /\ \A b \in 1 .. Len(s) : \A j \in 1 .. c :
               /\ (b - 1) * c + j \in 1 .. Len(s) * c
               /\ Repeat(s, c)[(b - 1) * c + j] = s[b]
          /\ \A i \in 1 .. Len(s) * c : \E b \in 1 .. Len(s) : \E j \in 1 .. c :
               i = (b - 1) * c + j /\ Repeat(s, c)[i] = s[b]
<1> DEFINE n == Len(s)
           m == n * c
           r == Repeat(s, c)
<1>1. n \in Nat /\ m \in Nat /\ c * n = m
  OBVIOUS
<1>2. r = [i \in 1 .. m |-> s[((i - 1) \div c) + 1]]
  BY <1>1 DEF Repeat
<1> HIDE DEF r
<1>3. \A i \in 1 .. m : ((i - 1) \div c) + 1 \in 1 .. n /\ i - ((i - 1) \div c) * c \in 1 .. c
  BY <1>1, Block
<1>4. r \in [1 .. m -> S]
  BY <1>2, <1>3
<1>5. r \in Seq(S) /\ Len(r) = m
  BY <1>1, <1>4
<1>6. ASSUME NEW b \in 1 .. n, NEW j \in 1 .. c
      PROVE (b - 1) * c + j \in 1 .. m /\ r[(b - 1) * c + j] = s[b]
  <2> DEFINE i == (b - 1) * c + j
  <2>1. i \in 1 .. m /\ ((i - 1) \div c) + 1 = b
    BY <1>1, PlaceInBlock
  <2> HIDE DEF i
  <2>2. r[i] = s[b]
    BY <1>2, <2>1
  <2> QED BY <2>1, <2>2 DEF i
<1>7. ASSUME NEW i \in 1 .. m
      PROVE \E b \in 1 .. n : \E j \in 1 .. c : i = (b - 1) * c + j /\ r[i] = s[b]
  <2> DEFINE d == (i - 1) \div c
             b == d + 1
             j == i - d * c
  <2>1. b \in 1 .. n /\ j \in 1 .. c
    BY <1>3
  <2>2. d \in Nat
    <3>1. i - 1 \in Nat
      BY <1>1
    <3> QED BY <3>1, Divide
  <2>3. r[i] = s[b]
    BY <1>2
  <2>4. i = (b - 1) * c + j
    <3> HIDE DEF d
    <3> DEFINE p == d * c
    <3>1. p \in Nat /\ (b - 1) * c = p /\ j = i - p
      BY <2>2
    <3> HIDE DEF p, j, b
    <3> QED BY <3>1
  <2> QED BY <2>1, <2>3, <2>4
<1> QED BY <1>1, <1>5, <1>6, <1>7 DEF r

LEMMA PadSizeFacts ==
    ASSUME NEW n \in Nat, NEW d \in Nat \ {0}
    PROVE PadSize(n, d) \in 0 .. d - 1 /\ (n + PadSize(n, d)) % d = 0
<1> DEFINE q == n \div d
           r == n % d
           p == PadSize(n, d)
<1>1. q \in Nat /\ r \in 0 .. d - 1 /\ n = q * d + r
  BY Divide
<1>2. p = (d - r) % d
  BY DEF PadSize
<1> HIDE DEF q, r, p
<1>3. CASE r = 0
  <2>1. d = 1 * d + 0 /\ 0 \in 0 .. d - 1 /\ n = q * d + 0 /\ d - r = d
    BY <1>1, <1>3
  <2>2. (1 * d + 0) % d = 0 /\ (q * d + 0) % d = 0
    BY <1>1, <2>1, Quotient
  <2>3. p = 0
    BY <1>2, <2>1, <2>2
  <2>4. n + p = q * d + 0
    BY <2>1, <2>3
  <2>5. (n + p) % d = 0
    BY <2>2, <2>4
  <2> QED BY <2>1, <2>3, <2>5 DEF p
<1>4. CASE r # 0
  <2>1. d - r \in 0 .. d - 1 /\ d - r = 0 * d + (d - r) /\ 0 \in 0 .. d - 1
    BY <1>1, <1>4
  <2>2. (0 * d + (d - r)) % d = d - r
    BY <2>1, Quotient
  <2>3. p = d - r
    BY <1>2, <2>1, <2>2
  <2>4. (q + 1) * d = q * d + d /\ q + 1 \in Nat
    BY <1>1
  <2>5. n + p = (q + 1) * d + 0
    BY <1>1, <2>3, <2>4
  <2>6. ((q + 1) * d + 0) % d = 0
    BY <2>1, <2>4, Quotient
  <2>7. (n + p) % d = 0
    BY <2>5, <2>6
  <2> QED BY <2>1, <2>3, <2>7 DEF p
<1> QED BY <1>3, <1>4

LEMMA PadFacts ==
    ASSUME NEW S, NEW s \in Seq(S), s # <<>>, NEW d \in Nat \ {0}
    PROVE LET t == PadToDivisor(s, d)
          IN  /\ t \in Seq(S) /\ Len(t) = Len(s) + PadSize(Len(s), d) /\ Len(t) % d = 0
              /\ \A i \in 1 .. Len(s) : t[i] = s[i]
              /\ \A i \in 1 .. Len(t) : \E k \in 1 .. Len(s) : t[i] = s[k]
<1> DEFINE n == Len(s)
           p == PadSize(n, d)
           u == [i \in 1 .. p |-> s[((i - 1) % n) + 1]]
           t == s \o u
<1>1. n \in Nat \ {0} /\ \A k \in 1 .. n : s[k] \in S
  OBVIOUS
<1> HIDE DEF n
<1>2. p \in Nat /\ (n + p) % d = 0
  <2>1. n \in Nat
    BY <1>1
  <2>2. p \in 0 .. d - 1 /\ (n + p) % d = 0
    BY <2>1, PadSizeFacts
  <2> QED BY <2>2
<1> HIDE DEF p
<1>3. \A i \in 1 .. p : ((i - 1) % n) + 1 \in 1 .. n
  <2> TAKE i \in 1 .. p
  <2>1. i - 1 \in Nat
    OBVIOUS
  <2>2. (i - 1) % n \in 0 .. n - 1
    BY <1>1, <2>1, Divide
  <2> QED BY <1>1, <2>2
<1>4. u \in [1 .. p -> S] /\ \A i \in 1 .. p : u[i] = s[((i - 1) % n) + 1]
  BY <1>1, <1>3
<1> HIDE DEF u
<1>5. u \in Seq(S) /\ Len(u) = p
  BY <1>2, <1>4
<1>6. /\ t \in Seq(S) /\ Len(t) = n + p
      /\ \A i \in 1 .. n : t[i] = s[i]
      /\ \A i \in 1 .. n + p : i > n => i - n \in 1 .. p /\ t[i] = u[i - n]
  BY <1>1, <1>2, <1>5 DEF n
<1>7. \A i \in 1 .. n + p : \E k \in 1 .. n : t[i] = s[k]
  <2> TAKE i \in 1 .. n + p
  <2>1. CASE i > n
    BY <1>3, <1>4, <1>6, <2>1
  <2>2. CASE ~(i > n)
    <3>1. i \in 1 .. n
      BY <1>1, <2>2
    <3> QED BY <1>6, <3>1
  <2> QED BY <2>1, <2>2
<1>8. PadToDivisor(s, d) = t
  BY DEF PadToDivisor, u, p, n
<1> HIDE DEF t
<1> QED BY <1>2, <1>6, <1>7, <1>8 DEF n, p

\* The places from a + 1 to a + c of a sequence.
LEMMA SliceFacts ==
    ASSUME NEW S, NEW s \in Seq(S), NEW a \in Nat, NEW c \in Nat, a + c <= Len(s)
    PROVE /\ SubSeq(s, a + 1, a + c) \in Seq(S)
          /\ Len(SubSeq(s, a + 1, a + c)) = c
          /\ DOMAIN SubSeq(s, a + 1, a + c) = 1 .. c
          /\ \A j \in 1 .. c : SubSeq(s, a + 1, a + c)[j] = s[a + j]
<1>1. Len(s) \in Nat /\ (a + c) - (a + 1) + 1 = c
  OBVIOUS
<1>2. SubSeq(s, a + 1, a + c) = [j \in 1 .. c |-> s[a + j]]
  <2>1. SubSeq(s, a + 1, a + c) = [j \in 1 .. (a + c) - (a + 1) + 1 |-> s[j + (a + 1) - 1]]
    OBVIOUS
  <2>2. \A j \in 1 .. c : j + (a + 1) - 1 = a + j
    OBVIOUS
  <2> QED BY <1>1, <2>1, <2>2
<1>3. \A j \in 1 .. c : s[a + j] \in S
  BY <1>1
<1>4. SubSeq(s, a + 1, a + c) \in [1 .. c -> S]
  BY <1>2, <1>3
<1> QED BY <1>2, <1>4

-----------------------------------------------------------------------------
(* Sums.                                                                   *)

\* f sums the first elements of s, one more at a time.
SumsTo(s, f, m) == \A i \in 0 .. m : f[i] = IF i = 0 THEN 0 ELSE f[i-1] + s[i]

Sums(s, f) == f = [i \in 0 .. Len(s) |-> IF i = 0 THEN 0 ELSE f[i-1] + s[i]]

LEMMA SumsExist ==
    ASSUME NEW s \in Seq(Nat)
    PROVE \E f \in [0 .. Len(s) -> Nat] : Sums(s, f)
<1> DEFINE n == Len(s)
           T == {m \in Nat : m <= n => \E f \in [0 .. m -> Nat] : SumsTo(s, f, m)}
<1>0. n \in Nat /\ \A i \in 1 .. n : s[i] \in Nat
  OBVIOUS
<1> HIDE DEF n
<1>1. 0 \in T
  <2> DEFINE f == [i \in 0 .. 0 |-> 0]
  <2>1. f \in [0 .. 0 -> Nat] /\ SumsTo(s, f, 0)
    BY DEF SumsTo
  <2> QED BY <2>1
<1>2. ASSUME NEW m \in T, m + 1 <= n
      PROVE \E f \in [0 .. m + 1 -> Nat] : SumsTo(s, f, m + 1)
  <2>1. m \in Nat /\ m + 1 \in 1 .. n /\ m <= n
    BY <1>0, <1>2
  <2>2. PICK f \in [0 .. m -> Nat] : SumsTo(s, f, m)
    BY <2>1
  <2> DEFINE q == m + 1
             top == f[m] + s[q]
             g == [i \in 0 .. q |-> IF i = q THEN top ELSE f[i]]
  <2>3. top \in Nat
    BY <1>0, <2>1, <2>2
  <2>4. /\ \A i \in 0 .. q : i \in 0 .. m \/ i = q
        /\ \A i \in 0 .. m : i \in 0 .. q /\ i # q /\ (i # 0 => i - 1 \in 0 .. m)
        /\ q \in 0 .. q /\ q - 1 = m /\ q # 0 /\ m \in 0 .. m
    BY <2>1
  <2> HIDE DEF top, q
  <2>5. g \in [0 .. q -> Nat] /\ g[q] = top /\ \A i \in 0 .. m : g[i] = f[i]
    BY <2>2, <2>3, <2>4
  <2> HIDE DEF g
  <2>6. \A i \in 0 .. m : g[i] = IF i = 0 THEN 0 ELSE g[i-1] + s[i]
    BY <2>2, <2>4, <2>5 DEF SumsTo
  <2>7. g[q] = g[q-1] + s[q]
    BY <2>4, <2>5 DEF top
  <2>8. SumsTo(s, g, q)
    BY <2>4, <2>6, <2>7 DEF SumsTo
  <2> QED BY <2>5, <2>8 DEF q
<1>3. \A m \in T : m + 1 \in T
  <2> TAKE m \in T
  <2>1. m + 1 \in Nat
    OBVIOUS
  <2>2. m + 1 <= n => \E f \in [0 .. m + 1 -> Nat] : SumsTo(s, f, m + 1)
    BY <1>2
  <2> QED BY <2>1, <2>2
<1>4. T = Nat
  <2>1. T \in SUBSET Nat
    OBVIOUS
  <2> HIDE DEF T
  <2> QED BY <1>1, <1>3, <2>1, NatSet
<1>5. n \in T /\ n <= n
  <2> HIDE DEF T
  <2> QED BY <1>0, <1>4
<1>6. PICK f \in [0 .. n -> Nat] : SumsTo(s, f, n)
  BY <1>5
<1>7. f = [i \in 0 .. n |-> IF i = 0 THEN 0 ELSE f[i-1] + s[i]]
  BY <1>6 DEF SumsTo
<1> QED BY <1>7 DEF Sums, n

LEMMA TotalIs ==
    ASSUME NEW s \in Seq(Nat), NEW f, Sums(s, f)
    PROVE Total(s) = f[Len(s)]
<1> DEFINE n == Len(s)
           g == CHOOSE g : Sums(s, g)
           T == {i \in 0 .. n : f[i] # g[i]}
<1>1. Sums(s, g)
  OBVIOUS
<1>2. Total(s) = g[n]
  BY DEF Total, Sums
<1> HIDE DEF g
<1>3. \A i \in 0 .. n : /\ f[i] = IF i = 0 THEN 0 ELSE f[i-1] + s[i]
                        /\ g[i] = IF i = 0 THEN 0 ELSE g[i-1] + s[i]
  BY <1>1 DEF Sums
<1>4. n \in Nat
  OBVIOUS
<1> HIDE DEF n
<1>5. T = {}
  <2> SUFFICES ASSUME T # {} PROVE FALSE
    OBVIOUS
  <2>1. T \in SUBSET Nat
    BY <1>4
  <2>2. PICK i \in T : \A j \in T : i <= j
    BY <2>1, Least
  <2>3. i \in 0 .. n /\ (i # 0 => i - 1 \in 0 .. n /\ i - 1 \notin T)
    BY <1>4, <2>1, <2>2
  <2>4. i # 0 => f[i-1] = g[i-1]
    BY <2>3
  <2>5. f[i] = g[i]
    BY <1>3, <2>3, <2>4
  <2> QED BY <2>2, <2>5
<1>6. n \in 0 .. n
  BY <1>4
<1> QED BY <1>2, <1>5, <1>6 DEF n

\* A sum grows by what is appended.
LEMMA TotalFacts ==
    ASSUME NEW s \in Seq(Nat), NEW x \in Nat
    PROVE /\ Total(<<>>) = 0
          /\ Total(s) \in Nat /\ Total(Append(s, x)) = Total(s) + x
<1>1. Total(<<>>) = 0
  <2> DEFINE e == <<>>
  <2>1. e \in Seq(Nat) /\ Len(e) = 0
    OBVIOUS
  <2> HIDE DEF e
  <2>2. PICK f \in [0 .. Len(e) -> Nat] : Sums(e, f)
    BY <2>1, SumsExist
  <2>3. Total(e) = f[Len(e)]
    BY <2>1, <2>2, TotalIs
  <2>4. 0 \in 0 .. Len(e)
    BY <2>1
  <2>5. f[0] = 0
    BY <2>2, <2>4 DEF Sums
  <2> QED BY <2>1, <2>3, <2>5 DEF e
<1> DEFINE n == Len(s)
           u == Append(s, x)
<1>2. /\ n \in Nat /\ u \in Seq(Nat) /\ Len(u) = n + 1 /\ u[n + 1] = x
      /\ \A i \in 1 .. n : u[i] = s[i]
  OBVIOUS
<1>3. PICK f \in [0 .. n -> Nat] : Sums(s, f)
  BY SumsExist
<1>4. Total(s) = f[n]
  BY <1>3, TotalIs
<1>5. PICK g \in [0 .. Len(u) -> Nat] : Sums(u, g)
  BY <1>2, SumsExist
<1>6. Total(u) = g[Len(u)]
  BY <1>2, <1>5, TotalIs
<1> HIDE DEF n, u
<1>7. /\ \A i \in 0 .. n : f[i] = IF i = 0 THEN 0 ELSE f[i-1] + s[i]
      /\ \A i \in 0 .. n + 1 : g[i] = IF i = 0 THEN 0 ELSE g[i-1] + u[i]
  BY <1>2, <1>3, <1>5 DEF Sums, n
<1> DEFINE T == {i \in 0 .. n : f[i] # g[i]}
<1>8. T = {}
  <2> SUFFICES ASSUME T # {} PROVE FALSE
    OBVIOUS
  <2>1. T \in SUBSET Nat
    BY <1>2
  <2>2. PICK i \in T : \A j \in T : i <= j
    BY <2>1, Least
  <2>3. i \in 0 .. n /\ i \in 0 .. n + 1 /\ (i # 0 => i - 1 \in 0 .. n /\ i - 1 \notin T)
    BY <1>2, <2>1, <2>2
  <2>4. i # 0 => f[i-1] = g[i-1]
    BY <2>3
  <2>5. i # 0 => s[i] = u[i]
    <3>1. i # 0 => i \in 1 .. n
      BY <1>2, <2>3
    <3> QED BY <1>2, <3>1
  <2>6. f[i] = g[i]
    BY <1>7, <2>3, <2>4, <2>5
  <2> QED BY <2>2, <2>6
<1>9. g[n] = f[n] /\ f[n] \in Nat
  <2>1. n \in 0 .. n
    BY <1>2
  <2> QED BY <1>3, <1>8, <2>1
<1>10. g[n + 1] = g[n] + x
  <2>1. n + 1 \in 0 .. n + 1 /\ n + 1 # 0 /\ (n + 1) - 1 = n
    BY <1>2
  <2> QED BY <1>2, <1>7, <2>1
<1> QED BY <1>1, <1>2, <1>4, <1>6, <1>9, <1>10 DEF u

-----------------------------------------------------------------------------
(* Enumerations and permutations.                                          *)

\* s has each member of A once, and nothing else.
Enumerates(s, A) ==
    /\ s \in Seq(A)
    /\ \A a \in A : \E i \in 1 .. Len(s) : s[i] = a
    /\ \A i, j \in 1 .. Len(s) : s[i] = s[j] => i = j

\* An enumeration of A is as long as A is large.
LEMMA EnumSize ==
    ASSUME NEW A, NEW s, Enumerates(s, A)
    PROVE IsFiniteSet(A) /\ Cardinality(A) = Len(s) /\ Len(s) \in Nat
<1>1. s \in Seq(A) /\ Len(s) \in Nat
  BY DEF Enumerates
<1> DEFINE n == Len(s)
<1>2. s \in [1 .. n -> A] /\ n \in Nat
  BY <1>1
<1> HIDE DEF n
<1>3. s \in Bijection(1 .. n, A)
  <2>1. \A i, j \in 1 .. n : s[i] = s[j] => i = j
    BY DEF Enumerates, n
  <2>2. \A a \in A : \E i \in 1 .. n : s[i] = a
    BY DEF Enumerates, n
  <2> QED BY <1>2, <2>1, <2>2 DEF Bijection, Injection, Surjection, IsInjective
<1>4. IsFiniteSet(1 .. n) /\ Cardinality(1 .. n) = n
  BY <1>2, FS_Interval
<1>5. ExistsBijection(1 .. n, A)
  BY <1>3 DEF ExistsBijection
<1>6. IsFiniteSet(A) /\ Cardinality(A) = Cardinality(1 .. n)
  BY <1>4, <1>5, FS_Bijection
<1> QED BY <1>2, <1>4, <1>6 DEF n

\* An enumeration has each member once, and nothing else.
LEMMA EnumCount ==
    ASSUME NEW A, NEW s, Enumerates(s, A), NEW x
    PROVE CountOf(s, x) = IF x \in A THEN 1 ELSE 0
<1> DEFINE K == {k \in DOMAIN s : s[k] = x}
<1>1. s \in Seq(A) /\ DOMAIN s = 1 .. Len(s) /\ CountOf(s, x) = Cardinality(K)
  BY DEF Enumerates, CountOf
<1>2. CASE x \in A
  <2>1. PICK i \in 1 .. Len(s) : s[i] = x
    BY <1>2 DEF Enumerates
  <2>2. K = {i}
    BY <1>1, <2>1 DEF Enumerates
  <2> QED BY <1>1, <1>2, <2>2, FS_Singleton
<1>3. CASE x \notin A
  <2>1. K = {}
    BY <1>1, <1>3
  <2> QED BY <1>1, <1>3, <2>1, FS_EmptySet
<1> QED BY <1>2, <1>3

\* Enumerations of sets that share nothing, one after the other.
LEMMA EnumUnion ==
    ASSUME NEW A, NEW B, NEW s, NEW t, Enumerates(s, A), Enumerates(t, B), A \cap B = {}
    PROVE Enumerates(s \o t, A \cup B)
<1> DEFINE n == Len(s)
           m == Len(t)
           u == s \o t
           C == A \cup B
<1>1. s \in Seq(A) /\ t \in Seq(B) /\ n \in Nat /\ m \in Nat
  BY DEF Enumerates
<1>2. s \in Seq(C) /\ t \in Seq(C)
  BY <1>1
<1>3. /\ u \in Seq(C) /\ Len(u) = n + m
      /\ \A i \in 1 .. n : u[i] = s[i]
      /\ \A i \in 1 .. m : u[n + i] = t[i]
  <2> HIDE DEF C
  <2> QED BY <1>2
<1>4. \A i \in 1 .. n : s[i] \in A
  BY <1>1
<1>5. \A i \in 1 .. m : t[i] \in B
  BY <1>1
<1>6. /\ \A i, j \in 1 .. n : s[i] = s[j] => i = j
      /\ \A i, j \in 1 .. m : t[i] = t[j] => i = j
      /\ \A a \in A : \E i \in 1 .. n : s[i] = a
      /\ \A a \in B : \E i \in 1 .. m : t[i] = a
  BY DEF Enumerates
<1> HIDE DEF n, m, u
<1>7. \A i \in 1 .. n + m : i \in 1 .. n \/ (i - n \in 1 .. m /\ i = n + (i - n))
  BY <1>1
<1>8. /\ \A i \in 1 .. n : i \in 1 .. n + m
      /\ \A i \in 1 .. m : n + i \in 1 .. n + m
  BY <1>1
<1>9. ASSUME NEW i \in 1 .. n + m, NEW j \in 1 .. n + m, u[i] = u[j] PROVE i = j
  <2>1. CASE i \in 1 .. n
    <3>1. CASE j \in 1 .. n
      BY <1>3, <1>6, <1>9, <2>1, <3>1
    <3>2. CASE j - n \in 1 .. m /\ j = n + (j - n)
      <4>1. u[j] \in B /\ u[i] \in A
        <5>1. u[n + (j - n)] = t[j - n]
          BY <1>3, <3>2
        <5>2. u[j] = t[j - n]
          BY <3>2, <5>1
        <5> QED BY <1>3, <1>4, <1>5, <2>1, <3>2, <5>2
      <4> QED BY <1>9, <4>1
    <3> QED BY <1>7, <3>1, <3>2
  <2>2. CASE i - n \in 1 .. m /\ i = n + (i - n)
    <3>0. u[i] = t[i - n] /\ u[i] \in B
      <4>1. u[n + (i - n)] = t[i - n]
        BY <1>3, <2>2
      <4>2. u[i] = t[i - n]
        BY <2>2, <4>1
      <4> QED BY <1>5, <2>2, <4>2
    <3>1. CASE j \in 1 .. n
      <4>1. u[j] \in A
        BY <1>3, <1>4, <3>1
      <4> QED BY <1>9, <3>0, <4>1
    <3>2. CASE j - n \in 1 .. m /\ j = n + (j - n)
      <4>1. u[n + (j - n)] = t[j - n]
        BY <1>3, <3>2
      <4>2. u[j] = t[j - n]
        BY <3>2, <4>1
      <4>3. i - n = j - n
        BY <1>6, <1>9, <2>2, <3>0, <3>2, <4>2
      <4> QED BY <2>2, <3>2, <4>3
    <3> QED BY <1>7, <3>1, <3>2
  <2> QED BY <1>7, <2>1, <2>2
<1>10. ASSUME NEW a \in A \cup B PROVE \E i \in 1 .. n + m : u[i] = a
  <2>1. CASE a \in A
    <3>1. PICK i \in 1 .. n : s[i] = a
      BY <1>6, <2>1
    <3> QED BY <1>3, <1>8, <3>1
  <2>2. CASE a \in B
    <3>1. PICK i \in 1 .. m : t[i] = a
      BY <1>6, <2>2
    <3>2. u[n + i] = a /\ n + i \in 1 .. n + m
      BY <1>3, <1>8, <3>1
    <3> QED BY <3>2
  <2> QED BY <2>1, <2>2
<1>11. Enumerates(u, C)
  BY <1>3, <1>9, <1>10 DEF Enumerates
<1> QED BY <1>11 DEF u

\* Each sequence enumerates the set of the same number.
EnumEach(seqs, A, n) == Len(seqs) = n /\ \A p \in 1 .. n : Enumerates(seqs[p], A[p])

Apart(A, n) == \A p, q \in 1 .. n : p # q => A[p] \cap A[q] = {}

AllOf(A, n) == UNION {A[p] : p \in 1 .. n}

\* The empty sequence enumerates the empty set.
LEMMA EnumEmpty == Enumerates(<<>>, {})
BY DEF Enumerates

\* Enumerations of n sets that share nothing, concatenated.
LEMMA EnumConcat ==
    ASSUME NEW n \in Nat, NEW seqs, NEW A, EnumEach(seqs, A, n), Apart(A, n)
    PROVE Enumerates(Concat(seqs), AllOf(A, n))
<1>1. CASE n = 0
  <2>1. AllOf(A, n) = {}
    BY <1>1 DEF AllOf
  <2>2. Len(seqs) = 0
    BY <1>1 DEF EnumEach
  <2>3. Concat(seqs) = seqs
    BY <2>2 DEF Concat, FlattenSeq
  <2> QED BY <2>1, <2>2, <2>3, EnumEmpty
<1>2. CASE n # 0
  <2> DEFINE S == AllOf(A, n)
  <2>1. n \in Nat \ {0} /\ Len(seqs) = n
    BY <1>2 DEF EnumEach
  <2>2. \A i \in 1 .. n : seqs[i] \in Seq(S)
    <3> TAKE i \in 1 .. n
    <3>1. seqs[i] \in Seq(A[i])
      BY DEF EnumEach, Enumerates
    <3>2. A[i] \in SUBSET S
      BY DEF AllOf
    <3> HIDE DEF S
    <3> QED BY <3>1, <3>2
  <2> HIDE DEF S
  <2>3. PICK g \in [1 .. n -> Seq(S)] : Flattens(seqs, g)
    BY <2>1, <2>2, FlattensExists
  <2>4. Concat(seqs) = g[n]
    BY <2>1, <2>3, FlattenIs
  <2>5. \A i \in 1 .. n : g[i] = IF i = 1 THEN seqs[i] ELSE g[i-1] \o seqs[i]
    BY <2>1, <2>3 DEF Flattens
  <2> DEFINE T == {i \in 1 .. n : ~Enumerates(g[i], AllOf(A, i))}
  <2>6. T = {}
    <3> SUFFICES ASSUME T # {} PROVE FALSE
      OBVIOUS
    <3>1. T \in SUBSET Nat
      BY <2>1
    <3>2. PICK i \in T : \A j \in T : i <= j
      BY <3>1, Least
    <3>3. i \in 1 .. n /\ ~Enumerates(g[i], AllOf(A, i))
      OBVIOUS
    <3>4. i # 1 => i - 1 \in 1 .. n /\ i - 1 \notin T
      BY <2>1, <3>1, <3>2, <3>3
    <3>5. Enumerates(seqs[i], A[i])
      BY <3>3 DEF EnumEach
    <3>6. CASE i = 1
      <4>1. AllOf(A, 1) = A[1]
        <5>1. 1 .. 1 = {1}
          OBVIOUS
        <5> QED BY <5>1 DEF AllOf
      <4> QED BY <2>5, <3>3, <3>5, <3>6, <4>1
    <3>7. CASE i # 1
      <4> DEFINE j == i - 1
      <4>1. j \in 1 .. n /\ i = j + 1 /\ j \in Nat
        BY <2>1, <3>3, <3>4, <3>7
      <4>2. Enumerates(g[j], AllOf(A, j))
        BY <3>4, <3>7
      <4>3. g[i] = g[j] \o seqs[i]
        BY <2>5, <3>3, <3>7
      <4> HIDE DEF j
      <4>4. 1 .. i = (1 .. j) \cup {i} /\ i \notin 1 .. j
        BY <4>1
      <4>5. AllOf(A, i) = AllOf(A, j) \cup A[i]
        BY <4>4 DEF AllOf
      <4>6. AllOf(A, j) \cap A[i] = {}
        <5>1. \A p \in 1 .. j : p \in 1 .. n /\ p # i
          BY <2>1, <4>1, <4>4
        <5> QED BY <3>3, <5>1 DEF AllOf, Apart
      <4>7. Enumerates(g[j] \o seqs[i], AllOf(A, j) \cup A[i])
        BY <3>5, <4>2, <4>6, EnumUnion
      <4> QED BY <3>3, <4>3, <4>5, <4>7
    <3> QED BY <3>6, <3>7
  <2>7. n \in 1 .. n
    BY <2>1
  <2> QED BY <2>4, <2>6, <2>7
<1> QED BY <1>1, <1>2

\* pi is a permutation of 1..n.
Permutes(pi, n) ==
    /\ pi \in [1 .. n -> 1 .. n]
    /\ \A i, j \in 1 .. n : pi[i] = pi[j] => i = j
    /\ \A k \in 1 .. n : \E i \in 1 .. n : pi[i] = k

Injects(pi, n) == pi \in [1 .. n -> 1 .. n] /\ \A i, j \in 1 .. n : pi[i] = pi[j] => i = j

\* On a finite set, what is one-to-one is a permutation.
LEMMA InjectionPermutes ==
    ASSUME NEW n \in Nat, NEW pi, Injects(pi, n)
    PROVE Permutes(pi, n)
<1>1. pi \in Injection(1 .. n, 1 .. n)
  BY DEF Injects, Injection, IsInjective
<1>2. IsFiniteSet(1 .. n)
  BY FS_Interval
<1>3. pi \in Surjection(1 .. n, 1 .. n)
  BY <1>1, <1>2, FS_Injection
<1> QED BY <1>3 DEF Permutes, Injects, Surjection

\* t is s with its places permuted.
Rearranges(t, s) ==
    \E pi \in [1 .. Len(s) -> 1 .. Len(s)] :
        Permutes(pi, Len(s)) /\ t = [i \in 1 .. Len(s) |-> s[pi[i]]]

\* A rearrangement has the elements and the length.
LEMMA RearrangedType ==
    ASSUME NEW S, NEW s \in Seq(S), NEW t, Rearranges(t, s)
    PROVE t \in Seq(S) /\ Len(t) = Len(s)
<1>1. PICK pi \in [1 .. Len(s) -> 1 .. Len(s)] : t = [i \in 1 .. Len(s) |-> s[pi[i]]]
  BY DEF Rearranges
<1>2. Len(s) \in Nat /\ \A i \in 1 .. Len(s) : s[i] \in S
  OBVIOUS
<1>3. t \in [1 .. Len(s) -> S]
  BY <1>1, <1>2
<1> QED BY <1>2, <1>3

\* A rearranged enumeration enumerates the same set.
LEMMA EnumRearranged ==
    ASSUME NEW A, NEW s, NEW t, Enumerates(s, A), Rearranges(t, s)
    PROVE Enumerates(t, A)
<1> DEFINE n == Len(s)
<1>1. s \in Seq(A) /\ n \in Nat
  BY DEF Enumerates
<1>2. PICK pi \in [1 .. n -> 1 .. n] : Permutes(pi, n) /\ t = [i \in 1 .. n |-> s[pi[i]]]
  BY DEF Rearranges
<1>3. t \in Seq(A) /\ Len(t) = n
  BY <1>1, RearrangedType
<1>4. /\ \A a \in A : \E i \in 1 .. n : s[i] = a
      /\ \A i, j \in 1 .. n : s[i] = s[j] => i = j
  BY DEF Enumerates
<1> HIDE DEF n
<1>5. \A i, j \in 1 .. n : t[i] = t[j] => i = j
  BY <1>2, <1>4 DEF Permutes
<1>6. ASSUME NEW a \in A PROVE \E i \in 1 .. n : t[i] = a
  <2>1. PICK k \in 1 .. n : s[k] = a
    BY <1>4
  <2>2. PICK i \in 1 .. n : pi[i] = k
    BY <1>2 DEF Permutes
  <2> QED BY <1>2, <2>1, <2>2
<1> QED BY <1>3, <1>5, <1>6 DEF Enumerates

\* Two permutations, one after the other.
LEMMA PermutesCompose ==
    ASSUME NEW n \in Nat, NEW pi, NEW rho, Permutes(pi, n), Permutes(rho, n)
    PROVE Permutes([i \in 1 .. n |-> pi[rho[i]]], n)
<1> DEFINE f == [i \in 1 .. n |-> pi[rho[i]]]
<1>1. pi \in [1 .. n -> 1 .. n] /\ rho \in [1 .. n -> 1 .. n]
  BY DEF Permutes
<1>2. f \in [1 .. n -> 1 .. n] /\ \A i \in 1 .. n : f[i] = pi[rho[i]]
  BY <1>1
<1>3. \A i, j \in 1 .. n : f[i] = f[j] => i = j
  BY <1>1, <1>2 DEF Permutes
<1>4. Injects(f, n)
  BY <1>2, <1>3 DEF Injects
<1> HIDE DEF f
<1>5. Permutes(f, n)
  BY <1>4, InjectionPermutes
<1> QED BY <1>5 DEF f

\* A rearrangement of a rearrangement is one.
LEMMA RearrangedTwice ==
    ASSUME NEW S, NEW s \in Seq(S), NEW t, NEW u, Rearranges(t, s), Rearranges(u, t)
    PROVE Rearranges(u, s)
<1> DEFINE n == Len(s)
<1>1. n \in Nat /\ t \in Seq(S) /\ Len(t) = n
  BY RearrangedType
<1>2. PICK pi \in [1 .. n -> 1 .. n] : Permutes(pi, n) /\ t = [i \in 1 .. n |-> s[pi[i]]]
  BY DEF Rearranges
<1>3. PICK rho \in [1 .. n -> 1 .. n] : Permutes(rho, n) /\ u = [i \in 1 .. n |-> t[rho[i]]]
  BY <1>1 DEF Rearranges
<1> DEFINE f == [i \in 1 .. n |-> pi[rho[i]]]
<1>4. Permutes(f, n)
  BY <1>1, <1>2, <1>3, PermutesCompose
<1>5. f \in [1 .. n -> 1 .. n] /\ u = [i \in 1 .. n |-> s[f[i]]]
  BY <1>2, <1>3
<1> HIDE DEF f
<1> QED BY <1>4, <1>5 DEF Rearranges

\* What each sequence enumerates is the same after permuting the sequences.
LEMMA ConcatRearranged ==
    ASSUME NEW n \in Nat, NEW S, NEW seqs \in Seq(S), NEW A, NEW t,
           EnumEach(seqs, A, n), Apart(A, n), Rearranges(t, seqs)
    PROVE Enumerates(Concat(t), AllOf(A, n)) /\ Len(t) = n
<1>1. Len(seqs) = n
  BY DEF EnumEach
<1>2. PICK pi \in [1 .. n -> 1 .. n] : Permutes(pi, n) /\ t = [i \in 1 .. n |-> seqs[pi[i]]]
  BY <1>1 DEF Rearranges
<1> DEFINE B == [i \in 1 .. n |-> A[pi[i]]]
<1>3. Len(t) = n
  BY <1>1, RearrangedType
<1>4. /\ \A i \in 1 .. n : pi[i] \in 1 .. n /\ t[i] = seqs[pi[i]] /\ B[i] = A[pi[i]]
      /\ \A i, j \in 1 .. n : i # j => pi[i] # pi[j]
      /\ \A k \in 1 .. n : \E i \in 1 .. n : pi[i] = k
  BY <1>2 DEF Permutes
<1> HIDE DEF B
<1>5. EnumEach(t, B, n)
  BY <1>3, <1>4 DEF EnumEach
<1>6. Apart(B, n)
  <2>1. \A p, q \in 1 .. n : p # q => A[pi[p]] \cap A[pi[q]] = {}
    BY <1>4 DEF Apart
  <2>2. \A p \in 1 .. n : B[p] = A[pi[p]]
    BY <1>4
  <2> QED BY <2>1, <2>2 DEF Apart
<1>7. AllOf(B, n) = AllOf(A, n)
  <2>1. ASSUME NEW x \in AllOf(B, n) PROVE x \in AllOf(A, n)
    <3>1. PICK i \in 1 .. n : x \in B[i]
      BY DEF AllOf
    <3>2. pi[i] \in 1 .. n /\ x \in A[pi[i]]
      BY <1>4, <3>1
    <3> QED BY <3>2 DEF AllOf
  <2>2. ASSUME NEW x \in AllOf(A, n) PROVE x \in AllOf(B, n)
    <3>1. PICK k \in 1 .. n : x \in A[k]
      BY DEF AllOf
    <3>2. PICK i \in 1 .. n : pi[i] = k
      BY <1>4
    <3>3. x \in B[i]
      BY <1>4, <3>1, <3>2
    <3> QED BY <3>3 DEF AllOf
  <2> QED BY <2>1, <2>2
<1>8. Enumerates(Concat(t), AllOf(B, n))
  BY <1>5, <1>6, EnumConcat
<1> QED BY <1>3, <1>7, <1>8

-----------------------------------------------------------------------------
(* Sorting.                                                                *)

\* before[k] are the positions before k in a strict total order of 1..n.
IsOrder(before, n) ==
    /\ before \in [1 .. n -> SUBSET (1 .. n)]
    /\ \A k \in 1 .. n : k \notin before[k]
    /\ \A i, j, k \in 1 .. n : i \in before[j] /\ j \in before[k] => i \in before[k]
    /\ \A j, k \in 1 .. n : j # k => j \in before[k] \/ k \in before[j]

\* pi names the positions in the order.
Follows(pi, before, n) ==
    /\ Permutes(pi, n)
    /\ \A i, j \in 1 .. n : i < j => pi[i] \in before[pi[j]]

Sorting(before, n) == [i \in 1 .. n |-> CHOOSE k \in 1 .. n : Cardinality(before[k]) = i - 1]

\* Picking for each place the element with that many before it sorts, for
\* every strict total order.
LEMMA SortingFollows ==
    ASSUME NEW n \in Nat, NEW before, IsOrder(before, n)
    PROVE Follows(Sorting(before, n), before, n)
<1> DEFINE c(k) == Cardinality(before[k])
           rho == [k \in 1 .. n |-> c(k) + 1]
           pi == Sorting(before, n)
<1>0. /\ \A k \in 1 .. n : before[k] \in SUBSET (1 .. n) /\ k \notin before[k]
      /\ \A i, j, k \in 1 .. n : i \in before[j] /\ j \in before[k] => i \in before[k]
      /\ \A j, k \in 1 .. n : j # k => j \in before[k] \/ k \in before[j]
  BY DEF IsOrder
<1>1. ASSUME NEW k \in 1 .. n
      PROVE IsFiniteSet(before[k]) /\ c(k) \in Nat /\ c(k) <= n - 1
  <2>1. IsFiniteSet(1 .. n) /\ Cardinality(1 .. n) = n
    BY FS_Interval
  <2>2. IsFiniteSet((1 .. n) \ {k}) /\ Cardinality((1 .. n) \ {k}) = n - 1
    BY <2>1, FS_RemoveElement
  <2>3. before[k] \in SUBSET ((1 .. n) \ {k})
    BY <1>0
  <2> QED BY <2>2, <2>3, FS_Subset, FS_CardinalityType
<1>2. ASSUME NEW j \in 1 .. n, NEW k \in 1 .. n, j \in before[k]
      PROVE c(j) < c(k)
  <2>1. before[j] \in SUBSET before[k]
    BY <1>0, <1>2
  <2>2. j \notin before[j]
    BY <1>0
  <2>3. c(j) <= c(k) /\ (c(j) = c(k) => before[j] = before[k])
    BY <1>1, <2>1, FS_Subset
  <2> QED BY <1>1, <1>2, <2>2, <2>3
<1>3. \A k \in 1 .. n : rho[k] = c(k) + 1 /\ rho[k] \in 1 .. n /\ c(k) \in Nat
  BY <1>1
<1>4. rho \in [1 .. n -> 1 .. n]
  BY <1>3
<1>5. \A i, j \in 1 .. n : i # j => c(i) # c(j)
  <2> TAKE i, j \in 1 .. n
  <2> HAVE i # j
  <2>1. i \in before[j] \/ j \in before[i]
    BY <1>0
  <2>2. c(i) < c(j) \/ c(j) < c(i)
    BY <1>2, <2>1
  <2>3. c(i) \in Nat /\ c(j) \in Nat
    BY <1>1
  <2> HIDE DEF c
  <2> QED BY <2>2, <2>3
<1> HIDE DEF c
<1>6. \A i, j \in 1 .. n : rho[i] = rho[j] => i = j
  BY <1>3, <1>5
<1> HIDE DEF rho
<1>7. Permutes(rho, n)
  BY <1>4, <1>6, InjectionPermutes DEF Injects
<1>8. \A i \in 1 .. n : pi[i] \in 1 .. n /\ c(pi[i]) = i - 1
  <2> TAKE i \in 1 .. n
  <2>1. PICK k \in 1 .. n : rho[k] = i
    BY <1>7 DEF Permutes
  <2>2. c(k) = i - 1
    BY <1>3, <2>1
  <2>3. pi[i] = CHOOSE l \in 1 .. n : c(l) = i - 1
    BY DEF Sorting, c
  <2> QED BY <2>2, <2>3
<1>9. pi \in [1 .. n -> 1 .. n]
  <2>1. pi = [i \in 1 .. n |-> pi[i]]
    BY DEF Sorting
  <2> HIDE DEF pi
  <2> QED BY <1>8, <2>1
<1> HIDE DEF pi
<1>10. \A i, j \in 1 .. n : pi[i] = pi[j] => i = j
  BY <1>8
<1>11. Permutes(pi, n)
  BY <1>9, <1>10, InjectionPermutes DEF Injects
<1>12. ASSUME NEW i \in 1 .. n, NEW j \in 1 .. n, i < j
       PROVE pi[i] \in before[pi[j]]
  <2>1. pi[i] \in 1 .. n /\ pi[j] \in 1 .. n /\ c(pi[i]) = i - 1 /\ c(pi[j]) = j - 1
    BY <1>8
  <2>2. pi[i] # pi[j]
    BY <1>10, <1>12
  <2>3. pi[j] \in before[pi[i]] => c(pi[j]) < c(pi[i])
    BY <1>2, <2>1
  <2>4. ~(pi[j] \in before[pi[i]])
    BY <1>12, <2>1, <2>3
  <2> QED BY <1>0, <2>1, <2>2, <2>4
<1>13. Follows(pi, before, n)
  BY <1>11, <1>12 DEF Follows
<1> QED BY <1>13 DEF pi

\* Ordered rearranges: it is s along the permutation that sorts it.
LEMMA OrderedIs ==
    ASSUME NEW S, NEW s \in Seq(S), NEW before, IsOrder(before, Len(s))
    PROVE LET pi == Sorting(before, Len(s))
          IN  /\ Ordered(s, before) = [i \in 1 .. Len(s) |-> s[pi[i]]]
              /\ Ordered(s, before) \in Seq(S) /\ Len(Ordered(s, before)) = Len(s)
              /\ Rearranges(Ordered(s, before), s)
<1> DEFINE n == Len(s)
           pi == Sorting(before, n)
           t == [i \in DOMAIN s |-> s[CHOOSE k \in DOMAIN s : Cardinality(before[k]) = i - 1]]
           u == [i \in 1 .. n |-> s[pi[i]]]
<1>1. n \in Nat /\ DOMAIN s = 1 .. n /\ \A i \in 1 .. n : s[i] \in S
  OBVIOUS
<1>2. t = u
  <2>1. t = [i \in 1 .. n |-> s[CHOOSE k \in 1 .. n : Cardinality(before[k]) = i - 1]]
    BY <1>1
  <2> QED BY <2>1, Zenon DEF Sorting
<1>3. Follows(pi, before, n)
  BY <1>1, SortingFollows
<1>4. Permutes(pi, n) /\ pi \in [1 .. n -> 1 .. n]
  BY <1>3 DEF Follows, Permutes
<1> HIDE DEF pi
<1>5. u \in Seq(S) /\ Len(u) = n
  <2>1. u \in [1 .. n -> S]
    BY <1>1, <1>4
  <2> QED BY <1>1, <2>1
<1>6. Rearranges(u, s)
  BY <1>4 DEF Rearranges
<1>7. Ordered(s, before) = SubSeq(t, 1, n)
  BY DEF Ordered
<1> HIDE DEF t, u
<1>8. SubSeq(u, 1, n) = u
  <2> HIDE DEF n
  <2>1. u \in Seq(S) /\ Len(u) = n
    BY <1>5
  <2> QED BY <1>1, <2>1
<1>9. Ordered(s, before) = u
  BY <1>2, <1>7, <1>8
<1> QED BY <1>5, <1>6, <1>9 DEF u, pi

\* Ascending keys with ties by position are a strict total order, and the
\* sorted keys do not fall.
LEMMA AscendingOrder ==
    ASSUME NEW keys \in Seq(Int)
    PROVE /\ IsOrder(Ascending(keys), Len(keys))
          /\ LET pi == Sorting(Ascending(keys), Len(keys))
             IN  \A i, j \in 1 .. Len(keys) : i < j => keys[pi[i]] <= keys[pi[j]]
<1> DEFINE n == Len(keys)
           before == Ascending(keys)
<1>1. n \in Nat /\ DOMAIN keys = 1 .. n /\ \A i \in 1 .. n : keys[i] \in Int /\ i \in Nat
  OBVIOUS
<1>2. /\ before \in [1 .. n -> SUBSET (1 .. n)]
      /\ \A k \in 1 .. n : before[k] = {j \in 1 .. n : keys[j] < keys[k] \/ (keys[j] = keys[k] /\ j < k)}
  BY <1>1 DEF Ascending
<1> HIDE DEF before, n
<1>3. \A j, k \in 1 .. n : j \in before[k] <=> keys[j] < keys[k] \/ (keys[j] = keys[k] /\ j < k)
  BY <1>2
<1>4. IsOrder(before, n)
  <2>1. \A k \in 1 .. n : k \notin before[k]
    BY <1>1, <1>3
  <2>2. \A i, j, k \in 1 .. n : i \in before[j] /\ j \in before[k] => i \in before[k]
    BY <1>1, <1>3
  <2>3. \A j, k \in 1 .. n : j # k => j \in before[k] \/ k \in before[j]
    BY <1>1, <1>3
  <2> QED BY <1>2, <2>1, <2>2, <2>3 DEF IsOrder
<1> DEFINE pi == Sorting(before, n)
<1>5. Follows(pi, before, n)
  BY <1>1, <1>4, SortingFollows
<1> HIDE DEF pi
<1>6. \A i, j \in 1 .. n : i < j => keys[pi[i]] <= keys[pi[j]]
  <2> TAKE i, j \in 1 .. n
  <2> HAVE i < j
  <2>1. pi[i] \in before[pi[j]] /\ pi[i] \in 1 .. n /\ pi[j] \in 1 .. n
    BY <1>5 DEF Follows, Permutes
  <2>2. keys[pi[i]] \in Int /\ keys[pi[j]] \in Int
    BY <1>1, <2>1
  <2>3. keys[pi[i]] < keys[pi[j]] \/ keys[pi[i]] = keys[pi[j]]
    BY <1>3, <2>1
  <2> QED BY <2>2, <2>3
<1> QED BY <1>4, <1>6 DEF before, n, pi

-----------------------------------------------------------------------------
(* Sums over some of the elements.                                         *)

\* The sum of sums of elements.
LEMMA TotalPointwise ==
    ASSUME NEW n \in Nat, NEW a \in [1 .. n -> Nat], NEW b \in [1 .. n -> Nat]
    PROVE /\ Total(a) \in Nat
          /\ Total([i \in 1 .. n |-> a[i] + b[i]]) = Total(a) + Total(b)
<1> DEFINE c == [i \in 1 .. n |-> a[i] + b[i]]
<1>1. c \in [1 .. n -> Nat] /\ \A i \in 1 .. n : c[i] = a[i] + b[i]
  OBVIOUS
<1> HIDE DEF c
<1>2. /\ a \in Seq(Nat) /\ Len(a) = n /\ b \in Seq(Nat) /\ Len(b) = n
      /\ c \in Seq(Nat) /\ Len(c) = n
  BY <1>1
<1>3. PICK f \in [0 .. n -> Nat] : Sums(a, f)
  BY <1>2, SumsExist
<1>4. PICK g \in [0 .. n -> Nat] : Sums(b, g)
  BY <1>2, SumsExist
<1>5. PICK h \in [0 .. n -> Nat] : Sums(c, h)
  BY <1>2, SumsExist
<1>6. Total(a) = f[n] /\ Total(b) = g[n] /\ Total(c) = h[n]
  BY <1>2, <1>3, <1>4, <1>5, TotalIs
<1>7. \A i \in 0 .. n : /\ f[i] = IF i = 0 THEN 0 ELSE f[i-1] + a[i]
                        /\ g[i] = IF i = 0 THEN 0 ELSE g[i-1] + b[i]
                        /\ h[i] = IF i = 0 THEN 0 ELSE h[i-1] + c[i]
  BY <1>2, <1>3, <1>4, <1>5 DEF Sums
<1> DEFINE T == {i \in 0 .. n : h[i] # f[i] + g[i]}
<1>8. T = {}
  <2> SUFFICES ASSUME T # {} PROVE FALSE
    OBVIOUS
  <2>1. T \in SUBSET Nat
    OBVIOUS
  <2>2. PICK i \in T : \A j \in T : i <= j
    BY <2>1, Least
  <2>3. i \in 0 .. n /\ (i # 0 => i - 1 \in 0 .. n /\ i - 1 \notin T)
    BY <2>1, <2>2
  <2>4. i # 0 => h[i-1] = f[i-1] + g[i-1]
    BY <2>3
  <2>5. i # 0 => i \in 1 .. n /\ c[i] = a[i] + b[i] /\ a[i] \in Nat /\ b[i] \in Nat
    BY <1>1, <2>3
  <2>6. i # 0 => f[i-1] \in Nat /\ g[i-1] \in Nat
    BY <2>3
  <2>7. h[i] = f[i] + g[i]
    <3>1. /\ f[i] = IF i = 0 THEN 0 ELSE f[i-1] + a[i]
          /\ g[i] = IF i = 0 THEN 0 ELSE g[i-1] + b[i]
          /\ h[i] = IF i = 0 THEN 0 ELSE h[i-1] + c[i]
      BY <1>7, <2>3
    <3> HIDE DEF T
    <3>2. CASE i = 0
      BY <3>1, <3>2
    <3>3. CASE i # 0
      <4> DEFINE x == f[i-1]
                 y == g[i-1]
                 u == a[i]
                 v == b[i]
      <4>1. x \in Nat /\ y \in Nat /\ u \in Nat /\ v \in Nat
        BY <2>5, <2>6, <3>3
      <4>2. f[i] = x + u /\ g[i] = y + v /\ h[i] = (x + y) + (u + v)
        BY <2>4, <2>5, <3>1, <3>3
      <4> HIDE DEF x, y, u, v
      <4> QED BY <4>1, <4>2
    <3> QED BY <3>2, <3>3
  <2> QED BY <2>2, <2>7
<1>9. n \in 0 .. n /\ f[n] \in Nat
  OBVIOUS
<1> QED BY <1>6, <1>8, <1>9 DEF c

\* The sum of the values of the members of R.
Masked(vals, R) == [i \in 1 .. Len(vals) |-> IF i \in R THEN vals[i] ELSE 0]

Load(vals, R) == Total(Masked(vals, R))

\* Sums over some of the elements are natural numbers.
LEMMA LoadType ==
    ASSUME NEW vals \in Seq(Nat), NEW R
    PROVE /\ Masked(vals, R) \in [1 .. Len(vals) -> Nat] /\ Load(vals, R) \in Nat
          /\ Masked(vals, R) \in Seq(Nat)
<1> DEFINE n == Len(vals)
           a == Masked(vals, R)
<1>1. n \in Nat /\ \A i \in 1 .. n : vals[i] \in Nat
  OBVIOUS
<1>2. a \in [1 .. n -> Nat]
  BY <1>1 DEF Masked
<1> HIDE DEF a, n
<1>3. Total(a) \in Nat
  BY <1>1, <1>2, TotalPointwise
<1>4. a \in Seq(Nat)
  BY <1>1, <1>2
<1> QED BY <1>2, <1>3, <1>4 DEF Load, a, n

\* The load of two sets of places that share nothing.
LEMMA LoadUnion ==
    ASSUME NEW vals \in Seq(Nat), NEW A, NEW B, A \cap B = {}
    PROVE Load(vals, A \cup B) = Load(vals, A) + Load(vals, B)
<1> DEFINE n == Len(vals)
           a == Masked(vals, A)
           b == Masked(vals, B)
<1>1. n \in Nat /\ a \in [1 .. n -> Nat] /\ b \in [1 .. n -> Nat]
  BY LoadType
<1>2. Masked(vals, A \cup B) = [i \in 1 .. n |-> a[i] + b[i]]
  <2>1. \A i \in 1 .. n : vals[i] \in Nat
    OBVIOUS
  <2>2. ASSUME NEW i \in 1 .. n
        PROVE (IF i \in A \cup B THEN vals[i] ELSE 0) = a[i] + b[i]
    <3>1. a[i] = (IF i \in A THEN vals[i] ELSE 0) /\ b[i] = (IF i \in B THEN vals[i] ELSE 0)
      BY DEF Masked
    <3> HIDE DEF a, b
    <3>2. ~(i \in A /\ i \in B)
      OBVIOUS
    <3> QED BY <2>1, <3>1, <3>2
  <2> HIDE DEF a, b
  <2> QED BY <2>2 DEF Masked
<1> HIDE DEF n, a, b
<1>3. Total([i \in 1 .. n |-> a[i] + b[i]]) = Total(a) + Total(b)
  BY <1>1, TotalPointwise
<1> QED BY <1>2, <1>3 DEF Load, a, b

\* The load of no place and of one.
LEMMA LoadFew ==
    ASSUME NEW vals \in Seq(Nat)
    PROVE /\ Load(vals, {}) = 0
          /\ \A x \in 1 .. Len(vals) : Load(vals, {x}) = vals[x]
<1> DEFINE n == Len(vals)
<1>0. n \in Nat /\ \A i \in 1 .. n : vals[i] \in Nat
  OBVIOUS
<1>1. ASSUME NEW R, NEW x \in 1 .. n + 1, R \in {{}, {x}}, NEW v \in Nat,
             R = {} => v = 0, R = {x} => x \in 1 .. n /\ v = vals[x]
      PROVE Load(vals, R) = v
  <2> DEFINE a == Masked(vals, R)
             f == [i \in 0 .. n |-> IF i < x THEN 0 ELSE v]
  <2>1. a \in Seq(Nat) /\ Len(a) = n
    BY LoadType, <1>0
  <2>2. \A i \in 1 .. n : a[i] = IF i = x THEN v ELSE 0
    BY <1>0, <1>1 DEF Masked
  <2>3. f \in [0 .. n -> Nat] /\ \A i \in 0 .. n : f[i] = IF i < x THEN 0 ELSE v
    BY <1>0
  <2> HIDE DEF n, a
  <2>4. ASSUME NEW i \in 0 .. n
        PROVE f[i] = IF i = 0 THEN 0 ELSE f[i-1] + a[i]
    <3>1. CASE i = 0
      BY <1>0, <2>3, <3>1
    <3>2. CASE i # 0
      <4>1. i \in 1 .. n /\ i - 1 \in 0 .. n
        BY <1>0, <3>2
      <4>2. f[i] = (IF i < x THEN 0 ELSE v) /\ f[i-1] = (IF i - 1 < x THEN 0 ELSE v)
            /\ a[i] = IF i = x THEN v ELSE 0
        BY <2>2, <2>3, <4>1
      <4> HIDE DEF f
      <4>3. x \in Nat /\ i \in Nat
        BY <1>0, <4>1
      <4>4. (IF i < x THEN 0 ELSE v) = (IF i - 1 < x THEN 0 ELSE v) + (IF i = x THEN v ELSE 0)
        BY <4>3
      <4> QED BY <3>2, <4>2, <4>4
    <3> QED BY <3>1, <3>2
  <2> HIDE DEF f
  <2>5. f = [i \in 0 .. n |-> f[i]]
    BY <2>3
  <2>6. f = [i \in 0 .. n |-> IF i = 0 THEN 0 ELSE f[i-1] + a[i]]
    BY <2>4, <2>5
  <2>7. Sums(a, f)
    BY <2>1, <2>6 DEF Sums
  <2>8. Total(a) = f[n]
    BY <2>1, <2>7, TotalIs
  <2>9. n \in 0 .. n
    BY <1>0
  <2>10. f[n] = v
    <3>1. CASE R = {}
      BY <1>1, <2>3, <2>9, <3>1
    <3>2. CASE R = {x}
      BY <1>0, <1>1, <2>3, <2>9, <3>2
    <3> QED BY <1>1, <3>1, <3>2
  <2> QED BY <2>8, <2>10 DEF Load, a
<1>2. Load(vals, {}) = 0
  <2>1. n + 1 \in 1 .. n + 1 /\ {} \in {{}, {n + 1}} /\ 0 \in Nat
    BY <1>0
  <2>2. {} # {n + 1}
    OBVIOUS
  <2> HIDE DEF n
  <2> QED BY <1>1, <2>1, <2>2
<1>3. ASSUME NEW x \in 1 .. n PROVE Load(vals, {x}) = vals[x]
  <2>1. x \in 1 .. n + 1 /\ {x} \in {{}, {x}} /\ vals[x] \in Nat /\ {x} # {}
    BY <1>0
  <2> HIDE DEF n
  <2> QED BY <1>1, <2>1
<1> QED BY <1>2, <1>3

\* Summing along an enumeration.
LEMMA TotalLoad ==
    ASSUME NEW vals \in Seq(Nat), NEW A \in SUBSET (1 .. Len(vals)), NEW rows, Enumerates(rows, A)
    PROVE Total([i \in 1 .. Len(rows) |-> vals[rows[i]]]) = Load(vals, A)
<1> DEFINE n == Len(rows)
           w == [i \in 1 .. n |-> vals[rows[i]]]
           First(m) == {rows[i] : i \in 1 .. m}
<1>1. rows \in Seq(A) /\ n \in Nat /\ \A i \in 1 .. n : rows[i] \in A
  BY DEF Enumerates
<1>2. \A i \in 1 .. n : rows[i] \in 1 .. Len(vals) /\ vals[rows[i]] \in Nat
  <2>1. \A a \in A : a \in 1 .. Len(vals) /\ vals[a] \in Nat
    OBVIOUS
  <2> QED BY <1>1, <2>1
<1>3. w \in [1 .. n -> Nat] /\ \A i \in 1 .. n : w[i] = vals[rows[i]]
  BY <1>2
<1>4. /\ \A i, j \in 1 .. n : rows[i] = rows[j] => i = j
      /\ \A a \in A : \E i \in 1 .. n : rows[i] = a
  BY DEF Enumerates
<1> HIDE DEF n, w
<1>5. w \in Seq(Nat) /\ Len(w) = n
  BY <1>1, <1>3
<1>6. PICK f \in [0 .. n -> Nat] : Sums(w, f)
  BY <1>5, SumsExist
<1>7. Total(w) = f[n]
  BY <1>5, <1>6, TotalIs
<1>8. \A i \in 0 .. n : f[i] = IF i = 0 THEN 0 ELSE f[i-1] + w[i]
  BY <1>5, <1>6 DEF Sums
<1> DEFINE T == {i \in 0 .. n : f[i] # Load(vals, First(i))}
<1>9. T = {}
  <2> SUFFICES ASSUME T # {} PROVE FALSE
    OBVIOUS
  <2>1. T \in SUBSET Nat
    BY <1>1
  <2>2. PICK i \in T : \A j \in T : i <= j
    BY <2>1, Least
  <2>3. i \in 0 .. n /\ (i # 0 => i - 1 \in 0 .. n /\ i - 1 \notin T)
    <3>1. i \in 0 .. n
      OBVIOUS
    <3>2. i # 0 => i - 1 \in 0 .. n /\ ~(i <= i - 1)
      BY <1>1, <3>1
    <3> HIDE DEF T
    <3> QED BY <2>2, <3>1, <3>2
  <2>4. CASE i = 0
    <3>1. First(0) = {}
      <4>1. 1 .. 0 = {}
        OBVIOUS
      <4> QED BY <4>1
    <3>2. f[0] = 0
      BY <1>8, <2>3, <2>4
    <3> QED BY <2>2, <2>4, <3>1, <3>2, LoadFew
  <2>5. CASE i # 0
    <3> DEFINE j == i - 1
    <3>1. j \in 0 .. n /\ j \in Nat /\ i = j + 1 /\ i \in 1 .. n
      BY <1>1, <2>3, <2>5
    <3>2. f[j] = Load(vals, First(j)) /\ f[i] = f[j] + w[i]
      BY <1>8, <2>3, <2>5
    <3> HIDE DEF j
    <3>3. 1 .. i = (1 .. j) \cup {i} /\ i \notin 1 .. j /\ \A k \in 1 .. j : k \in 1 .. n /\ k # i
      BY <1>1, <3>1
    <3>4. First(i) = First(j) \cup {rows[i]}
      BY <3>3
    <3>5. First(j) \cap {rows[i]} = {}
      BY <1>4, <3>1, <3>3
    <3> HIDE DEF First
    <3>6. Load(vals, First(j) \cup {rows[i]}) = Load(vals, First(j)) + Load(vals, {rows[i]})
      BY <3>5, LoadUnion
    <3>7. Load(vals, {rows[i]}) = w[i]
      BY <1>2, <1>3, <3>1, LoadFew
    <3> QED BY <2>2, <3>2, <3>4, <3>6, <3>7
  <2> QED BY <2>4, <2>5
<1>10. n \in 0 .. n
  BY <1>1
<1>11. First(n) = A
  <2>1. First(n) \subseteq A
    BY <1>1
  <2>2. A \subseteq First(n)
    BY <1>4
  <2> QED BY <2>1, <2>2
<1>12. Total(w) = Load(vals, A)
  <2> HIDE DEF First
  <2> QED BY <1>7, <1>9, <1>10, <1>11
<1> QED BY <1>12 DEF w, n

\* Nothing, concatenated.
LEMMA ConcatNone == Concat(<<>>) = <<>>
  BY DEF Concat, FlattenSeq

\* The first k of the sequences, one after the other.
Joint(seqs, k) == Concat(SubSeq(seqs, 1, k))

\* The first k sequences concatenated, step by step.
LEMMA JointFacts ==
    ASSUME NEW S, NEW seqs \in Seq(Seq(S))
    PROVE /\ Joint(seqs, 0) = <<>>
          /\ Joint(seqs, Len(seqs)) = Concat(seqs)
          /\ \A k \in 0 .. Len(seqs) : Joint(seqs, k) \in Seq(S)
          /\ \A k \in 1 .. Len(seqs) : Joint(seqs, k) = Joint(seqs, k - 1) \o seqs[k]
<1> DEFINE n == Len(seqs)
<1>0. n \in Nat /\ \A i \in 1 .. n : seqs[i] \in Seq(S)
  OBVIOUS
<1>1. Joint(seqs, 0) = <<>>
  <2>1. SubSeq(seqs, 1, 0) = <<>>
    BY SubSeqEmpty
  <2> QED BY <2>1, ConcatNone DEF Joint
<1>2. Joint(seqs, n) = Concat(seqs)
  BY SubSeqFull DEF Joint
<1>3. CASE n = 0
  <2>1. \A k \in 0 .. n : k = 0
    BY <1>3
  <2>2. \A k \in 1 .. n : FALSE
    BY <1>3
  <2>3. \A k \in 0 .. n : Joint(seqs, k) \in Seq(S)
    BY <1>1, <2>1
  <2> QED BY <1>1, <1>2, <2>2, <2>3
<1>4. CASE n # 0
  <2>1. n \in Nat \ {0} /\ Len(seqs) = n
    BY <1>0, <1>4
  <2>2. PICK g \in [1 .. n -> Seq(S)] : Flattens(seqs, g)
    BY <1>0, <2>1, FlattensExists
  <2> HIDE DEF n
  <2>3. \A i \in 1 .. n : g[i] = IF i = 1 THEN seqs[i] ELSE g[i-1] \o seqs[i]
    BY <2>1, <2>2 DEF Flattens
  <2>4. ASSUME NEW k \in 1 .. n PROVE Joint(seqs, k) = g[k]
    <3> DEFINE s == SubSeq(seqs, 1, k)
               h == [i \in 1 .. k |-> g[i]]
    <3>1. k \in Nat \ {0} /\ k <= n
      BY <2>1
    <3>2. Len(s) = k /\ \A i \in 1 .. k : s[i] = seqs[i]
      <4>1. 0 \in Nat /\ 0 + k <= Len(seqs) /\ k \in Nat
        BY <2>1, <3>1
      <4>2. Len(SubSeq(seqs, 0 + 1, 0 + k)) = k /\ \A j \in 1 .. k : SubSeq(seqs, 0 + 1, 0 + k)[j] = seqs[0 + j]
        BY <4>1, SliceFacts
      <4>3. \A j \in 1 .. k : 0 + j = j
        BY <3>1
      <4> QED BY <3>1, <4>2, <4>3
    <3> HIDE DEF s
    <3>3. \A i \in 1 .. k : i \in 1 .. n /\ (i # 1 => i - 1 \in 1 .. k)
      BY <2>1, <3>1
    <3>4. h = [i \in 1 .. k |-> h[i]] /\ \A i \in 1 .. k : h[i] = g[i]
      OBVIOUS
    <3> HIDE DEF h
    <3>5. \A i \in 1 .. k : h[i] = IF i = 1 THEN s[i] ELSE h[i-1] \o s[i]
      BY <2>3, <3>2, <3>3, <3>4
    <3>6. Flattens(s, h)
      BY <3>2, <3>4, <3>5 DEF Flattens
    <3>7. Concat(s) = h[k]
      BY <3>1, <3>2, <3>6, FlattenIs
    <3>8. k \in 1 .. k
      BY <3>1
    <3> QED BY <3>4, <3>7, <3>8 DEF s, Joint
  <2>5. ASSUME NEW k \in 1 .. n PROVE Joint(seqs, k) = Joint(seqs, k - 1) \o seqs[k]
    <3>1. CASE k = 1
      <4>1. Joint(seqs, k) = seqs[1] /\ seqs[1] \in Seq(S)
        BY <1>0, <2>3, <2>4, <3>1 DEF n
      <4>2. <<>> \o seqs[1] = seqs[1]
        BY <4>1
      <4>3. Joint(seqs, k - 1) = <<>>
        BY <1>1, <3>1
      <4> QED BY <3>1, <4>1, <4>2, <4>3
    <3>2. CASE k # 1
      <4>1. k - 1 \in 1 .. n
        BY <2>1, <3>2
      <4>2. Joint(seqs, k) = g[k] /\ Joint(seqs, k - 1) = g[k - 1]
        BY <2>4, <4>1
      <4> QED BY <2>3, <3>2, <4>2
    <3> QED BY <3>1, <3>2
  <2>6. ASSUME NEW k \in 0 .. n PROVE Joint(seqs, k) \in Seq(S)
    <3>0. <<>> \in Seq(S)
      OBVIOUS
    <3>1. CASE k = 0
      BY <1>1, <3>0, <3>1, Zenon
    <3>2. CASE k # 0
      <4>1. k \in 1 .. n
        BY <2>1, <3>2
      <4> QED BY <2>2, <2>4, <4>1
    <3> QED BY <3>1, <3>2
  <2> QED BY <1>1, <1>2, <2>5, <2>6 DEF n
<1> QED BY <1>3, <1>4

-----------------------------------------------------------------------------
(* The rows at given places.                                               *)

Mapped(rows, places) == [i \in 1 .. Len(places) |-> rows[places[i]]]

Counting(n) == [i \in 1 .. n |-> i]

\* 1, ..., n enumerates 1 .. n.
LEMMA CountingFacts ==
    ASSUME NEW n \in Nat
    PROVE /\ Counting(n) \in Seq(1 .. n) /\ Len(Counting(n)) = n
          /\ Enumerates(Counting(n), 1 .. n)
<1>1. Counting(n) \in [1 .. n -> 1 .. n] /\ \A i \in 1 .. n : Counting(n)[i] = i
  BY DEF Counting
<1>2. Counting(n) \in Seq(1 .. n) /\ Len(Counting(n)) = n
  BY <1>1
<1> QED BY <1>1, <1>2 DEF Enumerates

\* Taking rows by their places, one place after the other.
LEMMA MappedFacts ==
    ASSUME NEW S, NEW rows \in Seq(S), NEW p \in Seq(1 .. Len(rows)), NEW q \in Seq(1 .. Len(rows))
    PROVE /\ Mapped(rows, p) \in Seq(S) /\ Len(Mapped(rows, p)) = Len(p)
          /\ \A i \in 1 .. Len(p) : Mapped(rows, p)[i] = rows[p[i]]
          /\ Mapped(rows, p \o q) = Mapped(rows, p) \o Mapped(rows, q)
          /\ Mapped(rows, Counting(Len(rows))) = rows
          /\ Mapped(rows, <<>>) = <<>>
<1> DEFINE n == Len(rows)
<1>0. n \in Nat /\ \A i \in 1 .. n : rows[i] \in S
  OBVIOUS
<1>1. ASSUME NEW s \in Seq(1 .. n)
      PROVE Mapped(rows, s) \in Seq(S) /\ Len(Mapped(rows, s)) = Len(s)
            /\ \A i \in 1 .. Len(s) : Mapped(rows, s)[i] = rows[s[i]]
  <2>1. Len(s) \in Nat /\ \A i \in 1 .. Len(s) : s[i] \in 1 .. n
    OBVIOUS
  <2>2. Mapped(rows, s) \in [1 .. Len(s) -> S]
    BY <1>0, <2>1 DEF Mapped
  <2>3. \A i \in 1 .. Len(s) : Mapped(rows, s)[i] = rows[s[i]]
    BY DEF Mapped
  <2>4. Mapped(rows, s) \in Seq(S) /\ Len(Mapped(rows, s)) = Len(s)
    <3> DEFINE m == Mapped(rows, s)
               l == Len(s)
    <3>1. l \in Nat /\ m \in [1 .. l -> S]
      BY <2>1, <2>2
    <3> HIDE DEF m, l
    <3>2. m \in Seq(S) /\ Len(m) = l
      BY <3>1
    <3> QED BY <3>2 DEF m, l
  <2> QED BY <2>3, <2>4
<1>2. Mapped(rows, p \o q) = Mapped(rows, p) \o Mapped(rows, q)
  <2> DEFINE pq == p \o q
             mp == Mapped(rows, p)
             mq == Mapped(rows, q)
             m == Mapped(rows, pq)
             t == mp \o mq
  <2>1. /\ pq \in Seq(1 .. n) /\ Len(pq) = Len(p) + Len(q)
        /\ \A i \in 1 .. Len(p) : pq[i] = p[i]
        /\ \A i \in 1 .. Len(q) : pq[Len(p) + i] = q[i]
    <3> HIDE DEF n
    <3>1. p \in Seq(1 .. n) /\ q \in Seq(1 .. n)
      BY DEF n
    <3> QED BY ONLY <3>1
  <2>2. /\ mp \in Seq(S) /\ Len(mp) = Len(p) /\ \A i \in 1 .. Len(p) : mp[i] = rows[p[i]]
        /\ mq \in Seq(S) /\ Len(mq) = Len(q) /\ \A i \in 1 .. Len(q) : mq[i] = rows[q[i]]
    BY <1>1
  <2> HIDE DEF pq
  <2>3. m \in Seq(S) /\ Len(m) = Len(pq) /\ \A i \in 1 .. Len(pq) : m[i] = rows[pq[i]]
    BY <1>1, <2>1
  <2> HIDE DEF mp, mq, m
  <2>4. /\ t \in Seq(S) /\ Len(t) = Len(mp) + Len(mq)
        /\ \A i \in 1 .. Len(mp) : t[i] = mp[i]
        /\ \A i \in 1 .. Len(mq) : t[Len(mp) + i] = mq[i]
    <3>1. mp \in Seq(S) /\ mq \in Seq(S)
      BY <2>2
    <3> QED BY ONLY <3>1
  <2> HIDE DEF t, n
  <2>5. Len(p) \in Nat /\ Len(q) \in Nat
    OBVIOUS
  <2>6. ASSUME NEW i \in 1 .. Len(pq) PROVE m[i] = t[i]
    <3>1. CASE i <= Len(p)
      <4>1. i \in 1 .. Len(p)
        BY <2>1, <2>5, <3>1
      <4>2. m[i] = rows[p[i]]
        BY <2>1, <2>3, <4>1
      <4>3. t[i] = rows[p[i]]
        BY <2>2, <2>4, <4>1
      <4> QED BY <4>2, <4>3
    <3>2. CASE ~(i <= Len(p))
      <4> DEFINE j == i - Len(p)
      <4>1. j \in 1 .. Len(q) /\ i = Len(p) + j
        BY <2>1, <2>5, <3>2
      <4> HIDE DEF j
      <4>2. m[i] = rows[q[j]]
        BY <2>1, <2>3, <4>1
      <4>3. t[i] = rows[q[j]]
        BY <2>2, <2>4, <4>1
      <4> QED BY <4>2, <4>3
    <3> QED BY <3>1, <3>2
  <2>7. Len(m) = Len(t)
    BY <2>1, <2>2, <2>3, <2>4
  <2>8. m = t
    BY <2>3, <2>4, <2>6, <2>7, SeqEqual
  <2> QED BY <2>8 DEF m, t, mp, mq, pq
<1>3. Mapped(rows, Counting(n)) = rows
  <2>1. Counting(n) \in Seq(1 .. n) /\ Len(Counting(n)) = n
    BY <1>0, CountingFacts
  <2>2. /\ Mapped(rows, Counting(n)) \in Seq(S) /\ Len(Mapped(rows, Counting(n))) = n
        /\ \A i \in 1 .. n : Mapped(rows, Counting(n))[i] = rows[Counting(n)[i]]
    BY <1>1, <2>1
  <2>3. \A i \in 1 .. n : Counting(n)[i] = i
    BY DEF Counting
  <2> DEFINE m == Mapped(rows, Counting(n))
  <2>4. Len(m) = n /\ \A i \in 1 .. n : m[i] = rows[i]
    BY <2>2, <2>3
  <2>5. m \in Seq(S) /\ Len(m) = Len(rows)
    BY <2>2
  <2> HIDE DEF m
  <2>6. m = rows
    BY <2>4, <2>5, SeqEqual
  <2> QED BY <2>6 DEF m
<1>4. Mapped(rows, <<>>) = <<>>
  <2>1. <<>> \in Seq(1 .. n)
    OBVIOUS
  <2>2. Mapped(rows, <<>>) \in Seq(S) /\ Len(Mapped(rows, <<>>)) = 0
    BY <1>1, <2>1
  <2> QED BY <2>2
<1> QED BY <1>1, <1>2, <1>3, <1>4

\* A nonempty bounded set of numbers has its largest element.
LEMMA MaxIs ==
    ASSUME NEW T \in SUBSET Nat, T # {}, NEW b \in Nat, \A x \in T : x <= b
    PROVE Max(T) \in T /\ \A x \in T : x <= Max(T)
<1> DEFINE U == {y \in Nat : \A x \in T : x <= y}
<1>1. PICK y \in U : \A z \in U : y <= z
  BY Least
<1>2. y \in Nat /\ \A x \in T : x <= y
  OBVIOUS
<1>3. y \in T
  <2> SUFFICES ASSUME y \notin T PROVE FALSE
    OBVIOUS
  <2>1. \A x \in T : x \in Nat /\ x < y
    BY <1>2
  <2>2. y # 0
    <3>1. PICK x \in T : TRUE
      OBVIOUS
    <3>2. x \in Nat /\ x < y
      BY <2>1
    <3> QED BY <1>2, <3>2
  <2>3. y - 1 \in Nat /\ \A x \in T : x <= y - 1
    BY <1>2, <2>1, <2>2
  <2>4. y - 1 \in U
    BY <2>3
  <2> QED BY <1>1, <1>2, <2>4
<1>4. \E x \in T : \A z \in T : x >= z
  BY <1>2, <1>3
<1>5. Max(T) \in T /\ \A z \in T : Max(T) >= z
  BY <1>4 DEF Max
<1> QED BY <1>5

\* The elements of a concatenation of two sequences.
LEMMA Concatenation ==
    ASSUME NEW S, NEW s \in Seq(S), NEW t \in Seq(S)
    PROVE /\ s \o t \in Seq(S) /\ Len(s \o t) = Len(s) + Len(t)
          /\ \A i \in 1 .. Len(s) : (s \o t)[i] = s[i]
          /\ \A i \in 1 .. Len(t) : (s \o t)[Len(s) + i] = t[i]
OBVIOUS

\* The elements of a sequence of numbers have a bound.
LEMMA Bounded ==
    ASSUME NEW s \in Seq(Nat)
    PROVE \E g \in Nat : \A i \in 1 .. Len(s) : s[i] <= g
<1> DEFINE n == Len(s)
           T == {m \in Nat : m <= n => \E g \in Nat : \A i \in 1 .. m : s[i] <= g}
<1>1. n \in Nat /\ \A i \in 1 .. n : s[i] \in Nat
  OBVIOUS
<1> HIDE DEF n
<1>2. 0 \in T
  <2>1. \A i \in 1 .. 0 : s[i] <= 0
    OBVIOUS
  <2> QED BY <2>1
<1>3. ASSUME NEW m \in T PROVE m + 1 \in T
  <2>1. m \in Nat /\ m + 1 \in Nat
    OBVIOUS
  <2>2. SUFFICES ASSUME m + 1 <= n PROVE \E g \in Nat : \A i \in 1 .. m + 1 : s[i] <= g
    BY <2>1
  <2>3. m <= n /\ m + 1 \in 1 .. n
    BY <1>1, <2>1, <2>2
  <2>4. PICK g \in Nat : \A i \in 1 .. m : s[i] <= g
    BY <2>3
  <2>5. s[m + 1] \in Nat
    BY <1>1, <2>3
  <2> DEFINE h == g + s[m + 1]
  <2>6. h \in Nat /\ g <= h /\ s[m + 1] <= h
    BY <2>5
  <2>7. \A i \in 1 .. m + 1 : i \in 1 .. m \/ i = m + 1
    BY <2>1
  <2>8. \A i \in 1 .. m : s[i] \in Nat
    BY <1>1, <2>1, <2>3
  <2> HIDE DEF h
  <2>9. \A i \in 1 .. m + 1 : s[i] <= h
    BY <2>4, <2>6, <2>7, <2>8
  <2> QED BY <2>6, <2>9
<1>4. T = Nat
  <2>1. T \in SUBSET Nat
    OBVIOUS
  <2> HIDE DEF T
  <2> QED BY <1>2, <1>3, <2>1, NatSet
<1>5. n \in T
  <2> HIDE DEF T
  <2> QED BY <1>1, <1>4
<1> QED BY <1>1, <1>5 DEF n

-----------------------------------------------------------------------------
(* One rank's steps.                                                       *)

\* Sequences of fewer elements are sequences of more.
LEMMA SeqSubset ==
    ASSUME NEW T, NEW S \in SUBSET T
    PROVE Seq(S) \subseteq Seq(T)
<1> SUFFICES ASSUME NEW s \in Seq(S) PROVE s \in Seq(T)
  OBVIOUS
<1>1. Len(s) \in Nat /\ \A i \in 1 .. Len(s) : s[i] \in T
  OBVIOUS
<1> QED BY <1>1

\* The range of an enumeration.
LEMMA RangeIs ==
    ASSUME NEW A, NEW s, Enumerates(s, A)
    PROVE Range(s) = A
<1>1. s \in Seq(A) /\ DOMAIN s = 1 .. Len(s) /\ \A i \in 1 .. Len(s) : s[i] \in A
  BY DEF Enumerates
<1>2. \A a \in A : \E i \in 1 .. Len(s) : s[i] = a
  BY DEF Enumerates
<1> QED BY <1>1, <1>2 DEF Range
===============================================================================
