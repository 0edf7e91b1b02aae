------------------------- MODULE BatchDispatch_proofs -------------------------
(***************************************************************************)
(* Proofs about a batch on its way through the worker group, for every     *)
(* number of rows and ranks and every length: types, results at the place  *)
(* of their rows, every row in one update, ranks in step, and work that is *)
(* balanced.                                                               *)
(***************************************************************************)
EXTENDS BatchDispatch, SeqlenBalancing_proofs

-----------------------------------------------------------------------------
(* DataProto.split.                                                        *)

\* The last row of the m-th of the parts.
Until(n, size, m) == IF m * size < n THEN m * size ELSE n

\* The parts of DataProto.split, their sizes, and where they are cut.
LEMMA SplitParts ==
    ASSUME NEW S, NEW s \in Seq(S), NEW size \in Nat \ {0}
    PROVE LET n == Len(s)
              c == CeilDiv(n, size)
              t == Split(s, size)
          IN  /\ t \in Seq(Seq(S)) /\ Len(t) = c /\ c \in Nat
              /\ \A m \in 1 .. c :
                   /\ t[m] = SubSeq(s, ((m - 1) * size) + 1, Until(n, size, m))
                   /\ (m - 1) * size \in Nat /\ Until(n, size, m) \in Nat
                   /\ (m - 1) * size < Until(n, size, m) /\ Until(n, size, m) <= n
                   /\ Len(t[m]) = Until(n, size, m) - (m - 1) * size
                   /\ t[m] # <<>>
<1> DEFINE n == Len(s)
           c == CeilDiv(n, size)
           t == Split(s, size)
<1>1. n \in Nat
  OBVIOUS
<1>2. t = [m \in 1 .. c |-> SubSeq(s, ((m - 1) * size) + 1, Until(n, size, m))]
  BY DEF Split, Until
<1>3. c \in Nat /\ \A m \in 1 .. c : (m - 1) * size < n
  BY <1>1, CeilFacts
<1> HIDE DEF n, c, t
<1>4. ASSUME NEW m \in 1 .. c
      PROVE /\ t[m] \in Seq(S)
            /\ t[m] = SubSeq(s, ((m - 1) * size) + 1, Until(n, size, m))
            /\ (m - 1) * size \in Nat /\ Until(n, size, m) \in Nat
            /\ (m - 1) * size < Until(n, size, m) /\ Until(n, size, m) <= n
            /\ Len(t[m]) = Until(n, size, m) - (m - 1) * size
            /\ t[m] # <<>>
  <2> DEFINE a == (m - 1) * size
             b == m * size
             e == Until(n, size, m)
  <2>1. m - 1 \in Nat /\ m \in Nat
    BY <1>3
  <2>2. a \in Nat /\ b \in Nat /\ b = a + size
    <3>1. a \in Nat /\ b \in Nat
      BY <2>1, Multiple
    <3>2. m * size = (m - 1) * size + size
      BY <2>1
    <3> QED BY <3>1, <3>2
  <2>3. a < n
    BY <1>3
  <2>4. e = IF b < n THEN b ELSE n
    BY DEF Until
  <2>5. t[m] = SubSeq(s, a + 1, e)
    BY <1>2
  <2> HIDE DEF a, b, e
  <2>6. e \in Nat /\ a < e /\ e <= n
    BY <1>1, <2>2, <2>3, <2>4
  <2> DEFINE d == e - a
  <2>7. d \in Nat /\ d >= 1 /\ e = a + d /\ a + d <= n
    BY <2>2, <2>6
  <2> HIDE DEF d
  <2>8. t[m] \in Seq(S) /\ Len(t[m]) = d
    <3>1. SubSeq(s, a + 1, a + d) \in Seq(S) /\ Len(SubSeq(s, a + 1, a + d)) = d
      BY <2>2, <2>7, SliceFacts DEF n
    <3> QED BY <2>5, <2>7, <3>1
  <2>9. t[m] # <<>> /\ d = e - a
    BY <2>7, <2>8 DEF d
  <2> QED BY <2>2, <2>5, <2>6, <2>8, <2>9 DEF a, e
<1>5. t \in Seq(Seq(S)) /\ Len(t) = c
  <2>1. t \in [1 .. c -> Seq(S)]
    BY <1>2, <1>4
  <2> QED BY <1>3, <2>1
<1> QED BY <1>3, <1>4, <1>5 DEF n, c, t

\* The parts together are the batch.
LEMMA SplitTogether ==
    ASSUME NEW S, NEW s \in Seq(S), NEW size \in Nat \ {0}
    PROVE Concat(Split(s, size)) = s
<1> DEFINE n == Len(s)
           c == CeilDiv(n, size)
           t == Split(s, size)
           g == [m \in 1 .. c |-> SubSeq(s, 1, Until(n, size, m))]
<1>1. n \in Nat
  OBVIOUS
<1>2. /\ c \in Nat /\ n <= c * size /\ (n = 0 => c = 0) /\ (n # 0 => c >= 1)
      /\ \A m \in 1 .. c : (m - 1) * size < n
  BY <1>1, CeilFacts
<1>3. /\ t \in Seq(Seq(S)) /\ Len(t) = c
      /\ \A m \in 1 .. c :
           /\ t[m] = SubSeq(s, ((m - 1) * size) + 1, Until(n, size, m))
           /\ (m - 1) * size \in Nat /\ Until(n, size, m) \in Nat
           /\ (m - 1) * size < Until(n, size, m) /\ Until(n, size, m) <= n
  BY SplitParts
<1>4. n = Len(s)
  OBVIOUS
<1> HIDE DEF n, c, t
<1>5. CASE n = 0
  <2>0. c = 0 /\ Len(s) = 0
    BY <1>2, <1>4, <1>5
  <2>1. Len(t) = 0 /\ s = <<>>
    BY <1>3, <2>0
  <2>2. t = <<>>
    BY <1>3, <2>1
  <2>3. Concat(t) = t
    BY <2>1 DEF Concat, FlattenSeq
  <2> QED BY <2>1, <2>2, <2>3 DEF t
<1>6. CASE n # 0
  <2>1. c \in Nat \ {0}
    BY <1>2, <1>6
  <2>2. g[1] = t[1]
    <3>1. 1 \in 1 .. c /\ ((1 - 1) * size) + 1 = 1
      BY <2>1
    <3> QED BY <1>3, <3>1
  <2>3. ASSUME NEW i \in 1 .. c, i # 1
        PROVE g[i] = g[i-1] \o t[i]
    <3> DEFINE a == (i - 1) * size
               b == Until(n, size, i)
    <3>1. i - 1 \in 1 .. c /\ i \in Nat
      BY <2>1, <2>3
    <3>2. a \in Nat /\ b \in Nat /\ a < b /\ b <= n /\ t[i] = SubSeq(s, a + 1, b)
      BY <1>3
    <3>3. Until(n, size, i - 1) = a
      BY <1>2 DEF Until
    <3>4. g[i] = SubSeq(s, 1, b) /\ g[i-1] = SubSeq(s, 1, a)
      BY <3>1, <3>3
    <3> HIDE DEF a, b, g
    <3>5. SubSeq(s, 1, a) \o SubSeq(s, a + 1, b) = SubSeq(s, 1, b)
      BY <1>4, <3>2, ConcatAdjacentSubSeq
    <3> QED BY <3>2, <3>4, <3>5
  <2>4. g[c] = s
    <3> DEFINE q == c * size
    <3>1. c \in 1 .. c /\ n <= q /\ q \in Nat
      BY <1>2, <2>1, Multiple
    <3>2. Until(n, size, c) = IF q < n THEN q ELSE n
      BY DEF Until
    <3> HIDE DEF q
    <3>3. Until(n, size, c) = n
      BY <1>1, <3>1, <3>2
    <3>4. g[c] = SubSeq(s, 1, Len(s))
      BY <1>4, <3>1, <3>3
    <3> QED BY <3>4, SubSeqFull
  <2>5. DOMAIN g = 1 .. c /\ g = [i \in 1 .. c |-> g[i]]
    OBVIOUS
  <2> HIDE DEF g
  <2>6. Flattens(t, g)
    BY <1>3, <2>2, <2>3, <2>5 DEF Flattens
  <2>7. Concat(t) = g[c]
    BY <1>3, <2>1, <2>6, FlattenIs
  <2> QED BY <2>4, <2>7 DEF t
<1> QED BY <1>5, <1>6

\* The row numbers, split, are parted.
LEMMA SplitParted ==
    ASSUME NEW m \in Nat \ {0}, NEW size \in Nat \ {0}
    PROVE /\ Parted(Split(Counting(m), size), m, CeilDiv(m, size))
          /\ CeilDiv(m, size) \in Nat \ {0}
          /\ Concat(Split(Counting(m), size)) = Counting(m)
<1> DEFINE s == Counting(m)
           t == Split(s, size)
           c == CeilDiv(m, size)
<1>1. s \in Seq(1 .. m) /\ Len(s) = m /\ Enumerates(s, 1 .. m)
  BY CountingFacts
<1> HIDE DEF s
<1>2. t \in Seq(Seq(1 .. m)) /\ Len(t) = c /\ c \in Nat /\ \A i \in 1 .. c : t[i] # <<>>
  <2> DEFINE S == 1 .. m
  <2>1. s \in Seq(S) /\ Len(s) = m
    BY <1>1
  <2> HIDE DEF S
  <2>2. /\ t \in Seq(Seq(S)) /\ Len(t) = CeilDiv(Len(s), size) /\ CeilDiv(Len(s), size) \in Nat
        /\ \A i \in 1 .. CeilDiv(Len(s), size) : t[i] # <<>>
    BY <2>1, SplitParts
  <2> QED BY <2>1, <2>2 DEF S
<1>3. Concat(t) = s
  BY <1>1, SplitTogether
<1>4. c >= 1
  <2> HIDE DEF c
  <2> QED BY CeilFacts DEF c
<1> HIDE DEF t, c
<1>5. Parted(t, m, c)
  BY <1>1, <1>2, <1>3 DEF Parted
<1>6. c \in Nat \ {0}
  BY <1>2, <1>4
<1> QED BY <1>3, <1>5, <1>6 DEF s, t, c

-----------------------------------------------------------------------------
(* The ranks.                                                              *)

RankAssumption(D) ==
    /\ Ranks = 1 .. Len(DpRank) /\ Len(DpRank) \in Nat \ {0}
    /\ D \in Nat \ {0}
    /\ \A r \in Ranks : DpRank[r] \in 1 .. D
    /\ \A d \in 1 .. D : \E r \in Ranks : DpRank[r] = d /\ Collects[r]
    /\ \A q, r \in Ranks : q < r /\ Collects[q] /\ Collects[r] => DpRank[q] < DpRank[r]

\* What the assumption says of each constant.
LEMMA ConstantsAre ==
    /\ RankAssumption(DpSize)
    /\ {NumRows, MaxTokens, MiniSize, MicroSize, Hidden} \subseteq Nat \ {0}
    /\ \E c \in Nat \ {0} : NumRows = c * DpSize /\ NumRows \div DpSize = c
    /\ NumRows % DpSize = 0
    /\ Lengths \subseteq 1 .. MaxTokens
<1>1. DispatchAssumption
  BY DispatchAssumption
<1> DEFINE n == Len(DpRank)
           T == {DpRank[r] : r \in Ranks}
<1>2. DpRank \in Seq(Nat \ {0}) /\ DpRank # <<>>
  BY <1>1 DEF DispatchAssumption
<1>3. Ranks = 1 .. n /\ n \in Nat \ {0} /\ \A r \in Ranks : DpRank[r] \in Nat \ {0}
  BY <1>2 DEF Ranks
<1>4. PICK b \in Nat : \A i \in 1 .. Len(DpRank) : DpRank[i] <= b
  <2>1. DpRank \in Seq(Nat)
    BY <1>2
  <2> QED BY <2>1, Bounded
<1>5. T \in SUBSET Nat /\ T # {} /\ \A x \in T : x <= b /\ x # 0
  BY <1>3, <1>4
<1>6. DpSize = Max(T)
  BY DEF DpSize
<1>7. Max(T) \in T /\ \A x \in T : x <= Max(T)
  <2> HIDE DEF T
  <2> QED BY <1>5, MaxIs
<1> DEFINE D == DpSize
<1>8. D \in Nat \ {0} /\ \A r \in Ranks : DpRank[r] \in 1 .. D
  <2>1. \A r \in Ranks : DpRank[r] \in T
    OBVIOUS
  <2> HIDE DEF T, D
  <2>2. Max(T) = D
    BY <1>6 DEF D
  <2>3. D \in T /\ \A x \in T : x <= D
    BY <1>7, <2>2
  <2>4. D \in Nat \ {0}
    BY <1>5, <2>3
  <2> QED BY <1>3, <2>1, <2>3, <2>4
<1>9. RankAssumption(D)
  BY <1>1, <1>3, <1>8 DEF DispatchAssumption, RankAssumption
<1>10. {NumRows, MaxTokens, MiniSize, MicroSize, Hidden} \subseteq Nat \ {0} /\ Lengths \subseteq 1 .. MaxTokens
  BY <1>1 DEF DispatchAssumption
<1>11. NumRows % D = 0
  BY <1>1 DEF DispatchAssumption
<1> HIDE DEF D
<1>12. \E c \in Nat \ {0} : NumRows = c * D /\ NumRows \div D = c
  <2> DEFINE c == NumRows \div D
  <2>1. c \in Nat /\ NumRows = c * D + (NumRows % D)
    BY <1>8, <1>10, Divide
  <2>2. c * D \in Nat
    BY <1>8, <2>1, Multiple
  <2> DEFINE m == c * D
  <2>3. NumRows = m
    <3> HIDE DEF m, c
    <3>1. m \in Nat /\ NumRows = m + (NumRows % D)
      BY <2>1, <2>2 DEF m
    <3> QED BY <1>11, <3>1
  <2>4. c # 0
    <3>1. c = 0 => m = 0
      BY <1>8
    <3> QED BY <1>10, <2>3, <3>1
  <2> QED BY <2>1, <2>3, <2>4
<1> QED BY <1>9, <1>10, <1>11, <1>12 DEF D

\* What the collecting ranks return is the chunks in their order.
LEMMA KeptChunks ==
    ASSUME NEW D, RankAssumption(D), NEW S, NEW s \in Seq(S), Len(s) = D, NEW outs,
           outs = [r \in Ranks |-> s[DpRank[r]]]
    PROVE Kept(outs, {r \in Ranks : Collects[r]}) = s
<1> DEFINE n == Len(DpRank)
           C == {r \in Ranks : Collects[r]}
<1>1. /\ Ranks = 1 .. n /\ n \in Nat /\ D \in Nat /\ D # 0
      /\ \A r \in C : r \in 1 .. n /\ DpRank[r] \in 1 .. D
      /\ \A d \in 1 .. D : \E r \in C : DpRank[r] = d
      /\ \A q, r \in C : q < r => DpRank[q] < DpRank[r]
  BY DEF RankAssumption
<1>2. C \in SUBSET (1 .. n)
  BY <1>1
<1> DEFINE q == [d \in 1 .. D |-> CHOOSE r \in C : DpRank[r] = d]
<1>3. \A d \in 1 .. D : q[d] \in C /\ DpRank[q[d]] = d
  BY <1>1
<1> HIDE DEF q, n, C
<1>4. \A i, j \in C : DpRank[i] = DpRank[j] => i = j
  <2> TAKE i \in C, j \in C
  <2>1. i \in Int /\ j \in Int /\ DpRank[i] \in Int /\ DpRank[j] \in Int
    BY <1>1
  <2>2. (i < j => DpRank[i] < DpRank[j]) /\ (j < i => DpRank[j] < DpRank[i])
    BY <1>1
  <2> QED BY <2>1, <2>2
<1>5. \A k \in C : q[DpRank[k]] = k
  BY <1>1, <1>3, <1>4
<1>6. ASSUME NEW k \in C PROVE Cardinality(UpTo(C, k)) = DpRank[k]
  <2> DEFINE e == DpRank[k]
             t == [i \in 1 .. e |-> q[i]]
  <2>1. e \in 1 .. D /\ k \in Int
    BY <1>1
  <2>2. ASSUME NEW i \in 1 .. e PROVE q[i] \in UpTo(C, k)
    <3>1. i \in 1 .. D /\ i <= e /\ i \in Int
      BY <1>1, <2>1
    <3>2. q[i] \in C /\ DpRank[q[i]] = i /\ q[i] \in Int
      BY <1>1, <1>3, <3>1
    <3>3. k < q[i] => e < i
      BY <1>1, <3>2
    <3>4. q[i] <= k
      <4> HIDE DEF e
      <4> QED BY <1>1, <2>1, <3>1, <3>2, <3>3
    <3> QED BY <3>2, <3>4 DEF UpTo
  <2>3. ASSUME NEW j \in UpTo(C, k) PROVE DpRank[j] \in 1 .. e /\ q[DpRank[j]] = j
    <3>1. j \in C /\ j <= k /\ j \in Int /\ DpRank[j] \in 1 .. D
      BY <1>1 DEF UpTo
    <3>2. j < k => DpRank[j] < e
      BY <3>1, <1>1
    <3>3. j = k => DpRank[j] = e
      OBVIOUS
    <3>4. DpRank[j] \in 1 .. e
      <4> HIDE DEF e
      <4> QED BY <1>1, <2>1, <3>1, <3>2, <3>3
    <3> QED BY <1>5, <3>1, <3>4
  <2>4. \A i, j \in 1 .. e : q[i] = q[j] => i = j
    <3>1. \A i \in 1 .. e : i \in 1 .. D
      BY <1>1, <2>1
    <3> QED BY <1>3, <3>1
  <2> HIDE DEF e
  <2>5. t \in [1 .. e -> UpTo(C, k)] /\ \A i \in 1 .. e : t[i] = q[i]
    BY <2>2
  <2> HIDE DEF t
  <2>6. t \in Seq(UpTo(C, k)) /\ Len(t) = e
    BY <1>1, <2>1, <2>5
  <2>7. Enumerates(t, UpTo(C, k))
    BY <2>3, <2>4, <2>5, <2>6 DEF Enumerates
  <2> QED BY <2>6, <2>7, EnumSize DEF e
<1>7. Cardinality(C) = D
  <2>1. D \in 1 .. D
    BY <1>1
  <2>2. q[D] \in C /\ DpRank[q[D]] = D
    BY <1>3, <2>1
  <2>3. UpTo(C, q[D]) = C
    <3>1. ASSUME NEW j \in C PROVE j <= q[D]
      <4>1. q[D] < j => D < DpRank[j]
        BY <1>1, <2>2
      <4>2. DpRank[j] \in 1 .. D /\ j \in Int /\ q[D] \in Int
        BY <1>1, <2>2
      <4> QED BY <1>1, <4>1, <4>2
    <3> QED BY <3>1 DEF UpTo
  <2> QED BY <1>6, <2>2, <2>3
<1>8. Kept(outs, C) = [i \in 1 .. D |-> outs[CHOOSE k \in C : Cardinality(UpTo(C, k)) = i]]
  BY <1>7 DEF Kept, UpTo
<1>9. ASSUME NEW i \in 1 .. D
      PROVE outs[CHOOSE k \in C : Cardinality(UpTo(C, k)) = i] = s[i]
  <2> DEFINE k == CHOOSE k \in C : Cardinality(UpTo(C, k)) = i
  <2>1. q[i] \in C /\ Cardinality(UpTo(C, q[i])) = i
    BY <1>3, <1>6
  <2>2. k \in C /\ Cardinality(UpTo(C, k)) = i
    BY <2>1
  <2> HIDE DEF k
  <2>3. DpRank[k] = i /\ k \in Ranks
    BY <1>6, <2>2 DEF C
  <2>4. outs[k] = s[i]
    BY <2>3
  <2> QED BY <2>4 DEF k
<1>10. Kept(outs, C) = [i \in 1 .. D |-> s[i]]
  BY <1>8, <1>9
<1>11. [i \in 1 .. D |-> s[i]] = s
  OBVIOUS
<1> QED BY <1>10, <1>11 DEF C

-----------------------------------------------------------------------------
(* Dealing rows out.                                                       *)

Elements(t) == {t[i] : i \in 1 .. Len(t)}

\* The parts have different rows, and every row.
Dealt(parts, n, A) ==
    /\ EnumEach(parts, [m \in 1 .. n |-> Elements(parts[m])], n)
    /\ Apart([m \in 1 .. n |-> Elements(parts[m])], n)
    /\ AllOf([m \in 1 .. n |-> Elements(parts[m])], n) = A

\* DataProto.split deals out the rows: each to one part.
LEMMA SplitDeals ==
    ASSUME NEW A, NEW s, Enumerates(s, A), NEW size \in Nat \ {0}
    PROVE Dealt(Split(s, size), CeilDiv(Len(s), size), A)
<1> DEFINE n == Len(s)
           c == CeilDiv(n, size)
           t == Split(s, size)
           from(m) == (m - 1) * size
           P == [m \in 1 .. c |-> Elements(t[m])]
<1>1. s \in Seq(A) /\ n \in Nat
  BY DEF Enumerates
<1>2. /\ \A a \in A : \E i \in 1 .. n : s[i] = a
      /\ \A i, j \in 1 .. n : s[i] = s[j] => i = j
      /\ \A i \in 1 .. n : s[i] \in A
  BY DEF Enumerates
<1>3. /\ t \in Seq(Seq(A)) /\ Len(t) = c /\ c \in Nat
      /\ \A m \in 1 .. c :
           /\ t[m] = SubSeq(s, from(m) + 1, Until(n, size, m))
           /\ from(m) \in Nat /\ Until(n, size, m) \in Nat
           /\ from(m) < Until(n, size, m) /\ Until(n, size, m) <= n
           /\ Len(t[m]) = Until(n, size, m) - from(m)
  BY <1>1, SplitParts
<1>4. c \in Nat /\ n <= c * size
  BY <1>1, CeilFacts
<1> HIDE DEF c, t
<1>5. ASSUME NEW m \in 1 .. c
      PROVE /\ m \in Nat \ {0}
            /\ t[m] \in Seq(A) /\ Len(t[m]) \in Nat
            /\ \A j \in 1 .. Len(t[m]) :
                 j \in 1 .. size /\ from(m) + j \in 1 .. n /\ t[m][j] = s[from(m) + j]
            /\ \A j \in 1 .. size : from(m) + j <= n => j \in 1 .. Len(t[m])
  <2> DEFINE a == from(m)
             b == m * size
             e == Until(n, size, m)
             d == e - a
  <2>0. m \in Nat \ {0} /\ m - 1 \in Nat
    BY <1>4
  <2>1. a \in Nat /\ e \in Nat /\ a < e /\ e <= n /\ Len(t[m]) = e - a
    BY <1>3
  <2>2. b = a + size
    BY <2>0
  <2>3. e = IF b < n THEN b ELSE n
    BY DEF Until
  <2>4. t[m] \in Seq(A) /\ t[m] = SubSeq(s, a + 1, e)
    BY <1>3
  <2> HIDE DEF a, b, e
  <2>5. d \in Nat /\ e = a + d /\ a + d <= Len(s) /\ a \in Nat
    BY <2>1 DEF n
  <2> HIDE DEF d
  <2>6. \A j \in 1 .. d : SubSeq(s, a + 1, a + d)[j] = s[a + j]
    BY <1>1, <2>5, SliceFacts
  <2>7. Len(t[m]) = d
    BY <2>1 DEF d
  <2>8. \A j \in 1 .. d : j \in 1 .. size /\ a + j \in 1 .. n /\ t[m][j] = s[a + j]
    <3> TAKE j \in 1 .. d
    <3>1. t[m][j] = s[a + j]
      BY <2>4, <2>5, <2>6
    <3>2. j \in Nat /\ j >= 1 /\ j <= d
      BY <2>5
    <3>3. d <= size
      BY <1>1, <2>1, <2>2, <2>3, <2>5
    <3>4. a + j \in 1 .. n
      BY <1>1, <2>1, <2>5, <3>2
    <3>5. j \in 1 .. size
      BY <2>5, <3>2, <3>3
    <3> QED BY <3>1, <3>4, <3>5, Zenon
  <2>9. ASSUME NEW j \in 1 .. size, a + j <= n PROVE j \in 1 .. d
    BY <1>1, <2>1, <2>2, <2>3, <2>5, <2>9
  <2> QED BY <2>0, <2>4, <2>7, <2>8, <2>9, <2>5 DEF a
<1>6. ASSUME NEW m \in 1 .. c, NEW q \in 1 .. c, NEW i \in 1 .. Len(t[m]), NEW j \in 1 .. Len(t[q]),
             t[m][i] = t[q][j]
      PROVE m = q /\ i = j
  <2>1. /\ i \in 1 .. size /\ from(m) + i \in 1 .. n /\ t[m][i] = s[from(m) + i]
        /\ j \in 1 .. size /\ from(q) + j \in 1 .. n /\ t[q][j] = s[from(q) + j]
    BY <1>5
  <2>2. from(m) + i = from(q) + j
    BY <1>2, <1>6, <2>1
  <2>3. /\ ((((m - 1) * size + i) - 1) \div size) + 1 = m
        /\ ((((q - 1) * size + j) - 1) \div size) + 1 = q
    <3>1. i \in 1 .. size /\ j \in 1 .. size
      BY <2>1
    <3>2. (((m - 1) * size + i - 1) \div size) + 1 = m
      BY <1>4, <3>1, PlaceInBlock
    <3>3. (((q - 1) * size + j - 1) \div size) + 1 = q
      BY <1>4, <3>1, PlaceInBlock
    <3> QED BY <3>2, <3>3
  <2>4. m = q
    BY <2>2, <2>3
  <2>5. i = j
    <3> DEFINE a == from(m)
    <3>1. a \in Nat
      BY <1>3
    <3>2. a + i = a + j
      BY <2>2, <2>4
    <3> HIDE DEF a
    <3> QED BY <2>1, <3>1, <3>2
  <2> QED BY <2>4, <2>5
<1>7. ASSUME NEW m \in 1 .. c PROVE Enumerates(t[m], P[m])
  <2>1. t[m] \in Seq(A) /\ Len(t[m]) \in Nat /\ P[m] = Elements(t[m])
    BY <1>5
  <2> DEFINE u == t[m]
  <2>2. \A i, j \in 1 .. Len(u) : u[i] = u[j] => i = j
    BY <1>6
  <2>3. u \in Seq(A) /\ Len(u) \in Nat
    BY <2>1
  <2> HIDE DEF u
  <2>4. \A i \in 1 .. Len(u) : u[i] \in Elements(u)
    BY DEF Elements
  <2>5. \A a \in Elements(u) : \E i \in 1 .. Len(u) : u[i] = a
    BY DEF Elements
  <2>6. u \in Seq(Elements(u))
    BY <2>3, <2>4
  <2>7. Enumerates(u, Elements(u))
    BY <2>2, <2>5, <2>6 DEF Enumerates
  <2> QED BY <2>1, <2>7 DEF u
<1>8. EnumEach(t, P, c)
  BY <1>3, <1>7 DEF EnumEach
<1>9. Apart(P, c)
  <2> SUFFICES ASSUME NEW m \in 1 .. c, NEW q \in 1 .. c, m # q, NEW x \in P[m], x \in P[q]
               PROVE FALSE
    BY DEF Apart
  <2>1. PICK i \in 1 .. Len(t[m]) : t[m][i] = x
    BY DEF Elements
  <2>2. PICK j \in 1 .. Len(t[q]) : t[q][j] = x
    BY DEF Elements
  <2> QED BY <1>6, <2>1, <2>2
<1>10. AllOf(P, c) = A
  <2>1. AllOf(P, c) \subseteq A
    <3> SUFFICES ASSUME NEW m \in 1 .. c, NEW x \in P[m] PROVE x \in A
      BY DEF AllOf
    <3>1. PICK i \in 1 .. Len(t[m]) : t[m][i] = x
      BY DEF Elements
    <3> QED BY <1>5, <3>1
  <2>2. ASSUME NEW x \in A PROVE x \in AllOf(P, c)
    <3>1. PICK k \in 1 .. n : s[k] = x
      BY <1>2
    <3> DEFINE m == ((k - 1) \div size) + 1
               j == k - ((k - 1) \div size) * size
               l == c * size
    <3>2. k \in 1 .. l
      <4>1. n <= l /\ l \in Nat
        BY <1>4, Multiple
      <4> HIDE DEF l
      <4> QED BY <1>1, <4>1
    <3>3. m \in 1 .. c /\ j \in 1 .. size
      BY <1>4, <3>2, Block
    <3>4. from(m) + j = k
      <4> DEFINE w == (k - 1) \div size
                 z == w * size
      <4>1. w \in Nat /\ k \in Nat
        <5> DEFINE y == k - 1
        <5>1. y \in Nat /\ k \in Nat
          BY <1>1
        <5> HIDE DEF y
        <5>2. y \div size \in Nat
          BY <5>1, Divide
        <5> QED BY <5>1, <5>2 DEF y
      <4>2. from(m) = z /\ j = k - z /\ z \in Nat
        <5>1. m - 1 = w
          BY <4>1
        <5> QED BY <4>1, <5>1, Multiple
      <4> HIDE DEF z, w, m, j
      <4> QED BY <4>1, <4>2
    <3> HIDE DEF m, j
    <3>5. j \in 1 .. Len(t[m])
      BY <1>1, <1>5, <3>3, <3>4
    <3>6. t[m][j] = x
      BY <1>5, <3>1, <3>3, <3>4, <3>5
    <3>7. x \in P[m]
      BY <3>3, <3>5, <3>6 DEF Elements
    <3> QED BY <3>3, <3>7 DEF AllOf
  <2> QED BY <2>1, <2>2
<1> QED BY <1>8, <1>9, <1>10 DEF Dealt, c, t

EvenParts(s, n, c) == Len(s) = c * n /\ Len(s) \div n = c

\* Chunks of one size are the parts of a split of that size.
LEMMA ChunkIsSplit ==
    ASSUME NEW S, NEW s \in Seq(S), NEW n \in Nat \ {0}, NEW c \in Nat \ {0},
           EvenParts(s, n, c)
    PROVE /\ Chunk(s, n) = Split(s, c) /\ CeilDiv(Len(s), c) = n
          /\ \A d \in 1 .. n : Len(Chunk(s, n)[d]) = c /\ Chunk(s, n)[d] \in Seq(S)
<1> DEFINE l == Len(s)
           q == n * c
<1>1. l \in Nat /\ l = q /\ q \in Nat
  <2>1. c * n = n * c
    OBVIOUS
  <2>2. Len(s) = c * n
    BY DEF EvenParts
  <2> QED BY <2>1, <2>2, Multiple
<1>2. CeilDiv(l, c) = n
  <2> DEFINE z == c - 1
  <2>1. z \in 0 .. c - 1
    OBVIOUS
  <2>2. (n * c + z) \div c = n
    BY <2>1, Quotient
  <2>3. CeilDiv(l, c) = (l + c - 1) \div c
    BY DEF CeilDiv
  <2>4. l + c - 1 = n * c + z
    <3> HIDE DEF q, l
    <3>1. l + c - 1 = q + z
      BY <1>1
    <3> QED BY <3>1 DEF q
  <2> HIDE DEF z
  <2> QED BY <2>2, <2>3, <2>4
<1>3. ASSUME NEW m \in 1 .. n
      PROVE (IF m * c < l THEN m * c ELSE l) = m * c /\ (m - 1) * c \in Nat /\ m * c = (m - 1) * c + c /\ m * c <= l
  <2>1. m \in Nat /\ m <= n /\ m - 1 \in Nat
    OBVIOUS
  <2>2. m * c <= q /\ m * c \in Nat /\ (m - 1) * c \in Nat
    BY <2>1, Multiple
  <2>3. m * c = (m - 1) * c + c
    BY <2>1
  <2> DEFINE b == m * c
  <2> HIDE DEF q, l
  <2>4. b <= l /\ b \in Nat
    BY <1>1, <2>2
  <2>5. (IF b < l THEN b ELSE l) = b
    <3> HIDE DEF b
    <3> QED BY <1>1, <2>4
  <2> QED BY <2>2, <2>3, <2>4, <2>5
<1>4. Split(s, c) = [m \in 1 .. n |-> SubSeq(s, ((m - 1) * c) + 1, m * c)]
  <2>1. Split(s, c) = [m \in 1 .. n |-> SubSeq(s, ((m - 1) * c) + 1, IF m * c < l THEN m * c ELSE l)]
    BY <1>2 DEF Split
  <2> HIDE DEF l
  <2> QED BY <1>3, <2>1
<1>5. Chunk(s, n) = [m \in 1 .. n |-> SubSeq(s, (m - 1) * c + 1, m * c)]
  BY DEF Chunk, EvenParts
<1>6. Chunk(s, n) = Split(s, c)
  BY <1>4, <1>5
<1>7. ASSUME NEW d \in 1 .. n PROVE Len(Chunk(s, n)[d]) = c /\ Chunk(s, n)[d] \in Seq(S)
  <2> DEFINE a == (d - 1) * c
  <2>1. Chunk(s, n)[d] = SubSeq(s, a + 1, d * c)
    BY <1>5
  <2>2. a \in Nat /\ d * c = a + c /\ d * c <= l
    BY <1>3
  <2> HIDE DEF a
  <2>3. a + c <= Len(s)
    BY <2>2
  <2>4. SubSeq(s, a + 1, a + c) \in Seq(S) /\ Len(SubSeq(s, a + 1, a + c)) = c
    BY <2>2, <2>3, SliceFacts
  <2> QED BY <2>1, <2>2, <2>4
<1> QED BY <1>2, <1>6, <1>7

\* What chunk() makes of a batch that enumerates its rows.
LEMMA ChunksDealt ==
    ASSUME NEW A, NEW s, Enumerates(s, A), NEW n \in Nat \ {0}, NEW c \in Nat \ {0},
           EvenParts(s, n, c)
    PROVE /\ Dealt(Chunk(s, n), n, A)
          /\ \A d \in 1 .. n : /\ Len(Chunk(s, n)[d]) = c /\ Chunk(s, n)[d] \in Seq(A)
                               /\ Enumerates(Chunk(s, n)[d], Elements(Chunk(s, n)[d]))
                               /\ Elements(Chunk(s, n)[d]) \subseteq A
          /\ Concat(Chunk(s, n)) = s
          /\ Chunk(s, n) \in Seq(Seq(A)) /\ Len(Chunk(s, n)) = n
<1> DEFINE t == Chunk(s, n)
<1>1. s \in Seq(A)
  BY DEF Enumerates
<1>2. /\ t = Split(s, c) /\ CeilDiv(Len(s), c) = n
      /\ \A d \in 1 .. n : Len(t[d]) = c /\ t[d] \in Seq(A)
  <2>1. Chunk(s, n) = Split(s, c) /\ CeilDiv(Len(s), c) = n
    BY <1>1, ChunkIsSplit
  <2>2. \A d \in 1 .. n : Len(Chunk(s, n)[d]) = c /\ Chunk(s, n)[d] \in Seq(A)
    BY <1>1, ChunkIsSplit
  <2> QED BY <2>1, <2>2
<1> HIDE DEF t
<1>3. Dealt(t, n, A)
  BY <1>2, SplitDeals
<1>4. Concat(t) = s
  BY <1>1, <1>2, SplitTogether
<1>5. ASSUME NEW d \in 1 .. n
      PROVE Enumerates(t[d], Elements(t[d])) /\ Elements(t[d]) \subseteq A
  <2>1. Enumerates(t[d], Elements(t[d]))
    BY <1>3 DEF Dealt, EnumEach
  <2>2. Elements(t[d]) \subseteq A
    <3> DEFINE u == t[d]
    <3>1. u \in Seq(A)
      BY <1>2
    <3> HIDE DEF u
    <3>2. Elements(u) \subseteq A
      BY <3>1 DEF Elements
    <3> QED BY <3>2 DEF u
  <2> QED BY <2>1, <2>2
<1>6. t \in Seq(Seq(A)) /\ Len(t) = n
  BY <1>1, <1>2, SplitParts
<1> QED BY <1>2, <1>3, <1>4, <1>5, <1>6 DEF t

-----------------------------------------------------------------------------
(* _balance_batch.                                                         *)

Loads == [i \in RowSet |-> Workload(lens[i])]

LensOK == lens \in [RowSet -> Lengths]

\* The work of each row of the batch.
LEMMA LoadsAre ==
    ASSUME LensOK
    PROVE /\ Loads \in Seq(Nat) /\ Len(Loads) = NumRows
          /\ \A i \in RowSet : lens[i] \in Nat \ {0} /\ lens[i] \in Lengths
<1>1. NumRows \in Nat /\ Hidden \in Nat /\ Lengths \subseteq 1 .. MaxTokens /\ MaxTokens \in Nat
  BY ConstantsAre
<1>2. \A i \in RowSet : lens[i] \in Nat \ {0} /\ lens[i] \in Lengths
  <2> TAKE i \in RowSet
  <2>1. lens[i] \in Lengths
    BY DEF LensOK
  <2>2. lens[i] \in 1 .. MaxTokens
    BY <1>1, <2>1
  <2> QED BY <1>1, <2>1, <2>2
<1>3. Loads \in [1 .. NumRows -> Nat]
  BY <1>1, <1>2, WorkloadIs DEF Loads, RowSet
<1>4. Loads \in Seq(Nat) /\ Len(Loads) = NumRows
  BY <1>1, <1>3
<1> QED BY <1>2, <1>4

\* The work of rows is the load of their places.
LEMMA WorkIsLoad ==
    ASSUME LensOK, NEW A \in SUBSET RowSet, NEW rows, Enumerates(rows, A)
    PROVE Work(rows) = Load(Loads, A)
<1>1. rows \in Seq(A) /\ DOMAIN rows = 1 .. Len(rows) /\ \A i \in 1 .. Len(rows) : rows[i] \in RowSet
  BY DEF Enumerates
<1>2. Loads \in Seq(Nat) /\ Len(Loads) = NumRows
  BY LoadsAre
<1>3. A \in SUBSET (1 .. Len(Loads))
  BY <1>2 DEF RowSet
<1>4. Total([i \in 1 .. Len(rows) |-> Loads[rows[i]]]) = Load(Loads, A)
  BY <1>2, <1>3, TotalLoad
<1>5. [i \in DOMAIN rows |-> Workload(lens[rows[i]])] = [i \in 1 .. Len(rows) |-> Loads[rows[i]]]
  BY <1>1 DEF Loads
<1> QED BY <1>4, <1>5 DEF Work

\* A part with its small rows outside has the rows of the part.
LEMMA SmallOutsideIs ==
    ASSUME LensOK, NEW part \in Seq(RowSet), part # <<>>
    PROVE Rearranges(SmallOutside(part), part)
<1> DEFINE n == Len(part)
           keys == [i \in DOMAIN part |-> Workload(lens[part[i]])]
           sorted == Ordered(part, Ascending(keys))
<1>1. n \in Nat \ {0} /\ DOMAIN part = 1 .. n /\ \A i \in 1 .. n : part[i] \in RowSet
  OBVIOUS
<1>2. keys \in Seq(Int) /\ Len(keys) = n
  <2>1. Hidden \in Nat
    BY ConstantsAre
  <2>2. \A i \in 1 .. n : lens[part[i]] \in Nat
    BY <1>1, LoadsAre
  <2>3. \A i \in 1 .. n : Workload(lens[part[i]]) \in Int
    <3>1. \A i \in 1 .. n : Workload(lens[part[i]]) \in Nat
      BY <2>1, <2>2, WorkloadIs
    <3> QED BY <3>1
  <2>4. keys \in [1 .. n -> Int]
    BY <1>1, <2>3
  <2> HIDE DEF keys, n
  <2> QED BY <1>1, <2>4
<1> HIDE DEF keys
<1>3. IsOrder(Ascending(keys), n)
  BY <1>2, AscendingOrder
<1>4. Rearranges(EveryOther(sorted, 1) \o Reverse(EveryOther(sorted, 2)), part)
  BY <1>1, <1>3, PartsRearranged
<1> QED BY <1>4 DEF SmallOutside, keys

\* The gap between the largest and the smallest of DpSize neighbouring rows.
Gap(o) == Ordered(Loads, Ascending(Loads))[(o + 1) * DpSize] - Ordered(Loads, Ascending(Loads))[(o * DpSize) + 1]

Gaps == {Gap(o) : o \in 0 .. ((NumRows \div DpSize) - 1)}

\* The largest gap bounds every gap.
LEMMA GapsAre ==
    ASSUME LensOK
    PROVE Max(Gaps) \in Nat /\ GapsWithin(Loads, DpSize, Max(Gaps))
<1> DEFINE v == Loads
           n == NumRows
           w == Ordered(v, Ascending(v))
           D == DpSize
           pi == ByValue(v)
<1>1. v \in Seq(Nat) /\ Len(v) = n
  BY LoadsAre
<1>2. PICK c \in Nat \ {0} : n = c * D /\ n \div D = c
  BY ConstantsAre
<1>3. D \in Nat \ {0} /\ n \in Nat
  BY ConstantsAre DEF RankAssumption
<1>4. /\ Permutes(pi, n) /\ pi = Sorting(Ascending(v), n)
      /\ \A i, j \in 1 .. n : i < j => v[pi[i]] <= v[pi[j]]
  BY <1>1, ByValueFacts
<1>5. w = [i \in 1 .. n |-> v[pi[i]]]
  <2>1. v \in Seq(Int)
    BY <1>1
  <2>2. IsOrder(Ascending(v), n)
    BY <1>1, <2>1, AscendingOrder
  <2>3. Ordered(v, Ascending(v)) = [i \in 1 .. Len(v) |-> v[Sorting(Ascending(v), Len(v))[i]]]
    <3> DEFINE b == Ascending(v)
    <3> HIDE DEF v
    <3>1. v \in Seq(Nat) /\ IsOrder(b, Len(v))
      BY <1>1, <2>2
    <3> HIDE DEF b
    <3>2. Ordered(v, b) = [i \in 1 .. Len(v) |-> v[Sorting(b, Len(v))[i]]]
      BY <3>1, OrderedIs
    <3> QED BY <3>2 DEF b
  <2> QED BY <1>1, <1>4, <2>3
<1>6. \A i \in 1 .. n : pi[i] \in 1 .. n /\ v[pi[i]] \in Nat
  <2> TAKE i \in 1 .. n
  <2>1. pi[i] \in 1 .. n
    BY <1>4 DEF Permutes
  <2>2. \A j \in 1 .. n : v[j] \in Nat
    BY <1>1
  <2> QED BY <2>1, <2>2
<1>7. PICK b \in Nat : \A i \in 1 .. n : v[i] <= b
  BY <1>1, Bounded
<1> HIDE DEF v, n, w, D, pi
<1>8. ASSUME NEW o \in 0 .. c - 1
      PROVE /\ (o + 1) * D \in 1 .. n /\ (o * D) + 1 \in 1 .. n
            /\ Gap(o) = v[pi[(o + 1) * D]] - v[pi[(o * D) + 1]]
            /\ Gap(o) \in Nat /\ Gap(o) <= b
            /\ v[pi[(o + 1) * D]] \in Nat /\ v[pi[(o * D) + 1]] \in Nat
  <2> DEFINE x == (o + 1) * D
             y == (o * D) + 1
             z == o * D
  <2>0. o \in Nat /\ o + 1 <= c /\ o + 1 \in Nat
    BY <1>2
  <2>1. x \in Nat /\ z \in Nat /\ x <= c * D
    BY <1>3, <2>0, Multiple
  <2>2. x = z + D
    BY <1>3, <2>0
  <2>3. x <= n
    BY <1>2, <2>1
  <2>4. y = z + 1
    OBVIOUS
  <2> HIDE DEF x, y, z
  <2>5. x \in 1 .. n /\ y \in 1 .. n /\ y <= x
    BY <1>3, <2>1, <2>2, <2>3, <2>4
  <2>6. Gap(o) = w[x] - w[y]
    BY DEF Gap, w, v, D, x, y
  <2>7. w[x] = v[pi[x]] /\ w[y] = v[pi[y]]
    BY <1>5, <2>5
  <2>8. v[pi[y]] <= v[pi[x]]
    <3>1. CASE y = x
      BY <1>6, <2>5, <3>1
    <3>2. CASE y < x
      BY <1>4, <2>5, <3>2
    <3> QED BY <1>3, <2>5, <3>1, <3>2
  <2>9. v[pi[x]] \in Nat /\ v[pi[y]] \in Nat /\ v[pi[x]] <= b
    BY <1>6, <1>7, <2>5
  <2> DEFINE f == v[pi[x]]
             g == v[pi[y]]
  <2>10. f \in Nat /\ g \in Nat /\ f <= b /\ g <= f /\ Gap(o) = f - g
    BY <2>6, <2>7, <2>8, <2>9
  <2> HIDE DEF f, g
  <2>11. Gap(o) \in Nat /\ Gap(o) <= b
    BY <1>7, <2>10
  <2> QED BY <2>5, <2>6, <2>7, <2>9, <2>11 DEF x, y
<1>9. Gaps = {Gap(o) : o \in 0 .. c - 1}
  BY <1>2 DEF Gaps, n, D
<1>10. Gaps \in SUBSET Nat /\ Gaps # {} /\ \A x \in Gaps : x <= b
  <2>1. 0 \in 0 .. c - 1
    BY <1>2
  <2> QED BY <1>8, <1>9, <2>1
<1> DEFINE g == Max(Gaps)
<1>11. g \in Gaps /\ \A x \in Gaps : x <= g
  BY <1>10, MaxIs
<1>12. g \in Nat
  BY <1>10, <1>11
<1>13. ASSUME NEW o \in 0 .. c - 1 PROVE v[pi[(o + 1) * D]] <= v[pi[(o * D) + 1]] + g
  <2> DEFINE x == v[pi[(o + 1) * D]]
             y == v[pi[(o * D) + 1]]
  <2>1. x \in Nat /\ y \in Nat /\ Gap(o) = x - y
    BY <1>8
  <2>2. Gap(o) <= g
    BY <1>9, <1>11
  <2> HIDE DEF x, y, g
  <2>3. x <= y + g
    BY <1>12, <2>1, <2>2
  <2> QED BY <2>3 DEF x, y
<1>14. GapsWithin(v, D, g)
  <2>1. Len(v) \div D = c
    BY <1>1, <1>2
  <2> QED BY <1>13, <2>1 DEF GapsWithin, pi
<1> QED BY <1>12, <1>14 DEF v, D

Reordered == FlattenSeq([p \in 1 .. DpSize |-> SmallOutside(Partitions(Loads, DpSize, TRUE)[p])])

\* The data parallel ranks have work that differs by no more than the gaps.
EvenWork(rows) ==
    \A p, q \in 1 .. DpSize : Work(Chunk(rows, DpSize)[p]) <= Work(Chunk(rows, DpSize)[q]) + Max(Gaps)

\* Sequences of the same length, one after the other, chunk into themselves.
LEMMA ChunkOfBlocks ==
    ASSUME NEW S, NEW n \in Nat \ {0}, NEW c \in Nat \ {0}, NEW seqs, Blocks(seqs, S, n, c),
           EvenParts(Concat(seqs), n, c)
    PROVE \A p \in 1 .. n : Chunk(Concat(seqs), n)[p] = seqs[p]
<1> DEFINE t == Concat(seqs)
<1>1. /\ t \in Seq(S) /\ Len(t) = n * c
      /\ \A b \in 1 .. n : \A j \in 1 .. c : t[(b - 1) * c + j] = seqs[b][j]
  <2>1. Joins(Concat(seqs), seqs, S, n, c)
    BY ConcatBlocks
  <2> QED BY <2>1 DEF Joins
<1> HIDE DEF t
<1>2. ASSUME NEW p \in 1 .. n PROVE Chunk(t, n)[p] = seqs[p]
  <2> DEFINE a == (p - 1) * c
             u == SubSeq(t, a + 1, a + c)
  <2>0. p \in Nat /\ p - 1 \in Nat /\ p <= n
    OBVIOUS
  <2>1. a \in Nat /\ p * c <= n * c /\ p * c = a + c
    <3>1. p * c = (p - 1) * c + c
      BY <2>0
    <3> QED BY <2>0, <3>1, Multiple
  <2>2. Chunk(t, n)[p] = SubSeq(t, a + 1, p * c)
    <3>1. Len(t) \div n = c
      BY DEF EvenParts, t
    <3> QED BY <3>1 DEF Chunk
  <2>3. \A j \in 1 .. c : t[a + j] = seqs[p][j]
    BY <1>1
  <2> HIDE DEF a
  <2>4. a + c <= Len(t)
    BY <1>1, <2>1
  <2>5. u \in Seq(S) /\ Len(u) = c /\ \A j \in 1 .. c : u[j] = t[a + j]
    <3>1. t \in Seq(S) /\ a \in Nat /\ c \in Nat
      BY <1>1, <2>1
    <3> QED BY <2>4, <3>1, SliceFacts
  <2>6. seqs[p] \in Seq(S) /\ Len(seqs[p]) = c
    BY DEF Blocks
  <2>7. Chunk(t, n)[p] = u
    BY <2>1, <2>2
  <2> HIDE DEF u
  <2>8. \A j \in 1 .. Len(u) : u[j] = seqs[p][j]
    BY <2>3, <2>5
  <2>9. u = seqs[p]
    BY <2>5, <2>6, <2>8, SeqEqual
  <2> QED BY <2>7, <2>9
<1> QED BY <1>2 DEF t

\* _balance_batch reorders the rows, and balances the ranks.
LEMMA ReorderedIs ==
    ASSUME LensOK
    PROVE Enumerates(Reordered, RowSet) /\ EvenWork(Reordered)
<1> DEFINE v == Loads
           n == NumRows
           D == DpSize
           g == Max(Gaps)
           parts == Partitions(v, D, TRUE)
           so == [p \in 1 .. D |-> SmallOutside(parts[p])]
<1>1. v \in Seq(Nat) /\ Len(v) = n /\ RowSet = 1 .. n
  BY LoadsAre DEF RowSet
<1>2. D \in Nat \ {0} /\ n \in Nat \ {0} /\ n % D = 0
  BY ConstantsAre DEF RankAssumption
<1>3. PICK c \in Nat \ {0} : n = c * D /\ n \div D = c
  BY ConstantsAre
<1>4. g \in Nat /\ GapsWithin(v, D, g)
  BY GapsAre
<1>5. Len(v) # 0 /\ Len(v) % D = 0 /\ Len(v) \div D = c
  BY <1>1, <1>2, <1>3
<1>6. Reordered = Concat(so)
  BY DEF Reordered, Concat
<1> HIDE DEF v, n, D, g
<1>7. PICK A : /\ IsParted(parts, A, Len(v), D)
               /\ \A p \in 1 .. D : Len(parts[p]) = Len(v) \div D
               /\ \A p, q \in 1 .. D : Load(v, A[p]) <= Load(v, A[q]) + g
  BY <1>1, <1>2, <1>4, <1>5, PartitionsEqual
<1> HIDE DEF parts
<1>8. /\ EnumEach(parts, A, D) /\ Apart(A, D) /\ AllOf(A, D) = RowSet
      /\ parts \in Seq(Seq(RowSet)) /\ Len(parts) = D
  BY <1>1, <1>7 DEF IsParted, EnumEach
<1>9. ASSUME NEW p \in 1 .. D
      PROVE /\ Enumerates(so[p], A[p]) /\ A[p] \in SUBSET RowSet
            /\ so[p] \in Seq(RowSet) /\ Len(so[p]) = c
  <2>1. parts[p] \in Seq(RowSet) /\ Len(parts[p]) = c /\ Enumerates(parts[p], A[p])
    BY <1>5, <1>7, <1>8 DEF EnumEach
  <2>2. parts[p] # <<>>
    BY <1>3, <2>1
  <2>3. Rearranges(so[p], parts[p])
    <3>1. so[p] = SmallOutside(parts[p])
      OBVIOUS
    <3> QED BY <2>1, <2>2, <3>1, SmallOutsideIs
  <2> HIDE DEF so
  <2>4. Enumerates(so[p], A[p])
    BY <2>1, <2>3, EnumRearranged
  <2>5. so[p] \in Seq(RowSet) /\ Len(so[p]) = c
    BY <2>1, <2>3, RearrangedType
  <2>6. A[p] \subseteq AllOf(A, D)
    BY DEF AllOf
  <2> QED BY <1>8, <2>4, <2>5, <2>6
<1>10. Len(so) = D
  BY <1>2
<1> HIDE DEF so
<1>11. Enumerates(Concat(so), RowSet)
  <2>1. EnumEach(so, A, D)
    BY <1>9, <1>10 DEF EnumEach
  <2>2. Enumerates(Concat(so), AllOf(A, D))
    BY <1>2, <1>8, <2>1, EnumConcat
  <2> QED BY <1>8, <2>2
<1>12. Blocks(so, RowSet, D, c)
  BY <1>9, <1>10 DEF Blocks
<1>13. EvenParts(Concat(so), D, c)
  <2>1. Len(Concat(so)) = D * c
    <3>1. Joins(Concat(so), so, RowSet, D, c)
      BY <1>2, <1>12, ConcatBlocks
    <3> QED BY <3>1 DEF Joins
  <2>2. D * c = c * D
    BY <1>2
  <2>3. Len(Concat(so)) = n
    BY <1>3, <2>1, <2>2
  <2> QED BY <1>3, <2>3 DEF EvenParts
<1>14. \A p \in 1 .. D : Chunk(Concat(so), D)[p] = so[p]
  BY <1>2, <1>12, <1>13, ChunkOfBlocks
<1>15. \A p \in 1 .. D : Work(so[p]) = Load(v, A[p])
  BY <1>9, WorkIsLoad DEF v
<1>16. ASSUME NEW p \in 1 .. D, NEW q \in 1 .. D
       PROVE Work(Chunk(Concat(so), D)[p]) <= Work(Chunk(Concat(so), D)[q]) + g
  <2>1. Work(Chunk(Concat(so), D)[p]) = Load(v, A[p]) /\ Work(Chunk(Concat(so), D)[q]) = Load(v, A[q])
    BY <1>14, <1>15
  <2> QED BY <1>7, <2>1
<1> QED BY <1>6, <1>11, <1>16 DEF EvenWork, D, g

-----------------------------------------------------------------------------
(* A rank on its way through the micro-batches of a mini-batch.            *)

\* The first k of the lists are through: left is the others, out the rows of
\* the ones that are through.
CutAt(lists, left, out, rows, k) ==
    /\ Parted(lists, Len(rows), Len(lists))
    /\ k \in 0 .. Len(lists)
    /\ left = SubSeq(lists, k + 1, Len(lists))
    /\ out = Mapped(rows, Joint(lists, k))

\* A mini-batch cut up, none of it computed yet.
LEMMA CutStart ==
    ASSUME NEW S, NEW rows \in Seq(S), NEW n \in Nat \ {0}, NEW lists, Parted(lists, Len(rows), n)
    PROVE CutAt(lists, lists, <<>>, rows, 0) /\ Len(lists) = n
<1>1. lists \in Seq(Seq(1 .. Len(rows))) /\ Len(lists) = n
  BY DEF Parted
<1>2. lists = SubSeq(lists, 0 + 1, Len(lists))
  <2>1. 0 + 1 = 1
    OBVIOUS
  <2>2. SubSeq(lists, 1, Len(lists)) = lists
    BY <1>1, SubSeqFull
  <2> QED BY <2>1, <2>2
<1>3. <<>> = Mapped(rows, Joint(lists, 0))
  <2>1. Joint(lists, 0) = <<>>
    BY <1>1, JointFacts
  <2>2. <<>> \in Seq(1 .. Len(rows))
    OBVIOUS
  <2>3. Mapped(rows, <<>>) = <<>>
    BY <2>2, MappedFacts
  <2> QED BY <2>1, <2>3
<1>4. 0 \in 0 .. Len(lists)
  BY <1>1
<1> QED BY <1>1, <1>2, <1>3, <1>4 DEF CutAt

\* The rows of a mini-batch cut up.
LEMMA CutLength ==
    ASSUME NEW lists, NEW left, NEW out, NEW rows, NEW k, CutAt(lists, left, out, rows, k)
    PROVE /\ lists \in Seq(Seq(1 .. Len(rows))) /\ Len(lists) \in Nat /\ k \in 0 .. Len(lists)
          /\ left \in Seq(Seq(1 .. Len(rows))) /\ Len(left) = Len(lists) - k
<1> DEFINE n == Len(lists)
<1>1. lists \in Seq(Seq(1 .. Len(rows))) /\ n \in Nat /\ k \in 0 .. n /\ left = SubSeq(lists, k + 1, n)
  BY DEF CutAt, Parted
<1> DEFINE d == n - k
<1>2. d \in Nat /\ k + d = n /\ k \in Nat
  BY <1>1
<1>3. n = Len(lists)
  OBVIOUS
<1> HIDE DEF n, d
<1>4. SubSeq(lists, k + 1, k + d) \in Seq(Seq(1 .. Len(rows))) /\ Len(SubSeq(lists, k + 1, k + d)) = d
  <2>1. k + d <= Len(lists)
    BY <1>1, <1>2, <1>3
  <2> DEFINE T == Seq(1 .. Len(rows))
  <2>2. lists \in Seq(T)
    BY <1>1
  <2> HIDE DEF T
  <2>3. SubSeq(lists, k + 1, k + d) \in Seq(T) /\ Len(SubSeq(lists, k + 1, k + d)) = d
    BY <1>2, <2>1, <2>2, SliceFacts
  <2> QED BY <2>3 DEF T
<1> QED BY <1>1, <1>2, <1>3, <1>4 DEF d

\* One micro-batch more is computed.
LEMMA CutStep ==
    ASSUME NEW S, NEW rows \in Seq(S), NEW lists, NEW left, NEW out, NEW k,
           CutAt(lists, left, out, rows, k), left # <<>>
    PROVE /\ CutAt(lists, Tail(left), out \o Mapped(rows, Head(left)), rows, k + 1)
          /\ Head(left) \in Seq(1 .. Len(rows))
          /\ Len(Tail(left)) = Len(left) - 1
          /\ out \o Mapped(rows, Head(left)) \in Seq(S)
<1> DEFINE n == Len(lists)
           T == Seq(1 .. Len(rows))
<1>1. /\ lists \in Seq(T) /\ n \in Nat /\ k \in 0 .. n
      /\ left \in Seq(T) /\ Len(left) = n - k
  BY CutLength
<1>2. left = SubSeq(lists, k + 1, n) /\ out = Mapped(rows, Joint(lists, k)) /\ Parted(lists, Len(rows), n)
  BY DEF CutAt
<1>3. n = Len(lists)
  OBVIOUS
<1> HIDE DEF n, T
<1>4. k + 1 \in 1 .. n /\ n \in k + 1 .. n /\ k \in 0 .. n /\ (k + 1) - 1 = k
  <2>1. Len(left) # 0
    BY <1>1
  <2> QED BY <1>1, <2>1
<1>5. Head(left) = lists[k + 1] /\ Tail(left) = SubSeq(lists, (k + 1) + 1, n)
  BY <1>1, <1>2, <1>3, <1>4, HeadTailOfSubSeq
<1>6. lists[k + 1] \in T
  BY <1>1, <1>3, <1>4
<1>7. Joint(lists, k + 1) = Joint(lists, k) \o lists[k + 1] /\ Joint(lists, k) \in T
  <2>1. lists \in Seq(Seq(1 .. Len(rows)))
    BY <1>1 DEF T
  <2>2. Joint(lists, k + 1) = Joint(lists, (k + 1) - 1) \o lists[k + 1]
    BY <1>3, <1>4, <2>1, JointFacts
  <2>3. Joint(lists, k) \in Seq(1 .. Len(rows))
    BY <1>3, <1>4, <2>1, JointFacts
  <2> QED BY <1>4, <2>2, <2>3 DEF T
<1>8. Mapped(rows, Joint(lists, k + 1)) = out \o Mapped(rows, Head(left))
  <2> DEFINE p == Joint(lists, k)
             q == lists[k + 1]
  <2>1. p \in Seq(1 .. Len(rows)) /\ q \in Seq(1 .. Len(rows))
    BY <1>6, <1>7 DEF T
  <2> HIDE DEF p, q
  <2>2. Mapped(rows, p \o q) = Mapped(rows, p) \o Mapped(rows, q)
    BY <2>1, MappedFacts
  <2> QED BY <1>2, <1>5, <1>7, <2>2 DEF p, q
<1>9. Len(Tail(left)) = Len(left) - 1
  BY <1>1
<1>10. out \o Mapped(rows, Head(left)) \in Seq(S)
  <2>1. Joint(lists, k + 1) \in Seq(1 .. Len(rows))
    <3>1. lists \in Seq(Seq(1 .. Len(rows))) /\ k + 1 \in 0 .. Len(lists)
      BY <1>1, <1>3, <1>4 DEF T
    <3> QED BY <3>1, JointFacts
  <2>2. Mapped(rows, Joint(lists, k + 1)) \in Seq(S)
    BY <2>1, MappedFacts
  <2> QED BY <1>8, <2>2
<1>11. k + 1 \in 0 .. n
  BY <1>1, <1>4
<1> QED BY <1>2, <1>3, <1>5, <1>6, <1>8, <1>9, <1>10, <1>11 DEF CutAt, T

\* The rows at the places of an enumeration.
LEMMA EnumMapped ==
    ASSUME NEW A, NEW rows, Enumerates(rows, A), NEW p, Enumerates(p, 1 .. Len(rows))
    PROVE Enumerates(Mapped(rows, p), A)
<1> DEFINE n == Len(rows)
           t == Mapped(rows, p)
<1>1. /\ rows \in Seq(A) /\ p \in Seq(1 .. n) /\ Len(p) \in Nat /\ n \in Nat
      /\ \A i, j \in 1 .. n : rows[i] = rows[j] => i = j
      /\ \A a \in A : \E i \in 1 .. n : rows[i] = a
      /\ \A i, j \in 1 .. Len(p) : p[i] = p[j] => i = j
      /\ \A a \in 1 .. n : \E i \in 1 .. Len(p) : p[i] = a
      /\ \A i \in 1 .. Len(p) : p[i] \in 1 .. n
  <2>1. /\ rows \in Seq(A)
        /\ \A i, j \in 1 .. n : rows[i] = rows[j] => i = j
        /\ \A a \in A : \E i \in 1 .. n : rows[i] = a
    BY Zenon DEF Enumerates
  <2>2. /\ p \in Seq(1 .. n)
        /\ \A i, j \in 1 .. Len(p) : p[i] = p[j] => i = j
        /\ \A a \in 1 .. n : \E i \in 1 .. Len(p) : p[i] = a
    BY Zenon DEF Enumerates
  <2>3. n \in Nat
    BY <2>1
  <2> HIDE DEF n
  <2>4. Len(p) \in Nat /\ \A i \in 1 .. Len(p) : p[i] \in 1 .. n
    <3> DEFINE T == 1 .. n
    <3>1. p \in Seq(T)
      BY <2>2
    <3> HIDE DEF T
    <3>2. Len(p) \in Nat /\ \A i \in 1 .. Len(p) : p[i] \in T
      BY ONLY <3>1
    <3> QED BY <3>2 DEF T
  <2> QED BY <2>1, <2>2, <2>3, <2>4
<1>2. t \in Seq(A) /\ Len(t) = Len(p) /\ \A i \in 1 .. Len(p) : t[i] = rows[p[i]]
  BY <1>1, MappedFacts
<1> HIDE DEF n, t
<1>3. ASSUME NEW i \in 1 .. Len(t), NEW j \in 1 .. Len(t), t[i] = t[j] PROVE i = j
  <2>1. i \in 1 .. Len(p) /\ j \in 1 .. Len(p)
    BY <1>2
  <2>2. rows[p[i]] = rows[p[j]] /\ p[i] \in 1 .. n /\ p[j] \in 1 .. n
    BY <1>1, <1>2, <1>3, <2>1
  <2>3. \A x, y \in 1 .. n : rows[x] = rows[y] => x = y
    BY <1>1
  <2>4. p[i] = p[j]
    BY <2>2, <2>3, Zenon
  <2>5. \A x, y \in 1 .. Len(p) : p[x] = p[y] => x = y
    BY <1>1
  <2> QED BY <2>1, <2>4, <2>5, Zenon
<1>4. \A a \in A : \E i \in 1 .. Len(t) : t[i] = a
  <2> TAKE a \in A
  <2>1. PICK i \in 1 .. n : rows[i] = a
    BY <1>1
  <2>2. PICK j \in 1 .. Len(p) : p[j] = i
    BY <1>1
  <2>3. j \in 1 .. Len(t) /\ t[j] = a
    BY <1>2, <2>1, <2>2
  <2> QED BY <2>3
<1>5. Enumerates(t, A)
  BY <1>2, <1>3, <1>4 DEF Enumerates
<1> QED BY <1>5 DEF t

\* When nothing is left the rows have been through once, in the order of the
\* lists, and putting them back gives the rows.
LEMMA CutEnd ==
    ASSUME NEW A, NEW rows, Enumerates(rows, A), NEW lists, NEW out, NEW k,
           CutAt(lists, <<>>, out, rows, k)
    PROVE /\ Enumerates(out, A) /\ Restored(out, lists) = rows
          /\ \A size \in Nat \ {0} : Len(rows) # 0 /\ lists = Split(Counting(Len(rows)), size) => out = rows
<1> DEFINE n == Len(lists)
<1>1. /\ lists \in Seq(Seq(1 .. Len(rows))) /\ n \in Nat /\ k \in 0 .. n /\ Len(<<>>) = n - k
  BY CutLength
<1>2. k = n
  <2>1. n - k = 0
    BY <1>1
  <2> QED BY <1>1, <2>1
<1>3. Joint(lists, n) = Concat(lists)
  BY <1>1, JointFacts
<1>4. out = Mapped(rows, Concat(lists)) /\ Enumerates(Concat(lists), 1 .. Len(rows))
  BY <1>2, <1>3 DEF CutAt, Parted
<1>5. rows \in Seq(A)
  BY DEF Enumerates
<1>6. Enumerates(out, A)
  BY <1>4, EnumMapped
<1>7. Restored(out, lists) = rows
  BY <1>4, <1>5, RestoredFacts
<1>8. ASSUME NEW size \in Nat \ {0}, Len(rows) # 0, lists = Split(Counting(Len(rows)), size) PROVE out = rows
  <2> DEFINE m == Len(rows)
  <2>1. m \in Nat \ {0}
    BY <1>5, <1>8
  <2> HIDE DEF m
  <2>2. Concat(Split(Counting(m), size)) = Counting(m)
    BY <2>1, SplitParted
  <2>3. Concat(lists) = Counting(Len(rows))
    BY <1>8, <2>2 DEF m
  <2>4. Mapped(rows, Counting(Len(rows))) = rows
    <3>1. <<>> \in Seq(1 .. Len(rows))
      OBVIOUS
    <3> QED BY <1>5, <3>1, MappedFacts
  <2> QED BY <1>4, <2>3, <2>4
<1> QED BY <1>6, <1>7, <1>8

-----------------------------------------------------------------------------
(* The inductive invariant.                                                *)

RankRec == [at : {"count", "reduce", "forward", "mini", "done"}, mini : Nat, number : Nat,
            lists : Seq(Seq(Nat)), left : Seq(Seq(Nat)), out : Seq(RowSet)]

Fresh(x) == x.lists = <<>> /\ x.left = <<>> /\ x.out = <<>>

NoneEmpty(lists) == \A i \in 1 .. Len(lists) : lists[i] # <<>>

LensIn(ls, rows) == [i \in DOMAIN rows |-> ls[rows[i]]]

\* The rank has made the micro-batches of these rows.
InMini(x, rows, dyn) ==
    /\ \E k : CutAt(x.lists, x.left, x.out, rows, k)
    /\ ~dyn => x.lists = Split(Counting(Len(rows)), MicroSize)

RankState(x, minis, ls, dyn, now) ==
    /\ x \in RankRec /\ x.mini \in 1 .. Len(minis) /\ x.number \in 0 .. NumRows
    /\ x.at = "count" => Fresh(x)
    /\ x.at = "reduce" => dyn /\ Fresh(x) /\ x.number = OwnNumber(LensIn(ls, minis[x.mini]), MaxTokens)
    /\ x.at \in {"forward", "mini"} => InMini(x, minis[x.mini], dyn)
    /\ x.at = "forward" => x.left # <<>>
    /\ x.at = "mini" => x.left = <<>>
    /\ x.at = "done" => /\ x.mini = Len(minis) /\ NoneEmpty(x.lists)
                        /\ now = "log_prob" => x.out = minis[x.mini]
    /\ now \in {"new", "over"} => x.at = "count" /\ x.mini = 1

\* The mini-batches the rank was updated with.
TrainedState(t, x, parts, now) ==
    /\ t \in Seq(Seq(RowSet))
    /\ Len(t) = IF now = "over" THEN Len(parts)
                ELSE IF now = "update" THEN (IF x.at = "done" THEN x.mini ELSE x.mini - 1) ELSE 0
    /\ \A m \in 1 .. Len(t) : Enumerates(t[m], Elements(parts[m]))

\* The mini-batch whose collectives the rank comes to next.
Turn(x) == IF x.at \in {"mini", "done"} THEN x.mini + 1 ELSE x.mini

Together(x, y, dyn) ==
    /\ Turn(x) = Turn(y)
    /\ x.at = "forward" /\ y.at = "forward" => Len(x.left) = Len(y.left)
    /\ x.at = "forward" /\ y.at # "forward" => ~dyn /\ x.left = x.lists

Parts(r) == Split(RowsOf(r), MiniSize)

BatchOK ==
    /\ LensOK /\ dynamic \in BOOLEAN
    /\ at \in {"new", "log_prob", "update", "over"}
    /\ Enumerates(order, RowSet)
    /\ at = "new" => order = Counting(NumRows)
    /\ order = Counting(NumRows) \/ EvenWork(order)
    /\ result = IF at \in {"update", "over"} THEN order ELSE <<>>

RanksOK ==
    /\ rank = [r \in Ranks |-> rank[r]]
    /\ \A r \in Ranks : RankState(rank[r], Minis(r), lens, dynamic, at)

TrainedOK ==
    /\ trained = [r \in Ranks |-> trained[r]]
    /\ \A r \in Ranks : TrainedState(trained[r], rank[r], Parts(r), at)

InStep == \A q, r \in Ranks : Together(rank[q], rank[r], dynamic)

Inv == BatchOK /\ RanksOK /\ TrainedOK /\ InStep

-----------------------------------------------------------------------------
(* The rows of the ranks.                                                  *)

MinisOK(minis) ==
    /\ minis \in Seq(Seq(RowSet)) /\ Len(minis) \in Nat \ {0}
    /\ \A m \in 1 .. Len(minis) :
         /\ minis[m] # <<>> /\ minis[m] \in Seq(RowSet) /\ Len(minis[m]) \in 1 .. NumRows
         /\ Enumerates(minis[m], Elements(minis[m]))

SameSizes(minis, others) ==
    Len(minis) = Len(others) /\ \A m \in 1 .. Len(minis) : Len(minis[m]) = Len(others[m])

\* A batch divides evenly among the data parallel ranks.
LEMMA OrderIs ==
    ASSUME Enumerates(order, RowSet)
    PROVE \E c \in Nat \ {0} : /\ EvenParts(order, DpSize, c) /\ c <= NumRows
                               /\ NumRows = c * DpSize /\ NumRows \div DpSize = c /\ Len(order) = NumRows
<1>1. PICK c \in Nat \ {0} : NumRows = c * DpSize /\ NumRows \div DpSize = c
  BY ConstantsAre
<1>2. NumRows \in Nat /\ DpSize \in Nat \ {0}
  BY ConstantsAre DEF RankAssumption
<1>3. Len(order) = NumRows
  <2>1. Cardinality(RowSet) = Len(order)
    BY EnumSize
  <2>2. Cardinality(0 + 1 .. 0 + NumRows) = NumRows
    BY <1>2, IntervalSize
  <2>3. 0 + NumRows = NumRows /\ 0 + 1 = 1
    BY <1>2
  <2> QED BY <2>1, <2>2, <2>3 DEF RowSet
<1>4. c <= NumRows
  <2> DEFINE z == DpSize - 1
             y == c * z
  <2>1. z \in Nat /\ c * DpSize = c * z + c
    BY <1>2
  <2>2. y \in Nat
    BY <2>1, Multiple
  <2>3. NumRows = y + c
    BY <1>1, <2>1
  <2> HIDE DEF y
  <2> QED BY <2>2, <2>3
<1> QED BY <1>1, <1>3, <1>4 DEF EvenParts

\* Each rank has as many rows, all different.
LEMMA RowsAreDealt ==
    ASSUME Enumerates(order, RowSet)
    PROVE \E c \in Nat \ {0} : /\ c <= NumRows
            /\ \A r \in Ranks : /\ RowsOf(r) \in Seq(RowSet) /\ Len(RowsOf(r)) = c
                                /\ Enumerates(RowsOf(r), Elements(RowsOf(r)))
                                /\ Elements(RowsOf(r)) \subseteq RowSet
<1>1. PICK c \in Nat \ {0} : EvenParts(order, DpSize, c) /\ c <= NumRows
  BY OrderIs
<1>2. DpSize \in Nat \ {0} /\ \A r \in Ranks : DpRank[r] \in 1 .. DpSize
  BY ConstantsAre DEF RankAssumption
<1>3. \A d \in 1 .. DpSize :
         LET t == Chunk(order, DpSize)[d]
         IN  /\ Len(t) = c /\ t \in Seq(RowSet)
             /\ Enumerates(t, Elements(t)) /\ Elements(t) \subseteq RowSet
  <2>1. /\ \A d \in 1 .. DpSize : /\ Len(Chunk(order, DpSize)[d]) = c /\ Chunk(order, DpSize)[d] \in Seq(RowSet)
                               /\ Enumerates(Chunk(order, DpSize)[d], Elements(Chunk(order, DpSize)[d]))
                               /\ Elements(Chunk(order, DpSize)[d]) \subseteq RowSet
    BY <1>1, <1>2, ChunksDealt
  <2> QED BY <2>1
<1> QED BY <1>1, <1>2, <1>3 DEF RowsOf

\* The mini-batches of a rank's rows.
LEMMA PartsOK ==
    ASSUME NEW rows \in Seq(RowSet), Enumerates(rows, Elements(rows)), Len(rows) \in 1 .. NumRows,
           NEW size \in Nat \ {0}
    PROVE /\ MinisOK(Split(rows, size)) /\ MinisOK(<<rows>>)
          /\ Len(Split(rows, size)) = CeilDiv(Len(rows), size)
<1> DEFINE n == Len(rows)
           c == CeilDiv(n, size)
           t == Split(rows, size)
<1>1. n \in Nat /\ NumRows \in Nat /\ n <= NumRows /\ n >= 1
  BY ConstantsAre
<1>2. c \in Nat /\ c >= 1
  <2> HIDE DEF n, c
  <2>1. n # 0
    BY <1>1
  <2> QED BY <1>1, <2>1, CeilFacts DEF c
<1>3. /\ t \in Seq(Seq(RowSet)) /\ Len(t) = c
      /\ \A m \in 1 .. c :
           /\ (m - 1) * size \in Nat /\ Until(n, size, m) \in Nat
           /\ (m - 1) * size < Until(n, size, m) /\ Until(n, size, m) <= n
           /\ Len(t[m]) = Until(n, size, m) - (m - 1) * size
           /\ t[m] # <<>>
  BY SplitParts
<1>4. Dealt(t, c, Elements(rows))
  BY SplitDeals
<1>5. n = Len(rows)
  OBVIOUS
<1> HIDE DEF n, c, t
<1>6. ASSUME NEW m \in 1 .. c
      PROVE /\ t[m] # <<>> /\ t[m] \in Seq(RowSet) /\ Len(t[m]) \in 1 .. NumRows
            /\ Enumerates(t[m], Elements(t[m]))
  <2>1. Enumerates(t[m], Elements(t[m]))
    BY <1>4 DEF Dealt, EnumEach
  <2>2. t[m] # <<>> /\ t[m] \in Seq(RowSet)
    BY <1>3
  <2> DEFINE a == (m - 1) * size
             e == Until(n, size, m)
  <2>3. a \in Nat /\ e \in Nat /\ a < e /\ e <= n /\ Len(t[m]) = e - a
    BY <1>3
  <2> HIDE DEF a, e
  <2>4. Len(t[m]) \in 1 .. NumRows
    BY <1>1, <2>3
  <2> QED BY <2>1, <2>2, <2>4
<1>7. MinisOK(t)
  <2>1. Len(t) \in Nat \ {0}
    BY <1>2, <1>3
  <2> QED BY <1>3, <1>6, <2>1 DEF MinisOK
<1>8. MinisOK(<<rows>>)
  <2> DEFINE u == <<rows>>
  <2>1. u \in Seq(Seq(RowSet)) /\ Len(u) = 1 /\ u[1] = rows
    OBVIOUS
  <2> HIDE DEF u
  <2>2. rows # <<>>
    BY <1>1, <1>5
  <2>3. \A m \in 1 .. Len(u) : u[m] = rows
    BY <2>1
  <2> QED BY <2>1, <2>2, <2>3 DEF MinisOK, u
<1> QED BY <1>3, <1>7, <1>8 DEF t, c, n

\* Rows of the same number split alike.
LEMMA SplitSizes ==
    ASSUME NEW S, NEW s \in Seq(S), NEW u \in Seq(S), Len(s) = Len(u), NEW size \in Nat \ {0}
    PROVE SameSizes(Split(s, size), Split(u, size))
<1>1. /\ Len(Split(s, size)) = CeilDiv(Len(s), size)
      /\ \A m \in 1 .. CeilDiv(Len(s), size) :
           Len(Split(s, size)[m]) = Until(Len(s), size, m) - (m - 1) * size
  BY SplitParts
<1>2. /\ Len(Split(u, size)) = CeilDiv(Len(u), size)
      /\ \A m \in 1 .. CeilDiv(Len(u), size) :
           Len(Split(u, size)[m]) = Until(Len(u), size, m) - (m - 1) * size
  BY SplitParts
<1> QED BY <1>1, <1>2 DEF SameSizes

\* The mini-batches of the ranks have the same sizes.
LEMMA MinisAre ==
    ASSUME Enumerates(order, RowSet)
    PROVE /\ \A r \in Ranks : MinisOK(Minis(r)) /\ MinisOK(Parts(r))
          /\ \A q, r \in Ranks : SameSizes(Minis(q), Minis(r))
<1>1. PICK c \in Nat \ {0} : /\ c <= NumRows
            /\ \A r \in Ranks : /\ RowsOf(r) \in Seq(RowSet) /\ Len(RowsOf(r)) = c
                                /\ Enumerates(RowsOf(r), Elements(RowsOf(r)))
                                /\ Elements(RowsOf(r)) \subseteq RowSet
  BY RowsAreDealt
<1>2. MiniSize \in Nat \ {0} /\ NumRows \in Nat
  BY ConstantsAre
<1>3. ASSUME NEW r \in Ranks PROVE MinisOK(Minis(r)) /\ MinisOK(Parts(r))
  <2>1. /\ RowsOf(r) \in Seq(RowSet) /\ Enumerates(RowsOf(r), Elements(RowsOf(r)))
        /\ Len(RowsOf(r)) \in 1 .. NumRows
    BY <1>1, <1>2
  <2>2. MinisOK(Split(RowsOf(r), MiniSize)) /\ MinisOK(<<RowsOf(r)>>)
    BY <1>2, <2>1, PartsOK
  <2> QED BY <2>2 DEF Minis, Parts
<1>4. ASSUME NEW q \in Ranks, NEW r \in Ranks PROVE SameSizes(Minis(q), Minis(r))
  <2> DEFINE s == RowsOf(q)
             u == RowsOf(r)
  <2>1. s \in Seq(RowSet) /\ u \in Seq(RowSet) /\ Len(s) = Len(u)
    BY <1>1
  <2> HIDE DEF s, u
  <2>2. SameSizes(Split(s, MiniSize), Split(u, MiniSize))
    BY <1>2, <2>1, SplitSizes
  <2>3. SameSizes(<<s>>, <<u>>)
    <3>1. Len(<<s>>) = 1 /\ Len(<<u>>) = 1 /\ <<s>>[1] = s /\ <<u>>[1] = u
      OBVIOUS
    <3>2. \A m \in 1 .. Len(<<s>>) : m = 1
      BY <3>1
    <3> QED BY <2>1, <3>1, <3>2 DEF SameSizes
  <2>4. Minis(q) = (IF at = "update" THEN Split(s, MiniSize) ELSE <<s>>)
        /\ Minis(r) = (IF at = "update" THEN Split(u, MiniSize) ELSE <<u>>)
    BY DEF Minis, s, u
  <2> QED BY <2>2, <2>3, <2>4
<1> QED BY <1>3, <1>4

\* The lengths of some rows.
LEMMA LensInIs ==
    ASSUME NEW ls \in [RowSet -> Lengths], NEW rows \in Seq(RowSet), rows # <<>>
    PROVE LET t == LensIn(ls, rows)
          IN  t \in Seq(Nat \ {0}) /\ t \in Seq(Nat) /\ t # <<>> /\ Len(t) = Len(rows)
<1>1. Lengths \subseteq 1 .. MaxTokens /\ MaxTokens \in Nat
  BY ConstantsAre
<1> DEFINE n == Len(rows)
           t == LensIn(ls, rows)
<1>2. n \in Nat \ {0} /\ DOMAIN rows = 1 .. n /\ \A i \in 1 .. n : rows[i] \in RowSet
  OBVIOUS
<1>3. t = [i \in 1 .. n |-> ls[rows[i]]]
  BY <1>2 DEF LensIn
<1> HIDE DEF t, n
<1>4. ASSUME NEW i \in 1 .. n PROVE ls[rows[i]] \in Nat \ {0}
  <2>1. ls[rows[i]] \in 1 .. MaxTokens
    BY <1>1, <1>2
  <2> QED BY <1>1, <2>1
<1>5. t \in [1 .. n -> Nat \ {0}]
  BY <1>3, <1>4
<1>6. t \in Seq(Nat \ {0}) /\ Len(t) = n
  BY <1>2, <1>5
<1>7. t \in Seq(Nat) /\ t # <<>>
  BY <1>2, <1>6
<1> QED BY <1>6, <1>7 DEF t, n

\* The fields of a rank.
LEMMA RankRecFields ==
    ASSUME NEW x \in RankRec
    PROVE /\ x.at \in {"count", "reduce", "forward", "mini", "done"}
          /\ x.mini \in Nat /\ x.number \in Nat
          /\ x.lists \in Seq(Seq(Nat)) /\ x.left \in Seq(Seq(Nat)) /\ x.out \in Seq(RowSet)
  BY DEF RankRec

Counted(x, n) == [x EXCEPT !.at = "reduce", !.number = n]

Divided(x, lists) == [x EXCEPT !.at = "forward", !.lists = lists, !.left = lists]

\* The rank has counted its micro-batches.
LEMMA CountedState ==
    ASSUME NEW x, NEW minis, MinisOK(minis), NEW ls \in [RowSet -> Lengths], NEW now,
           RankState(x, minis, ls, TRUE, now), x.at = "count", now \in {"log_prob", "update"}
    PROVE LET y == Counted(x, OwnNumber(LensIn(ls, minis[x.mini]), MaxTokens))
          IN  RankState(y, minis, ls, TRUE, now) /\ y.at = "reduce" /\ y.mini = x.mini
<1> DEFINE m == x.mini
           rows == minis[m]
           n == OwnNumber(LensIn(ls, rows), MaxTokens)
           y == Counted(x, n)
<1>1. x \in RankRec /\ m \in 1 .. Len(minis) /\ Fresh(x)
  BY DEF RankState
<1>2. rows # <<>> /\ rows \in Seq(RowSet) /\ Len(rows) \in 1 .. NumRows
  BY <1>1 DEF MinisOK
<1>3. n \in 0 .. NumRows /\ n \in Nat
  <2>1. MaxTokens \in Nat \ {0} /\ NumRows \in Nat
    BY ConstantsAre
  <2> DEFINE t == LensIn(ls, rows)
  <2>2. t \in Seq(Nat \ {0}) /\ t # <<>> /\ Len(t) = Len(rows)
    BY <1>2, LensInIs
  <2> HIDE DEF t
  <2>3. OwnNumber(t, MaxTokens) \in 1 .. Len(t)
    BY <2>1, <2>2, OwnNumberIs
  <2>4. n \in 1 .. Len(rows)
    BY <2>2, <2>3 DEF t
  <2> HIDE DEF n, rows
  <2> QED BY <1>2, <2>1, <2>4
<1> HIDE DEF n
<1>4. /\ y \in RankRec /\ y.at = "reduce" /\ y.mini = m /\ y.number = n
      /\ y.lists = x.lists /\ y.left = x.left /\ y.out = x.out
  BY <1>1, <1>3 DEF RankRec, Counted
<1> HIDE DEF y
<1>5. Fresh(y)
  BY <1>1, <1>4 DEF Fresh
<1>6. RankState(y, minis, ls, TRUE, now)
  BY <1>1, <1>3, <1>4, <1>5 DEF RankState, n
<1> QED BY <1>4, <1>6 DEF y, n

\* The rank has its micro-batches.
LEMMA DividedState ==
    ASSUME NEW x, NEW minis, MinisOK(minis), NEW ls, NEW dyn, NEW now,
           RankState(x, minis, ls, dyn, now), x.at \in {"count", "reduce"}, now \in {"log_prob", "update"},
           NEW n \in Nat \ {0}, NEW lists, Parted(lists, Len(minis[x.mini]), n),
           ~dyn => lists = Split(Counting(Len(minis[x.mini])), MicroSize)
    PROVE LET y == Divided(x, lists)
          IN  /\ RankState(y, minis, ls, dyn, now) /\ y.at = "forward" /\ y.mini = x.mini
              /\ y.left = lists /\ y.lists = lists
<1> DEFINE m == x.mini
           rows == minis[m]
           y == Divided(x, lists)
<1>1. x \in RankRec /\ m \in 1 .. Len(minis) /\ Fresh(x) /\ x.number \in 0 .. NumRows
  BY DEF RankState
<1>2. rows # <<>> /\ rows \in Seq(RowSet)
  BY <1>1 DEF MinisOK
<1>3. CutAt(lists, lists, <<>>, rows, 0) /\ Len(lists) = n
  BY <1>2, CutStart
<1>4. lists \in Seq(Seq(Nat))
  <2>1. lists \in Seq(Seq(1 .. Len(rows)))
    BY DEF Parted
  <2>2. Seq(1 .. Len(rows)) \subseteq Seq(Nat)
    <3>1. 1 .. Len(rows) \in SUBSET Nat
      BY <1>2
    <3> QED BY <3>1, SeqSubset
  <2> DEFINE U == Seq(1 .. Len(rows))
             V == Seq(Nat)
  <2> HIDE DEF U, V
  <2>3. lists \in Seq(U) /\ U \subseteq V
    BY <2>1, <2>2 DEF U, V
  <2>4. lists \in Seq(V)
    BY <2>3
  <2> QED BY <2>4 DEF V
<1>5. /\ y \in RankRec /\ y.at = "forward" /\ y.mini = m /\ y.number = x.number
      /\ y.lists = lists /\ y.left = lists /\ y.out = x.out
  BY <1>1, <1>4 DEF RankRec, Divided
<1>6. lists # <<>>
  BY <1>3
<1> HIDE DEF y
<1>7. InMini(y, rows, dyn)
  <2>1. y.out = <<>>
    BY <1>1, <1>5 DEF Fresh
  <2>2. CutAt(y.lists, y.left, y.out, rows, 0)
    BY <1>3, <1>5, <2>1
  <2> QED BY <1>5, <2>2 DEF InMini
<1>8. RankState(y, minis, ls, dyn, now)
  BY <1>1, <1>5, <1>6, <1>7 DEF RankState
<1> QED BY <1>5, <1>8 DEF y

Forwarded(x, rows) ==
    [x EXCEPT !.left = Tail(@), !.out = x.out \o Mapped(rows, Head(x.left)),
              !.at = IF Len(x.left) = 1 THEN "mini" ELSE @]

\* The rank has computed a micro-batch.
LEMMA ForwardedState ==
    ASSUME NEW x, NEW minis, MinisOK(minis), NEW ls, NEW dyn, NEW now,
           RankState(x, minis, ls, dyn, now), x.at = "forward"
    PROVE LET y == Forwarded(x, minis[x.mini])
          IN  /\ RankState(y, minis, ls, dyn, now) /\ y.mini = x.mini
              /\ y.at = IF Len(x.left) = 1 THEN "mini" ELSE "forward"
              /\ Len(y.left) = Len(x.left) - 1
              /\ Head(x.left) \in Seq(1 .. Len(minis[x.mini]))
<1> DEFINE m == x.mini
           rows == minis[m]
           y == Forwarded(x, rows)
           left == x.left
           out == x.out \o Mapped(rows, Head(left))
           place == IF Len(left) = 1 THEN "mini" ELSE "forward"
<1>1. /\ x \in RankRec /\ m \in 1 .. Len(minis) /\ x.number \in 0 .. NumRows
      /\ InMini(x, rows, dyn) /\ left # <<>>
      /\ now \notin {"new", "over"}
  BY DEF RankState
<1>2. rows # <<>> /\ rows \in Seq(RowSet)
  BY <1>1 DEF MinisOK
<1>3. PICK k : CutAt(x.lists, left, x.out, rows, k)
  BY <1>1 DEF InMini
<1>4. /\ CutAt(x.lists, Tail(left), out, rows, k + 1)
      /\ Head(left) \in Seq(1 .. Len(rows)) /\ Len(Tail(left)) = Len(left) - 1 /\ out \in Seq(RowSet)
  BY <1>1, <1>2, <1>3, CutStep
<1>5. left \in Seq(Seq(Nat)) /\ Tail(left) \in Seq(Seq(Nat))
  <2>1. left \in Seq(Seq(Nat))
    BY <1>1, RankRecFields
  <2> HIDE DEF left
  <2> QED BY <1>1, <2>1
<1> HIDE DEF out
<1>6. /\ y \in RankRec /\ y.at = place /\ y.mini = m /\ y.number = x.number
      /\ y.lists = x.lists /\ y.left = Tail(left) /\ y.out = out
  <2> DEFINE tail == Tail(left)
  <2>1. y = [x EXCEPT !.left = tail, !.out = out, !.at = place]
    BY <1>1 DEF Forwarded, out, RankRec
  <2> HIDE DEF tail
  <2>2. tail \in Seq(Seq(Nat)) /\ out \in Seq(RowSet) /\ place \in {"mini", "forward"}
    BY <1>4, <1>5 DEF tail
  <2> HIDE DEF y, place
  <2>3. /\ y \in RankRec /\ y.at = place /\ y.mini = m /\ y.number = x.number
        /\ y.lists = x.lists /\ y.left = tail /\ y.out = out
    BY <1>1, <2>1, <2>2 DEF RankRec
  <2> QED BY <2>3 DEF tail
<1> HIDE DEF y
<1>7. InMini(y, rows, dyn)
  <2>1. CutAt(y.lists, y.left, y.out, rows, k + 1)
    BY <1>4, <1>6
  <2>2. ~dyn => y.lists = Split(Counting(Len(rows)), MicroSize)
    BY <1>1, <1>6 DEF InMini
  <2> QED BY <2>1, <2>2 DEF InMini
<1>8. /\ y.at = "forward" => y.left # <<>>
      /\ y.at = "mini" => y.left = <<>>
      /\ Len(y.left) = Len(left) - 1
  <2> DEFINE t == Tail(left)
             l == Len(left)
  <2>1. l \in Nat /\ Len(t) = l - 1 /\ t \in Seq(Seq(Nat))
    BY <1>4, <1>5
  <2>2. y.left = t /\ y.at = IF l = 1 THEN "mini" ELSE "forward"
    BY <1>6
  <2>3. l = 1 => t = <<>>
    <3> HIDE DEF t, l
    <3> QED BY <2>1
  <2>4. l # 1 => t # <<>>
    <3> HIDE DEF t, l
    <3> QED BY <2>1
  <2> HIDE DEF t, l
  <2> QED BY <2>1, <2>2, <2>3, <2>4 DEF l
<1>9. RankState(y, minis, ls, dyn, now)
  <2>1. y.at \in {"mini", "forward"}
    BY <1>6
  <2> QED BY <1>1, <1>6, <1>7, <1>8, <2>1 DEF RankState
<1> QED BY <1>4, <1>6, <1>8, <1>9 DEF y

Fresher(m) == [at |-> "count", mini |-> m, number |-> 0, lists |-> <<>>, left |-> <<>>, out |-> <<>>]

\* The rank begins a mini-batch.
LEMMA FresherState ==
    ASSUME NEW minis, NEW m \in 1 .. Len(minis), NEW ls, NEW dyn, NEW now, now \in {"new", "over"} => m = 1
    PROVE LET y == Fresher(m)
          IN  RankState(y, minis, ls, dyn, now) /\ y.at = "count" /\ y.mini = m
<1> DEFINE y == Fresher(m)
<1>1. /\ y.at = "count" /\ y.mini = m /\ y.number = 0 /\ y.lists = <<>> /\ y.left = <<>> /\ y.out = <<>>
  BY DEF Fresher
<1>2. m \in Nat /\ NumRows \in Nat
  BY ConstantsAre
<1>3. y \in RankRec
  <2>1. <<>> \in Seq(Seq(Nat)) /\ <<>> \in Seq(RowSet)
    OBVIOUS
  <2> QED BY <1>2, <2>1 DEF Fresher, RankRec
<1> HIDE DEF y
<1>4. Fresh(y) /\ y.number \in 0 .. NumRows
  BY <1>1, <1>2 DEF Fresh
<1> QED BY <1>1, <1>3, <1>4 DEF RankState, y

Finished(x, out) == [x EXCEPT !.at = "done", !.out = out]

\* The rows of a mini-batch that is through.
LEMMA MiniOver ==
    ASSUME NEW x, NEW minis, MinisOK(minis), NEW ls, NEW dyn \in BOOLEAN, NEW now,
           RankState(x, minis, ls, dyn, now), x.at = "mini"
    PROVE /\ Enumerates(x.out, Elements(minis[x.mini])) /\ x.out \in Seq(RowSet)
          /\ (IF dyn THEN Restored(x.out, x.lists) ELSE x.out) = minis[x.mini]
          /\ NoneEmpty(x.lists) /\ minis[x.mini] \in Seq(RowSet)
<1> DEFINE rows == minis[x.mini]
           A == Elements(rows)
<1>1. /\ x \in RankRec /\ x.mini \in 1 .. Len(minis) /\ InMini(x, rows, dyn) /\ x.left = <<>>
  BY DEF RankState
<1>2. rows # <<>> /\ rows \in Seq(RowSet) /\ Enumerates(rows, A)
  BY <1>1 DEF MinisOK
<1>3. PICK k : CutAt(x.lists, <<>>, x.out, rows, k)
  BY <1>1 DEF InMini
<1> HIDE DEF rows, A
<1>4. MicroSize \in Nat \ {0}
  BY ConstantsAre
<1> DEFINE lists == x.lists
           out == x.out
<1>5. CutAt(lists, <<>>, out, rows, k)
  BY <1>3
<1>6. ~dyn => lists = Split(Counting(Len(rows)), MicroSize)
  BY <1>1 DEF InMini
<1>7. out \in Seq(RowSet)
  BY <1>1, RankRecFields
<1> HIDE DEF lists, out
<1>8. Enumerates(out, A) /\ Restored(out, lists) = rows
  BY <1>2, <1>5, CutEnd
<1>9. ~dyn => out = rows
  <2>1. Len(rows) # 0
    BY <1>2
  <2> QED BY <1>2, <1>4, <1>5, <1>6, <2>1, CutEnd
<1>10. NoneEmpty(lists)
  BY <1>5 DEF CutAt, Parted, NoneEmpty
<1> QED BY <1>2, <1>7, <1>8, <1>9, <1>10 DEF lists, out, rows, A

\* The rank is through with its mini-batches.
LEMMA FinishedState ==
    ASSUME NEW x, NEW minis, MinisOK(minis), NEW ls, NEW dyn \in BOOLEAN, NEW now,
           RankState(x, minis, ls, dyn, now), x.at = "mini", x.mini = Len(minis),
           NEW out \in Seq(RowSet), now = "log_prob" => out = minis[x.mini], now \in {"log_prob", "update"}
    PROVE LET y == Finished(x, out)
          IN  RankState(y, minis, ls, dyn, now) /\ y.at = "done" /\ y.mini = x.mini
<1> DEFINE y == Finished(x, out)
<1>1. x \in RankRec /\ x.mini \in 1 .. Len(minis) /\ x.number \in 0 .. NumRows
  BY DEF RankState
<1>2. /\ y \in RankRec /\ y.at = "done" /\ y.mini = x.mini /\ y.number = x.number
      /\ y.lists = x.lists /\ y.out = out
  BY <1>1 DEF RankRec, Finished
<1>3. NoneEmpty(x.lists)
  BY MiniOver
<1> HIDE DEF y
<1> QED BY <1>1, <1>2, <1>3 DEF RankState, y

-----------------------------------------------------------------------------
(* The mini-batches the ranks were updated with.                           *)

\* A step of a rank that trains nothing.
LEMMA TrainedSame ==
    ASSUME NEW t, NEW x, NEW y, NEW parts, NEW now, TrainedState(t, x, parts, now),
           (y.mini = x.mini /\ x.at # "done" /\ y.at # "done") \/ now = "log_prob"
    PROVE TrainedState(t, y, parts, now)
  BY DEF TrainedState

\* The rank is updated with the mini-batch it is at.
LEMMA TrainedMore ==
    ASSUME NEW t, NEW x, NEW y, NEW parts, TrainedState(t, x, parts, "update"), x.at = "mini", x.mini \in Nat \ {0},
           NEW out \in Seq(RowSet), Enumerates(out, Elements(parts[x.mini])),
           (y.at = "done" /\ y.mini = x.mini) \/ (y.at # "done" /\ y.mini = x.mini + 1)
    PROVE TrainedState(Append(t, out), y, parts, "update")
<1> DEFINE u == Append(t, out)
           m == x.mini
<1>1. t \in Seq(Seq(RowSet)) /\ Len(t) = m - 1 /\ \A i \in 1 .. Len(t) : Enumerates(t[i], Elements(parts[i]))
  BY DEF TrainedState
<1>2. m \in Nat \ {0}
  OBVIOUS
<1> HIDE DEF m
<1>3. u \in Seq(Seq(RowSet)) /\ Len(u) = m /\ u[m] = out /\ \A i \in 1 .. Len(t) : u[i] = t[i]
  BY <1>1, <1>2
<1> HIDE DEF u
<1>4. ASSUME NEW i \in 1 .. Len(u) PROVE Enumerates(u[i], Elements(parts[i]))
  <2>1. i \in 1 .. Len(t) \/ i = m
    BY <1>1, <1>2, <1>3
  <2>2. Enumerates(out, Elements(parts[m]))
    BY DEF m
  <2> QED BY <1>1, <1>3, <2>1, <2>2
<1>5. Len(u) = IF y.at = "done" THEN y.mini ELSE y.mini - 1
  <2>1. (y.at = "done" /\ y.mini = m) \/ (y.at # "done" /\ y.mini = m + 1)
    BY DEF m
  <2> QED BY <1>2, <1>3, <2>1
<1> QED BY <1>3, <1>4, <1>5 DEF TrainedState, u

-----------------------------------------------------------------------------
(* The ranks in step.                                                      *)

\* A step outside of the collectives keeps the rank in step.
LEMMA TogetherAside ==
    ASSUME NEW x, NEW y, NEW z, NEW dyn, Together(x, z, dyn), Together(z, x, dyn),
           x.at # "forward", y.at # "forward", Turn(y) = Turn(x)
    PROVE Together(y, z, dyn) /\ Together(z, y, dyn)
  BY DEF Together

\* Ranks in the same state are in step.
LEMMA TogetherSelf ==
    ASSUME NEW x, NEW dyn
    PROVE Together(x, x, dyn)
  BY DEF Together

\* A rank that divides its rows without dynamic batches.
LEMMA TogetherDivided ==
    ASSUME NEW x, NEW y, NEW z, NEW minis, NEW others, NEW ls, NEW now,
           RankState(x, minis, ls, FALSE, now), RankState(z, others, ls, FALSE, now), SameSizes(minis, others),
           Together(x, z, FALSE), Together(z, x, FALSE), x.at = "count",
           y.at = "forward", y.mini = x.mini, y.left = y.lists,
           y.lists = Split(Counting(Len(minis[x.mini])), MicroSize)
    PROVE Together(y, z, FALSE) /\ Together(z, y, FALSE)
<1>1. Turn(y) = Turn(x) /\ Turn(x) = x.mini
  BY DEF Turn
<1>2. ASSUME z.at = "forward" PROVE z.left = y.left
  <2>1. z.left = z.lists /\ Turn(z) = x.mini
    BY <1>1, <1>2 DEF Together
  <2>2. z.mini = x.mini
    BY <1>2, <2>1 DEF Turn
  <2>3. z.lists = Split(Counting(Len(others[z.mini])), MicroSize)
    BY <1>2 DEF RankState, InMini
  <2>4. x.mini \in 1 .. Len(minis)
    BY DEF RankState
  <2>5. Len(minis[x.mini]) = Len(others[x.mini])
    BY <2>4 DEF SameSizes
  <2> QED BY <2>1, <2>2, <2>3, <2>5
<1>3. z.at = "forward" => z.left = z.lists
  BY DEF Together
<1>4. Turn(y) = Turn(z) /\ Turn(z) = Turn(y)
  BY <1>1 DEF Together
<1> QED BY <1>2, <1>3, <1>4 DEF Together

\* A rank that has not begun.
LEMMA StartIs == \A r \in Ranks : Start(r) = Fresher(1)
  BY DEF Start, Fresher

\* The first states satisfy the invariant.
LEMMA InitInv == Init => Inv
<1> SUFFICES ASSUME Init PROVE Inv
  OBVIOUS
<1>1. /\ lens \in [1 .. NumRows -> Lengths] /\ dynamic \in BOOLEAN /\ at = "new"
      /\ order = [i \in 1 .. NumRows |-> i]
      /\ rank = [r \in Ranks |-> Start(r)] /\ result = <<>> /\ trained = [r \in Ranks |-> <<>>]
  BY DEF Init
<1>2. order = Counting(NumRows)
  BY <1>1 DEF Counting
<1>3. Enumerates(order, RowSet)
  <2>1. NumRows \in Nat
    BY ConstantsAre
  <2> QED BY <1>2, <2>1, CountingFacts DEF RowSet
<1>4. BatchOK
  BY <1>1, <1>2, <1>3 DEF BatchOK, LensOK, RowSet
<1>5. RanksOK
  <2>1. ASSUME NEW r \in Ranks PROVE RankState(rank[r], Minis(r), lens, dynamic, at)
    <3>1. rank[r] = Fresher(1)
      BY <1>1, StartIs
    <3>2. 1 \in 1 .. Len(Minis(r))
      <4>1. Len(Minis(r)) \in Nat \ {0}
        BY <1>3, MinisAre DEF MinisOK
      <4> QED BY <4>1
    <3> QED BY <3>1, <3>2, FresherState
  <2> QED BY <1>1, <2>1 DEF RanksOK
<1>6. TrainedOK
  <2>1. ASSUME NEW r \in Ranks PROVE TrainedState(trained[r], rank[r], Parts(r), at)
    <3>1. trained[r] = <<>>
      BY <1>1
    <3>2. TrainedState(<<>>, rank[r], Parts(r), at)
      BY <1>1 DEF TrainedState
    <3> QED BY <3>1, <3>2
  <2> QED BY <1>1, <2>1 DEF TrainedOK
<1>7. InStep
  <2> SUFFICES ASSUME NEW q \in Ranks, NEW r \in Ranks PROVE Together(rank[q], rank[r], dynamic)
    BY DEF InStep
  <2>1. rank[q] = Fresher(1) /\ rank[r] = Fresher(1)
    BY <1>1, StartIs
  <2> QED BY <2>1, TogetherSelf
<1> QED BY <1>4, <1>5, <1>6, <1>7 DEF Inv

\* The balance of the ranks depends on lengths and order.
LEMMA WorkSame ==
    ASSUME UNCHANGED <<lens, order>>
    PROVE EvenWork(order)' <=> EvenWork(order)
<1>1. Max(Gaps)' = Max(Gaps)
  BY DEF Gaps, Gap, Loads
<1>2. \A p \in 1 .. DpSize : Work(Chunk(order, DpSize)[p])' = Work(Chunk(order, DpSize)[p])
  BY DEF Work
<1> QED BY <1>1, <1>2 DEF EvenWork

\* A step of the ranks leaves the batch alone.
LEMMA RanksStep ==
    ASSUME Inv, UNCHANGED <<lens, dynamic, order, at, result>>,
           rank' = [r \in Ranks |-> rank'[r]],
           \A r \in Ranks : RankState(rank'[r], Minis(r), lens, dynamic, at),
           trained' = [r \in Ranks |-> trained'[r]],
           \A r \in Ranks : TrainedState(trained'[r], rank'[r], Parts(r), at),
           \A q, r \in Ranks : Together(rank'[q], rank'[r], dynamic)
    PROVE Inv'
<1>1. \A r \in Ranks : RowsOf(r)' = RowsOf(r)
  BY DEF RowsOf
<1>2. \A r \in Ranks : Minis(r)' = Minis(r) /\ Parts(r)' = Parts(r)
  BY <1>1 DEF Minis, Parts
<1>3. BatchOK'
  <2>1. EvenWork(order)' <=> EvenWork(order)
    BY WorkSame
  <2>2. BatchOK
    BY DEF Inv
  <2> QED BY <2>1, <2>2 DEF BatchOK, LensOK
<1>4. RanksOK'
  BY <1>2 DEF RanksOK
<1>5. TrainedOK'
  BY <1>2 DEF TrainedOK
<1>6. InStep'
  BY DEF InStep
<1> QED BY <1>3, <1>4, <1>5, <1>6 DEF Inv

\* The invariant, taken apart.
LEMMA InvParts ==
    ASSUME Inv
    PROVE /\ BatchOK /\ RanksOK /\ TrainedOK /\ InStep
          /\ lens \in [RowSet -> Lengths] /\ dynamic \in BOOLEAN /\ Enumerates(order, RowSet)
          /\ \A r \in Ranks : /\ RankState(rank[r], Minis(r), lens, dynamic, at)
                              /\ TrainedState(trained[r], rank[r], Parts(r), at)
                              /\ MinisOK(Minis(r)) /\ MinisOK(Parts(r))
                              /\ rank[r] \in RankRec /\ rank[r].mini \in 1 .. Len(Minis(r))
          /\ \A q, r \in Ranks : Together(rank[q], rank[r], dynamic) /\ SameSizes(Minis(q), Minis(r))
<1>1. BatchOK /\ RanksOK /\ TrainedOK /\ InStep
  BY DEF Inv
<1>2. lens \in [RowSet -> Lengths] /\ dynamic \in BOOLEAN /\ Enumerates(order, RowSet)
  BY <1>1 DEF BatchOK, LensOK
<1>3. /\ \A r \in Ranks : MinisOK(Minis(r)) /\ MinisOK(Parts(r))
      /\ \A q, r \in Ranks : SameSizes(Minis(q), Minis(r))
  BY <1>2, MinisAre
<1>4. \A r \in Ranks : RankState(rank[r], Minis(r), lens, dynamic, at)
  BY <1>1 DEF RanksOK
<1>5. \A r \in Ranks : rank[r] \in RankRec /\ rank[r].mini \in 1 .. Len(Minis(r))
  BY <1>4 DEF RankState
<1>6. \A r \in Ranks : TrainedState(trained[r], rank[r], Parts(r), at)
  BY <1>1 DEF TrainedOK
<1>7. \A q, r \in Ranks : Together(rank[q], rank[r], dynamic)
  BY <1>1 DEF InStep
<1> QED BY <1>1, <1>2, <1>3, <1>4, <1>5, <1>6, <1>7

\* A step of one rank.
LEMMA OneRankStep ==
    ASSUME Inv, UNCHANGED <<lens, dynamic, order, at, result>>, NEW r \in Ranks, NEW y, NEW t,
           rank' = [rank EXCEPT ![r] = y], trained' = [trained EXCEPT ![r] = t],
           RankState(y, Minis(r), lens, dynamic, at), TrainedState(t, y, Parts(r), at),
           \A q \in Ranks : q # r => Together(y, rank[q], dynamic) /\ Together(rank[q], y, dynamic)
    PROVE Inv'
<1>1. /\ rank = [q \in Ranks |-> rank[q]] /\ trained = [q \in Ranks |-> trained[q]]
  BY DEF Inv, RanksOK, TrainedOK
<1>2. \A q \in Ranks : /\ rank'[q] = (IF q = r THEN y ELSE rank[q])
                       /\ trained'[q] = (IF q = r THEN t ELSE trained[q])
  BY <1>1
<1>3. rank' = [q \in Ranks |-> rank'[q]] /\ trained' = [q \in Ranks |-> trained'[q]]
  BY <1>1
<1>4. /\ \A q \in Ranks : RankState(rank[q], Minis(q), lens, dynamic, at)
      /\ \A q \in Ranks : TrainedState(trained[q], rank[q], Parts(q), at)
      /\ \A p, q \in Ranks : Together(rank[p], rank[q], dynamic)
  BY InvParts
<1>5. \A q \in Ranks : RankState(rank'[q], Minis(q), lens, dynamic, at)
  BY <1>2, <1>4
<1>6. \A q \in Ranks : TrainedState(trained'[q], rank'[q], Parts(q), at)
  BY <1>2, <1>4
<1>7. \A p, q \in Ranks : Together(rank'[p], rank'[q], dynamic)
  <2> TAKE p \in Ranks, q \in Ranks
  <2>1. CASE p = r /\ q = r
    BY <1>2, <2>1, TogetherSelf
  <2>2. CASE p = r /\ q # r
    BY <1>2, <2>2
  <2>3. CASE p # r /\ q = r
    BY <1>2, <2>3
  <2>4. CASE p # r /\ q # r
    BY <1>2, <1>4, <2>4
  <2> QED BY <2>1, <2>2, <2>3, <2>4
<1> QED BY <1>3, <1>5, <1>6, <1>7, RanksStep

\* Every action keeps the invariant: a rank counts its micro-batches, or
\* splits its rows at once.
LEMMA CountStep ==
    ASSUME Inv, NEW r \in Ranks, Count(r)
    PROVE Inv'
<1> DEFINE x == rank[r]
           minis == Minis(r)
           rows == minis[x.mini]
<1>1. /\ at \in {"log_prob", "update"} /\ x.at = "count"
      /\ UNCHANGED <<lens, dynamic, order, at, result, trained>>
      /\ rank' = [rank EXCEPT ![r] =
            IF dynamic
            THEN [@ EXCEPT !.at = "reduce", !.number = OwnNumber(LensOf(Mini(r)), MaxTokens)]
            ELSE LET lists == Split([i \in DOMAIN Mini(r) |-> i], MicroSize)
                 IN  [@ EXCEPT !.at = "forward", !.lists = lists, !.left = lists]]
  BY DEF Count
<1>2. /\ RankState(x, minis, lens, dynamic, at) /\ MinisOK(minis) /\ x.mini \in 1 .. Len(minis)
      /\ TrainedState(trained[r], x, Parts(r), at)
      /\ lens \in [RowSet -> Lengths] /\ dynamic \in BOOLEAN
      /\ rank = [q \in Ranks |-> rank[q]] /\ trained = [q \in Ranks |-> trained[q]]
  BY InvParts DEF RanksOK, TrainedOK
<1>3. Mini(r) = rows
  BY DEF Mini
<1>4. rows \in Seq(RowSet) /\ Len(rows) \in Nat \ {0}
  <2>1. rows \in Seq(RowSet) /\ rows # <<>>
    BY <1>2 DEF MinisOK
  <2> HIDE DEF rows
  <2> QED BY <2>1
<1>5. ASSUME NEW y, rank' = [rank EXCEPT ![r] = y], RankState(y, minis, lens, dynamic, at),
             y.at \in {"reduce", "forward"}, y.mini = x.mini,
             \A q \in Ranks : Together(y, rank[q], dynamic) /\ Together(rank[q], y, dynamic)
      PROVE Inv'
  <2>1. TrainedState(trained[r], y, Parts(r), at)
    BY <1>1, <1>2, <1>5, TrainedSame
  <2>2. trained' = [trained EXCEPT ![r] = trained[r]]
    BY <1>1, <1>2
  <2> DEFINE t == trained[r]
  <2> HIDE DEF t
  <2>3. TrainedState(t, y, Parts(r), at) /\ trained' = [trained EXCEPT ![r] = t]
    BY <2>1, <2>2 DEF t
  <2> QED BY <1>1, <1>5, <2>3, OneRankStep
<1>6. \A q \in Ranks : Together(x, rank[q], dynamic) /\ Together(rank[q], x, dynamic)
  BY InvParts
<1>7. CASE dynamic
  <2> DEFINE y == Counted(x, OwnNumber(LensIn(lens, rows), MaxTokens))
  <2>1. rank' = [rank EXCEPT ![r] = y]
    <3>1. LensOf(rows) = LensIn(lens, rows)
      BY DEF LensOf, LensIn
    <3> QED BY <1>1, <1>3, <1>7, <3>1 DEF Counted
  <2>2. dynamic = TRUE
    BY <1>7
  <2>3. RankState(y, minis, lens, dynamic, at) /\ y.at = "reduce" /\ y.mini = x.mini
    BY <1>1, <1>2, <2>2, CountedState
  <2> HIDE DEF y
  <2>4. Turn(y) = Turn(x) /\ x.at # "forward" /\ y.at # "forward"
    BY <1>1, <2>3 DEF Turn
  <2>5. \A q \in Ranks : Together(y, rank[q], dynamic) /\ Together(rank[q], y, dynamic)
    BY <1>6, <2>4, TogetherAside
  <2> QED BY <1>5, <2>1, <2>3, <2>5
<1>8. CASE ~dynamic
  <2> DEFINE lists == Split(Counting(Len(rows)), MicroSize)
             y == Divided(x, lists)
  <2>1. rank' = [rank EXCEPT ![r] = y]
    <3>1. [i \in DOMAIN rows |-> i] = Counting(Len(rows))
      BY <1>4 DEF Counting
    <3> QED BY <1>1, <1>3, <1>8, <3>1 DEF Divided
  <2>2. dynamic = FALSE
    BY <1>2, <1>8
  <2>3. /\ RankState(y, minis, lens, dynamic, at) /\ y.at = "forward" /\ y.mini = x.mini
        /\ y.left = lists /\ y.lists = lists
    <3> DEFINE n == CeilDiv(Len(rows), MicroSize)
    <3>1. MicroSize \in Nat \ {0}
      BY ConstantsAre
    <3>2. n \in Nat \ {0} /\ Parted(lists, Len(rows), n)
      BY <1>4, <3>1, SplitParted
    <3>3. ~dynamic => lists = Split(Counting(Len(rows)), MicroSize)
      OBVIOUS
    <3> HIDE DEF n, lists
    <3> QED BY <1>1, <1>2, <3>2, <3>3, DividedState
  <2> HIDE DEF y
  <2>4. \A q \in Ranks : Together(y, rank[q], dynamic) /\ Together(rank[q], y, dynamic)
    <3> TAKE q \in Ranks
    <3>1. RankState(rank[q], Minis(q), lens, dynamic, at) /\ SameSizes(minis, Minis(q))
      BY InvParts
    <3> QED BY <1>1, <1>2, <1>6, <2>2, <2>3, <3>1, TogetherDivided
  <2> QED BY <1>5, <2>1, <2>3, <2>4
<1> QED BY <1>7, <1>8

\* A rank ends a mini-batch.
LEMMA EndStep ==
    ASSUME Inv, NEW r \in Ranks, EndMini(r)
    PROVE Inv'
<1> DEFINE x == rank[r]
           minis == Minis(r)
           m == x.mini
<1>1. x.at = "mini" /\ UNCHANGED <<lens, dynamic, order, at, result>>
  BY DEF EndMini
<1>2. /\ RankState(x, minis, lens, dynamic, at) /\ MinisOK(minis) /\ m \in 1 .. Len(minis)
      /\ TrainedState(trained[r], x, Parts(r), at)
      /\ dynamic \in BOOLEAN /\ x \in RankRec
      /\ rank = [q \in Ranks |-> rank[q]] /\ trained = [q \in Ranks |-> trained[q]]
  BY InvParts DEF RanksOK, TrainedOK
<1>3. at \in {"log_prob", "update"}
  <2>1. at \in {"new", "log_prob", "update", "over"}
    BY InvParts DEF BatchOK
  <2> QED BY <1>1, <1>2, <2>1 DEF RankState
<1>4. /\ Enumerates(x.out, Elements(minis[m])) /\ x.out \in Seq(RowSet)
      /\ (IF dynamic THEN Restored(x.out, x.lists) ELSE x.out) = minis[m]
      /\ minis[m] \in Seq(RowSet)
  BY <1>1, <1>2, MiniOver
<1>5. \A q \in Ranks : Together(x, rank[q], dynamic) /\ Together(rank[q], x, dynamic)
  BY InvParts
<1>6. m \in Nat \ {0} /\ Len(minis) \in Nat \ {0}
  <2> DEFINE l == Len(minis)
  <2>1. l \in Nat \ {0} /\ m \in 1 .. l
    BY <1>2 DEF MinisOK
  <2> HIDE DEF l, m
  <2>2. m \in Nat \ {0}
    BY <2>1
  <2> QED BY <2>1, <2>2 DEF l
<1>7. ASSUME NEW y, Turn(y) = Turn(x), y.at # "forward"
      PROVE \A q \in Ranks : Together(y, rank[q], dynamic) /\ Together(rank[q], y, dynamic)
  BY <1>1, <1>5, <1>7, TogetherAside
<1>8. CASE at = "log_prob"
  <2> DEFINE y == Finished(x, minis[m])
  <2>1. /\ rank' = [rank EXCEPT ![r].at = "done",
                                ![r].out = IF dynamic THEN Restored(@, rank[r].lists) ELSE @]
        /\ trained' = trained
    BY <1>8 DEF EndMini
  <2>2. rank' = [rank EXCEPT ![r] = y]
    <3>1. rank' = [rank EXCEPT ![r] = [x EXCEPT !.at = "done",
                       !.out = IF dynamic THEN Restored(x.out, x.lists) ELSE x.out]]
      BY <1>2, <2>1 DEF RankRec
    <3> DEFINE o == IF dynamic THEN Restored(x.out, x.lists) ELSE x.out
    <3>2. rank' = [rank EXCEPT ![r] = [x EXCEPT !.at = "done", !.out = o]]
      BY <3>1
    <3>3. o = minis[m]
      BY <1>4
    <3> HIDE DEF o
    <3> QED BY <3>2, <3>3 DEF Finished
  <2>3. Len(minis) = 1 /\ m = 1
    <3>1. minis = <<RowsOf(r)>>
      BY <1>8 DEF Minis
    <3>2. Len(minis) = 1
      <4> HIDE DEF minis
      <4> QED BY <3>1
    <3> HIDE DEF minis, m
    <3>3. m \in 1 .. Len(minis)
      BY <1>2 DEF m, minis
    <3> QED BY <3>2, <3>3
  <2>4. RankState(y, minis, lens, dynamic, at) /\ y.at = "done" /\ y.mini = m
    <3>1. x.mini = Len(minis)
      BY <2>3
    <3> DEFINE o == minis[m]
    <3>2. o \in Seq(RowSet) /\ (at = "log_prob" => o = minis[x.mini])
      BY <1>4
    <3> HIDE DEF o
    <3>3. RankState(Finished(x, o), minis, lens, dynamic, at)
      <4>1. /\ RankState(x, minis, lens, dynamic, at) /\ MinisOK(minis) /\ x.at = "mini"
            /\ x.mini = Len(minis) /\ dynamic \in BOOLEAN
        BY <1>1, <1>2, <3>1
      <4> HIDE DEF x, minis
      <4> QED BY <1>3, <3>2, <4>1, FinishedState, Zenon
    <3>4. y.at = "done" /\ y.mini = m
      BY <1>2 DEF RankRec, Finished
    <3> QED BY <3>3, <3>4 DEF o
  <2> HIDE DEF y
  <2>5. Turn(y) = Turn(x)
    BY <1>1, <2>4 DEF Turn
  <2>6. TrainedState(trained[r], y, Parts(r), at)
    BY <1>2, <1>8, TrainedSame
  <2>7. \A q \in Ranks : Together(y, rank[q], dynamic) /\ Together(rank[q], y, dynamic)
    BY <1>7, <2>4, <2>5
  <2> DEFINE t == trained[r]
  <2>8. trained' = [trained EXCEPT ![r] = t]
    BY <1>2, <2>1
  <2> HIDE DEF t
  <2>9. TrainedState(t, y, Parts(r), at)
    BY <2>6 DEF t
  <2> QED BY <1>1, <2>2, <2>4, <2>7, <2>8, <2>9, OneRankStep
<1>9. CASE at = "update"
  <2> DEFINE t == Append(trained[r], x.out)
  <2>1. /\ trained' = [trained EXCEPT ![r] = t]
        /\ rank' = [rank EXCEPT ![r] =
             IF @.mini < Len(Minis(r)) THEN [Start(r) EXCEPT !.mini = rank[r].mini + 1]
             ELSE [@ EXCEPT !.at = "done"]]
    BY <1>9 DEF EndMini
  <2>2. minis = Parts(r)
    BY <1>9 DEF Minis, Parts
  <2>3. ASSUME NEW y, rank' = [rank EXCEPT ![r] = y], RankState(y, minis, lens, dynamic, at),
               (y.at = "done" /\ y.mini = m) \/ (y.at = "count" /\ y.mini = m + 1)
        PROVE Inv'
    <3>1. Turn(y) = Turn(x) /\ y.at # "forward"
      BY <1>1, <2>3 DEF Turn
    <3>2. \A q \in Ranks : Together(y, rank[q], dynamic) /\ Together(rank[q], y, dynamic)
      BY <1>7, <3>1
    <3>3. TrainedState(t, y, Parts(r), at)
      <4>1. TrainedState(trained[r], x, Parts(r), "update")
        BY <1>2, <1>9
      <4>2. Enumerates(x.out, Elements(Parts(r)[x.mini]))
        BY <1>4, <2>2
      <4>3. (y.at = "done" /\ y.mini = x.mini) \/ (y.at # "done" /\ y.mini = x.mini + 1)
        BY <2>3
      <4>4. x.mini \in Nat \ {0}
        BY <1>6
      <4>5. TrainedState(t, y, Parts(r), "update")
        BY <1>1, <1>4, <4>1, <4>2, <4>3, <4>4, TrainedMore
      <4> QED BY <1>9, <4>5
    <3> HIDE DEF t
    <3> QED BY <1>1, <2>1, <2>3, <3>2, <3>3, OneRankStep
  <2>4. CASE m < Len(minis)
    <3> DEFINE y == Fresher(m + 1)
    <3>1. rank' = [rank EXCEPT ![r] = y]
      <4>1. rank' = [rank EXCEPT ![r] = [Start(r) EXCEPT !.mini = m + 1]]
        BY <2>1, <2>4
      <4>2. [Start(r) EXCEPT !.mini = m + 1] = y
        BY DEF Fresher, Start
      <4> HIDE DEF y
      <4> QED BY <4>1, <4>2
    <3>2. m + 1 \in 1 .. Len(minis)
      <4> DEFINE l == Len(minis)
      <4> HIDE DEF l, m
      <4> QED BY <1>6, <2>4 DEF l
    <3>3. RankState(y, minis, lens, dynamic, at) /\ y.at = "count" /\ y.mini = m + 1
      BY <1>3, <3>2, FresherState
    <3> HIDE DEF y
    <3> QED BY <2>3, <3>1, <3>3
  <2>5. CASE ~(m < Len(minis))
    <3> DEFINE y == Finished(x, x.out)
    <3>1. rank' = [rank EXCEPT ![r] = y]
      <4>1. rank' = [rank EXCEPT ![r] = [x EXCEPT !.at = "done"]]
        BY <2>1, <2>5
      <4>2. [x EXCEPT !.at = "done"] = y
        BY <1>2 DEF Finished, RankRec
      <4> HIDE DEF y
      <4> QED BY <4>1, <4>2
    <3>2. m = Len(minis)
      <4> DEFINE l == Len(minis)
      <4>1. m \in 1 .. l
        BY <1>2
      <4> HIDE DEF l, m
      <4> QED BY <1>6, <2>5, <4>1 DEF l
    <3>3. RankState(y, minis, lens, dynamic, at) /\ y.at = "done" /\ y.mini = m
      <4> DEFINE o == x.out
      <4>1. o \in Seq(RowSet) /\ (at = "log_prob" => o = minis[x.mini])
        BY <1>4, <1>9
      <4> HIDE DEF o
      <4>2. RankState(Finished(x, o), minis, lens, dynamic, at)
        <5>1. /\ RankState(x, minis, lens, dynamic, at) /\ MinisOK(minis) /\ x.at = "mini"
              /\ x.mini = Len(minis) /\ dynamic \in BOOLEAN
          BY <1>1, <1>2, <3>2
        <5> HIDE DEF x, minis
        <5> QED BY <1>3, <4>1, <5>1, FinishedState, Zenon
      <4>3. y.at = "done" /\ y.mini = m
        BY <1>2 DEF RankRec, Finished
      <4> QED BY <4>2, <4>3 DEF o
    <3> HIDE DEF y
    <3> QED BY <2>3, <3>1, <3>3
  <2> QED BY <2>4, <2>5
<1> QED BY <1>3, <1>8, <1>9

\* The number of micro-batches the ranks agree on divides the mini-batch of each.
LEMMA AgreedIs ==
    ASSUME Inv, \A r \in Ranks : rank[r].at = "reduce", NEW r \in Ranks
    PROVE /\ dynamic = TRUE /\ at \in {"log_prob", "update"}
          /\ Agreed(r) \in Nat \ {0} /\ Agreed(r) <= Len(Mini(r))
          /\ \A q \in Ranks : Agreed(q) = Agreed(r) /\ rank[q].mini = rank[r].mini
<1> DEFINE l == Len(Mini(r))
           T == {rank[q].number : q \in Ranks}
<1>1. ASSUME NEW q \in Ranks
      PROVE /\ dynamic = TRUE /\ at \in {"log_prob", "update"}
            /\ rank[q].mini = rank[r].mini /\ rank[q].number \in 1 .. l
  <2> DEFINE x == rank[q]
             minis == Minis(q)
             rows == minis[x.mini]
  <2>1. /\ RankState(x, minis, lens, dynamic, at) /\ MinisOK(minis) /\ x.mini \in 1 .. Len(minis)
        /\ dynamic \in BOOLEAN /\ lens \in [RowSet -> Lengths] /\ x.at = "reduce"
        /\ SameSizes(minis, Minis(r)) /\ Together(x, rank[r], dynamic) /\ rank[r].at = "reduce"
    BY InvParts
  <2>2. dynamic = TRUE /\ x.number = OwnNumber(LensIn(lens, rows), MaxTokens)
    BY <2>1 DEF RankState
  <2>3. at \in {"log_prob", "update"}
    <3>1. at \in {"new", "log_prob", "update", "over"}
      BY InvParts DEF BatchOK
    <3> QED BY <2>1, <3>1 DEF RankState
  <2>4. x.mini = rank[r].mini
    BY <2>1 DEF Together, Turn
  <2>5. Len(rows) = l
    BY <2>1, <2>4 DEF SameSizes, Mini
  <2> DEFINE t == LensIn(lens, rows)
  <2>6. t \in Seq(Nat \ {0}) /\ t # <<>> /\ Len(t) = Len(rows)
    <3>1. rows \in Seq(RowSet) /\ rows # <<>>
      BY <2>1 DEF MinisOK
    <3> HIDE DEF rows
    <3> QED BY <2>1, <3>1, LensInIs
  <2> HIDE DEF t
  <2>7. OwnNumber(t, MaxTokens) \in 1 .. Len(t)
    <3>1. MaxTokens \in Nat \ {0}
      BY ConstantsAre
    <3> QED BY <2>6, <3>1, OwnNumberIs
  <2>8. x.number \in 1 .. l
    <3>1. x.number = OwnNumber(t, MaxTokens)
      BY <2>2 DEF t
    <3> QED BY <2>5, <2>6, <2>7, <3>1
  <2> QED BY <2>2, <2>3, <2>4, <2>8
<1>2. l \in Nat
  <2>1. Mini(r) \in Seq(RowSet)
    <3>1. MinisOK(Minis(r)) /\ rank[r].mini \in 1 .. Len(Minis(r))
      BY InvParts
    <3> QED BY <3>1 DEF MinisOK, Mini
  <2> QED BY <2>1
<1> HIDE DEF l
<1>3. T \in SUBSET Nat /\ T # {} /\ \A x \in T : x \in 1 .. l
  <2>1. \A x \in T : \E q \in Ranks : x = rank[q].number
    OBVIOUS
  <2>2. rank[r].number \in T
    OBVIOUS
  <2>3. \A x \in T : x \in 1 .. l
    BY <1>1, <2>1
  <2> HIDE DEF T
  <2>4. \A x \in T : x \in Nat
    BY <1>2, <2>3
  <2> QED BY <2>2, <2>3, <2>4
<1>4. Agreed(r) = Max(T) /\ \A q \in Ranks : Agreed(q) = Max(T)
  BY DEF Agreed
<1> HIDE DEF T
<1>5. \A x \in T : x <= l
  BY <1>2, <1>3
<1>6. Max(T) \in T
  BY <1>2, <1>3, <1>5, MaxIs
<1> DEFINE k == Max(T)
<1>7. k \in 1 .. l
  BY <1>3, <1>6
<1> HIDE DEF k
<1>8. k \in Nat \ {0} /\ k <= l
  BY <1>2, <1>7
<1>9. Agreed(r) \in Nat \ {0} /\ Agreed(r) <= l
  BY <1>4, <1>8 DEF k
<1> QED BY <1>1, <1>4, <1>9 DEF l

\* The ranks agree on a number of micro-batches.
LEMMA ReduceStep ==
    ASSUME Inv, Reduce
    PROVE Inv'
<1> DEFINE lists(r) == MicroBatches(LensOf(Mini(r)), Agreed(r))
           y(r) == Divided(rank[r], lists(r))
<1>1. /\ \A r \in Ranks : rank[r].at = "reduce"
      /\ UNCHANGED <<lens, dynamic, order, at, result, trained>>
      /\ rank' = [r \in Ranks |-> y(r)]
  BY DEF Reduce, Divided
<1>2. ASSUME NEW r \in Ranks
      PROVE /\ RankState(y(r), Minis(r), lens, dynamic, at) /\ y(r).at = "forward" /\ y(r).mini = rank[r].mini
            /\ Len(y(r).left) = Agreed(r)
            /\ TrainedState(trained[r], y(r), Parts(r), at)
  <2> DEFINE x == rank[r]
             minis == Minis(r)
             rows == minis[x.mini]
             n == Agreed(r)
             t == LensIn(lens, rows)
             mb == MicroBatches(t, n)
  <2>1. /\ RankState(x, minis, lens, dynamic, at) /\ MinisOK(minis) /\ x.mini \in 1 .. Len(minis)
        /\ lens \in [RowSet -> Lengths] /\ x.at = "reduce" /\ TrainedState(trained[r], x, Parts(r), at)
    BY <1>1, InvParts
  <2>2. dynamic = TRUE /\ at \in {"log_prob", "update"} /\ n \in Nat \ {0} /\ n <= Len(Mini(r))
    BY <1>1, AgreedIs
  <2>3. lists(r) = mb /\ Mini(r) = rows
    <3>1. Mini(r) = rows
      BY DEF Mini
    <3>2. LensOf(rows) = t
      BY DEF LensOf, LensIn
    <3> HIDE DEF rows, t
    <3> QED BY <3>1, <3>2
  <2>4. t \in Seq(Nat) /\ Len(t) = Len(rows)
    <3>1. rows \in Seq(RowSet) /\ rows # <<>>
      BY <2>1 DEF MinisOK
    <3> HIDE DEF rows
    <3> QED BY <2>1, <3>1, LensInIs
  <2>5. Parted(mb, Len(rows), n)
    <3>1. Hidden \in Nat
      BY ConstantsAre
    <3>2. n <= Len(t)
      BY <2>2, <2>3, <2>4
    <3> HIDE DEF t, n, rows
    <3>3. Parted(MicroBatches(t, n), Len(t), n)
      BY <2>2, <2>4, <3>1, <3>2, MicroBatchesParted DEF n
    <3> QED BY <2>4, <3>3
  <2>6. /\ RankState(Divided(x, mb), minis, lens, dynamic, at) /\ Divided(x, mb).at = "forward"
        /\ Divided(x, mb).mini = x.mini /\ Divided(x, mb).left = mb
    <3>1. ~dynamic => mb = Split(Counting(Len(minis[x.mini])), MicroSize)
      BY <2>2
    <3>2. n \in Nat \ {0} /\ Parted(mb, Len(minis[x.mini]), n)
      BY <2>2, <2>5
    <3>3. /\ RankState(x, minis, lens, dynamic, at) /\ MinisOK(minis)
          /\ x.at \in {"count", "reduce"} /\ at \in {"log_prob", "update"}
      BY <2>1, <2>2
    <3>4. Divided(x, mb).at = "forward" /\ Divided(x, mb).mini = x.mini /\ Divided(x, mb).left = mb
      <4>1. x \in RankRec
        BY <2>1 DEF RankState
      <4> HIDE DEF x, mb
      <4> QED BY <4>1 DEF RankRec, Divided
    <3> HIDE DEF x, minis, mb, n
    <3>5. RankState(Divided(x, mb), minis, lens, dynamic, at)
      BY <3>1, <3>2, <3>3, DividedState, Zenon
    <3> QED BY <3>4, <3>5
  <2>7. Len(mb) = n
    <3> HIDE DEF mb, n, rows
    <3> QED BY <2>5 DEF Parted
  <2>8. y(r) = Divided(x, mb)
    BY <2>3
  <2> DEFINE z == Divided(x, mb)
  <2>9. TrainedState(trained[r], z, Parts(r), at)
    <3>1. z.mini = x.mini /\ x.at # "done" /\ z.at # "done"
      BY <2>1, <2>6
    <3> HIDE DEF z, x
    <3> QED BY <2>1, <3>1, TrainedSame
  <2> QED BY <2>6, <2>7, <2>8, <2>9
<1> HIDE DEF y, lists
<1>3. \A q, r \in Ranks : Together(y(q), y(r), dynamic)
  <2> TAKE q \in Ranks, r \in Ranks
  <2>1. Agreed(q) = Agreed(r) /\ rank[q].mini = rank[r].mini
    BY <1>1, AgreedIs
  <2>2. Turn(y(q)) = Turn(y(r)) /\ Len(y(q).left) = Len(y(r).left) /\ y(r).at = "forward"
    BY <1>2, <2>1 DEF Turn
  <2> QED BY <2>2 DEF Together
<1>4. \A r \in Ranks : rank'[r] = y(r) /\ trained'[r] = trained[r]
  BY <1>1
<1>5. rank' = [r \in Ranks |-> rank'[r]] /\ trained' = [r \in Ranks |-> trained'[r]]
  <2>1. trained = [r \in Ranks |-> trained[r]]
    BY InvParts DEF TrainedOK
  <2> QED BY <1>1, <1>4, <2>1
<1>6. \A r \in Ranks : RankState(rank'[r], Minis(r), lens, dynamic, at)
  BY <1>2, <1>4
<1>7. \A r \in Ranks : TrainedState(trained'[r], rank'[r], Parts(r), at)
  BY <1>2, <1>4
<1>8. \A q, r \in Ranks : Together(rank'[q], rank'[r], dynamic)
  BY <1>3, <1>4
<1> QED BY <1>1, <1>5, <1>6, <1>7, <1>8, RanksStep

\* The ranks compute a micro-batch each.
LEMMA ForwardStep ==
    ASSUME Inv, Forward
    PROVE Inv'
<1> DEFINE y(r) == Forwarded(rank[r], Minis(r)[rank[r].mini])
<1>1. /\ \A r \in Ranks : rank[r].at = "forward"
      /\ UNCHANGED <<lens, dynamic, order, at, result, trained>>
      /\ rank' = [r \in Ranks |-> y(r)]
  <2>1. /\ \A r \in Ranks : rank[r].at = "forward"
        /\ UNCHANGED <<lens, dynamic, order, at, result, trained>>
        /\ rank' = [r \in Ranks |->
             LET out == rank[r].out \o [i \in DOMAIN Head(rank[r].left) |-> Mini(r)[Head(rank[r].left)[i]]]
             IN  [rank[r] EXCEPT !.left = Tail(@), !.out = out,
                                 !.at = IF Len(rank[r].left) = 1 THEN "mini" ELSE @]]
    BY DEF Forward
  <2>2. ASSUME NEW r \in Ranks
        PROVE [i \in DOMAIN Head(rank[r].left) |-> Mini(r)[Head(rank[r].left)[i]]]
                = Mapped(Minis(r)[rank[r].mini], Head(rank[r].left))
    <3> DEFINE h == Head(rank[r].left)
    <3>1. h \in Seq(1 .. Len(Minis(r)[rank[r].mini]))
      <4> DEFINE x == rank[r]
                 minis == Minis(r)
      <4>1. /\ RankState(x, minis, lens, dynamic, at) /\ MinisOK(minis) /\ x.at = "forward"
        BY <2>1, InvParts
      <4> HIDE DEF x, minis
      <4>2. Head(x.left) \in Seq(1 .. Len(minis[x.mini]))
        BY <4>1, ForwardedState
      <4> QED BY <4>2 DEF x, minis
    <3> DEFINE T == 1 .. Len(Minis(r)[rank[r].mini])
    <3>2. DOMAIN h = 1 .. Len(h)
      <4> HIDE DEF h, T
      <4>1. h \in Seq(T)
        BY <3>1 DEF T
      <4> QED BY <4>1
    <3>3. Mini(r) = Minis(r)[rank[r].mini]
      BY DEF Mini
    <3> HIDE DEF h
    <3> QED BY <3>2, <3>3 DEF Mapped, h
  <2>3. ASSUME NEW r \in Ranks PROVE rank'[r] = y(r)
    <3> DEFINE g == [i \in DOMAIN Head(rank[r].left) |-> Mini(r)[Head(rank[r].left)[i]]]
    <3>1. rank'[r] = [rank[r] EXCEPT !.left = Tail(@), !.out = rank[r].out \o g,
                                     !.at = IF Len(rank[r].left) = 1 THEN "mini" ELSE @]
      BY <2>1
    <3>2. g = Mapped(Minis(r)[rank[r].mini], Head(rank[r].left))
      BY <2>2
    <3> HIDE DEF g
    <3> QED BY <3>1, <3>2 DEF Forwarded
  <2>4. rank' = [r \in Ranks |-> rank'[r]]
    BY <2>1
  <2> HIDE DEF y
  <2> QED BY <2>1, <2>3, <2>4
<1>2. ASSUME NEW r \in Ranks
      PROVE /\ RankState(y(r), Minis(r), lens, dynamic, at) /\ y(r).mini = rank[r].mini
            /\ y(r).at = IF Len(rank[r].left) = 1 THEN "mini" ELSE "forward"
            /\ Len(y(r).left) = Len(rank[r].left) - 1
            /\ TrainedState(trained[r], y(r), Parts(r), at)
  <2> DEFINE x == rank[r]
             minis == Minis(r)
             rows == minis[x.mini]
             z == Forwarded(x, rows)
  <2>1. /\ RankState(x, minis, lens, dynamic, at) /\ MinisOK(minis)
        /\ x.at = "forward" /\ TrainedState(trained[r], x, Parts(r), at)
    BY <1>1, InvParts
  <2>2. /\ RankState(z, minis, lens, dynamic, at) /\ z.mini = x.mini
        /\ z.at = IF Len(x.left) = 1 THEN "mini" ELSE "forward"
        /\ Len(z.left) = Len(x.left) - 1
    <3> HIDE DEF x, minis
    <3> QED BY <2>1, ForwardedState
  <2>3. TrainedState(trained[r], z, Parts(r), at)
    <3>1. z.mini = x.mini /\ x.at # "done" /\ z.at # "done"
      BY <2>1, <2>2
    <3> HIDE DEF z, x
    <3> QED BY <2>1, <3>1, TrainedSame
  <2> QED BY <2>2, <2>3
<1> HIDE DEF y
<1>3. \A q, r \in Ranks : Together(y(q), y(r), dynamic)
  <2> TAKE q \in Ranks, r \in Ranks
  <2>1. Together(rank[q], rank[r], dynamic)
    BY InvParts
  <2>2. Len(rank[q].left) = Len(rank[r].left) /\ rank[q].mini = rank[r].mini
    BY <1>1, <2>1 DEF Together, Turn
  <2>3. Len(y(q).left) = Len(y(r).left) /\ y(q).mini = y(r).mini /\ y(q).at = y(r).at
    BY <1>2, <2>2
  <2>4. Turn(y(q)) = Turn(y(r))
    BY <2>3 DEF Turn
  <2> QED BY <2>3, <2>4 DEF Together
<1>4. \A r \in Ranks : rank'[r] = y(r) /\ trained'[r] = trained[r]
  BY <1>1
<1>5. rank' = [r \in Ranks |-> rank'[r]] /\ trained' = [r \in Ranks |-> trained'[r]]
  <2>1. trained = [r \in Ranks |-> trained[r]]
    BY InvParts DEF TrainedOK
  <2> QED BY <1>1, <1>4, <2>1
<1>6. \A r \in Ranks : RankState(rank'[r], Minis(r), lens, dynamic, at)
  BY <1>2, <1>4
<1>7. \A r \in Ranks : TrainedState(trained'[r], rank'[r], Parts(r), at)
  BY <1>2, <1>4
<1>8. \A q, r \in Ranks : Together(rank'[q], rank'[r], dynamic)
  BY <1>3, <1>4
<1> QED BY <1>1, <1>5, <1>6, <1>7, <1>8, RanksStep

\* The controller reorders the batch.
LEMMA BalanceStep ==
    ASSUME Inv, Balance
    PROVE Inv'
<1>1. /\ at = "new" /\ at' = "log_prob" /\ UNCHANGED <<lens, dynamic, rank, result, trained>>
      /\ LET parts == Partitions([i \in 1..NumRows |-> Workload(lens[i])], DpSize, TRUE)
         IN  order' \in {order, FlattenSeq([p \in 1..DpSize |-> SmallOutside(parts[p])])}
  BY DEF Balance
<1>2. /\ LensOK /\ dynamic \in BOOLEAN /\ order = Counting(NumRows) /\ result = <<>>
      /\ Enumerates(order, RowSet)
  BY <1>1, InvParts DEF BatchOK
<1>3. order' = order \/ order' = Reordered
  <2>1. [i \in 1 .. NumRows |-> Workload(lens[i])] = Loads
    BY DEF Loads, RowSet
  <2>2. order' \in {order, FlattenSeq([p \in 1 .. DpSize |-> SmallOutside(Partitions(Loads, DpSize, TRUE)[p])])}
    BY <1>1, <2>1, Zenon
  <2> QED BY <2>2 DEF Reordered
<1>4. Enumerates(order', RowSet)
  BY <1>2, <1>3, ReorderedIs
<1>5. (order = Counting(NumRows) \/ EvenWork(order))'
  <2>1. CASE order' = order
    BY <1>2, <2>1 DEF Counting
  <2>2. CASE order' = Reordered
    <3>1. EvenWork(Reordered)
      BY <1>2, ReorderedIs
    <3>2. Max(Gaps)' = Max(Gaps)
      BY <1>1 DEF Gaps, Gap, Loads
    <3>3. \A p \in 1 .. DpSize : Work(Chunk(order, DpSize)[p])' = Work(Chunk(Reordered, DpSize)[p])
      BY <1>1, <2>2 DEF Work
    <3>4. EvenWork(order)'
      BY <3>1, <3>2, <3>3 DEF EvenWork
    <3> QED BY <3>4
  <2> QED BY <1>3, <2>1, <2>2
<1>6. BatchOK'
  BY <1>1, <1>2, <1>4, <1>5 DEF BatchOK, LensOK
<1>7. ASSUME NEW r \in Ranks
      PROVE /\ RankState(rank[r], Minis(r), lens, dynamic, at)'
            /\ TrainedState(trained[r], rank[r], Parts(r), at)'
  <2> DEFINE x == rank[r]
             minis == Minis(r)'
  <2>1. RankState(x, Minis(r), lens, dynamic, "new") /\ TrainedState(trained[r], x, Parts(r), "new")
    BY <1>1, InvParts
  <2>2. Len(minis) = 1
    BY <1>1 DEF Minis
  <2> HIDE DEF minis
  <2>3. /\ x \in RankRec /\ x.at = "count" /\ x.mini = 1 /\ x.number \in 0 .. NumRows /\ Fresh(x)
        /\ trained[r] \in Seq(Seq(RowSet)) /\ Len(trained[r]) = 0
    BY <2>1 DEF RankState, TrainedState
  <2> HIDE DEF x
  <2>4. RankState(x, minis, lens, dynamic, "log_prob")
    BY <2>2, <2>3 DEF RankState
  <2>5. TrainedState(trained[r], x, Parts(r)', "log_prob")
    BY <2>3 DEF TrainedState
  <2> QED BY <1>1, <2>4, <2>5 DEF x, minis
<1>8. RanksOK'
  <2>1. rank = [r \in Ranks |-> rank[r]]
    BY InvParts DEF RanksOK
  <2> QED BY <1>1, <1>7, <2>1 DEF RanksOK
<1>9. TrainedOK'
  <2>1. trained = [r \in Ranks |-> trained[r]]
    BY InvParts DEF TrainedOK
  <2> QED BY <1>1, <1>7, <2>1 DEF TrainedOK
<1>10. InStep'
  BY <1>1, InvParts DEF InStep
<1> QED BY <1>6, <1>8, <1>9, <1>10 DEF Inv

\* Every rank has gone through its rows.
LEMMA AllDone ==
    ASSUME Inv, at \in {"log_prob", "update"}, \A r \in Ranks : rank[r].at = "done"
    PROVE /\ \A r \in Ranks : at = "log_prob" => rank[r].out = RowsOf(r)
          /\ \A r \in Ranks : at = "update" => TrainedState(trained[r], Fresher(1), Parts(r), "over")
          /\ at = "log_prob" => Collected = order
<1>1. ASSUME NEW r \in Ranks, at = "log_prob" PROVE rank[r].out = RowsOf(r)
  <2> DEFINE x == rank[r]
             minis == Minis(r)
  <2>1. RankState(x, minis, lens, dynamic, at) /\ x.at = "done" /\ x.mini \in 1 .. Len(minis)
    BY InvParts
  <2>2. x.out = minis[x.mini] /\ x.mini = Len(minis)
    BY <1>1, <2>1 DEF RankState
  <2>3. minis = <<RowsOf(r)>>
    BY <1>1 DEF Minis
  <2>4. Len(minis) = 1 /\ minis[1] = RowsOf(r)
    <3> HIDE DEF minis
    <3> QED BY <2>3
  <2> HIDE DEF minis
  <2> QED BY <2>2, <2>4
<1>2. ASSUME NEW r \in Ranks, at = "update" PROVE TrainedState(trained[r], Fresher(1), Parts(r), "over")
  <2> DEFINE x == rank[r]
             minis == Minis(r)
  <2>1. RankState(x, minis, lens, dynamic, at) /\ x.at = "done" /\ TrainedState(trained[r], x, Parts(r), at)
    BY InvParts
  <2>2. minis = Parts(r)
    BY <1>2 DEF Minis, Parts
  <2>3. x.mini = Len(minis)
    BY <2>1 DEF RankState
  <2> HIDE DEF x, minis
  <2>4. Len(trained[r]) = Len(Parts(r))
    BY <1>2, <2>1, <2>2, <2>3 DEF TrainedState
  <2> QED BY <2>1, <2>4 DEF TrainedState
<1>3. ASSUME at = "log_prob" PROVE Collected = order
  <2>1. RankAssumption(DpSize) /\ DpSize \in Nat \ {0}
    BY ConstantsAre DEF RankAssumption
  <2>2. Enumerates(order, RowSet)
    BY InvParts
  <2>3. PICK c \in Nat \ {0} : EvenParts(order, DpSize, c)
    BY <2>2, OrderIs
  <2> DEFINE s == Chunk(order, DpSize)
             outs == [r \in Ranks |-> rank[r].out]
  <2>4. Concat(s) = order /\ s \in Seq(Seq(RowSet)) /\ Len(s) = DpSize
    BY <2>1, <2>2, <2>3, ChunksDealt
  <2>5. outs = [r \in Ranks |-> s[DpRank[r]]]
    BY <1>1, <1>3 DEF RowsOf
  <2>6. Kept(outs, {r \in Ranks : Collects[r]}) = s
    <3> DEFINE D == DpSize
    <3> HIDE DEF s, outs, D
    <3> QED BY <2>1, <2>4, <2>5, KeptChunks DEF D
  <2>7. Collected = Concat(s)
    BY <2>6 DEF Collected
  <2> QED BY <2>4, <2>7
<1> QED BY <1>1, <1>2, <1>3

\* The controller collects what the ranks return.
LEMMA CollectStep ==
    ASSUME Inv, Collect
    PROVE Inv'
<1>1. /\ at \in {"log_prob", "update"} /\ \A r \in Ranks : rank[r].at = "done"
      /\ rank' = [r \in Ranks |-> Fresher(1)] /\ UNCHANGED <<lens, dynamic, order, trained>>
      /\ IF at = "log_prob" THEN at' = "update" /\ result' = Collected
                            ELSE at' = "over" /\ UNCHANGED result
  BY StartIs DEF Collect
<1>2. BatchOK'
  <2>1. BatchOK
    BY InvParts
  <2>2. EvenWork(order)' <=> EvenWork(order)
    BY <1>1, WorkSame
  <2>3. result' = order /\ at' \in {"update", "over"}
    <3>1. at = "log_prob" => Collected = order
      BY <1>1, AllDone
    <3>2. at = "update" => result = order
      BY <2>1 DEF BatchOK
    <3> QED BY <1>1, <3>1, <3>2
  <2> QED BY <1>1, <2>1, <2>2, <2>3 DEF BatchOK, LensOK
<1>3. \A r \in Ranks : RowsOf(r)' = RowsOf(r) /\ Parts(r)' = Parts(r)
  BY <1>1 DEF RowsOf, Parts
<1>4. ASSUME NEW r \in Ranks
      PROVE /\ RankState(rank[r], Minis(r), lens, dynamic, at)'
            /\ TrainedState(trained[r], rank[r], Parts(r), at)'
  <2>1. rank'[r] = Fresher(1)
    BY <1>1
  <2>2. 1 \in 1 .. Len(Minis(r)')
    <3>1. MinisOK(Parts(r))
      BY InvParts
    <3>2. Minis(r)' = (IF at' = "update" THEN Parts(r) ELSE <<RowsOf(r)>>)
      BY <1>3 DEF Minis, Parts
    <3>3. Len(<<RowsOf(r)>>) = 1
      OBVIOUS
    <3>4. Len(Parts(r)) \in Nat \ {0}
      BY <3>1 DEF MinisOK
    <3>5. Len(Minis(r)') \in Nat \ {0}
      BY <3>2, <3>3, <3>4
    <3> QED BY <3>5
  <2>3. RankState(Fresher(1), Minis(r)', lens', dynamic', at')
    <3> DEFINE minis == Minis(r)'
    <3> HIDE DEF minis
    <3>1. 1 \in 1 .. Len(minis)
      BY <2>2 DEF minis
    <3>2. RankState(Fresher(1), minis, lens', dynamic', at')
      BY <3>1, FresherState
    <3> QED BY <3>2 DEF minis
  <2>4. TrainedState(trained[r], Fresher(1), Parts(r), at')
    <3>1. CASE at = "log_prob"
      <4>1. TrainedState(trained[r], rank[r], Parts(r), "log_prob")
        BY <3>1, InvParts
      <4>2. trained[r] \in Seq(Seq(RowSet)) /\ Len(trained[r]) = 0
        BY <4>1 DEF TrainedState
      <4>3. at' = "update" /\ Fresher(1).at = "count" /\ Fresher(1).mini - 1 = 0
        BY <1>1, <3>1 DEF Fresher
      <4> QED BY <4>2, <4>3 DEF TrainedState
    <3>2. CASE at = "update"
      BY <1>1, <3>2, AllDone
    <3> QED BY <1>1, <3>1, <3>2
  <2> QED BY <1>1, <1>3, <2>1, <2>3, <2>4
<1>5. RanksOK'
  <2>1. rank' = [r \in Ranks |-> rank'[r]]
    BY <1>1
  <2> QED BY <1>4, <2>1 DEF RanksOK
<1>6. TrainedOK'
  <2>1. trained = [r \in Ranks |-> trained[r]]
    BY InvParts DEF TrainedOK
  <2> QED BY <1>1, <1>4, <2>1 DEF TrainedOK
<1>7. InStep'
  <2>1. \A q, r \in Ranks : Together(rank'[q], rank'[r], dynamic')
    BY <1>1, TogetherSelf
  <2> QED BY <2>1 DEF InStep
<1> QED BY <1>2, <1>5, <1>6, <1>7 DEF Inv

\* Nothing changes.
LEMMA StutterStep ==
    ASSUME Inv, UNCHANGED vars
    PROVE Inv'
<1>1. UNCHANGED <<lens, dynamic, order, at, result, rank, trained>>
  BY DEF vars
<1>2. /\ rank = [r \in Ranks |-> rank[r]] /\ trained = [r \in Ranks |-> trained[r]]
      /\ \A r \in Ranks : /\ RankState(rank[r], Minis(r), lens, dynamic, at)
                          /\ TrainedState(trained[r], rank[r], Parts(r), at)
      /\ \A q, r \in Ranks : Together(rank[q], rank[r], dynamic)
  BY InvParts DEF RanksOK, TrainedOK
<1>3. /\ rank' = [r \in Ranks |-> rank'[r]] /\ trained' = [r \in Ranks |-> trained'[r]]
      /\ \A r \in Ranks : RankState(rank'[r], Minis(r), lens, dynamic, at)
      /\ \A r \in Ranks : TrainedState(trained'[r], rank'[r], Parts(r), at)
      /\ \A q, r \in Ranks : Together(rank'[q], rank'[r], dynamic)
  BY <1>1, <1>2
<1> QED BY <1>1, <1>3, RanksStep

\* Every step keeps the invariant.
LEMMA InvNext == Inv /\ [Next]_vars => Inv'
<1> SUFFICES ASSUME Inv, [Next]_vars PROVE Inv'
  OBVIOUS
<1>1. CASE Balance
  BY <1>1, BalanceStep
<1>2. CASE Collect
  BY <1>2, CollectStep
<1>3. ASSUME NEW r \in Ranks, Count(r) PROVE Inv'
  BY <1>3, CountStep
<1>4. ASSUME NEW r \in Ranks, EndMini(r) PROVE Inv'
  BY <1>4, EndStep
<1>5. CASE Reduce
  BY <1>5, ReduceStep
<1>6. CASE Forward
  BY <1>6, ForwardStep
<1>7. CASE UNCHANGED vars
  BY <1>7, StutterStep
<1> QED BY <1>1, <1>2, <1>3, <1>4, <1>5, <1>6, <1>7 DEF Next, Terminated

\* The inductive invariant: the batch, each rank, its training, and the ranks
\* in step.
THEOREM InvHolds == Spec => []Inv
<1>1. Init => Inv
  BY InitInv
<1>2. Inv /\ [Next]_vars => Inv'
  BY InvNext
<1> QED BY <1>1, <1>2, PTL DEF Spec

\* The micro-batches of a rank are parts of its mini-batch.
LEMMA ListsHold ==
    ASSUME NEW x, NEW minis, MinisOK(minis), NEW ls, NEW dyn, NEW now, RankState(x, minis, ls, dyn, now)
    PROVE /\ \A i \in DOMAIN x.lists : x.lists[i] # <<>>
          /\ x.at \in {"forward", "mini"} => /\ Range(FlattenSeq(x.lists)) = DOMAIN minis[x.mini]
                                             /\ Len(FlattenSeq(x.lists)) = Len(minis[x.mini])
<1> DEFINE lists == x.lists
           rows == minis[x.mini]
           m == Len(rows)
<1>1. x \in RankRec /\ x.mini \in 1 .. Len(minis) /\ x.at \in {"count", "reduce", "forward", "mini", "done"}
  BY DEF RankState, RankRec
<1>2. lists \in Seq(Seq(Nat)) /\ DOMAIN lists = 1 .. Len(lists)
  <2>1. lists \in Seq(Seq(Nat))
    BY <1>1, RankRecFields
  <2> HIDE DEF lists
  <2> QED BY <2>1
<1>3. CASE x.at \in {"count", "reduce"}
  <2>1. lists = <<>>
    BY <1>3 DEF RankState, Fresh
  <2> HIDE DEF lists
  <2>2. DOMAIN lists = {}
    BY <2>1
  <2> QED BY <1>3, <2>2 DEF lists
<1>4. CASE x.at = "done"
  <2>1. NoneEmpty(lists)
    BY <1>4 DEF RankState
  <2> QED BY <1>2, <1>4, <2>1 DEF NoneEmpty
<1>5. CASE x.at \in {"forward", "mini"}
  <2>1. InMini(x, rows, dyn)
    BY <1>5 DEF RankState
  <2>2. PICK k : CutAt(lists, x.left, x.out, rows, k)
    BY <2>1 DEF InMini
  <2>3. \A i \in 1 .. Len(lists) : lists[i] # <<>>
    BY <2>2 DEF CutAt, Parted
  <2>4. Enumerates(Concat(lists), 1 .. m)
    BY <2>2 DEF CutAt, Parted
  <2>5. rows \in Seq(RowSet) /\ DOMAIN rows = 1 .. m /\ m \in Nat
    <3>1. rows \in Seq(RowSet)
      BY <1>1 DEF MinisOK
    <3> HIDE DEF rows
    <3> QED BY <3>1
  <2> HIDE DEF lists, m, rows
  <2>6. Range(Concat(lists)) = 1 .. m
    BY <2>4, RangeIs
  <2>7. Len(Concat(lists)) = m
    <3>1. Cardinality(1 .. m) = Len(Concat(lists))
      BY <2>4, EnumSize
    <3>2. Cardinality(0 + 1 .. 0 + m) = m
      BY <2>5, IntervalSize
    <3>3. 0 + m = m /\ 0 + 1 = 1
      BY <2>5
    <3> QED BY <3>1, <3>2, <3>3
  <2>8. Concat(lists) = FlattenSeq(lists)
    BY DEF Concat
  <2> QED BY <1>2, <2>3, <2>5, <2>6, <2>7, <2>8 DEF lists, rows, m
<1> QED BY <1>1, <1>3, <1>4, <1>5

\* The invariant contains the types.
LEMMA InvType == Inv => TypeOK
<1> SUFFICES ASSUME Inv PROVE TypeOK
  OBVIOUS
<1>1. BatchOK /\ Enumerates(order, RowSet) /\ lens \in [RowSet -> Lengths]
  BY InvParts
<1>2. order \in [RowSet -> RowSet] /\ Range(order) = RowSet /\ order \in Seq(RowSet)
  <2>1. Len(order) = NumRows
    BY <1>1, OrderIs
  <2>2. order \in Seq(RowSet)
    BY <1>1 DEF Enumerates
  <2>3. order \in [1 .. Len(order) -> RowSet]
    BY <2>2
  <2>4. Range(order) = RowSet
    BY <1>1, RangeIs
  <2> QED BY <2>1, <2>2, <2>3, <2>4 DEF RowSet
<1>3. result \in Seq(RowSet)
  <2>1. result = order \/ result = <<>>
    BY <1>1 DEF BatchOK
  <2>2. CASE result = order
    BY <1>2, <2>2
  <2>3. CASE result = <<>>
    BY <2>3
  <2> QED BY <2>1, <2>2, <2>3
<1>4. ASSUME NEW r \in Ranks
      PROVE /\ rank[r].at \in {"count", "reduce", "forward", "mini", "done"}
            /\ rank[r].mini \in 1..Len(Minis(r)) /\ rank[r].number \in 0..NumRows
            /\ \A i \in DOMAIN rank[r].lists : rank[r].lists[i] # <<>>
            /\ rank[r].at \in {"forward", "mini"} =>
                 /\ Range(FlattenSeq(rank[r].lists)) = DOMAIN Mini(r)
                 /\ Len(FlattenSeq(rank[r].lists)) = Len(Mini(r))
  <2> DEFINE x == rank[r]
             minis == Minis(r)
  <2>1. RankState(x, minis, lens, dynamic, at) /\ MinisOK(minis)
    BY InvParts
  <2>2. Mini(r) = minis[x.mini]
    BY DEF Mini
  <2> HIDE DEF x, minis
  <2>3. /\ x.at \in {"count", "reduce", "forward", "mini", "done"}
        /\ x.mini \in 1..Len(minis) /\ x.number \in 0..NumRows
    BY <2>1 DEF RankState, RankRec
  <2>4. /\ \A i \in DOMAIN x.lists : x.lists[i] # <<>>
        /\ x.at \in {"forward", "mini"} => /\ Range(FlattenSeq(x.lists)) = DOMAIN minis[x.mini]
                                           /\ Len(FlattenSeq(x.lists)) = Len(minis[x.mini])
    BY <2>1, ListsHold
  <2> QED BY <2>2, <2>3, <2>4 DEF x, minis
<1> QED BY <1>1, <1>2, <1>3, <1>4 DEF TypeOK, BatchOK

\* Every variable has its type; the batch is a permutation of its rows, and
\* the micro-batches of a rank part its mini-batch (_balance_batch,
\* rearrange_micro_batches).
THEOREM DispatchTypeCorrect == Spec => []TypeOK
<1>1. Inv => TypeOK
  BY InvType
<1> QED BY <1>1, InvHolds, PTL

\* compute_log_prob returns each row's result at the place of that row: the
\* dispatch, the micro-batches and the collection undo each other.
THEOREM ResultsAlwaysInPlace == Spec => []ResultsInPlace
<1>1. Inv => ResultsInPlace
  BY DEF Inv, BatchOK, ResultsInPlace
<1> QED BY <1>1, InvHolds, PTL

\* Ranks inside a mini-batch have the same number of micro-batches left: none
\* waits in a collective the others do not enter.
THEOREM AlwaysInLockstep == Spec => []Lockstep
<1>1. Inv => Lockstep
  BY DEF Inv, InStep, Together, Lockstep
<1> QED BY <1>1, InvHolds, PTL

\* A rank was updated with each of its rows once.
LEMMA TrainedRows ==
    ASSUME Inv, at = "over", NEW r \in Ranks
    PROVE Enumerates(Concat(trained[r]), Elements(RowsOf(r)))
<1> DEFINE parts == Parts(r)
           t == trained[r]
           rows == RowsOf(r)
           n == Len(parts)
           A == [m \in 1 .. n |-> Elements(parts[m])]
<1>1. TrainedState(t, rank[r], parts, "over")
  BY InvParts
<1>2. Dealt(parts, n, Elements(rows)) /\ n \in Nat
  <2>1. MiniSize \in Nat \ {0}
    BY ConstantsAre
  <2>2. PICK c \in Nat \ {0} : /\ c <= NumRows
            /\ \A q \in Ranks : /\ RowsOf(q) \in Seq(RowSet) /\ Len(RowsOf(q)) = c
                                /\ Enumerates(RowsOf(q), Elements(RowsOf(q)))
                                /\ Elements(RowsOf(q)) \subseteq RowSet
    BY InvParts, RowsAreDealt
  <2>3. Enumerates(rows, Elements(rows)) /\ rows \in Seq(RowSet) /\ Len(rows) \in Nat
    BY <2>2
  <2>4. Dealt(Split(rows, MiniSize), CeilDiv(Len(rows), MiniSize), Elements(rows))
    BY <2>1, <2>3, SplitDeals
  <2>5. n = CeilDiv(Len(rows), MiniSize)
    <3>1. Len(Split(rows, MiniSize)) = CeilDiv(Len(rows), MiniSize)
      BY <2>1, <2>3, SplitParts
    <3> QED BY <3>1 DEF Parts
  <2>6. n \in Nat
    <3>1. MinisOK(parts)
      BY InvParts
    <3> QED BY <3>1 DEF MinisOK
  <2> QED BY <2>4, <2>5, <2>6 DEF Parts
<1> HIDE DEF parts, t, rows, n
<1>3. EnumEach(t, A, n)
  <2>1. Len(t) = n /\ \A m \in 1 .. n : Enumerates(t[m], Elements(parts[m]))
    BY <1>1 DEF TrainedState, n
  <2> QED BY <2>1 DEF EnumEach
<1>4. Apart(A, n) /\ AllOf(A, n) = Elements(rows)
  BY <1>2 DEF Dealt
<1> HIDE DEF A
<1>5. Enumerates(Concat(t), AllOf(A, n))
  BY <1>2, <1>3, <1>4, EnumConcat
<1> QED BY <1>4, <1>5 DEF t, rows

\* How often a rank was updated with a row.
LEMMA OnceForAll ==
    ASSUME Inv, at = "over", NEW i \in RowSet, NEW r \in Ranks
    PROVE Bag(Concat(trained[r]))[i] = IF i \in Elements(RowsOf(r)) THEN 1 ELSE 0
<1>1. Enumerates(Concat(trained[r]), Elements(RowsOf(r)))
  BY TrainedRows
<1>2. CountOf(Concat(trained[r]), i) = IF i \in Elements(RowsOf(r)) THEN 1 ELSE 0
  BY <1>1, EnumCount
<1> QED BY <1>2 DEF Bag, CountOf

\* A row is with one data parallel rank.
LEMMA RowsApart ==
    ASSUME Inv, NEW i \in RowSet
    PROVE /\ \A q, r \in Ranks : i \in Elements(RowsOf(q)) /\ i \in Elements(RowsOf(r)) => DpRank[q] = DpRank[r]
          /\ \A q, r \in Ranks : i \in Elements(RowsOf(q)) /\ DpRank[q] = DpRank[r] => i \in Elements(RowsOf(r))
          /\ \E q \in Ranks : i \in Elements(RowsOf(q))
<1>1. /\ DpSize \in Nat \ {0} /\ \A r \in Ranks : DpRank[r] \in 1 .. DpSize
      /\ \A d \in 1 .. DpSize : \E r \in Ranks : DpRank[r] = d
  BY ConstantsAre DEF RankAssumption
<1>2. Enumerates(order, RowSet)
  BY InvParts
<1>3. PICK c \in Nat \ {0} : EvenParts(order, DpSize, c)
  BY <1>2, OrderIs
<1> DEFINE s == Chunk(order, DpSize)
           D == DpSize
           A == [m \in 1 .. D |-> Elements(s[m])]
<1>4. Dealt(s, D, RowSet)
  BY <1>1, <1>2, <1>3, ChunksDealt
<1>5. \A r \in Ranks : RowsOf(r) = s[DpRank[r]]
  BY DEF RowsOf
<1> HIDE DEF s, D
<1>6. Apart(A, D) /\ AllOf(A, D) = RowSet
  BY <1>4 DEF Dealt
<1>7. \A r \in Ranks : Elements(RowsOf(r)) = A[DpRank[r]]
  BY <1>1, <1>5 DEF D
<1>8. \A d, e \in 1 .. D : d # e => A[d] \cap A[e] = {}
  BY <1>6 DEF Apart
<1>9. \E d \in 1 .. D : i \in A[d]
  BY <1>6 DEF AllOf
<1> HIDE DEF A
<1> QED BY <1>1, <1>7, <1>8, <1>9 DEF D

\* Every row of the batch is in exactly one update, on each of the ranks that
\* share a data parallel rank and on no other (update_policy).
THEOREM EachRowTrainedOnce == Spec => []TrainedOnce
<1>1. Inv => TrainedOnce
  <2> SUFFICES ASSUME Inv, at = "over", NEW i \in RowSet, NEW r \in Ranks
               PROVE LET mine == {j \in Ranks : DpRank[j] = DpRank[r]}
                         rows(q) == Concat(trained[q])
                     IN  /\ Bag(rows(r))[i] <= 1
                         /\ Bag(rows(r))[i] = 1 => \A q \in Ranks : Bag(rows(q))[i] = (IF q \in mine THEN 1 ELSE 0)
                         /\ \E q \in Ranks : Bag(rows(q))[i] = 1
    BY DEF TrainedOnce
  <2>1. \A q \in Ranks : Bag(Concat(trained[q]))[i] = IF i \in Elements(RowsOf(q)) THEN 1 ELSE 0
    BY OnceForAll
  <2>2. /\ \A q \in Ranks : i \in Elements(RowsOf(q)) /\ i \in Elements(RowsOf(r)) => DpRank[q] = DpRank[r]
        /\ \A q \in Ranks : i \in Elements(RowsOf(r)) /\ DpRank[q] = DpRank[r] => i \in Elements(RowsOf(q))
        /\ \E q \in Ranks : i \in Elements(RowsOf(q))
    BY RowsApart
  <2> QED BY <2>1, <2>2
<1> QED BY <1>1, InvHolds, PTL

\* After _balance_batch the work of two ranks differs by no more than that of
\* rows next to each other in the order of their work.
THEOREM WorkAlwaysBalanced == Spec => []RanksBalanced
<1>1. Inv => RanksBalanced
  <2> SUFFICES ASSUME Inv, order # [i \in RowSet |-> i], NEW q \in Ranks, NEW r \in Ranks
               PROVE LET loads == [i \in RowSet |-> Workload(lens[i])]
                         work  == Ordered(loads, Ascending(loads))
                         gap(o) == work[(o + 1) * DpSize] - work[(o * DpSize) + 1]
                     IN  Work(RowsOf(q)) - Work(RowsOf(r)) <= Max({gap(o) : o \in 0..((NumRows \div DpSize) - 1)})
    BY DEF RanksBalanced
  <2>1. Work(RowsOf(q)) <= Work(RowsOf(r)) + Max(Gaps)
    <3>1. EvenWork(order)
      BY InvParts DEF BatchOK, Counting, RowSet
    <3>2. DpRank[q] \in 1 .. DpSize /\ DpRank[r] \in 1 .. DpSize
      BY ConstantsAre DEF RankAssumption
    <3> QED BY <3>1, <3>2 DEF EvenWork, RowsOf
  <2>2. LensOK
    BY InvParts DEF BatchOK
  <2>3. Max(Gaps) \in Nat
    BY <2>2, GapsAre
  <2>4. \A p \in Ranks : Work(RowsOf(p)) \in Nat
    <3> TAKE p \in Ranks
    <3>1. Enumerates(RowsOf(p), Elements(RowsOf(p))) /\ Elements(RowsOf(p)) \in SUBSET RowSet
      BY InvParts, RowsAreDealt
    <3>2. Work(RowsOf(p)) = Load(Loads, Elements(RowsOf(p)))
      BY <2>2, <3>1, WorkIsLoad
    <3>3. Loads \in Seq(Nat)
      BY <2>2, LoadsAre
    <3> QED BY <3>2, <3>3, LoadType
  <2> DEFINE a == Work(RowsOf(q))
             b == Work(RowsOf(r))
             g == Max(Gaps)
  <2>5. a <= b + g /\ a \in Nat /\ b \in Nat /\ g \in Nat
    BY <2>1, <2>3, <2>4
  <2> HIDE DEF a, b, g
  <2>6. a - b <= g
    BY <2>5
  <2> QED BY <2>6 DEF a, b, g, Gaps, Gap, Loads
<1> QED BY <1>1, InvHolds, PTL
===============================================================================
