------------------------ MODULE SeqlenBalancing_proofs ------------------------
(***************************************************************************)
(* What karmarkar_karp and rearrange_micro_batches do to rows of any       *)
(* lengths: the assertions of karmarkar_karp never fail, every row is in   *)
(* one part, no part is empty, and parts of the same size differ in their  *)
(* sums by no more than rows next to each other in the order of the rows.  *)
(***************************************************************************)
EXTENDS SeqlenBalancing, DataProto_proofs

\* What restore_dynamic_batch does to rows that went through in the order of a
\* permutation of their places.
LEMMA RestoredFacts ==
    ASSUME NEW S, NEW rows \in Seq(S), NEW lists, Enumerates(Concat(lists), 1 .. Len(rows))
    PROVE Restored(Mapped(rows, Concat(lists)), lists) = rows
<1> DEFINE n == Len(rows)
           idx == Concat(lists)
           m == Mapped(rows, idx)
<1>1. n \in Nat /\ Enumerates(idx, 1 .. n)
  OBVIOUS
<1>2. Len(idx) = n /\ idx \in Seq(1 .. n)
  <2>1. Cardinality(1 .. n) = Len(idx)
    BY <1>1, EnumSize
  <2>2. Cardinality(1 .. n) = n
    <3>1. Cardinality(0 + 1 .. 0 + n) = n
      BY <1>1, IntervalSize
    <3>2. 0 + n = n /\ 0 + 1 = 1
      BY <1>1
    <3> QED BY <3>1, <3>2
  <2> QED BY <1>1, <2>1, <2>2 DEF Enumerates
<1>3. DOMAIN idx = 1 .. n /\ DOMAIN m = 1 .. n
  BY <1>2 DEF Mapped
<1>4. Restored(m, lists) = [i \in DOMAIN m |-> m[ReverseIdx(idx)[i]]]
  BY DEF Restored, Concat
<1> HIDE DEF n, idx
<1>5. ASSUME NEW j \in 1 .. n PROVE m[ReverseIdx(idx)[j]] = rows[j]
  <2> DEFINE i == CHOOSE i \in 1 .. n : idx[i] = j
  <2>1. ReverseIdx(idx)[j] = i
    BY <1>3 DEF ReverseIdx
  <2>2. \E k \in 1 .. n : idx[k] = j
    BY <1>1, <1>2 DEF Enumerates
  <2>3. i \in 1 .. n /\ idx[i] = j
    BY <2>2
  <2> HIDE DEF i
  <2>4. m[i] = rows[j]
    BY <1>2, <2>3 DEF Mapped
  <2> QED BY <2>1, <2>4
<1> DEFINE r == Restored(m, lists)
<1>6. r = [i \in 1 .. n |-> rows[i]]
  BY <1>3, <1>4, <1>5
<1>7. [i \in 1 .. n |-> rows[i]] = rows
  BY DEF n
<1> QED BY <1>6, <1>7 DEF idx

\* Rounding up: the parts cover n, and all of them are needed.
LEMMA CeilFacts ==
    ASSUME NEW n \in Nat, NEW size \in Nat \ {0}
    PROVE LET c == CeilDiv(n, size)
          IN  /\ c \in Nat /\ n <= c * size /\ (n = 0 => c = 0) /\ (n # 0 => c >= 1)
              /\ \A m \in 1 .. c : (m - 1) * size < n
              /\ n >= 1 => c <= n
<1> DEFINE c == CeilDiv(n, size)
           x == n + size - 1
           rest == x % size
           q == c * size
<1>1. x \in Nat
  OBVIOUS
<1>2. c = x \div size
  BY DEF CeilDiv
<1>3. c \in Nat /\ rest \in 0 .. size - 1 /\ x = (x \div size) * size + rest
  BY <1>1, <1>2, Divide
<1>4. q \in Nat
  BY <1>3, Multiple
<1>5. x = q + rest
  BY <1>2, <1>3
<1>6. n <= q /\ q < n + size
  <2> HIDE DEF q, rest, c
  <2> QED BY <1>3, <1>4, <1>5
<1>7. ASSUME n = 0 PROVE c = 0
  <2>1. q < size
    <3> HIDE DEF q
    <3> QED BY <1>6, <1>7
  <2>2. CASE c >= 1
    <3> HIDE DEF c
    <3>1. 1 * size <= c * size
      BY <1>3, <2>2, Multiple
    <3>2. size <= q /\ 1 * size = size
      BY <3>1
    <3> HIDE DEF q
    <3> QED BY <1>4, <2>1, <3>2
  <2> HIDE DEF c
  <2> QED BY <1>3, <2>2
<1>8. ASSUME n # 0 PROVE c >= 1
  <2>1. c = 0 => q = 0
    OBVIOUS
  <2> HIDE DEF q, c
  <2> QED BY <1>3, <1>6, <1>8, <2>1
<1>9. ASSUME NEW m \in 1 .. c PROVE (m - 1) * size < n
  <2> DEFINE a == (m - 1) * size
  <2>1. m - 1 \in Nat /\ m \in Nat /\ m <= c
    BY <1>3
  <2>2. a \in Nat /\ m * size <= q /\ m * size = a + size
    <3>1. a \in Nat /\ m * size <= c * size
      BY <1>3, <2>1, Multiple
    <3>2. m * size = (m - 1) * size + size
      BY <2>1
    <3> QED BY <3>1, <3>2
  <2> HIDE DEF a, q
  <2>3. a < n
    BY <1>4, <1>6, <2>2
  <2> QED BY <2>3 DEF a
<1>10. ASSUME n >= 1 PROVE c <= n
  <2>1. CASE c >= n + 1
    <3>1. (n + 1) * size <= c * size
      BY <1>3, <2>1, Multiple
    <3>2. (n + 1) * size = n * size + size
      OBVIOUS
    <3>3. n * 1 <= n * size
      <4> DEFINE z == size - 1
      <4>1. z \in Nat /\ n * size = n * z + n
        OBVIOUS
      <4>2. n * z \in Nat
        BY <4>1, Multiple
      <4> HIDE DEF z
      <4> QED BY <4>1, <4>2
    <3> DEFINE nn == n * size
    <3>4. nn \in Nat
      BY Multiple
    <3> HIDE DEF nn, q
    <3>5. nn + size <= q /\ n <= nn
      BY <3>1, <3>2, <3>3 DEF nn, q
    <3> QED BY <1>4, <1>6, <3>4, <3>5
  <2> QED BY <1>3, <2>1
<1> QED BY <1>3, <1>6, <1>7, <1>8, <1>9, <1>10

-----------------------------------------------------------------------------
(* The order of the sets of a state.                                       *)

RowRec == [sum : Nat, rows : Seq(Nat)]

\* Sequences of rows of the same length are in a strict total order.
LEMMA RowsOrder ==
    ASSUME NEW a \in Seq(Nat), NEW b \in Seq(Nat), Len(a) = Len(b)
    PROVE /\ ~RowsLess(a, a)
          /\ a # b => RowsLess(a, b) \/ RowsLess(b, a)
          /\ \A c \in Seq(Nat) : Len(b) = Len(c) /\ RowsLess(a, b) /\ RowsLess(b, c) => RowsLess(a, c)
<1> DEFINE n == Len(a)
<1>0. /\ n \in Nat /\ DOMAIN a = 1 .. n /\ DOMAIN b = 1 .. n
      /\ \A i \in 1 .. n : a[i] \in Nat /\ b[i] \in Nat
  OBVIOUS
<1>1. ~RowsLess(a, a)
  BY <1>0 DEF RowsLess
<1>2. ASSUME a # b PROVE RowsLess(a, b) \/ RowsLess(b, a)
  <2> DEFINE T == {i \in 1 .. n : a[i] # b[i]}
  <2>1. T # {}
    <3> SUFFICES ASSUME T = {} PROVE FALSE
      OBVIOUS
    <3>1. \A i \in 1 .. n : a[i] = b[i]
      OBVIOUS
    <3>2. a = b
      BY <3>1, SeqEqual
    <3> QED BY <1>2, <3>2
  <2>2. T \in SUBSET Nat
    BY <1>0
  <2>3. PICK i \in T : \A j \in T : i <= j
    BY <2>1, <2>2, Least
  <2>4. i \in 1 .. n /\ i \in Nat /\ a[i] # b[i] /\ a[i] \in Nat /\ b[i] \in Nat
    BY <1>0, <2>2
  <2>5. \A j \in 1 .. i - 1 : j \in 1 .. n /\ ~(i <= j)
    BY <1>0, <2>4
  <2>6. \A j \in 1 .. i - 1 : a[j] = b[j]
    BY <2>3, <2>5
  <2>7. a[i] < b[i] \/ b[i] < a[i]
    BY <2>4
  <2> HIDE DEF T, n
  <2> QED BY <1>0, <2>4, <2>6, <2>7 DEF RowsLess
<1>3. ASSUME NEW c \in Seq(Nat), Len(b) = Len(c), RowsLess(a, b), RowsLess(b, c)
      PROVE RowsLess(a, c)
  <2>1. PICK i \in 1 .. n : a[i] < b[i] /\ \A m \in 1 .. i - 1 : a[m] = b[m]
    BY <1>0, <1>3 DEF RowsLess
  <2>2. PICK j \in 1 .. n : b[j] < c[j] /\ \A m \in 1 .. j - 1 : b[m] = c[m]
    BY <1>0, <1>3 DEF RowsLess
  <2>3. \A m \in 1 .. n : c[m] \in Nat
    <3>1. \A m \in 1 .. Len(c) : c[m] \in Nat
      BY ONLY c \in Seq(Nat)
    <3>2. n = Len(c)
      BY <1>3
    <3> QED BY <3>1, <3>2
  <2> HIDE DEF n
  <2>4. CASE i <= j
    <3>1. i = j \/ (i # j /\ i \in 1 .. j - 1)
      BY <1>0, <2>4
    <3>2. a[i] < c[i]
      <4> DEFINE x == a[i]
                 y == b[i]
                 z == c[i]
      <4>1. x \in Nat /\ y \in Nat /\ z \in Nat /\ x < y
        BY <1>0, <2>1, <2>3
      <4>2. y = z \/ y < z
        BY <2>2, <3>1
      <4> HIDE DEF x, y, z
      <4>3. x < z
        BY <4>1, <4>2
      <4> QED BY <4>3 DEF x, z
    <3>3. \A m \in 1 .. i - 1 : a[m] = c[m]
      BY <1>0, <2>1, <2>2, <2>4
    <3> QED BY <1>0, <3>2, <3>3 DEF RowsLess
  <2>5. CASE j < i
    <3>1. j \in 1 .. i - 1
      BY <1>0, <2>5
    <3>2. a[j] < c[j]
      BY <2>1, <2>2, <3>1
    <3>3. \A m \in 1 .. j - 1 : a[m] = c[m]
      BY <1>0, <2>1, <2>2, <2>5
    <3> QED BY <1>0, <3>2, <3>3 DEF RowsLess
  <2> QED BY <1>0, <2>4, <2>5
<1> QED BY <1>1, <1>2, <1>3

\* Set.__lt__ is a strict total order on sets of rows.
LEMMA SetOrder ==
    ASSUME NEW a \in RowRec, NEW b \in RowRec
    PROVE /\ ~SetLess(a, a)
          /\ a # b => SetLess(a, b) \/ SetLess(b, a)
          /\ \A c \in RowRec : SetLess(a, b) /\ SetLess(b, c) => SetLess(a, c)
<1>0. \A x \in RowRec : x.sum \in Nat /\ x.rows \in Seq(Nat) /\ Len(x.rows) \in Nat
  BY DEF RowRec
<1>1. ~SetLess(a, a)
  BY <1>0, RowsOrder DEF SetLess
<1>2. ASSUME a # b PROVE SetLess(a, b) \/ SetLess(b, a)
  <2>1. a.sum # b.sum \/ a.rows # b.rows
    BY <1>2 DEF RowRec
  <2>2. CASE a.sum # b.sum
    BY <1>0, <2>2 DEF SetLess
  <2>3. CASE a.sum = b.sum /\ Len(a.rows) # Len(b.rows)
    BY <1>0, <2>3 DEF SetLess
  <2>4. CASE a.sum = b.sum /\ Len(a.rows) = Len(b.rows)
    BY <1>0, <2>1, <2>4, RowsOrder DEF SetLess
  <2> QED BY <2>2, <2>3, <2>4
<1>3. ASSUME NEW c \in RowRec, SetLess(a, b), SetLess(b, c) PROVE SetLess(a, c)
  <2>1. CASE a.sum = b.sum /\ Len(a.rows) = Len(b.rows) /\ b.sum = c.sum /\ Len(b.rows) = Len(c.rows)
    <3>1. RowsLess(a.rows, b.rows) /\ RowsLess(b.rows, c.rows)
      BY <1>0, <1>3, <2>1 DEF SetLess
    <3>2. RowsLess(a.rows, c.rows)
      BY <1>0, <2>1, <3>1, RowsOrder
    <3> QED BY <2>1, <3>2 DEF SetLess
  <2>2. CASE a.sum < c.sum
    BY <2>2 DEF SetLess
  <2>3. CASE a.sum = c.sum /\ Len(a.rows) < Len(c.rows)
    BY <2>3 DEF SetLess
  <2>4. /\ a.sum < b.sum \/ (a.sum = b.sum /\ Len(a.rows) <= Len(b.rows))
        /\ b.sum < c.sum \/ (b.sum = c.sum /\ Len(b.rows) <= Len(c.rows))
    BY <1>0, <1>3 DEF SetLess
  <2> DEFINE u == a.sum
             v == b.sum
             w == c.sum
             l == Len(a.rows)
             m == Len(b.rows)
             n == Len(c.rows)
  <2>5. {u, v, w, l, m, n} \subseteq Nat
    BY <1>0, <1>3
  <2>6. (u < v \/ (u = v /\ l <= m)) /\ (v < w \/ (v = w /\ m <= n))
    BY <2>4
  <2> HIDE DEF u, v, w, l, m, n
  <2>7. u < w \/ (u = w /\ l < n) \/ (u = v /\ l = m /\ v = w /\ m = n)
    BY <2>5, <2>6
  <2> QED BY <2>1, <2>2, <2>3, <2>7 DEF u, v, w, l, m, n
<1> QED BY <1>1, <1>2, <1>3

\* b is at most a in sum and size.
AtMost(b, a) == b.sum < a.sum \/ (b.sum = a.sum /\ Len(b.rows) <= Len(a.rows))

Sorted(s) == \A i, j \in 1 .. Len(s) : i < j => AtMost(s[j], s[i])

\* The sorting of a state rearranges it, largest set first.
LEMMA DecreasingFacts ==
    ASSUME NEW s \in Seq(RowRec)
    PROVE Rearranges(Decreasing(s), s) /\ Sorted(Decreasing(s)) /\ Decreasing(s) \in Seq(RowRec)
          /\ Len(Decreasing(s)) = Len(s)
<1> DEFINE n == Len(s)
           before == [k \in DOMAIN s |-> {j \in DOMAIN s :
                         SetLess(s[k], s[j]) \/ (s[j] = s[k] /\ j < k)}]
<1>1. n \in Nat /\ DOMAIN s = 1 .. n /\ (\A i \in 1 .. n : s[i] \in RowRec) /\ \A i \in 1 .. n : i \in Nat
  OBVIOUS
<1>2. /\ before \in [1 .. n -> SUBSET (1 .. n)]
      /\ \A k \in 1 .. n : before[k] = {j \in 1 .. n : SetLess(s[k], s[j]) \/ (s[j] = s[k] /\ j < k)}
  BY <1>1
<1>3. Decreasing(s) = Ordered(s, before)
  BY DEF Decreasing
<1> HIDE DEF before
<1>4. \A j, k \in 1 .. n : j \in before[k] <=> SetLess(s[k], s[j]) \/ (s[j] = s[k] /\ j < k)
  BY <1>2
<1>5. IsOrder(before, n)
  <2>1. \A k \in 1 .. n : k \notin before[k]
    BY <1>1, <1>4, SetOrder
  <2>2. ASSUME NEW i \in 1 .. n, NEW j \in 1 .. n, NEW k \in 1 .. n, i \in before[j], j \in before[k]
        PROVE i \in before[k]
    <3>1. /\ SetLess(s[j], s[i]) \/ (s[i] = s[j] /\ i < j)
          /\ SetLess(s[k], s[j]) \/ (s[j] = s[k] /\ j < k)
      BY <1>4, <2>2
    <3>2. s[i] \in RowRec /\ s[j] \in RowRec /\ s[k] \in RowRec /\ i \in Nat /\ j \in Nat /\ k \in Nat
      BY <1>1
    <3>3. SetLess(s[k], s[j]) /\ SetLess(s[j], s[i]) => SetLess(s[k], s[i])
      BY <3>2, SetOrder
    <3>4. i < j /\ j < k => i < k
      BY <3>2
    <3>5. SetLess(s[k], s[i]) \/ (s[i] = s[k] /\ i < k)
      BY <3>1, <3>3, <3>4
    <3> QED BY <1>4, <3>5
  <2>3. ASSUME NEW j \in 1 .. n, NEW k \in 1 .. n, j # k
        PROVE j \in before[k] \/ k \in before[j]
    <3>1. s[j] \in RowRec /\ s[k] \in RowRec /\ (j < k \/ k < j)
      BY <1>1, <2>3
    <3>2. s[j] # s[k] => SetLess(s[j], s[k]) \/ SetLess(s[k], s[j])
      BY <3>1, SetOrder
    <3> QED BY <1>4, <3>1, <3>2
  <2> QED BY <1>2, <2>1, <2>2, <2>3 DEF IsOrder
<1> DEFINE pi == Sorting(before, n)
           d == Decreasing(s)
<1>6. /\ d = [i \in 1 .. n |-> s[pi[i]]]
      /\ Rearranges(d, s) /\ d \in Seq(RowRec) /\ Len(d) = n
  BY <1>3, <1>5, OrderedIs
<1>7. Follows(pi, before, n)
  BY <1>1, <1>5, SortingFollows
<1> HIDE DEF pi, d, n
<1>8. ASSUME NEW i \in 1 .. n, NEW j \in 1 .. n, i < j
      PROVE AtMost(d[j], d[i])
  <2>1. pi[i] \in before[pi[j]] /\ pi[i] \in 1 .. n /\ pi[j] \in 1 .. n
    BY <1>7, <1>8 DEF Follows, Permutes
  <2>2. SetLess(s[pi[j]], s[pi[i]]) \/ s[pi[i]] = s[pi[j]]
    BY <1>4, <2>1
  <2>3. d[i] = s[pi[i]] /\ d[j] = s[pi[j]] /\ d[i] \in RowRec /\ d[j] \in RowRec
    BY <1>1, <1>6, <2>1
  <2>4. Len(d[i].rows) \in Nat /\ d[i].sum \in Nat /\ Len(d[j].rows) \in Nat /\ d[j].sum \in Nat
    <3>1. \A x \in RowRec : x.sum \in Nat /\ Len(x.rows) \in Nat
      BY DEF RowRec
    <3> QED BY <2>3, <3>1
  <2>5. SetLess(d[j], d[i]) \/ d[i] = d[j]
    BY <2>2, <2>3
  <2> QED BY <2>4, <2>5 DEF SetLess, AtMost
<1>9. Sorted(d)
  BY <1>6, <1>8 DEF Sorted
<1> QED BY <1>6, <1>9 DEF d, n

-----------------------------------------------------------------------------
(* The states of the heap.                                                 *)

Size(x) == Len(x.rows)

Worth(x) == x.sum

Rows(x) == {x.rows[i] : i \in 1 .. Len(x.rows)}

\* A set of rows without repetitions, with the sum of their values.
SetOf(x, vals) ==
    /\ x \in RowRec /\ Rows(x) \subseteq 1 .. Len(vals)
    /\ Enumerates(x.rows, Rows(x))
    /\ Worth(x) = Load(vals, Rows(x))

State(s, vals, k) ==
    /\ s \in Seq(RowRec) /\ Len(s) = k
    /\ \A p \in 1 .. k : SetOf(s[p], vals)
    /\ \A p, q \in 1 .. k : p # q => Rows(s[p]) \cap Rows(s[q]) = {}

RowsIn(s) == UNION {Rows(s[p]) : p \in 1 .. Len(s)}

Even(s) == \A p, q \in 1 .. Len(s) : Size(s[p]) = Size(s[q])

Within(s, g) == \A p, q \in 1 .. Len(s) : Worth(s[p]) <= Worth(s[q]) + g

\* No set of the state has a second row while another has none.
AllFilled(s) == \A p \in 1 .. Len(s) : Size(s[p]) >= 1

NoneDouble(s) == \A p \in 1 .. Len(s) : Size(s[p]) <= 1

SpreadOut(s) == AllFilled(s) \/ NoneDouble(s)

\* The fields of a set of rows.
LEMMA RowRecParts ==
    \A x \in RowRec : Worth(x) \in Nat /\ x.rows \in Seq(Nat) /\ Size(x) \in Nat
BY DEF RowRec, Size, Worth

\* The order of two sets by sum and size.
LEMMA AtMostIs ==
    ASSUME NEW a, NEW b
    PROVE AtMost(b, a) <=> Worth(b) < Worth(a) \/ (Worth(b) = Worth(a) /\ Size(b) <= Size(a))
BY DEF AtMost, Size, Worth

\* A state in another order of its sets is as good.
LEMMA StateRearranged ==
    ASSUME NEW vals, NEW k \in Nat, NEW s, State(s, vals, k), NEW t, Rearranges(t, s), NEW g
    PROVE /\ State(t, vals, k) /\ RowsIn(t) = RowsIn(s)
          /\ Even(s) => Even(t)
          /\ Within(s, g) => Within(t, g)
          /\ SpreadOut(s) => SpreadOut(t)
<1>1. s \in Seq(RowRec) /\ Len(s) = k
  BY DEF State
<1>2. t \in Seq(RowRec) /\ Len(t) = k
  BY <1>1, RearrangedType
<1>3. PICK pi \in [1 .. k -> 1 .. k] : Permutes(pi, k) /\ t = [i \in 1 .. k |-> s[pi[i]]]
  BY <1>1 DEF Rearranges
<1>4. /\ \A i \in 1 .. k : pi[i] \in 1 .. k /\ t[i] = s[pi[i]]
      /\ \A i, j \in 1 .. k : i # j => pi[i] # pi[j]
      /\ \A i \in 1 .. k : \E j \in 1 .. k : pi[j] = i
  BY <1>3 DEF Permutes
<1>5. /\ \A p \in 1 .. k : SetOf(s[p], vals)
      /\ \A p, q \in 1 .. k : p # q => Rows(s[p]) \cap Rows(s[q]) = {}
  BY DEF State
<1>6. State(t, vals, k)
  <2>1. \A p \in 1 .. k : SetOf(t[p], vals)
    BY <1>4, <1>5
  <2>2. ASSUME NEW p \in 1 .. k, NEW q \in 1 .. k, p # q PROVE Rows(t[p]) \cap Rows(t[q]) = {}
    <3>1. pi[p] # pi[q] /\ pi[p] \in 1 .. k /\ pi[q] \in 1 .. k /\ t[p] = s[pi[p]] /\ t[q] = s[pi[q]]
      BY <1>4, <2>2
    <3> QED BY <1>5, <3>1
  <2> QED BY <1>2, <2>1, <2>2 DEF State
<1>7. RowsIn(t) = RowsIn(s)
  <2>1. ASSUME NEW x \in RowsIn(t) PROVE x \in RowsIn(s)
    <3>1. PICK p \in 1 .. k : x \in Rows(t[p])
      BY <1>2 DEF RowsIn
    <3>2. pi[p] \in 1 .. k /\ x \in Rows(s[pi[p]])
      BY <1>4, <3>1
    <3> QED BY <1>1, <3>2 DEF RowsIn
  <2>2. ASSUME NEW x \in RowsIn(s) PROVE x \in RowsIn(t)
    <3>1. PICK p \in 1 .. k : x \in Rows(s[p])
      BY <1>1 DEF RowsIn
    <3>2. PICK j \in 1 .. k : pi[j] = p
      BY <1>4
    <3>3. x \in Rows(t[j])
      BY <1>4, <3>1, <3>2
    <3> QED BY <1>2, <3>3 DEF RowsIn
  <2> QED BY <2>1, <2>2
<1>8. Even(s) => Even(t)
  BY <1>1, <1>2, <1>4 DEF Even
<1>9. ASSUME Within(s, g) PROVE Within(t, g)
  <2>1. ASSUME NEW p \in 1 .. k, NEW q \in 1 .. k PROVE Worth(t[p]) <= Worth(t[q]) + g
    <3>1. pi[p] \in 1 .. k /\ pi[q] \in 1 .. k /\ t[p] = s[pi[p]] /\ t[q] = s[pi[q]]
      BY <1>4
    <3>2. Worth(s[pi[p]]) <= Worth(s[pi[q]]) + g
      BY <1>1, <1>9, <3>1 DEF Within
    <3> QED BY <3>1, <3>2
  <2> QED BY <1>2, <2>1 DEF Within
<1>10. SpreadOut(s) => SpreadOut(t)
  BY <1>1, <1>2, <1>4 DEF SpreadOut, AllFilled, NoneDouble
<1> QED BY <1>6, <1>7, <1>8, <1>9, <1>10

\* The rows of a set that enumerates them.
LEMMA RowsAre ==
    ASSUME NEW A, NEW x, Enumerates(x.rows, A)
    PROVE Rows(x) = A
<1> DEFINE r == x.rows
<1>1. r \in Seq(A) /\ \A a \in A : \E i \in 1 .. Len(r) : r[i] = a
  BY DEF Enumerates
<1>2. Rows(x) = {r[i] : i \in 1 .. Len(r)}
  BY DEF Rows
<1> HIDE DEF r
<1>3. \A i \in 1 .. Len(r) : r[i] \in A
  BY <1>1
<1> QED BY <1>1, <1>2, <1>3

\* Set.merge: the rows and the sums of both.
LEMMA SetJoined ==
    ASSUME NEW vals \in Seq(Nat), NEW a, NEW b, SetOf(a, vals), SetOf(b, vals), Rows(a) \cap Rows(b) = {}
    PROVE LET c == Joined(a, b)
          IN  /\ SetOf(c, vals) /\ Rows(c) = Rows(a) \cup Rows(b)
              /\ Worth(c) = Worth(a) + Worth(b) /\ Size(c) = Size(a) + Size(b)
              /\ c \in RowRec
<1> DEFINE c == Joined(a, b)
<1>1. a \in RowRec /\ b \in RowRec
  BY DEF SetOf
<1>2. /\ Worth(a) \in Nat /\ a.rows \in Seq(Nat) /\ Size(a) \in Nat
      /\ Worth(b) \in Nat /\ b.rows \in Seq(Nat) /\ Size(b) \in Nat
  BY <1>1, RowRecParts
<1>3. Worth(c) = Worth(a) + Worth(b) /\ c.rows = a.rows \o b.rows /\ c = [sum |-> Worth(a) + Worth(b), rows |-> a.rows \o b.rows]
  BY DEF Joined, Worth
<1>4. Size(c) = Size(a) + Size(b) /\ a.rows \o b.rows \in Seq(Nat)
  <2>1. \A x, y \in Seq(Nat) : x \o y \in Seq(Nat) /\ Len(x \o y) = Len(x) + Len(y)
    OBVIOUS
  <2> QED BY <1>2, <1>3, <2>1 DEF Size
<1>5. c \in RowRec
  <2>1. Worth(a) + Worth(b) \in Nat
    BY <1>2
  <2> QED BY <1>3, <1>4, <2>1 DEF RowRec
<1>6. Enumerates(c.rows, Rows(a) \cup Rows(b))
  BY <1>3, EnumUnion DEF SetOf
<1>7. Rows(c) = Rows(a) \cup Rows(b)
  BY <1>6, RowsAre
<1>8. Worth(c) = Load(vals, Rows(c))
  <2>1. Load(vals, Rows(a) \cup Rows(b)) = Load(vals, Rows(a)) + Load(vals, Rows(b))
    BY LoadUnion
  <2>2. Worth(a) = Load(vals, Rows(a)) /\ Worth(b) = Load(vals, Rows(b))
    BY DEF SetOf
  <2> QED BY <1>3, <1>7, <2>1, <2>2
<1> HIDE DEF c
<1>9. SetOf(c, vals)
  <2>1. Rows(c) \subseteq 1 .. Len(vals)
    BY <1>7 DEF SetOf
  <2> QED BY <1>5, <1>6, <1>7, <1>8, <2>1 DEF SetOf
<1> QED BY <1>3, <1>4, <1>5, <1>7, <1>9 DEF c

\* A set at least as large as one with rows has rows.
LEMMA EmptyAtMost ==
    ASSUME NEW vals \in Seq(Nat), NEW a, NEW b, SetOf(a, vals), SetOf(b, vals), AtMost(b, a), Size(b) >= 1
    PROVE Size(a) >= 1
<1>1. a \in RowRec /\ b \in RowRec
  BY DEF SetOf
<1>2. a.rows \in Seq(Nat) /\ Size(a) \in Nat /\ Worth(b) \in Nat /\ Size(b) \in Nat
  BY <1>1, RowRecParts
<1>3. SUFFICES ASSUME Size(a) = 0 PROVE FALSE
  BY <1>2
<1>4. Rows(a) = {}
  BY <1>3 DEF Rows, Size
<1>5. Worth(a) = 0
  BY <1>4, LoadFew DEF SetOf
<1> QED BY <1>2, <1>3, <1>5, AtMostIs

\* The sets of one state joined with those of the other, the largest with the smallest.
Crossed(s, t) == [i \in DOMAIN s |-> Joined(s[i], t[Len(s) + 1 - i])]

\* State.merge joins the largest set of one state with the smallest of the
\* other: sizes stay even, and sums as far apart as the states' were.
LEMMA StateJoined ==
    ASSUME NEW vals \in Seq(Nat), NEW k \in Nat \ {0}, NEW s, NEW t, State(s, vals, k), State(t, vals, k),
           RowsIn(s) \cap RowsIn(t) = {}, Sorted(s), Sorted(t), NEW g \in Nat
    PROVE /\ State(Crossed(s, t), vals, k)
          /\ RowsIn(Crossed(s, t)) = RowsIn(s) \cup RowsIn(t)
          /\ Even(s) /\ Even(t) => Even(Crossed(s, t))
          /\ Within(s, g) /\ Within(t, g) => Within(Crossed(s, t), g)
          /\ SpreadOut(s) /\ SpreadOut(t) => SpreadOut(Crossed(s, t))
<1> DEFINE J == Crossed(s, t)
           o(i) == k + 1 - i
<1>1. /\ s \in Seq(RowRec) /\ Len(s) = k /\ t \in Seq(RowRec) /\ Len(t) = k
      /\ \A p \in 1 .. k : SetOf(s[p], vals)
      /\ \A p, q \in 1 .. k : p # q => Rows(s[p]) \cap Rows(s[q]) = {}
      /\ \A p \in 1 .. k : SetOf(t[p], vals)
      /\ \A p, q \in 1 .. k : p # q => Rows(t[p]) \cap Rows(t[q]) = {}
  BY DEF State
<1>2. \A i \in 1 .. k : o(i) \in 1 .. k /\ o(o(i)) = i
  OBVIOUS
<1>3. \A i, j \in 1 .. k : i < j => o(j) < o(i)
  OBVIOUS
<1>4. \A i, j \in 1 .. k : i # j => o(i) # o(j)
  OBVIOUS
<1>5. DOMAIN J = 1 .. k /\ \A i \in 1 .. k : J[i] = Joined(s[i], t[o(i)])
  BY <1>1 DEF Crossed
<1> HIDE DEF J, o
<1>6. \A p, q \in 1 .. k : Rows(s[p]) \cap Rows(t[q]) = {}
  <2> TAKE p, q \in 1 .. k
  <2>1. Rows(s[p]) \subseteq RowsIn(s) /\ Rows(t[q]) \subseteq RowsIn(t)
    BY <1>1 DEF RowsIn
  <2> QED BY <2>1
<1>7. ASSUME NEW i \in 1 .. k
      PROVE /\ SetOf(J[i], vals) /\ Rows(J[i]) = Rows(s[i]) \cup Rows(t[o(i)])
            /\ Worth(J[i]) = Worth(s[i]) + Worth(t[o(i)])
            /\ Size(J[i]) = Size(s[i]) + Size(t[o(i)])
            /\ J[i] \in RowRec
  <2>1. SetOf(s[i], vals) /\ SetOf(t[o(i)], vals) /\ Rows(s[i]) \cap Rows(t[o(i)]) = {}
    BY <1>1, <1>2, <1>6
  <2>2. J[i] = Joined(s[i], t[o(i)])
    BY <1>5
  <2> QED BY <2>1, <2>2, SetJoined
<1>8. J \in Seq(RowRec) /\ Len(J) = k
  <2>1. J = [i \in 1 .. k |-> J[i]]
    BY <1>1 DEF J, Crossed
  <2>2. J \in [1 .. k -> RowRec]
    BY <1>7, <2>1
  <2> QED BY <2>2
<1>9. ASSUME NEW i \in 1 .. k, NEW j \in 1 .. k, i # j
      PROVE Rows(J[i]) \cap Rows(J[j]) = {}
  <2>1. Rows(J[i]) = Rows(s[i]) \cup Rows(t[o(i)]) /\ Rows(J[j]) = Rows(s[j]) \cup Rows(t[o(j)])
    BY <1>7
  <2>2. o(i) # o(j) /\ o(i) \in 1 .. k /\ o(j) \in 1 .. k
    BY <1>2, <1>4, <1>9
  <2>3. /\ Rows(s[i]) \cap Rows(s[j]) = {} /\ Rows(t[o(i)]) \cap Rows(t[o(j)]) = {}
        /\ Rows(s[i]) \cap Rows(t[o(j)]) = {} /\ Rows(s[j]) \cap Rows(t[o(i)]) = {}
    BY <1>1, <1>6, <1>9, <2>2
  <2> QED BY <2>1, <2>3
<1>10. State(J, vals, k)
  BY <1>7, <1>8, <1>9 DEF State
<1>11. RowsIn(J) = RowsIn(s) \cup RowsIn(t)
  <2>1. ASSUME NEW x \in RowsIn(J) PROVE x \in RowsIn(s) \cup RowsIn(t)
    <3>1. PICK i \in 1 .. k : x \in Rows(J[i])
      BY <1>8 DEF RowsIn
    <3>2. x \in Rows(s[i]) \/ x \in Rows(t[o(i)])
      BY <1>7, <3>1
    <3> QED BY <1>1, <1>2, <3>2 DEF RowsIn
  <2>2. ASSUME NEW x \in RowsIn(s) PROVE x \in RowsIn(J)
    <3>1. PICK i \in 1 .. k : x \in Rows(s[i])
      BY <1>1 DEF RowsIn
    <3>2. x \in Rows(J[i])
      BY <1>7, <3>1
    <3> QED BY <1>8, <3>2 DEF RowsIn
  <2>3. ASSUME NEW x \in RowsIn(t) PROVE x \in RowsIn(J)
    <3>1. PICK i \in 1 .. k : x \in Rows(t[i])
      BY <1>1 DEF RowsIn
    <3>2. o(i) \in 1 .. k /\ o(o(i)) = i
      BY <1>2
    <3>3. x \in Rows(J[o(i)])
      BY <1>7, <3>1, <3>2
    <3> QED BY <1>8, <3>2, <3>3 DEF RowsIn
  <2> QED BY <2>1, <2>2, <2>3
<1>12. \A i \in 1 .. k : /\ Worth(s[i]) \in Nat /\ Size(s[i]) \in Nat
                         /\ Worth(t[i]) \in Nat /\ Size(t[i]) \in Nat
  <2>1. \A i \in 1 .. k : s[i] \in RowRec /\ t[i] \in RowRec
    BY <1>1
  <2> QED BY <2>1, RowRecParts
<1>13. ASSUME Even(s), Even(t) PROVE Even(J)
  <2>1. \A i, j \in 1 .. k : Size(s[i]) = Size(s[j]) /\ Size(t[o(i)]) = Size(t[o(j)])
    BY <1>1, <1>2, <1>13 DEF Even
  <2> QED BY <1>7, <1>8, <2>1 DEF Even
<1>14. /\ \A i, j \in 1 .. k : i < j => AtMost(s[j], s[i])
       /\ \A i, j \in 1 .. k : i < j => AtMost(t[j], t[i])
  BY <1>1 DEF Sorted
<1>15. ASSUME Within(s, g), Within(t, g) PROVE Within(J, g)
  <2>1. ASSUME NEW i \in 1 .. k, NEW j \in 1 .. k PROVE Worth(J[i]) <= Worth(J[j]) + g
    <3>1. /\ Worth(J[i]) = Worth(s[i]) + Worth(t[o(i)]) /\ Worth(J[j]) = Worth(s[j]) + Worth(t[o(j)])
          /\ o(i) \in 1 .. k /\ o(j) \in 1 .. k
      BY <1>2, <1>7
    <3>2. /\ Worth(s[i]) \in Nat /\ Worth(t[o(i)]) \in Nat /\ Worth(s[j]) \in Nat /\ Worth(t[o(j)]) \in Nat
          /\ Worth(s[i]) <= Worth(s[j]) + g /\ Worth(t[o(i)]) <= Worth(t[o(j)]) + g
      BY <1>1, <1>12, <1>15, <3>1 DEF Within
    <3> DEFINE a == Worth(s[i])
               b == Worth(s[j])
               c == Worth(t[o(i)])
               d == Worth(t[o(j)])
    <3>6. SUFFICES a + c <= (b + d) + g
      BY <3>1
    <3>7. a \in Nat /\ b \in Nat /\ c \in Nat /\ d \in Nat /\ a <= b + g /\ c <= d + g
      BY <3>2
    <3>3. CASE i = j
      <4>1. a = b /\ c = d
        BY <3>3
      <4> HIDE DEF a, b, c, d
      <4> QED BY <3>7, <4>1
    <3>4. CASE i < j
      <4>1. o(j) < o(i)
        BY <1>3, <3>4
      <4>2. AtMost(t[o(i)], t[o(j)])
        BY <1>14, <3>1, <4>1
      <4>3. c < d \/ c = d
        BY <4>2, AtMostIs
      <4> HIDE DEF a, b, c, d
      <4> QED BY <3>7, <4>3
    <3>5. CASE j < i
      <4>1. AtMost(s[i], s[j])
        BY <1>14, <3>5
      <4>2. a < b \/ a = b
        BY <4>1, AtMostIs
      <4> HIDE DEF a, b, c, d
      <4> QED BY <3>7, <4>2
    <3> QED BY <3>3, <3>4, <3>5
  <2> QED BY <1>8, <2>1 DEF Within
<1>16. ASSUME SpreadOut(s), SpreadOut(t) PROVE SpreadOut(J)
  <2>1. \A i \in 1 .. k : Size(J[i]) = Size(s[i]) + Size(t[o(i)])
    BY <1>7
  <2>2. CASE AllFilled(s) \/ AllFilled(t)
    <3>1. \A i \in 1 .. k : Size(s[i]) >= 1 \/ Size(t[o(i)]) >= 1
      BY <1>1, <1>2, <2>2 DEF AllFilled
    <3>2. \A i \in 1 .. k : Size(J[i]) >= 1
      <4> TAKE i \in 1 .. k
      <4> DEFINE a == Size(s[i])
                 b == Size(t[o(i)])
      <4>1. Size(J[i]) = a + b /\ a \in Nat /\ b \in Nat /\ (a >= 1 \/ b >= 1)
        BY <1>2, <1>12, <2>1, <3>1
      <4> HIDE DEF a, b
      <4> QED BY <4>1
    <3>4. AllFilled(J)
      BY <1>8, <3>2 DEF AllFilled
    <3> QED BY <3>4 DEF SpreadOut
  <2>3. CASE NoneDouble(s) /\ NoneDouble(t)
    <3>1. \A i \in 1 .. k : Size(s[i]) <= 1 /\ Size(t[o(i)]) <= 1
      BY <1>1, <1>2, <2>3 DEF NoneDouble
    <3>2. CASE \A i \in 1 .. k : Size(J[i]) <= 1
      BY <1>8, <3>2 DEF SpreadOut, NoneDouble
    <3>3. ASSUME NEW i \in 1 .. k, ~(Size(J[i]) <= 1) PROVE AllFilled(J)
      <4>1. Size(s[i]) = 1 /\ Size(t[o(i)]) = 1 /\ o(i) \in 1 .. k
        <5> DEFINE a == Size(s[i])
                   b == Size(t[o(i)])
        <5>1. Size(J[i]) = a + b /\ a \in Nat /\ b \in Nat /\ a <= 1 /\ b <= 1
          BY <1>2, <1>12, <2>1, <3>1
        <5>2. ~(a + b <= 1)
          BY <3>3, <5>1
        <5> HIDE DEF a, b
        <5>3. a = 1 /\ b = 1
          BY <5>1, <5>2
        <5> QED BY <1>2, <5>3 DEF a, b
      <4>2. ASSUME NEW j \in 1 .. k PROVE Size(s[j]) >= 1 \/ Size(t[o(j)]) >= 1
        <5>1. CASE i = j
          BY <4>1, <5>1
        <5>2. CASE j < i
          <6>1. AtMost(s[i], s[j])
            BY <1>14, <5>2
          <6> QED BY <1>1, <1>12, <4>1, <6>1, EmptyAtMost
        <5>3. CASE i < j
          <6>1. o(j) < o(i) /\ o(j) \in 1 .. k
            BY <1>2, <1>3, <5>3
          <6>2. AtMost(t[o(i)], t[o(j)])
            BY <1>14, <4>1, <6>1
          <6>3. SetOf(t[o(i)], vals) /\ SetOf(t[o(j)], vals)
            BY <1>1, <4>1, <6>1
          <6>4. Size(t[o(i)]) >= 1
            BY <4>1
          <6>5. Size(t[o(j)]) >= 1
            BY <6>2, <6>3, <6>4, EmptyAtMost
          <6> QED BY <6>5
        <5> QED BY <5>1, <5>2, <5>3
      <4>3. \A j \in 1 .. k : Size(J[j]) >= 1
        <5> TAKE j \in 1 .. k
        <5> DEFINE a == Size(s[j])
                   b == Size(t[o(j)])
        <5>1. Size(J[j]) = a + b /\ a \in Nat /\ b \in Nat /\ (a >= 1 \/ b >= 1)
          BY <1>2, <1>12, <2>1, <4>2
        <5> HIDE DEF a, b
        <5> QED BY <5>1
      <4> QED BY <1>8, <4>3 DEF AllFilled
    <3> QED BY <3>2, <3>3 DEF SpreadOut
  <2> QED BY <1>16, <2>2, <2>3 DEF SpreadOut
<1> QED BY <1>10, <1>11, <1>13, <1>15, <1>16 DEF J

-----------------------------------------------------------------------------
(* The heap.                                                               *)

Good(s, vals, k, eq, g) ==
    /\ State(s, vals, k) /\ RowsIn(s) # {}
    /\ Sorted(s) /\ SpreadOut(s)
    /\ eq => Even(s) /\ Within(s, g)

\* States that share no row.
Disjoint(H, vals, k, eq, g) ==
    /\ IsFiniteSet(H)
    /\ \A s \in H : Good(s, vals, k, eq, g)
    /\ \A s, t \in H : s # t => RowsIn(s) \cap RowsIn(t) = {}

\* And between them have every row.
HeapOf(H, vals, k, eq, g) ==
    /\ Disjoint(H, vals, k, eq, g)
    /\ UNION {RowsIn(s) : s \in H} = 1 .. Len(vals)

\* The largest set of a state on the heap has a row.
LEMMA FirstFilled ==
    ASSUME NEW vals \in Seq(Nat), NEW k \in Nat \ {0}, NEW eq, NEW g, NEW s, Good(s, vals, k, eq, g)
    PROVE s[1] \in RowRec /\ s[k] \in RowRec /\ Len(s) = k /\ Size(s[1]) >= 1
<1>1. s \in Seq(RowRec) /\ Len(s) = k /\ \A p \in 1 .. k : SetOf(s[p], vals)
  BY DEF Good, State
<1>2. 1 \in 1 .. k /\ k \in 1 .. k
  OBVIOUS
<1>3. PICK p \in 1 .. k : Rows(s[p]) # {}
  BY <1>1 DEF Good, RowsIn
<1>4. s[p] \in RowRec /\ s[1] \in RowRec /\ s[k] \in RowRec
  BY <1>1, <1>2
<1>5. Size(s[p]) \in Nat
  BY <1>4, RowRecParts
<1>6. Size(s[p]) # 0
  BY <1>3 DEF Rows, Size
<1>7. Size(s[p]) >= 1
  BY <1>5, <1>6
<1>8. CASE p = 1
  BY <1>1, <1>4, <1>7, <1>8
<1>9. CASE p # 1
  <2>1. AtMost(s[p], s[1])
    <3>1. 1 < p
      BY <1>9
    <3> QED BY <1>1, <1>2, <3>1 DEF Good, Sorted
  <2>2. SetOf(s[1], vals) /\ SetOf(s[p], vals)
    BY <1>1, <1>2
  <2> QED BY <1>1, <1>4, <1>7, <2>1, <2>2, EmptyAtMost
<1> QED BY <1>8, <1>9

\* States on the heap are in a strict total order, though they may have the
\* same spread: no two share a row.
LEMMA StateOrder ==
    ASSUME NEW vals \in Seq(Nat), NEW k \in Nat \ {0}, NEW eq, NEW g, NEW H, Disjoint(H, vals, k, eq, g)
    PROVE /\ \A s \in H : ~StateLess(s, s)
          /\ \A s, t \in H : s # t => StateLess(s, t) \/ StateLess(t, s)
          /\ \A s, t, u \in H : StateLess(s, t) /\ StateLess(t, u) => StateLess(s, u)
<1>1. \A s \in H : s[1] \in RowRec /\ s[k] \in RowRec /\ Len(s) = k /\ Size(s[1]) >= 1
  BY FirstFilled DEF Disjoint
<1>2. \A s \in H : Spread(s) \in Int
  <2> TAKE s \in H
  <2>1. s[1] \in RowRec /\ s[k] \in RowRec /\ Len(s) = k
    BY <1>1
  <2>2. Spread(s) = Worth(s[1]) - Worth(s[k])
    BY <2>1 DEF Spread, Worth
  <2>3. Worth(s[1]) \in Nat /\ Worth(s[k]) \in Nat
    BY <2>1, RowRecParts
  <2> QED BY <2>2, <2>3
<1>3. ASSUME NEW s \in H PROVE ~StateLess(s, s)
  <2>1. ~SetLess(s[1], s[1]) /\ Spread(s) \in Int
    BY <1>1, <1>2, SetOrder
  <2> QED BY <2>1 DEF StateLess
<1>4. ASSUME NEW s \in H, NEW t \in H, s # t PROVE StateLess(s, t) \/ StateLess(t, s)
  <2>1. s[1] # t[1]
    <3>1. RowsIn(s) \cap RowsIn(t) = {}
      BY <1>4 DEF Disjoint
    <3>2. Len(s) = k /\ Len(t) = k /\ 1 \in 1 .. k
      BY <1>1
    <3>3. Rows(s[1]) \subseteq RowsIn(s) /\ Rows(t[1]) \subseteq RowsIn(t)
      BY <3>2 DEF RowsIn
    <3>4. Rows(s[1]) # {}
      <4>1. s[1] \in RowRec /\ Size(s[1]) >= 1
        BY <1>1
      <4>2. Size(s[1]) \in Nat
        BY <4>1, RowRecParts
      <4>3. 1 \in 1 .. Size(s[1])
        BY <4>1, <4>2
      <4> QED BY <4>3 DEF Rows, Size
    <3> QED BY <3>1, <3>3, <3>4
  <2>2. SetLess(s[1], t[1]) \/ SetLess(t[1], s[1])
    BY <1>1, <2>1, SetOrder
  <2>3. Spread(s) \in Int /\ Spread(t) \in Int
    BY <1>2
  <2> QED BY <2>2, <2>3 DEF StateLess
<1>5. ASSUME NEW s \in H, NEW t \in H, NEW u \in H, StateLess(s, t), StateLess(t, u) PROVE StateLess(s, u)
  <2>1. Spread(s) \in Int /\ Spread(t) \in Int /\ Spread(u) \in Int
    BY <1>2
  <2>2. SetLess(t[1], s[1]) /\ SetLess(u[1], t[1]) => SetLess(u[1], s[1])
    BY <1>1, SetOrder
  <2> QED BY <1>5, <2>1, <2>2 DEF StateLess
<1> QED BY <1>3, <1>4, <1>5

\* heappop takes a state of the heap.
LEMMA PoppedIs ==
    ASSUME NEW vals \in Seq(Nat), NEW k \in Nat \ {0}, NEW eq, NEW g, NEW H, Disjoint(H, vals, k, eq, g), H # {}
    PROVE Popped(H) \in H
<1> DEFINE Ahead(s) == {t \in H : StateLess(t, s)}
           T == {Cardinality(Ahead(s)) : s \in H}
<1>1. /\ \A s \in H : ~StateLess(s, s)
      /\ \A s, t \in H : s # t => StateLess(s, t) \/ StateLess(t, s)
      /\ \A s, t, u \in H : StateLess(s, t) /\ StateLess(t, u) => StateLess(s, u)
  BY StateOrder
<1>2. IsFiniteSet(H)
  BY DEF Disjoint
<1>3. \A s \in H : IsFiniteSet(Ahead(s)) /\ Cardinality(Ahead(s)) \in Nat
  <2> TAKE s \in H
  <2>1. Ahead(s) \in SUBSET H
    OBVIOUS
  <2>2. IsFiniteSet(Ahead(s))
    BY <1>2, <2>1, FS_Subset
  <2> QED BY <2>2, FS_CardinalityType
<1>4. T \in SUBSET Nat /\ T # {}
  BY <1>3
<1>5. PICK c \in T : \A d \in T : c <= d
  BY <1>4, Least
<1>6. PICK s \in H : c = Cardinality(Ahead(s))
  OBVIOUS
<1>7. ASSUME NEW u \in H \ {s} PROVE StateLess(s, u)
  <2>1. SUFFICES ASSUME StateLess(u, s) PROVE FALSE
    BY <1>1
  <2>2. Ahead(u) \subseteq Ahead(s)
    BY <1>1, <2>1
  <2>3. u \in Ahead(s) /\ u \notin Ahead(u)
    BY <1>1, <2>1
  <2>4. Ahead(u) \in SUBSET Ahead(s) /\ Ahead(u) # Ahead(s)
    BY <2>2, <2>3
  <2>5. Cardinality(Ahead(u)) <= Cardinality(Ahead(s)) /\ Cardinality(Ahead(u)) # Cardinality(Ahead(s))
    BY <1>3, <2>4, FS_Subset
  <2>6. Cardinality(Ahead(s)) <= Cardinality(Ahead(u))
    BY <1>5, <1>6
  <2>7. Cardinality(Ahead(s)) \in Nat /\ Cardinality(Ahead(u)) \in Nat
    BY <1>3
  <2> HIDE DEF Ahead, T
  <2> QED BY <2>5, <2>6, <2>7
<1> HIDE DEF Ahead, T
<1>8. \E x \in H : \A t \in H \ {x} : StateLess(x, t)
  BY <1>7
<1> QED BY <1>8 DEF Popped

HasBoth(m, s, t) == RowsIn(m) = RowsIn(s) \cup RowsIn(t)

\* Two merged states make one with the rows of both.
LEMMA MergedGood ==
    ASSUME NEW vals \in Seq(Nat), NEW k \in Nat \ {0}, NEW eq, NEW g \in Nat, NEW s, NEW t,
           Good(s, vals, k, eq, g), Good(t, vals, k, eq, g), RowsIn(s) \cap RowsIn(t) = {}
    PROVE /\ Good(MergedStates(s, t), vals, k, eq, g)
          /\ HasBoth(MergedStates(s, t), s, t)
<1> DEFINE J == Crossed(s, t)
           m == MergedStates(s, t)
<1>1. /\ State(s, vals, k) /\ State(t, vals, k) /\ Sorted(s) /\ Sorted(t)
      /\ SpreadOut(s) /\ SpreadOut(t) /\ RowsIn(s) # {}
      /\ eq => Even(s) /\ Within(s, g) /\ Even(t) /\ Within(t, g)
  BY DEF Good
<1>2. /\ State(J, vals, k) /\ RowsIn(J) = RowsIn(s) \cup RowsIn(t)
      /\ SpreadOut(J)
      /\ Even(s) /\ Even(t) => Even(J)
      /\ Within(s, g) /\ Within(t, g) => Within(J, g)
  BY <1>1, StateJoined
<1>3. m = Decreasing(J)
  BY DEF MergedStates, Crossed
<1> HIDE DEF J, m
<1>4. J \in Seq(RowRec)
  BY <1>2 DEF State
<1>5. Rearranges(m, J) /\ Sorted(m)
  BY <1>3, <1>4, DecreasingFacts
<1>6. /\ State(m, vals, k) /\ RowsIn(m) = RowsIn(J)
      /\ Even(J) => Even(m)
      /\ Within(J, g) => Within(m, g)
      /\ SpreadOut(J) => SpreadOut(m)
  BY <1>2, <1>5, StateRearranged
<1>7. eq => Even(m) /\ Within(m, g)
  BY <1>1, <1>2, <1>6
<1>8. Good(m, vals, k, eq, g)
  BY <1>1, <1>2, <1>5, <1>6, <1>7 DEF Good
<1> QED BY <1>2, <1>6, <1>8 DEF m, HasBoth

\* A round of the heap: one state less, no row lost or doubled.
LEMMA MergedHeap ==
    ASSUME NEW vals \in Seq(Nat), NEW k \in Nat \ {0}, NEW eq, NEW g \in Nat, NEW H,
           HeapOf(H, vals, k, eq, g), Cardinality(H) >= 2
    PROVE HeapOf(Merge(H), vals, k, eq, g) /\ Cardinality(Merge(H)) = Cardinality(H) - 1
<1> DEFINE s == Popped(H)
           K == H \ {s}
           t == Popped(K)
           m == MergedStates(s, t)
           L == K \ {t}
<1>1. /\ IsFiniteSet(H) /\ Disjoint(H, vals, k, eq, g)
      /\ \A x \in H : Good(x, vals, k, eq, g)
      /\ \A x, y \in H : x # y => RowsIn(x) \cap RowsIn(y) = {}
      /\ UNION {RowsIn(x) : x \in H} = 1 .. Len(vals)
  BY DEF HeapOf, Disjoint
<1>2. Cardinality(H) \in Nat /\ H # {}
  BY <1>1, FS_EmptySet, FS_CardinalityType
<1>3. s \in H
  BY <1>1, <1>2, PoppedIs
<1>4. IsFiniteSet(K) /\ Cardinality(K) = Cardinality(H) - 1
  BY <1>1, <1>3, FS_RemoveElement
<1>5. K # {}
  BY <1>2, <1>4, FS_EmptySet
<1>6. Disjoint(K, vals, k, eq, g)
  BY <1>1, <1>4 DEF Disjoint
<1>7. t \in K
  BY <1>5, <1>6, PoppedIs
<1>8. IsFiniteSet(L) /\ Cardinality(L) = Cardinality(H) - 2
  <2>1. IsFiniteSet(L) /\ Cardinality(L) = Cardinality(K) - 1
    <3> HIDE DEF K, t
    <3> QED BY <1>4, <1>7, FS_RemoveElement
  <2> HIDE DEF L, K
  <2> QED BY <1>2, <1>4, <2>1
<1>9. Merge(H) = L \cup {m}
  BY DEF Merge
<1> HIDE DEF s, t, m, K, L
<1>10. s # t /\ t \in H /\ L \subseteq H /\ H = L \cup {s, t} /\ s \notin L /\ t \notin L
  BY <1>3, <1>7 DEF K, L
<1>11. Good(m, vals, k, eq, g) /\ RowsIn(m) = RowsIn(s) \cup RowsIn(t)
  <2>1. Good(s, vals, k, eq, g)
    BY <1>1, <1>3
  <2>2. Good(t, vals, k, eq, g)
    BY <1>1, <1>10
  <2>3. RowsIn(s) \cap RowsIn(t) = {}
    BY <1>1, <1>3, <1>10
  <2>4. Good(MergedStates(s, t), vals, k, eq, g) /\ HasBoth(MergedStates(s, t), s, t)
    BY <2>1, <2>2, <2>3, MergedGood
  <2> QED BY <2>4 DEF m, HasBoth
<1>12. \A x \in L : RowsIn(x) \cap RowsIn(m) = {}
  <2> TAKE x \in L
  <2>1. x \in H /\ x # s /\ x # t
    BY <1>10
  <2>2. RowsIn(x) \cap RowsIn(s) = {} /\ RowsIn(x) \cap RowsIn(t) = {}
    BY <1>1, <1>3, <1>10, <2>1
  <2> QED BY <1>11, <2>2
<1>13. m \notin L
  <2>1. RowsIn(m) # {}
    BY <1>11 DEF Good
  <2> QED BY <1>12, <2>1
<1> DEFINE M == L \cup {m}
<1>14. IsFiniteSet(M) /\ Cardinality(M) = Cardinality(H) - 1
  <2>1. IsFiniteSet(M) /\ Cardinality(M) = Cardinality(L) + 1
    BY <1>8, <1>13, FS_AddElement
  <2> QED BY <1>2, <1>8, <2>1
<1>15. \A x \in M : Good(x, vals, k, eq, g)
  BY <1>1, <1>10, <1>11
<1>16. \A x, y \in M : x # y => RowsIn(x) \cap RowsIn(y) = {}
  BY <1>1, <1>10, <1>12
<1>17. UNION {RowsIn(x) : x \in M} = 1 .. Len(vals)
  <2>1. ASSUME NEW r \in UNION {RowsIn(x) : x \in M} PROVE r \in UNION {RowsIn(x) : x \in H}
    <3>1. PICK x \in M : r \in RowsIn(x)
      OBVIOUS
    <3> QED BY <1>3, <1>10, <1>11, <3>1
  <2>2. ASSUME NEW r \in UNION {RowsIn(x) : x \in H} PROVE r \in UNION {RowsIn(x) : x \in M}
    <3>1. PICK x \in H : r \in RowsIn(x)
      OBVIOUS
    <3> QED BY <1>10, <1>11, <3>1
  <2>3. UNION {RowsIn(x) : x \in M} = UNION {RowsIn(x) : x \in H}
    BY <2>1, <2>2
  <2> QED BY <1>1, <2>3
<1>18. HeapOf(M, vals, k, eq, g)
  BY <1>14, <1>15, <1>16, <1>17 DEF HeapOf, Disjoint
<1> QED BY <1>9, <1>14, <1>18

\* f has the heap after each of m rounds.
HeapRun(f, H, m) == \A i \in 0 .. m : f[i] = IF i = 0 THEN H ELSE Merge(f[i-1])

HeapFun(f, H, n) == f = [i \in 0 .. n |-> IF i = 0 THEN H ELSE Merge(f[i-1])]

\* The rounds of the heap, as a function of their number.
LEMMA HeapRunExists ==
    ASSUME NEW H, NEW n \in Nat
    PROVE \E f : HeapFun(f, H, n)
<1> DEFINE Fun(f, m) == f = [i \in 0 .. m |-> f[i]]
           T == {m \in Nat : \E f : Fun(f, m) /\ HeapRun(f, H, m)}
<1>1. 0 \in T
  <2> DEFINE f == [i \in 0 .. 0 |-> H]
  <2>1. Fun(f, 0) /\ HeapRun(f, H, 0)
    BY DEF HeapRun
  <2> QED BY <2>1
<1>2. ASSUME NEW m \in T PROVE m + 1 \in T
  <2>1. m \in Nat
    OBVIOUS
  <2>2. PICK f : Fun(f, m) /\ HeapRun(f, H, m)
    OBVIOUS
  <2> DEFINE q == m + 1
             g == [i \in 0 .. q |-> IF i = q THEN Merge(f[m]) ELSE f[i]]
  <2>3. /\ \A i \in 0 .. q : i \in 0 .. m \/ i = q
        /\ \A i \in 0 .. m : i \in 0 .. q /\ i # q /\ (i # 0 => i - 1 \in 0 .. m)
        /\ q \in 0 .. q /\ q - 1 = m /\ q # 0 /\ m \in 0 .. m /\ q \in Nat
    BY <2>1
  <2> HIDE DEF q, T
  <2>4. Fun(g, q) /\ g[q] = Merge(f[m]) /\ \A i \in 0 .. m : g[i] = f[i]
    BY <2>3
  <2> HIDE DEF g
  <2>5. \A i \in 0 .. m : g[i] = IF i = 0 THEN H ELSE Merge(g[i-1])
    BY <2>2, <2>3, <2>4 DEF HeapRun
  <2>6. g[q] = Merge(g[q-1])
    BY <2>3, <2>4
  <2>7. HeapRun(g, H, q)
    BY <2>3, <2>5, <2>6 DEF HeapRun
  <2> QED BY <2>3, <2>4, <2>7 DEF q, T
<1>3. T = Nat
  <2>1. T \in SUBSET Nat
    OBVIOUS
  <2> HIDE DEF T
  <2> QED BY <1>1, <1>2, <2>1, NatSet
<1>4. n \in T
  <2> HIDE DEF T
  <2> QED BY <1>3
<1>5. PICK f : Fun(f, n) /\ HeapRun(f, H, n)
  BY <1>4
<1>6. f = [i \in 0 .. n |-> IF i = 0 THEN H ELSE Merge(f[i-1])]
  BY <1>5 DEF HeapRun
<1> QED BY <1>6 DEF HeapFun

Final(f, last) == CHOOSE s \in f[last] : TRUE

\* After the last round one state is left, with every row.
LEMMA HeapEnds ==
    ASSUME NEW vals \in Seq(Nat), NEW k \in Nat \ {0}, NEW eq, NEW g \in Nat, NEW H,
           HeapOf(H, vals, k, eq, g), H # {}, NEW last, last = Cardinality(H) - 1,
           NEW f, HeapFun(f, H, last)
    PROVE /\ Good(Final(f, last), vals, k, eq, g)
          /\ RowsIn(Final(f, last)) = 1 .. Len(vals)
<1>1. IsFiniteSet(H)
  BY DEF HeapOf, Disjoint
<1>2. Cardinality(H) \in Nat /\ Cardinality(H) # 0
  BY <1>1, FS_EmptySet, FS_CardinalityType
<1>3. last \in Nat
  BY <1>2
<1>4. \A i \in 0 .. last : f[i] = IF i = 0 THEN H ELSE Merge(f[i-1])
  <2> DEFINE h == [i \in 0 .. last |-> IF i = 0 THEN H ELSE Merge(f[i-1])]
  <2>1. \A i \in 0 .. last : h[i] = IF i = 0 THEN H ELSE Merge(f[i-1])
    OBVIOUS
  <2>2. f = h
    BY DEF HeapFun
  <2> HIDE DEF h
  <2> QED BY <2>1, <2>2
<1> DEFINE Ok(i) == HeapOf(f[i], vals, k, eq, g) /\ Cardinality(f[i]) = (last + 1) - i
           T == {i \in Nat : i <= last => Ok(i)}
<1>5. 0 \in T
  <2>1. f[0] = H
    BY <1>3, <1>4
  <2>2. Cardinality(H) = (last + 1) - 0
    BY <1>2
  <2> QED BY <2>1, <2>2
<1>6. ASSUME NEW i \in T PROVE i + 1 \in T
  <2>1. i \in Nat
    OBVIOUS
  <2>2. SUFFICES ASSUME i + 1 <= last PROVE Ok(i + 1)
    BY <2>1
  <2>3. Ok(i)
    BY <1>3, <2>1, <2>2
  <2>4. i + 1 \in 0 .. last /\ i + 1 # 0 /\ (i + 1) - 1 = i
    BY <1>3, <2>1, <2>2
  <2>5. f[i + 1] = Merge(f[i])
    BY <1>4, <2>4
  <2>6. Cardinality(f[i]) >= 2
    BY <1>3, <2>1, <2>2, <2>3
  <2>7. HeapOf(f[i], vals, k, eq, g)
    BY <2>3
  <2>8. HeapOf(Merge(f[i]), vals, k, eq, g) /\ Cardinality(Merge(f[i])) = Cardinality(f[i]) - 1
    <3> DEFINE h == f[i]
    <3>1. HeapOf(h, vals, k, eq, g) /\ Cardinality(h) >= 2
      BY <2>6, <2>7
    <3> HIDE DEF h
    <3>2. HeapOf(Merge(h), vals, k, eq, g) /\ Cardinality(Merge(h)) = Cardinality(h) - 1
      BY <3>1, MergedHeap
    <3> QED BY <3>2 DEF h
  <2>9. Cardinality(f[i + 1]) = (last + 1) - (i + 1)
    BY <1>3, <2>1, <2>3, <2>5, <2>8
  <2> QED BY <2>5, <2>8, <2>9
<1>7. T = Nat
  <2>1. T \in SUBSET Nat
    OBVIOUS
  <2> HIDE DEF T
  <2> QED BY <1>5, <1>6, <2>1, NatSet
<1>8. Ok(last)
  <2>1. last \in T
    <3> HIDE DEF T
    <3> QED BY <1>3, <1>7
  <2> QED BY <1>3, <2>1
<1>9. Cardinality(f[last]) = 1
  BY <1>3, <1>8
<1>10. IsFiniteSet(f[last])
  BY <1>8 DEF HeapOf, Disjoint
<1>11. PICK s : f[last] = {s}
  BY <1>9, <1>10, FS_Singleton
<1>12. Final(f, last) = s
  BY <1>11 DEF Final
<1>13. Good(s, vals, k, eq, g) /\ RowsIn(s) = 1 .. Len(vals)
  <2>1. UNION {RowsIn(x) : x \in {s}} = RowsIn(s)
    OBVIOUS
  <2> QED BY <1>8, <1>11, <2>1 DEF HeapOf, Disjoint
<1> QED BY <1>12, <1>13

\* n sequences of length c.
Blocks(seqs, S, n, c) == Len(seqs) = n /\ \A i \in 1 .. n : seqs[i] \in Seq(S) /\ Len(seqs[i]) = c

\* t is the n sequences one after the other.
Joins(t, seqs, S, n, c) ==
    /\ t \in Seq(S) /\ Len(t) = n * c
    /\ \A b \in 1 .. n : \A j \in 1 .. c : t[(b - 1) * c + j] = seqs[b][j]

\* Sequences of the same length, concatenated: where each element goes.
LEMMA ConcatBlocks ==
    ASSUME NEW S, NEW n \in Nat \ {0}, NEW c \in Nat, NEW seqs, Blocks(seqs, S, n, c)
    PROVE Joins(Concat(seqs), seqs, S, n, c)
<1>0. /\ Len(seqs) = n
      /\ \A i \in 1 .. n : seqs[i] \in Seq(S)
      /\ \A i \in 1 .. n : Len(seqs[i]) = c
  BY DEF Blocks
<1>1. PICK g \in [1 .. n -> Seq(S)] : Flattens(seqs, g)
  BY <1>0, FlattensExists
<1>2. \A i \in 1 .. n : g[i] = IF i = 1 THEN seqs[i] ELSE g[i-1] \o seqs[i]
  BY <1>0, <1>1 DEF Flattens
<1>3. Concat(seqs) = g[n]
  BY <1>0, <1>1, FlattenIs
<1> DEFINE Ok(i) == /\ Len(g[i]) = i * c
                    /\ \A b \in 1 .. i : \A j \in 1 .. c : g[i][(b - 1) * c + j] = seqs[b][j]
           T == {m \in Nat : m + 1 <= n => Ok(m + 1)}
<1>4. 0 \in T
  <2>1. 1 \in 1 .. n /\ 1 * c = c /\ (1 - 1) * c = 0
    OBVIOUS
  <2>2. g[1] = seqs[1] /\ Len(seqs[1]) = c
    BY <1>0, <1>2, <2>1
  <2>3. \A b \in 1 .. 1 : \A j \in 1 .. c : g[1][(b - 1) * c + j] = seqs[b][j]
    <3> TAKE b \in 1 .. 1
    <3> TAKE j \in 1 .. c
    <3>1. b = 1 /\ (b - 1) * c + j = j
      BY <2>1
    <3> QED BY <2>2, <3>1
  <2>4. Ok(1)
    BY <2>1, <2>2, <2>3
  <2> HIDE DEF Ok
  <2> QED BY <2>4
<1>5. ASSUME NEW m \in T PROVE m + 1 \in T
  <2>1. m \in Nat
    OBVIOUS
  <2> DEFINE i == m + 2
             h == m + 1
  <2>2. SUFFICES ASSUME i <= n PROVE Ok(i)
    <3>1. m + 1 \in Nat /\ (m + 1) + 1 = m + 2
      BY <2>1
    <3> HIDE DEF Ok
    <3> QED BY <3>1
  <2>3. Ok(h)
    <3> HIDE DEF Ok
    <3> QED BY <2>1, <2>2
  <2>4. i \in 1 .. n /\ i # 1 /\ i - 1 = h /\ h \in 1 .. n
    BY <2>1, <2>2
  <2>5. g[i] = g[h] \o seqs[i]
    BY <1>2, <2>4
  <2>6. g[h] \in Seq(S) /\ seqs[i] \in Seq(S) /\ Len(seqs[i]) = c
    BY <1>0, <2>4
  <2>7. i * c = h * c + c /\ h * c \in Nat /\ (i - 1) * c = h * c
    BY <2>1, <2>4
  <2>10. /\ Len(g[i]) = Len(g[h]) + c
         /\ \A p \in 1 .. Len(g[h]) : g[i][p] = g[h][p]
         /\ \A p \in 1 .. c : g[i][Len(g[h]) + p] = seqs[i][p]
    <3> DEFINE u == g[h]
               v == seqs[i]
    <3>1. u \in Seq(S) /\ v \in Seq(S) /\ Len(v) = c /\ g[i] = u \o v
      BY <2>5, <2>6
    <3> HIDE DEF i, h, u, v
    <3>4. u \in Seq(S) /\ v \in Seq(S)
      BY <3>1
    <3>2. /\ Len(u \o v) = Len(u) + Len(v)
          /\ \A p \in 1 .. Len(u) : (u \o v)[p] = u[p]
          /\ \A p \in 1 .. Len(v) : (u \o v)[Len(u) + p] = v[p]
      BY <3>4
    <3>3. /\ Len(g[i]) = Len(u) + c
          /\ \A p \in 1 .. Len(u) : g[i][p] = u[p]
          /\ \A p \in 1 .. c : g[i][Len(u) + p] = v[p]
      BY <3>1, <3>2
    <3> QED BY <3>3 DEF u, v
  <2>8. Len(g[i]) = i * c
    BY <2>3, <2>7, <2>10
  <2>9. ASSUME NEW b \in 1 .. i, NEW j \in 1 .. c PROVE g[i][(b - 1) * c + j] = seqs[b][j]
    <3>1. CASE b = i
      <4>1. (b - 1) * c + j = h * c + j /\ j \in 1 .. c
        BY <2>7, <3>1
      <4> DEFINE a == h * c
      <4>2. a \in Nat /\ Len(g[h]) = a
        BY <2>3, <2>7
      <4> HIDE DEF a, i, h
      <4>3. g[i][a + j] = seqs[i][j]
        BY <2>10, <4>2
      <4> QED BY <3>1, <4>1, <4>3 DEF a
    <3>2. CASE b # i
      <4>1. b \in 1 .. h /\ b \in Nat /\ b - 1 \in Nat /\ b <= h /\ h \in Nat
        BY <2>1, <2>4, <3>2
      <4>2. b * c <= h * c /\ b * c = (b - 1) * c + c /\ (b - 1) * c \in Nat /\ b * c \in Nat
        BY <4>1, Multiple
      <4> DEFINE a == h * c
                 e == (b - 1) * c
                 d == b * c
      <4>3. a \in Nat /\ Len(g[h]) = a /\ e \in Nat /\ d = e + c /\ d <= a
        BY <2>3, <2>7, <4>2
      <4> HIDE DEF a, i, h, e, d
      <4>4. e + j \in 1 .. a
        BY <4>3
      <4>5. g[i][e + j] = g[h][e + j]
        BY <2>10, <4>3, <4>4
      <4> QED BY <2>3, <4>1, <4>5 DEF e
    <3> QED BY <3>1, <3>2
  <2> QED BY <2>8, <2>9
<1>6. T = Nat
  <2>1. T \in SUBSET Nat
    OBVIOUS
  <2> HIDE DEF T
  <2> QED BY <1>4, <1>5, <2>1, NatSet
<1>7. Ok(n)
  <2>1. n - 1 \in T
    <3> HIDE DEF T
    <3> QED BY <1>6
  <2>2. (n - 1) + 1 <= n /\ (n - 1) + 1 = n
    OBVIOUS
  <2> HIDE DEF Ok
  <2> QED BY <2>1, <2>2
<1>8. g[n] \in Seq(S)
  BY <1>1
<1> QED BY <1>3, <1>7, <1>8 DEF Joins

\* The image of a finite set is finite.
LEMMA ImageFinite ==
    ASSUME NEW I, IsFiniteSet(I), NEW f, f = [i \in I |-> f[i]]
    PROVE IsFiniteSet({f[i] : i \in I})
<1> DEFINE T == {f[i] : i \in I}
<1>1. f \in [I -> T]
  OBVIOUS
<1>2. \A x \in T : \E i \in I : f[i] = x
  OBVIOUS
<1> HIDE DEF T
<1>3. f \in Surjection(I, T)
  BY <1>1, <1>2 DEF Surjection
<1> QED BY <1>3, FS_Surjection DEF T

IsFun(f, I) == f = [i \in I |-> f[i]]

ValuesOf(f, I) == {f[i] : i \in I}

AllGood(f, I, vals, k, eq, g) == \A o \in I : Good(f[o], vals, k, eq, g)

NoneShared(f, I) == \A o, q \in I : o # q => RowsIn(f[o]) \cap RowsIn(f[q]) = {}

EveryRow(f, I, n) == \A r \in 1 .. n : \E o \in I : r \in RowsIn(f[o])

\* States that share no row and have every row are a heap.
LEMMA HeapFrom ==
    ASSUME NEW vals \in Seq(Nat), NEW k \in Nat \ {0}, NEW eq, NEW g, NEW I, IsFiniteSet(I),
           NEW f, IsFun(f, I),
           AllGood(f, I, vals, k, eq, g), NoneShared(f, I), EveryRow(f, I, Len(vals))
    PROVE HeapOf(ValuesOf(f, I), vals, k, eq, g)
<1> DEFINE H == {f[o] : o \in I}
<1>1. IsFiniteSet(H)
  BY ImageFinite DEF IsFun
<1>2. \A s \in H : Good(s, vals, k, eq, g)
  BY DEF AllGood
<1>3. \A s, t \in H : s # t => RowsIn(s) \cap RowsIn(t) = {}
  BY DEF NoneShared
<1>4. ASSUME NEW s \in H, NEW r \in RowsIn(s) PROVE r \in 1 .. Len(vals)
  <2>1. Len(s) = k /\ \A p \in 1 .. k : SetOf(s[p], vals)
    BY <1>2 DEF Good, State
  <2>2. PICK p \in 1 .. k : r \in Rows(s[p])
    BY <2>1 DEF RowsIn
  <2> QED BY <2>1, <2>2 DEF SetOf
<1>5. ASSUME NEW r \in 1 .. Len(vals) PROVE \E s \in H : r \in RowsIn(s)
  BY DEF EveryRow
<1> HIDE DEF H
<1>6. UNION {RowsIn(s) : s \in H} = 1 .. Len(vals)
  BY <1>4, <1>5
<1>7. HeapOf(H, vals, k, eq, g)
  BY <1>1, <1>2, <1>3, <1>6 DEF HeapOf, Disjoint
<1> QED BY <1>7 DEF H, ValuesOf

-----------------------------------------------------------------------------
(* The states the heap starts with.                                        *)

OneRow(vals, j) == [sum |-> vals[j], rows |-> <<j>>]

NoRow == [sum |-> 0, rows |-> <<>>]

\* A set with one row.
LEMMA OneRowSet ==
    ASSUME NEW vals \in Seq(Nat), NEW j \in 1 .. Len(vals)
    PROVE /\ SetOf(OneRow(vals, j), vals) /\ Rows(OneRow(vals, j)) = {j}
          /\ Size(OneRow(vals, j)) = 1 /\ Worth(OneRow(vals, j)) = vals[j]
          /\ OneRow(vals, j) \in RowRec
<1> DEFINE x == OneRow(vals, j)
<1>1. x.sum = vals[j] /\ x.rows = <<j>> /\ x = [sum |-> vals[j], rows |-> <<j>>]
  BY DEF OneRow
<1>2. vals[j] \in Nat /\ j \in Nat
  OBVIOUS
<1>3. <<j>> \in Seq(Nat) /\ Len(<<j>>) = 1
  BY <1>2
<1>4. x \in RowRec
  BY <1>1, <1>2, <1>3 DEF RowRec
<1>5. Enumerates(<<j>>, {j})
  BY DEF Enumerates
<1> HIDE DEF x
<1>6. Rows(x) = {j}
  <2>1. Enumerates(x.rows, {j})
    BY <1>1, <1>5
  <2> QED BY <2>1, RowsAre
<1>7. Worth(x) = Load(vals, Rows(x))
  BY <1>1, <1>6, LoadFew DEF Worth
<1>8. SetOf(x, vals)
  <2>1. Enumerates(x.rows, Rows(x))
    BY <1>1, <1>5, <1>6, Zenon
  <2>2. Rows(x) \subseteq 1 .. Len(vals)
    BY <1>6
  <2> QED BY <1>4, <1>7, <2>1, <2>2 DEF SetOf
<1>9. Size(x) = 1 /\ Worth(x) = vals[j]
  BY <1>1, <1>3 DEF Size, Worth
<1> QED BY <1>4, <1>6, <1>8, <1>9 DEF x

\* A set without rows.
LEMMA NoRowSet ==
    ASSUME NEW vals \in Seq(Nat)
    PROVE SetOf(NoRow, vals) /\ Rows(NoRow) = {} /\ Size(NoRow) = 0 /\ NoRow \in RowRec
<1> DEFINE x == NoRow
<1>1. x.sum = 0 /\ x.rows = <<>> /\ x = [sum |-> 0, rows |-> <<>>]
  BY DEF NoRow
<1>2. <<>> \in Seq(Nat) /\ Len(<<>>) = 0
  OBVIOUS
<1>3. x \in RowRec
  BY <1>1, <1>2 DEF RowRec
<1> HIDE DEF x
<1>4. Rows(x) = {}
  <2>1. Enumerates(x.rows, {})
    BY <1>1, EnumEmpty
  <2> QED BY <2>1, RowsAre
<1>5. Worth(x) = Load(vals, Rows(x))
  BY <1>1, <1>4, LoadFew DEF Worth
<1>6. SetOf(x, vals)
  <2>1. Enumerates(x.rows, Rows(x))
    BY <1>1, <1>4, EnumEmpty, Zenon
  <2>2. Rows(x) \subseteq 1 .. Len(vals)
    BY <1>4
  <2> QED BY <1>3, <1>5, <2>1, <2>2 DEF SetOf
<1>7. Size(x) = 0
  BY <1>1, <1>2 DEF Size
<1> QED BY <1>3, <1>4, <1>6, <1>7 DEF x

\* A first state, sorted.
LEMMA DecreasingGood ==
    ASSUME NEW vals \in Seq(Nat), NEW k \in Nat \ {0}, NEW eq, NEW g, NEW x, State(x, vals, k),
           RowsIn(x) # {}, SpreadOut(x), eq => Even(x) /\ Within(x, g)
    PROVE Good(Decreasing(x), vals, k, eq, g) /\ RowsIn(Decreasing(x)) = RowsIn(x)
<1> DEFINE d == Decreasing(x)
<1>1. x \in Seq(RowRec)
  BY DEF State
<1>2. Rearranges(d, x) /\ Sorted(d)
  BY <1>1, DecreasingFacts
<1> HIDE DEF d
<1>3. /\ State(d, vals, k) /\ RowsIn(d) = RowsIn(x)
      /\ Even(x) => Even(d)
      /\ Within(x, g) => Within(d, g)
      /\ SpreadOut(x) => SpreadOut(d)
  BY <1>2, StateRearranged
<1> QED BY <1>2, <1>3 DEF Good, d

\* The place i of block o, from 0, of k places.
Place(o, i, k) == (o * k) + i

\* The places of blocks of k: each place is in one block.
LEMMA Places ==
    ASSUME NEW k \in Nat \ {0}, NEW c \in Nat
    PROVE /\ \A o \in 0 .. c - 1 : \A i \in 1 .. k : Place(o, i, k) \in 1 .. c * k
          /\ \A o, q \in 0 .. c - 1 : \A i, j \in 1 .. k :
                Place(o, i, k) = Place(q, j, k) => o = q /\ i = j
          /\ \A m \in 1 .. c * k : \E o \in 0 .. c - 1 : \E i \in 1 .. k : Place(o, i, k) = m
          /\ \A o \in 0 .. c - 1 : \A i, j \in 1 .. k : i < j => Place(o, i, k) < Place(o, j, k)
<1>1. ASSUME NEW o \in 0 .. c - 1, NEW i \in 1 .. k
      PROVE Place(o, i, k) \in 1 .. c * k /\ ((Place(o, i, k) - 1) \div k) + 1 = o + 1
  <2> DEFINE p == o + 1
  <2>1. p \in 1 .. c /\ p - 1 = o
    OBVIOUS
  <2> HIDE DEF p
  <2> DEFINE e == (p - 1) * k + i
  <2>2. e \in 1 .. c * k /\ ((e - 1) \div k) + 1 = p
    BY <2>1, PlaceInBlock
  <2>3. Place(o, i, k) = e
    BY <2>1 DEF Place
  <2> HIDE DEF e
  <2>4. Place(o, i, k) \in 1 .. c * k
    BY <2>2, <2>3
  <2>5. ((Place(o, i, k) - 1) \div k) + 1 = p
    BY <2>2, <2>3
  <2> QED BY <2>4, <2>5 DEF p
<1>2. ASSUME NEW o \in 0 .. c - 1, NEW q \in 0 .. c - 1, NEW i \in 1 .. k, NEW j \in 1 .. k,
             Place(o, i, k) = Place(q, j, k)
      PROVE o = q /\ i = j
  <2>1. o + 1 = q + 1
    BY <1>1, <1>2
  <2>2. o = q
    BY <2>1
  <2> DEFINE a == o * k
  <2>3. a \in Nat /\ a + i = a + j
    BY <1>2, <2>2 DEF Place
  <2> HIDE DEF a
  <2> QED BY <2>2, <2>3
<1>3. ASSUME NEW m \in 1 .. c * k
      PROVE \E o \in 0 .. c - 1 : \E i \in 1 .. k : Place(o, i, k) = m
  <2> DEFINE o == (m - 1) \div k
             i == m - o * k
  <2>1. o + 1 \in 1 .. c /\ i \in 1 .. k
    BY Block
  <2>2. o \in Int /\ m \in Int
    OBVIOUS
  <2> HIDE DEF o
  <2>3. o \in 0 .. c - 1
    BY <2>1, <2>2
  <2>4. Place(o, i, k) = m
    <3> DEFINE a == o * k
    <3>1. a \in Int /\ Place(o, i, k) = a + (m - a)
      BY <2>2 DEF Place
    <3> HIDE DEF a
    <3> QED BY <2>2, <3>1
  <2> HIDE DEF i
  <2> QED BY <2>1, <2>3, <2>4
<1>4. ASSUME NEW o \in 0 .. c - 1, NEW i \in 1 .. k, NEW j \in 1 .. k, i < j
      PROVE Place(o, i, k) < Place(o, j, k)
  <2> DEFINE a == o * k
  <2>1. a \in Nat /\ Place(o, i, k) = a + i /\ Place(o, j, k) = a + j
    BY DEF Place
  <2> HIDE DEF a
  <2> QED BY <1>4, <2>1
<1> QED BY <1>1, <1>2, <1>3, <1>4

ByValue(vals) == Ordered([i \in DOMAIN vals |-> i], Ascending(vals))

\* The rows in the order of their values.
LEMMA ByValueFacts ==
    ASSUME NEW vals \in Seq(Nat)
    PROVE /\ Permutes(ByValue(vals), Len(vals)) /\ ByValue(vals) = Sorting(Ascending(vals), Len(vals))
          /\ \A i, j \in 1 .. Len(vals) : i < j => vals[ByValue(vals)[i]] <= vals[ByValue(vals)[j]]
<1> DEFINE n == Len(vals)
           pi == Sorting(Ascending(vals), n)
           id == [i \in 1 .. n |-> i]
<1>1. n \in Nat /\ DOMAIN vals = 1 .. n /\ vals \in Seq(Int)
  OBVIOUS
<1>2. id \in Seq(1 .. n) /\ Len(id) = n
  BY <1>1
<1>3. IsOrder(Ascending(vals), n) /\ \A i, j \in 1 .. n : i < j => vals[pi[i]] <= vals[pi[j]]
  BY <1>1, AscendingOrder
<1>4. Permutes(pi, n)
  BY <1>1, <1>3, SortingFollows DEF Follows
<1>5. ByValue(vals) = Ordered(id, Ascending(vals))
  BY <1>1 DEF ByValue
<1> HIDE DEF pi, id
<1>6. Ordered(id, Ascending(vals)) = [i \in 1 .. n |-> id[pi[i]]]
  <2> DEFINE S == 1 .. n
             before == Ascending(vals)
             m == Len(id)
  <2>1. id \in Seq(S) /\ IsOrder(before, Len(id))
    BY <1>2, <1>3
  <2> HIDE DEF S, before
  <2>2. Ordered(id, before) = [i \in 1 .. m |-> id[Sorting(before, m)[i]]]
    BY <2>1, OrderedIs
  <2>3. m = n
    BY <1>2
  <2> QED BY <2>2, <2>3, Zenon DEF pi, before
<1>7. \A i \in 1 .. n : pi[i] \in 1 .. n /\ id[pi[i]] = pi[i]
  BY <1>4 DEF Permutes, id
<1>8. pi = [i \in 1 .. n |-> pi[i]]
  BY <1>4 DEF Permutes
<1>9. ByValue(vals) = pi
  BY <1>5, <1>6, <1>7, <1>8
<1> QED BY <1>3, <1>4, <1>9 DEF pi

\* Each k values next to each other in their order lie within g.
GapsWithin(vals, k, g) ==
    \A o \in 0 .. (Len(vals) \div k) - 1 :
        vals[ByValue(vals)[(o + 1) * k]] <= vals[ByValue(vals)[(o * k) + 1]] + g

\* The first states when the parts are to have one size: k rows each, next
\* to each other by value, so that their values are within the gap g.
LEMMA FirstEqual ==
    ASSUME NEW vals \in Seq(Nat), NEW k \in Nat \ {0}, Len(vals) # 0, Len(vals) % k = 0, NEW g \in Nat,
           GapsWithin(vals, k, g)
    PROVE HeapOf(FirstStates(vals, k, TRUE), vals, k, TRUE, g) /\ FirstStates(vals, k, TRUE) # {}
<1> DEFINE n == Len(vals)
           c == n \div k
           b == ByValue(vals)
           x(o) == [i \in 1 .. k |-> OneRow(vals, b[Place(o, i, k)])]
           I == 0 .. c - 1
           f == [o \in I |-> Decreasing(x(o))]
<1>1. n \in Nat /\ c \in Nat /\ n = c * k /\ c # 0
  <2>1. n \in Nat /\ c \in Nat /\ n = (c * k) + (n % k)
    <3>1. n \in Nat
      OBVIOUS
    <3> HIDE DEF n
    <3>2. n \div k \in Nat /\ n = (n \div k) * k + (n % k)
      BY <3>1, Divide
    <3> QED BY <3>1, <3>2, Zenon
  <2>2. n % k = 0 /\ n # 0
    OBVIOUS
  <2>3. c * k \in Nat /\ (c = 0 => c * k = 0)
    BY <2>1
  <2> DEFINE e == c * k
  <2> HIDE DEF n, c, e
  <2>4. n = e
    BY <2>1, <2>2, <2>3 DEF e
  <2> QED BY <2>1, <2>2, <2>3, <2>4 DEF e
<1>2. /\ \A i \in 1 .. n : b[i] \in 1 .. n
      /\ \A i, j \in 1 .. n : b[i] = b[j] => i = j
      /\ \A r \in 1 .. n : \E i \in 1 .. n : b[i] = r
      /\ \A i, j \in 1 .. n : i < j => vals[b[i]] <= vals[b[j]]
  BY ByValueFacts DEF Permutes
<1>3. \A r \in 1 .. n : vals[r] \in Nat
  OBVIOUS
<1>4. FirstStates(vals, k, TRUE) = {f[o] : o \in I}
  <2>1. FirstStates(vals, k, TRUE) = {Decreasing(x(o)) : o \in I}
    BY DEF FirstStates, ByValue, OneRow, Place
  <2> HIDE DEF x, I
  <2> QED BY <2>1
<1> HIDE DEF c, b
<1>5. /\ \A o \in I : \A i \in 1 .. k : Place(o, i, k) \in 1 .. n
      /\ \A o, q \in I : \A i, j \in 1 .. k : Place(o, i, k) = Place(q, j, k) => o = q /\ i = j
      /\ \A m \in 1 .. n : \E o \in I : \E i \in 1 .. k : Place(o, i, k) = m
      /\ \A o \in I : \A i, j \in 1 .. k : i < j => Place(o, i, k) < Place(o, j, k)
  <2> DEFINE e == c * k
  <2>1. /\ \A o \in 0 .. c - 1 : \A i \in 1 .. k : Place(o, i, k) \in 1 .. e
        /\ \A o, q \in 0 .. c - 1 : \A i, j \in 1 .. k : Place(o, i, k) = Place(q, j, k) => o = q /\ i = j
        /\ \A m \in 1 .. e : \E o \in 0 .. c - 1 : \E i \in 1 .. k : Place(o, i, k) = m
        /\ \A o \in 0 .. c - 1 : \A i, j \in 1 .. k : i < j => Place(o, i, k) < Place(o, j, k)
    BY <1>1, Places
  <2>2. n = e
    BY <1>1
  <2> HIDE DEF e, n
  <2> QED BY <2>1, <2>2
<1> DEFINE r(o, i) == b[Place(o, i, k)]
<1>6. /\ \A o \in I : \A i \in 1 .. k : r(o, i) \in 1 .. n
      /\ \A o, q \in I : \A i, j \in 1 .. k : r(o, i) = r(q, j) => o = q /\ i = j
  <2> HIDE DEF I, n
  <2>1. ASSUME NEW o \in I, NEW i \in 1 .. k PROVE r(o, i) \in 1 .. n
    BY <1>2, <1>5
  <2>2. ASSUME NEW o \in I, NEW q \in I, NEW i \in 1 .. k, NEW j \in 1 .. k, r(o, i) = r(q, j)
        PROVE o = q /\ i = j
    <3>1. Place(o, i, k) \in 1 .. n /\ Place(q, j, k) \in 1 .. n
      BY <1>5
    <3>2. Place(o, i, k) = Place(q, j, k)
      BY <1>2, <2>2, <3>1
    <3> QED BY <1>5, <3>2
  <2> QED BY <2>1, <2>2
<1>7. \A a \in 1 .. n : \E o \in I : \E i \in 1 .. k : r(o, i) = a
  <2> TAKE a \in 1 .. n
  <2>1. PICK m \in 1 .. n : b[m] = a
    BY <1>2
  <2>2. PICK o \in I : \E i \in 1 .. k : Place(o, i, k) = m
    BY <1>5
  <2> QED BY <2>1, <2>2
<1>8. \A o \in I : \A i, j \in 1 .. k : vals[r(o, i)] <= vals[r(o, j)] + g
  <2> TAKE o \in I
  <2> TAKE i, j \in 1 .. k
  <2>1. k \in 1 .. k /\ 1 \in 1 .. k /\ (i < k \/ i = k) /\ (1 < j \/ 1 = j)
    OBVIOUS
  <2>2. Place(o, k, k) = (o + 1) * k /\ Place(o, 1, k) = (o * k) + 1
    BY <1>1 DEF Place
  <2>3. vals[r(o, k)] <= vals[r(o, 1)] + g
    BY <2>2 DEF GapsWithin, c, b
  <2>4. /\ Place(o, i, k) \in 1 .. n /\ Place(o, k, k) \in 1 .. n
        /\ Place(o, 1, k) \in 1 .. n /\ Place(o, j, k) \in 1 .. n
    BY <1>5, <2>1
  <2>5. /\ Place(o, i, k) < Place(o, k, k) \/ i = k
        /\ Place(o, 1, k) < Place(o, j, k) \/ 1 = j
    BY <1>5, <2>1
  <2> DEFINE v == vals[r(o, i)]
             w == vals[r(o, j)]
             x1 == vals[r(o, 1)]
             xk == vals[r(o, k)]
  <2>6. v \in Nat /\ w \in Nat /\ x1 \in Nat /\ xk \in Nat
    BY <1>3, <1>6, <2>1
  <2>7. v <= xk \/ v = xk
    <3>1. CASE i = k
      BY <3>1
    <3>2. CASE Place(o, i, k) < Place(o, k, k)
      BY <1>2, <2>4, <3>2
    <3> QED BY <2>5, <3>1, <3>2
  <2>8. x1 <= w \/ x1 = w
    <3>1. CASE 1 = j
      BY <3>1
    <3>2. CASE Place(o, 1, k) < Place(o, j, k)
      BY <1>2, <2>4, <3>2
    <3> QED BY <2>5, <3>1, <3>2
  <2>9. xk <= x1 + g
    BY <2>3
  <2> HIDE DEF v, w, x1, xk
  <2>10. v <= w + g
    BY <2>6, <2>7, <2>8, <2>9
  <2> QED BY <2>10 DEF v, w
<1> HIDE DEF r
<1>9. \A o \in I : x(o) = [i \in 1 .. k |-> OneRow(vals, r(o, i))]
  BY DEF r
<1>10. ASSUME NEW o \in I
       PROVE Good(f[o], vals, k, TRUE, g) /\ RowsIn(f[o]) = {r(o, i) : i \in 1 .. k}
  <2> DEFINE y == x(o)
  <2>1. f[o] = Decreasing(y)
    OBVIOUS
  <2>2. Len(y) = k /\ \A i \in 1 .. k : y[i] = OneRow(vals, r(o, i))
    BY <1>9
  <2>3. \A i \in 1 .. k : /\ SetOf(y[i], vals) /\ Rows(y[i]) = {r(o, i)}
                          /\ Size(y[i]) = 1 /\ Worth(y[i]) = vals[r(o, i)] /\ y[i] \in RowRec
    <3> TAKE i \in 1 .. k
    <3> DEFINE a == r(o, i)
    <3>1. a \in 1 .. Len(vals) /\ y[i] = OneRow(vals, a)
      BY <1>6, <2>2
    <3> HIDE DEF a, y
    <3>2. /\ SetOf(OneRow(vals, a), vals) /\ Rows(OneRow(vals, a)) = {a}
          /\ Size(OneRow(vals, a)) = 1 /\ Worth(OneRow(vals, a)) = vals[a]
          /\ OneRow(vals, a) \in RowRec
      BY <3>1, OneRowSet
    <3> QED BY <3>1, <3>2 DEF a
  <2>4. y \in Seq(RowRec)
    <3>1. y = [i \in 1 .. k |-> y[i]]
      OBVIOUS
    <3>2. y \in [1 .. k -> RowRec]
      BY <2>3, <3>1
    <3> QED BY <3>2
  <2> HIDE DEF x, f, y
  <2>5. ASSUME NEW i \in 1 .. k, NEW j \in 1 .. k, i # j PROVE Rows(y[i]) \cap Rows(y[j]) = {}
    <3>1. Rows(y[i]) = {r(o, i)} /\ Rows(y[j]) = {r(o, j)}
      BY <2>3
    <3>2. r(o, i) # r(o, j)
      BY <1>6, <2>5
    <3> QED BY <3>1, <3>2
  <2>6. State(y, vals, k)
    BY <2>2, <2>3, <2>4, <2>5 DEF State
  <2>7. RowsIn(y) = {r(o, i) : i \in 1 .. k}
    <3>1. RowsIn(y) = UNION {Rows(y[i]) : i \in 1 .. k}
      BY <2>2 DEF RowsIn
    <3>2. \A i \in 1 .. k : Rows(y[i]) = {r(o, i)}
      BY <2>3
    <3>3. {Rows(y[i]) : i \in 1 .. k} = {{r(o, i)} : i \in 1 .. k}
      BY <3>2
    <3>4. UNION {{r(o, i)} : i \in 1 .. k} = {r(o, i) : i \in 1 .. k}
      OBVIOUS
    <3> QED BY <3>1, <3>3, <3>4
  <2>8. RowsIn(y) # {}
    <3>1. 1 \in 1 .. k
      OBVIOUS
    <3> QED BY <2>7, <3>1
  <2>9. SpreadOut(y)
    BY <2>2, <2>3 DEF SpreadOut, AllFilled
  <2>10. Even(y)
    BY <2>2, <2>3 DEF Even
  <2>11. Within(y, g)
    <3>1. \A i, j \in 1 .. k : Worth(y[i]) <= Worth(y[j]) + g
      BY <1>8, <2>3
    <3> QED BY <2>2, <3>1 DEF Within
  <2>12. Good(Decreasing(y), vals, k, TRUE, g) /\ RowsIn(Decreasing(y)) = RowsIn(y)
    BY <2>6, <2>8, <2>9, <2>10, <2>11, DecreasingGood
  <2> QED BY <2>1, <2>7, <2>12
<1>11. ASSUME NEW o \in I, NEW q \in I, o # q PROVE RowsIn(f[o]) \cap RowsIn(f[q]) = {}
  <2>1. RowsIn(f[o]) = {r(o, i) : i \in 1 .. k} /\ RowsIn(f[q]) = {r(q, i) : i \in 1 .. k}
    BY <1>10
  <2> HIDE DEF f, I
  <2> QED BY <1>6, <1>11, <2>1
<1>12. \A a \in 1 .. n : \E o \in I : a \in RowsIn(f[o])
  <2> TAKE a \in 1 .. n
  <2>1. PICK o \in I : \E i \in 1 .. k : r(o, i) = a
    BY <1>7
  <2>2. RowsIn(f[o]) = {r(o, i) : i \in 1 .. k}
    BY <1>10
  <2> QED BY <2>1, <2>2
<1>13. IsFiniteSet(I) /\ 0 \in I
  BY <1>1, FS_Interval
<1>14. f = [o \in I |-> f[o]]
  OBVIOUS
<1>16. IsFun(f, I)
  BY DEF IsFun
<1> HIDE DEF f, I
<1>15. HeapOf(ValuesOf(f, I), vals, k, TRUE, g)
  <2>1. AllGood(f, I, vals, k, TRUE, g)
    BY <1>10 DEF AllGood
  <2>2. NoneShared(f, I)
    BY <1>11 DEF NoneShared
  <2>3. EveryRow(f, I, Len(vals))
    BY <1>12 DEF EveryRow
  <2>4. IsFiniteSet(I)
    BY <1>13
  <2> QED BY <1>16, <2>1, <2>2, <2>3, <2>4, HeapFrom, Zenon
<1> QED BY <1>4, <1>13, <1>15 DEF ValuesOf

\* The first states otherwise: one row each.
LEMMA FirstSingle ==
    ASSUME NEW vals \in Seq(Nat), NEW k \in Nat \ {0}, Len(vals) # 0, NEW g
    PROVE HeapOf(FirstStates(vals, k, FALSE), vals, k, FALSE, g) /\ FirstStates(vals, k, FALSE) # {}
<1> DEFINE I == 1 .. Len(vals)
           x(j) == [i \in 1 .. k |-> IF i = 1 THEN OneRow(vals, j) ELSE NoRow]
           f == [j \in I |-> Decreasing(x(j))]
<1>1. Len(vals) \in Nat /\ DOMAIN vals = I
  OBVIOUS
<1>2. FirstStates(vals, k, FALSE) = {f[j] : j \in I}
  <2>1. FirstStates(vals, k, FALSE) = {Decreasing(x(j)) : j \in I}
    BY <1>1 DEF FirstStates, OneRow, NoRow
  <2> HIDE DEF x, I
  <2> QED BY <2>1
<1>3. ASSUME NEW j \in I
      PROVE Good(f[j], vals, k, FALSE, g) /\ RowsIn(f[j]) = {j}
  <2> DEFINE y == x(j)
  <2>1. f[j] = Decreasing(y)
    OBVIOUS
  <2>2. Len(y) = k /\ \A i \in 1 .. k : y[i] = IF i = 1 THEN OneRow(vals, j) ELSE NoRow
    OBVIOUS
  <2>3. \A i \in 1 .. k : /\ SetOf(y[i], vals) /\ Rows(y[i]) = IF i = 1 THEN {j} ELSE {}
                          /\ Size(y[i]) <= 1 /\ y[i] \in RowRec
    <3>1. /\ SetOf(OneRow(vals, j), vals) /\ Rows(OneRow(vals, j)) = {j}
          /\ Size(OneRow(vals, j)) = 1 /\ OneRow(vals, j) \in RowRec
      BY OneRowSet
    <3>2. SetOf(NoRow, vals) /\ Rows(NoRow) = {} /\ Size(NoRow) = 0 /\ NoRow \in RowRec
      BY NoRowSet
    <3> TAKE i \in 1 .. k
    <3>3. CASE i = 1
      BY <2>2, <3>1, <3>3
    <3>4. CASE i # 1
      BY <2>2, <3>2, <3>4
    <3> HIDE DEF y
    <3> QED BY <3>3, <3>4
  <2>4. y \in Seq(RowRec)
    <3>1. y = [i \in 1 .. k |-> y[i]]
      OBVIOUS
    <3>3. \A i \in 1 .. k : y[i] \in RowRec
      BY <2>3
    <3> HIDE DEF y
    <3>2. y \in [1 .. k -> RowRec]
      BY <3>1, <3>3
    <3> QED BY <3>2
  <2> HIDE DEF x, f, y
  <2>5. \A i, m \in 1 .. k : i # m => Rows(y[i]) \cap Rows(y[m]) = {}
    BY <2>3
  <2>6. State(y, vals, k)
    BY <2>2, <2>3, <2>4, <2>5 DEF State
  <2>7. RowsIn(y) = {j}
    <3>1. 1 \in 1 .. k
      OBVIOUS
    <3> QED BY <2>2, <2>3, <3>1 DEF RowsIn
  <2>9. SpreadOut(y)
    BY <2>2, <2>3 DEF SpreadOut, NoneDouble
  <2>12. Good(Decreasing(y), vals, k, FALSE, g) /\ RowsIn(Decreasing(y)) = RowsIn(y)
    BY <2>6, <2>7, <2>9, DecreasingGood
  <2> QED BY <2>1, <2>7, <2>12
<1>4. \A j, q \in I : j # q => RowsIn(f[j]) \cap RowsIn(f[q]) = {}
  BY <1>3
<1>5. \A a \in 1 .. Len(vals) : \E j \in I : a \in RowsIn(f[j])
  BY <1>3
<1>6. IsFiniteSet(I) /\ 1 \in I
  BY <1>1, FS_Interval
<1>7. f = [j \in I |-> f[j]]
  OBVIOUS
<1>16. IsFun(f, I)
  BY DEF IsFun
<1> HIDE DEF f, I
<1>8. HeapOf(ValuesOf(f, I), vals, k, FALSE, g)
  <2>1. AllGood(f, I, vals, k, FALSE, g)
    BY <1>3 DEF AllGood
  <2>2. NoneShared(f, I)
    BY <1>4 DEF NoneShared
  <2>3. EveryRow(f, I, Len(vals))
    BY <1>5 DEF EveryRow
  <2>4. IsFiniteSet(I)
    BY <1>6
  <2> QED BY <1>16, <2>1, <2>2, <2>3, <2>4, HeapFrom, Zenon
<1> QED BY <1>2, <1>6, <1>8 DEF ValuesOf

\* The last state of the heap and the parts it stands for.
PartsOf(s, k) == [p \in 1 .. k |-> Ordered(s[p].rows, Ascending(s[p].rows))]

\* What karmarkar_karp returns are the parts of one last state.
LEMMA LastState ==
    ASSUME NEW vals \in Seq(Nat), NEW k \in Nat \ {0}, NEW eq, NEW g \in Nat,
           HeapOf(FirstStates(vals, k, eq), vals, k, eq, g), FirstStates(vals, k, eq) # {}
    PROVE \E s : Good(s, vals, k, eq, g) /\ RowsIn(s) = 1 .. Len(vals) /\ Partitions(vals, k, eq) = PartsOf(s, k)
<1> DEFINE H == FirstStates(vals, k, eq)
           last == Cardinality(H) - 1
           heap == CHOOSE f : f = [i \in 0 .. last |-> IF i = 0 THEN H ELSE Merge(f[i-1])]
           s == CHOOSE s \in heap[last] : TRUE
<1>1. HeapOf(H, vals, k, eq, g) /\ H # {}
  OBVIOUS
<1>2. Partitions(vals, k, eq) = PartsOf(s, k)
  BY DEF Partitions, PartsOf
<1> HIDE DEF H
<1>3. IsFiniteSet(H)
  BY <1>1 DEF HeapOf, Disjoint
<1>4. last \in Nat
  BY <1>1, <1>3, FS_EmptySet, FS_CardinalityType
<1> HIDE DEF last
<1>5. \E f : HeapFun(f, H, last)
  BY <1>4, HeapRunExists
<1>6. HeapFun(heap, H, last)
  BY <1>5, Zenon DEF HeapFun
<1> HIDE DEF heap
<1>9. s = Final(heap, last)
  BY DEF Final
<1> HIDE DEF s
<1>7. last = Cardinality(H) - 1
  BY DEF last
<1>8. Good(s, vals, k, eq, g) /\ RowsIn(s) = 1 .. Len(vals)
  <2>1. Good(Final(heap, last), vals, k, eq, g) /\ RowsIn(Final(heap, last)) = 1 .. Len(vals)
    BY <1>1, <1>6, <1>7, HeapEnds
  <2> QED BY <1>9, <2>1
<1> QED BY <1>2, <1>8

\* The k parts are the sets A, none of them empty, which have every row once.
IsParted(parts, A, n, k) ==
    /\ parts \in Seq(Seq(1 .. n)) /\ EnumEach(parts, A, k)
    /\ Apart(A, k) /\ AllOf(A, k) = 1 .. n
    /\ \A p \in 1 .. k : Len(parts[p]) >= 1

\* With at least as many rows as sets, no set is empty in the end.
LEMMA Filled ==
    ASSUME NEW vals \in Seq(Nat), NEW k \in Nat \ {0}, NEW s, State(s, vals, k), SpreadOut(s),
           RowsIn(s) = 1 .. Len(vals), k <= Len(vals)
    PROVE AllFilled(s)
<1> DEFINE n == Len(vals)
<1>1. /\ s \in Seq(RowRec) /\ Len(s) = k
      /\ \A p \in 1 .. k : SetOf(s[p], vals)
      /\ \A p \in 1 .. k : Size(s[p]) \in Nat
  <2>1. s \in Seq(RowRec) /\ Len(s) = k /\ \A p \in 1 .. k : SetOf(s[p], vals)
    BY DEF State
  <2>2. \A p \in 1 .. k : s[p] \in RowRec
    BY <2>1
  <2> QED BY <2>1, <2>2, RowRecParts
<1>2. SUFFICES ASSUME ~AllFilled(s), NoneDouble(s) PROVE FALSE
  BY DEF SpreadOut
<1>3. PICK e \in 1 .. k : ~(Size(s[e]) >= 1)
  BY <1>1, <1>2 DEF AllFilled
<1>4. Rows(s[e]) = {}
  <2>1. Size(s[e]) = 0
    BY <1>1, <1>3
  <2> QED BY <2>1 DEF Rows, Size
<1> DEFINE S == 1 .. n
           T == (1 .. k) \ {e}
           f == [x \in S |-> CHOOSE p \in 1 .. k : x \in Rows(s[p])]
<1>5. n \in Nat
  OBVIOUS
<1>6. ASSUME NEW x \in S PROVE f[x] \in T /\ x \in Rows(s[f[x]])
  <2>1. \E p \in 1 .. k : x \in Rows(s[p])
    BY <1>1 DEF RowsIn
  <2>2. f[x] \in 1 .. k /\ x \in Rows(s[f[x]])
    BY <2>1
  <2> QED BY <1>4, <2>2
<1>7. f \in [S -> T]
  BY <1>6
<1>8. IsFiniteSet(S) /\ Cardinality(S) = n /\ IsFiniteSet(T) /\ Cardinality(T) = k - 1
  <2>1. IsFiniteSet(S) /\ Cardinality(S) = n
    <3> HIDE DEF n
    <3> QED BY <1>5, FS_Interval
  <2>2. IsFiniteSet(1 .. k) /\ Cardinality(1 .. k) = k
    BY FS_Interval
  <2>3. IsFiniteSet(T) /\ Cardinality(T) = k - 1
    <3> DEFINE K == 1 .. k
    <3>1. IsFiniteSet(K) /\ Cardinality(K) = k /\ e \in K
      BY <1>4, <2>2
    <3> HIDE DEF K
    <3>2. IsFiniteSet(K \ {e}) /\ Cardinality(K \ {e}) = k - 1
      BY <3>1, FS_RemoveElement
    <3> QED BY <3>2 DEF K
  <2> QED BY <2>1, <2>3
<1> HIDE DEF f
<1>9. \E x, y \in S : x # y /\ f[x] = f[y]
  <2>1. Cardinality(T) < Cardinality(S)
    BY <1>5, <1>8
  <2> HIDE DEF S, T
  <2> QED BY <1>7, <1>8, <2>1, FS_PigeonHole
<1>10. PICK x \in S, y \in S : x # y /\ f[x] = f[y]
  BY <1>9
<1> DEFINE r == s[f[x]]
<1>11. x \in Rows(r) /\ y \in Rows(r) /\ f[x] \in 1 .. k
  BY <1>6, <1>10
<1>12. Size(r) <= 1 /\ Size(r) \in Nat
  BY <1>1, <1>2, <1>11 DEF NoneDouble
<1> HIDE DEF r
<1>13. PICK i \in 1 .. Size(r), j \in 1 .. Size(r) : r.rows[i] = x /\ r.rows[j] = y
  BY <1>11 DEF Rows, Size
<1>14. i = j
  BY <1>12, <1>13
<1> QED BY <1>10, <1>13, <1>14

SetsParted(s, vals, k) ==
    LET A == [p \in 1 .. k |-> Rows(s[p])]
    IN  /\ IsParted(PartsOf(s, k), A, Len(vals), k)
        /\ \A p \in 1 .. k : Len(PartsOf(s, k)[p]) = Size(s[p])

\* The sets of the last state have every row once.
LEMMA GoodParts ==
    ASSUME NEW vals \in Seq(Nat), NEW k \in Nat \ {0}, NEW eq, NEW g, NEW s, Good(s, vals, k, eq, g),
           RowsIn(s) = 1 .. Len(vals), k <= Len(vals)
    PROVE SetsParted(s, vals, k)
<1> DEFINE n == Len(vals)
           A == [p \in 1 .. k |-> Rows(s[p])]
           parts == PartsOf(s, k)
<1>1. /\ State(s, vals, k) /\ s \in Seq(RowRec) /\ Len(s) = k
      /\ \A p \in 1 .. k : SetOf(s[p], vals)
      /\ \A p, q \in 1 .. k : p # q => Rows(s[p]) \cap Rows(s[q]) = {}
  BY DEF Good, State
<1>2. AllFilled(s)
  BY <1>1, Filled DEF Good
<1>3. ASSUME NEW p \in 1 .. k
      PROVE /\ parts[p] \in Seq(1 .. n) /\ Enumerates(parts[p], Rows(s[p])) /\ Len(parts[p]) = Size(s[p])
            /\ parts[p] = Ordered(s[p].rows, Ascending(s[p].rows))
  <2> DEFINE r == s[p].rows
  <2>1. parts[p] = Ordered(r, Ascending(r))
    BY DEF PartsOf
  <2>2. Enumerates(r, Rows(s[p])) /\ Rows(s[p]) \subseteq 1 .. n /\ Len(r) = Size(s[p])
    BY <1>1 DEF SetOf, Size
  <2> HIDE DEF r, parts, n
  <2>3. r \in Seq(Rows(s[p])) /\ \A i \in 1 .. Len(r) : r[i] \in Rows(s[p])
    BY <2>2 DEF Enumerates
  <2>4. r \in Seq(1 .. n)
    <3> DEFINE R == Rows(s[p])
               N == 1 .. n
    <3>1. R \subseteq N /\ r \in Seq(R)
      BY <2>2, <2>3
    <3> HIDE DEF R, N
    <3>2. Len(r) \in Nat /\ \A i \in 1 .. Len(r) : r[i] \in N
      BY <3>1
    <3>3. r \in [1 .. Len(r) -> N]
      BY <3>1, <3>2
    <3>4. r \in Seq(N)
      BY <3>2, <3>3
    <3> QED BY <3>4 DEF N
  <2>5. r \in Seq(Int)
    <3>1. s[p] \in RowRec
      BY <1>1
    <3>2. r \in Seq(Nat)
      BY <3>1, RowRecParts DEF r
    <3> QED BY <3>2
  <2>6. IsOrder(Ascending(r), Len(r))
    BY <2>5, AscendingOrder
  <2>7. Rearranges(Ordered(r, Ascending(r)), r)
    BY <2>5, <2>6, OrderedIs
  <2>8. Enumerates(parts[p], Rows(s[p]))
    BY <2>1, <2>2, <2>7, EnumRearranged
  <2>9. parts[p] \in Seq(1 .. n) /\ Len(parts[p]) = Len(r)
    BY <2>1, <2>4, <2>7, RearrangedType
  <2> QED BY <2>1, <2>2, <2>8, <2>9 DEF r
<1>4. Len(parts) = k /\ parts \in Seq(Seq(1 .. n))
  <2>1. parts = [p \in 1 .. k |-> parts[p]]
    BY DEF PartsOf
  <2> HIDE DEF parts
  <2>2. parts \in [1 .. k -> Seq(1 .. n)]
    BY <1>3, <2>1
  <2> QED BY <2>1, <2>2
<1>5. \A p \in 1 .. k : A[p] = Rows(s[p])
  OBVIOUS
<1> HIDE DEF A, parts
<1>6. EnumEach(parts, A, k)
  BY <1>3, <1>4, <1>5 DEF EnumEach
<1>7. Apart(A, k)
  <2> SUFFICES ASSUME NEW p \in 1 .. k, NEW q \in 1 .. k, p # q PROVE A[p] \cap A[q] = {}
    BY DEF Apart
  <2> QED BY <1>1, <1>5
<1>8. AllOf(A, k) = 1 .. n
  <2>1. AllOf(A, k) = RowsIn(s)
    <3>1. {A[p] : p \in 1 .. k} = {Rows(s[p]) : p \in 1 .. k}
      BY <1>5
    <3>2. Len(s) = k
      BY <1>1
    <3> QED BY <3>1, <3>2 DEF AllOf, RowsIn
  <2> QED BY <2>1
<1>9. \A p \in 1 .. k : Len(parts[p]) >= 1
  BY <1>1, <1>2, <1>3 DEF AllFilled
<1>10. IsParted(parts, A, n, k)
  BY <1>4, <1>6, <1>7, <1>8, <1>9 DEF IsParted
<1> QED BY <1>3, <1>10 DEF parts, A, SetsParted

\* karmarkar_karp without equal sizes (seqlen_balancing.py): with at least as
\* many rows as partitions, every row is in one partition and no partition is
\* empty, for every number of rows and all their lengths: what the assertions of
\* the function and of check_and_sort_partitions say never fails.
THEOREM PartitionsParted ==
    ASSUME NEW vals \in Seq(Nat), NEW k \in Nat \ {0}, k <= Len(vals)
    PROVE \E A : IsParted(Partitions(vals, k, FALSE), A, Len(vals), k)
<1>1. Len(vals) # 0 /\ 0 \in Nat
  OBVIOUS
<1>2. HeapOf(FirstStates(vals, k, FALSE), vals, k, FALSE, 0) /\ FirstStates(vals, k, FALSE) # {}
  BY <1>1, FirstSingle
<1>3. PICK s : /\ Good(s, vals, k, FALSE, 0) /\ RowsIn(s) = 1 .. Len(vals)
               /\ Partitions(vals, k, FALSE) = PartsOf(s, k)
  BY <1>1, <1>2, LastState, Zenon
<1>4. SetsParted(s, vals, k)
  BY <1>3, GoodParts, Zenon
<1> QED BY <1>3, <1>4 DEF SetsParted

\* karmarkar_karp with equal sizes, for every number of rows that divides: every
\* row is in one partition, the partitions have the same size, and their sums
\* differ by no more than g if rows next to each other in the order of their
\* lengths, in groups of one row for each partition, differ by no more than g.
THEOREM PartitionsEqual ==
    ASSUME NEW vals \in Seq(Nat), NEW k \in Nat \ {0}, Len(vals) # 0, Len(vals) % k = 0, NEW g \in Nat,
           GapsWithin(vals, k, g)
    PROVE \E A : LET parts == Partitions(vals, k, TRUE)
                 IN  /\ IsParted(parts, A, Len(vals), k)
                     /\ \A p \in 1 .. k : Len(parts[p]) = Len(vals) \div k
                     /\ \A p, q \in 1 .. k : Load(vals, A[p]) <= Load(vals, A[q]) + g
<1> DEFINE n == Len(vals)
           c == n \div k
           parts == Partitions(vals, k, TRUE)
<1>1. n \in Nat /\ k <= n /\ c \in Nat /\ n = k * c
  <2>1. n \in Nat
    OBVIOUS
  <2>2. n \div k \in Nat /\ n % k = 0 /\ n = ((n \div k) * k) + (n % k)
    <3> HIDE DEF n
    <3>1. n \div k \in Nat /\ n = ((n \div k) * k) + (n % k)
      BY <2>1, Divide
    <3> QED BY <3>1 DEF n
  <2> HIDE DEF n
  <2>3. c \in Nat /\ c * k = k * c /\ c * k \in Nat
    <3>1. c \in Nat
      BY <2>2
    <3> HIDE DEF c
    <3> QED BY <3>1
  <2>4. n = k * c
    <3> DEFINE e == c * k
    <3>1. n = e + (n % k) /\ e \in Nat
      BY <2>2, <2>3
    <3> HIDE DEF e
    <3>2. n = e
      BY <2>2, <3>1
    <3> QED BY <2>3, <3>2 DEF e
  <2>5. c # 0
    <3>1. n # 0
      BY DEF n
    <3> QED BY <2>4, <3>1
  <2>6. 1 * k <= c * k
    BY <2>3, <2>5, Multiple
  <2> QED BY <2>1, <2>3, <2>4, <2>6
<1>2. HeapOf(FirstStates(vals, k, TRUE), vals, k, TRUE, g) /\ FirstStates(vals, k, TRUE) # {}
  BY FirstEqual
<1>3. PICK s : /\ Good(s, vals, k, TRUE, g) /\ RowsIn(s) = 1 .. n
               /\ parts = PartsOf(s, k)
  BY <1>2, LastState, Zenon
<1>4. SetsParted(s, vals, k)
  <2>1. Good(s, vals, k, TRUE, g)
    BY <1>3
  <2>2. RowsIn(s) = 1 .. Len(vals)
    BY <1>3
  <2>3. k <= Len(vals)
    BY <1>1
  <2> HIDE DEF n, c, parts
  <2> QED BY <2>1, <2>2, <2>3, GoodParts, Zenon
<1> DEFINE A == [p \in 1 .. k |-> Rows(s[p])]
<1>5. IsParted(parts, A, n, k) /\ \A p \in 1 .. k : Len(parts[p]) = Size(s[p])
  BY <1>3, <1>4 DEF SetsParted
<1>6. Even(s) /\ Within(s, g) /\ Len(s) = k /\ \A p \in 1 .. k : Worth(s[p]) = Load(vals, Rows(s[p]))
  BY <1>3 DEF Good, State, SetOf
<1> HIDE DEF parts, c, n
<1>7. \A p \in 1 .. k : Len(parts[p]) = c
  <2> DEFINE d == Len(parts[1])
  <2>1. 1 \in 1 .. k
    OBVIOUS
  <2>2. \A p \in 1 .. k : Len(parts[p]) = d
    BY <1>5, <1>6, <2>1 DEF Even
  <2>3. parts \in Seq(Seq(1 .. n)) /\ Len(parts) = k
    BY <1>5 DEF IsParted, EnumEach
  <2>4. d \in Nat /\ \A p \in 1 .. k : parts[p] \in Seq(1 .. n)
    BY <2>1, <2>3
  <2> HIDE DEF d
  <2>5. Len(Concat(parts)) = k * d
    <3> DEFINE S == 1 .. n
    <3>1. \A p \in 1 .. k : parts[p] \in Seq(S)
      BY <2>4
    <3> HIDE DEF S
    <3>2. Blocks(parts, S, k, d)
      BY <2>2, <2>3, <3>1 DEF Blocks
    <3>3. Joins(Concat(parts), parts, S, k, d)
      BY <2>4, <3>2, ConcatBlocks
    <3> QED BY <3>3 DEF Joins
  <2>6. Enumerates(Concat(parts), 1 .. n)
    <3>1. EnumEach(parts, A, k) /\ Apart(A, k) /\ AllOf(A, k) = 1 .. n
      BY <1>5 DEF IsParted
    <3> HIDE DEF A
    <3>2. Enumerates(Concat(parts), AllOf(A, k))
      BY <3>1, EnumConcat
    <3> QED BY <3>1, <3>2
  <2>7. Cardinality(1 .. n) = Len(Concat(parts))
    BY <2>6, EnumSize
  <2>8. Cardinality(1 .. n) = n
    <3>1. n \in Nat /\ 0 + n = n /\ 0 + 1 = 1
      BY <1>1
    <3> HIDE DEF n
    <3>2. Cardinality(0 + 1 .. 0 + n) = n
      BY <3>1, IntervalSize
    <3> QED BY <3>1, <3>2
  <2>9. k * d = k * c
    BY <1>1, <2>5, <2>7, <2>8
  <2>10. d = c
    <3>1. (k * d) \div k = d /\ (k * c) \div k = c
      <4>1. \A q \in Nat : (q * k + 0) \div k = q
        BY Quotient
      <4>2. k * d = d * k + 0 /\ k * c = c * k + 0
        BY <1>1, <2>4
      <4> QED BY <1>1, <2>4, <4>1, <4>2
    <3> QED BY <2>9, <3>1
  <2> QED BY <2>2, <2>10
<1>8. \A p, q \in 1 .. k : Load(vals, A[p]) <= Load(vals, A[q]) + g
  <2> TAKE p, q \in 1 .. k
  <2>1. Worth(s[p]) <= Worth(s[q]) + g
    BY <1>6 DEF Within
  <2>2. Worth(s[p]) = Load(vals, A[p]) /\ Worth(s[q]) = Load(vals, A[q])
    BY <1>6
  <2> QED BY <2>1, <2>2
<1> QED BY <1>5, <1>7, <1>8 DEF parts, c, n

-----------------------------------------------------------------------------
(* Every other element, forwards and backwards.                            *)

\* Every other element from the first, and from the second.
LEMMA Halves ==
    ASSUME NEW S, NEW s \in Seq(S), s # <<>>
    PROVE \E a \in Nat : \E b \in Nat :
            /\ a + b = Len(s) /\ 2 * a - 1 <= Len(s) /\ 2 * b <= Len(s)
            /\ EveryOther(s, 1) = [i \in 1 .. a |-> s[2 * i - 1]]
            /\ EveryOther(s, 2) = [i \in 1 .. b |-> s[2 * i]]
<1> DEFINE n == Len(s)
           a == ((n - 1) \div 2) + 1
           b == ((n - 2) \div 2) + 1
<1>1. n \in Nat /\ n >= 1
  OBVIOUS
<1>2. EveryOther(s, 1) = [i \in 1 .. a |-> s[1 + (2 * (i - 1))]]
  BY DEF EveryOther
<1>3. EveryOther(s, 2) = [i \in 1 .. b |-> s[2 + (2 * (i - 1))]]
  BY DEF EveryOther
<1> HIDE DEF n
<1>4. /\ a \in Nat /\ b \in Nat /\ a + b = n /\ 2 * a - 1 <= n /\ 2 * b <= n
  BY <1>1
<1> HIDE DEF a, b
<1>5. \A i \in 1 .. a : 1 + (2 * (i - 1)) = 2 * i - 1
  BY <1>4
<1>6. \A i \in 1 .. b : 2 + (2 * (i - 1)) = 2 * i
  BY <1>4
<1>7. EveryOther(s, 1) = [i \in 1 .. a |-> s[2 * i - 1]]
  BY <1>2, <1>5
<1>8. EveryOther(s, 2) = [i \in 1 .. b |-> s[2 * i]]
  BY <1>3, <1>6
<1> QED BY <1>4, <1>7, <1>8 DEF n

\* A reversed sequence has the same elements.
LEMMA ReverseFacts ==
    ASSUME NEW S, NEW s \in Seq(S)
    PROVE /\ Reverse(s) \in Seq(S) /\ Len(Reverse(s)) = Len(s)
          /\ \A i \in 1 .. Len(s) : Reverse(s)[i] = s[Len(s) + 1 - i]
<1>1. Len(s) \in Nat /\ \A i \in 1 .. Len(s) : s[i] \in S
  OBVIOUS
<1> DEFINE n == Len(s)
<1>2. Reverse(s) = [i \in 1 .. n |-> s[(n - i) + 1]]
  BY DEF Reverse
<1>3. \A i \in 1 .. n : (n - i) + 1 \in 1 .. n /\ (n - i) + 1 = n + 1 - i
  BY <1>1
<1> HIDE DEF n
<1>4. [i \in 1 .. n |-> s[(n - i) + 1]] \in [1 .. n -> S]
  BY <1>1, <1>3 DEF n
<1>5. Reverse(s) \in Seq(S) /\ Len(Reverse(s)) = n
  BY <1>1, <1>2, <1>4 DEF n
<1>6. \A i \in 1 .. n : Reverse(s)[i] = s[n + 1 - i]
  BY <1>2, <1>3
<1> QED BY <1>5, <1>6 DEF n

\* A sequence with the elements of s at the places of an injection.
LEMMA ByPlaces ==
    ASSUME NEW S, NEW s \in Seq(S), NEW t \in Seq(S), Len(t) = Len(s),
           NEW pi, Injects(pi, Len(s)), \A i \in 1 .. Len(s) : t[i] = s[pi[i]]
    PROVE Rearranges(t, s)
<1> DEFINE n == Len(s)
           u == [i \in 1 .. n |-> s[pi[i]]]
<1>1. n \in Nat
  OBVIOUS
<1>2. Permutes(pi, n) /\ pi \in [1 .. n -> 1 .. n]
  BY <1>1, InjectionPermutes DEF Injects
<1>3. u \in Seq(S) /\ Len(u) = n
  <2>1. \A i \in 1 .. n : pi[i] \in 1 .. n /\ s[pi[i]] \in S
    BY <1>2
  <2>2. u \in [1 .. n -> S]
    BY <2>1
  <2> HIDE DEF u
  <2> QED BY <1>1, <2>2
<1>4. t = u
  <2>1. \A i \in 1 .. Len(t) : t[i] = u[i]
    OBVIOUS
  <2>2. Len(t) = Len(u)
    BY <1>3
  <2> HIDE DEF u
  <2> QED BY <1>3, <2>1, <2>2, SeqEqual
<1> QED BY <1>2, <1>4 DEF Rearranges

\* The elements with small work at both ends: all of them, once.
LEMMA SmallAtEnds ==
    ASSUME NEW S, NEW s \in Seq(S), s # <<>>
    PROVE /\ Rearranges(EveryOther(s, 1) \o Reverse(EveryOther(s, 2)), s)
          /\ Rearranges(Reverse(EveryOther(s, 1)) \o EveryOther(s, 2), s)
<1> DEFINE n == Len(s)
           e == EveryOther(s, 1)
           f == EveryOther(s, 2)
<1>1. n \in Nat /\ \A i \in 1 .. n : s[i] \in S
  OBVIOUS
<1>2. PICK a \in Nat, b \in Nat :
        /\ a + b = n /\ 2 * a - 1 <= n /\ 2 * b <= n
        /\ e = [i \in 1 .. a |-> s[2 * i - 1]]
        /\ f = [i \in 1 .. b |-> s[2 * i]]
  BY Halves
<1> HIDE DEF n, e, f
<1>3. /\ \A i \in 1 .. a : 2 * i - 1 \in 1 .. n
      /\ \A i \in 1 .. b : 2 * i \in 1 .. n
  BY <1>1, <1>2
<1>4. /\ e \in Seq(S) /\ Len(e) = a /\ \A i \in 1 .. a : e[i] = s[2 * i - 1]
      /\ f \in Seq(S) /\ Len(f) = b /\ \A i \in 1 .. b : f[i] = s[2 * i]
  <2>1. e \in [1 .. a -> S] /\ f \in [1 .. b -> S]
    BY <1>1, <1>2, <1>3
  <2> QED BY <1>2, <2>1
<1>5. /\ Reverse(e) \in Seq(S) /\ Len(Reverse(e)) = a /\ \A i \in 1 .. a : Reverse(e)[i] = e[a + 1 - i]
      /\ Reverse(f) \in Seq(S) /\ Len(Reverse(f)) = b /\ \A i \in 1 .. b : Reverse(f)[i] = f[b + 1 - i]
  <2>1. /\ Reverse(e) \in Seq(S) /\ Len(Reverse(e)) = Len(e)
        /\ \A i \in 1 .. Len(e) : Reverse(e)[i] = e[Len(e) + 1 - i]
    BY <1>4, ReverseFacts
  <2>2. /\ Reverse(f) \in Seq(S) /\ Len(Reverse(f)) = Len(f)
        /\ \A i \in 1 .. Len(f) : Reverse(f)[i] = f[Len(f) + 1 - i]
    BY <1>4, ReverseFacts
  <2> QED BY <1>4, <2>1, <2>2
<1>6. Rearranges(e \o Reverse(f), s)
  <2> DEFINE t == e \o Reverse(f)
             pi == [i \in 1 .. n |-> IF i <= a THEN 2 * i - 1 ELSE 2 * ((b + 1) - (i - a))]
  <2>1. /\ t \in Seq(S) /\ Len(t) = a + b
        /\ \A i \in 1 .. a : t[i] = e[i]
        /\ \A i \in 1 .. b : t[a + i] = Reverse(f)[i]
    <3> DEFINE v == Reverse(f)
    <3>0. v \in Seq(S)
      BY <1>5
    <3> HIDE DEF v
    <3>2. /\ e \o v \in Seq(S) /\ Len(e \o v) = Len(e) + Len(v)
          /\ \A i \in 1 .. Len(e) : (e \o v)[i] = e[i]
          /\ \A i \in 1 .. Len(v) : (e \o v)[Len(e) + i] = v[i]
      <4>1. e \in Seq(S)
        BY <1>4
      <4> QED BY ONLY <3>0, <4>1
    <3>1. /\ t \in Seq(S) /\ Len(t) = Len(e) + Len(Reverse(f))
          /\ \A i \in 1 .. Len(e) : t[i] = e[i]
          /\ \A i \in 1 .. Len(Reverse(f)) : t[Len(e) + i] = Reverse(f)[i]
      BY <3>2, Zenon DEF v
    <3> HIDE DEF t
    <3> QED BY <1>4, <1>5, <3>1
  <2> HIDE DEF t
  <2>2. Injects(pi, n)
    <3>1. ASSUME NEW i \in 1 .. n PROVE pi[i] \in 1 .. n
      <4>0. i \in Nat /\ i >= 1 /\ i <= n
        BY <1>1
      <4>1. CASE i <= a
        <5>1. pi[i] = 2 * i - 1
          BY <4>1
        <5> HIDE DEF pi
        <5>2. 2 * i - 1 \in Nat /\ 2 * i - 1 >= 1 /\ 2 * i - 1 <= n
          BY <1>1, <1>2, <4>0, <4>1
        <5> QED BY <1>1, <5>1, <5>2
      <4>2. CASE ~(i <= a)
        <5>1. pi[i] = 2 * ((b + 1) - (i - a))
          BY <4>2
        <5> HIDE DEF pi
        <5>2. 2 * ((b + 1) - (i - a)) \in Nat /\ 2 * ((b + 1) - (i - a)) >= 1 /\ 2 * ((b + 1) - (i - a)) <= n
          BY <1>1, <1>2, <4>0, <4>2
        <5> QED BY <1>1, <5>1, <5>2
      <4> QED BY <4>1, <4>2
    <3>2. ASSUME NEW i \in 1 .. n, NEW j \in 1 .. n, pi[i] = pi[j] PROVE i = j
      <4>0. i \in Nat /\ j \in Nat
        BY <1>1
      <4>1. /\ i <= a => pi[i] = 2 * i - 1
            /\ ~(i <= a) => pi[i] = 2 * ((b + 1) - (i - a))
            /\ j <= a => pi[j] = 2 * j - 1
            /\ ~(j <= a) => pi[j] = 2 * ((b + 1) - (j - a))
        OBVIOUS
      <4> HIDE DEF pi
      <4>2. CASE i <= a /\ j <= a
        <5>1. 2 * i - 1 = 2 * j - 1
          BY <3>2, <4>1, <4>2
        <5> QED BY <4>0, <5>1
      <4>3. CASE ~(i <= a) /\ ~(j <= a)
        <5>1. 2 * ((b + 1) - (i - a)) = 2 * ((b + 1) - (j - a))
          BY <3>2, <4>1, <4>3
        <5> QED BY <4>0, <5>1
      <4>4. CASE i <= a /\ ~(j <= a)
        <5>1. 2 * i - 1 = 2 * ((b + 1) - (j - a))
          BY <3>2, <4>1, <4>4
        <5> QED BY <4>0, <5>1
      <4>5. CASE ~(i <= a) /\ j <= a
        <5>1. 2 * ((b + 1) - (i - a)) = 2 * j - 1
          BY <3>2, <4>1, <4>5
        <5> QED BY <4>0, <5>1
      <4> QED BY <4>2, <4>3, <4>4, <4>5
    <3> QED BY <1>1, <3>1, <3>2 DEF Injects
  <2>3. ASSUME NEW i \in 1 .. n PROVE t[i] = s[pi[i]]
    <3>1. CASE i <= a
      <4>1. i \in 1 .. a /\ pi[i] = 2 * i - 1
        BY <3>1
      <4> HIDE DEF pi
      <4> QED BY <1>4, <2>1, <4>1
    <3>2. CASE ~(i <= a)
      <4> DEFINE j == i - a
                 k == (b + 1) - j
      <4>1. j \in 1 .. b /\ k \in 1 .. b /\ i = a + j /\ pi[i] = 2 * k
        BY <1>1, <1>2, <3>2
      <4> HIDE DEF pi, j
      <4>2. t[i] = f[k]
        BY <1>5, <2>1, <4>1
      <4> HIDE DEF k
      <4> QED BY <1>4, <4>1, <4>2
    <3> QED BY <3>1, <3>2
  <2> HIDE DEF pi
  <2>4. t \in Seq(S) /\ Len(t) = Len(s)
    BY <1>2, <2>1 DEF n
  <2>5. Rearranges(t, s)
    BY <2>2, <2>3, <2>4, ByPlaces DEF n
  <2> QED BY <2>5 DEF t
<1>7. Rearranges(Reverse(e) \o f, s)
  <2> DEFINE t == Reverse(e) \o f
             pi == [i \in 1 .. n |-> IF i <= a THEN 2 * ((a + 1) - i) - 1 ELSE 2 * (i - a)]
  <2>1. /\ t \in Seq(S) /\ Len(t) = a + b
        /\ \A i \in 1 .. a : t[i] = Reverse(e)[i]
        /\ \A i \in 1 .. b : t[a + i] = f[i]
    <3> DEFINE u == Reverse(e)
    <3>0. u \in Seq(S)
      BY <1>5
    <3> HIDE DEF u
    <3>2. /\ u \o f \in Seq(S) /\ Len(u \o f) = Len(u) + Len(f)
          /\ \A i \in 1 .. Len(u) : (u \o f)[i] = u[i]
          /\ \A i \in 1 .. Len(f) : (u \o f)[Len(u) + i] = f[i]
      <4>1. f \in Seq(S)
        BY <1>4
      <4> QED BY ONLY <3>0, <4>1
    <3>1. /\ t \in Seq(S) /\ Len(t) = Len(Reverse(e)) + Len(f)
          /\ \A i \in 1 .. Len(Reverse(e)) : t[i] = Reverse(e)[i]
          /\ \A i \in 1 .. Len(f) : t[Len(Reverse(e)) + i] = f[i]
      BY <3>2, Zenon DEF u
    <3> HIDE DEF t
    <3> QED BY <1>4, <1>5, <3>1
  <2> HIDE DEF t
  <2>2. Injects(pi, n)
    <3>1. ASSUME NEW i \in 1 .. n PROVE pi[i] \in 1 .. n
      <4>0. i \in Nat /\ i >= 1 /\ i <= n
        BY <1>1
      <4>1. CASE i <= a
        <5>1. pi[i] = 2 * ((a + 1) - i) - 1
          BY <4>1
        <5> HIDE DEF pi
        <5>2. 2 * ((a + 1) - i) - 1 \in Nat /\ 2 * ((a + 1) - i) - 1 >= 1 /\ 2 * ((a + 1) - i) - 1 <= n
          BY <1>1, <1>2, <4>0, <4>1
        <5> QED BY <1>1, <5>1, <5>2
      <4>2. CASE ~(i <= a)
        <5>1. pi[i] = 2 * (i - a)
          BY <4>2
        <5> HIDE DEF pi
        <5>2. 2 * (i - a) \in Nat /\ 2 * (i - a) >= 1 /\ 2 * (i - a) <= n
          BY <1>1, <1>2, <4>0, <4>2
        <5> QED BY <1>1, <5>1, <5>2
      <4> QED BY <4>1, <4>2
    <3>2. ASSUME NEW i \in 1 .. n, NEW j \in 1 .. n, pi[i] = pi[j] PROVE i = j
      <4>0. i \in Nat /\ j \in Nat
        BY <1>1
      <4>1. /\ i <= a => pi[i] = 2 * ((a + 1) - i) - 1
            /\ ~(i <= a) => pi[i] = 2 * (i - a)
            /\ j <= a => pi[j] = 2 * ((a + 1) - j) - 1
            /\ ~(j <= a) => pi[j] = 2 * (j - a)
        OBVIOUS
      <4> HIDE DEF pi
      <4>2. CASE i <= a /\ j <= a
        <5>1. 2 * ((a + 1) - i) - 1 = 2 * ((a + 1) - j) - 1
          BY <3>2, <4>1, <4>2
        <5> QED BY <4>0, <5>1
      <4>3. CASE ~(i <= a) /\ ~(j <= a)
        <5>1. 2 * (i - a) = 2 * (j - a)
          BY <3>2, <4>1, <4>3
        <5> QED BY <4>0, <5>1
      <4>4. CASE i <= a /\ ~(j <= a)
        <5>1. 2 * ((a + 1) - i) - 1 = 2 * (j - a)
          BY <3>2, <4>1, <4>4
        <5> QED BY <4>0, <5>1
      <4>5. CASE ~(i <= a) /\ j <= a
        <5>1. 2 * (i - a) = 2 * ((a + 1) - j) - 1
          BY <3>2, <4>1, <4>5
        <5> QED BY <4>0, <5>1
      <4> QED BY <4>2, <4>3, <4>4, <4>5
    <3> QED BY <1>1, <3>1, <3>2 DEF Injects
  <2>3. ASSUME NEW i \in 1 .. n PROVE t[i] = s[pi[i]]
    <3>1. CASE i <= a
      <4> DEFINE k == (a + 1) - i
      <4>1. i \in 1 .. a /\ k \in 1 .. a /\ pi[i] = 2 * k - 1
        BY <3>1
      <4>2. t[i] = e[k]
        BY <1>5, <2>1, <4>1
      <4> HIDE DEF pi, k
      <4> QED BY <1>4, <4>1, <4>2
    <3>2. CASE ~(i <= a)
      <4> DEFINE j == i - a
      <4>1. j \in 1 .. b /\ i = a + j /\ pi[i] = 2 * j
        BY <1>1, <1>2, <3>2
      <4> HIDE DEF pi, j
      <4> QED BY <1>4, <2>1, <4>1
    <3> QED BY <3>1, <3>2
  <2> HIDE DEF pi
  <2>4. t \in Seq(S) /\ Len(t) = Len(s)
    BY <1>2, <2>1 DEF n
  <2>5. Rearranges(t, s)
    BY <2>2, <2>3, <2>4, ByPlaces DEF n
  <2> QED BY <2>5 DEF t
<1> QED BY <1>6, <1>7 DEF e, f

\* The work of a row is a number.
LEMMA WorkloadIs ==
    ASSUME Hidden \in Nat
    PROVE \A l \in Nat : Workload(l) \in Nat
<1> TAKE l \in Nat
<1>1. Hidden * l \in Nat /\ l * l \in Nat
  BY Multiple
<1> DEFINE a == Hidden * l
           b == l * l
<1>2. Workload(l) = a + b
  BY DEF Workload
<1>3. a \in Nat /\ b \in Nat
  BY <1>1
<1> HIDE DEF a, b
<1> QED BY <1>2, <1>3

WorkOf(ls) == [i \in DOMAIN ls |-> Workload(ls[i])]

\* The work of each row.
LEMMA WorkIs ==
    ASSUME Hidden \in Nat, NEW ls \in Seq(Nat)
    PROVE WorkOf(ls) \in Seq(Nat) /\ Len(WorkOf(ls)) = Len(ls) /\ DOMAIN WorkOf(ls) = DOMAIN ls
<1> DEFINE n == Len(ls)
           w == WorkOf(ls)
<1>1. n \in Nat /\ DOMAIN ls = 1 .. n /\ \A i \in 1 .. n : ls[i] \in Nat
  OBVIOUS
<1>2. w = [i \in 1 .. n |-> Workload(ls[i])]
  BY <1>1 DEF WorkOf
<1> HIDE DEF n, w
<1>3. w \in [1 .. n -> Nat]
  BY <1>1, <1>2, WorkloadIs
<1>4. w \in Seq(Nat) /\ Len(w) = n /\ DOMAIN w = 1 .. n
  BY <1>1, <1>3
<1> QED BY <1>1, <1>4 DEF n, w

\* By decreasing keys, ties by decreasing second keys.
Larger(key, tie, n) == [p \in 1 .. n |-> {q \in 1 .. n : key[q] > key[p] \/ (key[q] = key[p] /\ tie[q] > tie[p])}]

\* Larger first with ties broken is a strict total order.
LEMMA LargerOrder ==
    ASSUME NEW n \in Nat, NEW key \in [1 .. n -> Int], NEW tie \in [1 .. n -> Int],
           \A p, q \in 1 .. n : tie[p] = tie[q] => p = q
    PROVE IsOrder(Larger(key, tie, n), n)
<1> DEFINE before == Larger(key, tie, n)
<1>1. \A p, q \in 1 .. n : q \in before[p] <=> key[q] > key[p] \/ (key[q] = key[p] /\ tie[q] > tie[p])
  BY DEF Larger
<1>2. before \in [1 .. n -> SUBSET (1 .. n)]
  BY DEF Larger
<1> HIDE DEF before
<1>3. \A p \in 1 .. n : key[p] \in Int /\ tie[p] \in Int
  OBVIOUS
<1>4. \A k \in 1 .. n : k \notin before[k]
  BY <1>1, <1>3
<1>5. ASSUME NEW i \in 1 .. n, NEW j \in 1 .. n, NEW k \in 1 .. n, i \in before[j], j \in before[k]
      PROVE i \in before[k]
  <2>1. key[i] > key[j] \/ (key[i] = key[j] /\ tie[i] > tie[j])
    BY <1>1, <1>5
  <2>2. key[j] > key[k] \/ (key[j] = key[k] /\ tie[j] > tie[k])
    BY <1>1, <1>5
  <2>3. key[i] > key[k] \/ (key[i] = key[k] /\ tie[i] > tie[k])
    BY <1>3, <2>1, <2>2
  <2> QED BY <1>1, <2>3
<1>6. ASSUME NEW j \in 1 .. n, NEW k \in 1 .. n, j # k
      PROVE j \in before[k] \/ k \in before[j]
  <2>1. tie[j] # tie[k]
    BY <1>6
  <2>2. \/ key[j] > key[k] \/ (key[j] = key[k] /\ tie[j] > tie[k])
        \/ key[k] > key[j] \/ (key[k] = key[j] /\ tie[k] > tie[j])
    BY <1>3, <2>1
  <2> QED BY <1>1, <2>2
<1> QED BY <1>2, <1>4, <1>5, <1>6 DEF IsOrder, before

\* Parts put in an order and then with every other one at the front, backwards.
LEMMA PartsRearranged ==
    ASSUME NEW S, NEW parts \in Seq(S), NEW n \in Nat \ {0}, Len(parts) = n,
           NEW before, IsOrder(before, n)
    PROVE LET sorted == Ordered(parts, before)
          IN  /\ Rearranges(Reverse(EveryOther(sorted, 1)) \o EveryOther(sorted, 2), parts)
              /\ Rearranges(EveryOther(sorted, 1) \o Reverse(EveryOther(sorted, 2)), parts)
<1> DEFINE sorted == Ordered(parts, before)
<1>1. sorted \in Seq(S) /\ Len(sorted) = n /\ Rearranges(sorted, parts)
  BY OrderedIs
<1> HIDE DEF sorted
<1>2. sorted # <<>>
  BY <1>1
<1> DEFINE t == Reverse(EveryOther(sorted, 1)) \o EveryOther(sorted, 2)
           u == EveryOther(sorted, 1) \o Reverse(EveryOther(sorted, 2))
<1>3. Rearranges(t, sorted) /\ Rearranges(u, sorted)
  BY <1>1, <1>2, SmallAtEnds
<1> HIDE DEF t, u
<1>4. Rearranges(t, parts) /\ Rearranges(u, parts)
  BY <1>1, <1>3, RearrangedTwice
<1> QED BY <1>4 DEF sorted, t, u

Parted(lists, m, n) ==
    /\ lists \in Seq(Seq(1 .. m)) /\ Len(lists) = n
    /\ \A i \in 1 .. n : lists[i] # <<>>
    /\ Enumerates(Concat(lists), 1 .. m)

\* rearrange_micro_batches makes the number of micro-batches agreed on, none of
\* them empty, and has each row of the mini-batch in one of them.
THEOREM MicroBatchesParted ==
    ASSUME Hidden \in Nat, NEW ls \in Seq(Nat), NEW n \in Nat \ {0}, n <= Len(ls)
    PROVE Parted(MicroBatches(ls, n), Len(ls), n)
<1> DEFINE m == Len(ls)
           work == WorkOf(ls)
           parts == Partitions(work, n, FALSE)
           sum == [p \in 1 .. n |-> Total([i \in DOMAIN parts[p] |-> work[parts[p][i]]])]
           before == [p \in 1 .. n |-> {q \in 1 .. n :
                        sum[q] > sum[p] \/ (sum[q] = sum[p] /\ parts[q][1] > parts[p][1])}]
           sorted == Ordered(parts, before)
           mb == Reverse(EveryOther(sorted, 1)) \o EveryOther(sorted, 2)
<1>1. MicroBatches(ls, n) = mb
  BY DEF MicroBatches, WorkOf
<1>2. m \in Nat /\ n <= m
  OBVIOUS
<1>3. work \in Seq(Nat) /\ Len(work) = m
  BY WorkIs
<1> HIDE DEF m, work
<1>4. PICK A : IsParted(parts, A, m, n)
  BY <1>2, <1>3, PartitionsParted
<1> HIDE DEF parts
<1>5. /\ parts \in Seq(Seq(1 .. m)) /\ Len(parts) = n /\ EnumEach(parts, A, n)
      /\ Apart(A, n) /\ AllOf(A, n) = 1 .. m
      /\ \A p \in 1 .. n : Len(parts[p]) >= 1
  BY <1>4 DEF IsParted, EnumEach
<1>6. ASSUME NEW p \in 1 .. n
      PROVE /\ parts[p] \in Seq(1 .. m) /\ DOMAIN parts[p] = 1 .. Len(parts[p])
            /\ Enumerates(parts[p], A[p]) /\ A[p] \subseteq 1 .. m
            /\ parts[p][1] \in A[p]
  <2>1. parts[p] \in Seq(1 .. m)
    BY <1>5
  <2>2. Enumerates(parts[p], A[p])
    BY <1>5 DEF EnumEach
  <2>3. A[p] \subseteq 1 .. m
    <3>1. A[p] \subseteq AllOf(A, n)
      BY DEF AllOf
    <3> QED BY <1>5, <3>1
  <2>4. 1 \in 1 .. Len(parts[p])
    BY <1>5, <2>1
  <2>5. parts[p][1] \in A[p]
    <3> DEFINE t == parts[p]
               T == A[p]
    <3>1. t \in Seq(T) /\ 1 \in 1 .. Len(t)
      BY <2>2, <2>4 DEF Enumerates
    <3> HIDE DEF t, T
    <3>2. t[1] \in T
      BY <3>1
    <3> QED BY <3>2 DEF t, T
  <2> QED BY <2>1, <2>2, <2>3, <2>5
<1> DEFINE tie == [p \in 1 .. n |-> parts[p][1]]
<1>7. sum \in [1 .. n -> Int]
  <2>1. ASSUME NEW p \in 1 .. n
        PROVE Total([i \in DOMAIN parts[p] |-> work[parts[p][i]]]) \in Nat
    <3> DEFINE rows == parts[p]
    <3>1. Enumerates(rows, A[p]) /\ A[p] \in SUBSET (1 .. Len(work)) /\ DOMAIN rows = 1 .. Len(rows)
      BY <1>3, <1>6
    <3> HIDE DEF rows
    <3>2. Total([i \in 1 .. Len(rows) |-> work[rows[i]]]) = Load(work, A[p])
      BY <1>3, <3>1, TotalLoad
    <3>3. Load(work, A[p]) \in Nat
      BY <1>3, LoadType
    <3> QED BY <3>1, <3>2, <3>3 DEF rows
  <2> QED BY <2>1
<1> HIDE DEF sum
<1>8. tie \in [1 .. n -> Int]
  <2>1. ASSUME NEW p \in 1 .. n PROVE parts[p][1] \in Int
    <3>1. parts[p][1] \in 1 .. m
      BY <1>6
    <3> QED BY <1>2, <3>1
  <2> QED BY <2>1
<1>9. ASSUME NEW p \in 1 .. n, NEW q \in 1 .. n, tie[p] = tie[q] PROVE p = q
  <2>1. tie[p] \in A[p] /\ tie[q] \in A[q]
    BY <1>6
  <2> QED BY <1>5, <1>9, <2>1 DEF Apart
<1>10. before = Larger(sum, tie, n)
  BY DEF Larger
<1> HIDE DEF before, tie
<1>11. IsOrder(before, n)
  BY <1>7, <1>8, <1>9, <1>10, LargerOrder
<1>12. Rearranges(mb, parts)
  BY <1>5, <1>11, PartsRearranged
<1> HIDE DEF mb
<1>13. mb \in Seq(Seq(1 .. m)) /\ Len(mb) = n
  BY <1>5, <1>12, RearrangedType
<1>14. Enumerates(Concat(mb), 1 .. m)
  <2>1. Enumerates(Concat(mb), AllOf(A, n))
    BY <1>5, <1>12, ConcatRearranged
  <2> QED BY <1>5, <2>1
<1>15. ASSUME NEW i \in 1 .. n PROVE mb[i] # <<>>
  <2>1. PICK pi \in [1 .. n -> 1 .. n] : mb = [j \in 1 .. n |-> parts[pi[j]]]
    BY <1>5, <1>12 DEF Rearranges
  <2>2. mb[i] = parts[pi[i]] /\ pi[i] \in 1 .. n
    BY <2>1
  <2>3. Len(parts[pi[i]]) >= 1
    BY <1>5, <2>2
  <2>4. Len(mb[i]) >= 1
    BY <2>2, <2>3
  <2> QED BY <2>4
<1>16. Parted(mb, m, n)
  BY <1>13, <1>14, <1>15 DEF Parted
<1> QED BY <1>1, <1>16 DEF m

\* A rank never asks for more micro-batches than it has rows.
LEMMA OwnNumberIs ==
    ASSUME NEW ls \in Seq(Nat \ {0}), ls # <<>>, NEW size \in Nat \ {0}
    PROVE OwnNumber(ls, size) \in 1 .. Len(ls)
<1> DEFINE n == Len(ls)
           total == Total(ls)
           need == CeilDiv(total, size)
<1>1. n \in Nat /\ n >= 1 /\ ls \in Seq(Nat) /\ DOMAIN ls = 1 .. n /\ ls[1] \in Nat /\ ls[1] >= 1
  OBVIOUS
<1>2. total \in Nat /\ total >= 1
  <2> DEFINE c == Counting(n)
             B == 2 .. n
  <2>1. Enumerates(c, 1 .. n) /\ Len(c) = n /\ \A i \in 1 .. n : c[i] = i
    BY <1>1, CountingFacts DEF Counting
  <2> HIDE DEF c
  <2>2. Total([i \in 1 .. Len(c) |-> ls[c[i]]]) = Load(ls, 1 .. n)
    BY <1>1, <2>1, TotalLoad
  <2>3. [i \in 1 .. Len(c) |-> ls[c[i]]] = [i \in 1 .. n |-> ls[i]]
    BY <2>1
  <2>4. [i \in 1 .. n |-> ls[i]] = ls
    BY <1>1
  <2>5. total = Load(ls, 1 .. n)
    BY <2>2, <2>3, <2>4
  <2>6. 1 .. n = {1} \cup B /\ {1} \cap B = {}
    BY <1>1
  <2>7. Load(ls, {1} \cup B) = Load(ls, {1}) + Load(ls, B)
    BY <1>1, <2>6, LoadUnion
  <2>8. Load(ls, {1}) = ls[1]
    <3>1. 1 \in 1 .. Len(ls)
      BY <1>1
    <3> QED BY <1>1, <3>1, LoadFew
  <2>9. Load(ls, B) \in Nat
    BY <1>1, LoadType
  <2> HIDE DEF total, n
  <2>10. total = ls[1] + Load(ls, B)
    BY <2>5, <2>6, <2>7, <2>8
  <2> QED BY <1>1, <2>9, <2>10
<1> HIDE DEF total
<1>3. need \in Nat /\ need >= 1
  BY <1>2, CeilFacts
<1>4. OwnNumber(ls, size) = IF n < need THEN n ELSE need
  BY DEF OwnNumber, total
<1> HIDE DEF need
<1> QED BY <1>1, <1>3, <1>4
===============================================================================
