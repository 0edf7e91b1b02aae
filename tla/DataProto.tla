------------------------------- MODULE DataProto -------------------------------
(***************************************************************************)
(* The operations of DataProto that move rows: a batch is the sequence of  *)
(* its rows, whatever their tensors and arrays hold.  With them, what      *)
(* Python's comprehensions, sum and sorted do to a list.                   *)
(***************************************************************************)
EXTENDS Integers, Sequences, FiniteSets, SequencesExt

\* How many rows n lacks to a multiple of d.
PadSize(n, d) == (d - (n % d)) % d

\* Rows appended from the start of the batch, round and round.
PadToDivisor(s, d) ==
    s \o [i \in 1..PadSize(Len(s), d) |-> s[((i - 1) % Len(s)) + 1]]

\* Mutant of Unpad: data[:-0] is empty.
UnpadSlice(s, pad) == IF pad = 0 THEN <<>> ELSE SubSeq(s, 1, Len(s) - pad)

\* data[:-pad_size], the batch itself for 0.
Unpad(s, pad) == SubSeq(s, 1, Len(s) - pad)

\* chunk() of a batch that n divides.
Chunk(s, n) ==
    LET size == Len(s) \div n IN [i \in 1..n |-> SubSeq(s, (i - 1) * size + 1, i * size)]

\* repeat(k, interleave=True): every row k times.
Repeat(s, k) == [i \in 1..(k * Len(s)) |-> s[((i - 1) \div k) + 1]]

Concat(batches) == FlattenSeq(batches)

\* What a comprehension with a condition keeps of s: the elements at the
\* positions P, in order.
Kept(s, P) == [i \in 1..Cardinality(P) |->
                  s[CHOOSE k \in P : Cardinality({j \in P : j <= k}) = i]]

Total(s) == LET total[i \in 0..Len(s)] == IF i = 0 THEN 0 ELSE total[i-1] + s[i]
            IN  total[Len(s)]

\* s in the order in which before[k] are the positions that come before k.
\* (SubSeq changes nothing but how often TLC computes the elements.)
Ordered(s, before) ==
    LET sorted == [i \in DOMAIN s |-> s[CHOOSE k \in DOMAIN s : Cardinality(before[k]) = i - 1]]
    IN  SubSeq(sorted, 1, Len(s))

\* By increasing keys; elements with the same key keep their order.
Ascending(keys) ==
    [k \in DOMAIN keys |-> {j \in DOMAIN keys : keys[j] < keys[k] \/ (keys[j] = keys[k] /\ j < k)}]
==============================================================================
