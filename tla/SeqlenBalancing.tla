---------------------------- MODULE SeqlenBalancing ----------------------------
(***************************************************************************)
(* The partitioning of a batch by the work its rows make: the largest      *)
(* differencing method, and the micro-batches built with it.  Rows are     *)
(* numbered from 1.                                                        *)
(***************************************************************************)
EXTENDS DataProto, FiniteSetsExt

\* 24576 * seqlen + seqlen^2, in units of 24576 / Hidden tokens.
CONSTANT Hidden
Workload(len) == Hidden * len + len * len

CeilDiv(a, b) == (a + b - 1) \div b

-----------------------------------------------------------------------------
(* karmarkar_karp.  A set of rows is [sum, rows]; a state is k sets in      *)
(* decreasing order.                                                       *)

RowsLess(a, b) == \E i \in DOMAIN a : a[i] < b[i] /\ \A j \in 1..(i - 1) : a[j] = b[j]

\* Set.__lt__
SetLess(a, b) ==
    \/ a.sum < b.sum
    \/ a.sum = b.sum /\ Len(a.rows) < Len(b.rows)
    \/ a.sum = b.sum /\ Len(a.rows) = Len(b.rows) /\ RowsLess(a.rows, b.rows)

\* sorted(sets, reverse=True)
Decreasing(sets) ==
    Ordered(sets, [k \in DOMAIN sets |-> {j \in DOMAIN sets :
        SetLess(sets[k], sets[j]) \/ (sets[j] = sets[k] /\ j < k)}])

Spread(state) == state[1].sum - state[Len(state)].sum

\* State.__lt__: the state popped first has the largest spread.
StateLess(s, t) ==
    \/ Spread(s) > Spread(t)
    \/ Spread(s) = Spread(t) /\ SetLess(t[1], s[1])

Joined(a, b) == [sum |-> a.sum + b.sum, rows |-> a.rows \o b.rows]

\* Mutant of MergedStates: large sets with large ones.
MergedAligned(s, t) == Decreasing([i \in DOMAIN s |-> Joined(s[i], t[i])])

\* State.merge: the largest set of one with the smallest of the other.
MergedStates(s, t) == Decreasing([i \in DOMAIN s |-> Joined(s[i], t[Len(s) + 1 - i])])

\* The states the heap starts with: k rows of neighbouring values each when
\* the parts are to have equal size, else one row each.
FirstStates(vals, k, equalSize) ==
    LET byValue == Ordered([i \in DOMAIN vals |-> i], Ascending(vals))
        One(i)  == [sum |-> vals[i], rows |-> <<i>>]
        Empty   == [sum |-> 0, rows |-> <<>>]
    IN  IF equalSize
        THEN {Decreasing([i \in 1..k |-> One(byValue[(o * k) + i])]) : o \in 0..((Len(vals) \div k) - 1)}
        ELSE {Decreasing([i \in 1..k |-> IF i = 1 THEN One(j) ELSE Empty]) : j \in DOMAIN vals}

Popped(states) == CHOOSE s \in states : \A t \in states \ {s} : StateLess(s, t)

\* One round of the heap: the first two states become one.
Merge(states) ==
    LET s == Popped(states)
        t == Popped(states \ {s})
    IN  (states \ {s, t}) \cup {MergedStates(s, t)}

\* get_seqlen_balanced_partitions: the rows of each part in order.
Partitions(vals, k, equalSize) ==
    LET states == FirstStates(vals, k, equalSize)
        last   == Cardinality(states) - 1
        heap[i \in 0..last] == IF i = 0 THEN states ELSE Merge(heap[i-1])
        parts  == CHOOSE s \in heap[last] : TRUE
    IN  [p \in 1..k |-> Ordered(parts[p].rows, Ascending(parts[p].rows))]

-----------------------------------------------------------------------------
(* rearrange_micro_batches and what undoes it.                             *)

\* Mutant of EveryOther: it stops one short.
EveryOtherShort(s, first) == [i \in 1..((Len(s) - first) \div 2) |-> s[first + (2 * (i - 1))]]

\* s[first::2]
EveryOther(s, first) == [i \in 1..(((Len(s) - first) \div 2) + 1) |-> s[first + (2 * (i - 1))]]

\* The number of micro-batches a rank would make of rows of these lengths.
OwnNumber(lens, maxTokens) ==
    LET need == CeilDiv(Total(lens), maxTokens)
    IN  IF Len(lens) < need THEN Len(lens) ELSE need

\* n micro-batches, the small ones at both ends.
MicroBatches(lens, n) ==
    LET work   == [i \in DOMAIN lens |-> Workload(lens[i])]
        parts  == Partitions(work, n, FALSE)
        sum    == [p \in 1..n |-> Total([i \in DOMAIN parts[p] |-> work[parts[p][i]]])]
        sorted == Ordered(parts, [p \in 1..n |-> {q \in 1..n :
                      sum[q] > sum[p] \/ (sum[q] = sum[p] /\ parts[q][1] > parts[p][1])}])
    IN  Reverse(EveryOther(sorted, 1)) \o EveryOther(sorted, 2)

\* get_reverse_idx.
ReverseIdx(idx) == [j \in DOMAIN idx |-> CHOOSE i \in DOMAIN idx : idx[i] = j]

\* Mutant of Restored: the index map itself instead of its inverse.
RestoredForward(data, lists) == [i \in DOMAIN data |-> data[FlattenSeq(lists)[i]]]

\* restore_dynamic_batch.
Restored(data, lists) == [i \in DOMAIN data |-> data[ReverseIdx(FlattenSeq(lists))[i]]]
==============================================================================
