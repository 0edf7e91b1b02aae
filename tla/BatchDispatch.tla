----------------------------- MODULE BatchDispatch -----------------------------
(***************************************************************************)
(* A training batch on its way through the worker group: _balance_batch    *)
(* reorders its rows, compute_log_prob and update_policy are dispatched to *)
(* the ranks by data parallel rank, each rank cuts its rows into           *)
(* mini-batches and micro-batches, and the outputs of the ranks that       *)
(* collect are put together again.                                         *)
(*                                                                         *)
(* The ranks run on their own between the collective operations: the       *)
(* all_reduce of the number of micro-batches and the forward pass of each. *)
(* A collective happens when every rank has come to it.                    *)
(***************************************************************************)
EXTENDS SeqlenBalancing

CONSTANTS
    NumRows,     \* rows of the batch
    Lengths,     \* the lengths a row may have
    DpRank,      \* dp_rank_mapping: the data parallel rank of each rank, from 1
    Collects,    \* collect_mask: the ranks whose output is collected
    MaxTokens,   \* max_token_len
    MiniSize,    \* ppo_mini_batch_size of a rank
    MicroSize    \* micro_batch_size without dynamic batches

Ranks == DOMAIN DpRank
DpSize == Max({DpRank[r] : r \in Ranks})

DispatchAssumption ==
    /\ {NumRows, MaxTokens, MiniSize, MicroSize, Hidden} \subseteq Nat \ {0}
    /\ Lengths \subseteq 1..MaxTokens
    /\ DpRank \in Seq(Nat \ {0}) /\ DpRank # <<>>
    /\ \A d \in 1..DpSize : \E r \in Ranks : DpRank[r] = d /\ Collects[r]
    \* One of each data parallel rank collects, and the device mesh numbers the
    \* ranks of a data parallel rank before those of the next.
    /\ \A q, r \in Ranks : q < r /\ Collects[q] /\ Collects[r] => DpRank[q] < DpRank[r]
    /\ NumRows % DpSize = 0

ASSUME DispatchAssumption

VARIABLES
    lens,      \* the length of each row
    dynamic,   \* use_dynamic_bsz
    order,     \* the rows in the order of the batch
    at,        \* "new", "log_prob", "update" or "over"
    rank,      \* per rank [at, mini, number, lists, left, out]
    result,    \* what compute_log_prob returned, a row per row of the batch
    trained    \* per rank, the rows of each mini-batch it was updated with

vars == <<lens, dynamic, order, at, rank, result, trained>>

-----------------------------------------------------------------------------

LensOf(rows) == [i \in DOMAIN rows |-> lens[rows[i]]]

\* Mutant of Split: the rows that fill no part are dropped.
SplitWhole(s, size) == [i \in 1..(Len(s) \div size) |-> SubSeq(s, ((i - 1) * size) + 1, i * size)]

\* DataProto.split.
Split(s, size) == [i \in 1..CeilDiv(Len(s), size) |->
                      SubSeq(s, ((i - 1) * size) + 1, IF i * size < Len(s) THEN i * size ELSE Len(s))]

\* dispatch_nd_compute: a rank gets the chunk of its data parallel rank.
RowsOf(r) == Chunk(order, DpSize)[DpRank[r]]

\* What a rank goes through: its rows at once, or in mini-batches.
Minis(r) == IF at = "update" THEN Split(RowsOf(r), MiniSize) ELSE <<RowsOf(r)>>
Mini(r) == Minis(r)[rank[r].mini]

Start(r) == [at |-> "count", mini |-> 1, number |-> 0, lists |-> <<>>, left |-> <<>>, out |-> <<>>]

Init ==
    /\ lens \in [1..NumRows -> Lengths]
    /\ dynamic \in BOOLEAN
    /\ order = [i \in 1..NumRows |-> i]
    /\ at = "new"
    /\ rank = [r \in Ranks |-> Start(r)]
    /\ result = <<>> /\ trained = [r \in Ranks |-> <<>>]

-----------------------------------------------------------------------------
(* The controller.                                                         *)

\* A part with its small rows at both ends.
SmallOutside(part) ==
    LET sorted == Ordered(part, Ascending([i \in DOMAIN part |-> Workload(lens[part[i]])]))
    IN  EveryOther(sorted, 1) \o Reverse(EveryOther(sorted, 2))

\* _balance_batch, if trainer.balance_batch is set, and the first dispatch.
Balance ==
    /\ at = "new"
    /\ LET parts == Partitions([i \in 1..NumRows |-> Workload(lens[i])], DpSize, TRUE)
       IN  order' \in {order, FlattenSeq([p \in 1..DpSize |-> SmallOutside(parts[p])])}
    /\ at' = "log_prob"
    /\ UNCHANGED <<lens, dynamic, rank, result, trained>>

\* Mutant of Collected: the mask is not applied.
CollectedAll == Concat([r \in Ranks |-> rank[r].out])

\* collect_nd_compute: the outputs of the ranks that collect, in their order.
Collected == Concat(Kept([r \in Ranks |-> rank[r].out], {r \in Ranks : Collects[r]}))

\* Every rank has returned: the results, and the next dispatch.
Collect ==
    /\ at \in {"log_prob", "update"}
    /\ \A r \in Ranks : rank[r].at = "done"
    /\ rank' = [r \in Ranks |-> Start(r)]
    /\ IF at = "log_prob"
       THEN at' = "update" /\ result' = Collected
       ELSE at' = "over" /\ UNCHANGED result
    /\ UNCHANGED <<lens, dynamic, order, trained>>

-----------------------------------------------------------------------------
(* The ranks.                                                              *)

\* The rank reaches its next micro-batches: it counts them, or splits at once.
Count(r) ==
    /\ at \in {"log_prob", "update"} /\ rank[r].at = "count"
    /\ rank' = [rank EXCEPT ![r] =
         IF dynamic
         THEN [@ EXCEPT !.at = "reduce", !.number = OwnNumber(LensOf(Mini(r)), MaxTokens)]
         ELSE LET lists == Split([i \in DOMAIN Mini(r) |-> i], MicroSize)
              IN  [@ EXCEPT !.at = "forward", !.lists = lists, !.left = lists]]
    /\ UNCHANGED <<lens, dynamic, order, at, result, trained>>

\* Mutant of Agreed: each rank keeps its own number.
AgreedOwn(r) == rank[r].number

\* The all_reduce of the numbers.
Agreed(r) == Max({rank[q].number : q \in Ranks})

\* all_reduce with the maximum: all ranks make the same number.
Reduce ==
    /\ \A r \in Ranks : rank[r].at = "reduce"
    /\ rank' = [r \in Ranks |->
         LET lists == MicroBatches(LensOf(Mini(r)), Agreed(r))
         IN  [rank[r] EXCEPT !.at = "forward", !.lists = lists, !.left = lists]]
    /\ UNCHANGED <<lens, dynamic, order, at, result, trained>>

\* One micro-batch on every rank: the sharded parameters are gathered for it.
Forward ==
    /\ \A r \in Ranks : rank[r].at = "forward"
    /\ rank' = [r \in Ranks |->
         LET out == rank[r].out \o [i \in DOMAIN Head(rank[r].left) |->
                                        Mini(r)[Head(rank[r].left)[i]]]
         IN  [rank[r] EXCEPT !.left = Tail(@), !.out = out,
                             !.at = IF Len(rank[r].left) = 1 THEN "mini" ELSE @]]
    /\ UNCHANGED <<lens, dynamic, order, at, result, trained>>

\* The micro-batches are through: compute_log_prob puts its rows back in
\* order; update_policy steps and goes on with the next mini-batch.
EndMini(r) ==
    /\ rank[r].at = "mini"
    /\ IF at = "log_prob"
       THEN /\ rank' = [rank EXCEPT ![r].at = "done",
                                    ![r].out = IF dynamic THEN Restored(@, rank[r].lists) ELSE @]
            /\ UNCHANGED trained
       ELSE /\ trained' = [trained EXCEPT ![r] = Append(@, rank[r].out)]
            /\ rank' = [rank EXCEPT ![r] =
                 IF @.mini < Len(Minis(r)) THEN [Start(r) EXCEPT !.mini = rank[r].mini + 1]
                 ELSE [@ EXCEPT !.at = "done"]]
    /\ UNCHANGED <<lens, dynamic, order, at, result>>

Terminated == at = "over" /\ UNCHANGED vars

Next ==
    \/ Balance \/ Collect
    \/ \E r \in Ranks : Count(r) \/ EndMini(r)
    \/ Reduce \/ Forward
    \/ Terminated

Spec == Init /\ [][Next]_vars

-----------------------------------------------------------------------------
(* Properties.                                                             *)

RowSet == 1..NumRows
Bag(rows) == [i \in RowSet |-> Cardinality({j \in DOMAIN rows : rows[j] = i})]

\* Every variable has its type; the batch is a permutation of its rows and a
\* rank's micro-batches are parts of its mini-batch, none of them empty.
TypeOK ==
    /\ lens \in [RowSet -> Lengths] /\ dynamic \in BOOLEAN
    /\ order \in [RowSet -> RowSet] /\ Range(order) = RowSet
    /\ at \in {"new", "log_prob", "update", "over"}
    /\ \A r \in Ranks :
         /\ rank[r].at \in {"count", "reduce", "forward", "mini", "done"}
         /\ rank[r].mini \in 1..Len(Minis(r)) /\ rank[r].number \in 0..NumRows
         /\ \A i \in DOMAIN rank[r].lists : rank[r].lists[i] # <<>>
         /\ rank[r].at \in {"forward", "mini"} =>
              /\ Range(FlattenSeq(rank[r].lists)) = DOMAIN Mini(r)
              /\ Len(FlattenSeq(rank[r].lists)) = Len(Mini(r))
    /\ result \in Seq(RowSet)

\* However the rows were reordered, dealt out, cut up and computed, the result
\* of each row comes back at the place of that row.
ResultsInPlace == at \in {"update", "over"} => result = order

\* Every row of the batch is in exactly one update, on each of the ranks that
\* share a data parallel rank and on no other.
TrainedOnce ==
    at = "over" => \A i \in RowSet : \A r \in Ranks :
        LET mine == {j \in Ranks : DpRank[j] = DpRank[r]}
            rows(q) == Concat(trained[q])
        IN  /\ Bag(rows(r))[i] <= 1
            /\ Bag(rows(r))[i] = 1 => \A q \in Ranks : Bag(rows(q))[i] = (IF q \in mine THEN 1 ELSE 0)
            /\ \E q \in Ranks : Bag(rows(q))[i] = 1

\* No rank waits in a collective for a rank that is elsewhere: all have the
\* same number of micro-batches left.
Lockstep ==
    \A q, r \in Ranks : rank[q].at = "forward" /\ rank[r].at = "forward" =>
        Len(rank[q].left) = Len(rank[r].left)

Work(rows) == Total([i \in DOMAIN rows |-> Workload(lens[rows[i]])])

\* "each dp rank gets similar total tokens": after balancing, the work of two
\* ranks differs by no more than that of DpSize rows next to each other when the
\* rows are in the order of their work.
RanksBalanced ==
    LET loads == [i \in RowSet |-> Workload(lens[i])]
        work  == Ordered(loads, Ascending(loads))
        gap(o) == work[(o + 1) * DpSize] - work[(o * DpSize) + 1]
    IN  at # "new" /\ order # [i \in RowSet |-> i] =>
            \A q, r \in Ranks :
                Work(RowsOf(q)) - Work(RowsOf(r)) <= Max({gap(o) : o \in 0..((NumRows \div DpSize) - 1)})
==============================================================================
