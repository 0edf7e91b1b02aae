------------------------------ MODULE AnswerPool ------------------------------
(***************************************************************************)
(* What a caller of the retry loops is promised: each prompt's pool only   *)
(* ever receives acceptable answers to that prompt, never more than its    *)
(* quota, and nothing is given out of it or changed later.                 *)
(***************************************************************************)
EXTENDS Integers, Sequences

CONSTANT Prompts

VARIABLES pool, quota, closed

Init == quota \in Nat /\ pool = [p \in Prompts |-> <<>>] /\ closed = FALSE

Acceptable(a, p) == a.of = p /\ a.q # "bad"

Extends(s, t) == Len(s) <= Len(t) /\ SubSeq(t, 1, Len(s)) = s

Give ==
    /\ ~closed
    /\ DOMAIN pool' = Prompts
    /\ \A p \in Prompts :
         /\ Extends(pool[p], pool'[p])
         /\ Len(pool'[p]) <= quota
         /\ \A i \in DOMAIN pool'[p] : Acceptable(pool'[p][i], p)
    /\ closed' \in BOOLEAN
    /\ UNCHANGED quota

Spec == Init /\ [][Give]_<<pool, quota, closed>>
==============================================================================
