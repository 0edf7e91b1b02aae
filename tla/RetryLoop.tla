------------------------------- MODULE RetryLoop -------------------------------
(***************************************************************************)
(* The loops in which the tutor asks an engine again for what it did not   *)
(* get: _generate_with_retry_keyed (an output that parses), _gen_rollouts  *)
(* (min_valid non-empty rollouts of the policy) and                        *)
(* _gen_generator_base_responses (n non-empty answers of the generator).   *)
(*                                                                         *)
(* A round sends one flat list with several copies of each pending prompt  *)
(* and cuts the flat answers up again.  An answer is the prompt it is for, *)
(* the round it was given in, and whether it is valid, parses leniently    *)
(* only, or is bad (does not parse, empty, truncated).                     *)
(***************************************************************************)
EXTENDS DataProto, FiniteSets, FiniteSetsExt

CONSTANTS
    NumPrompts,         \* the prompts of the call
    N,                  \* n_rollouts
    MinValid,           \* min_valid of _gen_rollouts
    MaxRetry,           \* max_retry, generator_max_retry, rollout_max_retry
    TwiceOversample,    \* twice retry_oversample and rollout_retry_oversample
    WorkerCounts        \* the numbers of agent loop workers

RetryAssumption ==
    /\ {NumPrompts, N, MinValid} \subseteq Nat \ {0} /\ MinValid <= N
    /\ MaxRetry \in Nat
    /\ TwiceOversample \in Nat /\ TwiceOversample >= 2
    /\ WorkerCounts \subseteq Nat \ {0} /\ WorkerCounts # {}

ASSUME RetryAssumption

VARIABLES
    kind,       \* the loop: "keyed", "rollout" or "base"
    fallback,   \* whether a lenient parser is given
    workers,    \* num_workers
    at,         \* "ask", "wait", "take", "over" or "raised"
    round,      \* attempt
    pending,    \* the prompts still asked for, in order
    flat,       \* the list sent, padding included
    got,        \* its answers, padding removed
    results,    \* per prompt, the answers accepted
    last,       \* last_raw, per prompt
    asked, seen \* per prompt, the copies sent and the valid answers of each round

vars == <<kind, fallback, workers, at, round, pending, flat, got, results, last, asked, seen>>

Prompts == 1..NumPrompts

-----------------------------------------------------------------------------

NoAnswer == [of |-> 0, round |-> -1, q |-> "bad"]
Qualities == IF kind = "keyed" THEN {"valid", "lenient", "bad"} ELSE {"valid", "bad"}
Valid(a) == a.q = "valid"

\* int(round(x / 2)): a half goes to the even neighbour.
RoundHalf(x) == IF x % 2 = 0 THEN x \div 2 ELSE (x \div 2) + ((x \div 2) % 2)

AtLeast(low, x) == IF x < low THEN low ELSE x

\* The copies of a prompt that _generate_with_retry_keyed and _gen_rollouts
\* send in a round.
Copies(r) ==
    CASE kind = "keyed"   -> IF r = 0 \/ TwiceOversample = 2 THEN 1
                             ELSE AtLeast(1, RoundHalf(TwiceOversample))
      [] kind = "rollout" -> IF r = 0 THEN N ELSE AtLeast(N, RoundHalf(N * TwiceOversample))

\* flat_prompts: each prompt as often as it lacks answers.
Needed == FlattenSeq([i \in DOMAIN pending |->
              [j \in 1..(N - Len(results[pending[i]])) |-> pending[i]]])

\* What a round sends.
Flat ==
    CASE kind = "base"    -> Needed
      [] kind = "keyed"   -> Repeat(pending, Copies(round))
      [] kind = "rollout" -> PadToDivisor(Repeat(pending, Copies(round)), workers)

Init ==
    /\ kind \in {"keyed", "rollout", "base"}
    /\ fallback \in (IF kind = "keyed" THEN BOOLEAN ELSE {FALSE})
    /\ workers \in (IF kind = "rollout" THEN WorkerCounts ELSE {1})
    /\ at = "ask" /\ round = 0
    /\ pending = [i \in Prompts |-> i]
    /\ flat = <<>> /\ got = <<>>
    /\ results = [p \in Prompts |-> <<>>]
    /\ last = [p \in Prompts |-> NoAnswer]
    /\ asked = [p \in Prompts |-> 0] /\ seen = [p \in Prompts |-> <<>>]

\* The loop goes on as long as there are rounds and something is pending.
Ask ==
    /\ at = "ask" /\ round <= MaxRetry /\ pending # <<>>
    /\ flat' = Flat
    /\ asked' = [p \in Prompts |-> asked[p] + Cardinality({i \in DOMAIN Flat : Flat[i] = p})]
    /\ at' = "wait"
    /\ UNCHANGED <<kind, fallback, workers, round, pending, got, results, last, seen>>

Answers(prompts) ==
    {[i \in DOMAIN prompts |-> [of |-> prompts[i], round |-> round, q |-> qs[i]]] :
        qs \in [DOMAIN prompts -> Qualities]}

\* Mutant of Gathered: the workers' outputs in the order they arrive.
GatheredAsArrived(all) == Concat(Reverse(Chunk(all, workers)))

\* generate_sequences chunks the rows over the workers and puts the outputs
\* together in the workers' order; _call_generator gathers in order.
Gathered(all) == Concat(Chunk(all, workers))

\* The engine has answered every row; what was padded is cut off.
Answered ==
    /\ at = "wait"
    /\ \E all \in Answers(flat) :
         got' = Unpad(Gathered(all), IF kind = "rollout"
                                     THEN PadSize(Len(pending) * Copies(round), workers) ELSE 0)
    /\ at' = "take"
    /\ UNCHANGED <<kind, fallback, workers, round, pending, flat, results, last, asked, seen>>

\* One request that fails raises out of gather or ray.get: all is lost.
Raise ==
    /\ at = "wait"
    /\ at' = "raised"
    /\ UNCHANGED <<kind, fallback, workers, round, pending, flat, got, results, last, asked, seen>>

-----------------------------------------------------------------------------
(* Taking the answers of a round.                                          *)

\* Mutant of SliceOf: cut by the copies of the first round.
SliceOfFirst(k) == SubSeq(got, (k - 1) * Copies(0) + 1, k * Copies(0))

\* The answers to the kth pending prompt.
SliceOf(k) == SubSeq(got, (k - 1) * Copies(round) + 1, k * Copies(round))

\* The first valid answer, or the last of the slice.
Chosen(s) == IF \E i \in DOMAIN s : Valid(s[i])
             THEN s[Min({i \in DOMAIN s : Valid(s[i])})] ELSE s[Len(s)]

\* valid[:n], if there are min_valid.
Rollouts(s) == LET valid == Kept(s, {i \in DOMAIN s : Valid(s[i])})
               IN  IF Len(valid) >= MinValid
                   THEN SubSeq(valid, 1, IF Len(valid) < N THEN Len(valid) ELSE N) ELSE <<>>

\* The valid answers that were sent for p, by flat_pos.
AnswersFor(p) == Kept(got, {k \in DOMAIN got : flat[k] = p /\ Valid(got[k])})

\* What p has after the round.
Taken(p) ==
    IF kind = "base" THEN results[p] \o AnswersFor(p)
    ELSE IF p \notin Range(pending) THEN results[p]
    ELSE LET s == SliceOf(CHOOSE k \in DOMAIN pending : pending[k] = p)
         IN  IF kind = "rollout" THEN Rollouts(s)
             ELSE IF Valid(Chosen(s)) THEN <<Chosen(s)>> ELSE <<>>

\* Whether p is asked for no more.
Settled(p, rs) == IF kind = "base" THEN Len(rs) >= N ELSE rs # <<>>

\* Mutant of Remaining: the round's successes are not removed.
RemainingAll == pending

\* still_remaining, still_pending.
Remaining == Kept(pending, {k \in DOMAIN pending : ~Settled(pending[k], Taken(pending[k]))})

LastRaw(p) == IF p \notin Range(pending) THEN last[p]
              ELSE Chosen(SliceOf(CHOOSE k \in DOMAIN pending : pending[k] = p))

Take ==
    /\ at = "take"
    /\ results' = [p \in Prompts |-> Taken(p)]
    /\ pending' = Remaining
    /\ last' = IF kind = "keyed" THEN [p \in Prompts |-> LastRaw(p)] ELSE last
    /\ seen' = [p \in Prompts |-> Append(seen[p],
                  Cardinality({i \in DOMAIN got : got[i].of = p /\ Valid(got[i])}))]
    /\ round' = round + 1
    /\ at' = "ask" /\ flat' = <<>> /\ got' = <<>>
    /\ UNCHANGED <<kind, fallback, workers, asked>>

\* The loop is over: the lenient parser on the last outputs of what is left.
Salvage ==
    /\ at = "ask" /\ (round > MaxRetry \/ pending = <<>>)
    /\ results' = [p \in Prompts |->
                     IF fallback /\ p \in Range(pending) /\ last[p].q \in {"valid", "lenient"}
                     THEN <<last[p]>> ELSE results[p]]
    /\ at' = "over"
    /\ UNCHANGED <<kind, fallback, workers, round, pending, flat, got, last, asked, seen>>

Terminated == at \in {"over", "raised"} /\ UNCHANGED vars

Next == Ask \/ Answered \/ Raise \/ Take \/ Salvage \/ Terminated

Spec == Init /\ [][Next]_vars

-----------------------------------------------------------------------------
(* Properties.                                                             *)

AnswerType == [of : 0..NumPrompts, round : -1..MaxRetry, q : {"valid", "lenient", "bad"}]

\* Every variable has its type; an answer per row sent, padding left out.
TypeOK ==
    /\ kind \in {"keyed", "rollout", "base"} /\ fallback \in BOOLEAN
    /\ workers \in WorkerCounts \cup {1}
    /\ at \in {"ask", "wait", "take", "over", "raised"}
    /\ round \in 0..(MaxRetry + 1)
    /\ pending \in Seq(Prompts) /\ Cardinality(Range(pending)) = Len(pending)
    /\ flat \in Seq(Prompts) /\ Len(flat) % workers = 0
    /\ got \in Seq(AnswerType)
    /\ at = "take" => Len(got) = Len(flat) - (IF kind = "rollout"
           THEN PadSize(Len(pending) * Copies(round), workers) ELSE 0)
    /\ results \in [Prompts -> Seq(AnswerType)]
    /\ last \in [Prompts -> AnswerType]
    /\ asked \in [Prompts -> Nat] /\ seen \in [Prompts -> Seq(Nat)]

\* What the caller is promised, rounds and flat lists left out: the answers a
\* prompt gets are its own, at most n of them, and stay what they were.
Pool == INSTANCE AnswerPool WITH
    quota <- IF kind = "keyed" THEN 1 ELSE N, pool <- results, closed <- at \in {"over", "raised"}

ImplementsPool == Pool!Spec

\* A prompt that has what it needs is not sent again, whatever the others of
\* its call still lack.
SettledNotAsked ==
    [][\A p \in Prompts : Settled(p, results[p]) => asked'[p] = asked[p]]_vars

\* Nothing is given up that the engine delivered: a prompt left without its
\* answers had no round that was good enough for it.
NothingWasted ==
    at = "over" => \A p \in Prompts :
        CASE kind = "keyed"   -> (\E r \in DOMAIN seen[p] : seen[p][r] > 0)
                                    => results[p] # <<>> /\ Valid(results[p][1])
          [] kind = "rollout" -> (\E r \in DOMAIN seen[p] : seen[p][r] >= MinValid)
                                    => Len(results[p]) >= MinValid
          [] kind = "base"    -> Len(results[p]) < N
                                    => /\ Len(results[p]) = Total(seen[p])
                                       /\ round = MaxRetry + 1
==============================================================================
