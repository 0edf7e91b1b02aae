--------------------------- MODULE RetryLoop_proofs ---------------------------
(***************************************************************************)
(* Proofs about the retry loops, for any number of prompts, answers,       *)
(* retries and workers and any oversampling.                               *)
(***************************************************************************)
EXTENDS RetryLoop, DataProto_proofs

Quota == IF kind = "keyed" THEN 1 ELSE N

OwnAnswers(p, rs) == \A i \in DOMAIN rs : rs[i].of = p /\ rs[i].q # "bad"

Distinct(s) == \A i, j \in DOMAIN s : s[i] = s[j] => i = j

\* The rows of a round without the padding.
Rows == Len(pending) * Copies(round)

\* What is pending is what is not settled.
PendingFits == \A p \in Prompts : p \in Range(pending) <=> ~Settled(p, results[p])

\* Each answer taken is for the prompt at its place.
GotFits ==
    /\ Len(got) = IF kind = "base" THEN Len(flat) ELSE Rows
    /\ \A k \in DOMAIN got : got[k].of = flat[k] /\ got[k].q \in Qualities

\* The inductive strengthening of TypeOK.
LoopInv ==
    /\ TypeOK
    /\ kind # "rollout" => workers = 1
    /\ fallback => kind = "keyed"
    /\ at \in {"wait", "take"} => round <= MaxRetry /\ pending # <<>> /\ flat = Flat
    /\ Distinct(pending)
    /\ at # "over" => PendingFits
    /\ \A p \in Prompts : Len(results[p]) <= Quota /\ OwnAnswers(p, results[p])
    /\ \A p \in Prompts : last[p].q # "bad" => last[p].of = p
    /\ at = "take" => GotFits

-----------------------------------------------------------------------------
(* What is sent.                                                           *)

LEMMA CopiesPositive ==
    ASSUME RetryAssumption, NEW r \in Nat, kind \in {"keyed", "rollout"}
    PROVE Copies(r) \in Nat \ {0}
<1>1. N \in Nat \ {0} /\ TwiceOversample \in Nat /\ N * TwiceOversample \in Nat
  BY DEF RetryAssumption
<1>2. \A x \in Nat : RoundHalf(x) \in Nat
  <2> TAKE x \in Nat
  <2>1. x \div 2 \in Nat /\ (x \div 2) % 2 \in Nat
    OBVIOUS
  <2> QED BY <2>1 DEF RoundHalf
<1>3. \A low \in Nat \ {0}, x \in Nat : AtLeast(low, x) \in Nat \ {0}
  BY DEF AtLeast
<1>4. AtLeast(1, RoundHalf(TwiceOversample)) \in Nat \ {0}
      /\ AtLeast(N, RoundHalf(N * TwiceOversample)) \in Nat \ {0}
  BY <1>1, <1>2, <1>3
<1> QED BY <1>1, <1>4 DEF Copies

LEMMA RangeFacts ==
    ASSUME NEW S, NEW s \in Seq(S)
    PROVE /\ \A i \in 1 .. Len(s) : s[i] \in Range(s)
          /\ \A x \in Range(s) : x \in S /\ \E i \in 1 .. Len(s) : x = s[i]
BY DEF Range

LEMMA Constants ==
    ASSUME RetryAssumption, TypeOK, kind # "rollout" => workers = 1
    PROVE /\ workers \in Nat \ {0} /\ round \in Nat /\ N \in Nat \ {0}
          /\ pending \in Seq(Prompts) /\ Len(pending) \in Nat
          /\ pending # <<>> => Len(pending) # 0
          /\ kind \in {"keyed", "rollout", "base"}
BY DEF RetryAssumption, TypeOK

\* In the loops that cut by position: the places of each pending prompt.
LEMMA PlacesSent ==
    ASSUME RetryAssumption, TypeOK, kind # "rollout" => workers = 1,
           pending # <<>>, kind \in {"keyed", "rollout"}
    PROVE /\ Copies(round) \in Nat \ {0} /\ Rows \in Nat /\ Rows <= Len(Flat)
          /\ Flat \in Seq(Prompts) /\ Len(Flat) % workers = 0
          /\ Len(Flat) = Rows + (IF kind = "rollout" THEN PadSize(Rows, workers) ELSE 0)
          /\ \A k \in DOMAIN Flat : Flat[k] \in Range(pending)
          /\ \A b \in 1 .. Len(pending), j \in 1 .. Copies(round) :
               /\ (b - 1) * Copies(round) + j \in 1 .. Rows
               /\ Flat[(b - 1) * Copies(round) + j] = pending[b]
          /\ \A i \in 1 .. Rows : \E b \in 1 .. Len(pending), j \in 1 .. Copies(round) :
               i = (b - 1) * Copies(round) + j /\ Flat[i] = pending[b]
<1> DEFINE c == Copies(round)
           rep == Repeat(pending, c)
<1>1. /\ workers \in Nat \ {0} /\ c \in Nat \ {0}
      /\ pending \in Seq(Prompts) /\ Len(pending) \in Nat \ {0}
  BY Constants, CopiesPositive
<1>2. Flat = IF kind = "rollout" THEN PadToDivisor(rep, workers) ELSE rep
  BY DEF Flat
<1> HIDE DEF c
<1>3. /\ rep \in Seq(Prompts) /\ Len(rep) = Len(pending) * c /\ Len(pending) * c \in Nat
      /\ \A b \in 1 .. Len(pending) : \A j \in 1 .. c :
           (b - 1) * c + j \in 1 .. Len(pending) * c /\ rep[(b - 1) * c + j] = pending[b]
      /\ \A i \in 1 .. Len(pending) * c : \E b \in 1 .. Len(pending) : \E j \in 1 .. c :
           i = (b - 1) * c + j /\ rep[i] = pending[b]
  <2>0. pending \in Seq(Prompts) /\ c \in Nat \ {0}
    BY <1>1
  <2>1. /\ rep \in Seq(Prompts) /\ Len(rep) = Len(pending) * c /\ Len(pending) * c \in Nat
    <3>1. Repeat(pending, c) \in Seq(Prompts)
      BY <2>0, RepeatFacts
    <3>2. Len(Repeat(pending, c)) = Len(pending) * c
      BY <2>0, RepeatFacts
    <3>3. Len(pending) * c \in Nat
      BY <2>0, RepeatFacts
    <3> QED BY <3>1, <3>2, <3>3
  <2>2. \A b \in 1 .. Len(pending) : \A j \in 1 .. c :
          (b - 1) * c + j \in 1 .. Len(pending) * c /\ rep[(b - 1) * c + j] = pending[b]
    BY <1>1, RepeatFacts
  <2>3. \A i \in 1 .. Len(pending) * c : \E b \in 1 .. Len(pending) : \E j \in 1 .. c :
          i = (b - 1) * c + j /\ rep[i] = pending[b]
    BY <1>1, RepeatFacts
  <2> QED BY <2>1, <2>2, <2>3
<1>4. Rows = Len(pending) * c
  BY DEF Rows, c
<1> HIDE DEF rep
<1>5. Rows # 0 /\ rep # <<>>
  <2>1. 1 \in 1 .. Len(pending) /\ 1 \in 1 .. c
    BY <1>1
  <2>2. (1 - 1) * c + 1 \in 1 .. Len(pending) * c
    BY <1>3, <2>1
  <2>3. 1 .. Len(pending) * c # {}
    BY <2>2
  <2> DEFINE m == Len(pending) * c
  <2>4. m \in Nat /\ 1 .. m # {} /\ Rows = m /\ Len(rep) = m
    BY <1>3, <1>4, <2>3
  <2> HIDE DEF m
  <2>5. m # 0
    BY <2>4
  <2> QED BY <2>4, <2>5
<1>6. \A i \in 1 .. Rows : rep[i] \in Range(pending)
  BY <1>1, <1>3, <1>4, RangeFacts
<1>7. /\ Flat \in Seq(Prompts) /\ Len(Flat) % workers = 0
      /\ Len(Flat) = Rows + (IF kind = "rollout" THEN PadSize(Rows, workers) ELSE 0)
      /\ Rows <= Len(Flat)
      /\ \A k \in DOMAIN Flat : Flat[k] \in Range(pending)
      /\ \A i \in 1 .. Rows : Flat[i] = rep[i]
  <2>1. CASE kind = "rollout"
    <3> DEFINE t == PadToDivisor(rep, workers)
    <3>1. /\ t \in Seq(Prompts) /\ Len(t) = Len(rep) + PadSize(Len(rep), workers)
          /\ Len(t) % workers = 0
          /\ \A i \in 1 .. Len(rep) : t[i] = rep[i]
          /\ \A i \in 1 .. Len(t) : \E k \in 1 .. Len(rep) : t[i] = rep[k]
      <4>1. rep \in Seq(Prompts) /\ rep # <<>> /\ workers \in Nat \ {0}
        BY <1>1, <1>3, <1>5
      <4> QED BY <4>1, PadFacts
    <3>2. PadSize(Rows, workers) \in Nat
      <4>1. Rows \in Nat /\ workers \in Nat \ {0}
        BY <1>1, <1>3, <1>4
      <4>2. PadSize(Rows, workers) \in 0 .. workers - 1
        BY <4>1, PadSizeFacts
      <4> QED BY <4>1, <4>2
    <3>3. Flat = t
      BY <1>2, <2>1
    <3> HIDE DEF t
    <3>4. Len(t) = Rows + PadSize(Rows, workers) /\ Rows <= Len(t)
      BY <1>3, <1>4, <3>1, <3>2
    <3>5. \A k \in DOMAIN t : t[k] \in Range(pending)
      BY <1>3, <1>4, <1>6, <3>1
    <3> QED BY <1>3, <1>4, <2>1, <3>1, <3>3, <3>4, <3>5
  <2>2. CASE kind # "rollout"
    <3>1. workers = 1 /\ Flat = rep /\ Rows \in Nat
      BY <1>2, <1>3, <1>4, <2>2
    <3>2. Rows % 1 = 0
      BY <3>1
    <3> QED BY <1>3, <1>4, <1>6, <2>2, <3>1, <3>2
  <2> QED BY <2>1, <2>2
<1>8. /\ \A b \in 1 .. Len(pending), j \in 1 .. c :
           (b - 1) * c + j \in 1 .. Rows /\ Flat[(b - 1) * c + j] = pending[b]
      /\ \A i \in 1 .. Rows : \E b \in 1 .. Len(pending), j \in 1 .. c :
           i = (b - 1) * c + j /\ Flat[i] = pending[b]
  <2> HIDE DEF Rows
  <2>1. \A b \in 1 .. Len(pending) : \A j \in 1 .. c :
          (b - 1) * c + j \in 1 .. Rows /\ rep[(b - 1) * c + j] = pending[b]
    BY <1>3, <1>4
  <2>2. \A i \in 1 .. Rows : \E b \in 1 .. Len(pending) : \E j \in 1 .. c :
          i = (b - 1) * c + j /\ rep[i] = pending[b]
    BY <1>3, <1>4
  <2>3. \A i \in 1 .. Rows : Flat[i] = rep[i]
    BY <1>7
  <2>4. \A b \in 1 .. Len(pending) : \A j \in 1 .. c : Flat[(b - 1) * c + j] = pending[b]
    BY <2>1, <2>3
  <2>5. \A i \in 1 .. Rows : \E b \in 1 .. Len(pending) : \E j \in 1 .. c :
          i = (b - 1) * c + j /\ Flat[i] = pending[b]
    BY <2>2, <2>3
  <2> QED BY <2>1, <2>4, <2>5
<1> QED BY <1>1, <1>3, <1>4, <1>7, <1>8 DEF c

\* In the loop for base answers: each pending prompt as often as it lacks
\* answers.
LEMMA NeededSent ==
    ASSUME RetryAssumption, TypeOK, kind = "base", workers = 1, Distinct(pending), pending # <<>>,
           \A p \in Range(pending) : Len(results[p]) < N
    PROVE /\ Flat \in Seq(Prompts) /\ Len(Flat) % workers = 0
          /\ \A p \in Range(pending) : CountOf(Flat, p) = N - Len(results[p])
          /\ \A p \in Prompts \ Range(pending) : CountOf(Flat, p) = 0
          /\ \A k \in DOMAIN Flat : Flat[k] \in Range(pending)
<1> DEFINE n == Len(pending)
           e == [i \in 1 .. n |-> pending[i]]
           c == [i \in 1 .. n |-> N - Len(results[pending[i]])]
           seqs == [i \in 1 .. n |-> Run(e[i], c[i])]
<1>1. /\ pending \in Seq(Prompts) /\ n \in Nat \ {0} /\ N \in Nat
      /\ \A p \in Prompts : Len(results[p]) \in Nat
  BY DEF RetryAssumption, TypeOK
<1>2. /\ \A i \in 1 .. n : pending[i] \in Prompts /\ pending[i] \in Range(pending)
      /\ \A p \in Range(pending) : p \in Prompts /\ \E i \in 1 .. n : p = pending[i]
  BY <1>1, RangeFacts
<1>3. e \in [1 .. n -> Prompts] /\ c \in [1 .. n -> Nat]
  <2>1. \A i \in 1 .. n : N - Len(results[pending[i]]) \in Nat
    BY <1>1, <1>2
  <2> QED BY <1>2, <2>1
<1>4. \A i, j \in 1 .. n : e[i] = e[j] => i = j
  BY <1>1 DEF Distinct
<1>5. Flat = Concat(seqs)
  <2>1. \A i \in 1 .. n : Run(e[i], c[i]) = [j \in 1 .. (N - Len(results[pending[i]])) |-> pending[i]]
    BY DEF Run
  <2>2. DOMAIN pending = 1 .. n
    BY <1>1
  <2>3. seqs = [i \in DOMAIN pending |->
                 [j \in 1 .. (N - Len(results[pending[i]])) |-> pending[i]]]
    BY <2>1, <2>2
  <2> QED BY <2>3 DEF Flat, Needed, Concat
<1>6. \A i \in 1 .. n : e[i] = pending[i] /\ c[i] = N - Len(results[pending[i]])
  OBVIOUS
<1> DEFINE all == Concat(seqs)
<1>7. ASSUME NEW p \in Prompts
      PROVE all \in Seq(Prompts) /\ CountedIn(all, e, c, n, p)
  <2>1. RunsOf(seqs, e, c, n)
    BY <1>1 DEF RunsOf
  <2>2. Different(e, n)
    BY <1>4 DEF Different
  <2>3. e \in [1 .. n -> Prompts] /\ c \in [1 .. n -> Nat] /\ n \in Nat \ {0}
    BY <1>1, <1>3
  <2> HIDE DEF e, c, n, seqs
  <2> QED BY <2>1, <2>2, <2>3, ConcatRuns
<1> HIDE DEF n, e, c, seqs, all
<1>8. \A p \in Range(pending) : CountOf(all, p) = N - Len(results[p])
  BY <1>2, <1>6, <1>7 DEF CountedIn
<1>9. \A p \in Prompts \ Range(pending) : CountOf(all, p) = 0
  BY <1>2, <1>6, <1>7 DEF CountedIn
<1>10. all \in Seq(Prompts)
  <2>1. \E p \in Prompts : TRUE
    BY <1>1, <1>2
  <2> QED BY <1>7, <2>1
<1>11. \A k \in DOMAIN all : all[k] \in Range(pending)
  <2> TAKE k \in DOMAIN all
  <2> SUFFICES ASSUME all[k] \notin Range(pending) PROVE FALSE
    OBVIOUS
  <2>1. all[k] \in Prompts
    BY <1>10
  <2>2. CountOf(all, all[k]) = 0
    BY <1>9, <2>1
  <2>3. IsFiniteSet({j \in DOMAIN all : all[j] = all[k]})
    BY <1>10, CountIsNat
  <2>4. {j \in DOMAIN all : all[j] = all[k]} = {}
    BY <2>2, <2>3, FS_EmptySet DEF CountOf
  <2> QED BY <2>4
<1>12. Len(all) % workers = 0
  BY <1>10
<1> QED BY <1>5, <1>8, <1>9, <1>10, <1>11, <1>12 DEF all

-----------------------------------------------------------------------------
(* What is taken.                                                          *)

LEMMA DistinctSize ==
    ASSUME NEW S, NEW s \in Seq(S), Distinct(s)
    PROVE IsFiniteSet(Range(s)) /\ Cardinality(Range(s)) = Len(s)
<1> DEFINE n == Len(s)
           T == Range(s)
<1>1. n \in Nat /\ s \in [1 .. n -> T]
  BY DEF Range
<1>2. \A i, j \in 1 .. n : s[i] = s[j] => i = j
  BY <1>1 DEF Distinct
<1>3. \A x \in T : \E i \in 1 .. n : s[i] = x
  BY <1>1 DEF Range
<1> HIDE DEF n, T
<1>4. s \in Bijection(1 .. n, T)
  BY <1>1, <1>2, <1>3 DEF Bijection, Injection, Surjection, IsInjective
<1>5. ExistsBijection(1 .. n, T)
  BY <1>4 DEF ExistsBijection
<1>6. IsFiniteSet(T)
  BY <1>1, <1>5, FS_NatBijection
<1>7. Cardinality(T) = n
  BY <1>1, <1>5, FS_CountingElements
<1> QED BY <1>6, <1>7 DEF n, T

\* The place of a pending prompt.
LEMMA PlaceOf ==
    ASSUME NEW p \in Range(pending), pending \in Seq(Prompts), Distinct(pending)
    PROVE LET k == CHOOSE k \in DOMAIN pending : pending[k] = p
          IN  k \in 1 .. Len(pending) /\ pending[k] = p
                /\ \A j \in 1 .. Len(pending) : pending[j] = p => j = k
<1>1. \E k \in DOMAIN pending : pending[k] = p
  BY DEF Range
<1> DEFINE k == CHOOSE k \in DOMAIN pending : pending[k] = p
<1>2. k \in DOMAIN pending /\ pending[k] = p
  BY <1>1
<1>3. DOMAIN pending = 1 .. Len(pending)
  OBVIOUS
<1> HIDE DEF k
<1>4. \A j \in 1 .. Len(pending) : pending[j] = p => j = k
  BY <1>2, <1>3 DEF Distinct
<1> QED BY <1>2, <1>3, <1>4 DEF k

\* A slice holds the answers to its prompt, one for each copy.
LEMMA SliceIs ==
    ASSUME RetryAssumption, LoopInv, at = "take", kind \in {"keyed", "rollout"},
           NEW k \in 1 .. Len(pending)
    PROVE /\ SliceOf(k) \in Seq(AnswerType)
          /\ Len(SliceOf(k)) = Copies(round) /\ Copies(round) \in Nat \ {0}
          /\ \A j \in 1 .. Copies(round) :
               /\ (k - 1) * Copies(round) + j \in 1 .. Len(got)
               /\ SliceOf(k)[j] = got[(k - 1) * Copies(round) + j]
               /\ SliceOf(k)[j].of = pending[k] /\ SliceOf(k)[j].q \in Qualities
<1> DEFINE c == Copies(round)
           a == (k - 1) * c
<1>1. /\ c \in Nat \ {0} /\ Len(pending) \in Nat /\ got \in Seq(AnswerType)
      /\ Len(got) = Rows /\ Rows \in Nat /\ flat = Flat /\ Rows = Len(pending) * c
      /\ \A i \in DOMAIN got : got[i].of = flat[i] /\ got[i].q \in Qualities
  <2>1. TypeOK /\ (kind # "rollout" => workers = 1) /\ pending # <<>> /\ flat = Flat /\ GotFits
    BY DEF LoopInv
  <2>2. c \in Nat \ {0} /\ Rows \in Nat
    BY <2>1, PlacesSent
  <2>3. Rows = Len(pending) * c
    BY DEF Rows
  <2>4. /\ Len(got) = Rows
        /\ \A i \in DOMAIN got : got[i].of = flat[i] /\ got[i].q \in Qualities
    BY <2>1 DEF GotFits
  <2>5. Len(pending) \in Nat /\ got \in Seq(AnswerType)
    BY <2>1 DEF TypeOK
  <2> QED BY <2>1, <2>2, <2>3, <2>4, <2>5
<1>2. \A j \in 1 .. c : a + j \in 1 .. Rows /\ Flat[a + j] = pending[k]
  BY PlacesSent DEF LoopInv
<1> HIDE DEF c, Rows
<1>3. k - 1 \in Nat
  OBVIOUS
<1>4. a \in Nat /\ k * c = a + c
  BY <1>1, <1>3
<1> HIDE DEF a
<1>5. a + c <= Len(got)
  <2>1. c \in 1 .. c
    BY <1>1
  <2>2. a + c \in 1 .. Rows
    BY <1>2, <2>1
  <2> QED BY <1>1, <2>2
<1> DEFINE s == SubSeq(got, a + 1, a + c)
<1>6. s \in Seq(AnswerType)
  BY <1>1, <1>4, <1>5, SliceFacts
<1>7. Len(s) = c
  BY <1>1, <1>4, <1>5, SliceFacts
<1>8. \A j \in 1 .. c : s[j] = got[a + j]
  BY <1>1, <1>4, <1>5, SliceFacts
<1>9. SliceOf(k) = s
  BY <1>4 DEF SliceOf, a, c
<1> HIDE DEF s
<1>10. ASSUME NEW j \in 1 .. c
       PROVE /\ a + j \in 1 .. Len(got) /\ s[j] = got[a + j]
             /\ s[j].of = pending[k] /\ s[j].q \in Qualities
  <2>1. a + j \in 1 .. Len(got) /\ a + j \in DOMAIN got /\ Flat[a + j] = pending[k]
    BY <1>1, <1>2
  <2> QED BY <1>1, <1>8, <2>1
<1> QED BY <1>1, <1>6, <1>7, <1>9, <1>10 DEF a, c

LEMMA ChosenFacts ==
    ASSUME NEW S, NEW s \in Seq(S), Len(s) # 0
    PROVE /\ \E i \in 1 .. Len(s) : Chosen(s) = s[i]
          /\ (\E i \in 1 .. Len(s) : Valid(s[i])) => Valid(Chosen(s))
<1> DEFINE T == {i \in DOMAIN s : Valid(s[i])}
<1>1. CASE \E i \in 1 .. Len(s) : Valid(s[i])
  <2>1. T # {} /\ T \in SUBSET Nat /\ T \subseteq 1 .. Len(s)
    BY <1>1
  <2>2. \E x \in T : \A y \in T : x <= y
    BY <2>1, Least
  <2>3. Min(T) \in T
    BY <2>2 DEF Min
  <2>4. Chosen(s) = s[Min(T)]
    BY <1>1 DEF Chosen
  <2> QED BY <2>1, <2>3, <2>4
<1>2. CASE ~ \E i \in 1 .. Len(s) : Valid(s[i])
  <2>1. Len(s) \in 1 .. Len(s)
    OBVIOUS
  <2>2. Chosen(s) = s[Len(s)]
    BY <1>2 DEF Chosen
  <2> QED BY <1>2, <2>1, <2>2
<1> QED BY <1>1, <1>2

LEMMA RolloutsFacts ==
    ASSUME RetryAssumption, NEW S, NEW s \in Seq(S)
    PROVE /\ Rollouts(s) \in Seq(S) /\ Len(Rollouts(s)) <= N
          /\ \A i \in DOMAIN Rollouts(s) : \E j \in 1 .. Len(s) :
               Rollouts(s)[i] = s[j] /\ Valid(s[j])
          /\ Rollouts(s) # <<>> => Len(Rollouts(s)) >= MinValid
          /\ Cardinality({j \in DOMAIN s : Valid(s[j])}) >= MinValid => Rollouts(s) # <<>>
<1> DEFINE V == {j \in DOMAIN s : Valid(s[j])}
           v == Kept(s, V)
           m == IF Len(v) < N THEN Len(v) ELSE N
           w == SubSeq(v, 0 + 1, 0 + m)
<1>1. V \in SUBSET DOMAIN s /\ (\A j \in V : Valid(s[j])) /\ DOMAIN s = 1 .. Len(s)
  OBVIOUS
<1>2. Rollouts(s) = IF Len(v) >= MinValid THEN w ELSE <<>>
  <2>1. m = (0 + m) /\ 0 + 1 = 1
    <3>1. Len(v) \in Nat /\ N \in Nat
      BY KeptFacts DEF RetryAssumption
    <3> HIDE DEF v
    <3> QED BY <3>1
  <2>2. w = SubSeq(v, 1, m)
    BY <2>1
  <2> QED BY <2>2, Zenon DEF Rollouts
<1>3. N \in Nat /\ MinValid \in Nat \ {0} /\ MinValid <= N
  BY DEF RetryAssumption
<1> HIDE DEF V
<1>4. v \in Seq(S)
  BY <1>1, KeptFacts
<1>5. Len(v) = Cardinality(V)
  BY <1>1, KeptFacts
<1>6. \A i \in DOMAIN v : \E k \in V : v[i] = s[k]
  BY <1>1, KeptFacts
<1> HIDE DEF v
<1>7. m \in Nat /\ 0 + m <= Len(v) /\ m <= N /\ (Len(v) >= MinValid => m >= MinValid)
  BY <1>3, <1>4
<1> HIDE DEF m
<1>8. w \in Seq(S)
  BY <1>4, <1>7, SliceFacts
<1>9. Len(w) = m
  BY <1>4, <1>7, SliceFacts
<1>10. \A j \in 1 .. m : w[j] = v[0 + j]
  BY <1>4, <1>7, SliceFacts
<1> HIDE DEF w
<1>11. \A i \in DOMAIN w : \E j \in 1 .. Len(s) : w[i] = s[j] /\ Valid(s[j])
  <2> TAKE i \in DOMAIN w
  <2>1. i \in 1 .. m /\ i \in DOMAIN v /\ w[i] = v[i]
    BY <1>4, <1>7, <1>8, <1>9, <1>10
  <2>2. PICK k \in V : v[i] = s[k]
    BY <1>6, <2>1
  <2>3. k \in 1 .. Len(s) /\ Valid(s[k])
    BY <1>1, <2>2
  <2> QED BY <2>1, <2>2, <2>3
<1>12. Rollouts(s) = w \/ Rollouts(s) = <<>>
  BY <1>2
<1>13. Rollouts(s) \in Seq(S) /\ Len(Rollouts(s)) <= N
  <2>1. CASE Rollouts(s) = w
    BY <1>7, <1>8, <1>9, <2>1
  <2>2. CASE Rollouts(s) = <<>>
    BY <1>3, <2>2
  <2> QED BY <1>12, <2>1, <2>2
<1>14. \A i \in DOMAIN Rollouts(s) : \E j \in 1 .. Len(s) : Rollouts(s)[i] = s[j] /\ Valid(s[j])
  <2>1. CASE Rollouts(s) = w
    BY <1>11, <2>1
  <2>2. CASE Rollouts(s) = <<>>
    BY <2>2
  <2> QED BY <1>12, <2>1, <2>2
<1>15. Rollouts(s) # <<>> => Len(Rollouts(s)) >= MinValid
  BY <1>2, <1>7, <1>9
<1>16. Cardinality(V) >= MinValid => Rollouts(s) # <<>>
  <2> HAVE Cardinality(V) >= MinValid
  <2>1. Rollouts(s) = w /\ m >= MinValid
    BY <1>2, <1>5, <1>7
  <2>2. Len(w) # 0
    BY <1>3, <1>7, <1>9, <2>1
  <2> QED BY <2>1, <2>2
<1> QED BY <1>13, <1>14, <1>15, <1>16 DEF V

\* The answers taken for a prompt in the loop for base answers.
LEMMA AnswersForFacts ==
    ASSUME RetryAssumption, LoopInv, at = "take", kind = "base", NEW p \in Prompts
    PROVE /\ AnswersFor(p) \in Seq(AnswerType) /\ OwnAnswers(p, AnswersFor(p))
          /\ Len(AnswersFor(p)) =
               Cardinality({i \in DOMAIN got : got[i].of = p /\ Valid(got[i])})
          /\ Len(results[p]) + Len(AnswersFor(p)) <= N
<1> DEFINE P == {k \in DOMAIN got : flat[k] = p /\ Valid(got[k])}
           F == {k \in DOMAIN flat : flat[k] = p}
           a == Kept(got, P)
<1>1. /\ TypeOK /\ workers = 1 /\ Distinct(pending) /\ pending # <<>> /\ flat = Flat /\ GotFits
      /\ PendingFits /\ Len(results[p]) <= Quota
  BY DEF LoopInv
<1>2. /\ got \in Seq(AnswerType) /\ results[p] \in Seq(AnswerType) /\ pending \in Seq(Prompts)
      /\ flat \in Seq(Prompts) /\ N \in Nat
  BY <1>1 DEF TypeOK, RetryAssumption
<1>3. \A x \in Range(pending) : x \in Prompts
  BY <1>2, RangeFacts
<1>4. \A x \in Prompts : x \in Range(pending) <=> ~(Len(results[x]) >= N)
  BY <1>1 DEF PendingFits, Settled
<1>5. \A x \in Range(pending) : Len(results[x]) < N
  <2> TAKE x \in Range(pending)
  <2>1. results[x] \in Seq(AnswerType)
    BY <1>1, <1>3 DEF TypeOK
  <2> QED BY <1>2, <1>3, <1>4, <2>1
<1>6. CountOf(flat, p) = IF p \in Range(pending) THEN N - Len(results[p]) ELSE 0
  BY <1>1, <1>5, NeededSent
<1>7. Len(results[p]) \in Nat /\ Len(results[p]) <= N
  BY <1>1, <1>2 DEF Quota
<1>8. P \in SUBSET DOMAIN got /\ P \in SUBSET F
  <2>1. Len(got) = Len(flat)
    BY <1>1 DEF GotFits
  <2> QED BY <1>2, <2>1
<1>9. P = {i \in DOMAIN got : got[i].of = p /\ Valid(got[i])}
  BY <1>1 DEF GotFits
<1>10. \A k \in P : got[k].of = p /\ got[k].q # "bad"
  BY <1>9 DEF Valid
<1>11. AnswersFor(p) = a
  BY DEF AnswersFor
<1>12. IsFiniteSet(F) /\ CountOf(flat, p) = Cardinality(F)
  BY <1>2, CountIsNat DEF CountOf
<1> HIDE DEF P, F
<1>13. Cardinality(P) <= Cardinality(F)
  BY <1>8, <1>12, FS_Subset
<1>14. a \in Seq(AnswerType)
  BY <1>2, <1>8, KeptFacts
<1>15. Len(a) = Cardinality(P) /\ Cardinality(P) \in Nat
  BY <1>2, <1>8, KeptFacts
<1>16. \A i \in DOMAIN a : \E k \in P : a[i] = got[k]
  BY <1>2, <1>8, KeptFacts
<1> HIDE DEF a
<1>17. OwnAnswers(p, a)
  BY <1>10, <1>16 DEF OwnAnswers
<1>18. Len(results[p]) + Len(a) <= N
  BY <1>2, <1>6, <1>7, <1>12, <1>13, <1>15
<1> QED BY <1>9, <1>11, <1>14, <1>15, <1>17, <1>18

StartsWith(t, s) == Len(s) <= Len(t) /\ SubSeq(t, 1, Len(s)) = s

LEMMA StartsWithFacts ==
    ASSUME NEW S, NEW s \in Seq(S), NEW a \in Seq(S)
    PROVE StartsWith(s \o a, s) /\ StartsWith(s, s) /\ StartsWith(s, <<>>)
<1> DEFINE n == Len(s)
           t == s \o a
<1>1. n \in Nat /\ 0 + n <= n /\ t \in Seq(S) /\ Len(t) = n + Len(a) /\ Len(a) \in Nat
      /\ \A i \in 1 .. n : t[i] = s[i]
  OBVIOUS
<1>2. s \in Seq(S)
  OBVIOUS
<1> HIDE DEF t
<1>3. ASSUME NEW u \in Seq(S), n <= Len(u), \A i \in 1 .. n : u[i] = s[i]
      PROVE SubSeq(u, 1, n) = s
  <2> DEFINE w == SubSeq(u, 0 + 1, 0 + n)
  <2>1. 0 + n <= Len(u) /\ 0 \in Nat
    BY <1>1, <1>3
  <2>2. w \in Seq(S)
    BY <1>1, <1>3, <2>1, SliceFacts
  <2>3. Len(w) = n
    BY <1>1, <1>3, <2>1, SliceFacts
  <2>4. \A j \in 1 .. n : w[j] = u[0 + j]
    BY <1>1, <1>3, <2>1, SliceFacts
  <2>5. SubSeq(u, 1, n) = w
    BY <1>1
  <2> HIDE DEF w
  <2>6. \A j \in 1 .. n : w[j] = s[j]
    BY <1>3, <2>4
  <2>7. w = s
    BY <1>1, <1>2, <2>2, <2>3, <2>6
  <2> QED BY <2>5, <2>7
<1>4. SubSeq(t, 1, n) = s /\ n <= Len(t)
  BY <1>1, <1>3
<1>5. SubSeq(s, 1, n) = s
  BY <1>1, <1>2, <1>3
<1>6. SubSeq(s, 1, 0) = <<>>
  <2>1. SubSeq(s, 0 + 1, 0 + 0) \in Seq(S)
    BY <1>1, SliceFacts
  <2>2. Len(SubSeq(s, 0 + 1, 0 + 0)) = 0
    BY <1>1, SliceFacts
  <2> QED BY <2>1, <2>2
<1> QED BY <1>1, <1>4, <1>5, <1>6 DEF StartsWith, t

\* What a prompt has after a round is a continuation of what it had, is its
\* own, and is no more than its quota.
LEMMA TakenFacts ==
    ASSUME RetryAssumption, LoopInv, at = "take", NEW p \in Prompts
    PROVE /\ Taken(p) \in Seq(AnswerType) /\ Len(Taken(p)) <= Quota
          /\ OwnAnswers(p, Taken(p)) /\ StartsWith(Taken(p), results[p])
<1>1. /\ TypeOK /\ PendingFits /\ Distinct(pending) /\ results[p] \in Seq(AnswerType)
      /\ pending \in Seq(Prompts)
      /\ Len(results[p]) <= Quota /\ OwnAnswers(p, results[p])
  BY DEF LoopInv, TypeOK
<1>2. CASE kind = "base"
  <2> DEFINE a == AnswersFor(p)
             r == results[p]
  <2>1. Taken(p) = r \o a /\ Quota = N
    BY <1>2 DEF Taken, Quota
  <2>2. a \in Seq(AnswerType) /\ OwnAnswers(p, a) /\ Len(r) + Len(a) <= N
    BY <1>2, AnswersForFacts
  <2>3. r \in Seq(AnswerType) /\ OwnAnswers(p, r)
    BY <1>1
  <2> HIDE DEF a, r
  <2>4. r \o a \in Seq(AnswerType) /\ Len(r \o a) <= N /\ StartsWith(r \o a, r)
    BY <2>2, <2>3, StartsWithFacts
  <2>5. OwnAnswers(p, r \o a)
    <3> SUFFICES ASSUME NEW i \in DOMAIN (r \o a)
                 PROVE (r \o a)[i].of = p /\ (r \o a)[i].q # "bad"
      BY DEF OwnAnswers
    <3>1. CASE i \in 1 .. Len(r)
      BY <2>2, <2>3, <3>1 DEF OwnAnswers
    <3>2. CASE i \notin 1 .. Len(r)
      <4>1. i - Len(r) \in 1 .. Len(a) /\ (r \o a)[i] = a[i - Len(r)]
        BY <2>2, <2>3, <3>2
      <4> QED BY <2>2, <4>1 DEF OwnAnswers
    <3> QED BY <3>1, <3>2
  <2> QED BY <2>1, <2>4, <2>5 DEF r
<1>3. CASE kind # "base" /\ p \notin Range(pending)
  <2>1. Taken(p) = results[p]
    BY <1>3 DEF Taken
  <2> QED BY <1>1, <2>1, StartsWithFacts
<1>4. CASE kind # "base" /\ p \in Range(pending)
  <2> DEFINE k == CHOOSE k \in DOMAIN pending : pending[k] = p
             s == SliceOf(k)
             c == Copies(round)
  <2>1. kind \in {"keyed", "rollout"}
    BY <1>1, <1>4 DEF TypeOK
  <2>2. k \in 1 .. Len(pending) /\ pending[k] = p
    BY <1>1, <1>4, PlaceOf
  <2>3. results[p] = <<>>
    BY <1>1, <1>4 DEF PendingFits, Settled
  <2>4. Taken(p) = IF kind = "rollout" THEN Rollouts(s)
                   ELSE IF Valid(Chosen(s)) THEN <<Chosen(s)>> ELSE <<>>
    BY <1>4 DEF Taken
  <2> HIDE DEF k
  <2>5. /\ s \in Seq(AnswerType) /\ Len(s) = c /\ c \in Nat \ {0}
        /\ \A j \in 1 .. c : s[j].of = pending[k]
    BY <2>1, <2>2, SliceIs
  <2> HIDE DEF s, c
  <2>6. \A j \in 1 .. Len(s) : s[j] \in AnswerType /\ s[j].of = p
    BY <2>2, <2>5
  <2>7. CASE kind = "rollout"
    <3>1. Quota = N /\ Taken(p) = Rollouts(s)
      BY <2>4, <2>7 DEF Quota
    <3>2. Rollouts(s) \in Seq(AnswerType) /\ Len(Rollouts(s)) <= N
      BY <2>5, RolloutsFacts
    <3>3. \A i \in DOMAIN Rollouts(s) : \E j \in 1 .. Len(s) :
            Rollouts(s)[i] = s[j] /\ Valid(s[j])
      BY <2>5, RolloutsFacts
    <3>4. OwnAnswers(p, Rollouts(s))
      BY <2>6, <3>3 DEF OwnAnswers, Valid
    <3> QED BY <2>3, <3>1, <3>2, <3>4, StartsWithFacts
  <2>8. CASE kind = "keyed"
    <3> DEFINE x == Chosen(s)
    <3>1. \E i \in 1 .. Len(s) : x = s[i]
      BY <2>5, ChosenFacts
    <3>2. x \in AnswerType /\ x.of = p /\ Quota = 1
      BY <2>6, <2>8, <3>1 DEF Quota
    <3>3. Taken(p) = IF Valid(x) THEN <<x>> ELSE <<>>
      BY <2>4, <2>8
    <3> HIDE DEF x
    <3>4. Taken(p) \in Seq(AnswerType) /\ Len(Taken(p)) <= 1
      BY <3>2, <3>3
    <3>5. OwnAnswers(p, Taken(p))
      BY <3>2, <3>3 DEF OwnAnswers, Valid
    <3> QED BY <2>3, <3>2, <3>4, <3>5, StartsWithFacts
  <2> QED BY <2>1, <2>7, <2>8
<1> QED BY <1>2, <1>3, <1>4

\* What remains is what is not settled by the round.
LEMMA RemainingFacts ==
    ASSUME RetryAssumption, LoopInv, at = "take"
    PROVE /\ Remaining \in Seq(Prompts) /\ Distinct(Remaining)
          /\ \A p \in Prompts : p \in Range(Remaining) <=> ~Settled(p, Taken(p))
<1> DEFINE P == {k \in DOMAIN pending : ~Settled(pending[k], Taken(pending[k]))}
           r == Kept(pending, P)
<1>1. /\ TypeOK /\ PendingFits /\ Distinct(pending) /\ pending \in Seq(Prompts)
      /\ N \in Nat
  BY DEF LoopInv, TypeOK, RetryAssumption
<1>2. /\ P \in SUBSET DOMAIN pending
      /\ \A k \in P : ~Settled(pending[k], Taken(pending[k]))
      /\ \A k \in DOMAIN pending : ~Settled(pending[k], Taken(pending[k])) => k \in P
      /\ \A k, l \in P : pending[k] = pending[l] => k = l
      /\ \A k \in P : pending[k] \in Prompts
  BY <1>1 DEF Distinct
<1>3. Remaining = r
  BY DEF Remaining
<1> HIDE DEF P
<1>4. r \in Seq(Prompts)
  BY <1>1, <1>2, KeptFacts
<1>5. \A i \in DOMAIN r : \E k \in P : r[i] = pending[k]
  BY <1>1, <1>2, KeptFacts
<1>6. \A k \in P : \E i \in DOMAIN r : r[i] = pending[k]
  BY <1>1, <1>2, KeptFacts
<1>7. \A i, j \in DOMAIN r : r[i] = r[j] => i = j
  BY <1>1, <1>2, KeptFacts
<1> HIDE DEF r
<1>8. ASSUME NEW p \in Prompts, p \in Range(r) PROVE ~Settled(p, Taken(p))
  <2>1. PICK i \in DOMAIN r : p = r[i]
    BY <1>8 DEF Range
  <2>2. PICK k \in P : r[i] = pending[k]
    BY <1>5, <2>1
  <2> QED BY <1>2, <2>1, <2>2
<1>9. ASSUME NEW p \in Prompts, ~Settled(p, Taken(p)) PROVE p \in Range(r)
  <2>1. p \in Range(pending)
    <3> SUFFICES ASSUME p \notin Range(pending) PROVE FALSE
      OBVIOUS
    <3>1. Settled(p, results[p])
      BY <1>1 DEF PendingFits
    <3>2. CASE kind = "base"
      <4>1. results[p] \in Seq(AnswerType) /\ Taken(p) \in Seq(AnswerType)
            /\ Len(results[p]) <= Len(Taken(p))
        BY <1>1, TakenFacts DEF TypeOK, StartsWith
      <4>2. Len(results[p]) >= N /\ ~(Len(Taken(p)) >= N)
        BY <1>9, <3>1, <3>2 DEF Settled
      <4> QED BY <1>1, <4>1, <4>2
    <3>3. CASE kind # "base"
      <4>1. Taken(p) = results[p]
        BY <3>3 DEF Taken
      <4> QED BY <1>9, <3>1, <4>1
    <3> QED BY <3>2, <3>3
  <2>2. PICK k \in DOMAIN pending : pending[k] = p
    BY <2>1 DEF Range
  <2>3. k \in P
    BY <1>2, <1>9, <2>2
  <2>4. PICK i \in DOMAIN r : r[i] = p
    BY <1>6, <2>2, <2>3
  <2> QED BY <2>4 DEF Range
<1>10. Distinct(r)
  BY <1>7 DEF Distinct
<1> QED BY <1>3, <1>4, <1>8, <1>9, <1>10

\* The last output of a prompt is an answer to it.
LEMMA LastFacts ==
    ASSUME RetryAssumption, LoopInv, at = "take", kind = "keyed", NEW p \in Prompts
    PROVE LastRaw(p) \in AnswerType /\ (LastRaw(p).q # "bad" => LastRaw(p).of = p)
<1>1. CASE p \notin Range(pending)
  <2>1. LastRaw(p) = last[p]
    BY <1>1 DEF LastRaw
  <2> QED BY <2>1 DEF LoopInv, TypeOK
<1>2. CASE p \in Range(pending)
  <2> DEFINE k == CHOOSE k \in DOMAIN pending : pending[k] = p
             s == SliceOf(k)
             c == Copies(round)
             x == Chosen(s)
  <2>1. Distinct(pending) /\ pending \in Seq(Prompts)
    BY DEF LoopInv, TypeOK
  <2>2. k \in 1 .. Len(pending) /\ pending[k] = p
    BY <1>2, <2>1, PlaceOf
  <2>3. LastRaw(p) = x
    BY <1>2 DEF LastRaw
  <2> HIDE DEF k
  <2>4. /\ s \in Seq(AnswerType) /\ Len(s) = c /\ c \in Nat \ {0}
        /\ \A j \in 1 .. c : s[j].of = pending[k]
    BY <2>2, SliceIs
  <2> HIDE DEF s, c
  <2>5. \A j \in 1 .. Len(s) : s[j] \in AnswerType /\ s[j].of = p
    BY <2>2, <2>4
  <2>6. \E i \in 1 .. Len(s) : x = s[i]
    BY <2>4, ChosenFacts
  <2> HIDE DEF x
  <2> QED BY <2>3, <2>5, <2>6
<1> QED BY <1>1, <1>2

-----------------------------------------------------------------------------
(* What comes back.                                                        *)

LEMMA AnswersComeBack ==
    ASSUME RetryAssumption, LoopInv, at = "wait", NEW all \in Answers(flat)
    PROVE /\ all \in Seq(AnswerType) /\ Len(all) = Len(flat) /\ Gathered(all) = all
          /\ \A k \in 1 .. Len(flat) : all[k].of = flat[k] /\ all[k].q \in Qualities
<1>1. /\ workers \in Nat \ {0} /\ flat \in Seq(Prompts) /\ Len(flat) % workers = 0
      /\ round \in 0 .. MaxRetry /\ NumPrompts \in Nat /\ MaxRetry \in Nat
  <2>1. TypeOK /\ round <= MaxRetry
    BY DEF LoopInv
  <2>2. WorkerCounts \subseteq Nat \ {0} /\ NumPrompts \in Nat /\ MaxRetry \in Nat
    BY DEF RetryAssumption
  <2>3. workers \in Nat \ {0} /\ flat \in Seq(Prompts) /\ Len(flat) % workers = 0
    BY <2>1, <2>2 DEF TypeOK
  <2>4. round \in 0 .. MaxRetry
    BY <2>1, <2>2 DEF TypeOK
  <2> QED BY <2>2, <2>3, <2>4
<1>2. PICK qs \in [DOMAIN flat -> Qualities] :
        all = [i \in DOMAIN flat |-> [of |-> flat[i], round |-> round, q |-> qs[i]]]
  BY DEF Answers
<1>3. Qualities \subseteq {"valid", "lenient", "bad"}
  BY DEF Qualities
<1>4. \A i \in 1 .. Len(flat) : flat[i] \in 0 .. NumPrompts
  BY <1>1 DEF Prompts
<1>5. \A i \in 1 .. Len(flat) : all[i] = [of |-> flat[i], round |-> round, q |-> qs[i]]
  BY <1>1, <1>2
<1>6. \A i \in 1 .. Len(flat) : qs[i] \in Qualities
  BY <1>1, <1>2
<1>7. \A i \in 1 .. Len(flat) :
        all[i] \in AnswerType /\ all[i].of = flat[i] /\ all[i].q \in Qualities
  <2> TAKE i \in 1 .. Len(flat)
  <2> DEFINE x == flat[i]
             q == qs[i]
             y == all[i]
  <2>1. /\ x \in 0 .. NumPrompts /\ q \in {"valid", "lenient", "bad"} /\ q \in Qualities
        /\ y = [of |-> x, round |-> round, q |-> q]
    BY <1>3, <1>4, <1>5, <1>6
  <2>2. round \in -1 .. MaxRetry
    BY <1>1
  <2> HIDE DEF x, q, y
  <2>3. y \in AnswerType /\ y.of = x /\ y.q = q
    BY <2>1, <2>2 DEF AnswerType
  <2> QED BY <2>1, <2>3 DEF x, q, y
<1>8. DOMAIN all = 1 .. Len(flat) /\ Len(flat) \in Nat /\ all \in [1 .. Len(flat) -> AnswerType]
  <2>1. DOMAIN flat = 1 .. Len(flat) /\ Len(flat) \in Nat
    BY <1>1
  <2>2. DOMAIN all = 1 .. Len(flat) /\ all = [i \in 1 .. Len(flat) |-> all[i]]
    BY <1>2, <2>1
  <2> QED BY <1>7, <2>1, <2>2
<1>9. all \in Seq(AnswerType) /\ Len(all) = Len(flat)
  BY <1>8
<1>10. Concat(Chunk(all, workers)) = all
  BY <1>1, <1>9, ChunksTogether
<1> QED BY <1>7, <1>9, <1>10 DEF Gathered

-----------------------------------------------------------------------------
(* The invariant.                                                          *)

\* What is sent is for what is pending.
LEMMA FlatFacts ==
    ASSUME RetryAssumption, LoopInv, at # "over", pending # <<>>
    PROVE /\ Flat \in Seq(Prompts) /\ Len(Flat) % workers = 0
          /\ \A k \in DOMAIN Flat : Flat[k] \in Range(pending)
<1>1. /\ TypeOK /\ (kind # "rollout" => workers = 1) /\ PendingFits /\ Distinct(pending)
      /\ kind \in {"keyed", "rollout", "base"} /\ pending \in Seq(Prompts) /\ N \in Nat
  BY DEF LoopInv, TypeOK, RetryAssumption
<1>2. CASE kind = "base"
  <2>1. \A p \in Range(pending) : Len(results[p]) < N
    <3> TAKE p \in Range(pending)
    <3>1. p \in Prompts /\ results[p] \in Seq(AnswerType)
      BY <1>1, RangeFacts DEF TypeOK
    <3>2. ~(Len(results[p]) >= N)
      BY <1>1, <1>2, <3>1 DEF PendingFits, Settled
    <3> QED BY <1>1, <3>1, <3>2
  <2> QED BY <1>1, <1>2, <2>1, NeededSent
<1>3. CASE kind \in {"keyed", "rollout"}
  BY <1>1, <1>3, PlacesSent
<1> QED BY <1>1, <1>2, <1>3

LEMMA Same ==
    ASSUME UNCHANGED <<kind, workers, round, pending, results>>
    PROVE /\ Flat' = Flat /\ Rows' = Rows /\ Copies(round)' = Copies(round)
          /\ Qualities' = Qualities /\ Quota' = Quota
          /\ \A p, rs : Settled(p, rs)' <=> Settled(p, rs)
<1>1. \A r : Copies(r)' = Copies(r)
  BY DEF Copies
<1>2. Needed' = Needed
  BY DEF Needed
<1>3. Flat' = Flat
  BY <1>1, <1>2 DEF Flat
<1>4. Copies(round)' = Copies(round)
  BY DEF Copies
<1> QED BY <1>3, <1>4 DEF Rows, Qualities, Quota, Settled

LEMMA LoopInit ==
    ASSUME RetryAssumption, Init
    PROVE LoopInv
<1>1. /\ NumPrompts \in Nat \ {0} /\ N \in Nat \ {0} /\ MaxRetry \in Nat
      /\ WorkerCounts \subseteq Nat \ {0}
  BY DEF RetryAssumption
<1>2. /\ kind \in {"keyed", "rollout", "base"} /\ fallback \in BOOLEAN
      /\ workers \in WorkerCounts \cup {1} /\ workers \in Nat \ {0}
      /\ (kind # "rollout" => workers = 1) /\ (fallback => kind = "keyed")
      /\ at = "ask" /\ round = 0 /\ flat = <<>> /\ got = <<>>
      /\ \A p \in Prompts : results[p] = <<>>
      /\ \A p \in Prompts : last[p] = NoAnswer
  <2>1. /\ kind \in {"keyed", "rollout", "base"}
        /\ fallback \in (IF kind = "keyed" THEN BOOLEAN ELSE {FALSE})
        /\ workers \in (IF kind = "rollout" THEN WorkerCounts ELSE {1})
    BY DEF Init
  <2>2. fallback \in BOOLEAN /\ (fallback => kind = "keyed")
    BY <2>1
  <2>3. workers \in WorkerCounts \cup {1} /\ (kind # "rollout" => workers = 1)
    BY <2>1
  <2>4. workers \in Nat \ {0}
    BY <1>1, <2>3
  <2>5. at = "ask" /\ round = 0 /\ flat = <<>> /\ got = <<>>
    BY DEF Init
  <2>6. \A p \in Prompts : results[p] = <<>> /\ last[p] = NoAnswer
    BY DEF Init
  <2> QED BY <2>1, <2>2, <2>3, <2>4, <2>5, <2>6
<1>3. /\ pending \in Seq(Prompts) /\ Len(pending) = NumPrompts /\ Distinct(pending)
      /\ \A p \in Prompts : p \in Range(pending)
  BY <1>1 DEF Init, Prompts, Distinct, Range
<1>4. Cardinality(Range(pending)) = Len(pending)
  BY <1>3, DistinctSize
<1>5. Len(flat) % workers = 0
  <2>1. Len(flat) = 0
    BY <1>2
  <2> QED BY <1>2, <2>1
<1>6. NoAnswer \in AnswerType /\ NoAnswer.q = "bad"
  BY <1>1 DEF NoAnswer, AnswerType
<1>7. /\ results \in [Prompts -> Seq(AnswerType)] /\ last \in [Prompts -> AnswerType]
      /\ asked \in [Prompts -> Nat] /\ seen \in [Prompts -> Seq(Nat)]
  BY <1>6 DEF Init
<1>8. TypeOK
  BY <1>1, <1>2, <1>3, <1>4, <1>5, <1>7 DEF TypeOK
<1>9. PendingFits
  BY <1>1, <1>2, <1>3 DEF PendingFits, Settled
<1>10. \A p \in Prompts : Len(results[p]) <= Quota /\ OwnAnswers(p, results[p])
  BY <1>1, <1>2 DEF Quota, OwnAnswers
<1> QED BY <1>2, <1>3, <1>6, <1>8, <1>9, <1>10 DEF LoopInv

LEMMA LoopAsk ==
    ASSUME RetryAssumption, LoopInv, Ask
    PROVE LoopInv'
<1>1. /\ at = "ask" /\ at' = "wait" /\ round <= MaxRetry /\ pending # <<>> /\ flat' = Flat
      /\ UNCHANGED <<kind, fallback, workers, round, pending, got, results, last, seen>>
  BY DEF Ask
<1>2. Flat \in Seq(Prompts) /\ Len(Flat) % workers = 0
  BY <1>1, FlatFacts
<1>3. Flat' = Flat /\ Quota' = Quota
      /\ \A p, rs : Settled(p, rs)' <=> Settled(p, rs)
  BY <1>1, Same
<1>4. asked' \in [Prompts -> Nat]
  <2>1. \A p \in Prompts : Cardinality({i \in DOMAIN Flat : Flat[i] = p}) \in Nat
    BY <1>2, CountIsNat DEF CountOf
  <2>2. \A p \in Prompts : asked[p] \in Nat
    BY DEF LoopInv, TypeOK
  <2>3. asked' = [p \in Prompts |-> asked[p] + Cardinality({i \in DOMAIN Flat : Flat[i] = p})]
    BY DEF Ask
  <2> DEFINE c(p) == Cardinality({i \in DOMAIN Flat : Flat[i] = p})
  <2>4. \A p \in Prompts : c(p) \in Nat
    BY <2>1
  <2>5. asked' = [p \in Prompts |-> asked[p] + c(p)]
    BY <2>3
  <2> HIDE DEF c
  <2> QED BY <2>2, <2>4, <2>5
<1>5. TypeOK'
  BY <1>1, <1>2, <1>4 DEF LoopInv, TypeOK
<1>6. PendingFits'
  BY <1>1, <1>3 DEF LoopInv, PendingFits
<1>7. \A p \in Prompts : Len(results'[p]) <= Quota' /\ OwnAnswers(p, results'[p])
  BY <1>1, <1>3 DEF LoopInv
<1> QED BY <1>1, <1>3, <1>5, <1>6, <1>7 DEF LoopInv, Distinct

LEMMA LoopAnswered ==
    ASSUME RetryAssumption, LoopInv, Answered
    PROVE LoopInv'
<1> DEFINE pad == IF kind = "rollout" THEN PadSize(Len(pending) * Copies(round), workers) ELSE 0
<1>1. /\ at = "wait" /\ at' = "take"
      /\ UNCHANGED <<kind, fallback, workers, round, pending, flat, results, last, asked, seen>>
  BY DEF Answered
<1>2. PICK all \in Answers(flat) : got' = Unpad(Gathered(all), pad)
  BY DEF Answered
<1>3. /\ all \in Seq(AnswerType) /\ Len(all) = Len(flat) /\ Gathered(all) = all
      /\ \A k \in 1 .. Len(flat) : all[k].of = flat[k] /\ all[k].q \in Qualities
  BY <1>1, AnswersComeBack
<1>4. /\ TypeOK /\ (kind # "rollout" => workers = 1) /\ round <= MaxRetry /\ pending # <<>>
      /\ flat = Flat /\ PendingFits /\ kind \in {"keyed", "rollout", "base"}
      /\ flat \in Seq(Prompts)
  BY <1>1 DEF LoopInv, TypeOK
<1> DEFINE m == IF kind = "base" THEN Len(flat) ELSE Rows
<1>5. m \in Nat /\ Len(flat) - pad = m /\ m <= Len(flat)
  <2>1. CASE kind = "base"
    <3>1. pad = 0 /\ m = Len(flat)
      BY <2>1
    <3> HIDE DEF pad, m
    <3> QED BY <1>4, <3>1
  <2>2. CASE kind # "base"
    <3>1. kind \in {"keyed", "rollout"} /\ m = Rows
      BY <1>4, <2>2
    <3>2. Rows \in Nat /\ Rows <= Len(Flat)
      BY <1>4, <3>1, PlacesSent
    <3>3. Len(Flat) = Rows + (IF kind = "rollout" THEN PadSize(Rows, workers) ELSE 0)
      BY <1>4, <3>1, PlacesSent
    <3>4. pad = IF kind = "rollout" THEN PadSize(Rows, workers) ELSE 0
      BY DEF Rows
    <3>5. pad \in Nat
      <4>1. workers \in Nat \ {0}
        BY <1>4, Constants
      <4>2. PadSize(Rows, workers) \in 0 .. workers - 1
        BY <3>2, <4>1, PadSizeFacts
      <4> HIDE DEF pad
      <4> QED BY <3>4, <4>1, <4>2
    <3> HIDE DEF pad, m
    <3> QED BY <1>4, <3>1, <3>2, <3>3, <3>4, <3>5
  <2> QED BY <2>1, <2>2
<1> HIDE DEF m, pad
<1> DEFINE w == SubSeq(all, 0 + 1, 0 + m)
<1>6. got' = w
  <2>1. 0 + m = m
    BY <1>5
  <2>2. got' = SubSeq(all, 1, Len(all) - pad)
    BY <1>2, <1>3 DEF Unpad
  <2> QED BY <1>3, <1>5, <2>1, <2>2
<1>7. 0 + m <= Len(all)
  BY <1>3, <1>5
<1>8. w \in Seq(AnswerType)
  BY <1>3, <1>5, <1>7, SliceFacts
<1>9. Len(w) = m
  BY <1>3, <1>5, <1>7, SliceFacts
<1>10. \A j \in 1 .. m : w[j] = all[0 + j]
  BY <1>3, <1>5, <1>7, SliceFacts
<1> HIDE DEF w
<1>11. \A k \in DOMAIN w : w[k].of = flat[k] /\ w[k].q \in Qualities
  <2> TAKE k \in DOMAIN w
  <2>1. k \in 1 .. m /\ k \in 1 .. Len(flat)
    BY <1>3, <1>5, <1>8, <1>9
  <2>2. w[k] = all[k]
    BY <1>10, <2>1
  <2> QED BY <1>3, <2>1, <2>2
<1>12. /\ Flat' = Flat /\ Rows' = Rows /\ Copies(round)' = Copies(round)
       /\ Qualities' = Qualities /\ Quota' = Quota
       /\ \A p, rs : Settled(p, rs)' <=> Settled(p, rs)
  BY <1>1, Same
<1>13. Len(got') = Len(flat') -
         (IF kind' = "rollout" THEN PadSize(Len(pending') * Copies(round)', workers') ELSE 0)
  <2>1. Len(got') = Len(flat) - pad
    BY <1>5, <1>6, <1>9
  <2> QED BY <1>1, <1>12, <2>1 DEF pad
<1>14. TypeOK'
  BY <1>1, <1>4, <1>6, <1>8, <1>13 DEF TypeOK
<1>15. GotFits'
  <2>1. Len(got') = IF kind' = "base" THEN Len(flat') ELSE Rows'
    BY <1>1, <1>6, <1>9, <1>12 DEF m
  <2>2. \A k \in DOMAIN got' : got'[k].of = flat'[k] /\ got'[k].q \in Qualities'
    BY <1>1, <1>6, <1>11, <1>12
  <2> QED BY <2>1, <2>2 DEF GotFits
<1>16. PendingFits'
  BY <1>1, <1>4, <1>12 DEF PendingFits
<1>17. \A p \in Prompts : Len(results'[p]) <= Quota' /\ OwnAnswers(p, results'[p])
  BY <1>1, <1>12 DEF LoopInv
<1> QED BY <1>1, <1>4, <1>12, <1>14, <1>15, <1>16, <1>17 DEF LoopInv, Distinct

LEMMA LoopRaise ==
    ASSUME RetryAssumption, LoopInv, Raise
    PROVE LoopInv'
<1>1. /\ at = "wait" /\ at' = "raised"
      /\ UNCHANGED <<kind, fallback, workers, round, pending, flat, got, results, last, asked, seen>>
  BY DEF Raise
<1>2. Quota' = Quota /\ \A p, rs : Settled(p, rs)' <=> Settled(p, rs)
  BY <1>1, Same
<1>3. TypeOK'
  BY <1>1 DEF LoopInv, TypeOK
<1>4. PendingFits'
  BY <1>1, <1>2 DEF LoopInv, PendingFits
<1>5. \A p \in Prompts : Len(results'[p]) <= Quota' /\ OwnAnswers(p, results'[p])
  BY <1>1, <1>2 DEF LoopInv
<1> QED BY <1>1, <1>3, <1>4, <1>5 DEF LoopInv, Distinct

LEMMA SameKind ==
    ASSUME UNCHANGED kind
    PROVE Quota' = Quota /\ \A p, rs : Settled(p, rs)' <=> Settled(p, rs)
BY DEF Quota, Settled

\* The valid answers of a round to a prompt.
ValidTo(p) == {i \in DOMAIN got : got[i].of = p /\ Valid(got[i])}

LEMMA ValidToFinite ==
    ASSUME got \in Seq(AnswerType), NEW p
    PROVE IsFiniteSet(ValidTo(p)) /\ Cardinality(ValidTo(p)) \in Nat
<1> DEFINE n == Len(got)
<1>1. n \in Nat /\ DOMAIN got = 1 .. n
  OBVIOUS
<1>2. ValidTo(p) \in SUBSET (1 .. n)
  BY <1>1 DEF ValidTo
<1> HIDE DEF n
<1> QED BY <1>1, <1>2, UpToFinite

LEMMA LoopTake ==
    ASSUME RetryAssumption, LoopInv, Take
    PROVE LoopInv'
<1>1. /\ at = "take" /\ at' = "ask" /\ round' = round + 1 /\ flat' = <<>> /\ got' = <<>>
      /\ pending' = Remaining /\ results' = [p \in Prompts |-> Taken(p)]
      /\ last' = (IF kind = "keyed" THEN [p \in Prompts |-> LastRaw(p)] ELSE last)
      /\ UNCHANGED <<kind, fallback, workers, asked>>
  BY DEF Take
<1>2. TypeOK /\ round <= MaxRetry /\ MaxRetry \in Nat /\ workers \in Nat \ {0}
  <2>1. TypeOK /\ round <= MaxRetry /\ (kind # "rollout" => workers = 1)
    BY <1>1 DEF LoopInv
  <2> QED BY <2>1, Constants DEF RetryAssumption
<1>3. /\ Remaining \in Seq(Prompts) /\ Distinct(Remaining)
      /\ \A p \in Prompts : p \in Range(Remaining) <=> ~Settled(p, Taken(p))
  BY <1>1, RemainingFacts
<1>4. \A p \in Prompts : Taken(p) \in Seq(AnswerType) /\ Len(Taken(p)) <= Quota
                           /\ OwnAnswers(p, Taken(p))
  BY <1>1, TakenFacts
<1>5. \A p \in Prompts : last'[p] \in AnswerType /\ (last'[p].q # "bad" => last'[p].of = p)
  <2> TAKE p \in Prompts
  <2>1. CASE kind = "keyed"
    <3>1. last'[p] = LastRaw(p)
      BY <1>1, <2>1
    <3> QED BY <1>1, <2>1, <3>1, LastFacts
  <2>2. CASE kind # "keyed"
    <3>1. last'[p] = last[p]
      BY <1>1, <2>2
    <3> QED BY <3>1 DEF LoopInv, TypeOK
  <2> QED BY <2>1, <2>2
<1>6. last' \in [Prompts -> AnswerType]
  <2>1. last' = [p \in Prompts |-> last'[p]]
    <3>1. last = [p \in Prompts |-> last[p]]
      BY <1>2 DEF TypeOK
    <3>2. CASE kind = "keyed"
      BY <1>1, <3>2
    <3>3. CASE kind # "keyed"
      BY <1>1, <3>1, <3>3
    <3> QED BY <3>2, <3>3
  <2> QED BY <1>5, <2>1
<1>7. seen' \in [Prompts -> Seq(Nat)]
  <2>1. seen' = [p \in Prompts |-> Append(seen[p], Cardinality(ValidTo(p)))]
    BY DEF Take, ValidTo
  <2>2. \A p \in Prompts : seen[p] \in Seq(Nat) /\ Cardinality(ValidTo(p)) \in Nat
    BY <1>2, ValidToFinite DEF TypeOK
  <2>3. \A p \in Prompts : Append(seen[p], Cardinality(ValidTo(p))) \in Seq(Nat)
    BY <2>2
  <2> QED BY <2>1, <2>3
<1>8. TypeOK'
  <2>1. Cardinality(Range(pending')) = Len(pending')
    BY <1>1, <1>3, DistinctSize
  <2>2. Len(flat') % workers' = 0
    <3>1. Len(flat') = 0 /\ workers' = workers
      BY <1>1
    <3> QED BY <1>2, <3>1
  <2>3. round' \in 0 .. (MaxRetry + 1)
    BY <1>1, <1>2 DEF TypeOK
  <2>4. results' \in [Prompts -> Seq(AnswerType)]
    BY <1>1, <1>4
  <2>5. got' \in Seq(AnswerType) /\ flat' \in Seq(Prompts)
    BY <1>1
  <2> QED BY <1>1, <1>2, <1>3, <1>6, <1>7, <2>1, <2>2, <2>3, <2>4, <2>5 DEF TypeOK
<1>9. Quota' = Quota /\ \A p, rs : Settled(p, rs)' <=> Settled(p, rs)
  BY <1>1, SameKind
<1>10. PendingFits'
  BY <1>1, <1>3, <1>9 DEF PendingFits
<1>11. \A p \in Prompts : Len(results'[p]) <= Quota' /\ OwnAnswers(p, results'[p])
  BY <1>1, <1>4, <1>9
<1>12. Distinct(pending')
  BY <1>1, <1>3
<1>13. (kind' # "rollout" => workers' = 1) /\ (fallback' => kind' = "keyed")
  BY <1>1 DEF LoopInv
<1> QED BY <1>1, <1>5, <1>8, <1>10, <1>11, <1>12, <1>13 DEF LoopInv, Distinct

LEMMA LoopSalvage ==
    ASSUME RetryAssumption, LoopInv, Salvage
    PROVE LoopInv'
<1>1. /\ at = "ask" /\ at' = "over"
      /\ results' = [p \in Prompts |->
           IF fallback /\ p \in Range(pending) /\ last[p].q \in {"valid", "lenient"}
           THEN <<last[p]>> ELSE results[p]]
      /\ UNCHANGED <<kind, fallback, workers, round, pending, flat, got, last, asked, seen>>
  BY DEF Salvage
<1>2. Quota' = Quota
  BY <1>1, SameKind
<1>3. ASSUME NEW p \in Prompts
      PROVE /\ results'[p] \in Seq(AnswerType)
            /\ Len(results'[p]) <= Quota' /\ OwnAnswers(p, results'[p])
  <2> DEFINE x == last[p]
  <2>1. CASE fallback /\ p \in Range(pending) /\ last[p].q \in {"valid", "lenient"}
    <3>1. results'[p] = <<x>>
      BY <1>1, <2>1
    <3>2. x \in AnswerType /\ x.q # "bad" /\ x.of = p /\ Quota = 1
      BY <2>1 DEF LoopInv, TypeOK, Quota
    <3> HIDE DEF x
    <3> QED BY <1>2, <3>1, <3>2 DEF OwnAnswers
  <2>2. CASE ~(fallback /\ p \in Range(pending) /\ last[p].q \in {"valid", "lenient"})
    <3>1. results'[p] = results[p]
      BY <1>1, <2>2
    <3> QED BY <1>2, <3>1 DEF LoopInv, TypeOK
  <2> QED BY <2>1, <2>2
<1>4. results' \in [Prompts -> Seq(AnswerType)]
  <2>1. results' = [p \in Prompts |-> results'[p]]
    BY <1>1
  <2> QED BY <1>3, <2>1
<1>5. TypeOK'
  BY <1>1, <1>4 DEF LoopInv, TypeOK
<1> QED BY <1>1, <1>3, <1>5 DEF LoopInv, Distinct

LEMMA LoopNext ==
    ASSUME RetryAssumption, LoopInv, [Next]_vars
    PROVE LoopInv'
<1>1. CASE UNCHANGED vars
  <2>1. /\ UNCHANGED <<kind, fallback, workers, round, pending, flat, got, results, last, asked, seen>>
        /\ at' = at
    BY <1>1 DEF vars
  <2>2. /\ Flat' = Flat /\ Rows' = Rows /\ Copies(round)' = Copies(round)
        /\ Qualities' = Qualities /\ Quota' = Quota
        /\ \A p, rs : Settled(p, rs)' <=> Settled(p, rs)
    BY <2>1, Same
  <2>3. TypeOK'
    BY <2>1, <2>2 DEF LoopInv, TypeOK
  <2>4. (at # "over" => PendingFits') /\ (at = "take" => GotFits')
    BY <2>1, <2>2 DEF LoopInv, PendingFits, GotFits
  <2>5. \A p \in Prompts : Len(results'[p]) <= Quota' /\ OwnAnswers(p, results'[p])
    BY <2>1, <2>2 DEF LoopInv
  <2> QED BY <2>1, <2>2, <2>3, <2>4, <2>5 DEF LoopInv, Distinct
<1> QED BY <1>1, LoopAsk, LoopAnswered, LoopRaise, LoopTake, LoopSalvage DEF Next, Terminated

LEMMA AlwaysLoopInv == Spec => []LoopInv
<1>1. Init => LoopInv
  BY LoopInit, RetryAssumption
<1>2. LoopInv /\ [Next]_vars => LoopInv'
  BY LoopNext, RetryAssumption
<1> QED BY <1>1, <1>2, PTL DEF Spec

-----------------------------------------------------------------------------
(* What the runs check.                                                    *)

\* Every variable of the retry loops keeps its type: what is sent fills the
\* workers, what comes back has an answer per row sent, and no prompt is
\* pending twice.
THEOREM TypesHold == Spec => []TypeOK
<1>1. LoopInv => TypeOK
  BY DEF LoopInv
<1> QED BY <1>1, AlwaysLoopInv, PTL

\* A prompt that has what it needs is not sent again, whatever the others of
\* its call still lack: the lists the loops send are for what is pending only.
THEOREM NeverAskedAgain == Spec => SettledNotAsked
<1>1. ASSUME LoopInv, [Next]_vars
      PROVE [\A p \in Prompts : Settled(p, results[p]) => asked'[p] = asked[p]]_vars
  <2>1. CASE Ask
    <3> SUFFICES ASSUME NEW p \in Prompts, Settled(p, results[p])
                 PROVE asked'[p] = asked[p]
      OBVIOUS
    <3>1. /\ at = "ask" /\ pending # <<>>
          /\ asked' = [q \in Prompts |->
               asked[q] + Cardinality({i \in DOMAIN Flat : Flat[i] = q})]
      BY <2>1 DEF Ask
    <3>2. p \notin Range(pending)
      BY <1>1, <3>1 DEF LoopInv, PendingFits
    <3>3. {i \in DOMAIN Flat : Flat[i] = p} = {}
      BY <1>1, <3>1, <3>2, FlatFacts, RetryAssumption
    <3>4. asked'[p] = asked[p] + 0
      BY <3>1, <3>3, FS_EmptySet
    <3>5. asked[p] \in Nat
      BY <1>1 DEF LoopInv, TypeOK
    <3> QED BY <3>4, <3>5
  <2>2. CASE asked' = asked
    BY <2>2
  <2>3. [Next]_vars => Ask \/ asked' = asked
    BY DEF Next, vars, Answered, Raise, Take, Salvage, Terminated
  <2> QED BY <1>1, <2>1, <2>2, <2>3
<1> QED BY <1>1, AlwaysLoopInv, PTL DEF Spec, SettledNotAsked

\* The loops implement the pool their callers are promised: in every step each
\* prompt's answers are continued by answers of its own up to the quota, and
\* nothing moves once the loop is over.
THEOREM PoolImplemented == Spec => ImplementsPool
<1> DEFINE quota == IF kind = "keyed" THEN 1 ELSE N
           closed == at \in {"over", "raised"}
<1>1. ASSUME Init PROVE Pool!Init
  <2>1. quota \in Nat
    BY RetryAssumption DEF RetryAssumption
  <2>2. results = [p \in Prompts |-> <<>>] /\ at = "ask"
    BY <1>1 DEF Init
  <2> QED BY <2>1, <2>2 DEF Pool!Init
<1>2. ASSUME LoopInv, LoopInv', UNCHANGED kind, ~closed,
             DOMAIN results' = Prompts, closed' \in BOOLEAN,
             \A p \in Prompts : StartsWith(results'[p], results[p])
      PROVE Pool!Give
  <2>1. quota' = quota /\ Quota' = quota
    BY <1>2 DEF Quota
  <2>2. \A p \in Prompts : Len(results'[p]) <= quota
    BY <1>2, <2>1 DEF LoopInv
  <2>3. \A p \in Prompts : \A i \in DOMAIN results'[p] :
          results'[p][i].of = p /\ results'[p][i].q # "bad"
    BY <1>2 DEF LoopInv, OwnAnswers
  <2> HIDE DEF quota
  <2>4. \A p \in Prompts : /\ Len(results[p]) <= Len(results'[p])
                           /\ SubSeq(results'[p], 1, Len(results[p])) = results[p]
    BY <1>2 DEF StartsWith
  <2> QED BY <1>2, <2>1, <2>2, <2>3, <2>4 DEF Pool!Give, Pool!Extends, Pool!Acceptable, quota
<1>3. ASSUME LoopInv, LoopInv', [Next]_vars
      PROVE [Pool!Give]_<<results, quota, closed>>
  <2>1. LoopInv => DOMAIN results = Prompts /\ \A p \in Prompts : results[p] \in Seq(AnswerType)
    BY DEF LoopInv, TypeOK
  <2>2. CASE Take
    <3>1. at = "take" /\ at' = "ask" /\ results' = [p \in Prompts |-> Taken(p)] /\ kind' = kind
      BY <2>2 DEF Take
    <3>2. \A p \in Prompts : StartsWith(results'[p], results[p])
      BY <1>3, <3>1, TakenFacts, RetryAssumption
    <3> QED BY <1>2, <1>3, <3>1, <3>2
  <2>3. CASE Raise
    <3>1. at = "wait" /\ at' = "raised" /\ results' = results /\ kind' = kind
      BY <2>3 DEF Raise
    <3>2. \A p \in Prompts : StartsWith(results[p], results[p])
      BY <1>3, <2>1, StartsWithFacts
    <3> QED BY <1>2, <1>3, <2>1, <3>1, <3>2
  <2>4. CASE Salvage
    <3>1. /\ at = "ask" /\ at' = "over" /\ kind' = kind
          /\ results' = [p \in Prompts |->
               IF fallback /\ p \in Range(pending) /\ last[p].q \in {"valid", "lenient"}
               THEN <<last[p]>> ELSE results[p]]
      BY <2>4 DEF Salvage
    <3>2. ASSUME NEW p \in Prompts PROVE StartsWith(results'[p], results[p])
      <4>1. CASE fallback /\ p \in Range(pending) /\ last[p].q \in {"valid", "lenient"}
        <5>1. results[p] = <<>>
          BY <1>3, <3>1, <4>1 DEF LoopInv, PendingFits, Settled
        <5>2. results'[p] = <<last[p]>> /\ <<last[p]>> \in Seq(AnswerType)
          BY <1>3, <3>1, <4>1 DEF LoopInv, TypeOK
        <5> QED BY <5>1, <5>2, StartsWithFacts
      <4>2. CASE ~(fallback /\ p \in Range(pending) /\ last[p].q \in {"valid", "lenient"})
        <5>1. results'[p] = results[p]
          BY <3>1, <4>2
        <5> QED BY <1>3, <2>1, <5>1, StartsWithFacts
      <4> QED BY <4>1, <4>2
    <3>3. DOMAIN results' = Prompts
      BY <3>1
    <3> QED BY <1>2, <1>3, <3>1, <3>2, <3>3
  <2>5. CASE UNCHANGED <<kind, results>> /\ (closed' <=> closed)
    BY <2>5
  <2>6. [Next]_vars =>
          Take \/ Raise \/ Salvage \/ (UNCHANGED <<kind, results>> /\ (closed' <=> closed))
    BY DEF Next, vars, Ask, Answered, Terminated
  <2> QED BY <1>3, <2>2, <2>3, <2>4, <2>5, <2>6
<1> QED BY <1>1, <1>3, AlwaysLoopInv, PTL DEF Spec, ImplementsPool, Pool!Spec

-----------------------------------------------------------------------------
(* What the engine delivered and what the prompts got.                     *)

KeyedSeen(p) ==
    /\ at # "over" /\ results[p] = <<>> => \A r \in DOMAIN seen[p] : seen[p][r] = 0
    /\ at # "over" /\ results[p] # <<>> => Valid(results[p][1])
    /\ at = "over" /\ (\E r \in DOMAIN seen[p] : seen[p][r] > 0)
         => results[p] # <<>> /\ Valid(results[p][1])

RolloutSeen(p) ==
    /\ results[p] = <<>> => \A r \in DOMAIN seen[p] : seen[p][r] < MinValid
    /\ results[p] # <<>> => Len(results[p]) >= MinValid

BaseSeen(p) ==
    /\ Len(results[p]) = Total(seen[p])
    /\ at = "over" /\ Len(results[p]) < N => round = MaxRetry + 1

\* The inductive strengthening of NothingWasted.
SeenInv ==
    \A p \in Prompts : /\ kind = "keyed" => KeyedSeen(p)
                       /\ kind = "rollout" => RolloutSeen(p)
                       /\ kind = "base" => BaseSeen(p)

\* Every valid answer to a pending prompt is in the slice of that prompt.
LEMMA ValidInSlice ==
    ASSUME RetryAssumption, LoopInv, at = "take", kind \in {"keyed", "rollout"},
           NEW p \in Range(pending), NEW k \in 1 .. Len(pending), pending[k] = p
    PROVE \A i \in ValidTo(p) : /\ i - (k - 1) * Copies(round) \in 1 .. Copies(round)
                                /\ Valid(SliceOf(k)[i - (k - 1) * Copies(round)])
<1> DEFINE c == Copies(round)
           a == (k - 1) * c
           s == SliceOf(k)
<1>1. /\ TypeOK /\ (kind # "rollout" => workers = 1) /\ pending # <<>> /\ flat = Flat
      /\ GotFits /\ Distinct(pending)
  BY DEF LoopInv
<1>2. got \in Seq(AnswerType) /\ pending \in Seq(Prompts)
  BY <1>1 DEF TypeOK
<1>3. /\ Len(got) = Rows
      /\ \A i \in DOMAIN got : got[i].of = flat[i]
  BY <1>1 DEF GotFits
<1>4. \A i \in 1 .. Rows : \E b \in 1 .. Len(pending), j \in 1 .. c :
        i = (b - 1) * c + j /\ Flat[i] = pending[b]
  BY <1>1, PlacesSent
<1>5. \A j \in 1 .. c : s[j] = got[a + j]
  BY SliceIs
<1>6. c \in Nat /\ a \in Int
  <2>1. c \in Nat
    BY SliceIs
  <2>2. k - 1 \in Int
    OBVIOUS
  <2> HIDE DEF c
  <2> QED BY <2>1, <2>2
<1>7. \A b \in 1 .. Len(pending) : pending[b] = p => b = k
  BY <1>1, <1>2 DEF Distinct
<1> HIDE DEF c, s, Rows
<1>8. ASSUME NEW i \in ValidTo(p) PROVE \E j \in 1 .. c : i = a + j
  <2>1. i \in DOMAIN got /\ got[i].of = p /\ Valid(got[i])
    BY DEF ValidTo
  <2>2. i \in 1 .. Rows
    BY <1>2, <1>3, <2>1
  <2>3. PICK b \in 1 .. Len(pending), j \in 1 .. c : i = (b - 1) * c + j /\ Flat[i] = pending[b]
    BY <1>4, <2>2
  <2>4. b = k
    BY <1>1, <1>3, <1>7, <2>1, <2>3
  <2> QED BY <2>3, <2>4
<1> HIDE DEF a
<1>9. ASSUME NEW i \in ValidTo(p) PROVE i - a \in 1 .. c /\ Valid(s[i - a])
  <2>1. PICK j \in 1 .. c : i = a + j
    BY <1>8
  <2>2. i - a = j
    BY <1>6, <2>1
  <2>3. Valid(got[i])
    BY DEF ValidTo
  <2> QED BY <1>5, <2>1, <2>2, <2>3
<1> QED BY <1>9 DEF a, c, s

\* A round whose answers to a prompt are good enough settles it.
LEMMA GoodRoundSettles ==
    ASSUME RetryAssumption, LoopInv, at = "take", NEW p \in Range(pending), Taken(p) = <<>>
    PROVE /\ kind = "keyed" => Cardinality(ValidTo(p)) = 0
          /\ kind = "rollout" => Cardinality(ValidTo(p)) < MinValid
<1> DEFINE k == CHOOSE k \in DOMAIN pending : pending[k] = p
           s == SliceOf(k)
           c == Copies(round)
           a == (k - 1) * c
<1>1. Distinct(pending) /\ pending \in Seq(Prompts) /\ got \in Seq(AnswerType)
      /\ MinValid \in Nat
  BY DEF LoopInv, TypeOK, RetryAssumption
<1>2. k \in 1 .. Len(pending) /\ pending[k] = p
  BY <1>1, PlaceOf
<1>3. IsFiniteSet(ValidTo(p)) /\ Cardinality(ValidTo(p)) \in Nat
  BY <1>1, ValidToFinite
<1>4. ASSUME kind # "base"
      PROVE Taken(p) = IF kind = "rollout" THEN Rollouts(s)
                       ELSE IF Valid(Chosen(s)) THEN <<Chosen(s)>> ELSE <<>>
  BY <1>4 DEF Taken
<1> HIDE DEF k
<1>5. ASSUME kind \in {"keyed", "rollout"}
      PROVE s \in Seq(AnswerType) /\ Len(s) = c /\ c \in Nat \ {0}
  BY <1>2, <1>5, SliceIs
<1>6. ASSUME kind \in {"keyed", "rollout"}
      PROVE \A i \in ValidTo(p) : i - a \in 1 .. c /\ Valid(s[i - a])
  BY <1>2, <1>6, ValidInSlice
<1>7. ASSUME kind = "keyed" PROVE Cardinality(ValidTo(p)) = 0
  <2> HIDE DEF s, a, c
  <2>1. s \in Seq(AnswerType) /\ Len(s) = c /\ c \in Nat \ {0}
    BY <1>5, <1>7
  <2>2. \A i \in ValidTo(p) : i - a \in 1 .. Len(s) /\ Valid(s[i - a])
    BY <1>6, <1>7, <2>1
  <2>3. Taken(p) = IF Valid(Chosen(s)) THEN <<Chosen(s)>> ELSE <<>>
    BY <1>4, <1>7
  <2>4. ~Valid(Chosen(s))
    BY <2>3
  <2>5. (\E i \in 1 .. Len(s) : Valid(s[i])) => Valid(Chosen(s))
    BY <2>1, ChosenFacts
  <2>6. ValidTo(p) = {}
    BY <2>2, <2>4, <2>5
  <2> QED BY <2>6, FS_EmptySet
<1>8. ASSUME kind = "rollout" PROVE Cardinality(ValidTo(p)) < MinValid
  <2> DEFINE V == {j \in DOMAIN s : Valid(s[j])}
             D == ValidTo(p)
             f == [i \in D |-> i - a]
  <2>1. s \in Seq(AnswerType) /\ Len(s) = c /\ c \in Nat \ {0}
    BY <1>5, <1>8
  <2>2. \A i \in D : i - a \in 1 .. c /\ Valid(s[i - a])
    BY <1>6, <1>8
  <2>3. Taken(p) = Rollouts(s)
    BY <1>4, <1>8
  <2>4. a \in Int /\ \A i \in D : i \in Int
    <3>1. k - 1 \in Int /\ c \in Int
      BY <1>2, <2>1
    <3>2. D \subseteq 1 .. Len(got)
      BY <1>1 DEF ValidTo
    <3> HIDE DEF c, D
    <3> QED BY <3>1, <3>2
  <2> HIDE DEF s, a, c
  <2>5. V \in SUBSET (1 .. c) /\ \A j \in 1 .. c : Valid(s[j]) => j \in V
    BY <2>1
  <2>6. Cardinality(V) >= MinValid => Rollouts(s) # <<>>
    BY <2>1, RolloutsFacts
  <2> HIDE DEF V, D
  <2>7. f \in [D -> V] /\ \A i, j \in D : f[i] = f[j] => i = j
    BY <2>2, <2>4, <2>5
  <2>8. IsFiniteSet(V) /\ Cardinality(V) \in Nat
    BY <2>1, <2>5, UpToFinite
  <2> HIDE DEF f
  <2>9. f \in Injection(D, V)
    BY <2>7 DEF Injection, IsInjective
  <2>10. Cardinality(D) <= Cardinality(V)
    BY <2>8, <2>9, FS_Injection
  <2>11. Cardinality(D) \in Nat
    BY <1>3 DEF D
  <2>12. ~(Cardinality(V) >= MinValid)
    BY <2>3, <2>6
  <2>13. Cardinality(D) < MinValid
    BY <1>1, <2>8, <2>10, <2>11, <2>12
  <2> QED BY <2>13 DEF D
<1> QED BY <1>7, <1>8

LEMMA SeenInit ==
    ASSUME RetryAssumption, Init
    PROVE SeenInv
<1> SUFFICES ASSUME NEW p \in Prompts
             PROVE /\ kind = "keyed" => KeyedSeen(p)
                   /\ kind = "rollout" => RolloutSeen(p)
                   /\ kind = "base" => BaseSeen(p)
  BY DEF SeenInv
<1>1. results[p] = <<>> /\ seen[p] = <<>> /\ at = "ask"
  BY DEF Init
<1>2. Total(<<>>) = 0
  <2>1. seen[p] \in Seq(Nat) /\ 0 \in Nat
    BY <1>1
  <2> QED BY <2>1, TotalFacts
<1> QED BY <1>1, <1>2 DEF KeyedSeen, RolloutSeen, BaseSeen

LEMMA SeenTake ==
    ASSUME RetryAssumption, LoopInv, SeenInv, Take
    PROVE SeenInv'
<1>1. /\ at = "take" /\ at' = "ask" /\ results' = [p \in Prompts |-> Taken(p)]
      /\ kind' = kind
      /\ seen' = [p \in Prompts |-> Append(seen[p], Cardinality(ValidTo(p)))]
  BY DEF Take, ValidTo
<1>2. TypeOK /\ PendingFits /\ MinValid \in Nat \ {0}
  BY <1>1 DEF LoopInv, RetryAssumption
<1> SUFFICES ASSUME NEW p \in Prompts
             PROVE /\ kind = "keyed" => KeyedSeen(p)'
                   /\ kind = "rollout" => RolloutSeen(p)'
                   /\ kind = "base" => BaseSeen(p)'
  BY <1>1 DEF SeenInv
<1> DEFINE s == seen[p]
           x == Cardinality(ValidTo(p))
           t == Taken(p)
           r == results[p]
<1>3. s \in Seq(Nat) /\ x \in Nat /\ r \in Seq(AnswerType) /\ t \in Seq(AnswerType)
  BY <1>1, <1>2, ValidToFinite, TakenFacts DEF TypeOK
<1>4. results'[p] = t /\ seen'[p] = Append(s, x)
  BY <1>1
<1>5. p \notin Range(pending) /\ kind # "base" => t = r /\ r # <<>>
  BY <1>2 DEF Taken, PendingFits, Settled
<1>6. p \in Range(pending) /\ kind # "base" => r = <<>>
  BY <1>2 DEF PendingFits, Settled
<1>7. p \in Range(pending) /\ t = <<>> =>
        (kind = "keyed" => x = 0) /\ (kind = "rollout" => x < MinValid)
  BY <1>1, GoodRoundSettles
<1>8. /\ kind = "keyed" => (r = <<>> => \A i \in DOMAIN s : s[i] = 0)
                             /\ (r # <<>> => Valid(r[1]))
      /\ kind = "rollout" => (r = <<>> => \A i \in DOMAIN s : s[i] < MinValid)
                               /\ (r # <<>> => Len(r) >= MinValid)
      /\ kind = "base" => Len(r) = Total(s)
  BY <1>1 DEF SeenInv, KeyedSeen, RolloutSeen, BaseSeen
<1>9. p \in Range(pending) /\ t # <<>> =>
        (kind = "keyed" => Valid(t[1])) /\ (kind = "rollout" => Len(t) >= MinValid)
  <2> SUFFICES ASSUME p \in Range(pending), t # <<>>
               PROVE (kind = "keyed" => Valid(t[1])) /\ (kind = "rollout" => Len(t) >= MinValid)
    OBVIOUS
  <2> DEFINE k == CHOOSE k \in DOMAIN pending : pending[k] = p
             u == SliceOf(k)
  <2>1. kind # "base" => t = IF kind = "rollout" THEN Rollouts(u)
                              ELSE IF Valid(Chosen(u)) THEN <<Chosen(u)>> ELSE <<>>
    BY DEF Taken
  <2>2. Distinct(pending) /\ pending \in Seq(Prompts)
    BY <1>2 DEF LoopInv, TypeOK
  <2>3. k \in 1 .. Len(pending)
    BY <2>2, PlaceOf
  <2> HIDE DEF k
  <2>4. kind \in {"keyed", "rollout"} => u \in Seq(AnswerType)
    BY <1>1, <2>3, SliceIs
  <2> HIDE DEF t, u
  <2>5. ASSUME kind = "keyed" PROVE Valid(t[1])
    BY <2>1, <2>5
  <2>6. ASSUME kind = "rollout" PROVE Len(t) >= MinValid
    <3>1. t = Rollouts(u) /\ u \in Seq(AnswerType)
      BY <2>1, <2>4, <2>6
    <3> QED BY <3>1, RolloutsFacts
  <2> QED BY <2>5, <2>6
<1>10. Append(s, x) \in Seq(Nat) /\ DOMAIN Append(s, x) = 1 .. Len(s) + 1
       /\ Append(s, x)[Len(s) + 1] = x
       /\ (\A i \in 1 .. Len(s) : Append(s, x)[i] = s[i])
       /\ DOMAIN s = 1 .. Len(s) /\ Len(s) \in Nat
  BY <1>3
<1>11. Total(Append(s, x)) = Total(s) + x
  BY <1>3, TotalFacts
<1>12. kind = "base" => Len(t) = Len(r) + x
  <2> HAVE kind = "base"
  <2>1. t = r \o AnswersFor(p)
    BY DEF Taken
  <2>2. AnswersFor(p) \in Seq(AnswerType) /\ Len(AnswersFor(p)) = x
    BY <1>1, AnswersForFacts DEF ValidTo
  <2> DEFINE a == AnswersFor(p)
  <2>3. t = r \o a /\ a \in Seq(AnswerType) /\ Len(a) = x
    BY <2>1, <2>2
  <2> HIDE DEF s, x, t, r, a
  <2>4. Len(r \o a) = Len(r) + Len(a)
    <3>1. r \in Seq(AnswerType) /\ a \in Seq(AnswerType)
      BY <1>3, <2>3
    <3> QED BY <3>1
  <2> QED BY <2>3, <2>4
<1> HIDE DEF s, x, t, r
<1>13. ASSUME t = <<>>, kind = "keyed" PROVE \A i \in DOMAIN Append(s, x) : Append(s, x)[i] = 0
  BY <1>5, <1>6, <1>7, <1>8, <1>10, <1>13
<1>14. ASSUME t = <<>>, kind = "rollout"
       PROVE \A i \in DOMAIN Append(s, x) : Append(s, x)[i] < MinValid
  BY <1>5, <1>6, <1>7, <1>8, <1>10, <1>14
<1>15. kind = "keyed" => KeyedSeen(p)'
  BY <1>1, <1>4, <1>5, <1>8, <1>9, <1>13 DEF KeyedSeen, Valid
<1>16. kind = "rollout" => RolloutSeen(p)'
  BY <1>1, <1>4, <1>5, <1>8, <1>9, <1>14 DEF RolloutSeen
<1>17. kind = "base" => BaseSeen(p)'
  <2> HAVE kind = "base"
  <2>1. Len(t) = Total(Append(s, x))
    BY <1>8, <1>11, <1>12
  <2> QED BY <1>1, <1>4, <2>1 DEF BaseSeen, Total
<1> QED BY <1>15, <1>16, <1>17

LEMMA SeenSalvage ==
    ASSUME RetryAssumption, LoopInv, SeenInv, Salvage
    PROVE SeenInv'
<1>1. /\ at = "ask" /\ at' = "over" /\ (round > MaxRetry \/ pending = <<>>)
      /\ results' = [p \in Prompts |->
           IF fallback /\ p \in Range(pending) /\ last[p].q \in {"valid", "lenient"}
           THEN <<last[p]>> ELSE results[p]]
      /\ UNCHANGED <<kind, round, seen>>
  BY DEF Salvage
<1>2. TypeOK /\ PendingFits /\ (fallback => kind = "keyed") /\ MaxRetry \in Nat /\ N \in Nat
  BY <1>1 DEF LoopInv, RetryAssumption
<1> SUFFICES ASSUME NEW p \in Prompts
             PROVE /\ kind = "keyed" => KeyedSeen(p)'
                   /\ kind = "rollout" => RolloutSeen(p)'
                   /\ kind = "base" => BaseSeen(p)'
  BY <1>1 DEF SeenInv
<1>3. seen[p] \in Seq(Nat) /\ results[p] \in Seq(AnswerType)
  BY <1>2 DEF TypeOK
<1>4. kind = "keyed" => KeyedSeen(p)'
  <2> HAVE kind = "keyed"
  <2>1. /\ results[p] = <<>> => \A r \in DOMAIN seen[p] : seen[p][r] = 0
        /\ results[p] # <<>> => Valid(results[p][1])
    BY <1>1 DEF SeenInv, KeyedSeen
  <2>2. results[p] # <<>> => results'[p] = results[p]
    BY <1>1, <1>2 DEF PendingFits, Settled
  <2>3. results[p] = <<>> => ~ \E r \in DOMAIN seen[p] : seen[p][r] > 0
    BY <2>1
  <2> QED BY <1>1, <2>1, <2>2, <2>3 DEF KeyedSeen, Valid
<1>5. kind # "keyed" => results'[p] = results[p]
  BY <1>1, <1>2
<1>6. kind = "rollout" => RolloutSeen(p)'
  BY <1>1, <1>5 DEF SeenInv, RolloutSeen
<1>7. kind = "base" => BaseSeen(p)'
  <2> HAVE kind = "base"
  <2>1. Len(results[p]) = Total(seen[p])
    BY DEF SeenInv, BaseSeen
  <2>2. Len(results[p]) < N => round = MaxRetry + 1
    <3> HAVE Len(results[p]) < N
    <3>1. p \in Range(pending)
      BY <1>2, <1>3 DEF PendingFits, Settled
    <3>2. pending # <<>>
      BY <3>1 DEF Range
    <3>3. round \in 0 .. (MaxRetry + 1)
      BY <1>2 DEF TypeOK
    <3> QED BY <1>1, <1>2, <3>2, <3>3
  <2>3. Total(seen[p])' = Total(seen[p])
    BY <1>1 DEF Total
  <2> QED BY <1>1, <1>5, <2>1, <2>2, <2>3 DEF BaseSeen
<1> QED BY <1>4, <1>6, <1>7

LEMMA SeenNext ==
    ASSUME RetryAssumption, LoopInv, SeenInv, [Next]_vars
    PROVE SeenInv'
<1>1. CASE Ask \/ Answered \/ Raise
  <2>1. at # "over" /\ at' # "over" /\ UNCHANGED <<kind, results, seen>>
    BY <1>1 DEF Ask, Answered, Raise
  <2>2. \A p \in Prompts : Total(seen[p])' = Total(seen[p])
    BY <2>1 DEF Total
  <2> QED BY <2>1, <2>2 DEF SeenInv, KeyedSeen, RolloutSeen, BaseSeen
<1>2. CASE UNCHANGED vars
  <2>1. UNCHANGED <<kind, at, results, seen, round>>
    BY <1>2 DEF vars
  <2>2. \A p \in Prompts : Total(seen[p])' = Total(seen[p])
    BY <2>1 DEF Total
  <2> QED BY <2>1, <2>2 DEF SeenInv, KeyedSeen, RolloutSeen, BaseSeen
<1> QED BY <1>1, <1>2, SeenTake, SeenSalvage DEF Next, Terminated

\* Nothing the engine delivered is given up: at the end a prompt without an
\* output had no round with one that parses, one without rollouts no round with
\* min_valid of them, and one short of base answers has every valid answer that
\* came and had all its rounds.
THEOREM NothingIsWasted == Spec => []NothingWasted
<1>1. Init => LoopInv /\ SeenInv
  BY LoopInit, SeenInit, RetryAssumption
<1>2. LoopInv /\ SeenInv /\ [Next]_vars => (LoopInv /\ SeenInv)'
  BY LoopNext, SeenNext, RetryAssumption
<1>3. LoopInv /\ SeenInv => NothingWasted
  <2> SUFFICES ASSUME LoopInv, SeenInv, at = "over", NEW p \in Prompts
               PROVE CASE kind = "keyed"   -> (\E r \in DOMAIN seen[p] : seen[p][r] > 0)
                                                => results[p] # <<>> /\ Valid(results[p][1])
                       [] kind = "rollout" -> (\E r \in DOMAIN seen[p] : seen[p][r] >= MinValid)
                                                => Len(results[p]) >= MinValid
                       [] kind = "base"    -> Len(results[p]) < N
                                                => /\ Len(results[p]) = Total(seen[p])
                                                   /\ round = MaxRetry + 1
    BY DEF NothingWasted
  <2>1. kind \in {"keyed", "rollout", "base"} /\ seen[p] \in Seq(Nat) /\ MinValid \in Nat
    BY RetryAssumption DEF LoopInv, TypeOK, RetryAssumption
  <2>2. \A r \in DOMAIN seen[p] : seen[p][r] \in Nat
    BY <2>1
  <2>3. CASE kind = "keyed"
    BY <2>3 DEF SeenInv, KeyedSeen
  <2>4. CASE kind = "rollout"
    BY <2>1, <2>2, <2>4 DEF SeenInv, RolloutSeen
  <2>5. CASE kind = "base"
    BY <2>5 DEF SeenInv, BaseSeen
  <2> QED BY <2>1, <2>3, <2>4, <2>5
<1> QED BY <1>1, <1>2, <1>3, PTL DEF Spec

=============================================================================
