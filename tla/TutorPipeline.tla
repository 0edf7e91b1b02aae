---------------------------- MODULE TutorPipeline ----------------------------
(***************************************************************************)
(* The generation pipeline of OnlineDataGenerator: what one call of        *)
(* modify_batch (from modify_dataset_epoch or from a training step) makes  *)
(* of the instructions and rubrics AdaptiveDataset holds.                  *)
(*                                                                         *)
(* A call reads the rows, lets the policy answer them, has the generator   *)
(* judge, constrain, rewrite or evolve them according to the mode, and     *)
(* writes prompt and rubrics back together.  Every answer of a model may   *)
(* fail after all retries, row by row.                                     *)
(*                                                                         *)
(* Texts are abstracted to their origin and length, a constraint and its   *)
(* criteria to the number of the call that made them.                      *)
(***************************************************************************)
EXTENDS Integers, Sequences, FiniteSets

CONSTANTS
    Rows,          \* rows of the training set, each with an offline rubric
    Modes,         \* the values of data_generator.mode a process may run with
    MaySwitch,     \* whether a restart may change the mode
    Schedule,      \* data_generator.schedule
    Batches,       \* the sets of rows a step of the step schedule can see
    MaxLen,        \* data.max_prompt_length, 0 when null
    TextLens,      \* lengths of rewritten and evolved instructions
    RandomPercent, \* data_generator.constraint_random_ratio, in percent
    EvaTopPercent, \* eva_top_k_ratio, in percent
    EvaMixPercent, \* eva_evolved_mix_ratio, in percent
    Evolutions,    \* eva_evolutions_per_prompt
    MaxVisits      \* bound on the number of calls

AppendModes == {"constraint", "constraint_wrong_adaptive", "constraint_no_adaptive",
                "constraint_no_adaptive_random", "constraint_metric"}
ResetModes == {"constraint_reset"}
ConstraintModes == AppendModes \cup ResetModes
MetricModes == {"constraint_metric"}
RandomModes == {"constraint_no_adaptive_random"}
NoRolloutModes == {"constraint_no_adaptive", "constraint_no_adaptive_random"}
RewriteModes == {"constraint_rewrite"}
AdaptiveModes == {"adaptive_conditional_rubric"}
EvaModes == {"eva_baseline_colocated"}
ValidModes == ConstraintModes \cup RewriteModes \cup AdaptiveModes \cup EvaModes

TutorAssumption ==
    /\ IsFiniteSet(Rows)
    /\ Modes \subseteq ValidModes
    /\ MaySwitch \in BOOLEAN
    /\ Schedule \in {"epoch", "step"}
    /\ Batches \subseteq SUBSET Rows
    /\ MaxLen \in Nat
    /\ TextLens \subseteq Nat
    /\ {RandomPercent, EvaTopPercent, EvaMixPercent} \subseteq 0 .. 100
    /\ Evolutions \in Nat
    /\ MaxVisits \in Nat

ASSUME TutorAssumption

VARIABLES
    pc,      \* the stage modify_batch is in
    mode,    \* data_generator.mode of this process
    active,  \* rows not dropped
    store,   \* prompt and rubrics of each row, as __getitem__ shows them
    visit,   \* number of calls so far
    work,    \* the rows of the current call, as it has changed them so far
    failed,  \* rows of the call without two base answers
    chosen   \* rows the call added a constraint to, selected or evolved

vars == <<pc, mode, active, store, visit, work, failed, chosen>>

-----------------------------------------------------------------------------
(* Texts and rows.                                                         *)

NoRubric == <<>>
Original(r) == <<0, r, 1>>

\* A row as the parquet files give it: the original prompt and the general
\* rubric the offline script wrote for it.
SeededRow(r) ==
    [text |-> Original(r), len |-> 1, cs |-> <<>>,
     general |-> Original(r), constraint |-> <<>>, adaptive |-> <<>>]

Length(row) == row.len + Len(row.cs)

NeverOverlong(n) == FALSE \* mutant of Overlong
Overlong(n) == MaxLen > 0 /\ n > MaxLen

\* The rounding of Python: halves go to the even neighbour.
Share(n, percent) ==
    LET q == n * percent
    IN  IF q % 100 = 50 /\ (q \div 100) % 2 = 0 THEN q \div 100
                                                ELSE (q + 50) \div 100

HasRubric(row) == row.general # NoRubric \/ row.constraint # <<>> \/ row.adaptive # <<>>

\* Mutant of ReadRow: only the general rubric is carried forward.
ReadGeneralOnly(row) == [row EXCEPT !.constraint = <<>>, !.adaptive = <<>>]

\* What a call starts from: general and constraint rubrics are carried
\* forward, adaptive ones in the modes that append to them.
ReadRow(row) ==
    [row EXCEPT !.adaptive = IF mode \in AdaptiveModes THEN @ ELSE <<>>]

-----------------------------------------------------------------------------
Init ==
    /\ pc = "idle"
    /\ mode \in Modes
    /\ active = Rows
    /\ store = [r \in Rows |-> SeededRow(r)]
    /\ visit = 0
    /\ work = <<>>
    /\ failed = {}
    /\ chosen = {}

Begin(b) ==
    /\ pc = "idle"
    /\ visit < MaxVisits
    /\ b # {}
    /\ visit' = visit + 1
    /\ work' = [r \in b |-> ReadRow(store[r])]
    /\ failed' = {}
    /\ chosen' = {}
    /\ pc' = "rollout"
    /\ UNCHANGED <<mode, active, store>>

\* modify_dataset_epoch: all active rows.
BeginEpochPass == Schedule = "epoch" /\ Begin(active)

\* The step schedule: the rows of the current training batch.
BeginStepPass == Schedule = "step" /\ \E b \in Batches : Begin(b \cap active)

\* Base answers, by the policy or in one mode by the generator; a row that did
\* not get two usable ones takes no part in the stages that compare answers.
Rollout ==
    /\ pc = "rollout"
    /\ IF mode \in NoRolloutModes
         THEN failed' = {}
         ELSE failed' \in SUBSET DOMAIN work
    /\ pc' = CASE mode \in EvaModes -> "eva_select"
               [] mode \in RewriteModes -> "rewrite"
               [] OTHER -> "general"
    /\ UNCHANGED <<mode, active, store, visit, work, chosen>>

Eligible == DOMAIN work \ failed

-----------------------------------------------------------------------------
(* Rewriting.                                                              *)

\* Mutant of Rewritten: the rubric of the old text is kept.
RewrittenStale(r, n) ==
    [work[r] EXCEPT !.text = <<visit, r, 1>>, !.len = n, !.cs = <<>>]

\* A rewritten instruction replaces the prompt and voids its general rubric.
Rewritten(r, n) ==
    [work[r] EXCEPT !.text = <<visit, r, 1>>, !.len = n, !.cs = <<>>,
                    !.general = NoRubric]

Rewrite ==
    /\ pc = "rewrite"
    /\ \E yes \in SUBSET Eligible : \E n \in [yes -> TextLens] :
         work' = [r \in DOMAIN work |->
                    IF r \in yes /\ ~Overlong(n[r]) THEN Rewritten(r, n[r]) ELSE work[r]]
    /\ pc' = "general"
    /\ UNCHANGED <<mode, active, store, visit, failed, chosen>>

-----------------------------------------------------------------------------
(* General rubrics, constraints, adaptive rubrics.                         *)

\* Fresh general rubrics for some rows, written for their present text.
WithGeneral(rows) ==
    [r \in DOMAIN work |->
       IF r \in rows THEN [work[r] EXCEPT !.general = work[r].text] ELSE work[r]]

\* The rows without a general rubric get one, unless generation fails.
GenerateGeneral ==
    /\ pc = "general"
    /\ \E ok \in SUBSET {r \in DOMAIN work : work[r].general = NoRubric} :
         work' = WithGeneral(ok)
    /\ pc' = CASE mode \in ConstraintModes -> "constraint"
               [] mode \in AdaptiveModes -> "adaptive"
               [] OTHER -> "persist"
    /\ UNCHANGED <<mode, active, store, visit, failed, chosen>>

\* The sets of rows the constraint generator may be asked about: all eligible
\* ones, a random share of them, or those the metric gate finds saturated,
\* which need a general rubric to be scored at all.
Asked ==
    CASE mode \in RandomModes ->
           {s \in SUBSET Eligible :
              Cardinality(s) = Share(Cardinality(Eligible), RandomPercent)}
      [] mode \in MetricModes -> SUBSET {r \in Eligible : work[r].general # NoRubric}
      [] OTHER -> {Eligible}

\* Mutant of JoinBase: resetting forgotten.
JoinBaseKept(r) == work[r]

\* The prompt a new constraint is joined to: reset modes start over from the
\* original one.
JoinBase(r) ==
    IF mode \in ResetModes
      THEN [work[r] EXCEPT !.text = Original(r), !.len = SeededRow(r).len, !.cs = <<>>]
      ELSE work[r]

\* Mutant of Joined: stamped with the call before.
JoinedStale(r) == [JoinBase(r) EXCEPT !.cs = Append(@, visit - 1)]

Joined(r) == [JoinBase(r) EXCEPT !.cs = Append(@, visit)]

\* Mutant of Accumulated: the rubric of a constraint the length guard
\* rejected is kept.
AccumulatedAll(yes, kept) == yes

\* The rows whose constraint rubric grows, out of those the generator gave a
\* constraint and those of them whose joined prompt fits.
Accumulated(yes, kept) == kept

AddConstraint ==
    /\ pc = "constraint"
    /\ \E asked \in Asked : \E yes \in SUBSET asked :
         LET kept == {r \in yes : ~Overlong(Length(Joined(r)))}
         IN  /\ chosen' = kept
             /\ work' = [r \in DOMAIN work |->
                   IF r \in Accumulated(yes, kept)
                     THEN [work[r] EXCEPT !.constraint =
                             Append(IF mode \in ResetModes THEN <<>> ELSE @, visit)]
                     ELSE work[r]]
    /\ pc' = "persist"
    /\ UNCHANGED <<mode, active, store, visit, failed>>

AddAdaptive ==
    /\ pc = "adaptive"
    /\ \E yes \in SUBSET Eligible :
         work' = [r \in DOMAIN work |->
                    IF r \in yes THEN [work[r] EXCEPT !.adaptive = Append(@, visit)]
                                 ELSE work[r]]
    /\ pc' = "persist"
    /\ UNCHANGED <<mode, active, store, visit, failed, chosen>>

-----------------------------------------------------------------------------
(* The EVA baseline.                                                       *)

\* How many rows are evolved, at most the rows with scored answers.
TopCount ==
    LET k == Share(Cardinality(DOMAIN work), EvaTopPercent)
        n == Cardinality(Eligible)
    IN  IF k < 1 THEN IF n < 1 THEN n ELSE 1
                 ELSE IF k < n THEN k ELSE n

\* The rows whose answers the scalar reward model scores differently are drawn
\* by weight; with none of them, all scored rows are drawn from alike.
SelectHighInfo ==
    /\ pc = "eva_select"
    /\ \E informative \in SUBSET Eligible :
         /\ informative = {} \/ Cardinality(informative) >= TopCount
         /\ chosen' \in {s \in SUBSET (IF informative = {} THEN Eligible ELSE informative) :
                           Cardinality(s) = TopCount}
    /\ pc' = "eva_mix"
    /\ UNCHANGED <<mode, active, store, visit, work, failed>>

\* Drawing more rows than have a positive weight, without replacement, raises.
SelectRaises ==
    /\ pc = "eva_select"
    /\ \E informative \in SUBSET Eligible :
         informative # {} /\ Cardinality(informative) < TopCount
    /\ pc' = "failed"
    /\ UNCHANGED <<mode, active, store, visit, work, failed, chosen>>

Injective(f) == \A x, y \in DOMAIN f : f[x] = f[y] => x = y

\* An evolved text replaces the prompt; the rubrics are left for later stages.
Evolved(r, text, n) == [work[r] EXCEPT !.text = text, !.len = n, !.cs = <<>>]

\* The texts evolution can yield, and the slots a pool of them is put into.
PoolTexts == {<<visit, r, j>> : r \in chosen, j \in 1 .. Evolutions}
MixCount == Share(Cardinality(DOMAIN work), EvaMixPercent)
Slots(pool) == {s \in SUBSET DOMAIN work :
                  Cardinality(s) = IF pool = {} THEN 0 ELSE MixCount}

\* The pool of evolved texts replaces the prompts of a share of the batch; an
\* empty pool leaves it as it is.
MixEvolved ==
    /\ pc = "eva_mix"
    /\ \E pool \in SUBSET PoolTexts :
       \E n \in [pool -> TextLens] :
       \E slots \in Slots(pool) :
       \E pick \in [slots -> pool] :
         /\ Cardinality(pool) < MixCount \/ Injective(pick)
         /\ work' = [r \in DOMAIN work |->
              IF r \in slots THEN Evolved(r, pick[r], n[pick[r]]) ELSE work[r]]
         /\ chosen' = slots
    /\ pc' = "eva_general"
    /\ UNCHANGED <<mode, active, store, visit, failed>>

\* Only the evolved rows get a new general rubric; where generation fails, the
\* rubric read from the dataset stays.
GenerateEvolvedGeneral ==
    /\ pc = "eva_general"
    /\ \E ok \in SUBSET chosen : work' = WithGeneral(ok)
    /\ pc' = "persist"
    /\ UNCHANGED <<mode, active, store, visit, failed, chosen>>

-----------------------------------------------------------------------------
(* Writing back.                                                           *)

\* Mutant of OwnGroups: all groups are written as they were read.
AllGroups(row) == row

\* The rubric groups the mode does not use are written empty.
OwnGroups(row) ==
    [row EXCEPT !.constraint = IF mode \in ConstraintModes THEN @ ELSE <<>>,
                !.adaptive = IF mode \in AdaptiveModes THEN @ ELSE <<>>]

NewPrompt(r) ==
    IF mode \in ConstraintModes /\ r \in chosen
      THEN [work[r] EXCEPT !.text = Joined(r).text, !.len = Joined(r).len,
                           !.cs = Joined(r).cs]
      ELSE work[r]

Persist ==
    /\ pc = "persist"
    /\ store' = [r \in Rows |->
                   IF r \in DOMAIN work THEN OwnGroups(NewPrompt(r)) ELSE store[r]]
    /\ pc' = IF Schedule = "epoch" THEN "drop" ELSE "idle"
    /\ UNCHANGED <<mode, active, visit, work, failed, chosen>>

Unscorable(row) == ~HasRubric(row)

\* modify_dataset_epoch drops the rows that ended up without any criterion,
\* and with them what was stored about them.
DropUnscorable ==
    /\ pc = "drop"
    /\ active' = {r \in active : ~Unscorable(store[r])}
    /\ store' = [r \in Rows |-> IF r \in active \ active' THEN SeededRow(r) ELSE store[r]]
    /\ pc' = "idle"
    /\ UNCHANGED <<mode, visit, work, failed, chosen>>

-----------------------------------------------------------------------------
\* A restart with another mode on the dataset state of a checkpoint.
SwitchMode ==
    /\ MaySwitch
    /\ pc = "idle"
    /\ mode' \in Modes \ {mode}
    /\ work' = <<>>
    /\ failed' = {}
    /\ chosen' = {}
    /\ UNCHANGED <<pc, active, store, visit>>

Halted ==
    /\ \/ pc = "failed"
       \/ pc = "idle" /\ (visit = MaxVisits \/ active = {})
    /\ UNCHANGED vars

Next ==
    \/ BeginEpochPass \/ BeginStepPass
    \/ Rollout \/ Rewrite \/ GenerateGeneral \/ AddConstraint \/ AddAdaptive
    \/ SelectHighInfo \/ SelectRaises \/ MixEvolved \/ GenerateEvolvedGeneral
    \/ Persist \/ DropUnscorable
    \/ SwitchMode
    \/ Halted

Spec == Init /\ [][Next]_vars

-----------------------------------------------------------------------------
(* Properties.                                                             *)

Elements(s) == {s[i] : i \in DOMAIN s}
Texts == (0 .. MaxVisits) \X Rows \X Nat
RowRecord == [text : Texts, len : Nat, cs : Seq(1 .. MaxVisits),
              general : Texts \cup {NoRubric},
              constraint : Seq(1 .. MaxVisits), adaptive : Seq(1 .. MaxVisits)]
Stages == {"idle", "rollout", "rewrite", "general", "constraint", "adaptive",
           "eva_select", "eva_mix", "eva_general", "persist", "drop", "failed"}

\* Type invariant.
TypeOK ==
    /\ pc \in Stages
    /\ mode \in Modes
    /\ active \subseteq Rows
    /\ store \in [Rows -> RowRecord]
    /\ visit \in 0 .. MaxVisits
    /\ DOMAIN work \subseteq Rows /\ work \in [DOMAIN work -> RowRecord]
    /\ failed \subseteq DOMAIN work
    /\ chosen \subseteq DOMAIN work

\* In the constraint modes the constraints in a prompt and the constraints its
\* reward scores are the same, in the same order, whatever the length guard,
\* failed answers and resetting did ("silent corruption" in
\* _gen_constraint_judgment, "in lockstep" in modify_batch).
ConstraintsScored ==
    mode \in ConstraintModes => \A r \in active : store[r].constraint = store[r].cs

\* Also across restarts in another mode, no reward scores a constraint that is
\* not in the prompt.
NoForeignConstraint ==
    \A r \in active : Elements(store[r].constraint) \subseteq Elements(store[r].cs)

\* Between the calls, the general rubric of every row in training was written
\* for the text the row has: rewriting discards the old one, and a row that
\* gets no new one is dropped (epoch schedule).
GeneralMatchesText == pc = "idle" => \A r \in active : store[r].general = store[r].text

\* No prompt outgrows data.max_prompt_length: an overlong one breaks the
\* padding of the agent loop (comment at the length guard of modify_batch).
WithinLength == MaxLen > 0 => \A r \in active : Length(store[r]) <= MaxLen

\* A reset mode never has more than one constraint in a prompt, on the
\* original instruction.
ResetKeepsOne ==
    mode \in ResetModes =>
      \A r \in active : Len(store[r].cs) <= 1 /\ store[r].text = Original(r)

\* After a call, its rows hold no adaptive or constraint rubric of another
\* mode ("a mode switch (or reload) won't leave stale rubrics from a previous
\* group", _apply_override).
NoStaleGroup ==
    pc = "idle" => \A r \in DOMAIN work \cap active :
      /\ mode \notin AdaptiveModes => store[r].adaptive = <<>>
      /\ mode \notin ConstraintModes => store[r].constraint = <<>>

\* A criterion is never lost while what it is about stays: the rubric of a
\* constraint still in the prompt ("a later decision=no epoch never silently
\* drops the rubric for a constraint still in the prompt", modify_batch), and
\* the adaptive criteria in the modes whose "criteria accumulate across epochs"
\* (modify_batch).  The docstring of AdaptiveDataset, which has them replaced each
\* epoch, is not followed by the code.
NoSilentDrop ==
    [][\A r \in active' :
         /\ Elements(store[r].constraint) \cap Elements(store'[r].cs)
              \subseteq Elements(store'[r].constraint)
         /\ mode \in AdaptiveModes =>
              SubSeq(store'[r].adaptive, 1, Len(store[r].adaptive)) = store[r].adaptive
      ]_store
=============================================================================
