# Verification of LLM-as-a-Tutor

TLA+ modules, TLC runs and TLAPS proofs about the code in this repository that
keeps state, runs concurrently, survives restarts and changes its own training
data.

    tlasany M.tla                              parse a module
    tlc -workers 2 -config X.cfg MCTrainLoop   model-check (or MCTutor, MCAsync, MCRequests, MCRetry, MCDispatch)
    tlapm M_proofs.tla                         check the proofs of a module

PROJECT.json names the module of each run, the source lines of each definition,
a mutation of the code that each property catches, and the hazards the
properties are about.

## The system

A GRPO training job (a fork of verl) whose *training data evolves*: between
epochs, or before every step, the "tutor" reads the policy's answers and has a
generator model append constraints to the instructions, rewrite or evolve them,
and write the rubrics the rewards are computed with. A recipe of the fork trains
fully asynchronously, with generation and training in processes of their own.

| Component | State | Operations | Talks to |
|---|---|---|---|
| Training loop (`policy_ray_trainer.py`: `fit`, `_load_checkpoint`, `_save_checkpoint`) | `global_steps`, epoch and batch indices, `skip_first_pre_epoch_gen`, position of the `StatefulDataLoader`, the weights | boot and resume, generate or skip, train a batch, save, fallback save, end | checkpoint manager, generator, dataset |
| Checkpoint manager (`fsdp_checkpoint_manager.py`, `checkpoint_manager.py`) | `previous_saved_paths`, `global_step_N` folders, tracker file | remove surplus, write, find latest | files |
| Epoch cache (`online_data_generator.py`, `modify_dataset_epoch`) | `epoch_N.pt` with a signature | look up, write | files, dataset |
| Adaptive dataset (`adaptive_dataset.py`) | row overrides (prompt, three rubric groups), active rows | read a row, `set_override`, `drop_samples`, save and load the adaptive state | trainer, generator |
| Generation pipeline (`modify_batch`, `_modify_batch_eva`) | per call: prompts, rubrics, decisions, failed rows | roll out, rewrite, write general rubric, judge and constrain, adaptive rubric, select and evolve, persist | policy, generator and reward engines, dataset |
| Retry loops (`_generate_with_retry_keyed`, `_gen_rollouts`, `_gen_generator_base_responses`) | pending prompts, answers kept | oversample, send, cut, accept, retry, salvage | generator, policy |
| Judge engine (`reward_model.py`, `reward_loop.py`) | awake or asleep on the shared GPUs | wake, score or generate a batch, sleep | trainer, generator, router |
| Request router (`naive_router.py`) | request count per worker | select, send, try again, release | engine, callers |
| Fully asynchronous training (`recipe/fully_async_policy`) | rollouter (queues, active tasks, pause flag, staleness counter, lock), message queue, synchronizer, trainer | feed, generate, interrupt, pause, transfer weights, resume, train, save, restart | one another, files |
| Batch dispatch (`seqlen_balancing.py`, `decorator.py`, `dp_actor.py`) | the order of the rows at every level | balance, split, compute, update, collect, put back | trainer, workers |
| Reward scoring (`reward_function.py`, `rubric.py`, `reward_wildchecklists.py`), metric gate | none kept | one judge call per criterion, weighted mean | router |
| Offline scripts (`data_generation/`, `preprocess.py`, `baselines/`, `analysis/`) | files | sequential batch jobs | vLLM |

What is hard here: a crash may fall between any two of the writes that make a
checkpoint, and a resume has to bring five counters into agreement; the length
of the data loader, which the resume arithmetic divides by, changes when rows
are dropped; a dataset is restored from a checkpoint, from the epoch cache or
regenerated, and each must continue the same line of datasets; a prompt and
the rubrics that score it are changed by several model calls, each of which may
fail on its own, over many epochs; five coroutines of the rollouter share one
lock and a pause flag that two of them clear, while the trainer waits for what
they produce; concurrent requests choose a worker by counts that failures
distort; a batch of rows is permuted four times on its way to a rank and back.

## Modules

| Module | Models |
|---|---|
| `TrainLoop` | The driver process, the checkpoint folders, the tracker and the epoch cache, with crashes between and in the middle of writes and restarts, possibly under another configuration |
| `Curriculum` | The promise: batches in order, sometimes made durable, after a failure continued from the durable weights |
| `TrainLoopRefinement` | The refinement mapping from `TrainLoop` to `Curriculum` |
| `TutorPipeline` | `modify_batch` in its nine modes over the rows of `AdaptiveDataset`, call after call, with restarts in another mode |
| `AsyncTraining` | Rollouter, message queue, synchronizer and trainer of the fully asynchronous recipe, with failing generations and crashes |
| `SampleStream` | The promise of the recipe: whole batches of samples not trained on before, versions counted by batches, restarts from a saved state |
| `RewardRequests` | Concurrent requests of a batch through the router to workers that may hang, go down or break off, and the batch that waits for them |
| `RetryLoop` | The three retry loops around the generator and the policy |
| `AnswerPool` | The promise of a retry loop: answers of a prompt are only added, and each is the prompt's own |
| `DataProto` | Concatenating, chunking and repeating batches, and Python's `sum` and `sorted` (`Total`, `Ordered`), used by `RetryLoop`, `SeqlenBalancing` and `BatchDispatch` |
| `BatchDispatch` | A batch through balancing, dispatch to ranks, mini- and micro-batches and back, with the ranks' collectives |
| `SeqlenBalancing` | The largest differencing method (`karmarkar_karp`) and the micro-batch count, as operators |
| `MC*` | Values of the constants for TLC |
| `*_proofs` | Theorems for all values of the constants, see "Proofs" |

### TrainLoop

`pc` follows `fit`: `boot` (`_load_checkpoint`), `epoch` (top of the epoch
loop), `cache` (the cache file is being written), `begin` (`enumerate` of the
data loader), `batch`, `advance` (end of the loop body), `rotate`, `actor`,
`data`, `adaptive`, `tracker` (the writes of `_save_checkpoint` in their
order), `finish`, `done`, `failed`. `step`, `epoch`, `batchIdx`, `skipGen` and
`kept` are the variables of the code; `loader` is the state of torchdata's
`StatefulDataLoader` (position, whether its iterator had finished, whether a
state was just loaded), modelled from how the code uses it.

*Weights* are the sequence of training steps that made them, *a dataset* its
number of batches and the generator passes that produced it, each pass with the
configuration it ran under. With these two histories, "no batch skipped", "the
right dataset" and "the last weights saved" are state predicates. `seen`
remembers across crashes under which dataset each epoch was trained.

A file is absent, torn or readable. `Crash` kills the process between two
writes; `CrashMidWrite` leaves the file being written torn, for the files in
`Tearable`. The runs include the large files there and not the one-line
tracker, which the code calls atomic; see "Known limits".

`StepLimit`, `SaveEvery`, `SaveAtEpoch`, `KeepCkpts`, `Schedule`, `UseCache`
are the values of the configuration. `MayDrop` lets a pass shrink the dataset.
`EsiSignals` holds the answers `should_save_ckpt_esi` may give. `Configs` are
the configurations a start may use: a part the cache signature covers and one
it does not.

### TutorPipeline

One call of `modify_batch` goes through the stages `rollout`, `rewrite`,
`general`, `constraint`, `adaptive`, (`eva_select`, `eva_mix`, `eva_general`
in the EVA mode,) `persist` and, in the epoch schedule, `drop`. A stage that
asks a model takes any subset of the rows it asks about to get a usable answer:
that is what the retry loops leave of a failing model.

A row is a text (the call, row and number of the answer it came from), its
length, the constraints joined to it and its three rubrics. A general rubric is
the text it was written for; a constraint and its rubric are both named by the
number of the call that made them. One constraint adds 1 to the length. So a
rubric about the wrong text, a constraint without its rubric and the reverse
are visible states.

The adaptive criteria accumulate, as `modify_batch` says and does in the one
mode that has them (`_MODES_WITH_ADAPTIVE_APPEND`); `NoSilentDrop` states that
promise. The docstring of `AdaptiveDataset` says the opposite, "from the latest
epoch (replaced each epoch)" (`adaptive_dataset.py:54-55`): no mode
does that, see "Known limits".

### AsyncTraining

The rollouter is one asyncio event loop. Its coroutines (`_feed_samples`,
`_processor_worker`, `_async_monitor_loop`, a task per sample, the remote calls
of the synchronizer) are actions between their awaits. `lock` and `waiters` are
the `asyncio.Lock`, which hands over in the order it was asked for; `proc.goal`
says what the processor wants it for. Between two awaits the processor runs
alone on the loop, so the others wait while `proc.at` is `top` or `check`
(`LoopIdle`). The queue, the trainer and the synchronizer are processes of
their own. A sample is its position in the data stream with the versions
stamped on it; `lost` accounts for the samples the code gives up (evicted by a
full queue, failed, drawn before a restart but not trained).

`Crash` restarts both sides from the last checkpoint, which is written as one
step. Left out: validation and its queue, metrics, the transfer itself, the
shutdown, the trajectories inside a sample.

### RewardRequests

A batch is scored or generated with many requests at a time: one for each
criterion of each answer (`_run_judge_completions`, which the reward function
calls; every tutor configuration sets `custom_reward_function`, so
`RewardLoopWorker` takes it and not its own `_post_request` with 16 retries), or
one for each generator prompt (`_call_generator`). Both post a request once and
gather the answers; a request that fails makes the gather raise, and nothing
catches it short of the main function, so the job ends (`Raise`).

A request is one process, for the caller's coroutine and the router's handler
that serves it: it is `ready`, `sent` to a worker, `answered`, and then `done`
or `failed`. `counts` are the router's `request_counts`; the handler chooses by
them once, stays with its worker for `max_attempts` attempts, and gives the
count back only with an answer.

A worker is `up`, `hung` (it accepts requests and never answers) or `down` (its
connections are refused or broken). At one that is up a request is answered
(`Answer`, also with an empty object, when the body breaks off), refused with an
error status, which is not tried again (`Reject`), or loses its connection
(`Fault`). At one that is down each attempt fails. At one that hangs a request
has no step: the sessions of both callers and of the router are made with
`ClientTimeout(total=None)`, and the router's `timeout = 60` is stored and never
read. Waking the engine before a batch and putting it to sleep after it are left
out, as one sequential driver does both.

### RetryLoop, BatchDispatch

An answer in `RetryLoop` is the prompt it was generated for and its quality
(good, salvageable, bad). `retry_oversample` and the padding to the number of
agent loop workers change the widths and lengths of the lists that are sent,
and the answers are cut out by position. `AnswerPool` knows none of this.

`BatchDispatch` follows a batch of rows through `_balance_batch`, the n-d
dispatch, `compute_log_prob` with static or dynamic micro-batches, the
collection and the inverse permutation, and through `update_policy`. Each
micro-batch is a collective step of all ranks, so ranks that disagree on their
number deadlock, which TLC checks. The loop over `ppo_epochs` around the
mini-batches (`dp_actor.py:449`) is modelled as one round, its default
(`actor.yaml:108`), which no tutor configuration changes; with more, each row
would be trained that many times.

## Runs

The passing runs:

| Run | Instance | Shows |
|---|---|---|
| `train_epoch` | 4 epochs of 3 batches, save every 2 steps, 2 checkpoints kept, epoch cache, 3 crashes, torn files | Each epoch is trained on one dataset (`EpochViewStable`), steps, weights and folders agree (`StepsCounted`), the tracker names a complete checkpoint (`TrackerNamesCheckpoint`) and never moves back (`TrackerMovesForward`), a crash costs fewer than `save_freq` steps (`BoundedLoss`), the job refines `Curriculum` (`ImplementsCurriculum`) and ends (`CompletesTraining`); `TypeOK` |
| `train_step` | step schedule, 2 epochs of 3 batches cut off after 5 steps, saves every 2 steps, at epoch ends and forced by ESI at any step, no cache, 3 crashes | No batch is skipped or repeated (`TrainedInOrder`), the per-step rewrites survive every resume exactly once (`OnePassPerEpoch`) |
| `train_drops` | 4 epochs of at most 3 batches, passes drop rows, save every 2 steps, 1 checkpoint kept, two configurations of the generator with different signatures, 2 crashes | One resume repeats no batch (`OneResumeRepeatsNothing`), the last weights are saved (`FinalWeightsSaved`), no epoch starts on a dataset of another configuration (`NoStaleEpoch`) |
| `tutor_modes` | 2 rows, the eight modes seeded with offline rubrics, epoch schedule, 4 calls, room for two constraints, answers of length 1 and 4 against a limit of 3 | `TypeOK`, `ConstraintsScored`, `GeneralMatchesText`, `WithinLength`, `ResetKeepsOne`, `NoSilentDrop` |
| `tutor_switch` | 2 rows, step schedule, all nine modes, a restart may change the mode, 3 calls | `NoForeignConstraint`, `NoStaleGroup` |
| `async_stream` | 5 samples, batches of 1, a synchronization every 2 batches, staleness threshold 0, partial rollout on and off, 1 failing generation, 1 crash | Every sample drawn is in exactly one place or accounted for (`Conserved`), freshness (`InFlightBound`), `ImplementsStream`, the job ends (`StreamEnds`); `TypeOK` |
| `requests` | 3 requests, 2 workers, 2 batches, the router's 3 attempts; a worker may hang, one go down, 2 failures at workers that are up | A loaded worker never passes for an idle one (`CountsCover`), no batch inherits the counts of failed attempts (`NothingInherited`), a request goes to a worker with the fewest requests until one has failed in the router (`LeastLoaded`), a batch ends unless one of its requests is at a worker that hangs (`BatchEnds`); `TypeOK` |
| `retry` | 2 prompts of 3 answers, 2 of them needed, 2 retries, oversampling, 2 or 9 agent loop workers | Answers are never swapped between prompts nor lost (`ImplementsPool`), settled prompts are not asked again (`SettledNotAsked`), nothing usable is thrown away where the loop keeps a pool (`NothingWasted`); `TypeOK` |
| `dispatch` | all batches of 6 rows of lengths 1, 3, 4; 3 ranks of which two share a data parallel rank; at most 5 tokens or 2 rows a micro-batch | Results come back to their rows (`ResultsInPlace`), each row is trained once (`TrainedOnce`), ranks make the same number of collective calls (`Lockstep`), no rank gets much more work than another (`RanksBalanced`); `TypeOK` |

Runs in which TLC finds a promise of a comment or of the documentation broken
by the code (quoted in PROJECT.json):

| Run | Broken promise | How |
|---|---|---|
| `drops_skip_batches` | `TrainedInOrder` | After a drop the length the resume divides by is no longer the length the earlier epochs had: a resume skips batches or a whole epoch |
| `resave_tears_last` | `TrackerNamesCheckpoint` | A job started again after its last save enters the post-loop fallback, which saves the last step once more over the folder the tracker names |
| `async_stalls` | `StreamEnds` | With a staleness threshold the monitor clears the pause of a synchronization; a sample is counted twice, the processor pauses and the trainer waits for good |

Why the bounds are enough. The resume arithmetic depends on `step` modulo and
divided by the epoch length: saves every 2 steps on epochs of 3 batches hit
every position of an epoch, and an epoch boundary before the end, within two
epochs. Rotation needs more saves than checkpoints kept (six against two). Three
crashes allow a crash, a second one while the first is being repaired, also in
the middle of the same file, and one later. In the pipeline rows interact only
through shares and the EVA pool, for which two rows give the cases none, some
and all; four calls are one more than the prompt has room for constraints, and
enough to accumulate, be rejected, reset and accumulate again. Five samples in
`async_stream` are two whole synchronizations and a rest. Its threshold of 0
keeps the samples in flight below the bound of `InFlightBound`; that the bound
is reached, and never passed, with a threshold of 1 (and `Total = 4`, `Trigger
= 1`) was checked once, without `StreamEnds`, which fails there (`async_stalls`);
`FreshnessBound` proves it for every threshold. Three requests
to two workers give ties, a majority and a minority; the router's 3 attempts are
the code's, and 2 failures at a worker that is up are what a request survives,
one more at a worker that goes down what it does not. In the second batch the
counts of the first would show, were any left. In `retry` 9 workers
are more than the answers sent in a round and 2 are fewer. In `dispatch` the
lengths make loads that can and cannot be balanced, and more micro-batches on
one rank than on another. Where the theorems below apply, the bounds do not
matter. Crashes, lost and hung workers, faults, failures, batches and calls
(`MaxCrashes`, `MaxDown`, `MaxHung`, `MaxFaults`, `MaxFailures`, `MaxBatches`,
`MaxVisits`) are the only bounds the code lacks.

Fairness. `TrainLoop`: `WF_vars(Process)`, as the driver is one sequential
program, always able to execute its next statement until it returns or raises.
`AsyncTraining`: the event loop runs what is ready in FIFO turn and other
processes are not held up for good, so a coroutine that is ready again and
again gets its turn (strong fairness); generation ends. `RewardRequests`: weak
fairness of each request's next step and of the driver's. A worker that is up
ends each attempt, with an answer or an error; of a request at a worker that
hangs nothing is assumed, since nothing in the code ends it. Crashes, lost
workers and failures are never fair and their number is bounded, as a job that crashes
forever cannot end.

Deadlock is checked in every run but `async_stalls`, whose finding is a state
in which nobody can move. `Halted` and `Terminated` name the states in which
the program has returned or raised, or the bound on calls is used up.

## Proofs

`TrainLoop_proofs`, from `ConfigAssumption` alone, so for all epoch counts,
sizes, save settings, schedules, drops and crashes:

- `TypeCorrect`: `Spec => []TypeOK`, inductive as it stands; one lemma per
  group of actions.
- `StepsCountedHolds`: `Spec => []StepsCounted`. The inductive invariant
  `StepInv` adds the types (a folder is a record, so writing one file leaves
  the others as they are) and `BootFresh`: a process that has not booted has no
  training behind it, without which a start from scratch could set `step` to 1
  over existing weights. A resume uses the invariant about the disk: the folder
  `global_step_N` holds N steps, so continuing with step N + 1 is right. The
  torn folders of a crash keep it, since a torn file is not a readable one.
- `TrackerForward`: `Spec => TrackerMovesForward`, assuming that the tracker
  file is not torn. The invariant `TrackerBehind` says that a running process
  is past the step the tracker names, by one more while it is not saving; the
  fallback save, which steps `global_steps` back by one, is the case that needs
  the difference.

About what a resume continues:

- `AlwaysInOrder`: `Spec => []TrainedInOrder`, assuming `~MayDrop` (with drops
  it is false, run `drops_skip_batches`). `OrderInv` puts the order of the
  weights into closed form: step i trained the batch with
  `i - 1 = epoch * BatchesPerEpoch + batch`; it says the same of the weights on
  disk, where the position of the data loader in a running process and in a
  folder is (`Positions`, `DataWritten`), and that every dataset has its full
  length (`ViewsFull`). A resume divides the step by the epoch length: the
  lemma `Quotient` gives the uniqueness of the quotient that makes the closed
  form go on.
- `LossAlwaysBounded`: `Spec => []BoundedLoss`, without further assumption. The
  invariant `Unsaved` says that between the tracker's step and the present no
  step was a multiple of `SaveEvery`; `NextMultiple` turns this into a distance.

About what is on disk:

- `TrackerAlwaysComplete`, `Spec => []TrackerNamesCheckpoint` under `SafeSaves`:
  not exactly one checkpoint is kept, the tracker file is not torn, and the
  fallback save has nothing to save again (saves at epoch ends, or at every
  step, or without drops and with a last step that `SaveEvery` divides). Each is
  needed: "Known limits" and the run `resave_tears_last` show why. `CkptInv`
  adds where a save is (`SaveProgress`: the folder of the step has just the
  files written so far, or all the files of an earlier save), and that the
  rotation only removes folders below the one the tracker names
  (`KeptInOrder`).
- `LastWeightsSaved`: `Spec => []FinalWeightsSaved` under `EndIsSaved`: saves
  are not made at epoch ends, or nothing is dropped and the step limit does not
  exceed what the epochs hold. Otherwise the fallback save presumes an epoch-end
  save that an epoch resumed in its middle does not make ("Known limits"). The
  invariant `LastSaved` follows the last step through the fallback: the weights
  were saved in the loop, are being saved, or the loop is about to check.
- `CurriculumImplemented`, `Spec => ImplementsCurriculum` under `SafeSaves` and
  `~MayDrop`: every step of the job is the training of the next batch, a commit,
  a recovery or a stutter. `ResumeWorks` is the lemma it rests on: no resume
  fails.

Also in `TrainLoop_proofs`, about the datasets a job is trained on:

- `EpochsNeverStale`: `Spec => []NoStaleEpoch`, for configurations their
  signature tells apart (the code's signature leaves out some knobs, "Known
  limits", so the property is false of configurations that differ in those).
  `StaleInv`: an entry of the cache was made under the configuration it is
  signed with, and a dataset about to be trained on was made by this process or
  loaded under its signature; a resume that keeps the restored dataset is in
  the middle of its epoch (`DataWritten`).
- `PassesInOneLine`: `Spec => []OnePassPerEpoch`, without drops and, if the
  epoch cache is used, with one signature for all restarts. `LineageInv` says
  that the datasets a history was trained on continue one another by one pass
  an epoch (`Lineage`), of the weights in memory and of those in every folder;
  that the dataset in the folder the tracker names, or being written, is the one
  its weights saw last (`SavedView`); that the dataset in memory is that of the
  last step or one pass ahead of it (`ViewInLine`); and that the cache holds the
  first epochs of one line, from which all training was done (`CacheInLine`).
- `EpochsKeepTheirView`: `Spec => []EpochViewStable` in the epoch schedule with
  the cache, without drops and with one signature: what `CacheInLine` says of
  the datasets seen.
- `FirstResumeRepeatsNothing`: `Spec => []OneResumeRepeatsNothing`, without any
  hypothesis, drops included. `RepeatInv` holds until the first resume: epochs
  never grow longer (`FirstEpochs`), so the step of a folder, divided by the
  present length, is an epoch and a batch not before the one it was saved in
  (`FirstSaves`, `NamedResumable`, lemma `QuotientAtLeast`); all training in the
  weights comes before the next batch (`Ahead`).

`TutorPipeline_proofs`, from `TutorAssumption`, so for any rows, batches,
ratios, lengths and number of calls:

- `TutorTypeCorrect`: `Spec => []TypeOK`, with `InCall` added: while a call is
  under way its number is at least 1, so what it stamps constraints with is one.
- `ConstraintsAlwaysScored`: `Spec => []ConstraintsScored`, assuming
  `~MaySwitch`. The property speaks of what is stored; between `AddConstraint`
  and `Persist` the rubric of a row is already extended and its prompt not yet
  joined. `LockInv` therefore also says it of the rows in work, and, once the
  constraints are chosen, of the rows as `NewPrompt` will write them. Without
  the assumption it is false: a pass in another mode empties the constraint
  group and keeps the prompt.
- `NeverForeign`: `Spec => []NoForeignConstraint`, restarts in any mode
  included. `ForeignInv` has the form of `LockInv` with inclusion instead of
  equality; inclusion survives the groups being emptied, which is why it holds
  where equality does not.
- `PromptsFit`: `Spec => []WithinLength` if `Modes` has none of `EvaModes`.
  `FitInv` bounds the rows stored, in work and about to be written, and
  `ModeStages` excludes that another mode reaches the constraint stage. The
  assumption is needed: no guard measures an evolved text.

- `GeneralAlwaysMatches`: `Spec => []GeneralMatchesText` in a process that
  stays in its mode, does not evolve prompts and rewrites them in the epoch
  schedule only, where rows without a rubric are dropped.
- `ResetAlwaysKeepsOne`: `Spec => []ResetKeepsOne`, assuming `~MaySwitch`: a
  process that starts in a reset mode finds no prompt with more.
- `GroupsNeverStale`: `Spec => []NoStaleGroup`, without further assumption.
- `NothingEverLost`: `Spec => NoSilentDrop`, assuming `~MaySwitch`.

`RewardRequests_proofs`, from `RequestsAssumption`, so for any number of
requests, workers, attempts, batches and failures:

- `RequestsTypeCorrect`: `Spec => []TypeOK`, inductive as it stands.
- `CountsAlwaysCover`: `Spec => []CountsCover`, and `CountsNeverInherited`:
  `Spec => []NothingInherited`. Both from `CountInv`, which says exactly what a
  count stands for (`Exact`): the requests the worker has, and those of this
  batch that failed there (`Owed`). `Settled` adds that nothing is owed between
  two batches, because a batch that ends well has no failed request. The proof
  counts the sets as requests arrive and leave (`FiniteSetTheorems`).
- `AlwaysLeastLoaded`: `Spec => LeastLoaded`. While no request has failed,
  `Exact` makes the counts the true loads, and `SelectedIsWorker` says that the
  router picks a least one.

`Async_proofs`, from `AsyncAssumption`, so for any numbers of samples, batches,
concurrent tasks, failures and crashes and any queue sizes:

- `AsyncTypeCorrect`: `Spec => []TypeOK`. `Line` and `Holding` say who is in the
  line for the lock (each of the three users at most once, and only who wants
  it) and who sleeps with it in its hand; the length of the line follows.
- `SamplesConserved`: `Spec => []Conserved`. `ConservedInv` adds that no queue
  holds a sample twice, that no two tasks generate one sample, that the
  processor holds a sample exactly while it wants to submit it (`HandFits`), and
  that a checkpoint was only trained on samples it had drawn. Almost every
  action moves samples from one place to another (`MovesSound`); an eviction
  moves two (`CompleteConserved`).
- `FreshnessBound`: `Spec => []InFlightBound`. The invariant `BoundInv`: the
  staleness counter misses at most the sample in the processor's hand, also
  when `update_param_version` resets it from a count of the tasks taken before
  it asks the queue for its size. The lock is what keeps tasks from starting
  between the two (`Holding`), a task that ends in between only moves.
- `StreamImplemented`: `Spec => ImplementsStream`, from `ConservedInv`: a batch
  has as many samples as entries, and none of them was trained.

`RetryLoop_proofs`, from `RetryAssumption` alone, so for any numbers of
prompts, answers, retries and agent loop workers and any oversampling:

- `TypesHold`: `Spec => []TypeOK`. `LoopInv` adds that a prompt is pending
  exactly while it is not settled (`PendingFits`), that no prompt is pending
  twice, and that an answer taken is for the prompt sent at its place
  (`GotFits`), which the padding, the chunks of the workers and the unpadding
  must preserve.
- `NeverAskedAgain`: `Spec => SettledNotAsked`.
- `PoolImplemented`: `Spec => ImplementsPool`: a round adds to a prompt only
  answers to that prompt, never beyond its quota, and takes nothing away.
- `NothingIsWasted`: `Spec => []NothingWasted`. `SeenInv` relates the valid
  answers of each round, counted over the whole list, to what the loop kept of
  them by position.

They rest on `DataProto_proofs`, the lemmas about the operations of `DataProto`:
what a chunk, a repetition, a padding and a slice hold at each place
(`ChunksTogether`, `RepeatFacts`, `PadFacts`, `SliceFacts`), that a filtered
list keeps exactly the chosen elements (`KeptFacts`), and what a concatenation
counts (`ConcatRuns`). Where a lemma needs induction its predicate is a set of
numbers (`Least`, `NatSet`), as the provers cannot instantiate the library's
induction theorems.

`SeqlenBalancing_proofs`, about the operators of `SeqlenBalancing` for any
loads, any number of parts and any lengths:

- `PartitionsParted`: with at least as many rows as parts, `karmarkar_karp`
  gives every row to exactly one part and leaves no part empty (the two
  assertions of `get_seqlen_balanced_partitions`).
- `PartitionsEqual`: with equal sizes asked for, the parts have equal numbers of
  rows, and the sums of two parts differ by at most g, if the rows, in the order
  of their work and taken in groups of one row per part, differ by at most g
  within a group.
- `MicroBatchesParted`: the micro-batches of `rearrange_micro_batches` are as
  many as agreed, none is empty, and each row is in exactly one.

The heap of the method is the recursive function `heap`: after n merges its
states hold disjoint sets of rows and, together, all of them. Merging the
largest set of one state with the smallest of the other keeps equal sizes equal,
and keeps the sums of a state within g of each other (`Within`) if they were so
in both. That no part ends empty is `SpreadOut`: while a set of a state is empty,
none of its sets holds two rows, because the empty ones come last in one state
and first in the other. The loops are inductions over n, with a set of numbers
as their predicate (above).

`BatchDispatch_proofs`, from `DispatchAssumption`: any number of rows, any
lengths, any layout of ranks. Its conditions on the layout are those of the
device mesh of `fsdp_workers.py:190-204`: the ranks are numbered along (dp, sp)
and the one with sp rank 0 collects, so each data parallel rank has one collector
and they come in order. That the rows divide evenly is asserted by the
dispatch, that no row is longer than `max_token_len` by
`rearrange_micro_batches`.

- `DispatchTypeCorrect`, `ResultsAlwaysInPlace`, `EachRowTrainedOnce`,
  `AlwaysInLockstep`, `WorkAlwaysBalanced`: the five invariants of the run.

The inductive invariant `Inv` has four parts. `BatchOK`: the order of the batch
is a permutation, either the first one or the balanced one, and the result is in
place once there is one. `RanksOK`: what a rank has computed is its mini-batch
along the micro-batches it has done, and those left are the rest; so when none
is left, the inverse permutation gives the mini-batch back. `TrainedOK`: the
mini-batches a rank was updated with are the first ones of its chunk. `InStep`:
all ranks come to the collectives of the same mini-batch next, and in it have the
same number of micro-batches left; only without dynamic batches may a rank be
there before another, and then it has computed none. The last part is not a
consequence of the others: the number of micro-batches is a rank's own, from its
own lengths, until the all_reduce makes it common.

Only model-checked: liveness, which is out of the prover's reach
(`CompletesTraining`, `StreamEnds`, `BatchEnds`), and the runs with an expected
violation. Every other property of a passing run is a theorem, some under
conditions on the configuration that are stated above. What TLC found about
`OneResumeRepeatsNothing` and `FinalWeightsSaved` was also checked once with
epochs of 3 to 5 batches and saves every 1 to 3 steps, before they were proved.

## Known limits of the code without a run of their own

Training loop:

- With `max_actor_ckpt_to_keep = 1` the only readable checkpoint is removed
  before its successor is written; a crash during the save leaves nothing to
  resume from (`TrackerNamesCheckpoint` fails with `KeepCkpts = 1`).
- The tracker is truncated and rewritten in place; a crash in that moment makes
  the next boot raise (`Tearable <- AllFiles`).
- After a mid-epoch resume `batch_idx` starts at 0, so the last batch of the
  epoch is not recognised and the "epoch" save is missed
  (`policy_ray_trainer.py:1415`).
- With drops, a second resume can train a batch of an epoch again, because the
  first one started in too late an epoch (seen with epochs of 3, saves at every
  step and 2 crashes; hence `OneResumeRepeatsNothing` speaks of one), and after
  a mid-epoch resume the fallback may presume that the loop saved the last
  batch when it had not (line 1879).
- A finished job that is started again runs once more past its last step when
  the total is given by `total_training_steps`.
- The cache signature leaves out knobs such as `max_prompt_length`
  (`online_data_generator.py:558`); a configuration that is changed and changed
  back finds cache entries of the first lineage that continue a dataset the
  present one has left.

Tutor:

- `AdaptiveDataset` documents `requirements_adaptive` as texts "from the latest
  epoch (replaced each epoch)" (`adaptive_dataset.py:54-55`), but the one mode
  with adaptive rubrics is in `_MODES_WITH_ADAPTIVE_APPEND`: criteria of every
  epoch so far stay in the rubric (`online_data_generator.py:1004`), as the
  docstring of `modify_batch` has it (lines 735-739). The two docstrings
  contradict each other. `NoSilentDrop` states the one of `modify_batch`; the
  other's claim is false of the code from the second call on (seen with TLC).
- An evolved prompt whose rubric cannot be regenerated keeps the rubric of the
  prompt it replaced (line 1212), and drawing k rows by weight without
  replacement raises when fewer than k weights are positive (line 1286).
- With `n_rollouts = 1` no row passes the two-answers test, so constraints and
  adaptive rubrics silently stop (line 792); the random mode picks the same
  positions in every step of an epoch (line 889).
- In the step schedule rows are never dropped: a row without any criterion
  stays in the batch.
- `_gen_rollouts` gives up the valid answers of a round below `min_valid`,
  which the loop for base answers accumulates; one failed request raises and
  loses the whole batch of a generator call.

Asynchronous training:

- The processor dies of an `UnboundLocalError` when a synchronization empties
  `active_tasks` before it ever waited for a task (`fully_async_rollouter.py:440`);
  the finish signal still goes out, so the job ends early.
- A failed generation kills the processor when the processor collects it, and is
  swallowed when `pause` gathers it.
- Samples interrupted when the stream ends, a last partial batch, and samples in
  flight at a crash are not trained (the last is a TODO in the code). Up to
  `max_required_samples + 1` samples can be in flight. An ESI save lets the
  number of samples fed drift from the number trained, and a finished job that
  is started again feeds one more.

Requests:

- One failed request of a batch, scoring or generating, ends the job: a worker
  that is down for three attempts, a 4xx or 5xx, an answer without choices. The
  router chooses a worker once per request and does not turn to another, and no
  tutor path posts a failed request again (`_post_request`, which would, is not
  reached).
- A worker that accepts a request and never answers holds the batch, and with
  it the training, for ever: no client on the way has a timeout
  (`naive_router.py:122`, `reward_wildchecklists.py:181`,
  `online_data_generator.py:2314`), and the router's `timeout = 60` is not used.
  The comment at `reward_loop.py:133` warns of just this ("can hang
  indefinitely") and the next line sets `total=None`. Without its exception for
  such a request `BatchEnds` fails.
- When a gather raises, the other requests are still at the workers.
  `compute_rm_score` then leaves the engine awake; the tutor's `finally` puts it
  to sleep under them. The job ends in both cases.
- The count of a failed request is never given back. Only a job that ends has
  such counts (`NothingInherited`), so nothing comes of it as long as callers
  raise; a caller that retried would find them.

Dispatch: `rearrange_micro_batches` promises at most `max_token_len` tokens per
micro-batch; the differencing method only aims at it (TLC sees more, though
less than twice).

## Not modelled

The mathematics of a PPO step, gradients and losses, validation, profiling, the
critic, asynchronous saves, `resume_path`; the content of prompts, templates
and parsed answers (an answer is usable or not); the mapping between logical
and real row indices and the in-place edit of the training batch in the step
schedule; reward scoring and the metric gate, which are pure arithmetic on
judge answers; other dispatch modes and Megatron options; the offline scripts,
baselines and analyses, which are sequential batch jobs; the rest of the
vendored verl, which is most of the repository's lines: models, kernels,
engines and recipes whose state is tensors, or which the tutor never runs.

## Plan

Done: everything in the module table. Left, in order of worth:

1. `AdaptiveDataset` with both index spaces and drops, composed with the batch
   edit of the step schedule.
2. Reward scoring and the metric gate as operators over bounded inputs.
3. A proof of `TrainedInOrder` with drops up to the first resume.
