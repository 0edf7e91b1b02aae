------------------------------ MODULE TrainLoop ------------------------------
(***************************************************************************)
(* The training loop of PolicyRayTrainer with its checkpoints, its epoch   *)
(* cache and the process restarts they exist for.                          *)
(*                                                                         *)
(* A process boots, loads the checkpoint the tracker file names, walks     *)
(* the remaining epochs (regenerating the dataset at each epoch start),    *)
(* trains on the batches of each epoch, saves at the configured moments    *)
(* and finishes with a fallback save.  A crash may fall between any two    *)
(* writes to disk, or tear the file being written; a new process then      *)
(* boots on what is left.                                                  *)
(*                                                                         *)
(* Weights are abstracted to the sequence of training steps that made      *)
(* them, a dataset view to its number of batches and the sequence of       *)
(* generator passes that produced it.                                      *)
(***************************************************************************)
EXTENDS Integers, Sequences

CONSTANTS
    BatchesPerEpoch, \* len(train_dataloader) before any drop
    TotalEpochs,     \* trainer.total_epochs
    StepLimit,       \* trainer.total_training_steps, 0 when null
    SaveEvery,       \* the int in trainer.save_freq, 0 when there is none
    SaveAtEpoch,     \* whether trainer.save_freq contains "epoch"
    KeepCkpts,       \* trainer.max_actor_ckpt_to_keep, 0 when null
    Schedule,        \* data_generator.schedule
    UseCache,        \* whether data_generator.epoch_cache_dir is set
    MayDrop,         \* whether a generator pass may shrink the dataset
    EsiSignals,      \* the answers should_save_ckpt_esi may give
    Configs,         \* generator configurations a (re)start may use
    Tearable,        \* the files whose writing a crash can interrupt half way
    MaxCrashes       \* bound on the number of crashes

ConfigAssumption ==
    /\ BatchesPerEpoch \in Nat \ {0}
    /\ TotalEpochs \in Nat \ {0}
    /\ StepLimit \in Nat
    /\ SaveEvery \in Nat
    /\ KeepCkpts \in Nat
    /\ MaxCrashes \in Nat
    /\ {SaveAtEpoch, UseCache, MayDrop} \subseteq BOOLEAN
    /\ Schedule \in {"epoch", "step"}
    /\ EsiSignals \subseteq BOOLEAN /\ EsiSignals # {}
    /\ Configs # {}
    /\ \A c \in Configs : DOMAIN c = {"signed", "unsigned"}

ASSUME ConfigAssumption

VARIABLES
    \* The process.
    pc,       \* where fit, _load_checkpoint or _save_checkpoint is
    cfg,      \* the generator configuration this process was started with
    step,     \* self.global_steps
    epoch,    \* the loop variable of the epoch loop
    batchIdx, \* the loop variable of the batch loop
    loader,   \* position of the StatefulDataLoader
    skipGen,  \* skip_first_pre_epoch_gen
    view,     \* AdaptiveDataset: [n: number of batches, gens: its passes]
    policy,   \* the weights: the training steps applied to them
    kept,     \* previous_saved_paths of the checkpoint manager
    \* The disk.
    ckpt,     \* global_step_N folders
    tracker,  \* latest_checkpointed_iteration.txt
    cache,    \* epoch_N.pt files of the data generator
    \* The environment and the history.
    passes,   \* number of generator passes so far (tells passes apart)
    crashes,  \* number of crashes so far
    seen      \* every <<epoch, passes>> a batch was ever trained under

procVars == <<cfg, step, epoch, batchIdx, loader, skipGen, view, policy, kept>>
diskVars == <<ckpt, tracker, cache>>
histVars == <<passes, crashes, seen>>
vars == <<pc, procVars, diskVars, histVars>>

-----------------------------------------------------------------------------
(* Files.  st tells a file that was never written, one whose write was     *)
(* interrupted and a readable one apart.                                   *)

NoTracker == 0
TornTracker == -1

InitialView == [n |-> BatchesPerEpoch, gens |-> <<>>]
FreshLoader == [pos |-> 0, finished |-> FALSE, resumed |-> FALSE]

NoActor == [st |-> "absent", steps |-> <<>>]
NoData == [st |-> "absent", pos |-> 0, finished |-> FALSE]
NoAdaptive == [st |-> "absent", view |-> InitialView]
NoFolder == [actor |-> NoActor, data |-> NoData, adaptive |-> NoAdaptive]
NoCache == [st |-> "absent", signed |-> "none", view |-> InitialView]

Folder(s) == IF s \in DOMAIN ckpt THEN ckpt[s] ELSE NoFolder

Put(f, k, v) == [x \in DOMAIN f \cup {k} |-> IF x = k THEN v ELSE f[x]]

-----------------------------------------------------------------------------
(* Conditions of fit.                                                      *)

\* total_training_steps: from the configuration, else from the dataloader as
\* it is when the process starts, before any drop.
TotalSteps == IF StepLimit > 0 THEN StepLimit ELSE BatchesPerEpoch * TotalEpochs

\* Mutant of FreqTriggered: only the last step is saved.
FreqOnlyLast(s, isLastStep, isLastBatch) == isLastStep

\* _freq_triggered for trainer.save_freq.
FreqTriggered(s, isLastStep, isLastBatch) ==
    \/ SaveAtEpoch /\ (isLastBatch \/ isLastStep)
    \/ SaveEvery > 0 /\ (isLastStep \/ s % SaveEvery = 0)

SaveEnabled == SaveAtEpoch \/ SaveEvery > 0

IsLastStep == step >= TotalSteps

IsLastBatch == batchIdx = view.n - 1

PassGrows(n) == \* mutant of Pass
    [n |-> n + 1, gens |-> Append(view.gens, [id |-> passes, cfg |-> cfg])]

\* A generator pass: the shrunken dataset and one more pass in its lineage.
\* Only the epoch schedule drops samples.
Pass(n) == [n |-> n, gens |-> Append(view.gens, [id |-> passes, cfg |-> cfg])]

CacheNever(e) == FALSE                               \* mutants of CacheHit
CacheUnsigned(e) == UseCache /\ cache[e].st = "ok"

\* The cache entry of an epoch is used when it is readable and its signature
\* equals the one of this process.
CacheHit(e) == UseCache /\ cache[e].st = "ok" /\ cache[e].signed = cfg.signed

-----------------------------------------------------------------------------
(* Booting: a fresh process, then _load_checkpoint.                        *)

\* A process as __init__ leaves it: dataset re-read from the parquet files,
\* no position, nothing remembered about earlier saves.
FreshProcess ==
    /\ pc' = "boot"
    /\ cfg' \in Configs
    /\ step' = 0
    /\ epoch' = 0
    /\ batchIdx' = 0
    /\ loader' = FreshLoader
    /\ skipGen' = FALSE
    /\ view' = InitialView
    /\ policy' = <<>>
    /\ kept' = <<>>

Init ==
    /\ pc = "boot"
    /\ cfg \in Configs
    /\ step = 0
    /\ epoch = 0
    /\ batchIdx = 0
    /\ loader = FreshLoader
    /\ skipGen = FALSE
    /\ view = InitialView
    /\ policy = <<>>
    /\ kept = <<>>
    /\ ckpt = <<>>
    /\ tracker = NoTracker
    /\ cache = [e \in 0 .. TotalEpochs - 1 |-> NoCache]
    /\ passes = 0
    /\ crashes = 0
    /\ seen = {}

\* No tracker file: training from scratch.
StartFromScratch ==
    /\ pc = "boot"
    /\ tracker = NoTracker
    /\ step' = 1
    /\ pc' = "epoch"
    /\ UNCHANGED <<cfg, epoch, batchIdx, loader, skipGen, view, policy, kept,
                   diskVars, histVars>>

Restored == Folder(tracker)

ViewForgotten == InitialView \* mutant of RestoredView
RestoredView ==
    IF Restored.adaptive.st = "ok" THEN Restored.adaptive.view ELSE InitialView

\* The test _load_checkpoint and fit both make, against the length of the
\* dataset as just restored.
NeverAtBoundary == FALSE \* mutant of AtBoundary
AtBoundary == tracker % RestoredView.n = 0

\* The step after the one the checkpoint folder is named after.
StepForgotten == 1 \* mutants of ResumedStep
StepRepeated == tracker
ResumedStep == tracker + 1

Loadable ==
    /\ tracker # TornTracker
    /\ Restored.actor.st = "ok"
    /\ Restored.adaptive.st # "torn"
    /\ RestoredView.n > 0
    /\ AtBoundary \/ Restored.data.st # "torn"

Resume ==
    /\ pc = "boot"
    /\ tracker # NoTracker
    /\ Loadable
    /\ policy' = Restored.actor.steps
    /\ view' = RestoredView
    /\ loader' = IF AtBoundary \/ Restored.data.st = "absent"
                   THEN FreshLoader
                   ELSE [pos |-> Restored.data.pos,
                         finished |-> Restored.data.finished,
                         resumed |-> TRUE]
    /\ epoch' = tracker \div RestoredView.n
    /\ skipGen' = ~AtBoundary
    /\ step' = ResumedStep
    /\ pc' = "epoch"
    /\ UNCHANGED <<cfg, batchIdx, kept, diskVars, histVars>>

\* A tracker that is not a number, a missing or unreadable file, or a
\* dataloader of length zero (division by zero): the process raises.
ResumeFails ==
    /\ pc = "boot"
    /\ tracker # NoTracker
    /\ ~Loadable
    /\ pc' = "failed"
    /\ UNCHANGED <<procVars, diskVars, histVars>>

-----------------------------------------------------------------------------
(* The epoch loop: dataset generation, then the batches.                   *)

\* A mid-epoch resume keeps the dataset it restored.
SkipGeneration ==
    /\ pc = "epoch"
    /\ epoch < TotalEpochs
    /\ skipGen
    /\ skipGen' = FALSE
    /\ pc' = "begin"
    /\ UNCHANGED <<cfg, step, epoch, batchIdx, loader, view, policy, kept,
                   diskVars, histVars>>

\* Only the epoch schedule has a pre-epoch pass.
NoGeneration ==
    /\ pc = "epoch"
    /\ epoch < TotalEpochs
    /\ ~skipGen
    /\ Schedule = "step"
    /\ pc' = "begin"
    /\ UNCHANGED <<procVars, diskVars, histVars>>

LoadCachedEpoch ==
    /\ pc = "epoch"
    /\ epoch < TotalEpochs
    /\ ~skipGen
    /\ Schedule = "epoch"
    /\ CacheHit(epoch)
    /\ view' = cache[epoch].view
    /\ pc' = "begin"
    /\ UNCHANGED <<cfg, step, epoch, batchIdx, loader, skipGen, policy, kept,
                   diskVars, histVars>>

GenerateEpoch ==
    /\ pc = "epoch"
    /\ epoch < TotalEpochs
    /\ ~skipGen
    /\ Schedule = "epoch"
    /\ ~CacheHit(epoch)
    /\ \E n \in 0 .. view.n :
         /\ n = view.n \/ MayDrop
         /\ view' = Pass(n)
    /\ passes' = passes + 1
    /\ pc' = IF UseCache THEN "cache" ELSE "begin"
    /\ UNCHANGED <<cfg, step, epoch, batchIdx, loader, skipGen, policy, kept,
                   diskVars, crashes, seen>>

\* A dataset with no sample left: modify_dataset_epoch returns before it
\* generates or caches anything.
GenerateOnEmpty ==
    /\ pc = "epoch"
    /\ epoch < TotalEpochs
    /\ ~skipGen
    /\ Schedule = "epoch"
    /\ ~CacheHit(epoch)
    /\ view.n = 0
    /\ pc' = "begin"
    /\ UNCHANGED <<procVars, diskVars, histVars>>

WriteCache ==
    /\ pc = "cache"
    /\ cache' = [cache EXCEPT ![epoch] =
                   [st |-> "ok", signed |-> cfg.signed, view |-> view]]
    /\ pc' = "begin"
    /\ UNCHANGED <<procVars, ckpt, tracker, histVars>>

AlwaysFromStart == FreshLoader \* mutant of NextIteration

\* enumerate(train_dataloader): the first iteration after load_state_dict
\* continues from the saved position unless that iterator had finished.
NextIteration == IF loader.resumed /\ ~loader.finished
                   THEN [loader EXCEPT !.resumed = FALSE]
                   ELSE FreshLoader

BeginEpoch ==
    /\ pc = "begin"
    /\ batchIdx' = 0
    /\ loader' = NextIteration
    /\ pc' = "batch"
    /\ UNCHANGED <<cfg, step, epoch, skipGen, view, policy, kept,
                   diskVars, histVars>>

\* The step schedule rewrites the rows of the batch first; then the policy is
\* updated and the save condition evaluated.
TrainBatch ==
    /\ pc = "batch"
    /\ loader.pos < view.n
    /\ view' = IF Schedule = "step" THEN Pass(view.n) ELSE view
    /\ passes' = IF Schedule = "step" THEN passes + 1 ELSE passes
    /\ policy' = Append(policy, [epoch |-> epoch, batch |-> loader.pos, view |-> view'])
    /\ seen' = seen \cup {<<epoch, view'.gens>>}
    /\ loader' = [loader EXCEPT !.pos = @ + 1]
    /\ \E esi \in EsiSignals :
         pc' = IF SaveEnabled /\ (esi \/ FreqTriggered(step, IsLastStep, IsLastBatch))
                 THEN "rotate"
                 ELSE "advance"
    /\ UNCHANGED <<cfg, step, epoch, batchIdx, skipGen, kept, diskVars, crashes>>

\* The end of the loop body: count the step, return after the last one.
Advance ==
    /\ pc = "advance"
    /\ step' = step + 1
    /\ batchIdx' = batchIdx + 1
    /\ pc' = IF IsLastStep THEN "done" ELSE "batch"
    /\ UNCHANGED <<cfg, epoch, loader, skipGen, view, policy, kept,
                   diskVars, histVars>>

EndEpoch ==
    /\ pc = "batch"
    /\ loader.pos >= view.n
    /\ loader' = [loader EXCEPT !.finished = TRUE]
    /\ epoch' = epoch + 1
    /\ pc' = "epoch"
    /\ UNCHANGED <<cfg, step, batchIdx, skipGen, view, policy, kept,
                   diskVars, histVars>>

\* The epochs ran out before is_last_step fired: save the last trained
\* weights unless the loop is presumed to have saved them.
PresumedSaved == TRUE \* mutant of AlreadySaved
AlreadySaved == FreqTriggered(step - 1, FALSE, TRUE)

FallbackSave ==
    /\ pc = "epoch"
    /\ epoch >= TotalEpochs
    /\ step - 1 >= 1 /\ SaveEnabled /\ ~AlreadySaved
    /\ step' = step - 1
    /\ pc' = "rotate"
    /\ UNCHANGED <<cfg, epoch, batchIdx, loader, skipGen, view, policy, kept,
                   diskVars, histVars>>

NoFallbackSave ==
    /\ pc = "epoch"
    /\ epoch >= TotalEpochs
    /\ ~(step - 1 >= 1 /\ SaveEnabled /\ ~AlreadySaved)
    /\ pc' = "done"
    /\ UNCHANGED <<procVars, diskVars, histVars>>

FinishFallback ==
    /\ pc = "finish"
    /\ step' = step + 1
    /\ pc' = "done"
    /\ UNCHANGED <<cfg, epoch, batchIdx, loader, skipGen, view, policy, kept,
                   diskVars, histVars>>

-----------------------------------------------------------------------------
(* _save_checkpoint, one action per write to disk.                         *)

SurplusOffByOne == IF KeepCkpts > 0 /\ Len(kept) >= KeepCkpts \* mutant of Surplus
                     THEN Len(kept) - KeepCkpts + 2
                     ELSE 0

\* The actor folders the checkpoint manager removes before it writes.
Surplus == IF KeepCkpts > 0 /\ Len(kept) >= KeepCkpts
             THEN Len(kept) - KeepCkpts + 1
             ELSE 0

SaveRotate ==
    /\ pc = "rotate"
    /\ ckpt' = [s \in DOMAIN ckpt |->
                  IF \E i \in 1 .. Surplus : kept[i] = s
                    THEN [ckpt[s] EXCEPT !.actor = NoActor]
                    ELSE ckpt[s]]
    /\ kept' = SubSeq(kept, Surplus + 1, Len(kept))
    /\ pc' = "actor"
    /\ UNCHANGED <<cfg, step, epoch, batchIdx, loader, skipGen, view, policy,
                   tracker, cache, histVars>>

SaveActor ==
    /\ pc = "actor"
    /\ ckpt' = Put(ckpt, step,
                   [Folder(step) EXCEPT !.actor = [st |-> "ok", steps |-> policy]])
    /\ kept' = Append(kept, step)
    /\ pc' = "data"
    /\ UNCHANGED <<cfg, step, epoch, batchIdx, loader, skipGen, view, policy,
                   tracker, cache, histVars>>

SaveData ==
    /\ pc = "data"
    /\ ckpt' = Put(ckpt, step,
                   [Folder(step) EXCEPT !.data =
                      [st |-> "ok", pos |-> loader.pos, finished |-> loader.finished]])
    /\ pc' = "adaptive"
    /\ UNCHANGED <<procVars, tracker, cache, histVars>>

AdaptiveFile == [st |-> "ok", view |-> view]

SaveAdaptive ==
    /\ pc = "adaptive"
    /\ ckpt' = Put(ckpt, step,
                   [Folder(step) EXCEPT !.adaptive = AdaptiveFile])
    /\ pc' = "tracker"
    /\ UNCHANGED <<procVars, tracker, cache, histVars>>

\* The loop goes on after a save in its body; the fallback save is the last act.
SaveTracker ==
    /\ pc = "tracker"
    /\ tracker' = step
    /\ pc' = IF epoch < TotalEpochs THEN "advance" ELSE "finish"
    /\ UNCHANGED <<procVars, ckpt, cache, histVars>>

-----------------------------------------------------------------------------
(* Crashes.                                                                *)

\* What the write in progress leaves behind when it is interrupted.
TornFolder ==
    CASE pc = "actor" -> [Folder(step) EXCEPT !.actor = [NoActor EXCEPT !.st = "torn"]]
      [] pc = "data" -> [Folder(step) EXCEPT !.data = [NoData EXCEPT !.st = "torn"]]
      [] pc = "adaptive" -> [Folder(step) EXCEPT !.adaptive = [NoAdaptive EXCEPT !.st = "torn"]]

Running == pc \notin {"boot", "done", "failed"}

\* The process dies between two writes.
Crash ==
    /\ Running
    /\ crashes < MaxCrashes
    /\ crashes' = crashes + 1
    /\ FreshProcess
    /\ UNCHANGED <<diskVars, passes, seen>>

\* The process dies while it writes one of the checkpoint files, the tracker
\* or a cache file.
CrashMidWrite ==
    /\ pc \in Tearable
    /\ crashes < MaxCrashes
    /\ crashes' = crashes + 1
    /\ FreshProcess
    /\ ckpt' = IF pc \in {"actor", "data", "adaptive"}
                 THEN Put(ckpt, step, TornFolder)
                 ELSE ckpt
    /\ tracker' = IF pc = "tracker" THEN TornTracker ELSE tracker
    /\ cache' = IF pc = "cache"
                  THEN [cache EXCEPT ![epoch].st = "torn"]
                  ELSE cache
    /\ UNCHANGED <<passes, seen>>

-----------------------------------------------------------------------------
Boot == StartFromScratch \/ Resume \/ ResumeFails

Generation ==
    \/ SkipGeneration \/ NoGeneration \/ LoadCachedEpoch
    \/ GenerateEpoch \/ GenerateOnEmpty \/ WriteCache

Training == BeginEpoch \/ TrainBatch \/ Advance \/ EndEpoch

Saving ==
    \/ FallbackSave \/ NoFallbackSave \/ FinishFallback
    \/ SaveRotate \/ SaveActor \/ SaveData \/ SaveAdaptive \/ SaveTracker

Process == Boot \/ Generation \/ Training \/ Saving

\* A process that returned or raised stays as it is.
Halted == pc \in {"done", "failed"} /\ UNCHANGED vars

Next == Process \/ Crash \/ CrashMidWrite \/ Halted

Spec == Init /\ [][Next]_vars

\* The driver is a single program that keeps executing until it halts.
FairSpec == Spec /\ WF_vars(Process)

-----------------------------------------------------------------------------
(* Properties.                                                             *)

Phases == {"boot", "epoch", "cache", "begin", "batch", "advance", "rotate",
           "actor", "data", "adaptive", "tracker", "finish", "done", "failed"}

FileState == {"ok", "torn", "absent"}
View == [n : 0 .. BatchesPerEpoch, gens : Seq([id : Nat, cfg : Configs])]
History == Seq([epoch : Nat, batch : Nat, view : View])
CkptFolder ==
    [actor    : [st : FileState, steps : History],
     data     : [st : FileState, pos : Nat, finished : BOOLEAN],
     adaptive : [st : FileState, view : View]]
Signature == {c.signed : c \in Configs} \cup {"none"}

\* Type invariant: every variable holds a value of its kind.
TypeOK ==
    /\ pc \in Phases
    /\ cfg \in Configs
    /\ step \in Nat /\ epoch \in Nat /\ batchIdx \in Nat
    /\ loader \in [pos : Nat, finished : BOOLEAN, resumed : BOOLEAN]
    /\ skipGen \in BOOLEAN
    /\ view \in View
    /\ policy \in History
    /\ kept \in Seq(Nat)
    /\ DOMAIN ckpt \subseteq Nat /\ ckpt \in [DOMAIN ckpt -> CkptFolder]
    /\ tracker \in Nat \cup {TornTracker}
    /\ cache \in [0 .. TotalEpochs - 1 -> [st : FileState, signed : Signature, view : View]]
    /\ passes \in Nat /\ crashes \in Nat

\* The next training step after a, when every batch of every epoch is trained.
Follows(a, b) ==
    \/ b.epoch = a.epoch /\ b.batch = a.batch + 1
    \/ b.epoch = a.epoch + 1 /\ b.batch = 0 /\ a.batch = a.view.n - 1

\* The weights are made of whole epochs in order: through any crashes and
\* resumes (_load_checkpoint, skip_first_pre_epoch_gen, current_epoch) no
\* batch is trained twice and none is skipped.
TrainedInOrder ==
    /\ policy # <<>> => policy[1].epoch = 0 /\ policy[1].batch = 0
    /\ \A i \in 1 .. Len(policy) - 1 : Follows(policy[i], policy[i+1])

\* One resume never puts a batch of the same epoch into the weights twice, even
\* when drop_samples changed len(train_dataloader) before the save: the resume
\* arithmetic of _load_checkpoint may skip batches but does not repeat any.  A
\* second resume may: the first can start in an epoch the steps do not fill yet.
OneResumeRepeatsNothing ==
    crashes <= 1 =>
      \A i, j \in DOMAIN policy :
        i < j => \/ policy[i].epoch < policy[j].epoch
                 \/ policy[i].epoch = policy[j].epoch /\ policy[i].batch < policy[j].batch

\* The dataset the weights were trained on evolved in one line: each epoch
\* (each step, in step schedule) adds exactly one generator pass to the passes
\* of the one before, whatever was restored from adaptive_dataset.pt, from the
\* epoch cache or regenerated after a crash.
OnePassPerEpoch ==
    \A i \in DOMAIN policy :
      /\ Len(policy[i].view.gens) = IF Schedule = "epoch" THEN policy[i].epoch + 1 ELSE i
      /\ i > 1 => SubSeq(policy[i].view.gens, 1, Len(policy[i-1].view.gens))
                    = policy[i-1].view.gens

\* With epoch_cache_dir, all batches ever trained in an epoch, by this process
\* or by one that crashed, come from the same generated dataset ("This makes
\* resumes idempotent", online_data_generator.py).
EpochViewStable == \A a, b \in seen : a[1] = b[1] => a[2] = b[2]

\* An epoch that starts with a dataset generated or loaded from the cache uses
\* one made under the configuration this process was started with
\* (modify_dataset_epoch "never silently reuses stale data").
NoStaleEpoch ==
    pc = "begin" /\ Schedule = "epoch" /\ ~loader.resumed /\ view.gens # <<>>
      => view.gens[Len(view.gens)].cfg = cfg

\* The step count and the weights never drift apart: global_steps names the
\* step being trained, and a readable actor folder global_step_N holds N steps.
StepsCounted ==
    /\ pc \in {"batch", "begin", "cache", "epoch"} => Len(policy) = step - 1
    /\ pc \in {"rotate", "actor", "data", "adaptive", "tracker", "advance", "finish"}
         => Len(policy) = step
    /\ \A s \in DOMAIN ckpt :
         ckpt[s].actor.st = "ok" => Len(ckpt[s].actor.steps) = s

\* A complete checkpoint: its three files are readable and describe the same
\* moment of the run.
Coherent(s) ==
    LET f == Folder(s)
        h == f.actor.steps
    IN  /\ f.actor.st = "ok" /\ f.data.st = "ok" /\ f.adaptive.st = "ok"
        /\ h # <<>>
        /\ f.adaptive.view = h[Len(h)].view
        /\ f.data.pos = h[Len(h)].batch + 1

\* latest_checkpointed_iteration.txt ("for atomic usage") names a complete
\* checkpoint at every moment a crash could happen, also while an interrupted
\* attempt at the same step has left its own files in the folder.
TrackerNamesCheckpoint == tracker # NoTracker => tracker # TornTracker /\ Coherent(tracker)

\* A job that ended has its last weights in the checkpoint the tracker names
\* ("guarantee a final save ... on the last trained weights").
FinalWeightsSaved ==
    pc = "done" /\ SaveEnabled /\ policy # <<>>
      => tracker = Len(policy) /\ Folder(tracker).actor.steps = policy

\* What a crash can cost: fewer than SaveEvery training steps.
BoundedLoss == pc = "batch" /\ SaveEvery > 0 => step - 1 - tracker < SaveEvery

\* Resuming never falls behind an earlier save: the tracker only moves forward.
TrackerMovesForward == [][tracker' >= tracker]_tracker

\* Every job ends, with every epoch trained in full and saved, whatever the
\* finitely many crashes.
CompletesTraining ==
    <>[](/\ pc = "done"
         /\ Len(policy) = TotalSteps
         /\ tracker = TotalSteps)
=============================================================================
