--------------------------- MODULE TrainLoop_proofs ---------------------------
(***************************************************************************)
(* Proofs about the training loop, for all values of its constants: types  *)
(* and counted steps; without drops the weights are whole epochs in order; *)
(* with int saves a crash costs less than SaveEvery steps; the tracker     *)
(* names a complete checkpoint, a finished training has its last weights   *)
(* in it, and the training loop implements the curriculum; no epoch starts *)
(* with a dataset made under another configuration, every epoch adds one   *)
(* generator pass and has one dataset for all processes, and one resume    *)
(* repeats no batch - each under the settings that make it true.           *)
(***************************************************************************)
EXTENDS TrainLoop, TrainLoopRefinement, SequenceTheorems, TLAPS

\* A process that has not booted yet has no training behind it; needed for
\* the step count of a start from scratch.
BootFresh == pc = "boot" => policy = <<>>

\* The parts of StepsCounted about the process and about the disk.
ProcessCounted ==
    /\ pc \in {"batch", "begin", "cache", "epoch"} => Len(policy) = step - 1
    /\ pc \in {"rotate", "actor", "data", "adaptive", "tracker", "advance", "finish"}
         => Len(policy) = step

FolderCounted(s, f) == f.actor.st = "ok" => Len(f.actor.steps) = s

DiskCounted == \A s \in DOMAIN ckpt : FolderCounted(s, ckpt[s])

\* The inductive strengthening of StepsCounted.
StepInv == TypeOK /\ BootFresh /\ ProcessCounted /\ DiskCounted

\* The process is always past the step the tracker names; the inductive
\* strengthening of TrackerMovesForward.
TrackerBehind ==
    /\ tracker # TornTracker
    /\ pc \in {"batch", "begin", "cache", "epoch"} => tracker <= step - 1
    /\ pc \in {"rotate", "actor", "data", "adaptive", "tracker", "advance", "finish"}
         => tracker <= step

-----------------------------------------------------------------------------
(* Types.                                                                  *)

LEMMA ViewTypes ==
    ASSUME ConfigAssumption
    PROVE /\ InitialView \in View
          /\ NoFolder \in CkptFolder
          /\ NoCache \in [st : FileState, signed : Signature, view : View]
          /\ FreshLoader \in [pos : Nat, finished : BOOLEAN, resumed : BOOLEAN]
          /\ <<>> \in History
BY DEF ConfigAssumption, InitialView, View, NoFolder, NoActor, NoData, NoAdaptive,
       CkptFolder, FileState, History, NoCache, Signature, FreshLoader

LEMMA FolderType ==
    ASSUME ConfigAssumption, TypeOK, NEW s
    PROVE Folder(s) \in CkptFolder
BY ViewTypes DEF Folder, TypeOK

LEMMA PutType ==
    ASSUME ConfigAssumption, TypeOK, NEW s \in Nat, NEW f \in CkptFolder
    PROVE /\ DOMAIN Put(ckpt, s, f) \subseteq Nat
          /\ Put(ckpt, s, f) \in [DOMAIN Put(ckpt, s, f) -> CkptFolder]
BY DEF Put, TypeOK

LEMMA RestoredTypes ==
    ASSUME ConfigAssumption, TypeOK
    PROVE Restored \in CkptFolder /\ RestoredView \in View
BY FolderType, ViewTypes DEF Restored, RestoredView, CkptFolder

LEMMA PassType ==
    ASSUME ConfigAssumption, TypeOK, NEW n \in 0 .. view.n
    PROVE Pass(n) \in View
<1>1. /\ view.n \in 0 .. BatchesPerEpoch /\ view.gens \in Seq([id : Nat, cfg : Configs])
      /\ passes \in Nat /\ cfg \in Configs /\ BatchesPerEpoch \in Nat
  BY DEF TypeOK, View, ConfigAssumption
<1>2. [id |-> passes, cfg |-> cfg] \in [id : Nat, cfg : Configs]
  BY <1>1
<1>3. Append(view.gens, [id |-> passes, cfg |-> cfg]) \in Seq([id : Nat, cfg : Configs])
  BY <1>1, <1>2
<1>4. n \in 0 .. BatchesPerEpoch
  BY <1>1
<1> QED BY <1>3, <1>4 DEF Pass, View

LEMMA TypeInit ==
    ASSUME ConfigAssumption
    PROVE Init => TypeOK
<1> SUFFICES ASSUME Init PROVE TypeOK
  OBVIOUS
<1>1. DOMAIN ckpt \subseteq Nat /\ ckpt \in [DOMAIN ckpt -> CkptFolder]
  BY DEF Init
<1>2. cache \in [0 .. TotalEpochs - 1 -> [st : FileState, signed : Signature, view : View]]
  BY ViewTypes DEF Init
<1>3. kept \in Seq(Nat) /\ policy \in History /\ view \in View
  BY ViewTypes DEF Init
<1> QED BY <1>1, <1>2, <1>3, ViewTypes DEF Init, TypeOK, Phases, NoTracker

LEMMA TypeBoot ==
    ASSUME ConfigAssumption, TypeOK, Boot
    PROVE TypeOK'
<1>1. CASE StartFromScratch
  BY <1>1 DEF StartFromScratch, TypeOK, Phases, diskVars, histVars
<1>2. CASE Resume
  <2>1. tracker \in Nat /\ RestoredView.n \in Nat \ {0}
    <3>1. RestoredView.n \in 0 .. BatchesPerEpoch /\ BatchesPerEpoch \in Nat
      BY RestoredTypes DEF View, ConfigAssumption
    <3>2. tracker # TornTracker /\ RestoredView.n > 0
      BY <1>2 DEF Resume, Loadable
    <3>3. tracker \in Nat
      BY <3>2 DEF TypeOK
    <3> QED BY <3>1, <3>2, <3>3
  <2>2. policy' \in History /\ view' \in View
    BY <1>2, RestoredTypes DEF Resume, CkptFolder
  <2>3. loader' \in [pos : Nat, finished : BOOLEAN, resumed : BOOLEAN]
    <3>1. Restored.data \in [st : FileState, pos : Nat, finished : BOOLEAN]
      BY RestoredTypes DEF CkptFolder
    <3>2. \/ loader' = FreshLoader
          \/ loader' = [pos |-> Restored.data.pos, finished |-> Restored.data.finished,
                        resumed |-> TRUE]
      BY <1>2 DEF Resume
    <3>3. CASE loader' = FreshLoader
      BY <3>3, ViewTypes
    <3>4. CASE loader' = [pos |-> Restored.data.pos, finished |-> Restored.data.finished,
                          resumed |-> TRUE]
      <4>1. Restored.data.pos \in Nat /\ Restored.data.finished \in BOOLEAN
        BY <3>1
      <4> QED BY <3>4, <4>1
    <3> QED BY <3>2, <3>3, <3>4
  <2>4. epoch' \in Nat /\ skipGen' \in BOOLEAN /\ step' \in Nat
    BY <1>2, <2>1 DEF Resume, ResumedStep, AtBoundary
  <2> QED
    BY <1>2, <2>2, <2>3, <2>4 DEF Resume, TypeOK, Phases, diskVars, histVars
<1>3. CASE ResumeFails
  BY <1>3 DEF ResumeFails, TypeOK, Phases, procVars, diskVars, histVars
<1> QED BY <1>1, <1>2, <1>3 DEF Boot

LEMMA TypeGeneration ==
    ASSUME ConfigAssumption, TypeOK, Generation
    PROVE TypeOK'
<1>1. CASE SkipGeneration
  BY <1>1 DEF SkipGeneration, TypeOK, Phases, diskVars, histVars
<1>2. CASE NoGeneration
  BY <1>2 DEF NoGeneration, TypeOK, Phases, procVars, diskVars, histVars
<1>3. CASE LoadCachedEpoch
  <2>1. view' \in View
    BY <1>3 DEF LoadCachedEpoch, TypeOK, ConfigAssumption
  <2> QED BY <1>3, <2>1 DEF LoadCachedEpoch, TypeOK, Phases, diskVars, histVars
<1>4. CASE GenerateEpoch
  <2>1. view' \in View
    BY <1>4, PassType DEF GenerateEpoch
  <2> QED BY <1>4, <2>1 DEF GenerateEpoch, TypeOK, Phases, diskVars
<1>5. CASE GenerateOnEmpty
  BY <1>5 DEF GenerateOnEmpty, TypeOK, Phases, procVars, diskVars, histVars
<1>6. CASE WriteCache
  <2>1. cfg.signed \in Signature
    BY DEF TypeOK, Signature
  <2>2. cache' \in [0 .. TotalEpochs - 1 -> [st : FileState, signed : Signature, view : View]]
    BY <1>6, <2>1 DEF WriteCache, TypeOK, FileState
  <2> QED BY <1>6, <2>2 DEF WriteCache, TypeOK, Phases, procVars, histVars
<1> QED BY <1>1, <1>2, <1>3, <1>4, <1>5, <1>6 DEF Generation

LEMMA TypeTraining ==
    ASSUME ConfigAssumption, TypeOK, Training
    PROVE TypeOK'
<1>1. CASE BeginEpoch
  <2>1. loader' \in [pos : Nat, finished : BOOLEAN, resumed : BOOLEAN]
    BY <1>1, ViewTypes DEF BeginEpoch, NextIteration, TypeOK
  <2> QED BY <1>1, <2>1 DEF BeginEpoch, TypeOK, Phases, diskVars, histVars
<1>2. CASE TrainBatch
  <2>1. view.n \in 0 .. view.n
    BY DEF TypeOK, View, ConfigAssumption
  <2>2. view' \in View
    BY <1>2, <2>1, PassType DEF TrainBatch, TypeOK
  <2>3. passes' \in Nat
    BY <1>2 DEF TrainBatch, TypeOK
  <2>4. [epoch |-> epoch, batch |-> loader.pos, view |-> view']
          \in [epoch : Nat, batch : Nat, view : View]
    BY <2>2 DEF TypeOK
  <2>5. policy' \in History
    BY <1>2, <2>4 DEF TrainBatch, TypeOK, History
  <2>6. loader' \in [pos : Nat, finished : BOOLEAN, resumed : BOOLEAN]
    <3>1. loader' = [loader EXCEPT !.pos = @ + 1]
      BY <1>2 DEF TrainBatch
    <3>2. loader \in [pos : Nat, finished : BOOLEAN, resumed : BOOLEAN]
      BY DEF TypeOK
    <3> QED BY <3>1, <3>2
  <2>7. pc' \in Phases
    BY <1>2 DEF TrainBatch, Phases
  <2> QED BY <1>2, <2>2, <2>3, <2>5, <2>6, <2>7 DEF TrainBatch, TypeOK, diskVars
<1>3. CASE Advance
  BY <1>3 DEF Advance, TypeOK, Phases, diskVars, histVars
<1>4. CASE EndEpoch
  <2>1. loader' \in [pos : Nat, finished : BOOLEAN, resumed : BOOLEAN]
    BY <1>4 DEF EndEpoch, TypeOK
  <2> QED BY <1>4, <2>1 DEF EndEpoch, TypeOK, Phases, diskVars, histVars
<1> QED BY <1>1, <1>2, <1>3, <1>4 DEF Training

LEMMA TypeSaving ==
    ASSUME ConfigAssumption, TypeOK, Saving
    PROVE TypeOK'
<1>1. CASE FallbackSave
  BY <1>1 DEF FallbackSave, TypeOK, Phases, diskVars, histVars
<1>2. CASE NoFallbackSave
  BY <1>2 DEF NoFallbackSave, TypeOK, Phases, procVars, diskVars, histVars
<1>3. CASE FinishFallback
  BY <1>3 DEF FinishFallback, TypeOK, Phases, diskVars, histVars
<1>4. CASE SaveRotate
  <2>1. Surplus \in Nat /\ (Surplus > 0 => Surplus <= Len(kept))
    <3>1. Len(kept) \in Nat /\ KeepCkpts \in Nat
      BY DEF ConfigAssumption, TypeOK
    <3> QED BY <3>1 DEF Surplus
  <2>2. kept' \in Seq(Nat)
    <3>1. kept \in Seq(Nat) /\ kept' = SubSeq(kept, Surplus + 1, Len(kept))
      BY <1>4 DEF SaveRotate, TypeOK
    <3> QED BY <3>1, <2>1
  <2>3. DOMAIN ckpt' \subseteq Nat /\ ckpt' \in [DOMAIN ckpt' -> CkptFolder]
    <3>1. \A s \in DOMAIN ckpt :
            /\ ckpt[s] \in CkptFolder
            /\ [ckpt[s] EXCEPT !.actor = NoActor] \in CkptFolder
      <4> TAKE s \in DOMAIN ckpt
      <4>1. ckpt[s] \in CkptFolder
        BY DEF TypeOK
      <4>2. NoActor \in [st : FileState, steps : History]
        BY ViewTypes DEF NoActor, FileState
      <4> QED BY <4>1, <4>2 DEF CkptFolder
    <3>2. DOMAIN ckpt' = DOMAIN ckpt
      BY <1>4 DEF SaveRotate
    <3>3. \A s \in DOMAIN ckpt : ckpt'[s] \in {ckpt[s], [ckpt[s] EXCEPT !.actor = NoActor]}
      BY <1>4 DEF SaveRotate
    <3>4. ckpt' = [s \in DOMAIN ckpt |-> ckpt'[s]]
      BY <1>4 DEF SaveRotate
    <3> QED BY <3>1, <3>2, <3>3, <3>4 DEF TypeOK
  <2> QED BY <1>4, <2>2, <2>3 DEF SaveRotate, TypeOK, Phases, histVars
<1>5. CASE SaveActor
  <2>1. [Folder(step) EXCEPT !.actor = [st |-> "ok", steps |-> policy]] \in CkptFolder
    BY FolderType, ZenonT(60) DEF TypeOK, CkptFolder, FileState
  <2>2. DOMAIN ckpt' \subseteq Nat /\ ckpt' \in [DOMAIN ckpt' -> CkptFolder]
    BY <1>5, <2>1, PutType DEF SaveActor, TypeOK
  <2>3. kept' \in Seq(Nat)
    BY <1>5 DEF SaveActor, TypeOK
  <2> QED BY <1>5, <2>2, <2>3 DEF SaveActor, TypeOK, Phases, histVars
<1>6. CASE SaveData
  <2>1. [Folder(step) EXCEPT !.data =
           [st |-> "ok", pos |-> loader.pos, finished |-> loader.finished]] \in CkptFolder
    BY FolderType, ZenonT(60) DEF TypeOK, CkptFolder, FileState
  <2>2. DOMAIN ckpt' \subseteq Nat /\ ckpt' \in [DOMAIN ckpt' -> CkptFolder]
    BY <1>6, <2>1, PutType DEF SaveData, TypeOK
  <2> QED BY <1>6, <2>2 DEF SaveData, TypeOK, Phases, procVars, histVars
<1>7. CASE SaveAdaptive
  <2>1. [Folder(step) EXCEPT !.adaptive = AdaptiveFile] \in CkptFolder
    BY FolderType, ZenonT(60) DEF TypeOK, CkptFolder, FileState, AdaptiveFile
  <2>2. DOMAIN ckpt' \subseteq Nat /\ ckpt' \in [DOMAIN ckpt' -> CkptFolder]
    BY <1>7, <2>1, PutType DEF SaveAdaptive, TypeOK
  <2> QED BY <1>7, <2>2 DEF SaveAdaptive, TypeOK, Phases, procVars, histVars
<1>8. CASE SaveTracker
  BY <1>8 DEF SaveTracker, TypeOK, Phases, procVars, histVars
<1> QED BY <1>1, <1>2, <1>3, <1>4, <1>5, <1>6, <1>7, <1>8 DEF Saving

LEMMA TypeCrash ==
    ASSUME ConfigAssumption, TypeOK, Crash \/ CrashMidWrite
    PROVE TypeOK'
<1>1. /\ pc' \in Phases /\ cfg' \in Configs
      /\ step' \in Nat /\ epoch' \in Nat /\ batchIdx' \in Nat
      /\ loader' \in [pos : Nat, finished : BOOLEAN, resumed : BOOLEAN]
      /\ skipGen' \in BOOLEAN /\ view' \in View /\ policy' \in History
      /\ kept' \in Seq(Nat)
  <2>1. FreshProcess
    BY DEF Crash, CrashMidWrite
  <2>2. /\ loader' = FreshLoader /\ view' = InitialView
        /\ policy' = <<>> /\ kept' = <<>>
    BY <2>1 DEF FreshProcess
  <2>3. loader' \in [pos : Nat, finished : BOOLEAN, resumed : BOOLEAN]
    BY <2>2, ViewTypes
  <2>4. view' \in View /\ policy' \in History /\ kept' \in Seq(Nat)
    BY <2>2, ViewTypes
  <2> QED BY <2>1, <2>3, <2>4 DEF FreshProcess, Phases
<1>2. crashes' \in Nat /\ passes' \in Nat
  BY DEF Crash, CrashMidWrite, TypeOK
<1>3. CASE Crash
  BY <1>1, <1>2, <1>3 DEF Crash, TypeOK, diskVars
<1>4. CASE CrashMidWrite
  <2>1. DOMAIN ckpt' \subseteq Nat /\ ckpt' \in [DOMAIN ckpt' -> CkptFolder]
    <3>1. CASE pc \in {"actor", "data", "adaptive"}
      <4>1. TornFolder \in CkptFolder
        BY <3>1, FolderType, ViewTypes DEF TornFolder, CkptFolder, NoActor, NoData,
           NoAdaptive, FileState, History
      <4> QED BY <1>4, <3>1, <4>1, PutType DEF CrashMidWrite, TypeOK
    <3>2. CASE pc \notin {"actor", "data", "adaptive"}
      BY <1>4, <3>2 DEF CrashMidWrite, TypeOK
    <3> QED BY <3>1, <3>2
  <2>2. cache' \in [0 .. TotalEpochs - 1 -> [st : FileState, signed : Signature, view : View]]
    BY <1>4 DEF CrashMidWrite, TypeOK, FileState
  <2>3. tracker' \in Nat \cup {TornTracker}
    BY <1>4 DEF CrashMidWrite, TypeOK
  <2> QED BY <1>1, <1>2, <1>4, <2>1, <2>2, <2>3 DEF TypeOK
<1> QED BY <1>3, <1>4

LEMMA TypeNext ==
    ASSUME ConfigAssumption, TypeOK, [Next]_vars
    PROVE TypeOK'
<1>1. CASE Process
  BY <1>1, TypeBoot, TypeGeneration, TypeTraining, TypeSaving DEF Process
<1>2. CASE Crash \/ CrashMidWrite
  BY <1>2, TypeCrash
<1>3. CASE UNCHANGED vars
  BY <1>3 DEF vars, procVars, diskVars, histVars, TypeOK
<1> QED BY <1>1, <1>2, <1>3 DEF Next, Halted

\* Every variable keeps its type, whatever the configuration, the crashes and
\* the files they tear.
THEOREM TypeCorrect == Spec => []TypeOK
<1>1. Init => TypeOK
  BY TypeInit, ConfigAssumption
<1>2. TypeOK /\ [Next]_vars => TypeOK'
  BY TypeNext, ConfigAssumption
<1> QED BY <1>1, <1>2, PTL DEF Spec

-----------------------------------------------------------------------------
(* The step count.                                                         *)

LEMMA CountedSplit == StepsCounted <=> ProcessCounted /\ DiskCounted
BY DEF StepsCounted, ProcessCounted, DiskCounted, FolderCounted

LEMMA FolderIsCounted ==
    ASSUME DiskCounted, NEW s
    PROVE FolderCounted(s, Folder(s))
BY DEF DiskCounted, Folder, FolderCounted, NoFolder, NoActor

LEMMA PutCounted ==
    ASSUME DiskCounted, NEW s, NEW f, FolderCounted(s, f), ckpt' = Put(ckpt, s, f)
    PROVE DiskCounted'
BY DEF DiskCounted, FolderCounted, Put

LEMMA CountInit ==
    ASSUME ConfigAssumption
    PROVE Init => StepInv
<1> SUFFICES ASSUME Init PROVE StepInv
  OBVIOUS
<1>1. TypeOK
  BY TypeInit
<1> QED BY <1>1 DEF Init, StepInv, BootFresh, ProcessCounted, DiskCounted

LEMMA CountBoot ==
    ASSUME ConfigAssumption, StepInv, Boot
    PROVE BootFresh' /\ ProcessCounted' /\ DiskCounted'
<1>1. DiskCounted'
  BY DEF StepInv, DiskCounted, FolderCounted, Boot, StartFromScratch, Resume,
     ResumeFails, diskVars
<1>2. CASE StartFromScratch
  <2>1. policy' = <<>> /\ step' = 1 /\ pc' = "epoch"
    BY <1>2 DEF StartFromScratch, StepInv, BootFresh
  <2> QED BY <1>1, <2>1 DEF BootFresh, ProcessCounted
<1>3. CASE Resume
  <2>1. /\ tracker \in Nat /\ Restored.actor.st = "ok"
        /\ policy' = Restored.actor.steps /\ step' = tracker + 1 /\ pc' = "epoch"
    BY <1>3 DEF Resume, Loadable, ResumedStep, StepInv, TypeOK
  <2>2. Len(Restored.actor.steps) = tracker
    BY <2>1, FolderIsCounted DEF StepInv, FolderCounted, Restored
  <2> QED BY <1>1, <2>1, <2>2 DEF BootFresh, ProcessCounted
<1>4. CASE ResumeFails
  BY <1>1, <1>4 DEF ResumeFails, BootFresh, ProcessCounted
<1> QED BY <1>2, <1>3, <1>4 DEF Boot

LEMMA CountGeneration ==
    ASSUME ConfigAssumption, StepInv, Generation
    PROVE BootFresh' /\ ProcessCounted' /\ DiskCounted'
<1>1. /\ ckpt' = ckpt /\ policy' = policy /\ step' = step
      /\ pc \in {"epoch", "cache"} /\ pc' \in {"begin", "cache"}
  BY DEF Generation, SkipGeneration, NoGeneration, LoadCachedEpoch, GenerateEpoch,
     GenerateOnEmpty, WriteCache, procVars, diskVars
<1> QED BY <1>1 DEF StepInv, BootFresh, ProcessCounted, DiskCounted, FolderCounted

LEMMA CountTraining ==
    ASSUME ConfigAssumption, StepInv, Training
    PROVE BootFresh' /\ ProcessCounted' /\ DiskCounted'
<1>1. DiskCounted'
  BY DEF StepInv, DiskCounted, FolderCounted, Training, BeginEpoch, TrainBatch,
     Advance, EndEpoch, diskVars
<1>2. step \in Nat /\ policy \in History /\ Len(policy) \in Nat
  BY DEF StepInv, TypeOK, History
<1>3. CASE BeginEpoch
  BY <1>1, <1>3 DEF BeginEpoch, StepInv, BootFresh, ProcessCounted
<1>4. CASE TrainBatch
  <2>1. /\ pc = "batch" /\ pc' \in {"rotate", "advance"} /\ step' = step
        /\ policy' = Append(policy, [epoch |-> epoch, batch |-> loader.pos, view |-> view'])
    BY <1>4 DEF TrainBatch
  <2>2. Len(policy') = Len(policy) + 1
    BY <1>2, <2>1 DEF History
  <2>3. Len(policy) = step - 1
    BY <2>1 DEF StepInv, ProcessCounted
  <2> QED BY <1>1, <1>2, <2>1, <2>2, <2>3 DEF BootFresh, ProcessCounted
<1>5. CASE Advance
  <2>1. /\ pc = "advance" /\ pc' \in {"done", "batch"} /\ step' = step + 1
        /\ policy' = policy
    BY <1>5 DEF Advance
  <2>2. Len(policy) = step
    BY <2>1 DEF StepInv, ProcessCounted
  <2> QED BY <1>1, <1>2, <2>1, <2>2 DEF BootFresh, ProcessCounted
<1>6. CASE EndEpoch
  BY <1>1, <1>6 DEF EndEpoch, StepInv, BootFresh, ProcessCounted
<1> QED BY <1>3, <1>4, <1>5, <1>6 DEF Training

LEMMA CountSaving ==
    ASSUME ConfigAssumption, StepInv, Saving
    PROVE BootFresh' /\ ProcessCounted' /\ DiskCounted'
<1>1. step \in Nat /\ policy' = policy /\ TypeOK /\ DiskCounted /\ pc' # "boot"
  BY DEF StepInv, TypeOK, Saving, FallbackSave, NoFallbackSave, FinishFallback,
     SaveRotate, SaveActor, SaveData, SaveAdaptive, SaveTracker, procVars
<1>2. ProcessCounted'
  BY <1>1 DEF StepInv, ProcessCounted, Saving, FallbackSave, NoFallbackSave,
     FinishFallback, SaveRotate, SaveActor, SaveData, SaveAdaptive, SaveTracker, procVars
<1>3. CASE UNCHANGED ckpt
  BY <1>1, <1>2, <1>3 DEF BootFresh, DiskCounted, FolderCounted
<1>4. CASE SaveRotate
  <2>1. \A s \in DOMAIN ckpt : ckpt[s] \in CkptFolder
    BY <1>1 DEF TypeOK
  <2>2. DOMAIN ckpt' = DOMAIN ckpt
    BY <1>4 DEF SaveRotate
  <2>3. \A s \in DOMAIN ckpt :
          ckpt'[s] = ckpt[s] \/ ckpt'[s] = [ckpt[s] EXCEPT !.actor = NoActor]
    BY <1>4 DEF SaveRotate
  <2>4. DiskCounted'
    BY <1>1, <2>1, <2>2, <2>3 DEF DiskCounted, FolderCounted, CkptFolder, NoActor
  <2> QED BY <1>1, <1>2, <2>4 DEF BootFresh
<1>5. CASE SaveActor
  <2> DEFINE f == [Folder(step) EXCEPT !.actor = [st |-> "ok", steps |-> policy]]
  <2>1. Len(policy) = step /\ ckpt' = Put(ckpt, step, f)
    BY <1>5 DEF SaveActor, StepInv, ProcessCounted
  <2>2. f.actor = [st |-> "ok", steps |-> policy]
    BY <1>1, FolderType DEF CkptFolder
  <2>3. FolderCounted(step, f)
    BY <2>1, <2>2 DEF FolderCounted
  <2> QED BY <1>1, <1>2, <2>1, <2>3, PutCounted DEF BootFresh
<1>6. CASE SaveData
  <2> DEFINE f == [Folder(step) EXCEPT !.data =
                     [st |-> "ok", pos |-> loader.pos, finished |-> loader.finished]]
  <2>1. ckpt' = Put(ckpt, step, f)
    BY <1>6 DEF SaveData
  <2>2. f.actor = Folder(step).actor
    BY <1>1, FolderType DEF CkptFolder
  <2>3. FolderCounted(step, f)
    BY <1>1, <2>2, FolderIsCounted DEF FolderCounted
  <2> QED BY <1>1, <1>2, <2>1, <2>3, PutCounted DEF BootFresh
<1>7. CASE SaveAdaptive
  <2> DEFINE f == [Folder(step) EXCEPT !.adaptive = AdaptiveFile]
  <2>1. ckpt' = Put(ckpt, step, f)
    BY <1>7 DEF SaveAdaptive
  <2>2. f.actor = Folder(step).actor
    BY <1>1, FolderType DEF CkptFolder
  <2>3. FolderCounted(step, f)
    BY <1>1, <2>2, FolderIsCounted DEF FolderCounted
  <2> QED BY <1>1, <1>2, <2>1, <2>3, PutCounted DEF BootFresh
<1>8. \/ UNCHANGED ckpt
      \/ SaveRotate \/ SaveActor \/ SaveData \/ SaveAdaptive
  BY DEF Saving, FallbackSave, NoFallbackSave, FinishFallback, SaveTracker, diskVars
<1> QED BY <1>3, <1>4, <1>5, <1>6, <1>7, <1>8

LEMMA CountCrash ==
    ASSUME ConfigAssumption, StepInv, Crash \/ CrashMidWrite
    PROVE BootFresh' /\ ProcessCounted' /\ DiskCounted'
<1>1. pc' = "boot" /\ policy' = <<>>
  BY DEF Crash, CrashMidWrite, FreshProcess
<1>2. BootFresh' /\ ProcessCounted'
  BY <1>1 DEF BootFresh, ProcessCounted
<1>3. CASE UNCHANGED ckpt
  BY <1>2, <1>3 DEF StepInv, DiskCounted, FolderCounted
<1>4. CASE ckpt' = Put(ckpt, step, TornFolder) /\ pc \in {"actor", "data", "adaptive"}
  <2>1. Folder(step) \in CkptFolder /\ FolderCounted(step, Folder(step))
    BY FolderType, FolderIsCounted DEF StepInv
  <2>2. \/ TornFolder.actor = [NoActor EXCEPT !.st = "torn"]
        \/ TornFolder.actor = Folder(step).actor
    BY <1>4, <2>1 DEF TornFolder, CkptFolder
  <2>3. FolderCounted(step, TornFolder)
    BY <2>1, <2>2 DEF FolderCounted, NoActor
  <2> QED BY <1>2, <1>4, <2>3, PutCounted DEF StepInv
<1> QED BY <1>3, <1>4 DEF Crash, CrashMidWrite, diskVars

LEMMA CountNext ==
    ASSUME ConfigAssumption, StepInv, [Next]_vars
    PROVE StepInv'
<1>1. TypeOK'
  BY TypeNext DEF StepInv
<1>2. CASE Process
  BY <1>1, <1>2, CountBoot, CountGeneration, CountTraining, CountSaving
  DEF Process, StepInv
<1>3. CASE Crash \/ CrashMidWrite
  BY <1>1, <1>3, CountCrash DEF StepInv
<1>4. CASE UNCHANGED vars
  BY <1>1, <1>4 DEF vars, procVars, diskVars, StepInv, BootFresh, ProcessCounted,
     DiskCounted, FolderCounted
<1> QED BY <1>2, <1>3, <1>4 DEF Next, Halted

\* The step count and the weights never drift apart, in memory and in every
\* readable checkpoint, through any crashes, restarts, drops and caches.
THEOREM StepsCountedHolds == Spec => []StepsCounted
<1>1. Init => StepInv
  BY CountInit, ConfigAssumption
<1>2. StepInv /\ [Next]_vars => StepInv'
  BY CountNext, ConfigAssumption
<1>3. StepInv => StepsCounted
  BY CountedSplit DEF StepInv
<1> QED BY <1>1, <1>2, <1>3, PTL DEF Spec

-----------------------------------------------------------------------------
(* The tracker.                                                            *)

LEMMA TrackerStep ==
    ASSUME ConfigAssumption, "tracker" \notin Tearable, TypeOK, TrackerBehind,
           [Next]_vars
    PROVE TrackerBehind' /\ tracker' >= tracker
<1>1. step \in Nat /\ tracker \in Nat
  BY DEF TypeOK, TrackerBehind
<1>2. CASE Boot
  BY <1>1, <1>2 DEF Boot, StartFromScratch, Resume, ResumeFails, ResumedStep,
     NoTracker, TornTracker, TrackerBehind, diskVars
<1>3. CASE Generation
  BY <1>1, <1>3 DEF Generation, SkipGeneration, NoGeneration, LoadCachedEpoch,
     GenerateEpoch, GenerateOnEmpty, WriteCache, TrackerBehind, procVars, diskVars
<1>4. CASE Training
  BY <1>1, <1>4 DEF Training, BeginEpoch, TrainBatch, Advance, EndEpoch,
     TrackerBehind, diskVars
<1>5. CASE Saving
  BY <1>1, <1>5 DEF Saving, FallbackSave, NoFallbackSave, FinishFallback,
     SaveRotate, SaveActor, SaveData, SaveAdaptive, SaveTracker, TrackerBehind,
     TornTracker, procVars, diskVars
<1>6. CASE Crash \/ CrashMidWrite
  BY <1>1, <1>6 DEF Crash, CrashMidWrite, FreshProcess, TrackerBehind, diskVars
<1>7. CASE UNCHANGED vars
  BY <1>1, <1>7 DEF vars, procVars, diskVars, TrackerBehind
<1> QED BY <1>2, <1>3, <1>4, <1>5, <1>6, <1>7 DEF Next, Process, Halted

\* As long as the one-line tracker file itself is never torn, whatever happens
\* to the large files, a save never moves the resume point backwards.
THEOREM TrackerForward ==
    ASSUME "tracker" \notin Tearable
    PROVE Spec => TrackerMovesForward
<1>1. Init => TypeOK /\ TrackerBehind
  <2>1. Init => pc = "boot" /\ tracker = 0
    BY DEF Init, NoTracker
  <2>2. pc = "boot" /\ tracker = 0 => TrackerBehind
    BY DEF TrackerBehind, TornTracker
  <2> QED BY <2>1, <2>2, TypeInit, ConfigAssumption
<1>2. TypeOK /\ TrackerBehind /\ [Next]_vars => TypeOK' /\ TrackerBehind'
  BY TypeNext, TrackerStep, ConfigAssumption
<1>3. TypeOK /\ TrackerBehind /\ [Next]_vars => [tracker' >= tracker]_tracker
  BY TrackerStep, ConfigAssumption
<1> QED BY <1>1, <1>2, <1>3, PTL DEF Spec, TrackerMovesForward

-----------------------------------------------------------------------------
(* Histories of training steps.                                            *)

PassRecord == [id : Nat, cfg : Configs]

StepRecord == [epoch : Nat, batch : Nat, view : View]

LEMMA HistoryFacts ==
    ASSUME NEW h \in History
    PROVE /\ Len(h) \in Nat /\ DOMAIN h = 1 .. Len(h)
          /\ h = <<>> => Len(h) = 0
          /\ h # <<>> => Len(h) > 0 /\ Len(h) \in DOMAIN h
          /\ \A i \in DOMAIN h : /\ h[i].epoch \in Nat /\ h[i].batch \in Nat
                                 /\ h[i].view \in View /\ h[i].view.gens \in Seq(PassRecord)
<1> DEFINE S == StepRecord
<1>1. h \in Seq(S)
  BY DEF History, StepRecord
<1> HIDE DEF S
<1>2. /\ Len(h) \in Nat /\ DOMAIN h = 1 .. Len(h) /\ (h = <<>> => Len(h) = 0)
      /\ (h # <<>> => Len(h) > 0 /\ Len(h) \in DOMAIN h)
      /\ \A i \in DOMAIN h : h[i] \in S
  BY <1>1
<1>3. \A x \in S : /\ x.epoch \in Nat /\ x.batch \in Nat /\ x.view \in View
                   /\ x.view.gens \in Seq(PassRecord)
  BY DEF S, StepRecord, View, PassRecord
<1> QED BY <1>2, <1>3

LEMMA HistoryAppend ==
    ASSUME NEW h \in History, NEW x \in StepRecord
    PROVE /\ Append(h, x) \in History /\ Append(h, x) # <<>>
          /\ Len(Append(h, x)) = Len(h) + 1 /\ Append(h, x)[Len(h) + 1] = x
          /\ DOMAIN Append(h, x) = 1 .. Len(h) + 1
          /\ \A i \in 1 .. Len(h) : Append(h, x)[i] = h[i]
<1> DEFINE S == StepRecord
           hx == Append(h, x)
<1>1. h \in Seq(S) /\ x \in S
  BY DEF History, StepRecord
<1> HIDE DEF S
<1>2. /\ hx \in Seq(S) /\ Len(hx) = Len(h) + 1 /\ hx[Len(h) + 1] = x
      /\ DOMAIN hx = 1 .. Len(h) + 1 /\ \A i \in 1 .. Len(h) : hx[i] = h[i]
      /\ Len(h) \in Nat
  BY <1>1
<1>3. hx # <<>>
  BY <1>2
<1> QED BY <1>2, <1>3 DEF S, StepRecord, History

-----------------------------------------------------------------------------
(* What a resume preserves.                                                *)

\* The number of training steps that precede batch p of epoch e.
At(e, p) == e * BatchesPerEpoch + p

\* Step i of the history h trained the batch that comes i-th when every epoch
\* has all its batches.
InOrder(h) ==
    \A i \in DOMAIN h :
      /\ h[i].epoch < TotalEpochs
      /\ h[i].batch < BatchesPerEpoch
      /\ h[i].view.n = BatchesPerEpoch
      /\ i - 1 = At(h[i].epoch, h[i].batch)

\* A saved loader position continues after step s, where it is used: in the
\* middle of an epoch.
DataFits(s, d) ==
    d.st = "ok" /\ s % BatchesPerEpoch # 0
      => d.pos = s % BatchesPerEpoch /\ ~d.finished

\* No view, in memory or on disk, ever lost a batch.
ViewsFull ==
    /\ view.n = BatchesPerEpoch
    /\ \A e \in 0 .. TotalEpochs - 1 : cache[e].view.n = BatchesPerEpoch
    /\ \A s \in DOMAIN ckpt : ckpt[s].adaptive.view.n = BatchesPerEpoch

DiskInOrder ==
    \A s \in DOMAIN ckpt : InOrder(ckpt[s].actor.steps) /\ DataFits(s, ckpt[s].data)

\* The loader position of the checkpoint the tracker names was written.
DataWritten ==
    /\ tracker \notin {NoTracker, TornTracker} => Folder(tracker).data.st # "absent"
    /\ pc \in {"adaptive", "tracker"} => Folder(step).data.st # "absent"

AtStart == Len(policy) = At(epoch, 0)

Within ==
    /\ Len(policy) = At(epoch, loader.pos)
    /\ loader.pos \in 0 .. BatchesPerEpoch
    /\ ~loader.finished

Resumed == Within /\ loader.pos \in 1 .. BatchesPerEpoch - 1 /\ loader.resumed

Saves == {"rotate", "actor", "data", "adaptive", "tracker"}

\* Where the process stands in the epoch agrees with its weights.
Positions ==
    /\ pc \in {"epoch", "cache"} =>
         IF skipGen THEN pc = "epoch" /\ Resumed ELSE AtStart /\ ~loader.resumed
    /\ pc = "begin" => ~skipGen /\ (IF loader.resumed THEN Resumed ELSE AtStart)
    /\ pc = "batch" => Within /\ ~loader.resumed
    /\ pc \in Saves =>
         IF epoch < TotalEpochs
           THEN Within /\ loader.pos > 0 /\ ~loader.resumed
           ELSE AtStart \/ (Within /\ loader.pos > 0)
    /\ pc = "advance" => Within /\ loader.pos > 0 /\ ~loader.resumed
    /\ pc \in {"cache", "begin", "batch", "advance"} => epoch < TotalEpochs
    /\ pc = "boot" => epoch = 0 /\ ~skipGen /\ ~loader.resumed
    /\ pc \in {"batch", "advance"} \/ (pc \in Saves /\ epoch < TotalEpochs) => ~skipGen

\* The inductive strengthening of TrainedInOrder.
OrderInv ==
    /\ StepInv
    /\ InOrder(policy)
    /\ ViewsFull
    /\ DiskInOrder
    /\ DataWritten
    /\ Positions

-----------------------------------------------------------------------------
(* Arithmetic.                                                             *)

\* Quotient and remainder are the only way to write s as q * b + r.
LEMMA Quotient ==
    ASSUME NEW b \in Nat \ {0}, NEW q \in Nat, NEW r \in 0 .. b - 1, NEW s \in Nat,
           s = q * b + r
    PROVE s \div b = q /\ s % b = r
<1> DEFINE d == s \div b
           m == s % b
<1>1. d \in Nat /\ m \in 0 .. b - 1 /\ s = b * d + m
  OBVIOUS
<1> HIDE DEF d, m
<1>2. CASE d < q
  <2>1. PICK k \in Nat : q = d + 1 + k
    <3>1. q - d - 1 \in Nat
      BY <1>1, <1>2
    <3> QED BY <1>1, <3>1
  <2>2. q * b = d * b + b + k * b
    BY <1>1, <2>1
  <2>3. k * b >= 0
    BY <2>1
  <2> QED BY <1>1, <2>2, <2>3
<1>3. CASE d > q
  <2>1. PICK k \in Nat : d = q + 1 + k
    <3>1. d - q - 1 \in Nat
      BY <1>1, <1>3
    <3> QED BY <1>1, <3>1
  <2>2. d * b = q * b + b + k * b
    BY <1>1, <2>1
  <2>3. k * b >= 0
    BY <2>1
  <2> QED BY <1>1, <2>2, <2>3
<1>4. CASE d = q
  BY <1>1, <1>4
<1>5. d = q /\ m = r
  BY <1>1, <1>2, <1>3, <1>4
<1> QED BY <1>5 DEF d, m

LEMMA Divide ==
    ASSUME NEW b \in Nat \ {0}, NEW s \in Nat
    PROVE /\ s \div b \in Nat /\ s % b \in 0 .. b - 1
          /\ s = (s \div b) * b + (s % b)
OBVIOUS

LEMMA AtIsNat ==
    ASSUME ConfigAssumption, NEW e \in Nat, NEW p \in Nat
    PROVE At(e, p) \in Nat /\ At(e, p + 1) = At(e, p) + 1
          /\ At(e + 1, 0) = At(e, BatchesPerEpoch)
BY DEF At, ConfigAssumption

\* The batch a step count stands for.
LEMMA AtUnique ==
    ASSUME ConfigAssumption, NEW e1 \in Nat, NEW e2 \in Nat,
           NEW p1 \in 0 .. BatchesPerEpoch - 1, NEW p2 \in 0 .. BatchesPerEpoch - 1,
           At(e1, p1) = At(e2, p2)
    PROVE e1 = e2 /\ p1 = p2
<1>1. BatchesPerEpoch \in Nat \ {0}
  BY DEF ConfigAssumption
<1>2. At(e1, p1) \in Nat
  BY AtIsNat
<1>3. At(e1, p1) \div BatchesPerEpoch = e1 /\ At(e1, p1) % BatchesPerEpoch = p1
  BY <1>1, <1>2, Quotient DEF At
<1>4. At(e2, p2) \div BatchesPerEpoch = e2 /\ At(e2, p2) % BatchesPerEpoch = p2
  BY <1>1, <1>2, Quotient DEF At
<1> QED BY <1>3, <1>4

\* A position within an epoch, as a remainder of the step count.
LEMMA AtRemainder ==
    ASSUME ConfigAssumption, NEW e \in Nat, NEW p \in 0 .. BatchesPerEpoch
    PROVE At(e, p) % BatchesPerEpoch = (IF p = BatchesPerEpoch THEN 0 ELSE p)
<1>1. BatchesPerEpoch \in Nat \ {0}
  BY DEF ConfigAssumption
<1>2. CASE p = BatchesPerEpoch
  <2>1. At(e, p) = At(e + 1, 0) /\ At(e + 1, 0) \in Nat
    BY <1>1, <1>2, AtIsNat
  <2>2. At(e + 1, 0) % BatchesPerEpoch = 0
    BY <1>1, <2>1, Quotient DEF At
  <2> QED BY <1>2, <2>1, <2>2
<1>3. CASE p # BatchesPerEpoch
  <2>1. p \in 0 .. BatchesPerEpoch - 1 /\ At(e, p) \in Nat
    BY <1>1, <1>3, AtIsNat
  <2>2. At(e, p) % BatchesPerEpoch = p
    BY <1>1, <2>1, Quotient DEF At
  <2> QED BY <1>3, <2>2
<1> QED BY <1>2, <1>3

-----------------------------------------------------------------------------
(* The disk.                                                               *)

LEMMA FolderInOrder ==
    ASSUME DiskInOrder, NEW s
    PROVE InOrder(Folder(s).actor.steps) /\ DataFits(s, Folder(s).data)
BY DEF DiskInOrder, Folder, NoFolder, NoActor, NoData, InOrder, DataFits

LEMMA PutInOrder ==
    ASSUME DiskInOrder, NEW s, NEW f, InOrder(f.actor.steps), DataFits(s, f.data),
           ckpt' = Put(ckpt, s, f)
    PROVE DiskInOrder'
BY DEF DiskInOrder, Put

LEMMA FolderFull ==
    ASSUME ConfigAssumption, ViewsFull, NEW s
    PROVE Folder(s).adaptive.view.n = BatchesPerEpoch
BY DEF ViewsFull, Folder, NoFolder, NoAdaptive, InitialView

LEMMA PutFull ==
    ASSUME ViewsFull, NEW s, NEW f, f.adaptive.view.n = BatchesPerEpoch,
           ckpt' = Put(ckpt, s, f), view'.n = BatchesPerEpoch, UNCHANGED cache
    PROVE ViewsFull'
BY DEF ViewsFull, Put

LEMMA PutFolder ==
    ASSUME NEW s, NEW f, ckpt' = Put(ckpt, s, f), NEW t
    PROVE Folder(t)' = IF t = s THEN f ELSE Folder(t)
BY DEF Put, Folder

-----------------------------------------------------------------------------
(* The steps.                                                              *)

LEMMA OrderInit ==
    ASSUME ConfigAssumption
    PROVE Init => OrderInv
<1> SUFFICES ASSUME Init PROVE OrderInv
  OBVIOUS
<1>1. StepInv
  BY CountInit
<1>2. InOrder(policy) /\ DiskInOrder /\ DataWritten /\ Positions
  BY DEF Init, InOrder, DiskInOrder, DataWritten, Positions, Saves, NoTracker, FreshLoader
<1>3. ViewsFull
  BY DEF Init, ViewsFull, InitialView, NoCache
<1> QED BY <1>1, <1>2, <1>3 DEF OrderInv

LEMMA OrderBoot ==
    ASSUME ConfigAssumption, OrderInv, Boot
    PROVE InOrder(policy)' /\ ViewsFull' /\ DiskInOrder' /\ DataWritten' /\ Positions'
<1>1. UNCHANGED <<ckpt, tracker, cache>>
  BY DEF Boot, StartFromScratch, Resume, ResumeFails, diskVars
<1>2. pc = "boot" /\ pc' \notin {"adaptive", "tracker"}
  BY DEF Boot, StartFromScratch, Resume, ResumeFails
<1>3. DiskInOrder' /\ DataWritten'
  BY <1>1, <1>2 DEF OrderInv, DiskInOrder, DataWritten, Folder
<1>4. BatchesPerEpoch \in Nat \ {0}
  BY DEF ConfigAssumption
<1>5. CASE StartFromScratch
  <2>1. /\ policy' = policy /\ policy = <<>> /\ view' = view /\ pc' = "epoch"
        /\ epoch' = epoch /\ skipGen' = skipGen /\ loader' = loader
    BY <1>5 DEF StartFromScratch, OrderInv, StepInv, BootFresh
  <2>2. epoch = 0 /\ ~skipGen /\ ~loader.resumed
    BY <1>2 DEF OrderInv, Positions
  <2> QED BY <1>3, <1>1, <2>1, <2>2, <1>4
      DEF OrderInv, InOrder, ViewsFull, Positions, AtStart, At, Saves
<1>6. CASE Resume
  <2>1. /\ tracker \in Nat /\ tracker # NoTracker /\ tracker # TornTracker
        /\ RestoredView.n = BatchesPerEpoch
        /\ policy' = Restored.actor.steps /\ view' = RestoredView /\ pc' = "epoch"
        /\ epoch' = tracker \div BatchesPerEpoch
        /\ skipGen' = ~AtBoundary
        /\ AtBoundary <=> tracker % BatchesPerEpoch = 0
    BY <1>6, FolderFull, <1>4 DEF Resume, Loadable, OrderInv, StepInv, TypeOK, RestoredView,
       Restored, InitialView, AtBoundary
  <2>2. Len(policy') = tracker
    BY <1>6, <2>1, FolderIsCounted DEF Resume, Loadable, OrderInv, StepInv,
       FolderCounted, Restored
  <2>3. /\ epoch' \in Nat /\ tracker % BatchesPerEpoch \in 0 .. BatchesPerEpoch - 1
        /\ tracker = At(epoch', tracker % BatchesPerEpoch)
    BY <2>1, <1>4, Divide DEF At
  <2>4. CASE AtBoundary
    <3>1. loader' = FreshLoader
      BY <1>6, <2>4 DEF Resume
    <3> QED BY <1>1, <1>3, <2>1, <2>2, <2>3, <2>4, <3>1, FolderInOrder
        DEF OrderInv, Restored, ViewsFull, Positions, AtStart, FreshLoader, Saves
  <2>5. CASE ~AtBoundary
    <3>1. Restored.data.st = "ok"
      <4>1. Restored.data.st # "absent" /\ Restored.data.st # "torn"
        BY <1>6, <2>1, <2>5 DEF Resume, Loadable, OrderInv, DataWritten, Restored
      <4>2. Restored.data.st \in FileState
        BY FolderType DEF OrderInv, StepInv, Restored, CkptFolder
      <4> QED BY <4>1, <4>2 DEF FileState
    <3>2. loader' = [pos |-> Restored.data.pos, finished |-> Restored.data.finished,
                     resumed |-> TRUE]
      BY <1>6, <2>5, <3>1 DEF Resume
    <3>3. DataFits(tracker, Restored.data)
      BY FolderInOrder DEF OrderInv, Restored
    <3>4. loader'.pos = tracker % BatchesPerEpoch /\ ~loader'.finished /\ loader'.resumed
      BY <2>1, <2>5, <3>1, <3>2, <3>3 DEF DataFits
    <3>5. Resumed'
      BY <1>4, <2>1, <2>2, <2>3, <2>5, <3>4 DEF Resumed, Within
    <3> QED BY <1>1, <1>3, <2>1, <2>5, <3>5, FolderInOrder
        DEF OrderInv, Restored, ViewsFull, Positions, Saves
  <2> QED BY <2>4, <2>5
<1>7. CASE ResumeFails
  BY <1>1, <1>3, <1>7 DEF ResumeFails, procVars, OrderInv, InOrder, ViewsFull, Positions,
     Saves
<1> QED BY <1>5, <1>6, <1>7 DEF Boot

LEMMA OrderGeneration ==
    ASSUME ConfigAssumption, ~MayDrop, OrderInv, Generation
    PROVE InOrder(policy)' /\ ViewsFull' /\ DiskInOrder' /\ DataWritten' /\ Positions'
<1>1. /\ UNCHANGED <<ckpt, tracker, policy, loader, epoch>>
      /\ pc \in {"epoch", "cache"} /\ pc' \in {"cache", "begin"}
      /\ epoch < TotalEpochs
      /\ IF skipGen THEN pc' = "begin" /\ pc = "epoch" /\ ~skipGen'
                    ELSE skipGen' = skipGen
  BY DEF Generation, SkipGeneration, NoGeneration, LoadCachedEpoch, GenerateEpoch,
     GenerateOnEmpty, WriteCache, procVars, diskVars, OrderInv, Positions
<1>2. DiskInOrder' /\ DataWritten' /\ InOrder(policy)'
  BY <1>1 DEF OrderInv, DiskInOrder, DataWritten, Folder
<1>3. Positions'
  BY <1>1 DEF OrderInv, Positions, AtStart, Resumed, Within, Saves
<1>4. view'.n = BatchesPerEpoch
  <2>1. CASE UNCHANGED view
    BY <2>1 DEF OrderInv, ViewsFull
  <2>2. CASE LoadCachedEpoch
    <3>1. epoch \in 0 .. TotalEpochs - 1
      BY <1>1 DEF OrderInv, StepInv, TypeOK, ConfigAssumption
    <3> QED BY <2>2, <3>1 DEF LoadCachedEpoch, OrderInv, ViewsFull
  <2>3. CASE GenerateEpoch
    BY <2>3 DEF GenerateEpoch, Pass, OrderInv, ViewsFull
  <2> QED BY <2>1, <2>2, <2>3 DEF Generation, SkipGeneration, NoGeneration,
      GenerateOnEmpty, WriteCache, procVars
<1>5. \A e \in 0 .. TotalEpochs - 1 : cache'[e].view.n = BatchesPerEpoch
  <2>1. CASE WriteCache
    BY <2>1 DEF WriteCache, OrderInv, ViewsFull, StepInv, TypeOK
  <2>2. CASE UNCHANGED cache
    BY <2>2 DEF OrderInv, ViewsFull
  <2> QED BY <2>1, <2>2 DEF Generation, SkipGeneration, NoGeneration, LoadCachedEpoch,
      GenerateEpoch, GenerateOnEmpty, diskVars
<1> QED BY <1>1, <1>2, <1>3, <1>4, <1>5 DEF OrderInv, ViewsFull

LEMMA OrderTraining ==
    ASSUME ConfigAssumption, OrderInv, Training
    PROVE InOrder(policy)' /\ ViewsFull' /\ DiskInOrder' /\ DataWritten' /\ Positions'
<1>1. UNCHANGED <<ckpt, tracker, cache>>
  BY DEF Training, BeginEpoch, TrainBatch, Advance, EndEpoch, diskVars
<1>2. pc' \notin {"adaptive", "tracker"}
  BY DEF Training, BeginEpoch, TrainBatch, Advance, EndEpoch
<1>3. DiskInOrder' /\ DataWritten'
  BY <1>1, <1>2 DEF OrderInv, DiskInOrder, DataWritten, Folder
<1>4. /\ epoch \in Nat /\ BatchesPerEpoch \in Nat \ {0} /\ policy \in History
      /\ loader \in [pos : Nat, finished : BOOLEAN, resumed : BOOLEAN]
      /\ view.n = BatchesPerEpoch
  BY DEF OrderInv, StepInv, TypeOK, ConfigAssumption, ViewsFull
<1>5. CASE BeginEpoch
  <2>1. /\ pc = "begin" /\ pc' = "batch" /\ epoch' = epoch /\ skipGen' = skipGen
        /\ policy' = policy /\ view' = view
        /\ loader' = NextIteration /\ epoch < TotalEpochs /\ ~skipGen
    BY <1>5 DEF BeginEpoch, OrderInv, Positions
  <2>2. Within' /\ ~loader'.resumed
    <3>1. CASE loader.resumed
      BY <1>4, <2>1, <3>1 DEF OrderInv, Positions, Resumed, Within, NextIteration
    <3>2. CASE ~loader.resumed
      BY <1>4, <2>1, <3>2 DEF OrderInv, Positions, AtStart, Within, NextIteration,
         FreshLoader
    <3> QED BY <3>1, <3>2
  <2> QED BY <1>1, <1>3, <2>1, <2>2 DEF OrderInv, ViewsFull, Positions, Saves
<1>6. CASE TrainBatch
  <2>1. /\ pc = "batch" /\ pc' \in {"rotate", "advance"} /\ loader.pos < view.n
        /\ epoch' = epoch /\ skipGen' = skipGen
        /\ policy' = Append(policy, [epoch |-> epoch, batch |-> loader.pos, view |-> view'])
        /\ loader' = [loader EXCEPT !.pos = @ + 1]
        /\ epoch < TotalEpochs /\ ~skipGen /\ Within /\ ~loader.resumed
    BY <1>6 DEF TrainBatch, OrderInv, Positions
  <2>2. view'.n = BatchesPerEpoch
    BY <1>4, <1>6 DEF TrainBatch, Pass
  <2>3. /\ Len(policy') = Len(policy) + 1
        /\ loader'.pos = loader.pos + 1 /\ ~loader'.finished /\ ~loader'.resumed
    BY <1>4, <2>1 DEF History, Within
  <2>4. Within' /\ loader'.pos > 0
    BY <1>4, <2>1, <2>3, AtIsNat DEF Within
  <2>5. InOrder(policy)'
    <3>1. /\ Len(policy) \in Nat /\ DOMAIN policy = 1 .. Len(policy)
          /\ DOMAIN policy' = 1 .. Len(policy) + 1
          /\ \A i \in 1 .. Len(policy) : policy'[i] = policy[i]
          /\ policy'[Len(policy) + 1] = [epoch |-> epoch, batch |-> loader.pos, view |-> view']
      BY <1>4, <2>1 DEF History
    <3>2. Len(policy) = At(epoch, loader.pos)
      BY <2>1 DEF Within
    <3> QED BY <1>4, <2>1, <2>2, <3>1, <3>2 DEF OrderInv, InOrder
  <2> QED BY <1>1, <1>3, <2>1, <2>2, <2>3, <2>4, <2>5 DEF OrderInv, ViewsFull, Positions, Saves
<1>7. CASE Advance
  BY <1>1, <1>3, <1>7 DEF Advance, OrderInv, ViewsFull, Positions, Within, Saves
<1>8. CASE EndEpoch
  <2>1. /\ pc = "batch" /\ pc' = "epoch" /\ loader.pos >= view.n /\ epoch' = epoch + 1
        /\ policy' = policy /\ view' = view /\ skipGen' = skipGen
        /\ ~loader'.resumed /\ ~skipGen /\ Within
    BY <1>4, <1>8 DEF EndEpoch, OrderInv, Positions
  <2>2. AtStart'
    BY <1>4, <2>1, AtIsNat DEF AtStart, Within
  <2> QED BY <1>1, <1>3, <2>1, <2>2 DEF OrderInv, ViewsFull, Positions, Saves
<1> QED BY <1>5, <1>6, <1>7, <1>8 DEF Training

\* The loader position that a save writes fits the step it is written for.
LEMMA SavedPosition ==
    ASSUME ConfigAssumption, OrderInv, pc \in Saves
    PROVE DataFits(step, [st |-> "ok", pos |-> loader.pos, finished |-> loader.finished])
<1>1. /\ Len(policy) = step /\ epoch \in Nat /\ BatchesPerEpoch \in Nat \ {0}
      /\ loader.pos \in Nat
  BY DEF OrderInv, StepInv, TypeOK, ProcessCounted, Saves, ConfigAssumption
<1>2. CASE AtStart
  BY <1>1, <1>2, AtRemainder DEF AtStart, DataFits
<1>3. CASE Within
  BY <1>1, <1>3, AtRemainder DEF Within, DataFits
<1> QED BY <1>2, <1>3 DEF OrderInv, Positions

\* A save moves nothing but its own phase.
LEMMA SavingPositions ==
    ASSUME ConfigAssumption, OrderInv, Saving
    PROVE Positions'
<1>1. UNCHANGED <<policy, loader, epoch, skipGen, view>>
  BY DEF Saving, FallbackSave, NoFallbackSave, FinishFallback, SaveRotate, SaveActor,
     SaveData, SaveAdaptive, SaveTracker, procVars
<1>2. CASE FallbackSave
  <2>1. pc = "epoch" /\ pc' = "rotate" /\ ~(epoch < TotalEpochs)
    BY <1>2 DEF FallbackSave, OrderInv, StepInv, TypeOK, ConfigAssumption
  <2> QED BY <1>1, <2>1 DEF OrderInv, Positions, AtStart, Resumed, Within, Saves
<1>3. CASE NoFallbackSave \/ FinishFallback
  BY <1>3 DEF NoFallbackSave, FinishFallback, Positions, Saves
<1>4. CASE SaveRotate \/ SaveActor \/ SaveData \/ SaveAdaptive
  BY <1>1, <1>4 DEF SaveRotate, SaveActor, SaveData, SaveAdaptive, OrderInv, Positions,
     AtStart, Within, Saves
<1>5. CASE SaveTracker
  BY <1>1, <1>5 DEF SaveTracker, OrderInv, Positions, Within, Saves
<1> QED BY <1>2, <1>3, <1>4, <1>5 DEF Saving

LEMMA OrderSaving ==
    ASSUME ConfigAssumption, OrderInv, Saving
    PROVE InOrder(policy)' /\ ViewsFull' /\ DiskInOrder' /\ DataWritten' /\ Positions'
<1>1. Positions' /\ UNCHANGED <<policy, view, cache>>
  BY SavingPositions DEF Saving, FallbackSave, NoFallbackSave, FinishFallback, SaveRotate,
     SaveActor, SaveData, SaveAdaptive, SaveTracker, procVars, diskVars
<1>2. InOrder(policy)'
  BY <1>1 DEF OrderInv
<1>3. Folder(step) \in CkptFolder /\ DiskInOrder /\ ViewsFull
  BY FolderType DEF OrderInv, StepInv
<1>4. view'.n = BatchesPerEpoch
  BY <1>1 DEF OrderInv, ViewsFull
<1>5. CASE FallbackSave \/ NoFallbackSave \/ FinishFallback
  <2>1. pc' \notin {"adaptive", "tracker"} /\ UNCHANGED <<ckpt, tracker>>
    BY <1>5 DEF FallbackSave, NoFallbackSave, FinishFallback, diskVars
  <2> QED BY <1>1, <1>2, <2>1
      DEF OrderInv, ViewsFull, DiskInOrder, DataWritten, Folder
<1>6. CASE SaveRotate
  <2>1. /\ DOMAIN ckpt' = DOMAIN ckpt /\ tracker' = tracker
        /\ \A s \in DOMAIN ckpt :
             ckpt'[s] = ckpt[s] \/ ckpt'[s] = [ckpt[s] EXCEPT !.actor = NoActor]
    BY <1>6 DEF SaveRotate
  <2>2. \A s \in DOMAIN ckpt : ckpt[s] \in CkptFolder
    BY DEF OrderInv, StepInv, TypeOK
  <2>3. \A s \in DOMAIN ckpt :
          /\ ckpt'[s].data = ckpt[s].data /\ ckpt'[s].adaptive = ckpt[s].adaptive
          /\ ckpt'[s].actor \in {ckpt[s].actor, NoActor}
    BY <2>1, <2>2 DEF CkptFolder
  <2>4. InOrder(NoActor.steps)
    BY DEF InOrder, NoActor
  <2>5. DiskInOrder' /\ ViewsFull'
    BY <1>1, <1>3, <2>1, <2>3, <2>4 DEF DiskInOrder, ViewsFull
  <2>6. DataWritten'
    <3>1. Folder(tracker)'.data = Folder(tracker).data
      BY <2>1, <2>3 DEF Folder
    <3>2. pc' = "actor"
      BY <1>6 DEF SaveRotate
    <3> QED BY <2>1, <3>1, <3>2 DEF OrderInv, DataWritten
  <2> QED BY <1>1, <1>2, <2>5, <2>6
<1>7. CASE SaveActor
  <2> DEFINE f == [Folder(step) EXCEPT !.actor = [st |-> "ok", steps |-> policy]]
  <2>1. ckpt' = Put(ckpt, step, f) /\ tracker' = tracker /\ pc' = "data"
    BY <1>7 DEF SaveActor
  <2>2. f.actor.steps = policy /\ f.data = Folder(step).data /\ f.adaptive = Folder(step).adaptive
    BY <1>3 DEF CkptFolder
  <2> HIDE DEF f
  <2>3. DiskInOrder' /\ ViewsFull'
    BY <1>1, <1>3, <1>4, <2>1, <2>2, FolderInOrder, FolderFull, PutInOrder, PutFull DEF OrderInv
  <2>4. DataWritten'
    BY <2>1, <2>2, PutFolder DEF OrderInv, DataWritten
  <2> QED BY <1>1, <1>2, <2>3, <2>4
<1>8. CASE SaveData
  <2> DEFINE d == [st |-> "ok", pos |-> loader.pos, finished |-> loader.finished]
             f == [Folder(step) EXCEPT !.data = d]
  <2>1. ckpt' = Put(ckpt, step, f) /\ tracker' = tracker /\ step' = step
    BY <1>8 DEF SaveData, procVars
  <2>2. f.actor = Folder(step).actor /\ f.data = d /\ f.adaptive = Folder(step).adaptive
    BY <1>3 DEF CkptFolder
  <2>3. DataFits(step, d) /\ d.st # "absent"
    BY <1>8, SavedPosition DEF SaveData, Saves
  <2> HIDE DEF f, d
  <2>4. DiskInOrder' /\ ViewsFull'
    BY <1>1, <1>3, <1>4, <2>1, <2>2, <2>3, FolderInOrder, FolderFull, PutInOrder, PutFull
    DEF OrderInv
  <2>5. DataWritten'
    <3>1. Folder(step)'.data = d
      BY <2>1, <2>2, PutFolder
    <3>2. Folder(tracker)'.data \in {d, Folder(tracker).data}
      BY <2>1, <2>2, PutFolder
    <3> QED BY <2>1, <2>3, <3>1, <3>2 DEF OrderInv, DataWritten
  <2> QED BY <1>1, <1>2, <2>4, <2>5
<1>9. CASE SaveAdaptive
  <2> DEFINE f == [Folder(step) EXCEPT !.adaptive = AdaptiveFile]
  <2>1. /\ ckpt' = Put(ckpt, step, f) /\ tracker' = tracker /\ step' = step
        /\ pc = "adaptive"
    BY <1>9 DEF SaveAdaptive, procVars
  <2>2. f.actor = Folder(step).actor /\ f.data = Folder(step).data /\ f.adaptive = AdaptiveFile
    BY <1>3 DEF CkptFolder
  <2>3. AdaptiveFile.view.n = BatchesPerEpoch
    BY <1>3 DEF AdaptiveFile, ViewsFull
  <2> HIDE DEF f
  <2>4. DiskInOrder' /\ ViewsFull'
    BY <1>1, <1>3, <1>4, <2>1, <2>2, <2>3, FolderInOrder, PutInOrder, PutFull DEF OrderInv
  <2>5. DataWritten'
    <3>1. Folder(step)'.data = Folder(step).data /\ Folder(tracker)'.data = Folder(tracker).data
      BY <2>1, <2>2, PutFolder
    <3> QED BY <2>1, <3>1 DEF OrderInv, DataWritten
  <2> QED BY <1>1, <1>2, <2>4, <2>5
<1>10. CASE SaveTracker
  <2>1. /\ UNCHANGED <<ckpt, step>> /\ tracker' = step /\ pc = "tracker"
        /\ pc' \notin {"adaptive", "tracker"}
    BY <1>10 DEF SaveTracker, procVars
  <2>2. DiskInOrder' /\ ViewsFull'
    BY <1>1, <1>3, <2>1 DEF DiskInOrder, ViewsFull
  <2>3. DataWritten'
    BY <2>1 DEF OrderInv, DataWritten, Folder
  <2> QED BY <1>1, <1>2, <2>2, <2>3
<1> QED BY <1>5, <1>6, <1>7, <1>8, <1>9, <1>10 DEF Saving

LEMMA OrderCrash ==
    ASSUME ConfigAssumption, OrderInv, Crash \/ CrashMidWrite
    PROVE InOrder(policy)' /\ ViewsFull' /\ DiskInOrder' /\ DataWritten' /\ Positions'
<1>1. /\ pc' = "boot" /\ policy' = <<>> /\ view' = InitialView /\ epoch' = 0
      /\ ~skipGen' /\ loader' = FreshLoader
  BY DEF Crash, CrashMidWrite, FreshProcess
<1>2. InOrder(policy)' /\ Positions' /\ view'.n = BatchesPerEpoch
  BY <1>1 DEF InOrder, Positions, Saves, FreshLoader, InitialView
<1>3. \A e \in 0 .. TotalEpochs - 1 : cache'[e].view.n = BatchesPerEpoch
  <2>1. CASE UNCHANGED cache
    BY <2>1 DEF OrderInv, ViewsFull
  <2>2. CASE cache' = [cache EXCEPT ![epoch].st = "torn"]
    <3>1. cache \in [0 .. TotalEpochs - 1 -> [st : FileState, signed : Signature, view : View]]
      BY DEF OrderInv, StepInv, TypeOK
    <3>2. \A e \in 0 .. TotalEpochs - 1 : cache'[e].view = cache[e].view
      BY <2>2, <3>1
    <3> QED BY <3>2 DEF OrderInv, ViewsFull
  <2> QED BY <2>1, <2>2 DEF Crash, CrashMidWrite, diskVars
<1>4. tracker' = tracker \/ tracker' = TornTracker
  BY DEF Crash, CrashMidWrite, diskVars
<1>5. CASE UNCHANGED ckpt
  BY <1>1, <1>2, <1>3, <1>4, <1>5 DEF OrderInv, ViewsFull, DiskInOrder, DataWritten, Folder
<1>6. CASE ckpt' = Put(ckpt, step, TornFolder) /\ pc \in {"actor", "data", "adaptive"}
  <2>1. Folder(step) \in CkptFolder /\ DiskInOrder
    BY FolderType DEF OrderInv, StepInv
  <2>2. /\ TornFolder.actor \in {Folder(step).actor, [NoActor EXCEPT !.st = "torn"]}
        /\ TornFolder.data \in {Folder(step).data, [NoData EXCEPT !.st = "torn"]}
        /\ TornFolder.adaptive \in {Folder(step).adaptive, [NoAdaptive EXCEPT !.st = "torn"]}
    BY <1>6, <2>1 DEF TornFolder, CkptFolder
  <2>3. InOrder(TornFolder.actor.steps) /\ DataFits(step, TornFolder.data)
    BY <2>1, <2>2, FolderInOrder DEF InOrder, DataFits, NoActor, NoData
  <2>4. TornFolder.adaptive.view.n = BatchesPerEpoch
    BY <2>2, FolderFull DEF OrderInv, NoAdaptive, InitialView
  <2>5. DiskInOrder' /\ ViewsFull'
    <3>1. DiskInOrder'
      BY <1>6, <2>1, <2>3, PutInOrder
    <3>2. \A s \in DOMAIN ckpt' : ckpt'[s].adaptive.view.n = BatchesPerEpoch
      BY <1>6, <2>4 DEF Put, OrderInv, ViewsFull
    <3> QED BY <1>2, <1>3, <3>1, <3>2 DEF ViewsFull
  <2>6. DataWritten'
    <3> DEFINE torn == TornFolder
    <3>1. tracker' = tracker
      BY <1>6 DEF Crash, CrashMidWrite, diskVars
    <3>2. \A t : Folder(t)' = IF t = step THEN torn ELSE Folder(t)
      BY <1>6, PutFolder
    <3>3. torn.data.st = "absent" => Folder(step).data.st = "absent"
      BY <2>2 DEF NoData
    <3> HIDE DEF torn
    <3> QED BY <1>1, <3>1, <3>2, <3>3 DEF OrderInv, DataWritten, Folder
  <2> QED BY <1>2, <2>5, <2>6
<1> QED BY <1>5, <1>6 DEF Crash, CrashMidWrite, diskVars

LEMMA OrderNext ==
    ASSUME ConfigAssumption, ~MayDrop, OrderInv, [Next]_vars
    PROVE OrderInv'
<1>1. StepInv'
  BY CountNext DEF OrderInv
<1>2. CASE Process
  BY <1>1, <1>2, OrderBoot, OrderGeneration, OrderTraining, OrderSaving DEF Process, OrderInv
<1>3. CASE Crash \/ CrashMidWrite
  BY <1>1, <1>3, OrderCrash DEF OrderInv
<1>4. CASE UNCHANGED vars
  BY <1>1, <1>4 DEF vars, procVars, diskVars, OrderInv, ViewsFull, DiskInOrder,
     DataWritten, Folder, Positions, AtStart, Within, Resumed, Saves
<1> QED BY <1>2, <1>3, <1>4 DEF Next, Halted

LEMMA InOrderFollows ==
    ASSUME ConfigAssumption, TypeOK, InOrder(policy)
    PROVE TrainedInOrder
<1>1. /\ Len(policy) \in Nat /\ DOMAIN policy = 1 .. Len(policy)
      /\ BatchesPerEpoch \in Nat \ {0}
      /\ \A i \in DOMAIN policy : policy[i].epoch \in Nat /\ policy[i].batch \in Nat
      /\ policy # <<>> => Len(policy) > 0
  <2> DEFINE S == [epoch : Nat, batch : Nat, view : View]
  <2>1. policy \in Seq(S)
    BY DEF TypeOK, History
  <2> HIDE DEF S
  <2>2. \A i \in DOMAIN policy : policy[i] \in S
    BY <2>1
  <2>3. \A i \in DOMAIN policy : policy[i].epoch \in Nat /\ policy[i].batch \in Nat
    BY <2>2 DEF S
  <2>4. Len(policy) \in Nat /\ DOMAIN policy = 1 .. Len(policy) /\ (policy # <<>> => Len(policy) > 0)
    BY <2>1
  <2> QED BY <2>3, <2>4 DEF ConfigAssumption
<1>2. ASSUME policy # <<>>
      PROVE policy[1].epoch = 0 /\ policy[1].batch = 0
  <2>1. At(policy[1].epoch, policy[1].batch) = At(0, 0)
    <3>1. 1 \in DOMAIN policy
      BY <1>1, <1>2
    <3>2. 0 = At(policy[1].epoch, policy[1].batch)
      BY <3>1 DEF InOrder
    <3>3. At(0, 0) = 0
      BY <1>1 DEF At
    <3> QED BY <3>2, <3>3
  <2>2. policy[1].batch \in 0 .. BatchesPerEpoch - 1 /\ policy[1].epoch \in Nat
    BY <1>1, <1>2 DEF InOrder
  <2> QED BY <1>1, <2>1, <2>2, AtUnique
<1>3. ASSUME NEW i \in 1 .. Len(policy) - 1
      PROVE Follows(policy[i], policy[i+1])
  <2> DEFINE a == policy[i]
             b == policy[i+1]
  <2>1. /\ a.epoch \in Nat /\ a.batch \in 0 .. BatchesPerEpoch - 1 /\ a.view.n = BatchesPerEpoch
        /\ b.epoch \in Nat /\ b.batch \in 0 .. BatchesPerEpoch - 1
        /\ i - 1 = At(a.epoch, a.batch) /\ i = At(b.epoch, b.batch)
    <3>1. i \in DOMAIN policy /\ i + 1 \in DOMAIN policy /\ (i + 1) - 1 = i
      BY <1>1, <1>3
    <3>2. /\ a.batch < BatchesPerEpoch /\ a.view.n = BatchesPerEpoch /\ i - 1 = At(a.epoch, a.batch)
          /\ b.batch < BatchesPerEpoch /\ (i + 1) - 1 = At(b.epoch, b.batch)
      BY <3>1, Zenon DEF InOrder
    <3>3. /\ a.epoch \in Nat /\ a.batch \in Nat /\ b.epoch \in Nat /\ b.batch \in Nat
      BY <1>1, <3>1, Zenon
    <3> HIDE DEF a, b
    <3>4. a.batch \in 0 .. BatchesPerEpoch - 1 /\ b.batch \in 0 .. BatchesPerEpoch - 1
      BY <1>1, <3>2, <3>3
    <3> QED BY <3>1, <3>2, <3>3, <3>4, Zenon
  <2> HIDE DEF a, b
  <2>2. At(a.epoch, a.batch + 1) = At(b.epoch, b.batch)
    <3>1. At(a.epoch, a.batch + 1) = At(a.epoch, a.batch) + 1
      <4>1. a.epoch \in Nat /\ a.batch \in Nat
        BY <1>1, <2>1
      <4> QED BY <4>1, AtIsNat
    <3> QED BY <2>1, <1>3, <3>1
  <2>3. CASE a.batch + 1 < BatchesPerEpoch
    <3>1. a.batch + 1 \in 0 .. BatchesPerEpoch - 1
      BY <1>1, <2>1, <2>3
    <3>2. b.epoch = a.epoch /\ b.batch = a.batch + 1
      BY <2>1, <2>2, <3>1, AtUnique
    <3> QED BY <3>2 DEF Follows, a, b
  <2>4. CASE a.batch + 1 = BatchesPerEpoch
    <3>1. At(a.epoch + 1, 0) = At(b.epoch, b.batch)
      BY <2>1, <2>2, <2>4, AtIsNat
    <3>2. b.epoch = a.epoch + 1 /\ b.batch = 0
      <4>1. a.epoch + 1 \in Nat /\ 0 \in 0 .. BatchesPerEpoch - 1
        BY <1>1, <2>1
      <4> QED BY <2>1, <3>1, <4>1, AtUnique
    <3>3. a.batch = a.view.n - 1
      BY <1>1, <2>1, <2>4, SMTT(30)
    <3> QED BY <3>2, <3>3 DEF Follows, a, b
  <2>5. a.batch + 1 < BatchesPerEpoch \/ a.batch + 1 = BatchesPerEpoch
    BY <1>1, <2>1
  <2> QED BY <2>3, <2>4, <2>5
<1> QED BY <1>2, <1>3 DEF TrainedInOrder

\* If the generator drops no sample, the weights are whole epochs in order, no
\* batch skipped or repeated, whatever the schedule, the save settings, the
\* rotation, the cache and the crashes, also those that tear a file.
THEOREM AlwaysInOrder ==
    ASSUME ~MayDrop
    PROVE Spec => []TrainedInOrder
<1>1. Init => OrderInv
  BY OrderInit, ConfigAssumption
<1>2. OrderInv /\ [Next]_vars => OrderInv'
  BY OrderNext, ConfigAssumption
<1>3. OrderInv => TrainedInOrder
  BY InOrderFollows, ConfigAssumption DEF OrderInv, StepInv
<1> QED BY <1>1, <1>2, <1>3, PTL DEF Spec

-----------------------------------------------------------------------------
(* What a crash can cost.                                                  *)

\* No step since the last save was one at which an int save_freq saves; the
\* inductive strengthening of BoundedLoss.
Unsaved ==
    /\ tracker = TornTracker => pc \in {"boot", "failed"}
    /\ SaveEvery > 0 /\ pc \in {"epoch", "cache", "begin", "batch"} =>
         \A s \in tracker + 1 .. step - 1 : s % SaveEvery # 0
    /\ SaveEvery > 0 /\ pc = "advance" =>
         \A s \in tracker + 1 .. step : s % SaveEvery # 0

LEMMA UnsavedStep ==
    ASSUME ConfigAssumption, TypeOK, Unsaved, [Next]_vars
    PROVE Unsaved'
<1>1. step \in Nat /\ tracker \in Nat \cup {TornTracker} /\ SaveEvery \in Nat
  BY DEF TypeOK, ConfigAssumption
<1>2. CASE Boot
  BY <1>1, <1>2 DEF Boot, StartFromScratch, Resume, ResumeFails, Loadable, ResumedStep,
     NoTracker, TornTracker, Unsaved, diskVars
<1>3. CASE Generation
  <2>1. /\ UNCHANGED <<tracker, step>> /\ pc \in {"epoch", "cache"}
        /\ pc' \in {"cache", "begin"}
    BY <1>3 DEF Generation, SkipGeneration, NoGeneration, LoadCachedEpoch,
       GenerateEpoch, GenerateOnEmpty, WriteCache, procVars, diskVars
  <2> QED BY <1>1, <2>1 DEF Unsaved, TornTracker
<1>4. CASE TrainBatch
  <2>1. pc = "batch" /\ UNCHANGED <<tracker, step>> /\ pc' \in {"rotate", "advance"}
    BY <1>4 DEF TrainBatch, diskVars
  <2>2. pc' = "advance" /\ SaveEvery > 0 => step % SaveEvery # 0
    BY <1>4 DEF TrainBatch, SaveEnabled, FreqTriggered
  <2> QED BY <1>1, <2>1, <2>2 DEF Unsaved, TornTracker
<1>5. CASE BeginEpoch \/ EndEpoch
  BY <1>1, <1>5 DEF BeginEpoch, EndEpoch, Unsaved, TornTracker, diskVars
<1>6. CASE Advance
  BY <1>1, <1>6 DEF Advance, Unsaved, TornTracker, diskVars
<1>7. CASE Saving
  BY <1>1, <1>7 DEF Saving, FallbackSave, NoFallbackSave, FinishFallback, SaveRotate,
     SaveActor, SaveData, SaveAdaptive, SaveTracker, Unsaved, TornTracker, procVars, diskVars
<1>8. CASE Crash \/ CrashMidWrite
  BY <1>8 DEF Crash, CrashMidWrite, FreshProcess, Unsaved
<1>9. CASE UNCHANGED vars
  BY <1>9 DEF vars, procVars, diskVars, Unsaved
<1> QED BY <1>2, <1>3, <1>4, <1>5, <1>6, <1>7, <1>8, <1>9
    DEF Next, Process, Halted, Training

\* Among SaveEvery consecutive steps one is a multiple of SaveEvery.
LEMMA NextMultiple ==
    ASSUME NEW b \in Nat \ {0}, NEW t \in Nat
    PROVE \E s \in t + 1 .. t + b : s % b = 0
<1> DEFINE q == t \div b
           r == t % b
           s == t + b - r
<1>1. q \in Nat /\ r \in 0 .. b - 1 /\ t = q * b + r
  BY Divide
<1>2. s \in t + 1 .. t + b /\ s \in Nat
  BY <1>1
<1>3. s = (q + 1) * b + 0
  BY <1>1
<1>4. s % b = 0
  <2> HIDE DEF q, r, s
  <2>1. q + 1 \in Nat /\ 0 \in 0 .. b - 1
    BY <1>1
  <2> QED BY <1>2, <1>3, <2>1, Quotient
<1> QED BY <1>2, <1>4

\* With an int save_freq the process is never SaveEvery or more trained steps
\* ahead of what the tracker names, drops, forced saves and crashes included.
THEOREM LossAlwaysBounded == Spec => []BoundedLoss
<1>1. Init => TypeOK /\ Unsaved
  <2>1. Init => Unsaved
    BY DEF Init, Unsaved
  <2> QED BY <2>1, TypeInit, ConfigAssumption
<1>2. TypeOK /\ Unsaved /\ [Next]_vars => TypeOK' /\ Unsaved'
  BY TypeNext, UnsavedStep, ConfigAssumption
<1>3. TypeOK /\ Unsaved => BoundedLoss
  <2> SUFFICES ASSUME TypeOK, Unsaved, pc = "batch", SaveEvery > 0,
                      ~(step - 1 - tracker < SaveEvery)
               PROVE FALSE
    BY DEF BoundedLoss
  <2>1. step \in Nat /\ tracker \in Nat /\ SaveEvery \in Nat \ {0}
    BY ConfigAssumption DEF TypeOK, Unsaved, ConfigAssumption
  <2>2. PICK s \in tracker + 1 .. tracker + SaveEvery : s % SaveEvery = 0
    BY <2>1, NextMultiple
  <2>3. s \in tracker + 1 .. step - 1
    BY <2>1, <2>2
  <2> QED BY <2>2, <2>3 DEF Unsaved
<1> QED BY <1>1, <1>2, <1>3, PTL DEF Spec

-----------------------------------------------------------------------------
(* What is saved.                                                          *)

\* At least two checkpoints are kept, the one-line tracker file is not torn,
\* and a job started again after its last save does not save it once more.
SafeSaves ==
    /\ KeepCkpts # 1
    /\ "tracker" \notin Tearable
    /\ \/ SaveAtEpoch
       \/ SaveEvery <= 1
       \/ ~MayDrop /\ (TotalEpochs * BatchesPerEpoch) % SaveEvery = 0

LastEntry == policy[Len(policy)]

\* What is being saved is the step just trained, past the one the tracker
\* names, and the files already written say so.
SaveProgress ==
    /\ pc \in Saves =>
         /\ tracker < step
         /\ policy # <<>> /\ LastEntry.view = view /\ LastEntry.batch + 1 = loader.pos
    /\ pc \in {"data", "adaptive", "tracker"} =>
         Folder(step).actor = [st |-> "ok", steps |-> policy]
    /\ pc \in {"adaptive", "tracker"} =>
         Folder(step).data.st = "ok" /\ Folder(step).data.pos = loader.pos
    /\ pc = "tracker" => Folder(step).adaptive = AdaptiveFile

\* The checkpoint manager knows the folders of this process in the order of
\* their steps, and the last one is the one the tracker names or is about to.
KeptInOrder ==
    /\ \A i, j \in DOMAIN kept : i < j => kept[i] < kept[j]
    /\ pc = "boot" => kept = <<>>
    /\ kept # <<>> => kept[Len(kept)] = IF pc \in {"data", "adaptive", "tracker"}
                                          THEN step
                                          ELSE tracker

\* The inductive strengthening of TrackerNamesCheckpoint.
CkptInv ==
    /\ StepInv
    /\ ~MayDrop => OrderInv
    /\ TrackerBehind
    /\ TrackerNamesCheckpoint
    /\ SaveProgress
    /\ KeptInOrder

-----------------------------------------------------------------------------
(* The fallback save stays idle.                                           *)

\* A multiplication without quantifiers for the provers.
LEMMA Multiple ==
    ASSUME NEW b \in Nat, NEW m \in Nat, NEW n \in Nat, m <= n
    PROVE m * b <= n * b /\ m * b \in Nat /\ n * b \in Nat
<1>1. PICK k \in Nat : n = m + k
  <2>1. n - m \in Nat
    OBVIOUS
  <2> QED BY <2>1
<1>2. n * b = m * b + k * b
  BY <1>1
<1>3. k * b >= 0
  BY <1>1
<1> QED BY <1>2, <1>3

LEMMA Squeezed ==
    ASSUME NEW b \in Nat, NEW m \in Nat, NEW t \in Nat, NEW e \in Nat, NEW n \in Nat,
           m <= t, t <= e, n <= m * b, e * b <= n
    PROVE n = t * b
<1>1. m * b <= t * b /\ t * b <= e * b
  BY Multiple
<1>2. m * b \in Nat /\ t * b \in Nat /\ e * b \in Nat
  OBVIOUS
<1> QED BY <1>1, <1>2

LEMMA NextEpoch ==
    ASSUME NEW b \in Nat, NEW e \in Nat, NEW p \in 0 .. b - 1, NEW n \in Nat,
           n - 1 = e * b + p
    PROVE n <= (e + 1) * b
<1>1. (e + 1) * b = e * b + b /\ e * b \in Nat
  OBVIOUS
<1>2. ASSUME NEW x \in Nat, n - 1 = x + p
      PROVE n <= x + b
  BY <1>2
<1> QED BY <1>1, <1>2

\* Without drops the weights hold all epochs when the epoch loop has ended.
LEMMA EndOfTraining ==
    ASSUME ConfigAssumption, OrderInv, pc = "epoch", epoch >= TotalEpochs, policy # <<>>
    PROVE Len(policy) = TotalEpochs * BatchesPerEpoch
<1> DEFINE last == policy[Len(policy)]
<1>1. /\ epoch \in Nat /\ TotalEpochs \in Nat \ {0} /\ BatchesPerEpoch \in Nat \ {0}
      /\ Len(policy) \in Nat \ {0} /\ DOMAIN policy = 1 .. Len(policy)
  <2> DEFINE S == [epoch : Nat, batch : Nat, view : View]
  <2>1. policy \in Seq(S)
    BY DEF OrderInv, StepInv, TypeOK, History
  <2> HIDE DEF S
  <2>2. Len(policy) \in Nat \ {0} /\ DOMAIN policy = 1 .. Len(policy)
    BY <2>1
  <2> QED BY <2>2 DEF OrderInv, StepInv, TypeOK, ConfigAssumption
<1>2. /\ last.epoch \in Nat /\ last.batch \in 0 .. BatchesPerEpoch - 1
      /\ last.epoch + 1 <= TotalEpochs
      /\ Len(policy) - 1 = last.epoch * BatchesPerEpoch + last.batch
  <2> DEFINE S == [epoch : Nat, batch : Nat, view : View]
  <2>1. policy \in Seq(S)
    BY DEF OrderInv, StepInv, TypeOK, History
  <2> HIDE DEF S
  <2>2. last \in S
    BY <1>1, <2>1
  <2>3. last.epoch \in Nat /\ last.batch \in Nat
    BY <2>2 DEF S
  <2>4. Len(policy) \in DOMAIN policy /\ InOrder(policy)
    BY <1>1 DEF OrderInv
  <2>5. /\ last.epoch < TotalEpochs /\ last.batch < BatchesPerEpoch
        /\ Len(policy) - 1 = At(last.epoch, last.batch)
    BY <2>4 DEF InOrder
  <2> QED BY <1>1, <2>3, <2>5 DEF At
<1> HIDE DEF last
<1>3. last.epoch + 1 \in Nat /\ Len(policy) <= (last.epoch + 1) * BatchesPerEpoch
  <2>1. Len(policy) \in Nat /\ BatchesPerEpoch \in Nat /\ last.epoch + 1 \in Nat
    BY <1>1, <1>2
  <2>2. Len(policy) <= (last.epoch + 1) * BatchesPerEpoch
    BY <1>2, <2>1, NextEpoch, Zenon
  <2> QED BY <2>1, <2>2
<1>4. epoch * BatchesPerEpoch <= Len(policy)
  <2>1. CASE AtStart
    BY <1>1, <2>1 DEF AtStart, At
  <2>2. CASE Resumed
    <3>1. Len(policy) = epoch * BatchesPerEpoch + loader.pos
          /\ loader.pos \in 1 .. BatchesPerEpoch - 1
      BY <2>2 DEF Resumed, Within, At
    <3>2. epoch * BatchesPerEpoch \in Nat
      BY <1>1
    <3> QED BY <3>1, <3>2
  <2> QED BY <2>1, <2>2 DEF OrderInv, Positions
<1> QED BY <1>1, <1>2, <1>3, <1>4, Squeezed

LEMMA NoResave ==
    ASSUME ConfigAssumption, SafeSaves, CkptInv
    PROVE ~FallbackSave
<1> SUFFICES ASSUME FallbackSave PROVE FALSE
  OBVIOUS
<1>1. /\ pc = "epoch" /\ epoch >= TotalEpochs /\ step - 1 >= 1 /\ step \in Nat
      /\ SaveEvery \in Nat /\ SaveEnabled /\ ~AlreadySaved /\ Len(policy) = step - 1
  BY DEF FallbackSave, CkptInv, StepInv, TypeOK, ProcessCounted, ConfigAssumption
<1>2. CASE SaveAtEpoch
  BY <1>1, <1>2 DEF AlreadySaved, FreqTriggered
<1>3. CASE SaveEvery <= 1 /\ ~SaveAtEpoch
  <2>1. SaveEvery = 1
    BY <1>1, <1>3 DEF SaveEnabled
  <2>2. (step - 1) % 1 = 0
    BY <1>1
  <2> QED BY <1>1, <2>1, <2>2 DEF AlreadySaved, FreqTriggered
<1>4. CASE ~MayDrop /\ (TotalEpochs * BatchesPerEpoch) % SaveEvery = 0 /\ SaveEvery > 1
  <2>1. policy # <<>>
    BY <1>1
  <2>2. step - 1 = TotalEpochs * BatchesPerEpoch
    BY <1>1, <1>4, <2>1, EndOfTraining DEF CkptInv
  <2> QED BY <1>1, <1>4, <2>2 DEF AlreadySaved, FreqTriggered
<1> QED BY <1>1, <1>2, <1>3, <1>4 DEF SafeSaves

-----------------------------------------------------------------------------
(* The folder the tracker names.                                           *)

LEMMA KeptTypes ==
    ASSUME ConfigAssumption, TypeOK
    PROVE /\ Len(kept) \in Nat /\ DOMAIN kept = 1 .. Len(kept) /\ KeepCkpts \in Nat
          /\ kept # <<>> => Len(kept) \in DOMAIN kept
          /\ kept = <<>> => Len(kept) = 0
          /\ \A i \in DOMAIN kept : kept[i] \in Nat
<1>1. kept \in Seq(Nat) /\ KeepCkpts \in Nat
  BY DEF TypeOK, ConfigAssumption
<1> QED BY <1>1

\* The rotation spares the last folder it knows.
LEMMA RotationSparesLast ==
    ASSUME ConfigAssumption, TypeOK, KeepCkpts # 1
    PROVE Surplus \in Nat /\ (Surplus > 0 => Surplus < Len(kept) /\ kept # <<>>)
BY KeptTypes DEF Surplus

\* Only the write of the tracker moves the resume point; nothing else touches
\* the folder it names.
LEMMA TrackedStable ==
    ASSUME ConfigAssumption, SafeSaves, CkptInv, [Next]_vars
    PROVE \/ SaveTracker
          \/ tracker' = tracker /\ (tracker # NoTracker => Folder(tracker)' = Folder(tracker))
<1>1. TypeOK /\ step \in Nat
  BY DEF CkptInv, StepInv, TypeOK
<1>2. CASE UNCHANGED <<ckpt, tracker>>
  BY <1>2 DEF Folder
<1>3. CASE SaveRotate
  <2>1. /\ tracker' = tracker /\ DOMAIN ckpt' = DOMAIN ckpt
        /\ \A s \in DOMAIN ckpt :
             (\A i \in 1 .. Surplus : kept[i] # s) => ckpt'[s] = ckpt[s]
    BY <1>3 DEF SaveRotate
  <2>2. \A i \in 1 .. Surplus : kept[i] # tracker
    <3> TAKE i \in 1 .. Surplus
    <3>1. kept # <<>> /\ i < Len(kept) /\ i \in DOMAIN kept /\ Len(kept) \in DOMAIN kept
      BY <1>1, RotationSparesLast, KeptTypes DEF SafeSaves
    <3>2. kept[i] < kept[Len(kept)] /\ kept[Len(kept)] = tracker
      BY <1>3, <3>1 DEF SaveRotate, CkptInv, KeptInOrder
    <3>3. kept[i] \in Nat /\ kept[Len(kept)] \in Nat
      BY <1>1, <3>1, KeptTypes
    <3> QED BY <3>2, <3>3
  <2>3. Folder(tracker)' = Folder(tracker)
    BY <2>1, <2>2 DEF Folder
  <2> QED BY <2>1, <2>3
<1>4. ASSUME NEW f, ckpt' = Put(ckpt, step, f), tracker' = tracker, pc \in Saves
      PROVE Folder(tracker)' = Folder(tracker)
  <2>1. tracker # step
    BY <1>1, <1>4 DEF CkptInv, SaveProgress, TrackerBehind, TypeOK
  <2> QED BY <1>4, <2>1, PutFolder
<1>5. CASE SaveActor
  BY <1>4, <1>5 DEF SaveActor, Saves
<1>6. CASE SaveData
  BY <1>4, <1>6 DEF SaveData, Saves
<1>7. CASE SaveAdaptive
  BY <1>4, <1>7 DEF SaveAdaptive, Saves
<1>8. CASE CrashMidWrite
  <2>1. tracker' = tracker
    BY <1>8 DEF CrashMidWrite, SafeSaves
  <2>2. CASE pc \in {"actor", "data", "adaptive"}
    BY <1>4, <1>8, <2>1, <2>2 DEF CrashMidWrite, Saves
  <2>3. CASE pc \notin {"actor", "data", "adaptive"}
    BY <1>2, <1>8, <2>1, <2>3 DEF CrashMidWrite
  <2> QED BY <2>1, <2>2, <2>3
<1>9. \/ UNCHANGED <<ckpt, tracker>> \/ SaveTracker \/ SaveRotate
      \/ SaveActor \/ SaveData \/ SaveAdaptive \/ CrashMidWrite
  BY DEF Next, Process, Halted, Boot, StartFromScratch, Resume, ResumeFails, Generation,
     SkipGeneration, NoGeneration, LoadCachedEpoch, GenerateEpoch, GenerateOnEmpty,
     WriteCache, Training, BeginEpoch, TrainBatch, Advance, EndEpoch, Saving, FallbackSave,
     NoFallbackSave, FinishFallback, Crash, vars, procVars, diskVars
<1> QED BY <1>2, <1>3, <1>5, <1>6, <1>7, <1>8, <1>9
    DEF SaveActor, SaveData, SaveAdaptive

LEMMA TrackerNamesStep ==
    ASSUME ConfigAssumption, SafeSaves, CkptInv, [Next]_vars
    PROVE TrackerNamesCheckpoint'
<1>1. CASE SaveTracker
  <2>1. /\ pc = "tracker" /\ tracker' = step /\ UNCHANGED ckpt /\ step \in Nat
    BY <1>1 DEF SaveTracker, CkptInv, StepInv, TypeOK
  <2>2. Coherent(step)
    BY <2>1 DEF CkptInv, SaveProgress, Coherent, LastEntry, Saves, AdaptiveFile
  <2>3. Coherent(tracker)'
    BY <2>1, <2>2 DEF Coherent, Folder
  <2> QED BY <2>1, <2>3 DEF TrackerNamesCheckpoint, TornTracker
<1>2. CASE tracker' = tracker /\ (tracker # NoTracker => Folder(tracker)' = Folder(tracker))
  BY <1>2 DEF CkptInv, TrackerNamesCheckpoint, Coherent
<1> QED BY <1>1, <1>2, TrackedStable

-----------------------------------------------------------------------------
(* The progress of a save.                                                 *)

LEMMA ProgressStep ==
    ASSUME ConfigAssumption, SafeSaves, CkptInv, [Next]_vars
    PROVE SaveProgress'
<1>1. TypeOK /\ step \in Nat /\ Folder(step) \in CkptFolder
  BY FolderType DEF CkptInv, StepInv, TypeOK
<1>2. CASE Boot \/ Generation \/ BeginEpoch \/ Advance \/ EndEpoch
           \/ NoFallbackSave \/ FinishFallback \/ Crash \/ CrashMidWrite
  <2>1. pc' \notin Saves
    BY <1>2 DEF Boot, StartFromScratch, Resume, ResumeFails, Generation, SkipGeneration,
       NoGeneration, LoadCachedEpoch, GenerateEpoch, GenerateOnEmpty, WriteCache,
       BeginEpoch, Advance, EndEpoch, NoFallbackSave, FinishFallback, Crash,
       CrashMidWrite, FreshProcess, Saves
  <2> QED BY <2>1 DEF SaveProgress, Saves
<1>3. CASE TrainBatch
  <2> DEFINE item == [epoch |-> epoch, batch |-> loader.pos, view |-> view']
             S == [epoch : Nat, batch : Nat, view : View]
  <2>1. /\ pc = "batch" /\ pc' \in {"rotate", "advance"} /\ tracker' = tracker /\ step' = step
        /\ policy' = Append(policy, item) /\ loader' = [loader EXCEPT !.pos = @ + 1]
    BY <1>3 DEF TrainBatch, diskVars
  <2>2. tracker < step
    BY <1>1, <2>1 DEF CkptInv, TrackerBehind, TypeOK
  <2>3. loader'.pos = loader.pos + 1
    BY <1>1, <2>1 DEF TypeOK
  <2>4. policy' # <<>> /\ LastEntry' = item
    <3>1. policy \in Seq(S)
      BY <1>1 DEF TypeOK, History
    <3> HIDE DEF S, item
    <3>2. Len(policy') = Len(policy) + 1 /\ Len(policy) \in Nat /\ policy'[Len(policy) + 1] = item
      BY <2>1, <3>1
    <3>3. policy' # <<>>
      BY <3>2
    <3> QED BY <3>2, <3>3 DEF LastEntry
  <2>5. LastEntry'.view = view' /\ LastEntry'.batch + 1 = loader'.pos
    BY <2>3, <2>4
  <2> QED BY <2>1, <2>2, <2>4, <2>5 DEF SaveProgress, Saves
<1>4. CASE SaveRotate
  BY <1>4 DEF SaveRotate, CkptInv, SaveProgress, Saves, LastEntry
<1>5. CASE SaveActor
  <2> DEFINE f == [Folder(step) EXCEPT !.actor = [st |-> "ok", steps |-> policy]]
  <2>1. /\ ckpt' = Put(ckpt, step, f) /\ pc = "actor" /\ pc' = "data"
        /\ UNCHANGED <<step, policy, tracker, view, loader>>
    BY <1>5 DEF SaveActor
  <2>2. f.actor = [st |-> "ok", steps |-> policy]
    BY <1>1 DEF CkptFolder
  <2> HIDE DEF f
  <2>3. Folder(step)' = f
    BY <2>1, PutFolder
  <2> QED BY <2>1, <2>2, <2>3 DEF CkptInv, SaveProgress, Saves, LastEntry
<1>6. CASE SaveData
  <2> DEFINE d == [st |-> "ok", pos |-> loader.pos, finished |-> loader.finished]
             f == [Folder(step) EXCEPT !.data = d]
  <2>1. /\ ckpt' = Put(ckpt, step, f) /\ pc = "data" /\ pc' = "adaptive"
        /\ UNCHANGED <<step, policy, tracker, view, loader>>
    BY <1>6 DEF SaveData, procVars
  <2>2. f.actor = Folder(step).actor /\ f.data.st = "ok" /\ f.data.pos = loader.pos
    BY <1>1 DEF CkptFolder
  <2> HIDE DEF f
  <2>3. Folder(step)' = f
    BY <2>1, PutFolder
  <2> QED BY <2>1, <2>2, <2>3 DEF CkptInv, SaveProgress, Saves, LastEntry
<1>7. CASE SaveAdaptive
  <2> DEFINE f == [Folder(step) EXCEPT !.adaptive = AdaptiveFile]
  <2>1. /\ ckpt' = Put(ckpt, step, f) /\ pc = "adaptive" /\ pc' = "tracker"
        /\ UNCHANGED <<step, policy, tracker, view, loader>>
    BY <1>7 DEF SaveAdaptive, procVars
  <2>2. f.actor = Folder(step).actor /\ f.data = Folder(step).data /\ f.adaptive = AdaptiveFile
    BY <1>1 DEF CkptFolder
  <2> HIDE DEF f
  <2>3. Folder(step)' = f
    BY <2>1, PutFolder
  <2>4. AdaptiveFile' = AdaptiveFile
    BY <2>1 DEF AdaptiveFile
  <2> QED BY <2>1, <2>2, <2>3, <2>4 DEF CkptInv, SaveProgress, Saves, LastEntry
<1>8. CASE SaveTracker
  <2>1. pc' \notin Saves
    BY <1>8 DEF SaveTracker, Saves
  <2> QED BY <2>1 DEF SaveProgress, Saves
<1>9. CASE UNCHANGED vars
  BY <1>9 DEF vars, procVars, diskVars, CkptInv, SaveProgress, LastEntry, Folder, AdaptiveFile
<1> QED BY <1>2, <1>3, <1>4, <1>5, <1>6, <1>7, <1>8, <1>9, NoResave
    DEF Next, Process, Halted, Training, Saving

LEMMA KeptStep ==
    ASSUME ConfigAssumption, SafeSaves, CkptInv, [Next]_vars
    PROVE KeptInOrder'
<1> DEFINE Writing == {"data", "adaptive", "tracker"}
<1>1. /\ TypeOK /\ step \in Nat /\ kept \in Seq(Nat)
  BY DEF CkptInv, StepInv, TypeOK
<1>2. CASE Crash \/ CrashMidWrite
  <2>1. kept' = <<>>
    BY <1>2 DEF Crash, CrashMidWrite, FreshProcess
  <2> QED BY <2>1 DEF KeptInOrder
<1>3. ASSUME UNCHANGED <<kept, tracker>>, pc \notin Writing, pc' \notin Writing \cup {"boot"}
      PROVE KeptInOrder'
  BY <1>3 DEF CkptInv, KeptInOrder
<1>4. CASE Boot \/ Generation \/ Training \/ NoFallbackSave \/ FinishFallback
  <2>1. UNCHANGED <<kept, tracker>> /\ pc \notin Writing /\ pc' \notin Writing \cup {"boot"}
    BY <1>4 DEF Boot, StartFromScratch, Resume, ResumeFails, Generation, SkipGeneration,
       NoGeneration, LoadCachedEpoch, GenerateEpoch, GenerateOnEmpty, WriteCache, Training,
       BeginEpoch, TrainBatch, Advance, EndEpoch, NoFallbackSave, FinishFallback,
       procVars, diskVars
  <2> QED BY <1>3, <2>1
<1>5. CASE SaveRotate
  <2>1. /\ kept' = SubSeq(kept, Surplus + 1, Len(kept)) /\ tracker' = tracker
        /\ pc = "rotate" /\ pc' = "actor"
    BY <1>5 DEF SaveRotate
  <2>2. Surplus \in Nat /\ Surplus <= Len(kept) /\ Len(kept) \in Nat
    BY <1>1, RotationSparesLast, KeptTypes DEF SafeSaves
  <2>3. /\ Len(kept') = Len(kept) - Surplus /\ DOMAIN kept' = 1 .. Len(kept) - Surplus
        /\ \A i \in DOMAIN kept' : kept'[i] = kept[i + Surplus] /\ i + Surplus \in DOMAIN kept
    <3>1. kept \in Seq(Nat)
      BY <1>1 DEF TypeOK
    <3> QED BY <2>1, <2>2, <3>1, SMTT(30)
  <2>4. \A i, j \in DOMAIN kept' : i < j => kept'[i] < kept'[j]
    <3> TAKE i, j \in DOMAIN kept'
    <3>1. i \in Nat /\ j \in Nat
      BY <2>2, <2>3
    <3> QED BY <2>2, <2>3, <3>1 DEF CkptInv, KeptInOrder
  <2>5. ASSUME kept' # <<>>
        PROVE kept'[Len(kept')] = tracker
    <3>1. Len(kept') \in DOMAIN kept' /\ kept'[Len(kept')] = kept[Len(kept)] /\ kept # <<>>
      <4>1. kept' \in Seq(Nat) /\ Len(kept') > 0
        BY <1>1, <2>1, <2>2, <2>5
      <4>2. Len(kept') \in DOMAIN kept' /\ Len(kept) > 0
        BY <2>2, <2>3, <4>1
      <4>3. (Len(kept) - Surplus) + Surplus = Len(kept)
        BY <2>2
      <4> QED BY <1>1, <2>3, <4>2, <4>3
    <3> QED BY <2>1, <3>1 DEF CkptInv, KeptInOrder
  <2> QED BY <2>1, <2>4, <2>5 DEF KeptInOrder
<1>6. CASE SaveActor
  <2>1. /\ kept' = Append(kept, step) /\ step' = step /\ pc = "actor" /\ pc' = "data"
        /\ tracker < step /\ tracker \in Nat
    BY <1>1, <1>6 DEF SaveActor, CkptInv, SaveProgress, Saves, TrackerBehind, TypeOK
  <2>2. /\ Len(kept) \in Nat /\ Len(kept') = Len(kept) + 1 /\ DOMAIN kept = 1 .. Len(kept)
        /\ DOMAIN kept' = 1 .. Len(kept) + 1 /\ kept'[Len(kept) + 1] = step
        /\ \A i \in DOMAIN kept : kept'[i] = kept[i] /\ kept[i] \in Nat
    BY <1>1, <2>1
  <2>3. \A i \in DOMAIN kept : kept[i] <= tracker
    <3> TAKE i \in DOMAIN kept
    <3>1. kept # <<>> /\ Len(kept) \in DOMAIN kept
      BY <1>1, <2>2, KeptTypes
    <3>2. kept[Len(kept)] = tracker
      BY <2>1, <3>1 DEF CkptInv, KeptInOrder
    <3>3. i < Len(kept) \/ i = Len(kept)
      BY <2>2
    <3> QED BY <2>1, <2>2, <3>1, <3>2, <3>3 DEF CkptInv, KeptInOrder
  <2>4. \A i, j \in DOMAIN kept' : i < j => kept'[i] < kept'[j]
    <3> SUFFICES ASSUME NEW i \in DOMAIN kept', NEW j \in DOMAIN kept', i < j
                 PROVE kept'[i] < kept'[j]
      OBVIOUS
    <3>1. i \in DOMAIN kept
      BY <2>2
    <3>2. CASE j \in DOMAIN kept
      BY <2>2, <3>1, <3>2 DEF CkptInv, KeptInOrder
    <3>3. CASE j = Len(kept) + 1
      BY <1>1, <2>1, <2>2, <2>3, <3>1, <3>3
    <3> QED BY <2>2, <3>2, <3>3
  <2> QED BY <2>1, <2>2, <2>4 DEF KeptInOrder
<1>7. CASE SaveData \/ SaveAdaptive
  <2>1. UNCHANGED <<kept, step>> /\ pc \in Writing /\ pc' \in Writing
    BY <1>7 DEF SaveData, SaveAdaptive, procVars
  <2> QED BY <2>1 DEF CkptInv, KeptInOrder
<1>8. CASE SaveTracker
  <2>1. UNCHANGED kept /\ tracker' = step /\ pc = "tracker" /\ pc' \notin Writing \cup {"boot"}
    BY <1>8 DEF SaveTracker, procVars
  <2> QED BY <2>1 DEF CkptInv, KeptInOrder
<1>9. CASE UNCHANGED vars
  BY <1>9 DEF vars, procVars, diskVars, CkptInv, KeptInOrder
<1> QED BY <1>2, <1>4, <1>5, <1>6, <1>7, <1>8, <1>9, NoResave
    DEF Next, Process, Halted, Saving

LEMMA CkptInit ==
    ASSUME ConfigAssumption
    PROVE Init => CkptInv
<1> SUFFICES ASSUME Init PROVE CkptInv
  OBVIOUS
<1>1. StepInv /\ OrderInv
  BY CountInit, OrderInit
<1>2. pc = "boot" /\ kept = <<>> /\ tracker = 0
  BY DEF Init, NoTracker
<1>3. TrackerBehind /\ TrackerNamesCheckpoint
  BY <1>2 DEF TrackerBehind, TrackerNamesCheckpoint, NoTracker, TornTracker
<1>4. SaveProgress /\ KeptInOrder
  BY <1>2 DEF SaveProgress, KeptInOrder, Saves
<1> QED BY <1>1, <1>3, <1>4 DEF CkptInv

LEMMA CkptNext ==
    ASSUME ConfigAssumption, SafeSaves, CkptInv, [Next]_vars
    PROVE CkptInv'
<1>1. StepInv' /\ (~MayDrop => OrderInv')
  BY CountNext, OrderNext DEF CkptInv
<1>2. TrackerBehind'
  BY TrackerStep DEF CkptInv, StepInv, SafeSaves
<1> QED BY <1>1, <1>2, TrackerNamesStep, ProgressStep, KeptStep DEF CkptInv

\* With at least two checkpoints kept, a tracker file that is not torn and a
\* save_freq that leaves nothing to the post-loop fallback, the tracker names a
\* complete checkpoint at every moment, whatever crashes and whatever file of
\* any folder they tear.
THEOREM TrackerAlwaysComplete ==
    ASSUME SafeSaves
    PROVE Spec => []TrackerNamesCheckpoint
<1>1. Init => CkptInv
  BY CkptInit, ConfigAssumption
<1>2. CkptInv /\ [Next]_vars => CkptInv'
  BY CkptNext, ConfigAssumption
<1>3. CkptInv => TrackerNamesCheckpoint
  BY DEF CkptInv
<1> QED BY <1>1, <1>2, <1>3, PTL DEF Spec

-----------------------------------------------------------------------------
(* The last weights.                                                       *)

\* The tracker never names a step the process has not trained; outside a save,
\* when it names the last one its folder holds the weights of the process; and
\* the steps after which the job may stop are saved.
LastSaved ==
    /\ Running => tracker # TornTracker /\ tracker <= Len(policy)
    /\ pc \notin Saves \cup {"boot", "failed"} /\ tracker = Len(policy) /\ tracker # NoTracker
         => Folder(tracker).actor.steps = policy
    /\ pc \in {"data", "adaptive", "tracker"} => Folder(step).actor.steps = policy
    /\ SaveEnabled =>
         /\ pc = "advance" /\ IsLastStep => tracker = step
         /\ pc \in {"epoch", "cache", "begin", "batch"} /\ step - 1 >= TotalSteps
              => tracker = step - 1
         /\ pc = "finish" => tracker = step

\* The inductive strengthening of FinalWeightsSaved.
FinalInv ==
    /\ StepInv
    /\ ~MayDrop => OrderInv
    /\ Unsaved
    /\ LastSaved
    /\ FinalWeightsSaved

\* The saves cover the end of the job: int saves do whatever is dropped, and
\* epoch saves when the step limit is not past what the epochs hold.
EndIsSaved == ~SaveAtEpoch \/ (~MayDrop /\ TotalSteps <= BatchesPerEpoch * TotalEpochs)

LEMMA LastSavedStep ==
    ASSUME ConfigAssumption, FinalInv, [Next]_vars
    PROVE LastSaved'
<1>1. /\ Folder(step) \in CkptFolder /\ TypeOK /\ policy \in History /\ step \in Nat
      /\ tracker \in Nat \cup {TornTracker} /\ Len(policy) \in Nat
      /\ TotalSteps \in Nat \ {0} /\ LastSaved /\ ProcessCounted /\ StepInv
  <2>1. TotalSteps \in Nat \ {0}
    BY DEF ConfigAssumption, TotalSteps
  <2> QED BY <2>1, FolderType, HistoryFacts DEF FinalInv, StepInv, TypeOK
<1>2. ASSUME UNCHANGED <<ckpt, tracker, policy, step>>, Running,
             pc' \in {"cache", "begin", "batch"},
             pc \in {"epoch", "cache", "begin", "batch"}
      PROVE LastSaved'
  BY <1>1, <1>2 DEF LastSaved, Folder, Running, Saves
<1>3. CASE Generation \/ BeginEpoch
  BY <1>2, <1>3 DEF Generation, SkipGeneration, NoGeneration, LoadCachedEpoch, GenerateEpoch,
     GenerateOnEmpty, WriteCache, BeginEpoch, procVars, diskVars, Running
<1>4. CASE EndEpoch
  BY <1>1, <1>4 DEF EndEpoch, diskVars, LastSaved, Folder, Running, Saves
<1>5. CASE StartFromScratch
  <2>1. /\ UNCHANGED <<ckpt, tracker, policy>> /\ pc' = "epoch" /\ tracker = 0 /\ step' = 1
    BY <1>5 DEF StartFromScratch, diskVars, NoTracker
  <2> QED BY <1>1, <2>1 DEF LastSaved, NoTracker, TornTracker, Saves
<1>6. CASE Resume
  <2>1. /\ UNCHANGED <<ckpt, tracker>> /\ pc' = "epoch" /\ step' = tracker + 1
        /\ tracker \in Nat \ {0} /\ policy' = Folder(tracker).actor.steps
        /\ Folder(tracker).actor.st = "ok"
    BY <1>1, <1>6 DEF Resume, diskVars, Loadable, Restored, ResumedStep, NoTracker, TornTracker
  <2>2. Len(policy') = tracker
    BY <1>1, <2>1, FolderIsCounted DEF StepInv, FolderCounted
  <2>3. Folder(tracker)' = Folder(tracker)
    BY <2>1 DEF Folder
  <2> QED BY <1>1, <2>1, <2>2, <2>3 DEF LastSaved, NoTracker, TornTracker, Saves
<1>7. CASE TrainBatch
  <2>1. /\ pc = "batch" /\ pc' \in {"rotate", "advance"} /\ UNCHANGED <<ckpt, tracker, step>>
        /\ pc' = "advance" /\ SaveEnabled => ~FreqTriggered(step, IsLastStep, IsLastBatch)
    BY <1>7 DEF TrainBatch, diskVars
  <2>2. Len(policy') = Len(policy) + 1
    <3>1. policy \in Seq(StepRecord)
      BY <1>1 DEF History, StepRecord
    <3> QED BY <1>7, <3>1 DEF TrainBatch
  <2>3. tracker # TornTracker /\ tracker <= Len(policy) /\ tracker \in Nat
    BY <1>1, <2>1 DEF LastSaved, Running
  <2>4. tracker < Len(policy')
    BY <1>1, <2>2, <2>3
  <2>5. pc' = "advance" /\ SaveEnabled => ~IsLastStep
    BY <2>1 DEF FreqTriggered, SaveEnabled
  <2>6. IsLastStep' <=> IsLastStep
    BY <2>1 DEF IsLastStep
  <2> QED BY <1>1, <2>1, <2>3, <2>4, <2>5, <2>6 DEF LastSaved, Saves
<1>8. CASE Advance
  <2>1. /\ pc = "advance" /\ UNCHANGED <<ckpt, tracker, policy>> /\ step' = step + 1
        /\ pc' = (IF IsLastStep THEN "done" ELSE "batch")
    BY <1>8 DEF Advance, diskVars
  <2>2. pc' = "batch" => step' - 1 < TotalSteps
    BY <1>1, <2>1 DEF IsLastStep
  <2>3. Folder(tracker)' = Folder(tracker)
    BY <2>1 DEF Folder
  <2> QED BY <1>1, <2>1, <2>2, <2>3 DEF LastSaved, Running, Saves
<1>9. CASE FallbackSave \/ NoFallbackSave \/ FinishFallback
  <2>1. pc' \in {"rotate", "done"} /\ UNCHANGED <<ckpt, tracker, policy>> /\ Running
        /\ pc \notin Saves \cup {"boot", "failed"}
    BY <1>9 DEF FallbackSave, NoFallbackSave, FinishFallback, diskVars, procVars, Running, Saves
  <2>2. Folder(tracker)' = Folder(tracker)
    BY <2>1 DEF Folder
  <2> QED BY <1>1, <2>1, <2>2 DEF LastSaved, Running, Saves
<1>10. CASE SaveRotate
  <2>1. pc = "rotate" /\ pc' = "actor" /\ UNCHANGED <<tracker, policy>>
    BY <1>10 DEF SaveRotate
  <2> QED BY <1>1, <2>1 DEF LastSaved, Running, Saves
<1>11. ASSUME NEW f, ckpt' = Put(ckpt, step, f), UNCHANGED <<tracker, policy, step>>,
              pc \in Saves, pc' \in Saves, f.actor.steps = policy
       PROVE LastSaved'
  <2>1. Folder(step)' = f
    BY <1>11, PutFolder
  <2> QED BY <1>1, <1>11, <2>1 DEF LastSaved, Running, Saves
<1>12. CASE SaveActor
  <2> DEFINE f == [Folder(step) EXCEPT !.actor = [st |-> "ok", steps |-> policy]]
  <2>1. f.actor.steps = policy
    BY <1>1 DEF CkptFolder
  <2>2. /\ ckpt' = Put(ckpt, step, f) /\ UNCHANGED <<tracker, policy, step>>
        /\ pc \in Saves /\ pc' \in Saves
    BY <1>12 DEF SaveActor, Saves
  <2> HIDE DEF f
  <2> QED BY <1>11, <2>1, <2>2
<1>13. CASE SaveData
  <2> DEFINE f == [Folder(step) EXCEPT !.data =
                      [st |-> "ok", pos |-> loader.pos, finished |-> loader.finished]]
  <2>1. f.actor = Folder(step).actor
    BY <1>1 DEF CkptFolder
  <2>2. /\ ckpt' = Put(ckpt, step, f) /\ UNCHANGED <<tracker, policy, step>>
        /\ pc \in Saves /\ pc' \in Saves /\ Folder(step).actor.steps = policy
    BY <1>1, <1>13 DEF SaveData, procVars, LastSaved, Saves
  <2> HIDE DEF f
  <2> QED BY <1>11, <2>1, <2>2
<1>14. CASE SaveAdaptive
  <2> DEFINE f == [Folder(step) EXCEPT !.adaptive = AdaptiveFile]
  <2>1. f.actor = Folder(step).actor
    BY <1>1 DEF CkptFolder
  <2>2. /\ ckpt' = Put(ckpt, step, f) /\ UNCHANGED <<tracker, policy, step>>
        /\ pc \in Saves /\ pc' \in Saves /\ Folder(step).actor.steps = policy
    BY <1>1, <1>14 DEF SaveAdaptive, procVars, LastSaved, Saves
  <2> HIDE DEF f
  <2> QED BY <1>11, <2>1, <2>2
<1>15. CASE SaveTracker
  <2>1. /\ pc = "tracker" /\ pc' \in {"advance", "finish"} /\ tracker' = step
        /\ UNCHANGED <<ckpt, step, policy>>
    BY <1>15 DEF SaveTracker, procVars
  <2>2. Folder(step)' = Folder(step) /\ Folder(step).actor.steps = policy /\ Len(policy) = step
    BY <1>1, <2>1 DEF Folder, LastSaved, ProcessCounted
  <2> QED BY <1>1, <2>1, <2>2 DEF LastSaved, Running, Saves, TornTracker
<1>16. CASE Crash \/ CrashMidWrite \/ ResumeFails
  <2>1. pc' \in {"boot", "failed"}
    BY <1>16 DEF Crash, CrashMidWrite, FreshProcess, ResumeFails
  <2> QED BY <2>1 DEF LastSaved, Running, Saves
<1>17. CASE UNCHANGED vars
  BY <1>1, <1>17 DEF vars, procVars, diskVars, LastSaved, Folder, Running, IsLastStep
<1> QED BY <1>3, <1>4, <1>5, <1>6, <1>7, <1>8, <1>9, <1>10, <1>12, <1>13, <1>14, <1>15,
           <1>16, <1>17
    DEF Next, Process, Halted, Boot, Training, Saving

LEMMA FinalStep ==
    ASSUME ConfigAssumption, EndIsSaved, FinalInv, [Next]_vars
    PROVE FinalWeightsSaved'
<1>1. /\ TypeOK /\ policy \in History /\ step \in Nat /\ SaveEvery \in Nat
      /\ tracker \in Nat \cup {TornTracker} /\ Len(policy) \in Nat
      /\ TotalSteps \in Nat \ {0} /\ LastSaved /\ ProcessCounted /\ StepInv
      /\ TotalEpochs \in Nat /\ BatchesPerEpoch \in Nat
  <2>1. TotalSteps \in Nat \ {0}
    BY DEF ConfigAssumption, TotalSteps
  <2> QED BY <2>1, HistoryFacts DEF FinalInv, StepInv, TypeOK, ConfigAssumption
<1> SUFFICES ASSUME pc' = "done", SaveEnabled, policy' # <<>>
             PROVE tracker' = Len(policy') /\ Folder(tracker)'.actor.steps = policy'
  BY DEF FinalWeightsSaved
<1>2. ASSUME UNCHANGED <<ckpt, tracker, policy>>, tracker = Len(policy),
             pc \notin Saves \cup {"boot", "failed"}
      PROVE tracker' = Len(policy') /\ Folder(tracker)'.actor.steps = policy'
  <2>1. tracker # NoTracker
    BY <1>1, <1>2, HistoryFacts DEF NoTracker
  <2> QED BY <1>1, <1>2, <2>1 DEF LastSaved, Folder
<1>3. CASE Advance
  BY <1>1, <1>2, <1>3 DEF Advance, diskVars, LastSaved, ProcessCounted, Saves
<1>4. CASE FinishFallback
  BY <1>1, <1>2, <1>4 DEF FinishFallback, diskVars, LastSaved, ProcessCounted, Saves
<1>5. CASE NoFallbackSave
  <2>1. /\ pc = "epoch" /\ epoch >= TotalEpochs /\ UNCHANGED <<ckpt, tracker, policy>>
        /\ ~(step - 1 >= 1 /\ ~AlreadySaved) /\ Len(policy) = step - 1 /\ policy # <<>>
    BY <1>1, <1>5 DEF NoFallbackSave, procVars, diskVars, ProcessCounted
  <2>2. step - 1 >= 1 /\ AlreadySaved /\ tracker <= step - 1 /\ tracker \in Nat
    BY <1>1, <2>1, HistoryFacts DEF LastSaved, Running
  <2>3. CASE ~SaveAtEpoch
    <3>1. SaveEvery > 0 /\ (step - 1) % SaveEvery = 0
      BY <2>2, <2>3 DEF AlreadySaved, FreqTriggered
    <3>2. ~(step - 1 \in tracker + 1 .. step - 1)
      BY <2>1, <3>1 DEF FinalInv, Unsaved
    <3>3. tracker = step - 1
      BY <1>1, <2>2, <3>2
    <3> QED BY <1>2, <2>1, <3>3 DEF Saves
  <2>4. CASE ~MayDrop /\ TotalSteps <= BatchesPerEpoch * TotalEpochs
    <3>1. Len(policy) = TotalEpochs * BatchesPerEpoch
      BY <2>1, <2>4, EndOfTraining DEF FinalInv
    <3>2. TotalEpochs * BatchesPerEpoch = BatchesPerEpoch * TotalEpochs
      BY <1>1
    <3>3. step - 1 >= TotalSteps
      BY <2>1, <2>4, <3>1, <3>2
    <3>4. tracker = step - 1
      BY <1>1, <2>1, <3>3 DEF LastSaved
    <3> QED BY <1>2, <2>1, <3>4 DEF Saves
  <2> QED BY <2>3, <2>4 DEF EndIsSaved
<1>6. CASE UNCHANGED vars
  BY <1>6 DEF vars, procVars, diskVars, FinalInv, FinalWeightsSaved, Folder
<1>7. Advance \/ FinishFallback \/ NoFallbackSave \/ UNCHANGED vars
  BY DEF Next, Process, Halted, Boot, StartFromScratch, Resume, ResumeFails, Generation,
     SkipGeneration, NoGeneration, LoadCachedEpoch, GenerateEpoch, GenerateOnEmpty,
     WriteCache, Training, BeginEpoch, TrainBatch, EndEpoch, Saving, FallbackSave,
     SaveRotate, SaveActor, SaveData, SaveAdaptive, SaveTracker, Crash, CrashMidWrite,
     FreshProcess
<1> QED BY <1>3, <1>4, <1>5, <1>6, <1>7

\* A job that ended has its last weights in the checkpoint the tracker names:
\* with an int save_freq alone whatever is dropped, and with epoch saves when no
\* sample is dropped and the epochs reach the step limit; whatever crashes.
THEOREM LastWeightsSaved ==
    ASSUME EndIsSaved
    PROVE Spec => []FinalWeightsSaved
<1>1. Init => FinalInv
  <2> SUFFICES ASSUME Init PROVE FinalInv
    OBVIOUS
  <2>1. StepInv /\ OrderInv
    BY CountInit, OrderInit, ConfigAssumption
  <2>2. pc = "boot" /\ tracker = 0
    BY DEF Init, NoTracker
  <2>3. Unsaved /\ LastSaved /\ FinalWeightsSaved
    BY <2>2 DEF Unsaved, LastSaved, FinalWeightsSaved, Running, Saves
  <2> QED BY <2>1, <2>3 DEF FinalInv
<1>2. FinalInv /\ [Next]_vars => FinalInv'
  BY CountNext, OrderNext, UnsavedStep, LastSavedStep, FinalStep, ConfigAssumption
  DEF FinalInv, StepInv
<1>3. FinalInv => FinalWeightsSaved
  BY DEF FinalInv
<1> QED BY <1>1, <1>2, <1>3, PTL DEF Spec

-----------------------------------------------------------------------------
(* The curriculum.                                                         *)

\* What the running process stands for in the curriculum.
TrainedItems == IF pc = "boot" THEN DurableItems ELSE Items(policy)

ItemsType == Seq(Nat \X Nat)

LEMMA ItemsOfHistory ==
    ASSUME NEW h \in History
    PROVE /\ Items(h) \in ItemsType /\ Len(Items(h)) = Len(h)
          /\ \A i \in DOMAIN h : Items(h)[i] = <<h[i].epoch, h[i].batch>>
<1> DEFINE S == [epoch : Nat, batch : Nat, view : View]
<1>1. h \in Seq(S)
  BY DEF History
<1> HIDE DEF S
<1>2. Len(h) \in Nat /\ DOMAIN h = 1 .. Len(h) /\ \A i \in DOMAIN h : h[i] \in S
  BY <1>1
<1>3. \A i \in 1 .. Len(h) : <<h[i].epoch, h[i].batch>> \in Nat \X Nat
  BY <1>2 DEF S
<1>4. Items(h) = [i \in 1 .. Len(h) |-> <<h[i].epoch, h[i].batch>>]
  BY <1>2 DEF Items
<1> DEFINE g(i) == <<h[i].epoch, h[i].batch>>
<1>5. Items(h) = [i \in 1 .. Len(h) |-> g(i)] /\ \A i \in 1 .. Len(h) : g(i) \in Nat \X Nat
  BY <1>3, <1>4
<1> HIDE DEF g
<1>6. Items(h) \in Seq(Nat \X Nat) /\ Len(Items(h)) = Len(h)
  BY <1>2, <1>5
<1> QED BY <1>2, <1>4, <1>6 DEF ItemsType

LEMMA ItemsEmpty == Items(<<>>) = <<>>
<1>1. <<>> \in History
  BY DEF History
<1>2. Items(<<>>) \in ItemsType /\ Len(Items(<<>>)) = 0
  BY <1>1, ItemsOfHistory
<1> QED BY <1>2 DEF ItemsType

\* One more training step is one more item.
LEMMA ItemsAppend ==
    ASSUME NEW h \in History, NEW x \in [epoch : Nat, batch : Nat, view : View]
    PROVE Items(Append(h, x)) = Append(Items(h), <<x.epoch, x.batch>>)
<1> DEFINE S == [epoch : Nat, batch : Nat, view : View]
           y == <<x.epoch, x.batch>>
           hx == Append(h, x)
<1>1. h \in Seq(S) /\ x \in S
  BY DEF History
<1>2. y \in Nat \X Nat
  OBVIOUS
<1>3. hx \in History /\ hx \in Seq(S)
  <2> HIDE DEF S
  <2>1. hx \in Seq(S)
    BY <1>1
  <2> QED BY <2>1 DEF S, History
<1>4. /\ Len(h) \in Nat /\ Len(hx) = Len(h) + 1 /\ DOMAIN hx = 1 .. Len(h) + 1
      /\ DOMAIN h = 1 .. Len(h) /\ hx[Len(h) + 1] = x
      /\ \A i \in 1 .. Len(h) : hx[i] = h[i]
  <2> HIDE DEF S
  <2> QED BY <1>1
<1>5. /\ Items(h) \in ItemsType /\ Len(Items(h)) = Len(h)
      /\ Items(hx) \in ItemsType /\ Len(Items(hx)) = Len(h) + 1
  BY <1>3, <1>4, ItemsOfHistory
<1>6. /\ \A i \in 1 .. Len(h) : Items(hx)[i] = Items(h)[i]
      /\ Items(hx)[Len(h) + 1] = y
  <2>1. \A i \in 1 .. Len(h) + 1 : Items(hx)[i] = <<hx[i].epoch, hx[i].batch>>
    BY <1>3, <1>4, ItemsOfHistory
  <2>2. \A i \in 1 .. Len(h) : Items(h)[i] = <<h[i].epoch, h[i].batch>>
    BY <1>4, ItemsOfHistory
  <2> QED BY <1>4, <2>1, <2>2
<1> HIDE DEF y, hx
<1>7. Items(hx) = Append(Items(h), y)
  <2> DEFINE R == Nat \X Nat
             z == Append(Items(h), y)
  <2>1. Items(h) \in Seq(R) /\ Items(hx) \in Seq(R) /\ y \in R
    BY <1>2, <1>5 DEF ItemsType
  <2> HIDE DEF R
  <2>2. /\ z \in Seq(R) /\ Len(z) = Len(h) + 1 /\ z[Len(h) + 1] = y
        /\ \A i \in 1 .. Len(h) : z[i] = Items(h)[i]
    BY <1>4, <1>5, <2>1
  <2> HIDE DEF z
  <2>3. \A i \in 1 .. Len(h) + 1 : Items(hx)[i] = z[i]
    BY <1>4, <1>6, <2>2
  <2>4. Items(hx) = z
    BY <1>5, <2>1, <2>2, <2>3, SeqEqual
  <2> QED BY <2>4 DEF z
<1> QED BY <1>7 DEF y, hx

-----------------------------------------------------------------------------
\* The checkpoint the tracker names can be loaded: no resume fails.
LEMMA ResumeWorks ==
    ASSUME ConfigAssumption, CkptInv, OrderInv
    PROVE ~ResumeFails
<1> SUFFICES ASSUME ResumeFails PROVE FALSE
  OBVIOUS
<1>1. tracker # NoTracker /\ ~Loadable
  BY DEF ResumeFails
<1>2. tracker # TornTracker /\ Coherent(tracker)
  BY <1>1 DEF CkptInv, TrackerNamesCheckpoint
<1>3. RestoredView.n > 0
  BY <1>2, FolderFull DEF Coherent, RestoredView, Restored, OrderInv, ConfigAssumption
<1> QED BY <1>1, <1>2, <1>3 DEF Loadable, Restored, Coherent

LEMMA DurableStable ==
    ASSUME tracker' = tracker, tracker # NoTracker => Folder(tracker)' = Folder(tracker)
    PROVE DurableItems' = DurableItems
BY DEF DurableItems, NoTracker

\* One item more: the batch that comes next when every epoch has all its batches.
LEMMA TrainRefines ==
    ASSUME ConfigAssumption, OrderInv, TrainBatch
    PROVE /\ Len(Items(policy)) < BatchesPerEpoch * TotalEpochs
          /\ Items(policy)' = Append(Items(policy),
               <<Len(Items(policy)) \div BatchesPerEpoch, Len(Items(policy)) % BatchesPerEpoch>>)
<1> DEFINE x == [epoch |-> epoch, batch |-> loader.pos, view |-> view']
<1>1. /\ pc = "batch" /\ loader.pos < BatchesPerEpoch /\ policy' = Append(policy, x)
  BY DEF TrainBatch, OrderInv, ViewsFull
<1>2. /\ epoch \in Nat /\ loader.pos \in 0 .. BatchesPerEpoch - 1 /\ epoch + 1 <= TotalEpochs
      /\ BatchesPerEpoch \in Nat \ {0} /\ TotalEpochs \in Nat /\ policy \in History
      /\ Len(policy) = epoch * BatchesPerEpoch + loader.pos
  <2>1. /\ epoch \in Nat /\ loader.pos \in Nat /\ policy \in History
        /\ BatchesPerEpoch \in Nat \ {0} /\ TotalEpochs \in Nat
    BY DEF OrderInv, StepInv, TypeOK, ConfigAssumption
  <2>2. epoch < TotalEpochs /\ Within
    BY <1>1 DEF OrderInv, Positions
  <2>3. Len(policy) = epoch * BatchesPerEpoch + loader.pos
    BY <2>2 DEF Within, At
  <2> QED BY <1>1, <2>1, <2>2, <2>3
<1>3. view' \in View
  BY TypeTraining DEF Training, OrderInv, StepInv, TypeOK
<1>4. x \in [epoch : Nat, batch : Nat, view : View] /\ x.epoch = epoch /\ x.batch = loader.pos
  BY <1>2, <1>3
<1>5. Len(Items(policy)) = Len(policy) /\ Len(policy) \in Nat
  <2>1. Len(Items(policy)) = Len(policy)
    BY <1>2, ItemsOfHistory
  <2>2. Len(policy) \in Nat
    BY <1>2 DEF History
  <2> QED BY <2>1, <2>2
<1>6. Len(policy) \div BatchesPerEpoch = epoch /\ Len(policy) % BatchesPerEpoch = loader.pos
  <2>1. /\ BatchesPerEpoch \in Nat \ {0} /\ loader.pos \in 0 .. BatchesPerEpoch - 1
        /\ epoch \in Nat
    BY <1>2
  <2>2. At(epoch, loader.pos) = Len(policy)
    BY <1>2 DEF At
  <2>3. At(epoch, loader.pos) \in Nat
    BY <1>5, <2>2
  <2>4. /\ At(epoch, loader.pos) \div BatchesPerEpoch = epoch
        /\ At(epoch, loader.pos) % BatchesPerEpoch = loader.pos
    BY <2>1, <2>3, Quotient, ZenonT(100) DEF At
  <2> QED BY <2>2, <2>4
<1> HIDE DEF x
<1>7. Items(policy)' = Append(Items(policy), <<epoch, loader.pos>>)
  BY <1>1, <1>2, <1>4, ItemsAppend
<1>8. Len(policy) < BatchesPerEpoch * TotalEpochs
  <2>1. Len(policy) + 1 \in Nat /\ (Len(policy) + 1) - 1 = epoch * BatchesPerEpoch + loader.pos
    BY <1>2, <1>5
  <2>2. Len(policy) + 1 <= (epoch + 1) * BatchesPerEpoch
    BY <1>2, <2>1, NextEpoch, Zenon
  <2>3. epoch + 1 \in Nat
    BY <1>2
  <2>4. (epoch + 1) * BatchesPerEpoch <= TotalEpochs * BatchesPerEpoch
        /\ (epoch + 1) * BatchesPerEpoch \in Nat /\ TotalEpochs * BatchesPerEpoch \in Nat
    BY <1>2, <2>3, Multiple
  <2>5. TotalEpochs * BatchesPerEpoch = BatchesPerEpoch * TotalEpochs
    BY <1>2
  <2> QED BY <1>5, <2>2, <2>4, <2>5
<1> QED BY <1>5, <1>6, <1>7, <1>8

LEMMA StepRefines ==
    ASSUME ConfigAssumption, SafeSaves, CkptInv, OrderInv, [Next]_vars
    PROVE [Promise!Next]_<<TrainedItems, DurableItems>>
<1>1. CASE Crash \/ CrashMidWrite
  <2>1. pc' = "boot" /\ ~SaveTracker
    BY <1>1 DEF Crash, CrashMidWrite, FreshProcess, SaveTracker
  <2>2. DurableItems' = DurableItems
    BY <2>1, TrackedStable, DurableStable
  <2> QED BY <2>1, <2>2 DEF TrainedItems, Promise!Next, Promise!Recover
<1>2. CASE StartFromScratch
  <2>1. /\ pc = "boot" /\ pc' = "epoch" /\ tracker = NoTracker /\ tracker' = tracker
        /\ policy' = <<>>
    BY <1>2 DEF StartFromScratch, diskVars, OrderInv, StepInv, BootFresh
  <2> QED BY <2>1, ItemsEmpty DEF TrainedItems, DurableItems
<1>3. CASE Resume
  <2>1. /\ pc = "boot" /\ pc' = "epoch" /\ tracker # NoTracker
        /\ UNCHANGED <<tracker, ckpt>> /\ policy' = Folder(tracker).actor.steps
    BY <1>3 DEF Resume, diskVars, Restored
  <2> QED BY <2>1 DEF TrainedItems, DurableItems, Folder
<1>4. CASE TrainBatch
  <2>1. pc = "batch" /\ pc' \in {"rotate", "advance"} /\ UNCHANGED <<tracker, ckpt>>
    BY <1>4 DEF TrainBatch, diskVars
  <2>2. TrainedItems = Items(policy) /\ TrainedItems' = Items(policy)'
    BY <2>1 DEF TrainedItems
  <2>3. DurableItems' = DurableItems
    BY <2>1 DEF DurableItems, Folder
  <2> QED BY <1>4, <2>2, <2>3, TrainRefines
      DEF Promise!Next, Promise!Train, Promise!NextItem, TrainedItems
<1>5. CASE SaveTracker
  <2>1. /\ pc = "tracker" /\ pc' # "boot" /\ tracker' = step /\ UNCHANGED <<policy, ckpt>>
    BY <1>5 DEF SaveTracker, procVars
  <2>2. /\ Folder(step).actor.steps = policy /\ step # NoTracker
    BY <2>1 DEF CkptInv, SaveProgress, Saves, TrackerBehind, StepInv, TypeOK, NoTracker,
       TornTracker
  <2>3. DurableItems' = Items(policy)
    BY <2>1, <2>2 DEF DurableItems, Folder
  <2>4. TrainedItems = Items(policy) /\ TrainedItems' = Items(policy)
    BY <2>1 DEF TrainedItems
  <2> QED BY <2>3, <2>4 DEF Promise!Next, Promise!Commit, TrainedItems
<1>6. CASE Generation \/ BeginEpoch \/ Advance \/ EndEpoch \/ NoFallbackSave
           \/ FinishFallback \/ SaveRotate \/ SaveActor \/ SaveData \/ SaveAdaptive
  <2>1. pc # "boot" /\ pc' # "boot" /\ policy' = policy /\ ~SaveTracker
    BY <1>6 DEF Generation, SkipGeneration, NoGeneration, LoadCachedEpoch, GenerateEpoch,
       GenerateOnEmpty, WriteCache, BeginEpoch, Advance, EndEpoch, NoFallbackSave,
       FinishFallback, SaveRotate, SaveActor, SaveData, SaveAdaptive, SaveTracker, procVars
  <2>2. DurableItems' = DurableItems
    BY <2>1, TrackedStable, DurableStable
  <2> QED BY <2>1, <2>2 DEF TrainedItems
<1>7. CASE UNCHANGED vars
  BY <1>7 DEF vars, procVars, diskVars, TrainedItems, DurableItems, Folder
<1> QED BY <1>1, <1>2, <1>3, <1>4, <1>5, <1>6, <1>7, NoResave, ResumeWorks
    DEF Next, Process, Halted, Boot, Training, Saving

\* Without drops and with safe saves, every behaviour of the job is one of the
\* curriculum: crashes, resumes, caches and the writes of a checkpoint show only
\* as the training of the next batch, a commit or a recovery.
THEOREM CurriculumImplemented ==
    ASSUME SafeSaves, ~MayDrop
    PROVE Spec => ImplementsCurriculum
<1>1. Init => CkptInv /\ OrderInv
  BY CkptInit, OrderInit, ConfigAssumption
<1>2. CkptInv /\ OrderInv /\ [Next]_vars => CkptInv' /\ OrderInv'
  BY CkptNext, OrderNext, ConfigAssumption
<1>3. Init => Promise!Init
  <2>1. Init => pc = "boot" /\ tracker = NoTracker
    BY DEF Init
  <2> QED BY <2>1 DEF Promise!Init, DurableItems
<1>4. CkptInv /\ OrderInv /\ [Next]_vars => [Promise!Next]_<<TrainedItems, DurableItems>>
  BY StepRefines, ConfigAssumption
<1> QED BY <1>1, <1>2, <1>3, <1>4, PTL DEF Spec, ImplementsCurriculum, Promise!Spec, TrainedItems

-----------------------------------------------------------------------------
(* Passes of the generator.                                                *)

LastPass(v) == v.gens[Len(v.gens)]

\* h begins with g.
Continues(g, h) == Len(g) <= Len(h) /\ \A k \in 1 .. Len(g) : h[k] = g[k]

LEMMA ContinuesRefl ==
    ASSUME NEW g \in Seq(PassRecord)
    PROVE Continues(g, g)
BY DEF Continues

LEMMA ContinuesTrans ==
    ASSUME NEW f \in Seq(PassRecord), NEW g \in Seq(PassRecord), NEW h \in Seq(PassRecord),
           Continues(f, g), Continues(g, h)
    PROVE Continues(f, h)
BY DEF Continues

\* A pass is one more in the lineage, under the configuration of the process.
LEMMA OnePassMore ==
    ASSUME ConfigAssumption, TypeOK, NEW n
    PROVE /\ Pass(n).n = n /\ Pass(n).gens \in Seq(PassRecord) /\ Pass(n).gens # <<>>
          /\ Len(Pass(n).gens) = Len(view.gens) + 1
          /\ LastPass(Pass(n)).cfg = cfg
          /\ Continues(view.gens, Pass(n).gens)
<1> DEFINE x == [id |-> passes, cfg |-> cfg]
<1>1. view.gens \in Seq(PassRecord) /\ x \in PassRecord /\ x.cfg = cfg
  BY DEF TypeOK, View, PassRecord
<1>2. Pass(n).n = n /\ Pass(n).gens = Append(view.gens, x)
  BY DEF Pass
<1> HIDE DEF x
<1> DEFINE g == Append(view.gens, x)
<1>3. /\ g \in Seq(PassRecord) /\ Len(g) = Len(view.gens) + 1 /\ Len(view.gens) \in Nat
      /\ g[Len(view.gens) + 1] = x
      /\ \A k \in 1 .. Len(view.gens) : g[k] = view.gens[k]
  BY <1>1
<1>4. g # <<>>
  BY <1>3
<1> HIDE DEF g
<1> QED BY <1>1, <1>2, <1>3, <1>4 DEF LastPass, Continues, g

-----------------------------------------------------------------------------
(* No stale epoch.                                                         *)

\* The last pass of the dataset was made under a configuration with the
\* signature of this process.
OwnView == view.gens # <<>> /\ LastPass(view).cfg.signed = cfg.signed

\* A readable cache entry was made under the configuration it is signed with.
SignedCache ==
    \A e \in 0 .. TotalEpochs - 1 :
      cache[e].st = "ok" => /\ cache[e].view.gens # <<>>
                            /\ LastPass(cache[e].view).cfg.signed = cache[e].signed

\* The inductive strengthening of NoStaleEpoch.  A resume in the middle of an
\* epoch always finds a loader position (DataWritten), so the dataset it keeps
\* is not taken for a new one; a dataset without batches, for which no pass is
\* made, can only come from a pass of this process.
StaleInv ==
    /\ DataWritten
    /\ SignedCache
    /\ pc = "boot" => ~skipGen /\ view = InitialView
    /\ pc = "epoch" /\ skipGen => loader.resumed
    /\ pc \in {"cache", "begin", "batch", "advance"} \/ (pc \in Saves /\ epoch < TotalEpochs)
         => ~skipGen
    /\ view.n = 0 \/ pc = "cache" \/ (pc = "begin" /\ Schedule = "epoch" /\ ~loader.resumed)
         => OwnView

LEMMA DataWrittenStep ==
    ASSUME ConfigAssumption, TypeOK, DataWritten, [Next]_vars
    PROVE DataWritten'
<1>1. Folder(step) \in CkptFolder /\ step \in Nat
  BY FolderType DEF TypeOK
<1>2. ASSUME UNCHANGED <<ckpt, tracker>>, pc' \notin {"adaptive", "tracker"}
      PROVE DataWritten'
  BY <1>2 DEF DataWritten, Folder
<1>3. CASE Boot \/ Generation \/ Training \/ FallbackSave \/ NoFallbackSave \/ FinishFallback
  BY <1>2, <1>3 DEF Boot, StartFromScratch, Resume, ResumeFails, Generation, SkipGeneration,
     NoGeneration, LoadCachedEpoch, GenerateEpoch, GenerateOnEmpty, WriteCache, Training,
     BeginEpoch, TrainBatch, Advance, EndEpoch, FallbackSave, NoFallbackSave, FinishFallback,
     procVars, diskVars
<1>4. CASE SaveRotate
  <2>1. /\ DOMAIN ckpt' = DOMAIN ckpt /\ tracker' = tracker /\ pc' = "actor"
        /\ \A s \in DOMAIN ckpt :
             ckpt'[s] = ckpt[s] \/ ckpt'[s] = [ckpt[s] EXCEPT !.actor = NoActor]
    BY <1>4 DEF SaveRotate
  <2>2. \A s \in DOMAIN ckpt : ckpt'[s].data = ckpt[s].data
    BY <2>1 DEF TypeOK, CkptFolder
  <2>3. Folder(tracker)'.data = Folder(tracker).data
    BY <2>1, <2>2 DEF Folder
  <2> QED BY <2>1, <2>3 DEF DataWritten
<1>5. ASSUME NEW f, ckpt' = Put(ckpt, step, f), tracker' = tracker, step' = step,
             f.data.st # "absent" \/ f.data = Folder(step).data,
             pc' \in {"adaptive", "tracker"} => f.data.st # "absent"
      PROVE DataWritten'
  <2>1. Folder(step)' = f /\ (tracker # step => Folder(tracker)' = Folder(tracker))
    BY <1>5, PutFolder
  <2> QED BY <1>5, <2>1 DEF DataWritten
<1>6. CASE SaveActor
  <2> DEFINE f == [Folder(step) EXCEPT !.actor = [st |-> "ok", steps |-> policy]]
  <2>1. f.data = Folder(step).data
    BY <1>1 DEF CkptFolder
  <2>2. ckpt' = Put(ckpt, step, f) /\ tracker' = tracker /\ step' = step /\ pc' = "data"
    BY <1>6 DEF SaveActor
  <2> QED BY <1>5, <2>1, <2>2
<1>7. CASE SaveData
  <2> DEFINE f == [Folder(step) EXCEPT !.data =
                      [st |-> "ok", pos |-> loader.pos, finished |-> loader.finished]]
  <2>1. f.data.st = "ok"
    BY <1>1 DEF CkptFolder
  <2>2. ckpt' = Put(ckpt, step, f) /\ tracker' = tracker /\ step' = step
    BY <1>7 DEF SaveData, procVars
  <2> QED BY <1>5, <2>1, <2>2
<1>8. CASE SaveAdaptive
  <2> DEFINE f == [Folder(step) EXCEPT !.adaptive = AdaptiveFile]
  <2>1. f.data = Folder(step).data
    BY <1>1 DEF CkptFolder
  <2>2. /\ ckpt' = Put(ckpt, step, f) /\ tracker' = tracker /\ step' = step
        /\ pc = "adaptive" /\ pc' = "tracker"
    BY <1>8 DEF SaveAdaptive, procVars
  <2>3. f.data.st # "absent"
    BY <2>1, <2>2 DEF DataWritten
  <2> QED BY <1>5, <2>1, <2>2, <2>3
<1>9. CASE SaveTracker
  BY <1>9 DEF SaveTracker, procVars, DataWritten, Folder
<1>10. CASE Crash
  BY <1>2, <1>10 DEF Crash, FreshProcess, diskVars
<1>11. CASE CrashMidWrite
  <2>1. pc' = "boot" /\ (tracker' = tracker \/ tracker' = TornTracker)
    BY <1>11 DEF CrashMidWrite, FreshProcess
  <2>2. CASE tracker' = TornTracker
    BY <2>1, <2>2 DEF DataWritten
  <2>3. CASE UNCHANGED <<ckpt, tracker>>
    BY <1>2, <2>1, <2>3
  <2>4. CASE ckpt' = Put(ckpt, step, TornFolder) /\ pc \in {"actor", "data", "adaptive"} /\ tracker' = tracker
    <3>1. TornFolder.data.st # "absent" \/ TornFolder.data = Folder(step).data
      BY <1>1, <2>4 DEF TornFolder, CkptFolder, NoData
    <3> DEFINE f == TornFolder
    <3>2. Folder(step)' = (IF step' = step THEN f ELSE Folder(step)') /\ \A t : Folder(t)' = IF t = step THEN f ELSE Folder(t)
      BY <2>4, PutFolder
    <3> HIDE DEF f
    <3> QED BY <2>1, <2>4, <3>1, <3>2 DEF DataWritten, f, Folder
  <2> QED BY <1>11, <2>1, <2>2, <2>3, <2>4 DEF CrashMidWrite
<1>12. CASE UNCHANGED vars
  BY <1>12 DEF vars, procVars, diskVars, DataWritten, Folder
<1> QED BY <1>3, <1>4, <1>6, <1>7, <1>8, <1>9, <1>10, <1>11, <1>12
    DEF Next, Process, Halted, Saving

LEMMA SignedStep ==
    ASSUME ConfigAssumption, TypeOK, StaleInv, [Next]_vars
    PROVE SignedCache'
<1>1. cache \in [0 .. TotalEpochs - 1 -> [st : FileState, signed : Signature, view : View]]
  BY DEF TypeOK
<1>2. CASE UNCHANGED cache
  BY <1>2 DEF StaleInv, SignedCache, LastPass
<1>3. CASE WriteCache
  <2> DEFINE x == [st |-> "ok", signed |-> cfg.signed, view |-> view]
  <2>1. cache' = [cache EXCEPT ![epoch] = x] /\ pc = "cache"
    BY <1>3 DEF WriteCache
  <2>2. x.st = "ok" /\ x.signed = cfg.signed /\ x.view = view
    OBVIOUS
  <2>3. x.view.gens # <<>> /\ LastPass(x.view).cfg.signed = x.signed
    BY <2>1, <2>2 DEF StaleInv, OwnView
  <2> HIDE DEF x
  <2>4. \A e \in 0 .. TotalEpochs - 1 : cache'[e] = x \/ cache'[e] = cache[e]
    BY <1>1, <2>1
  <2> QED BY <2>3, <2>4 DEF StaleInv, SignedCache, LastPass
<1>4. CASE CrashMidWrite
  <2>1. \/ cache' = cache
        \/ cache' = [cache EXCEPT ![epoch].st = "torn"]
    BY <1>4 DEF CrashMidWrite
  <2>2. \A e \in 0 .. TotalEpochs - 1 : cache'[e].st = "torn" \/ cache'[e] = cache[e]
    <3> TAKE e \in 0 .. TotalEpochs - 1
    <3>1. cache[e] \in [st : FileState, signed : Signature, view : View]
      BY <1>1
    <3>2. CASE cache' = [cache EXCEPT ![epoch].st = "torn"] /\ e = epoch
      <4>1. cache'[e] = [cache[e] EXCEPT !.st = "torn"]
        BY <1>1, <3>2
      <4> QED BY <3>1, <4>1
    <3> QED BY <1>1, <2>1, <3>2
  <2> QED BY <2>2 DEF StaleInv, SignedCache, LastPass
<1>5. UNCHANGED cache \/ WriteCache \/ CrashMidWrite
  BY DEF Next, Process, Halted, Boot, StartFromScratch, Resume, ResumeFails, Generation,
     SkipGeneration, NoGeneration, LoadCachedEpoch, GenerateEpoch, GenerateOnEmpty,
     Training, BeginEpoch, TrainBatch, Advance, EndEpoch, Saving, FallbackSave,
     NoFallbackSave, FinishFallback, SaveRotate, SaveActor, SaveData, SaveAdaptive,
     SaveTracker, Crash, vars, procVars, diskVars
<1> QED BY <1>2, <1>3, <1>4, <1>5

LEMMA StaleBoot ==
    ASSUME ConfigAssumption, TypeOK, StaleInv, SignedCache', DataWritten', Boot
    PROVE StaleInv'
<1>1. CASE StartFromScratch
  BY <1>1 DEF StartFromScratch, StaleInv, OwnView, InitialView, ConfigAssumption, Saves
<1>2. CASE Resume
  <2>1. /\ pc' = "epoch" /\ view' = RestoredView /\ RestoredView.n > 0 /\ RestoredView.n \in Nat
        /\ skipGen' = ~AtBoundary
        /\ loader' = IF AtBoundary \/ Restored.data.st = "absent"
                       THEN FreshLoader
                       ELSE [pos |-> Restored.data.pos,
                             finished |-> Restored.data.finished, resumed |-> TRUE]
    BY <1>2, RestoredTypes DEF Resume, Loadable, View
  <2>2. Restored.data.st # "absent"
    BY <1>2 DEF Resume, Loadable, StaleInv, DataWritten, Restored
  <2>3. skipGen' => loader'.resumed
    BY <2>1, <2>2
  <2>4. view'.n # 0
    BY <2>1
  <2> QED BY <2>1, <2>3, <2>4 DEF StaleInv, Saves
<1>3. CASE ResumeFails
  BY <1>3 DEF ResumeFails, StaleInv, OwnView, Saves, procVars
<1> QED BY <1>1, <1>2, <1>3 DEF Boot

LEMMA StaleGeneration ==
    ASSUME ConfigAssumption, TypeOK, StaleInv, SignedCache', DataWritten', Generation
    PROVE StaleInv'
<1>1. CASE SkipGeneration
  BY <1>1 DEF SkipGeneration, StaleInv, OwnView, Saves
<1>2. CASE NoGeneration
  BY <1>2 DEF NoGeneration, StaleInv, OwnView, Saves, procVars
<1>3. CASE LoadCachedEpoch
  <2>1. /\ pc' = "begin" /\ ~skipGen' /\ view' = cache[epoch].view /\ cfg' = cfg
        /\ cache[epoch].st = "ok" /\ cache[epoch].signed = cfg.signed
        /\ epoch \in 0 .. TotalEpochs - 1
    BY <1>3 DEF LoadCachedEpoch, CacheHit, TypeOK, ConfigAssumption
  <2>2. OwnView'
    BY <2>1 DEF StaleInv, SignedCache, OwnView, LastPass
  <2> QED BY <2>1, <2>2 DEF StaleInv, Saves
<1>4. CASE GenerateEpoch
  <2>1. PICK n : view' = Pass(n)
    BY <1>4 DEF GenerateEpoch
  <2>2. pc' \in {"cache", "begin"} /\ ~skipGen' /\ cfg' = cfg
    BY <1>4 DEF GenerateEpoch
  <2>3. OwnView'
    BY <2>1, <2>2, OnePassMore DEF OwnView, LastPass
  <2> QED BY <2>2, <2>3 DEF StaleInv, Saves
<1>5. CASE GenerateOnEmpty
  BY <1>5 DEF GenerateOnEmpty, StaleInv, OwnView, Saves, procVars
<1>6. CASE WriteCache
  BY <1>6 DEF WriteCache, StaleInv, OwnView, Saves, procVars
<1> QED BY <1>1, <1>2, <1>3, <1>4, <1>5, <1>6 DEF Generation

LEMMA StaleStep ==
    ASSUME ConfigAssumption, TypeOK, StaleInv, [Next]_vars
    PROVE StaleInv'
<1>1. SignedCache' /\ DataWritten'
  BY SignedStep, DataWrittenStep DEF StaleInv
<1>2. CASE Boot
  BY <1>1, <1>2, StaleBoot
<1>3. CASE Generation
  BY <1>1, <1>3, StaleGeneration
<1>4. CASE TrainBatch
  <2>1. /\ pc = "batch" /\ pc' \in {"rotate", "advance"} /\ skipGen' = skipGen
        /\ view'.n = view.n /\ view.n # 0
    BY <1>4, OnePassMore DEF TrainBatch, TypeOK
  <2> QED BY <1>1, <2>1 DEF StaleInv, Saves
<1>5. CASE BeginEpoch \/ Advance \/ EndEpoch
  BY <1>1, <1>5 DEF BeginEpoch, Advance, EndEpoch, StaleInv, OwnView, Saves
<1>6. CASE Saving
  <2>1. epoch \in Nat /\ TotalEpochs \in Nat
    BY DEF TypeOK, ConfigAssumption
  <2>2. /\ UNCHANGED <<view, cfg, skipGen, epoch>>
        /\ pc' \in Saves \cup {"advance", "finish", "done"}
        /\ pc \in Saves \/ pc' \notin Saves \/ epoch >= TotalEpochs
        /\ pc' = "advance" => pc \in Saves /\ epoch < TotalEpochs
    BY <1>6 DEF Saving, FallbackSave, NoFallbackSave, FinishFallback, SaveRotate,
       SaveActor, SaveData, SaveAdaptive, SaveTracker, procVars, Saves
  <2>3. OwnView => OwnView'
    BY <2>2 DEF OwnView
  <2> QED BY <1>1, <2>1, <2>2, <2>3 DEF StaleInv, Saves
<1>7. CASE Crash \/ CrashMidWrite
  <2>1. pc' = "boot" /\ ~skipGen' /\ view' = InitialView /\ InitialView.n # 0
    BY <1>7 DEF Crash, CrashMidWrite, FreshProcess, InitialView, ConfigAssumption
  <2> QED BY <1>1, <2>1 DEF StaleInv, Saves
<1>8. CASE UNCHANGED vars
  BY <1>1, <1>8 DEF vars, procVars, StaleInv, OwnView
<1> QED BY <1>2, <1>3, <1>4, <1>5, <1>6, <1>7, <1>8 DEF Next, Process, Halted, Training

\* When the signature of a configuration covers all of it, no epoch starts with
\* a dataset generated under another one, whatever restarts change the
\* configuration, whatever crashes tear and whatever the passes drop.
THEOREM EpochsNeverStale ==
    ASSUME \A c, d \in Configs : c.signed = d.signed => c = d
    PROVE Spec => []NoStaleEpoch
<1>1. Init => TypeOK /\ StaleInv
  <2> SUFFICES ASSUME Init PROVE TypeOK /\ StaleInv
    OBVIOUS
  <2>1. TypeOK
    BY TypeInit, ConfigAssumption
  <2>2. DataWritten
    BY DEF Init, DataWritten
  <2>3. SignedCache
    BY DEF Init, SignedCache, NoCache
  <2> QED BY <2>1, <2>2, <2>3, ConfigAssumption
      DEF Init, StaleInv, InitialView, Saves, ConfigAssumption
<1>2. TypeOK /\ StaleInv /\ [Next]_vars => TypeOK' /\ StaleInv'
  BY TypeNext, StaleStep, ConfigAssumption
<1>3. TypeOK /\ StaleInv => NoStaleEpoch
  <2> SUFFICES ASSUME TypeOK, StaleInv, pc = "begin", Schedule = "epoch", ~loader.resumed
               PROVE LastPass(view).cfg = cfg
    BY DEF NoStaleEpoch, LastPass
  <2>1. OwnView
    BY DEF StaleInv
  <2>2. view.gens \in Seq(PassRecord) /\ cfg \in Configs
    BY DEF TypeOK, View, PassRecord
  <2>3. LastPass(view) \in PassRecord
    BY <2>1, <2>2 DEF OwnView, LastPass
  <2> QED BY <2>1, <2>2, <2>3 DEF OwnView, PassRecord
<1> QED BY <1>1, <1>2, <1>3, PTL DEF Spec

-----------------------------------------------------------------------------
(* One line of generator passes.                                           *)

\* The datasets a history was trained on: each epoch (each step, in the step
\* schedule) adds one pass to those of the one before.
Lineage(h) ==
    \A i \in DOMAIN h :
      /\ Len(h[i].view.gens) = IF Schedule = "epoch" THEN h[i].epoch + 1 ELSE i
      /\ i > 1 => Continues(h[i-1].view.gens, h[i].view.gens)

\* The dataset is the one of the last training step, or has one pass more and
\* no training step yet.
SameAsLast == IF policy = <<>> THEN view.gens = <<>> ELSE LastEntry.view = view

OnePassAhead ==
    /\ Len(view.gens) = epoch + 1
    /\ policy # <<>> => Continues(LastEntry.view.gens, view.gens)

Untrained == pc = "cache" \/ (pc = "begin" /\ ~loader.resumed) \/ (pc = "batch" /\ loader.pos = 0)

ViewInLine ==
    /\ pc = "boot" => view = InitialView
    /\ Running => IF Schedule = "epoch" /\ Untrained THEN OnePassAhead ELSE SameAsLast

\* The dataset in a folder is the one its weights were trained on last.
Matches(h, f) == f.adaptive.st = "ok" => f.adaptive.view = h[Len(h)].view

\* The folder the tracker names, and the one being written.
SavedView ==
    /\ tracker \notin {NoTracker, TornTracker} =>
         LET f == Folder(tracker)
         IN  /\ f.adaptive.st # "absent"
             /\ f.actor.st = "ok" => Matches(f.actor.steps, f)
    /\ Running =>
         /\ tracker # TornTracker /\ tracker <= Len(policy)
         /\ tracker = Len(policy) /\ tracker # NoTracker => Matches(policy, Folder(tracker))
    /\ pc \in Saves => policy # <<>>
    /\ pc \in {"data", "adaptive", "tracker"} => Folder(step).actor.steps = policy
    /\ pc = "tracker" => Folder(step).adaptive = AdaptiveFile

\* The steps of a history were trained on the datasets in the cache c.
FromCache(c, h) ==
    \A i \in DOMAIN h :
      c[h[i].epoch].st = "ok" /\ h[i].view.gens = c[h[i].epoch].view.gens

\* The readable entries are the first epochs of one line, and all training,
\* past and saved, was made on them.
CacheInLine ==
    /\ \A e \in 0 .. TotalEpochs - 1 : cache[e].st = "ok" =>
         /\ \E c \in Configs : cache[e].signed = c.signed
         /\ Len(cache[e].view.gens) = e + 1
         /\ e > 0 => cache[e-1].st = "ok" /\ Continues(cache[e-1].view.gens, cache[e].view.gens)
    /\ FromCache(cache, policy)
    /\ \A s \in DOMAIN ckpt : FromCache(cache, ckpt[s].actor.steps)
    /\ pc = "cache" => cache[epoch].st # "ok"
    /\ Untrained /\ pc # "cache" => cache[epoch].st = "ok" /\ view.gens = cache[epoch].view.gens
    /\ \A x \in seen : /\ x[1] \in 0 .. TotalEpochs - 1
                       /\ cache[x[1]].st = "ok" /\ x[2] = cache[x[1]].view.gens

\* The inductive strengthening of OnePassPerEpoch and EpochViewStable.
LineageInv ==
    /\ OrderInv
    /\ Lineage(policy)
    /\ \A s \in DOMAIN ckpt : Lineage(ckpt[s].actor.steps)
    /\ ViewInLine
    /\ SavedView
    /\ UseCache /\ Schedule = "epoch" => CacheInLine

\* All configurations a restart may use have one signature.
OneSignature == \A c, d \in Configs : c.signed = d.signed

LEMMA LineageAppend ==
    ASSUME NEW h \in History, NEW x \in StepRecord, Lineage(h),
           Len(x.view.gens) = IF Schedule = "epoch" THEN x.epoch + 1 ELSE Len(h) + 1,
           h # <<>> => Continues(h[Len(h)].view.gens, x.view.gens)
    PROVE Lineage(Append(h, x))
<1> DEFINE hx == Append(h, x)
<1>1. /\ Len(h) \in Nat /\ DOMAIN h = 1 .. Len(h) /\ DOMAIN hx = 1 .. Len(h) + 1
      /\ hx[Len(h) + 1] = x /\ \A i \in 1 .. Len(h) : hx[i] = h[i]
      /\ (h = <<>> => Len(h) = 0)
  BY HistoryFacts, HistoryAppend
<1> HIDE DEF hx
<1>2. \A i \in DOMAIN hx :
        /\ Len(hx[i].view.gens) = IF Schedule = "epoch" THEN hx[i].epoch + 1 ELSE i
        /\ i > 1 => Continues(hx[i-1].view.gens, hx[i].view.gens)
  <2> TAKE i \in DOMAIN hx
  <2>1. CASE i \in DOMAIN h
    <3>1. hx[i] = h[i] /\ (i > 1 => hx[i-1] = h[i-1])
      BY <1>1, <2>1
    <3> QED BY <2>1, <3>1 DEF Lineage
  <2>2. CASE i = Len(h) + 1
    <3>1. i > 1 => h # <<>> /\ hx[i-1] = h[Len(h)]
      BY <1>1, <2>2
    <3> QED BY <1>1, <2>2, <3>1
  <2> QED BY <1>1, <2>1, <2>2
<1> QED BY <1>2 DEF Lineage, hx

\* The epoch of the last training step, from where the process stands.
LEMMA LastStep ==
    ASSUME ConfigAssumption, OrderInv
    PROVE /\ policy = <<>> /\ AtStart => epoch = 0
          /\ policy # <<>> => LastEntry.epoch \in 0 .. TotalEpochs - 1
          /\ policy # <<>> /\ AtStart => LastEntry.epoch + 1 = epoch
          /\ Within /\ loader.pos > 0 => policy # <<>> /\ LastEntry.epoch = epoch
<1>1. /\ policy \in History /\ epoch \in Nat /\ BatchesPerEpoch \in Nat \ {0}
      /\ TotalEpochs \in Nat /\ InOrder(policy) /\ loader.pos \in Nat
  BY DEF OrderInv, StepInv, TypeOK, ConfigAssumption
<1>2. /\ Len(policy) \in Nat /\ (policy = <<>> => Len(policy) = 0)
      /\ (policy # <<>> => Len(policy) > 0)
  BY <1>1, HistoryFacts
<1>3. ASSUME policy = <<>>, AtStart
      PROVE epoch = 0
  <2>1. At(epoch, 0) = At(0, 0)
    BY <1>1, <1>2, <1>3 DEF AtStart, At
  <2>2. 0 \in 0 .. BatchesPerEpoch - 1 /\ 0 \in Nat
    BY <1>1
  <2> QED BY <1>1, <2>1, <2>2, AtUnique
<1>4. ASSUME policy # <<>>
      PROVE /\ LastEntry.epoch \in 0 .. TotalEpochs - 1
            /\ LastEntry.batch \in 0 .. BatchesPerEpoch - 1
            /\ Len(policy) - 1 = At(LastEntry.epoch, LastEntry.batch)
  <2>1. Len(policy) \in DOMAIN policy /\ LastEntry.epoch \in Nat /\ LastEntry.batch \in Nat
    BY <1>1, <1>4, HistoryFacts DEF LastEntry
  <2>2. /\ LastEntry.epoch < TotalEpochs /\ LastEntry.batch < BatchesPerEpoch
        /\ Len(policy) - 1 = At(LastEntry.epoch, LastEntry.batch)
    BY <1>1, <2>1, Zenon DEF InOrder, LastEntry
  <2> QED BY <1>1, <2>1, <2>2
<1>5. ASSUME policy # <<>>, AtStart
      PROVE LastEntry.epoch + 1 = epoch
  <2> DEFINE e == LastEntry.epoch
             p == LastEntry.batch
  <2>1. e \in Nat /\ p \in 0 .. BatchesPerEpoch - 1 /\ Len(policy) - 1 = At(e, p)
        /\ At(epoch, 0) = Len(policy)
    BY <1>1, <1>4, <1>5 DEF AtStart
  <2> HIDE DEF e, p
  <2>2. At(e, p + 1) = At(epoch, 0) /\ e + 1 \in Nat
    <3>1. p \in Nat
      BY <1>1, <2>1
    <3>2. At(e, p + 1) = At(e, p) + 1
      BY <2>1, <3>1, AtIsNat
    <3> QED BY <1>2, <2>1, <3>2
  <2>3. 0 \in 0 .. BatchesPerEpoch - 1
    BY <1>1
  <2>4. CASE p + 1 < BatchesPerEpoch
    <3>1. p + 1 \in 0 .. BatchesPerEpoch - 1 /\ p + 1 # 0
      BY <1>1, <2>1, <2>4
    <3> QED BY <1>1, <2>1, <2>2, <2>3, <3>1, AtUnique
  <2>5. CASE p + 1 = BatchesPerEpoch
    <3>1. At(e + 1, 0) = At(epoch, 0)
      BY <2>1, <2>2, <2>5, AtIsNat
    <3>2. e + 1 = epoch
      BY <1>1, <2>2, <2>3, <3>1, AtUnique
    <3> QED BY <3>2 DEF e
  <2> QED BY <1>1, <2>1, <2>4, <2>5
<1>6. ASSUME Within, loader.pos > 0
      PROVE policy # <<>> /\ LastEntry.epoch = epoch
  <2> DEFINE q == loader.pos - 1
  <2>1. q \in 0 .. BatchesPerEpoch - 1 /\ q \in Nat /\ q + 1 = loader.pos
    BY <1>1, <1>6 DEF Within
  <2>2. Len(policy) = At(epoch, loader.pos)
    BY <1>6 DEF Within
  <2> HIDE DEF q
  <2>3. At(epoch, q) \in Nat /\ At(epoch, q) + 1 = Len(policy)
    BY <1>1, <2>1, <2>2, AtIsNat
  <2>4. policy # <<>>
    BY <1>2, <2>3
  <2>5. At(epoch, q) = At(LastEntry.epoch, LastEntry.batch)
    <3>1. Len(policy) - 1 = At(LastEntry.epoch, LastEntry.batch)
      BY <1>4, <2>4
    <3> QED BY <1>2, <2>3, <3>1
  <2>6. LastEntry.epoch \in Nat /\ LastEntry.batch \in 0 .. BatchesPerEpoch - 1
    BY <1>1, <1>4, <2>4
  <2> QED BY <1>1, <2>1, <2>4, <2>5, <2>6, AtUnique
<1> QED BY <1>3, <1>4, <1>5, <1>6

\* A step leaves only weights in a folder that were there, those of the process,
\* or none.
LEMMA StoredSteps ==
    ASSUME ConfigAssumption, TypeOK, [Next]_vars, NEW s \in DOMAIN ckpt'
    PROVE \/ ckpt'[s].actor.steps = <<>>
          \/ ckpt'[s].actor.steps = policy
          \/ s \in DOMAIN ckpt /\ ckpt'[s].actor.steps = ckpt[s].actor.steps
<1>1. Folder(step) \in CkptFolder /\ step \in Nat
  BY FolderType DEF TypeOK
<1>2. CASE UNCHANGED ckpt
  BY <1>2
<1>3. CASE SaveRotate
  <2>1. /\ s \in DOMAIN ckpt
        /\ ckpt'[s] = ckpt[s] \/ ckpt'[s] = [ckpt[s] EXCEPT !.actor = NoActor]
    BY <1>3 DEF SaveRotate
  <2>2. ckpt[s] \in CkptFolder
    BY <2>1 DEF TypeOK
  <2>3. ckpt'[s] = [ckpt[s] EXCEPT !.actor = NoActor] => ckpt'[s].actor.steps = <<>>
    BY <2>2 DEF CkptFolder, NoActor
  <2> QED BY <2>1, <2>3
<1>4. ASSUME NEW f, ckpt' = Put(ckpt, step, f),
             f.actor.steps \in {<<>>, policy, Folder(step).actor.steps}
      PROVE \/ ckpt'[s].actor.steps = <<>>
            \/ ckpt'[s].actor.steps = policy
            \/ s \in DOMAIN ckpt /\ ckpt'[s].actor.steps = ckpt[s].actor.steps
  <2>1. ckpt'[s] = (IF s = step THEN f ELSE ckpt[s]) /\ (s # step => s \in DOMAIN ckpt)
    BY <1>4 DEF Put
  <2>2. step \notin DOMAIN ckpt => Folder(step).actor.steps = <<>>
    BY DEF Folder, NoFolder, NoActor
  <2>3. step \in DOMAIN ckpt => Folder(step) = ckpt[step]
    BY DEF Folder
  <2> QED BY <1>4, <2>1, <2>2, <2>3
<1>5. CASE SaveActor
  <2> DEFINE f == [Folder(step) EXCEPT !.actor = [st |-> "ok", steps |-> policy]]
  <2>1. f.actor.steps = policy
    BY <1>1 DEF CkptFolder
  <2>2. ckpt' = Put(ckpt, step, f)
    BY <1>5 DEF SaveActor
  <2> HIDE DEF f
  <2> QED BY <1>4, <2>1, <2>2
<1>6. CASE SaveData
  <2> DEFINE f == [Folder(step) EXCEPT !.data =
                      [st |-> "ok", pos |-> loader.pos, finished |-> loader.finished]]
  <2>1. f.actor = Folder(step).actor
    BY <1>1 DEF CkptFolder
  <2>2. ckpt' = Put(ckpt, step, f)
    BY <1>6 DEF SaveData
  <2> HIDE DEF f
  <2> QED BY <1>4, <2>1, <2>2
<1>7. CASE SaveAdaptive
  <2> DEFINE f == [Folder(step) EXCEPT !.adaptive = AdaptiveFile]
  <2>1. f.actor = Folder(step).actor
    BY <1>1 DEF CkptFolder
  <2>2. ckpt' = Put(ckpt, step, f)
    BY <1>7 DEF SaveAdaptive
  <2> HIDE DEF f
  <2> QED BY <1>4, <2>1, <2>2
<1>8. CASE ckpt' = Put(ckpt, step, TornFolder) /\ pc \in {"actor", "data", "adaptive"}
  <2>1. TornFolder.actor = Folder(step).actor \/ TornFolder.actor.steps = <<>>
    BY <1>1, <1>8 DEF TornFolder, CkptFolder, NoActor
  <2> DEFINE f == TornFolder
  <2>2. f.actor.steps \in {<<>>, policy, Folder(step).actor.steps} /\ ckpt' = Put(ckpt, step, f)
    BY <1>8, <2>1
  <2> HIDE DEF f
  <2> QED BY <1>4, <2>2
<1>9. \/ UNCHANGED ckpt \/ SaveRotate \/ SaveActor \/ SaveData \/ SaveAdaptive
      \/ ckpt' = Put(ckpt, step, TornFolder) /\ pc \in {"actor", "data", "adaptive"}
  BY DEF Next, Process, Halted, Boot, StartFromScratch, Resume, ResumeFails, Generation,
     SkipGeneration, NoGeneration, LoadCachedEpoch, GenerateEpoch, GenerateOnEmpty,
     WriteCache, Training, BeginEpoch, TrainBatch, Advance, EndEpoch, Saving, FallbackSave,
     NoFallbackSave, FinishFallback, SaveTracker, Crash, CrashMidWrite, vars, procVars,
     diskVars
<1> QED BY <1>2, <1>3, <1>5, <1>6, <1>7, <1>8, <1>9

\* What a resume restores when the folder the tracker names is saved whole.
LEMMA ResumedView ==
    ASSUME ConfigAssumption, LineageInv, Resume
    PROVE /\ tracker \in Nat \ {0} /\ policy' \in History
          /\ policy' = Restored.actor.steps /\ Restored.actor.st = "ok"
          /\ Len(policy') = tracker /\ policy' # <<>>
          /\ view' = LastEntry'.view
          /\ tracker \in DOMAIN ckpt /\ Restored = ckpt[tracker]
<1>1. /\ tracker \in Nat \ {0} /\ tracker \notin {NoTracker, TornTracker}
      /\ policy' = Restored.actor.steps /\ Restored.actor.st = "ok"
      /\ view' = RestoredView /\ Restored.adaptive.st # "torn"
  BY DEF Resume, Loadable, LineageInv, OrderInv, StepInv, TypeOK, NoTracker, TornTracker
<1>2. Restored \in CkptFolder
  BY RestoredTypes DEF LineageInv, OrderInv, StepInv
<1>3. Restored.adaptive.st = "ok"
  <2>1. Restored.adaptive.st # "absent"
    BY <1>1 DEF LineageInv, SavedView, Restored
  <2> QED BY <1>1, <1>2, <2>1 DEF CkptFolder, FileState
<1>4. Len(policy') = tracker /\ policy' \in History
  BY <1>1, <1>2, FolderIsCounted
  DEF LineageInv, OrderInv, StepInv, FolderCounted, Restored, CkptFolder
<1>5. policy' # <<>>
  BY <1>1, <1>4, HistoryFacts
<1>6. Matches(Restored.actor.steps, Restored)
  BY <1>1 DEF LineageInv, SavedView, Restored
<1>7. view' = LastEntry'.view
  BY <1>1, <1>3, <1>6 DEF Matches, RestoredView, LastEntry
<1>8. tracker \in DOMAIN ckpt /\ Restored = ckpt[tracker]
  BY <1>1 DEF Restored, Folder, NoFolder, NoActor
<1> QED BY <1>1, <1>4, <1>5, <1>7, <1>8

\* The dataset a process generates or loads continues the one it trained on.
LEMMA NewDataset ==
    ASSUME ConfigAssumption, ~MayDrop, LineageInv, GenerateEpoch \/ LoadCachedEpoch
    PROVE OnePassAhead'
<1>1. /\ pc = "epoch" /\ epoch < TotalEpochs /\ ~skipGen /\ Schedule = "epoch"
      /\ UNCHANGED <<epoch, policy>> /\ TypeOK /\ OrderInv /\ policy \in History
  BY DEF GenerateEpoch, LoadCachedEpoch, LineageInv, OrderInv, StepInv, TypeOK
<1>2. AtStart
  BY <1>1 DEF OrderInv, Positions
<1>3. SameAsLast /\ Lineage(policy)
  BY <1>1 DEF LineageInv, ViewInLine, Running, Untrained
<1>4. /\ policy = <<>> => epoch = 0
      /\ policy # <<>> => LastEntry.epoch + 1 = epoch /\ LastEntry.epoch \in Nat
                          /\ Len(policy) \in DOMAIN policy
      /\ epoch \in 0 .. TotalEpochs - 1
  <2>1. epoch \in 0 .. TotalEpochs - 1
    BY <1>1 DEF TypeOK, ConfigAssumption
  <2>2. policy # <<>> => Len(policy) \in DOMAIN policy
    BY <1>1, HistoryFacts
  <2>3. /\ policy = <<>> => epoch = 0
        /\ policy # <<>> => LastEntry.epoch + 1 = epoch /\ LastEntry.epoch \in 0 .. TotalEpochs - 1
    BY <1>1, <1>2, LastStep
  <2> QED BY <2>1, <2>2, <2>3
<1>5. CASE GenerateEpoch
  <2>1. PICK n : view' = Pass(n)
    BY <1>5 DEF GenerateEpoch
  <2>2. Len(view'.gens) = Len(view.gens) + 1 /\ Continues(view.gens, view'.gens)
    BY <1>1, <2>1, OnePassMore
  <2>3. policy = <<>> => Len(view.gens) = 0
    BY <1>3 DEF SameAsLast
  <2>4. policy # <<>> => LastEntry.view = view /\ Len(view.gens) = LastEntry.epoch + 1
    BY <1>1, <1>3, <1>4 DEF SameAsLast, Lineage, LastEntry
  <2> QED BY <1>1, <1>4, <2>2, <2>3, <2>4 DEF OnePassAhead, LastEntry
<1>6. CASE LoadCachedEpoch
  <2>1. cache[epoch].st = "ok" /\ view' = cache[epoch].view /\ UseCache
    BY <1>6 DEF LoadCachedEpoch, CacheHit
  <2>2. CacheInLine
    BY <1>1, <2>1 DEF LineageInv
  <2>3. Len(view'.gens) = epoch + 1
    BY <1>4, <2>1, <2>2 DEF CacheInLine
  <2>4. ASSUME policy # <<>>
        PROVE Continues(LastEntry.view.gens, view'.gens)
    <3>1. LastEntry.view.gens = cache[LastEntry.epoch].view.gens
      BY <1>4, <2>2, <2>4 DEF CacheInLine, FromCache, LastEntry
    <3>2. epoch > 0 /\ LastEntry.epoch = epoch - 1
      BY <1>4, <2>4
    <3>3. Continues(cache[epoch-1].view.gens, cache[epoch].view.gens)
      BY <1>4, <2>1, <2>2, <3>2 DEF CacheInLine
    <3> QED BY <2>1, <3>1, <3>2, <3>3
  <2> QED BY <1>1, <2>3, <2>4 DEF OnePassAhead, LastEntry
<1> QED BY <1>5, <1>6

\* The step just trained continues the line, and its dataset is the current one.
LEMMA TrainedInLine ==
    ASSUME ConfigAssumption, LineageInv, TrainBatch
    PROVE Lineage(policy)' /\ SameAsLast' /\ policy' # <<>>
<1> DEFINE x == [epoch |-> epoch, batch |-> loader.pos, view |-> view']
<1>1. /\ pc = "batch" /\ policy' = Append(policy, x) /\ Within
      /\ TypeOK /\ OrderInv /\ policy \in History /\ epoch \in Nat /\ loader.pos \in Nat
      /\ view \in View /\ view'.n = view.n
      /\ IF Schedule = "step" THEN view' = Pass(view.n) ELSE view' = view
  BY OnePassMore
  DEF TrainBatch, LineageInv, OrderInv, Positions, StepInv, TypeOK
<1>2. /\ Len(policy) \in Nat /\ (policy = <<>> => Len(policy) = 0)
      /\ (policy # <<>> => Len(policy) \in DOMAIN policy /\ Len(policy) > 0)
      /\ \A i \in DOMAIN policy : policy[i].view.gens \in Seq(PassRecord)
  BY <1>1, HistoryFacts
<1>3. view' \in View
  <2>1. view.n \in 0 .. view.n
    BY <1>1, ConfigAssumption DEF View, ConfigAssumption
  <2> QED BY <1>1, <2>1, PassType
<1>4. x \in StepRecord /\ x.epoch = epoch /\ x.view = view'
  BY <1>1, <1>3 DEF StepRecord
<1>5. Lineage(policy) /\ (IF Schedule = "epoch" /\ loader.pos = 0 THEN OnePassAhead ELSE SameAsLast)
  BY <1>1 DEF LineageInv, ViewInLine, Untrained, Running
<1> HIDE DEF x
<1>6. /\ Len(view'.gens) = IF Schedule = "epoch" THEN epoch + 1 ELSE Len(policy) + 1
      /\ policy # <<>> => Continues(policy[Len(policy)].view.gens, view'.gens)
  <2>1. CASE Schedule = "step"
    <3>1. /\ Len(view'.gens) = Len(view.gens) + 1
          /\ Continues(view.gens, view'.gens)
      BY <1>1, <2>1, OnePassMore
    <3>2. policy = <<>> => Len(view.gens) = 0
      BY <1>5, <2>1 DEF SameAsLast
    <3>3. policy # <<>> => LastEntry.view = view /\ Len(view.gens) = Len(policy)
      BY <1>2, <1>5, <2>1 DEF SameAsLast, Lineage, LastEntry
    <3> QED BY <1>2, <2>1, <3>1, <3>2, <3>3 DEF LastEntry
  <2>2. CASE Schedule = "epoch" /\ loader.pos = 0
    BY <1>1, <1>5, <2>2 DEF OnePassAhead, LastEntry
  <2>3. CASE Schedule = "epoch" /\ loader.pos # 0
    <3>1. policy # <<>> /\ LastEntry.epoch = epoch
      <4>1. loader.pos > 0
        BY <1>1, <2>3
      <4> QED BY <1>1, <4>1, LastStep
    <3>2. LastEntry.view = view /\ Len(view.gens) = epoch + 1
      BY <1>2, <1>5, <2>3, <3>1 DEF SameAsLast, Lineage, LastEntry
    <3>3. Continues(view.gens, view.gens)
      BY <1>2, <3>1, <3>2, ContinuesRefl DEF LastEntry
    <3> QED BY <1>1, <2>3, <3>2, <3>3 DEF LastEntry
  <2> QED BY <2>1, <2>2, <2>3 DEF ConfigAssumption
<1>7. Lineage(Append(policy, x))
  BY <1>1, <1>4, <1>5, <1>6, LineageAppend
<1>8. /\ Append(policy, x) # <<>> /\ Len(Append(policy, x)) = Len(policy) + 1
      /\ Append(policy, x)[Len(policy) + 1] = x
  BY <1>1, <1>4, HistoryAppend
<1> QED BY <1>1, <1>4, <1>7, <1>8 DEF SameAsLast, LastEntry

LEMMA ViewStep ==
    ASSUME ConfigAssumption, ~MayDrop, LineageInv, [Next]_vars
    PROVE Lineage(policy)' /\ ViewInLine'
<1>1. /\ TypeOK /\ OrderInv /\ Lineage(policy) /\ ViewInLine
      /\ loader \in [pos : Nat, finished : BOOLEAN, resumed : BOOLEAN]
      /\ view.n = BatchesPerEpoch /\ BatchesPerEpoch \in Nat \ {0} /\ epoch \in Nat
  BY DEF LineageInv, OrderInv, StepInv, TypeOK, ViewsFull, ConfigAssumption
<1>2. CASE StartFromScratch
  <2>1. /\ pc = "boot" /\ pc' = "epoch" /\ policy = <<>> /\ UNCHANGED <<policy, view>>
    BY <1>1, <1>2 DEF StartFromScratch, OrderInv, StepInv, BootFresh
  <2> QED BY <1>1, <2>1 DEF ViewInLine, Untrained, SameAsLast, InitialView, Lineage
<1>3. CASE Resume
  <2>1. pc' = "epoch"
    BY <1>3 DEF Resume
  <2>2. Lineage(policy)'
    BY <1>3, ResumedView DEF LineageInv, Lineage
  <2>3. SameAsLast'
    BY <1>3, ResumedView DEF SameAsLast
  <2> QED BY <2>1, <2>2, <2>3 DEF ViewInLine, Untrained
<1>4. CASE GenerateEpoch \/ LoadCachedEpoch
  <2>1. /\ pc' \in {"cache", "begin"} /\ Schedule = "epoch" /\ UNCHANGED <<policy, loader>>
        /\ pc = "epoch" /\ ~skipGen
    BY <1>4 DEF GenerateEpoch, LoadCachedEpoch
  <2>2. ~loader.resumed
    BY <1>1, <2>1 DEF OrderInv, Positions
  <2>3. Lineage(policy)'
    BY <1>1, <2>1
  <2> QED BY <1>4, <2>1, <2>2, <2>3, NewDataset DEF ViewInLine, Untrained
<1>5. CASE GenerateOnEmpty
  BY <1>1, <1>5 DEF GenerateOnEmpty
<1>6. CASE SkipGeneration \/ NoGeneration
  <2>1. /\ pc = "epoch" /\ pc' = "begin" /\ UNCHANGED <<policy, view, loader, epoch>>
        /\ Schedule = "step" \/ loader.resumed
    BY <1>1, <1>6 DEF SkipGeneration, NoGeneration, procVars, OrderInv, Positions, Resumed
  <2>2. SameAsLast
    BY <1>1, <2>1 DEF ViewInLine, Running, Untrained
  <2>3. SameAsLast' /\ Lineage(policy)'
    BY <1>1, <2>1, <2>2 DEF SameAsLast, LastEntry
  <2> QED BY <2>1, <2>3 DEF ViewInLine, Untrained
<1>7. ASSUME UNCHANGED <<policy, view, epoch>>, Running, pc' # "boot",
             Running' => (Untrained' <=> Untrained)
      PROVE Lineage(policy)' /\ ViewInLine'
  <2>1. SameAsLast' = SameAsLast /\ OnePassAhead' = OnePassAhead
    BY <1>7 DEF SameAsLast, OnePassAhead, LastEntry
  <2> QED BY <1>1, <1>7, <2>1 DEF ViewInLine
<1>8. CASE WriteCache
  <2>1. ~loader.resumed
    BY <1>1, <1>8 DEF WriteCache, OrderInv, Positions
  <2> QED BY <1>7, <1>8, <2>1 DEF WriteCache, procVars, Running, Untrained
<1>9. CASE BeginEpoch
  <2>1. pc = "begin" /\ pc' = "batch" /\ loader' = NextIteration /\ UNCHANGED <<policy, view, epoch>>
    BY <1>9 DEF BeginEpoch
  <2>2. loader'.pos = 0 <=> ~loader.resumed
    BY <1>1, <2>1 DEF NextIteration, FreshLoader, OrderInv, Positions, Resumed, Within
  <2> QED BY <1>7, <2>1, <2>2 DEF Running, Untrained
<1>10. CASE TrainBatch
  <2>1. pc' \in {"rotate", "advance"}
    BY <1>10 DEF TrainBatch
  <2> QED BY <1>10, <2>1, TrainedInLine DEF ViewInLine, Untrained
<1>11. CASE Advance
  <2>1. loader.pos > 0
    BY <1>1, <1>11 DEF Advance, OrderInv, Positions
  <2>2. ~Untrained /\ (Running' => ~Untrained')
    BY <1>1, <1>11, <2>1 DEF Advance, Untrained, Running
  <2> QED BY <1>7, <1>11, <2>2 DEF Advance, Running
<1>12. CASE EndEpoch
  <2>1. /\ pc = "batch" /\ pc' = "epoch" /\ loader.pos > 0 /\ UNCHANGED <<policy, view>>
    BY <1>1, <1>12 DEF EndEpoch
  <2>2. SameAsLast
    BY <1>1, <2>1 DEF ViewInLine, Running, Untrained
  <2>3. SameAsLast' /\ Lineage(policy)'
    BY <1>1, <2>1, <2>2 DEF SameAsLast, LastEntry
  <2> QED BY <2>1, <2>3 DEF ViewInLine, Untrained
<1>13. CASE Saving
  <2>1. /\ UNCHANGED <<policy, view, epoch>> /\ pc' # "boot" /\ Running
        /\ ~Untrained /\ ~Untrained'
    BY <1>13 DEF Saving, FallbackSave, NoFallbackSave, FinishFallback, SaveRotate, SaveActor,
       SaveData, SaveAdaptive, SaveTracker, procVars, Running, Untrained
  <2> QED BY <1>7, <2>1
<1>14. CASE Crash \/ CrashMidWrite \/ ResumeFails
  BY <1>1, <1>14 DEF Crash, CrashMidWrite, FreshProcess, ResumeFails, procVars, ViewInLine,
     Running, Lineage
<1>15. CASE UNCHANGED vars
  BY <1>1, <1>15 DEF vars, procVars, ViewInLine, Running, Untrained, SameAsLast,
     OnePassAhead, LastEntry
<1> QED BY <1>2, <1>3, <1>4, <1>5, <1>6, <1>8, <1>9, <1>10, <1>11, <1>12, <1>13, <1>14, <1>15
    DEF Next, Process, Halted, Boot, Generation, Training

\* One write of a save: what the new folder f must satisfy.
LEMMA SavedViewWrite ==
    ASSUME ConfigAssumption, LineageInv, NEW f,
           ckpt' = Put(ckpt, step, f), UNCHANGED <<tracker, step, policy>>,
           pc \in Saves, pc' \in Saves,
           f.adaptive.st = "absent" => Folder(step).adaptive.st = "absent",
           tracker = step =>
             /\ f.actor.st = "ok" => Matches(f.actor.steps, f)
             /\ Matches(policy, f),
           pc' \in {"data", "adaptive", "tracker"} => f.actor.steps = policy,
           pc' = "tracker" => f.adaptive = AdaptiveFile'
    PROVE SavedView'
<1>1. SavedView /\ Running /\ Running' /\ Len(policy) = step
  BY DEF LineageInv, OrderInv, StepInv, ProcessCounted, Saves, Running
<1>2. Folder(step)' = f /\ (tracker # step => Folder(tracker)' = Folder(tracker))
  BY PutFolder
<1>3. CASE tracker = step
  BY <1>1, <1>2, <1>3 DEF SavedView
<1>4. CASE tracker # step
  BY <1>1, <1>2, <1>4 DEF SavedView
<1> QED BY <1>3, <1>4

LEMMA SavedViewSaving ==
    ASSUME ConfigAssumption, LineageInv, Saving
    PROVE SavedView'
<1>1. /\ Folder(step) \in CkptFolder /\ SavedView /\ TypeOK
      /\ UNCHANGED <<policy, view>>
  BY FolderType DEF LineageInv, OrderInv, StepInv, Saving, FallbackSave, NoFallbackSave,
     FinishFallback, SaveRotate, SaveActor, SaveData, SaveAdaptive, SaveTracker, procVars
<1>2. ASSUME pc \in Saves
      PROVE /\ Len(policy) = step /\ policy # <<>> /\ LastEntry.view = view
            /\ tracker \in Nat /\ tracker <= step /\ Running /\ step \in Nat
            /\ tracker = step /\ tracker # NoTracker => Matches(policy, Folder(step))
  <2>1. Len(policy) = step /\ Running /\ ~Untrained
    BY <1>2 DEF LineageInv, OrderInv, StepInv, ProcessCounted, Saves, Running, Untrained
  <2>2. tracker \in Nat /\ tracker <= step /\ policy # <<>> /\ step \in Nat
    BY <1>1, <1>2, <2>1 DEF SavedView, TypeOK
  <2>3. LastEntry.view = view
    BY <2>1, <2>2 DEF LineageInv, ViewInLine, SameAsLast
  <2> QED BY <1>1, <2>1, <2>2, <2>3 DEF SavedView
<1>3. CASE FallbackSave \/ NoFallbackSave \/ FinishFallback
  <2>1. /\ pc' \in {"rotate", "done"} /\ UNCHANGED <<ckpt, tracker>> /\ Running
        /\ pc' = "rotate" => step - 1 >= 1 /\ Len(policy) = step - 1
    BY <1>3 DEF FallbackSave, NoFallbackSave, FinishFallback, diskVars, Running, LineageInv,
       OrderInv, StepInv, ProcessCounted
  <2>2. Folder(tracker)' = Folder(tracker)
    BY <2>1 DEF Folder
  <2>3. pc' = "rotate" => policy # <<>>
    <3> SUFFICES ASSUME pc' = "rotate" PROVE policy # <<>>
      OBVIOUS
    <3>1. Len(policy) >= 1
      BY <2>1
    <3> QED BY <3>1
  <2> QED BY <1>1, <2>1, <2>2, <2>3 DEF SavedView, Running, Saves
<1>4. CASE SaveRotate
  <2>1. /\ DOMAIN ckpt' = DOMAIN ckpt /\ tracker' = tracker /\ pc = "rotate" /\ pc' = "actor"
        /\ \A s \in DOMAIN ckpt :
             ckpt'[s] = ckpt[s] \/ ckpt'[s] = [ckpt[s] EXCEPT !.actor = NoActor]
    BY <1>4 DEF SaveRotate
  <2>2. \A s \in DOMAIN ckpt :
          ckpt'[s].adaptive = ckpt[s].adaptive /\ ckpt'[s].actor \in {ckpt[s].actor, NoActor}
    BY <1>1, <2>1 DEF TypeOK, CkptFolder
  <2>3. /\ Folder(tracker)'.adaptive = Folder(tracker).adaptive
        /\ Folder(tracker)'.actor \in {Folder(tracker).actor, NoActor}
    BY <2>1, <2>2 DEF Folder
  <2> QED BY <1>1, <1>2, <2>1, <2>3 DEF SavedView, Matches, Running, Saves, NoActor
<1>5. CASE SaveActor
  <2> DEFINE a == [st |-> "ok", steps |-> policy]
             f == [Folder(step) EXCEPT !.actor = a]
  <2>1. /\ ckpt' = Put(ckpt, step, f) /\ pc = "actor" /\ pc' = "data"
        /\ UNCHANGED <<step, policy, tracker>>
    BY <1>5 DEF SaveActor
  <2>2. f.actor = a /\ f.actor.steps = policy /\ f.adaptive = Folder(step).adaptive
    BY <1>1 DEF CkptFolder
  <2> HIDE DEF f, a
  <2>3. tracker = step => Matches(policy, f)
    <3> SUFFICES ASSUME tracker = step PROVE Matches(policy, f)
      OBVIOUS
    <3>1. tracker # NoTracker
      BY <1>1, <1>2, <2>1, HistoryFacts DEF Saves, TypeOK, NoTracker
    <3> QED BY <1>2, <2>1, <2>2, <3>1 DEF Matches, Saves
  <2> QED BY <2>1, <2>2, <2>3, SavedViewWrite DEF Saves
<1>6. CASE SaveData
  <2> DEFINE d == [st |-> "ok", pos |-> loader.pos, finished |-> loader.finished]
             f == [Folder(step) EXCEPT !.data = d]
  <2>1. /\ ckpt' = Put(ckpt, step, f) /\ pc = "data" /\ pc' = "adaptive"
        /\ UNCHANGED <<step, policy, tracker>>
    BY <1>6 DEF SaveData, procVars
  <2>2. f.actor = Folder(step).actor /\ f.adaptive = Folder(step).adaptive
    BY <1>1 DEF CkptFolder
  <2> HIDE DEF f, d
  <2>3. f.actor.steps = policy
    BY <1>1, <2>1, <2>2 DEF SavedView
  <2>4. tracker = step => Matches(policy, f)
    <3> SUFFICES ASSUME tracker = step PROVE Matches(policy, f)
      OBVIOUS
    <3>1. tracker # NoTracker
      BY <1>1, <1>2, <2>1, HistoryFacts DEF Saves, TypeOK, NoTracker
    <3> QED BY <1>2, <2>1, <2>2, <3>1 DEF Matches, Saves
  <2> QED BY <2>1, <2>2, <2>3, <2>4, SavedViewWrite DEF Saves
<1>7. CASE SaveAdaptive
  <2> DEFINE f == [Folder(step) EXCEPT !.adaptive = AdaptiveFile]
  <2>1. /\ ckpt' = Put(ckpt, step, f) /\ pc = "adaptive" /\ pc' = "tracker"
        /\ UNCHANGED <<step, policy, tracker, view>>
    BY <1>7 DEF SaveAdaptive, procVars
  <2>2. f.actor = Folder(step).actor /\ f.adaptive = AdaptiveFile
    BY <1>1 DEF CkptFolder
  <2> HIDE DEF f
  <2>3. f.actor.steps = policy /\ AdaptiveFile' = AdaptiveFile
    BY <1>1, <2>1, <2>2 DEF SavedView, AdaptiveFile
  <2>4. Matches(policy, f)
    BY <1>2, <2>1, <2>2 DEF Matches, Saves, AdaptiveFile, LastEntry
  <2>5. f.adaptive.st # "absent"
    BY <2>2 DEF AdaptiveFile
  <2> QED BY <2>1, <2>2, <2>3, <2>4, <2>5, SavedViewWrite DEF Saves
<1>8. CASE SaveTracker
  <2>1. /\ pc = "tracker" /\ pc' \in {"advance", "finish"} /\ tracker' = step
        /\ UNCHANGED <<ckpt, step>>
    BY <1>8 DEF SaveTracker, procVars
  <2>2. Folder(step)' = Folder(step)
    BY <2>1 DEF Folder
  <2>3. Folder(step).adaptive = AdaptiveFile /\ Folder(step).actor.steps = policy
    BY <1>1, <2>1 DEF SavedView
  <2>4. Matches(policy, Folder(step)) /\ Folder(step).adaptive.st # "absent"
    BY <1>2, <2>1, <2>3 DEF Matches, AdaptiveFile, LastEntry, Saves
  <2>5. step \in Nat /\ Len(policy) = step
    BY <1>2, <2>1 DEF Saves
  <2> QED BY <1>1, <2>1, <2>2, <2>3, <2>4, <2>5 DEF SavedView, Running, Saves, TornTracker
<1> QED BY <1>3, <1>4, <1>5, <1>6, <1>7, <1>8 DEF Saving

LEMMA SavedViewStep ==
    ASSUME ConfigAssumption, LineageInv, [Next]_vars
    PROVE SavedView'
<1>1. /\ Folder(step) \in CkptFolder /\ SavedView /\ TypeOK /\ policy \in History
  BY FolderType DEF LineageInv, OrderInv, StepInv, TypeOK
<1>2. ASSUME UNCHANGED <<ckpt, tracker, policy>>, Running' => Running,
             pc' \notin Saves
      PROVE SavedView'
  BY <1>1, <1>2 DEF SavedView, Folder, Saves
<1>3. CASE Generation \/ BeginEpoch \/ Advance \/ EndEpoch \/ ResumeFails
  BY <1>2, <1>3 DEF Generation, SkipGeneration, NoGeneration, LoadCachedEpoch, GenerateEpoch,
     GenerateOnEmpty, WriteCache, BeginEpoch, Advance, EndEpoch, ResumeFails, procVars,
     diskVars, Running, Saves
<1>4. CASE StartFromScratch
  <2>1. /\ UNCHANGED <<ckpt, tracker, policy>> /\ pc' = "epoch" /\ tracker = 0
    BY <1>4 DEF StartFromScratch, diskVars, NoTracker
  <2>2. 0 <= Len(policy)
    BY <1>1, HistoryFacts
  <2> QED BY <2>1, <2>2 DEF SavedView, NoTracker, TornTracker, Saves
<1>5. CASE Resume
  <2>1. UNCHANGED <<ckpt, tracker>> /\ pc' = "epoch"
    BY <1>5 DEF Resume, diskVars
  <2>2. /\ tracker \in Nat \ {0} /\ Len(policy') = tracker
        /\ policy' = Folder(tracker).actor.steps /\ Folder(tracker).actor.st = "ok"
    BY <1>5, ResumedView DEF Restored
  <2>3. Folder(tracker)' = Folder(tracker)
    BY <2>1 DEF Folder
  <2> QED BY <1>1, <2>1, <2>2, <2>3 DEF SavedView, NoTracker, TornTracker, Saves
<1>6. CASE TrainBatch
  <2>1. /\ pc' \in {"rotate", "advance"} /\ pc = "batch" /\ UNCHANGED <<ckpt, tracker>>
        /\ policy' # <<>>
    BY <1>6, TrainedInLine DEF TrainBatch, diskVars
  <2>2. Len(policy') = Len(policy) + 1 /\ Len(policy) \in Nat
    <3>1. policy \in Seq(StepRecord)
      BY <1>1 DEF History, StepRecord
    <3> QED BY <1>6, <3>1 DEF TrainBatch
  <2>3. tracker # TornTracker /\ tracker <= Len(policy) /\ tracker \in Nat
    BY <1>1, <2>1 DEF SavedView, Running, TypeOK
  <2>4. tracker < Len(policy') /\ Folder(tracker)' = Folder(tracker)
    BY <2>1, <2>2, <2>3 DEF Folder
  <2> QED BY <1>1, <2>1, <2>2, <2>3, <2>4 DEF SavedView, Saves
<1>7. CASE Saving
  BY <1>7, SavedViewSaving
<1>8. CASE Crash
  <2>1. UNCHANGED <<ckpt, tracker>> /\ pc' = "boot"
    BY <1>8 DEF Crash, FreshProcess, diskVars
  <2> QED BY <1>1, <2>1 DEF SavedView, Folder, Running, Saves
<1>9. CASE CrashMidWrite
  <2>1. pc' = "boot" /\ (tracker' = tracker \/ tracker' = TornTracker)
    BY <1>9 DEF CrashMidWrite, FreshProcess
  <2>2. CASE tracker' = TornTracker
    BY <2>1, <2>2 DEF SavedView, Running, Saves
  <2>3. CASE UNCHANGED <<ckpt, tracker>>
    BY <1>1, <2>1, <2>3 DEF SavedView, Folder, Running, Saves
  <2>4. CASE ckpt' = Put(ckpt, step, TornFolder) /\ pc \in {"actor", "data", "adaptive"} /\ tracker' = tracker
    <3>1. /\ TornFolder.adaptive.st = "absent" => Folder(step).adaptive.st = "absent"
          /\ TornFolder.actor = Folder(step).actor \/ TornFolder.actor.st = "torn"
          /\ TornFolder.adaptive = Folder(step).adaptive \/ TornFolder.adaptive.st = "torn"
      BY <1>1, <2>4 DEF TornFolder, CkptFolder, NoActor, NoAdaptive
    <3> DEFINE f == TornFolder
    <3>2. Folder(tracker)' = IF tracker = step THEN f ELSE Folder(tracker)
      BY <2>4, PutFolder
    <3>3. f.actor.st = "ok" /\ f.adaptive.st = "ok"
            => f.actor = Folder(step).actor /\ f.adaptive = Folder(step).adaptive
      BY <3>1
    <3> HIDE DEF f
    <3>4. CASE tracker = step
      BY <1>1, <2>1, <2>4, <3>1, <3>2, <3>3, <3>4 DEF SavedView, Matches, Running, Saves, f
    <3>5. CASE tracker # step
      BY <1>1, <2>1, <2>4, <3>2, <3>5 DEF SavedView, Running, Saves
    <3> QED BY <3>4, <3>5
  <2> QED BY <1>9, <2>1, <2>2, <2>3, <2>4 DEF CrashMidWrite
<1>10. CASE UNCHANGED vars
  BY <1>1, <1>10 DEF vars, procVars, diskVars, SavedView, Folder, Running, AdaptiveFile
<1> QED BY <1>3, <1>4, <1>5, <1>6, <1>7, <1>8, <1>9, <1>10
    DEF Next, Process, Halted, Boot, Training

\* A readable cache entry is never touched again, and only the entry of the
\* current epoch is written.
LEMMA EntriesKept ==
    ASSUME ConfigAssumption, LineageInv, CacheInLine, [Next]_vars, NEW e \in 0 .. TotalEpochs - 1
    PROVE /\ cache[e].st = "ok" => cache'[e] = cache[e]
          /\ cache'[e].st = "ok" => cache'[e] = cache[e] \/ (WriteCache /\ e = epoch)
<1>1. cache \in [0 .. TotalEpochs - 1 -> [st : FileState, signed : Signature, view : View]]
  BY DEF LineageInv, OrderInv, StepInv, TypeOK
<1>2. CASE UNCHANGED cache
  BY <1>2
<1>3. CASE WriteCache
  <2>1. pc = "cache" /\ (e # epoch => cache'[e] = cache[e])
    BY <1>1, <1>3 DEF WriteCache
  <2>2. cache[epoch].st # "ok"
    BY <2>1 DEF CacheInLine
  <2> QED BY <1>3, <2>1, <2>2
<1>4. CASE pc = "cache" /\ cache' = [cache EXCEPT ![epoch].st = "torn"]
  <2>1. e # epoch => cache'[e] = cache[e]
    BY <1>1, <1>4
  <2>2. e = epoch => cache'[e].st = "torn"
    <3> SUFFICES ASSUME e = epoch PROVE cache'[e].st = "torn"
      OBVIOUS
    <3>1. cache'[e] = [cache[e] EXCEPT !.st = "torn"]
      BY <1>1, <1>4
    <3>2. cache[e] \in [st : FileState, signed : Signature, view : View]
      BY <1>1
    <3> QED BY <3>1, <3>2
  <2>3. cache[epoch].st # "ok"
    BY <1>4 DEF CacheInLine
  <2> QED BY <2>1, <2>2, <2>3
<1>5. UNCHANGED cache \/ WriteCache \/ (pc = "cache" /\ cache' = [cache EXCEPT ![epoch].st = "torn"])
  BY DEF Next, Process, Halted, Boot, StartFromScratch, Resume, ResumeFails, Generation,
     SkipGeneration, NoGeneration, LoadCachedEpoch, GenerateEpoch, GenerateOnEmpty,
     Training, BeginEpoch, TrainBatch, Advance, EndEpoch, Saving, FallbackSave,
     NoFallbackSave, FinishFallback, SaveRotate, SaveActor, SaveData, SaveAdaptive,
     SaveTracker, Crash, CrashMidWrite, vars, procVars, diskVars
<1> QED BY <1>2, <1>3, <1>4, <1>5

\* Weights made from the cache stay so.
LEMMA FromCacheKept ==
    ASSUME ConfigAssumption, LineageInv, CacheInLine, [Next]_vars,
           NEW h \in History, InOrder(h), FromCache(cache, h)
    PROVE FromCache(cache', h)
<1>1. \A i \in DOMAIN h : h[i].epoch \in 0 .. TotalEpochs - 1
  BY HistoryFacts DEF InOrder, ConfigAssumption
<1> QED BY <1>1, EntriesKept DEF FromCache

\* The dataset of the batch about to be trained is the one in the cache.
LEMMA TrainedFromCache ==
    ASSUME ConfigAssumption, LineageInv, CacheInLine, Schedule = "epoch", pc = "batch"
    PROVE /\ epoch \in 0 .. TotalEpochs - 1
          /\ cache[epoch].st = "ok" /\ view.gens = cache[epoch].view.gens
<1>1. /\ epoch \in 0 .. TotalEpochs - 1 /\ Within /\ loader.pos \in Nat /\ policy \in History
  BY DEF LineageInv, OrderInv, StepInv, Positions, TypeOK, ConfigAssumption
<1>2. CASE loader.pos = 0
  BY <1>1, <1>2 DEF CacheInLine, Untrained
<1>3. CASE loader.pos # 0
  <2>1. loader.pos > 0
    BY <1>1, <1>3
  <2>2. policy # <<>> /\ LastEntry.epoch = epoch
    BY <1>1, <2>1, LastStep DEF LineageInv
  <2>3. LastEntry.view = view
    BY <1>3, <2>2 DEF LineageInv, ViewInLine, Running, Untrained, SameAsLast
  <2>4. Len(policy) \in DOMAIN policy
    BY <1>1, <2>2, HistoryFacts
  <2> QED BY <1>1, <2>2, <2>3, <2>4 DEF CacheInLine, FromCache, LastEntry
<1> QED BY <1>2, <1>3

LEMMA EntriesStep ==
    ASSUME ConfigAssumption, LineageInv, CacheInLine, Schedule = "epoch", [Next]_vars,
           NEW e \in 0 .. TotalEpochs - 1, cache'[e].st = "ok"
    PROVE /\ \E c \in Configs : cache'[e].signed = c.signed
          /\ Len(cache'[e].view.gens) = e + 1
          /\ e > 0 => /\ cache'[e-1].st = "ok"
                      /\ Continues(cache'[e-1].view.gens, cache'[e].view.gens)
<1>1. e > 0 => e - 1 \in 0 .. TotalEpochs - 1
  BY DEF ConfigAssumption
<1>2. CASE cache'[e] = cache[e]
  BY <1>1, <1>2, EntriesKept DEF CacheInLine
<1>3. CASE WriteCache /\ e = epoch
  <2>1. cache'[e] = [st |-> "ok", signed |-> cfg.signed, view |-> view] /\ cfg \in Configs /\ pc = "cache"
    BY <1>3 DEF WriteCache, LineageInv, OrderInv, StepInv, TypeOK
  <2>2. OnePassAhead /\ policy \in History /\ AtStart
    BY <2>1 DEF LineageInv, ViewInLine, Running, Untrained, OrderInv, StepInv, TypeOK, Positions
  <2>3. ASSUME e > 0
        PROVE cache[e-1].st = "ok" /\ Continues(cache[e-1].view.gens, view.gens)
    <3>1. policy # <<>> /\ LastEntry.epoch = e - 1
      BY <1>3, <2>2, <2>3, LastStep DEF LineageInv
    <3>2. Len(policy) \in DOMAIN policy
      BY <2>2, <3>1, HistoryFacts
    <3>3. cache[e-1].st = "ok" /\ LastEntry.view.gens = cache[e-1].view.gens
      BY <3>1, <3>2 DEF CacheInLine, FromCache, LastEntry
    <3> QED BY <2>2, <3>1, <3>3 DEF OnePassAhead
  <2>4. e > 0 => cache'[e-1] = cache[e-1]
    BY <1>1, <2>3, EntriesKept
  <2> QED BY <1>3, <2>1, <2>2, <2>3, <2>4 DEF OnePassAhead
<1> QED BY <1>2, <1>3, EntriesKept

LEMMA CacheStep ==
    ASSUME ConfigAssumption, ~MayDrop, OneSignature, UseCache, Schedule = "epoch",
           LineageInv, [Next]_vars
    PROVE CacheInLine'
<1>1. /\ CacheInLine /\ TypeOK /\ OrderInv /\ policy \in History /\ InOrder(policy)
      /\ \A s \in DOMAIN ckpt : InOrder(ckpt[s].actor.steps) /\ ckpt[s].actor.steps \in History
      /\ view.n # 0
      /\ loader \in [pos : Nat, finished : BOOLEAN, resumed : BOOLEAN]
  BY DEF LineageInv, OrderInv, StepInv, TypeOK, DiskInOrder, CkptFolder, ViewsFull,
     ConfigAssumption
<1>2. \A h : h = <<>> => FromCache(cache', h)
  BY DEF FromCache
<1>3. FromCache(cache', policy)
  BY <1>1, FromCacheKept DEF CacheInLine
<1>4. \A s \in DOMAIN ckpt : FromCache(cache', ckpt[s].actor.steps)
  BY <1>1, FromCacheKept DEF CacheInLine
<1>5. \A s \in DOMAIN ckpt' : FromCache(cache', ckpt'[s].actor.steps)
  BY <1>1, <1>2, <1>3, <1>4, StoredSteps
<1>6. FromCache(cache', policy')
  <2>1. CASE TrainBatch
    <3> DEFINE x == [epoch |-> epoch, batch |-> loader.pos, view |-> view']
    <3>1. policy' = Append(policy, x) /\ pc = "batch" /\ view' = view /\ cache' = cache
      BY <2>1 DEF TrainBatch, diskVars
    <3>2. x \in StepRecord /\ x.epoch = epoch /\ x.view = view
      BY <1>1, <3>1 DEF StepRecord, TypeOK
    <3> HIDE DEF x
    <3>3. cache[epoch].st = "ok" /\ x.view.gens = cache[epoch].view.gens
      BY <1>1, <3>1, <3>2, TrainedFromCache
    <3>4. /\ DOMAIN policy' = 1 .. Len(policy) + 1 /\ policy'[Len(policy) + 1] = x
          /\ DOMAIN policy = 1 .. Len(policy) /\ Len(policy) \in Nat
          /\ \A i \in 1 .. Len(policy) : policy'[i] = policy[i]
      BY <1>1, <3>1, <3>2, HistoryAppend, HistoryFacts
    <3>5. \A i \in DOMAIN policy' : i \in DOMAIN policy \/ i = Len(policy) + 1
      BY <3>4
    <3> QED BY <1>3, <3>1, <3>2, <3>3, <3>4, <3>5 DEF FromCache
  <2>2. CASE Resume
    BY <1>4, <2>2, ResumedView
  <2>3. CASE UNCHANGED policy
    BY <1>3, <2>3
  <2>4. CASE policy' = <<>>
    BY <1>2, <2>4
  <2>5. TrainBatch \/ Resume \/ UNCHANGED policy \/ policy' = <<>>
    BY DEF Next, Process, Halted, Boot, StartFromScratch, ResumeFails, Generation,
       SkipGeneration, NoGeneration, LoadCachedEpoch, GenerateEpoch, GenerateOnEmpty,
       WriteCache, Training, BeginEpoch, Advance, EndEpoch, Saving, FallbackSave,
       NoFallbackSave, FinishFallback, SaveRotate, SaveActor, SaveData, SaveAdaptive,
       SaveTracker, Crash, CrashMidWrite, FreshProcess, vars, procVars
  <2> QED BY <2>1, <2>2, <2>3, <2>4, <2>5
<1>7. ASSUME pc' = "cache"
      PROVE cache'[epoch'].st # "ok"
  <2>1. CASE GenerateEpoch
    <3>1. /\ UNCHANGED <<cache, epoch>> /\ epoch < TotalEpochs
          /\ ~(cache[epoch].st = "ok" /\ cache[epoch].signed = cfg.signed)
      BY <2>1 DEF GenerateEpoch, CacheHit, diskVars
    <3>2. epoch \in 0 .. TotalEpochs - 1 /\ cfg \in Configs
      BY <1>1, <3>1 DEF TypeOK, ConfigAssumption
    <3> QED BY <1>1, <3>1, <3>2 DEF CacheInLine, OneSignature
  <2>2. CASE UNCHANGED vars
    BY <1>1, <1>7, <2>2 DEF vars, procVars, diskVars, CacheInLine
  <2>3. GenerateEpoch \/ UNCHANGED vars
    BY <1>7 DEF Next, Process, Halted, Boot, StartFromScratch, Resume, ResumeFails, Generation,
       SkipGeneration, NoGeneration, LoadCachedEpoch, GenerateOnEmpty,
       WriteCache, Training, BeginEpoch, TrainBatch, Advance, EndEpoch, Saving, FallbackSave,
       NoFallbackSave, FinishFallback, SaveRotate, SaveActor, SaveData, SaveAdaptive,
       SaveTracker, Crash, CrashMidWrite, FreshProcess
  <2> QED BY <2>1, <2>2, <2>3
<1>8. ASSUME Untrained', pc' # "cache"
      PROVE cache'[epoch'].st = "ok" /\ view'.gens = cache'[epoch'].view.gens
  <2>1. CASE LoadCachedEpoch
    BY <2>1 DEF LoadCachedEpoch, CacheHit, diskVars
  <2>2. CASE WriteCache
    <3>1. epoch \in 0 .. TotalEpochs - 1
      BY <1>1, <2>2 DEF WriteCache, OrderInv, Positions, TypeOK, ConfigAssumption
    <3> QED BY <1>1, <2>2, <3>1 DEF WriteCache, procVars, TypeOK
  <2>3. CASE BeginEpoch
    <3>1. /\ pc = "begin" /\ pc' = "batch" /\ loader' = NextIteration
          /\ UNCHANGED <<view, epoch, cache>>
      BY <2>3 DEF BeginEpoch, diskVars
    <3>2. loader'.pos = 0 => ~loader.resumed
      BY <1>1, <3>1 DEF NextIteration, OrderInv, Positions, Resumed, Within
    <3> QED BY <1>1, <1>8, <3>1, <3>2 DEF CacheInLine, Untrained
  <2>4. CASE UNCHANGED vars
    BY <1>1, <1>8, <2>4 DEF vars, procVars, diskVars, CacheInLine, Untrained
  <2>5. CASE SkipGeneration
    BY <1>1, <1>8, <2>5 DEF SkipGeneration, OrderInv, Positions, Resumed, Untrained
  <2>6. CASE Advance
    BY <1>1, <1>8, <2>6 DEF Advance, OrderInv, Positions, Untrained
  <2>7. ~NoGeneration /\ ~GenerateOnEmpty
    BY <1>1 DEF NoGeneration, GenerateOnEmpty
  <2>8. CASE GenerateEpoch
    BY <1>8, <2>8 DEF GenerateEpoch
  <2>9. LoadCachedEpoch \/ WriteCache \/ BeginEpoch \/ UNCHANGED vars \/ SkipGeneration
        \/ Advance \/ GenerateEpoch
    BY <1>8, <2>7 DEF Next, Process, Halted, Boot, StartFromScratch, Resume, ResumeFails,
       Generation, Training, TrainBatch, EndEpoch, Saving,
       FallbackSave, NoFallbackSave, FinishFallback, SaveRotate, SaveActor, SaveData,
       SaveAdaptive, SaveTracker, Crash, CrashMidWrite, FreshProcess, Untrained
  <2> QED BY <2>1, <2>2, <2>3, <2>4, <2>5, <2>6, <2>8, <2>9
<1>9. ASSUME NEW x \in seen'
      PROVE x[1] \in 0 .. TotalEpochs - 1 /\ cache'[x[1]].st = "ok" /\ x[2] = cache'[x[1]].view.gens
  <2>1. CASE x \in seen
    BY <1>1, <2>1, EntriesKept DEF CacheInLine
  <2>2. CASE TrainBatch /\ x = <<epoch, view'.gens>>
    <3>1. pc = "batch" /\ view' = view /\ cache' = cache
      BY <2>2 DEF TrainBatch, diskVars
    <3> QED BY <1>1, <2>2, <3>1, TrainedFromCache
  <2>3. x \in seen \/ (TrainBatch /\ x = <<epoch, view'.gens>>)
    <3>1. CASE TrainBatch
      BY <1>9, <3>1 DEF TrainBatch
    <3>2. CASE UNCHANGED seen
      BY <1>9, <3>2
    <3>3. TrainBatch \/ UNCHANGED seen
      BY DEF Next, Process, Halted, Boot, StartFromScratch, Resume, ResumeFails, Generation,
         SkipGeneration, NoGeneration, LoadCachedEpoch, GenerateEpoch, GenerateOnEmpty,
         WriteCache, Training, BeginEpoch, Advance, EndEpoch, Saving, FallbackSave,
         NoFallbackSave, FinishFallback, SaveRotate, SaveActor, SaveData, SaveAdaptive,
         SaveTracker, Crash, CrashMidWrite, FreshProcess, vars, histVars
    <3> QED BY <3>1, <3>2, <3>3
  <2> QED BY <2>1, <2>2, <2>3
<1>10. \A e \in 0 .. TotalEpochs - 1 : cache'[e].st = "ok" =>
         /\ \E c \in Configs : cache'[e].signed = c.signed
         /\ Len(cache'[e].view.gens) = e + 1
         /\ e > 0 => cache'[e-1].st = "ok" /\ Continues(cache'[e-1].view.gens, cache'[e].view.gens)
  BY <1>1, EntriesStep
<1> QED BY <1>5, <1>6, <1>7, <1>8, <1>9, <1>10 DEF CacheInLine

LEMMA LineageInit ==
    ASSUME ConfigAssumption, Init
    PROVE LineageInv
<1>1. OrderInv
  BY OrderInit
<1>2. Lineage(policy) /\ \A s \in DOMAIN ckpt : Lineage(ckpt[s].actor.steps)
  BY DEF Init, Lineage
<1>3. ViewInLine
  BY DEF Init, ViewInLine, Running
<1>4. SavedView
  BY DEF Init, SavedView, NoTracker, Running, Saves
<1>5. CacheInLine
  BY DEF Init, CacheInLine, FromCache, NoCache, Untrained
<1> QED BY <1>1, <1>2, <1>3, <1>4, <1>5 DEF LineageInv

LEMMA LineageStep ==
    ASSUME ConfigAssumption, ~MayDrop, UseCache => OneSignature, LineageInv, [Next]_vars
    PROVE LineageInv'
<1>1. OrderInv' /\ Lineage(policy)' /\ ViewInLine' /\ SavedView'
  BY OrderNext, ViewStep, SavedViewStep DEF LineageInv
<1>2. \A s \in DOMAIN ckpt' : Lineage(ckpt'[s].actor.steps)
  <2> TAKE s \in DOMAIN ckpt'
  <2>1. Lineage(<<>>)
    BY DEF Lineage
  <2> QED BY <2>1, StoredSteps DEF LineageInv, OrderInv, StepInv
<1>3. UseCache /\ Schedule = "epoch" => CacheInLine'
  BY CacheStep
<1> QED BY <1>1, <1>2, <1>3 DEF LineageInv

\* A continuation, in the form OnePassPerEpoch states it.
LEMMA ContinuesPrefix ==
    ASSUME NEW g \in Seq(PassRecord), NEW h \in Seq(PassRecord), Continues(g, h)
    PROVE SubSeq(h, 1, Len(g)) = g
<1> DEFINE R == PassRecord
           p == SubSeq(h, 1, Len(g))
<1>1. g \in Seq(R) /\ h \in Seq(R) /\ Len(g) <= Len(h) /\ \A k \in 1 .. Len(g) : h[k] = g[k]
  BY DEF Continues
<1> HIDE DEF R
<1>2. /\ p \in Seq(R) /\ Len(p) = Len(g) /\ Len(g) \in Nat
      /\ \A k \in 1 .. Len(g) : p[k] = h[k]
  BY <1>1, SMTT(30)
<1> HIDE DEF p
<1>3. \A k \in 1 .. Len(g) : p[k] = g[k]
  BY <1>1, <1>2
<1>4. p = g
  BY <1>1, <1>2, <1>3, SeqEqual
<1> QED BY <1>4 DEF p

\* Without drops, and with one configuration signature for the cache, the
\* weights are trained on datasets that evolve in one line: one pass per epoch
\* (per step), whatever crashes, whatever is restored, loaded or generated anew.
THEOREM PassesInOneLine ==
    ASSUME ~MayDrop, UseCache => OneSignature
    PROVE Spec => []OnePassPerEpoch
<1>1. Init => LineageInv
  BY LineageInit, ConfigAssumption
<1>2. LineageInv /\ [Next]_vars => LineageInv'
  BY LineageStep, ConfigAssumption
<1>3. LineageInv => OnePassPerEpoch
  <2> SUFFICES ASSUME LineageInv, NEW i \in DOMAIN policy
               PROVE /\ Len(policy[i].view.gens) = IF Schedule = "epoch" THEN policy[i].epoch + 1 ELSE i
                     /\ i > 1 => SubSeq(policy[i].view.gens, 1, Len(policy[i-1].view.gens))
                                   = policy[i-1].view.gens
    BY DEF OnePassPerEpoch
  <2>1. Lineage(policy) /\ policy \in History
    BY DEF LineageInv, OrderInv, StepInv, TypeOK
  <2>2. ASSUME i > 1
        PROVE SubSeq(policy[i].view.gens, 1, Len(policy[i-1].view.gens)) = policy[i-1].view.gens
    <3>1. i - 1 \in DOMAIN policy
      BY <2>1, <2>2, HistoryFacts
    <3> QED BY <2>1, <2>2, <3>1, HistoryFacts, ContinuesPrefix DEF Lineage
  <2> QED BY <2>1, <2>2 DEF Lineage
<1> QED BY <1>1, <1>2, <1>3, PTL DEF Spec

\* With the epoch cache, without drops and under one configuration signature, an
\* epoch has one dataset for all processes that ever train a batch of it.
THEOREM EpochsKeepTheirView ==
    ASSUME ~MayDrop, UseCache, Schedule = "epoch", OneSignature
    PROVE Spec => []EpochViewStable
<1>1. Init => LineageInv
  BY LineageInit, ConfigAssumption
<1>2. LineageInv /\ [Next]_vars => LineageInv'
  BY LineageStep, ConfigAssumption
<1>3. LineageInv => EpochViewStable
  BY DEF LineageInv, CacheInLine, EpochViewStable
<1> QED BY <1>1, <1>2, <1>3, PTL DEF Spec

-----------------------------------------------------------------------------
(* One resume repeats nothing.                                             *)

Earlier(a, b) == a.epoch < b.epoch \/ (a.epoch = b.epoch /\ a.batch < b.batch)

Increasing(h) == \A i, j \in DOMAIN h : i < j => Earlier(h[i], h[j])

\* The batch the process trains next lies after all it has trained.
NextBatch ==
    [epoch |-> epoch,
     batch |-> IF pc \in {"epoch", "cache", "begin"} THEN NextIteration.pos ELSE loader.pos]

Ahead == \A i \in DOMAIN policy : Earlier(policy[i], NextBatch)

\* What makes a resume from the folder f with the weights h continue after
\* them: by the length of the dataset it restores, the steps either reach past
\* the epoch of the last one, or reach into it where the loader continues.
Resumable(h, f) ==
    LET last == h[Len(h)]
        n == f.adaptive.view.n
    IN  f.adaptive.st = "ok" /\ n > 0 =>
          \/ (last.epoch + 1) * n <= Len(h)
          \/ /\ last.epoch * n < Len(h)
             /\ \/ f.data.st = "torn"
                \/ f.data.st = "ok" /\ ~f.data.finished /\ f.data.pos > last.batch

NamedResumable ==
    tracker \notin {NoTracker, TornTracker} =>
      LET f == Folder(tracker)
      IN  /\ f.adaptive.st # "absent"
          /\ f.actor.st = "ok" => Increasing(f.actor.steps) /\ Resumable(f.actor.steps, f)

\* The process is in the body of the epoch loop.
InLoop == pc \in {"batch", "advance"} \/ (pc \in Saves /\ epoch < TotalEpochs)

MidEpoch ==
    /\ policy # <<>>
    /\ LastEntry.epoch = epoch /\ LastEntry.view.n = view.n
    /\ LastEntry.batch + 1 = loader.pos

BetweenEpochs ==
    /\ policy # <<>> => (LastEntry.epoch + 1) * LastEntry.view.n <= Len(policy)
    /\ \A i \in DOMAIN policy : policy[i].epoch < epoch

\* Before the first crash the epochs trained so far have at least as many
\* batches as the dataset has now: passes only drop samples, and no cache entry
\* of a later epoch exists that could bring them back.
FirstEpochs ==
    /\ pc = "boot" => tracker = NoTracker /\ epoch = 0 /\ ~skipGen /\ ~loader.resumed
    /\ \A e \in 0 .. TotalEpochs - 1 :
         e > epoch \/ (e = epoch /\ pc \in {"boot", "epoch", "cache"}) => cache[e].st # "ok"
    /\ Running =>
         /\ ~loader.resumed /\ ~skipGen
         /\ pc \in {"cache", "begin", "batch", "advance"} => epoch < TotalEpochs
         /\ InLoop => ~loader.finished
         /\ epoch * view.n + (IF InLoop THEN loader.pos ELSE 0) <= Len(policy)
         /\ IF InLoop /\ loader.pos > 0 THEN MidEpoch ELSE BetweenEpochs
         /\ pc \in Saves => policy # <<>> /\ (epoch < TotalEpochs => loader.pos > 0)
         /\ pc = "advance" => loader.pos > 0

\* Before the first crash every folder is written from the current state, and
\* only the fallback save writes the one the tracker names again.
FirstSaves ==
    Running =>
      /\ tracker # TornTracker /\ tracker <= Len(policy)
      /\ pc \notin Saves \cup {"finish"} /\ tracker = Len(policy) /\ tracker # NoTracker
           => policy # <<>> /\ Folder(tracker).adaptive.view.n = LastEntry.view.n
      /\ pc \in Saves /\ tracker = step =>
           epoch >= TotalEpochs /\ (LastEntry.epoch + 1) * Folder(step).adaptive.view.n <= step
      /\ pc \in {"data", "adaptive", "tracker"} => Folder(step).actor.steps = policy
      /\ pc \in {"adaptive", "tracker"} =>
           Folder(step).data = [st |-> "ok", pos |-> loader.pos, finished |-> loader.finished]
      /\ pc = "tracker" => Folder(step).adaptive = AdaptiveFile

\* The inductive strengthening of OneResumeRepeatsNothing.
RepeatInv ==
    /\ StepInv
    /\ crashes = 0 => FirstEpochs /\ FirstSaves
    /\ crashes = 0 \/ (crashes = 1 /\ pc = "boot") => NamedResumable
    /\ crashes <= 1 => Increasing(policy) /\ (Running => Ahead)

LEMMA EarlierTrans ==
    ASSUME NEW a, NEW b, NEW c, a.epoch \in Nat, b.epoch \in Nat, c.epoch \in Nat,
           a.batch \in Nat, b.batch \in Nat, c.batch \in Nat, Earlier(a, b), Earlier(b, c)
    PROVE Earlier(a, c)
BY DEF Earlier

LEMMA IncreasingAppend ==
    ASSUME NEW h \in History, NEW x \in StepRecord, Increasing(h),
           \A i \in DOMAIN h : Earlier(h[i], x)
    PROVE Increasing(Append(h, x))
<1> DEFINE hx == Append(h, x)
<1>1. /\ Len(h) \in Nat /\ DOMAIN h = 1 .. Len(h) /\ DOMAIN hx = 1 .. Len(h) + 1
      /\ hx[Len(h) + 1] = x /\ \A i \in 1 .. Len(h) : hx[i] = h[i]
  BY HistoryFacts, HistoryAppend
<1> HIDE DEF hx
<1>2. ASSUME NEW i \in DOMAIN hx, NEW j \in DOMAIN hx, i < j
      PROVE Earlier(hx[i], hx[j])
  <2>1. i \in DOMAIN h /\ hx[i] = h[i] /\ (j \in DOMAIN h \/ j = Len(h) + 1)
    BY <1>1, <1>2
  <2>2. CASE j \in DOMAIN h
    BY <1>1, <1>2, <2>1, <2>2 DEF Increasing
  <2>3. CASE j = Len(h) + 1
    BY <1>1, <2>1, <2>3
  <2> QED BY <2>1, <2>2, <2>3
<1> QED BY <1>2 DEF Increasing, hx

LEMMA LastIsLatest ==
    ASSUME NEW h \in History, Increasing(h), NEW i \in DOMAIN h
    PROVE h[i].epoch <= h[Len(h)].epoch
<1>1. /\ DOMAIN h = 1 .. Len(h) /\ Len(h) \in DOMAIN h /\ Len(h) \in Nat
      /\ h[i].epoch \in Nat /\ h[Len(h)].epoch \in Nat
  <2>1. h # <<>>
    OBVIOUS
  <2> QED BY <2>1, HistoryFacts
<1>2. CASE i < Len(h)
  BY <1>1, <1>2 DEF Increasing, Earlier
<1> QED BY <1>1, <1>2

\* Full quotients.
LEMMA QuotientAtLeast ==
    ASSUME NEW b \in Nat \ {0}, NEW s \in Nat, NEW m \in Nat
    PROVE /\ m * b <= s => m <= s \div b
          /\ m * b < s /\ s % b = 0 => m < s \div b
<1> DEFINE q == s \div b
           r == s % b
<1>1. q \in Nat /\ r \in 0 .. b - 1 /\ s = q * b + r
  BY Divide
<1> HIDE DEF q, r
<1>2. ASSUME m * b <= s, q < m
      PROVE FALSE
  <2>1. q + 1 \in Nat /\ q + 1 <= m
    BY <1>1, <1>2
  <2>2. (q + 1) * b <= m * b /\ m * b \in Nat /\ (q + 1) * b \in Nat
    BY <2>1, Multiple
  <2>3. (q + 1) * b = q * b + b /\ q * b \in Nat
    BY <1>1
  <2> DEFINE x == q * b
             y == m * b
             z == (q + 1) * b
  <2>4. z <= y /\ y <= s /\ z = x + b /\ s = x + r /\ x \in Nat /\ y \in Nat /\ z \in Nat
    BY <1>1, <1>2, <2>2, <2>3
  <2> HIDE DEF x, y, z
  <2> QED BY <1>1, <2>4
<1>3. ASSUME m * b < s, r = 0, q <= m
      PROVE FALSE
  <2>1. q * b <= m * b /\ m * b \in Nat /\ q * b \in Nat
    BY <1>1, <1>3, Multiple
  <2> DEFINE x == q * b
             y == m * b
  <2>2. x <= y /\ y < s /\ s = x + 0 /\ x \in Nat /\ y \in Nat
    BY <1>1, <1>3, <2>1
  <2> HIDE DEF x, y
  <2> QED BY <2>2
<1> QED BY <1>1, <1>2, <1>3 DEF q, r

LEMMA NextBatchTypes ==
    ASSUME ConfigAssumption, TypeOK
    PROVE /\ NextBatch.epoch = epoch /\ NextBatch.epoch \in Nat
          /\ NextBatch.batch \in Nat /\ NextIteration.pos \in Nat
          /\ NextIteration.pos <= loader.pos /\ loader.pos \in Nat
BY DEF NextBatch, NextIteration, FreshLoader, TypeOK

\* A resume from a resumable folder goes on after all its weights.
LEMMA ResumeAhead ==
    ASSUME ConfigAssumption, StepInv, NamedResumable, Resume
    PROVE Increasing(policy)' /\ Ahead'
<1>1. /\ tracker \in Nat \ {0} /\ tracker \notin {NoTracker, TornTracker}
      /\ policy' = Restored.actor.steps /\ Restored.actor.st = "ok"
      /\ Restored.adaptive.st # "torn" /\ RestoredView.n > 0
      /\ AtBoundary \/ Restored.data.st # "torn"
      /\ epoch' = tracker \div RestoredView.n /\ pc' = "epoch"
      /\ loader' = IF AtBoundary \/ Restored.data.st = "absent"
                     THEN FreshLoader
                     ELSE [pos |-> Restored.data.pos, finished |-> Restored.data.finished,
                           resumed |-> TRUE]
  BY DEF Resume, Loadable, StepInv, TypeOK, NoTracker, TornTracker
<1>2. Restored \in CkptFolder /\ RestoredView.n \in Nat
  BY RestoredTypes DEF StepInv, View
<1> DEFINE h == Restored.actor.steps
           f == Restored
           n == RestoredView.n
           last == h[Len(h)]
           next == NextBatch'
           q == tracker \div n
<1>3. /\ f.adaptive.st = "ok" /\ n = f.adaptive.view.n
      /\ f.data.st \in FileState /\ f.data.pos \in Nat /\ f.data.finished \in BOOLEAN
  <2>1. f.adaptive.st # "absent"
    BY <1>1 DEF NamedResumable, Restored
  <2> QED BY <1>1, <1>2, <2>1 DEF CkptFolder, FileState, RestoredView
<1>4. Len(h) = tracker /\ h \in History
  BY <1>1, <1>2, FolderIsCounted DEF StepInv, FolderCounted, Restored, CkptFolder
<1>5. h # <<>> /\ Len(h) \in DOMAIN h /\ DOMAIN h = 1 .. Len(h)
      /\ \A i \in DOMAIN h : h[i].epoch \in Nat /\ h[i].batch \in Nat
  BY <1>1, <1>4, HistoryFacts
<1>6. last.epoch \in Nat /\ last.batch \in Nat
  BY <1>5
<1>7. Increasing(h) /\ Resumable(h, f)
  BY <1>1 DEF NamedResumable, Restored
<1>8. /\ n \in Nat \ {0} /\ q \in Nat /\ next.epoch = q
      /\ next.batch = IF AtBoundary \/ f.data.st = "absent" \/ f.data.finished
                        THEN 0 ELSE f.data.pos
  <2>1. n \in Nat \ {0}
    BY <1>1, <1>2
  <2>2. q \in Nat
    BY <1>1, <2>1, Divide
  <2>3. NextIteration'.pos = IF AtBoundary \/ f.data.st = "absent" \/ f.data.finished
                               THEN 0 ELSE f.data.pos
    BY <1>1, <1>3 DEF NextIteration, FreshLoader
  <2> QED BY <1>1, <2>1, <2>2, <2>3 DEF NextBatch
<1>9. AtBoundary <=> tracker % n = 0
  BY DEF AtBoundary
<1>10. \/ (last.epoch + 1) * n <= tracker
       \/ /\ last.epoch * n < tracker
          /\ \/ f.data.st = "torn"
             \/ f.data.st = "ok" /\ ~f.data.finished /\ f.data.pos > last.batch
  BY <1>3, <1>4, <1>7, <1>8 DEF Resumable
<1>11. Earlier(last, next)
  <2>1. CASE (last.epoch + 1) * n <= tracker
    <3>1. last.epoch + 1 \in Nat
      BY <1>6
    <3>2. last.epoch + 1 <= q
      BY <1>1, <1>8, <2>1, <3>1, QuotientAtLeast
    <3> HIDE DEF last, next, q
    <3> QED BY <1>6, <1>8, <3>2 DEF Earlier
  <2>2. CASE last.epoch * n < tracker /\ AtBoundary
    <3>1. last.epoch < q
      BY <1>1, <1>6, <1>8, <1>9, <2>2, QuotientAtLeast
    <3> QED BY <1>8, <3>1 DEF Earlier
  <2>3. CASE /\ last.epoch * n < tracker /\ ~AtBoundary
             /\ f.data.st = "ok" /\ ~f.data.finished /\ f.data.pos > last.batch
    <3>1. last.epoch <= q
      <4> DEFINE y == last.epoch * n
      <4>1. y \in Nat /\ y < tracker
        BY <1>6, <1>8, <2>3
      <4> HIDE DEF y
      <4>2. y <= tracker
        BY <1>1, <4>1
      <4>3. last.epoch * n <= tracker
        BY <4>2 DEF y
      <4> QED BY <1>1, <1>6, <1>8, <4>3, QuotientAtLeast
    <3>2. next.batch = f.data.pos
      BY <1>8, <2>3
    <3> HIDE DEF last, next, q
    <3> QED BY <1>3, <1>6, <1>8, <2>3, <3>1, <3>2 DEF Earlier
  <2> QED BY <1>1, <1>10, <2>1, <2>2, <2>3
<1>12. \A i \in DOMAIN h : Earlier(h[i], next)
  <2> TAKE i \in DOMAIN h
  <2>1. CASE i = Len(h)
    BY <1>11, <2>1
  <2>2. CASE i # Len(h)
    <3>1. i < Len(h)
      BY <1>1, <1>4, <1>5, <2>2
    <3>2. Earlier(h[i], last)
      BY <1>5, <1>7, <3>1 DEF Increasing
    <3>3. next.epoch \in Nat /\ next.batch \in Nat
      BY <1>3, <1>8
    <3>4. h[i].epoch \in Nat /\ h[i].batch \in Nat
      BY <1>5
    <3> HIDE DEF last, next
    <3> QED BY <1>6, <1>11, <3>2, <3>3, <3>4, EarlierTrans
  <2> QED BY <2>1, <2>2
<1> QED BY <1>1, <1>7, <1>12 DEF Ahead

\* From then on, and in a run from scratch, the process moves forward.
LEMMA AheadStep ==
    ASSUME ConfigAssumption, StepInv, Increasing(policy), Running => Ahead,
           [Next]_vars, ~Resume
    PROVE Increasing(policy)' /\ (Running' => Ahead')
<1>1. TypeOK /\ policy \in History /\ Len(policy) \in Nat /\ DOMAIN policy = 1 .. Len(policy)
      /\ \A i \in DOMAIN policy : policy[i].epoch \in Nat /\ policy[i].batch \in Nat
  BY HistoryFacts DEF StepInv, TypeOK
<1>2. ASSUME UNCHANGED policy, Running, Running' => NextBatch = NextBatch' \/ Earlier(NextBatch, NextBatch'),
             NextBatch'.epoch \in Nat, NextBatch'.batch \in Nat
      PROVE Increasing(policy)' /\ (Running' => Ahead')
  <2>1. Increasing(policy)'
    BY <1>2 DEF Increasing
  <2>2. ASSUME Running', NEW i \in DOMAIN policy
        PROVE Earlier(policy[i], NextBatch')
    <3>1. Earlier(policy[i], NextBatch)
      BY <1>2, <2>2 DEF Ahead
    <3>2. CASE NextBatch' = NextBatch
      BY <3>1, <3>2
    <3>3. CASE Earlier(NextBatch, NextBatch')
      BY <1>1, <1>2, <3>1, <3>3, NextBatchTypes, EarlierTrans
    <3> QED BY <1>2, <2>2, <3>2, <3>3
  <2> QED BY <1>2, <2>1, <2>2 DEF Ahead
<1>3. NextBatch'.epoch \in Nat /\ NextBatch'.batch \in Nat
  <2>1. TypeOK'
    BY <1>1, TypeNext
  <2> QED BY <2>1 DEF NextBatch, NextIteration, FreshLoader, TypeOK
<1>4. ASSUME policy' = <<>>
      PROVE Increasing(policy)' /\ (Running' => Ahead')
  BY <1>4 DEF Increasing, Ahead
<1>5. CASE StartFromScratch \/ Crash \/ CrashMidWrite
  BY <1>4, <1>5 DEF StartFromScratch, Crash, CrashMidWrite, FreshProcess, StepInv, BootFresh
<1>6. CASE ResumeFails \/ NoFallbackSave \/ FinishFallback
  BY <1>6 DEF ResumeFails, NoFallbackSave, FinishFallback, procVars, Running
<1>7. CASE Generation \/ SaveRotate \/ SaveActor \/ SaveData \/ SaveAdaptive \/ SaveTracker
  <2>1. /\ UNCHANGED <<policy, loader, epoch>> /\ Running
        /\ pc \in {"epoch", "cache", "begin"} <=> pc' \in {"epoch", "cache", "begin"}
    BY <1>7 DEF Generation, SkipGeneration, NoGeneration, LoadCachedEpoch, GenerateEpoch,
       GenerateOnEmpty, WriteCache, SaveRotate, SaveActor, SaveData, SaveAdaptive,
       SaveTracker, procVars, Running
  <2>2. NextBatch' = NextBatch
    BY <2>1 DEF NextBatch, NextIteration
  <2> QED BY <1>2, <1>3, <2>1, <2>2
<1>8. CASE BeginEpoch
  <2>1. /\ UNCHANGED <<policy, epoch>> /\ Running /\ loader' = NextIteration
        /\ pc = "begin" /\ pc' = "batch"
    BY <1>8 DEF BeginEpoch, Running
  <2>2. NextBatch' = NextBatch
    BY <2>1 DEF NextBatch
  <2> QED BY <1>2, <1>3, <2>1, <2>2
<1>9. CASE TrainBatch
  <2> DEFINE x == [epoch |-> epoch, batch |-> loader.pos, view |-> view']
  <2>1. /\ policy' = Append(policy, x) /\ pc = "batch" /\ pc' \in {"rotate", "advance"}
        /\ epoch' = epoch /\ loader' = [loader EXCEPT !.pos = @ + 1]
        /\ view' = view \/ view' = Pass(view.n)
    BY <1>9 DEF TrainBatch
  <2>2. /\ x \in StepRecord /\ x.epoch = epoch /\ x.batch = loader.pos
        /\ epoch \in Nat /\ loader.pos \in Nat /\ loader'.pos = loader.pos + 1
    <3>1. view' \in View
      <4>1. view \in View /\ view.n \in 0 .. view.n
        BY <1>1, ConfigAssumption DEF TypeOK, View, ConfigAssumption
      <4> QED BY <1>1, <2>1, <4>1, PassType
    <3> QED BY <1>1, <2>1, <3>1 DEF StepRecord, TypeOK
  <2> HIDE DEF x
  <2>3. NextBatch.epoch = x.epoch /\ NextBatch.batch = x.batch
    BY <2>1, <2>2 DEF NextBatch
  <2>4. NextBatch'.epoch = x.epoch /\ NextBatch'.batch = x.batch + 1
    BY <2>1, <2>2 DEF NextBatch
  <2>5. \A i \in DOMAIN policy : Earlier(policy[i], x)
    BY <2>1, <2>3 DEF Ahead, Earlier, Running
  <2>6. Increasing(policy')
    BY <1>1, <2>1, <2>2, <2>5, IncreasingAppend
  <2>7. Ahead'
    <3>1. Earlier(x, NextBatch')
      BY <2>2, <2>4 DEF Earlier
    <3>2. \A i \in DOMAIN policy : Earlier(policy[i], NextBatch')
      BY <1>1, <1>3, <2>2, <2>5, <3>1, EarlierTrans
    <3>3. \A i \in DOMAIN policy' : (i \in DOMAIN policy /\ policy'[i] = policy[i]) \/ policy'[i] = x
      BY <1>1, <2>1, <2>2, HistoryAppend
    <3> QED BY <3>1, <3>2, <3>3 DEF Ahead
  <2> QED BY <2>6, <2>7
<1>10. CASE Advance
  <2>1. UNCHANGED <<policy, loader, epoch>> /\ Running /\ pc = "advance" /\ pc' \in {"done", "batch"}
    BY <1>10 DEF Advance, Running
  <2>2. NextBatch' = NextBatch
    BY <2>1 DEF NextBatch
  <2> QED BY <1>2, <1>3, <2>1, <2>2
<1>11. CASE EndEpoch
  <2>1. /\ UNCHANGED policy /\ Running /\ epoch' = epoch + 1 /\ epoch \in Nat
    BY <1>1, <1>11 DEF EndEpoch, Running, TypeOK
  <2>2. Earlier(NextBatch, NextBatch')
    BY <2>1 DEF NextBatch, Earlier
  <2> QED BY <1>2, <1>3, <2>1, <2>2
<1>12. CASE FallbackSave
  <2>1. UNCHANGED <<policy, loader, epoch>> /\ Running /\ pc = "epoch" /\ pc' = "rotate"
    BY <1>12 DEF FallbackSave, Running
  <2>2. NextIteration.pos <= loader.pos /\ NextIteration.pos \in Nat /\ loader.pos \in Nat
    BY <1>1, NextBatchTypes
  <2>3. NextBatch' = NextBatch \/ Earlier(NextBatch, NextBatch')
    BY <2>1, <2>2 DEF NextBatch, Earlier
  <2> QED BY <1>2, <1>3, <2>1, <2>3
<1>13. CASE UNCHANGED vars
  <2>1. UNCHANGED <<policy, pc>> /\ NextBatch' = NextBatch
    BY <1>13 DEF vars, procVars, NextBatch, NextIteration
  <2> QED BY <2>1 DEF Increasing, Ahead, Running
<1> QED BY <1>5, <1>6, <1>7, <1>8, <1>9, <1>10, <1>11, <1>12, <1>13
    DEF Next, Process, Halted, Boot, Training, Saving

\* Before the first crash.
LEMMA FirstEpochsStep ==
    ASSUME ConfigAssumption, StepInv, Increasing(policy), FirstEpochs, [Next]_vars,
           crashes' = crashes
    PROVE FirstEpochs'
<1>1. /\ TypeOK /\ policy \in History /\ Len(policy) \in Nat /\ DOMAIN policy = 1 .. Len(policy)
      /\ \A i \in DOMAIN policy : policy[i].epoch \in Nat
      /\ loader \in [pos : Nat, finished : BOOLEAN, resumed : BOOLEAN]
      /\ epoch \in Nat /\ view \in View /\ view.n \in Nat /\ TotalEpochs \in Nat
  <2>1. /\ TypeOK /\ policy \in History /\ epoch \in Nat /\ view \in View
        /\ loader \in [pos : Nat, finished : BOOLEAN, resumed : BOOLEAN]
        /\ BatchesPerEpoch \in Nat /\ TotalEpochs \in Nat
    BY DEF StepInv, TypeOK, ConfigAssumption
  <2>2. view.n \in Nat
    BY <2>1 DEF View
  <2> QED BY <2>1, <2>2, HistoryFacts
<1>2. ~Crash /\ ~CrashMidWrite /\ ~Resume
  <2>1. crashes \in Nat
    BY <1>1 DEF TypeOK
  <2> QED BY <2>1 DEF Crash, CrashMidWrite, Resume, FirstEpochs
<1>3. epoch * view.n \in Nat
  BY <1>1
<1>4. CASE StartFromScratch
  <2>1. /\ pc = "boot" /\ pc' = "epoch" /\ policy = <<>> /\ epoch = 0
        /\ UNCHANGED <<cache, epoch, loader, skipGen, view, policy>>
    BY <1>4 DEF StartFromScratch, diskVars, FirstEpochs, StepInv, BootFresh
  <2>2. BetweenEpochs'
    BY <2>1 DEF BetweenEpochs
  <2>3. epoch' * view'.n = 0
    BY <1>1, <2>1
  <2> QED BY <1>1, <2>1, <2>2, <2>3 DEF FirstEpochs, InLoop, Saves
<1>5. CASE ResumeFails
  BY <1>5 DEF ResumeFails, procVars, diskVars, FirstEpochs, Running
<1>6. ASSUME Running, ~InLoop, ~InLoop', UNCHANGED <<policy, loader, epoch>>,
             ~skipGen', pc' \in {"cache", "begin"}, epoch < TotalEpochs, view'.n \in Nat, view'.n <= view.n,
             \A e \in 0 .. TotalEpochs - 1 :
               e > epoch \/ (e = epoch /\ pc' = "cache") => cache'[e].st # "ok"
      PROVE FirstEpochs'
  <2>1. epoch * view'.n <= epoch * view.n /\ epoch * view'.n \in Nat
    <3>1. view'.n * epoch <= view.n * epoch
      BY <1>1, <1>6, Multiple
    <3> QED BY <1>1, <1>6, <3>1
  <2> DEFINE a == epoch * view.n
             b == epoch * view'.n
  <2>2. b <= a /\ b \in Nat /\ a \in Nat /\ a + 0 <= Len(policy) /\ epoch' * view'.n = b
    BY <1>3, <1>6, <2>1 DEF FirstEpochs
  <2> HIDE DEF a, b
  <2>3. b + 0 <= Len(policy)
    BY <1>1, <2>2
  <2>4. BetweenEpochs'
    BY <1>6 DEF FirstEpochs, BetweenEpochs, LastEntry
  <2> QED BY <1>6, <2>2, <2>3, <2>4 DEF FirstEpochs, Saves
<1>7. CASE Generation
  <2>1. /\ Running /\ ~InLoop /\ ~InLoop' /\ UNCHANGED <<policy, loader, epoch>>
        /\ pc' \in {"cache", "begin"} /\ pc \in {"epoch", "cache"} /\ ~skipGen'
        /\ epoch \in 0 .. TotalEpochs - 1
    BY <1>1, <1>7 DEF Generation, SkipGeneration, NoGeneration, LoadCachedEpoch, GenerateEpoch,
       GenerateOnEmpty, WriteCache, procVars, Running, InLoop, Saves, FirstEpochs
  <2>2. view'.n \in Nat /\ view'.n <= view.n
    <3>1. CASE LoadCachedEpoch
      BY <2>1, <3>1 DEF LoadCachedEpoch, CacheHit, FirstEpochs
    <3>2. CASE GenerateEpoch
      BY <1>1, <3>2 DEF GenerateEpoch, Pass
    <3>3. CASE UNCHANGED view
      BY <1>1, <3>3
    <3> QED BY <1>7, <3>1, <3>2, <3>3 DEF Generation, SkipGeneration, NoGeneration,
        GenerateOnEmpty, WriteCache, procVars
  <2>3. \A e \in 0 .. TotalEpochs - 1 :
          e > epoch \/ (e = epoch /\ pc' = "cache") => cache'[e].st # "ok"
    <3>1. CASE WriteCache
      <4>1. /\ pc' = "begin"
            /\ \A e \in 0 .. TotalEpochs - 1 : e # epoch => cache'[e] = cache[e]
        BY <1>1, <3>1 DEF WriteCache, TypeOK
      <4> QED BY <1>1, <4>1 DEF FirstEpochs
    <3>2. CASE UNCHANGED cache
      BY <2>1, <3>2 DEF FirstEpochs
    <3> QED BY <1>7, <3>1, <3>2 DEF Generation, SkipGeneration, NoGeneration, LoadCachedEpoch,
        GenerateEpoch, GenerateOnEmpty, diskVars
  <2>4. epoch < TotalEpochs
    BY <1>1, <2>1
  <2> QED BY <1>6, <2>1, <2>2, <2>3, <2>4
<1>8. CASE BeginEpoch
  <2>1. /\ pc = "begin" /\ pc' = "batch" /\ UNCHANGED <<policy, epoch, skipGen, view, cache>>
        /\ loader' = FreshLoader
    BY <1>8 DEF BeginEpoch, diskVars, NextIteration, FirstEpochs, Running
  <2>2. BetweenEpochs'
    BY <2>1 DEF FirstEpochs, Running, InLoop, BetweenEpochs, LastEntry, Saves
  <2>3. epoch * view.n + 0 <= Len(policy)
    BY <2>1 DEF FirstEpochs, Running, InLoop, Saves
  <2> QED BY <1>1, <2>1, <2>2, <2>3 DEF FirstEpochs, FreshLoader, InLoop, Running, Saves
<1>9. CASE TrainBatch
  <2> DEFINE x == [epoch |-> epoch, batch |-> loader.pos, view |-> view']
  <2>1. /\ policy' = Append(policy, x) /\ pc = "batch" /\ pc' \in {"rotate", "advance"}
        /\ UNCHANGED <<epoch, skipGen, cache>> /\ loader' = [loader EXCEPT !.pos = @ + 1]
        /\ view' = view \/ view' = Pass(view.n)
    BY <1>9 DEF TrainBatch, diskVars
  <2>2. view'.n = view.n /\ view' \in View
    <3>1. view.n \in 0 .. view.n
      BY <1>1
    <3> QED BY <1>1, <2>1, <3>1, PassType, OnePassMore
  <2>3. /\ x \in StepRecord /\ x.epoch = epoch /\ x.batch = loader.pos /\ x.view = view'
        /\ loader.pos \in Nat /\ loader'.pos = loader.pos + 1
        /\ loader'.finished = loader.finished /\ loader'.resumed = loader.resumed
    BY <1>1, <2>1, <2>2 DEF StepRecord, TypeOK
  <2>4. /\ Running /\ InLoop /\ ~loader.resumed /\ ~skipGen
        /\ epoch * view.n + loader.pos <= Len(policy)
        /\ ~loader.finished /\ epoch < TotalEpochs
    BY <2>1 DEF FirstEpochs, Running, InLoop
  <2> HIDE DEF x
  <2>5. policy' # <<>> /\ Len(policy') = Len(policy) + 1 /\ LastEntry' = x
    BY <1>1, <2>1, <2>3, HistoryAppend DEF LastEntry
  <2>6. epoch' * view'.n + loader'.pos <= Len(policy')
    <3> DEFINE a == epoch * view.n
    <3>1. a \in Nat /\ a + loader.pos <= Len(policy) /\ epoch' * view'.n = a
      BY <1>3, <2>1, <2>2, <2>4
    <3> HIDE DEF a
    <3> QED BY <1>1, <2>3, <2>5, <3>1
  <2>7. MidEpoch' /\ InLoop' /\ Running' /\ loader'.pos > 0
    BY <2>1, <2>2, <2>3, <2>4, <2>5 DEF MidEpoch, InLoop, Running, Saves
  <2> QED BY <2>1, <2>3, <2>4, <2>5, <2>6, <2>7 DEF FirstEpochs
<1>10. CASE Advance
  <2>1. /\ pc = "advance" /\ pc' \in {"done", "batch"}
        /\ UNCHANGED <<policy, epoch, loader, skipGen, view, cache>>
    BY <1>10 DEF Advance, diskVars
  <2>2. MidEpoch /\ loader.pos > 0
    BY <2>1 DEF FirstEpochs, Running, InLoop
  <2>3. MidEpoch'
    BY <2>1, <2>2 DEF MidEpoch, LastEntry
  <2> QED BY <2>1, <2>2, <2>3 DEF FirstEpochs, Running, InLoop, Saves
<1>11. CASE EndEpoch
  <2>1. /\ pc = "batch" /\ pc' = "epoch" /\ UNCHANGED <<policy, skipGen, view, cache>>
        /\ loader' = [loader EXCEPT !.finished = TRUE] /\ epoch' = epoch + 1
        /\ loader.pos >= view.n
    BY <1>11 DEF EndEpoch, diskVars
  <2>2. /\ ~loader.resumed /\ ~skipGen /\ epoch * view.n + loader.pos <= Len(policy)
        /\ IF loader.pos > 0 THEN MidEpoch ELSE BetweenEpochs
        /\ loader.pos \in Nat
    BY <1>1, <2>1 DEF FirstEpochs, Running, InLoop
  <2>3. (epoch + 1) * view.n <= Len(policy)
    <3> DEFINE a == epoch * view.n
               b == (epoch + 1) * view.n
    <3>1. a \in Nat /\ a + loader.pos <= Len(policy) /\ b = a + view.n
      BY <1>1, <1>3, <2>2
    <3> HIDE DEF a, b
    <3>2. b <= Len(policy)
      BY <1>1, <2>1, <2>2, <3>1
    <3> QED BY <3>2 DEF b
  <2>4. BetweenEpochs'
    <3>1. CASE loader.pos > 0
      <4>1. policy # <<>> /\ LastEntry.epoch = epoch /\ LastEntry.view.n = view.n
        BY <2>2, <3>1 DEF MidEpoch
      <4>2. (LastEntry.epoch + 1) * LastEntry.view.n <= Len(policy)
        BY <2>3, <4>1
      <4>3. \A i \in DOMAIN policy : policy[i].epoch < epoch + 1
        <5> TAKE i \in DOMAIN policy
        <5>1. policy[i].epoch <= epoch
          BY <1>1, <4>1, LastIsLatest DEF LastEntry
        <5> QED BY <1>1, <5>1
      <4> QED BY <2>1, <4>2, <4>3 DEF BetweenEpochs, LastEntry
    <3>2. CASE ~(loader.pos > 0)
      <4>1. \A i \in DOMAIN policy : policy[i].epoch < epoch + 1
        BY <1>1, <2>2, <3>2 DEF BetweenEpochs
      <4> QED BY <2>1, <2>2, <3>2, <4>1 DEF BetweenEpochs, LastEntry
    <3> QED BY <3>1, <3>2
  <2>5. /\ ~loader'.resumed /\ ~skipGen' /\ epoch' * view'.n <= Len(policy')
        /\ epoch' * view'.n + 0 = epoch' * view'.n
    BY <1>1, <2>1, <2>2, <2>3
  <2> QED BY <1>1, <2>1, <2>4, <2>5 DEF FirstEpochs, InLoop, Saves
<1>12. CASE Saving
  <2>1. /\ UNCHANGED <<policy, epoch, loader, skipGen, view, cache>>
        /\ Running /\ pc # "cache" /\ pc' \in Saves \cup {"advance", "finish", "done"}
        /\ pc' = "rotate" => pc = "epoch" /\ epoch >= TotalEpochs /\ step - 1 >= 1
        /\ pc' \in Saves \ {"rotate"} => pc \in Saves
        /\ pc' = "advance" => pc \in Saves /\ epoch < TotalEpochs
        /\ pc' = "finish" => pc \in Saves /\ ~(epoch < TotalEpochs)
    BY <1>12 DEF Saving, FallbackSave, NoFallbackSave, FinishFallback, SaveRotate, SaveActor,
       SaveData, SaveAdaptive, SaveTracker, procVars, diskVars, Running, Saves
  <2>2. Running' => (InLoop' <=> InLoop)
    BY <1>1, <2>1 DEF InLoop, Running, Saves
  <2>3. pc' = "rotate" => policy # <<>>
    <3> SUFFICES ASSUME pc' = "rotate" PROVE policy # <<>>
      OBVIOUS
    <3>1. Len(policy) >= 1
      BY <2>1 DEF StepInv, ProcessCounted
    <3> QED BY <3>1
  <2>4. /\ pc' \in Saves => policy # <<>> /\ (epoch < TotalEpochs => loader.pos > 0)
        /\ pc' = "advance" => loader.pos > 0
    BY <1>1, <2>1, <2>3 DEF FirstEpochs, Running, Saves
  <2>5. BetweenEpochs' = BetweenEpochs /\ MidEpoch' = MidEpoch
    BY <2>1 DEF BetweenEpochs, MidEpoch, LastEntry
  <2>6. \A e \in 0 .. TotalEpochs - 1 : e > epoch => cache'[e].st # "ok"
    BY <2>1 DEF FirstEpochs
  <2> QED BY <1>1, <2>1, <2>2, <2>4, <2>5, <2>6 DEF FirstEpochs, Saves
<1>13. CASE UNCHANGED vars
  BY <1>13 DEF vars, procVars, diskVars, FirstEpochs, Running, InLoop, BetweenEpochs,
     MidEpoch, LastEntry
<1> QED BY <1>2, <1>4, <1>5, <1>7, <1>8, <1>9, <1>10, <1>11, <1>12, <1>13
    DEF Next, Process, Halted, Boot, Training

\* The fallback save, before the first crash: the steps cover the last epoch at
\* the length the dataset has now.
LEMMA FallbackView ==
    ASSUME ConfigAssumption, StepInv, FirstEpochs, pc \in Saves, ~(epoch < TotalEpochs)
    PROVE policy # <<>> /\ (LastEntry.epoch + 1) * view.n <= step
<1>1. /\ policy # <<>> /\ epoch * view.n + 0 <= Len(policy) /\ BetweenEpochs
      /\ Len(policy) = step
  BY DEF FirstEpochs, Running, Saves, InLoop, StepInv, ProcessCounted
<1>2. /\ policy \in History /\ epoch \in Nat /\ view \in View /\ step \in Nat
      /\ BatchesPerEpoch \in Nat
  BY DEF StepInv, TypeOK, ConfigAssumption
<1>3. view.n \in Nat
  BY <1>2 DEF View
<1>4. LastEntry.epoch \in Nat /\ LastEntry.epoch < epoch
  BY <1>1, <1>2, HistoryFacts DEF BetweenEpochs, LastEntry
<1> DEFINE m == LastEntry.epoch + 1
           a == m * view.n
           b == epoch * view.n
<1>5. m \in Nat /\ m <= epoch
  BY <1>2, <1>4
<1>6. a <= b /\ a \in Nat /\ b \in Nat
  BY <1>2, <1>3, <1>5, Multiple
<1>7. b + 0 <= step
  BY <1>1
<1> HIDE DEF a, b
<1>8. a <= step
  BY <1>2, <1>6, <1>7
<1> QED BY <1>1, <1>8 DEF a

\* A save in the loop, before the first crash: the steps reach into the current
\* epoch.
LEMMA LoopView ==
    ASSUME ConfigAssumption, StepInv, FirstEpochs, pc \in Saves, epoch < TotalEpochs
    PROVE /\ policy # <<>> /\ LastEntry.view.n = view.n /\ ~loader.finished
          /\ LastEntry.epoch * view.n < step
          /\ loader.pos > LastEntry.batch
<1>1. /\ InLoop /\ loader.pos > 0 /\ MidEpoch /\ ~loader.finished
      /\ epoch * view.n + loader.pos <= Len(policy) /\ Len(policy) = step
  BY DEF FirstEpochs, Running, Saves, InLoop, StepInv, ProcessCounted
<1>2. /\ policy \in History /\ epoch \in Nat /\ view \in View /\ step \in Nat
      /\ BatchesPerEpoch \in Nat /\ loader.pos \in Nat
  BY DEF StepInv, TypeOK, ConfigAssumption
<1>3. view.n \in Nat
  BY <1>2 DEF View
<1>4. policy # <<>> /\ LastEntry.epoch = epoch /\ LastEntry.batch + 1 = loader.pos
      /\ LastEntry.view.n = view.n
  BY <1>1 DEF MidEpoch
<1>5. LastEntry.batch \in Nat
  BY <1>2, <1>4, HistoryFacts DEF LastEntry
<1> DEFINE a == epoch * view.n
<1>6. a \in Nat /\ a + loader.pos <= step
  BY <1>1, <1>2, <1>3
<1> HIDE DEF a
<1>7. a < step
  BY <1>1, <1>2, <1>6
<1> QED BY <1>1, <1>4, <1>5, <1>7 DEF a

LEMMA FirstSavesStep ==
    ASSUME ConfigAssumption, StepInv, FirstEpochs, FirstSaves, [Next]_vars, crashes' = crashes
    PROVE FirstSaves'
<1>1. /\ TypeOK /\ policy \in History /\ Len(policy) \in Nat /\ step \in Nat
      /\ tracker \in Nat \cup {TornTracker} /\ Folder(step) \in CkptFolder
  BY HistoryFacts, FolderType DEF StepInv, TypeOK
<1>2. ~Crash /\ ~CrashMidWrite /\ ~Resume
  <2>1. crashes \in Nat
    BY <1>1 DEF TypeOK
  <2> QED BY <2>1 DEF Crash, CrashMidWrite, Resume, FirstEpochs
<1>3. pc \in Saves => Len(policy) = step /\ Running
  BY DEF StepInv, ProcessCounted, Saves, Running
<1>4. CASE StartFromScratch
  <2>1. /\ UNCHANGED <<ckpt, tracker, policy>> /\ pc' = "epoch" /\ tracker = 0
    BY <1>4 DEF StartFromScratch, diskVars, NoTracker
  <2> QED BY <1>1, <2>1 DEF FirstSaves, NoTracker, TornTracker, Saves
<1>5. CASE ResumeFails \/ NoFallbackSave \/ FinishFallback
  BY <1>5 DEF ResumeFails, NoFallbackSave, FinishFallback, FirstSaves, Running
<1>6. CASE Generation \/ BeginEpoch \/ Advance \/ EndEpoch
  <2>1. /\ UNCHANGED <<ckpt, tracker, policy>> /\ Running
        /\ pc \notin Saves \cup {"finish"} /\ pc' \notin Saves \cup {"finish"}
    BY <1>6 DEF Generation, SkipGeneration, NoGeneration, LoadCachedEpoch, GenerateEpoch,
       GenerateOnEmpty, WriteCache, BeginEpoch, Advance, EndEpoch, procVars, diskVars,
       Running, Saves
  <2> QED BY <2>1 DEF FirstSaves, Folder, LastEntry, Saves
<1>7. CASE TrainBatch
  <2>1. /\ pc = "batch" /\ pc' \in {"rotate", "advance"} /\ UNCHANGED <<ckpt, tracker, step>>
    BY <1>7 DEF TrainBatch, diskVars
  <2>2. Len(policy') = Len(policy) + 1
    <3>1. policy \in Seq(StepRecord)
      BY <1>1 DEF History, StepRecord
    <3> QED BY <1>7, <3>1 DEF TrainBatch
  <2>3. tracker # TornTracker /\ tracker <= Len(policy) /\ Len(policy) = step - 1 /\ tracker \in Nat
    BY <1>1, <2>1 DEF FirstSaves, Running, StepInv, ProcessCounted
  <2>4. tracker < Len(policy') /\ tracker # step
    BY <1>1, <2>2, <2>3
  <2> QED BY <1>1, <2>1, <2>3, <2>4 DEF FirstSaves, Saves
<1>8. CASE FallbackSave
  <2>1. /\ pc = "epoch" /\ pc' = "rotate" /\ epoch >= TotalEpochs /\ step - 1 >= 1
        /\ step' = step - 1 /\ UNCHANGED <<ckpt, tracker, policy, epoch>>
        /\ Len(policy) = step - 1
    BY <1>8 DEF FallbackSave, diskVars, StepInv, ProcessCounted
  <2>2. /\ tracker # TornTracker /\ tracker <= Len(policy)
        /\ tracker = Len(policy) /\ tracker # NoTracker
             => policy # <<>> /\ Folder(tracker).adaptive.view.n = LastEntry.view.n
    BY <2>1 DEF FirstSaves, Running, Saves
  <2>3. policy # <<>> => (LastEntry.epoch + 1) * LastEntry.view.n <= Len(policy)
    BY <2>1 DEF FirstEpochs, Running, InLoop, BetweenEpochs, Saves
  <2>4. ASSUME tracker = step'
        PROVE (LastEntry.epoch + 1) * Folder(tracker).adaptive.view.n <= step'
    <3>1. tracker = Len(policy) /\ tracker # NoTracker
      BY <1>1, <2>1, <2>4 DEF NoTracker
    <3> QED BY <2>1, <2>2, <2>3, <3>1
  <2> QED BY <2>1, <2>2, <2>4 DEF FirstSaves, Saves, Folder, LastEntry
<1>9. CASE SaveRotate
  <2>1. /\ DOMAIN ckpt' = DOMAIN ckpt /\ UNCHANGED <<tracker, step, epoch, policy>>
        /\ pc = "rotate" /\ pc' = "actor"
        /\ \A s \in DOMAIN ckpt :
             ckpt'[s] = ckpt[s] \/ ckpt'[s] = [ckpt[s] EXCEPT !.actor = NoActor]
    BY <1>9 DEF SaveRotate
  <2>2. \A s \in DOMAIN ckpt : ckpt'[s].adaptive = ckpt[s].adaptive
    BY <1>1, <2>1 DEF TypeOK, CkptFolder
  <2>3. Folder(step)'.adaptive = Folder(step).adaptive
    BY <2>1, <2>2 DEF Folder
  <2> QED BY <1>3, <2>1, <2>3 DEF FirstSaves, Saves, LastEntry
<1>10. CASE SaveActor
  <2> DEFINE f == [Folder(step) EXCEPT !.actor = [st |-> "ok", steps |-> policy]]
  <2>1. /\ ckpt' = Put(ckpt, step, f) /\ UNCHANGED <<tracker, step, epoch, policy>>
        /\ pc = "actor" /\ pc' = "data"
    BY <1>10 DEF SaveActor
  <2>2. f.actor.steps = policy /\ f.adaptive = Folder(step).adaptive
    BY <1>1 DEF CkptFolder
  <2> HIDE DEF f
  <2>3. Folder(step)' = f
    BY <2>1, PutFolder
  <2> QED BY <1>3, <2>1, <2>2, <2>3 DEF FirstSaves, Saves, LastEntry
<1>11. CASE SaveData
  <2> DEFINE d == [st |-> "ok", pos |-> loader.pos, finished |-> loader.finished]
             f == [Folder(step) EXCEPT !.data = d]
  <2>1. /\ ckpt' = Put(ckpt, step, f) /\ UNCHANGED <<tracker, step, epoch, policy, loader>>
        /\ pc = "data" /\ pc' = "adaptive"
    BY <1>11 DEF SaveData, procVars
  <2>2. f.actor = Folder(step).actor /\ f.adaptive = Folder(step).adaptive /\ f.data = d
    BY <1>1 DEF CkptFolder
  <2> HIDE DEF f
  <2>3. Folder(step)' = f
    BY <2>1, PutFolder
  <2> QED BY <1>3, <2>1, <2>2, <2>3 DEF FirstSaves, Saves, LastEntry
<1>12. CASE SaveAdaptive
  <2> DEFINE f == [Folder(step) EXCEPT !.adaptive = AdaptiveFile]
  <2>1. /\ ckpt' = Put(ckpt, step, f) /\ UNCHANGED <<tracker, step, epoch, policy, loader, view>>
        /\ pc = "adaptive" /\ pc' = "tracker"
    BY <1>12 DEF SaveAdaptive, procVars
  <2>2. f.actor = Folder(step).actor /\ f.data = Folder(step).data /\ f.adaptive = AdaptiveFile
    BY <1>1 DEF CkptFolder
  <2> HIDE DEF f
  <2>3. Folder(step)' = f /\ AdaptiveFile' = AdaptiveFile
    BY <2>1, PutFolder DEF AdaptiveFile
  <2>4. ASSUME tracker = step
        PROVE epoch >= TotalEpochs /\ (LastEntry.epoch + 1) * f.adaptive.view.n <= step
    <3>1. epoch >= TotalEpochs /\ ~(epoch < TotalEpochs)
      BY <1>1, <1>3, <2>1, <2>4 DEF FirstSaves, Saves, TypeOK, ConfigAssumption
    <3>2. (LastEntry.epoch + 1) * view.n <= step
      BY <2>1, <3>1, FallbackView DEF Saves
    <3>3. f.adaptive.view.n = view.n
      BY <2>2 DEF AdaptiveFile
    <3> QED BY <3>1, <3>2, <3>3
  <2> QED BY <1>3, <2>1, <2>2, <2>3, <2>4 DEF FirstSaves, Saves, LastEntry
<1>13. CASE SaveTracker
  <2>1. /\ pc = "tracker" /\ pc' = (IF epoch < TotalEpochs THEN "advance" ELSE "finish")
        /\ tracker' = step /\ UNCHANGED <<ckpt, step, policy>>
    BY <1>13 DEF SaveTracker, procVars
  <2>2. Folder(step)' = Folder(step) /\ Folder(step).adaptive = AdaptiveFile /\ Len(policy) = step
    BY <1>3, <2>1 DEF FirstSaves, Folder, Saves
  <2>3. pc' = "advance" => policy # <<>> /\ Folder(step).adaptive.view.n = LastEntry.view.n
    BY <2>1, <2>2, LoopView DEF Saves, AdaptiveFile
  <2> QED BY <1>1, <2>1, <2>2, <2>3 DEF FirstSaves, Saves, LastEntry, TornTracker
<1>14. CASE UNCHANGED vars
  BY <1>14 DEF vars, procVars, diskVars, FirstSaves, Running, Folder, LastEntry, AdaptiveFile
<1> QED BY <1>2, <1>4, <1>5, <1>6, <1>7, <1>8, <1>9, <1>10, <1>11, <1>12, <1>13, <1>14
    DEF Next, Process, Halted, Boot, Training, Saving

\* The folder the tracker names stays resumable before the first crash, and
\* through it.
LEMMA NamedStep ==
    ASSUME ConfigAssumption, StepInv, Increasing(policy), FirstEpochs, FirstSaves,
           NamedResumable, [Next]_vars
    PROVE NamedResumable'
<1>1. /\ TypeOK /\ policy \in History /\ Len(policy) \in Nat /\ step \in Nat
      /\ tracker \in Nat \cup {TornTracker} /\ Folder(step) \in CkptFolder
      /\ epoch \in Nat /\ TotalEpochs \in Nat
  BY HistoryFacts, FolderType DEF StepInv, TypeOK, ConfigAssumption
<1>2. CASE UNCHANGED <<ckpt, tracker>>
  BY <1>2 DEF NamedResumable, Folder
<1>3. CASE tracker' = TornTracker
  BY <1>3 DEF NamedResumable
<1>4. CASE SaveRotate
  <2>1. /\ DOMAIN ckpt' = DOMAIN ckpt /\ tracker' = tracker
        /\ \A s \in DOMAIN ckpt :
             ckpt'[s] = ckpt[s] \/ ckpt'[s] = [ckpt[s] EXCEPT !.actor = NoActor]
    BY <1>4 DEF SaveRotate
  <2>2. \A s \in DOMAIN ckpt :
          /\ ckpt'[s].adaptive = ckpt[s].adaptive /\ ckpt'[s].data = ckpt[s].data
          /\ ckpt'[s].actor \in {ckpt[s].actor, NoActor}
    BY <1>1, <2>1 DEF TypeOK, CkptFolder
  <2>3. /\ Folder(tracker)'.adaptive = Folder(tracker).adaptive
        /\ Folder(tracker)'.data = Folder(tracker).data
        /\ Folder(tracker)'.actor \in {Folder(tracker).actor, NoActor}
    BY <2>1, <2>2 DEF Folder
  <2> QED BY <2>1, <2>3 DEF NamedResumable, Resumable, NoActor
<1>5. ASSUME NEW f, ckpt' = Put(ckpt, step, f), tracker' = tracker, pc \in Saves,
             f.adaptive.st = "absent" => Folder(step).adaptive.st = "absent",
             tracker = step /\ f.actor.st = "ok" =>
               /\ f.actor.steps = policy
               /\ f.adaptive.st = "ok" => (LastEntry.epoch + 1) * f.adaptive.view.n <= step
      PROVE NamedResumable'
  <2>1. Folder(tracker)' = IF tracker = step THEN f ELSE Folder(tracker)
    BY <1>5, PutFolder
  <2>2. CASE tracker # step
    BY <1>5, <2>1, <2>2 DEF NamedResumable
  <2>3. CASE tracker = step
    <3>1. Len(policy) = step
      BY <1>5 DEF StepInv, ProcessCounted, Saves
    <3>2. f.actor.st = "ok" => Increasing(f.actor.steps) /\ Resumable(f.actor.steps, f)
      BY <1>5, <2>3, <3>1 DEF Resumable, LastEntry
    <3> QED BY <1>5, <2>1, <2>3, <3>2 DEF NamedResumable
  <2> QED BY <2>2, <2>3
<1>6. ASSUME pc \in Saves, tracker = step
      PROVE /\ epoch >= TotalEpochs
            /\ (LastEntry.epoch + 1) * Folder(step).adaptive.view.n <= step
            /\ (LastEntry.epoch + 1) * view.n <= step
  <2>1. epoch >= TotalEpochs /\ (LastEntry.epoch + 1) * Folder(step).adaptive.view.n <= step
    BY <1>6 DEF FirstSaves, Running, Saves
  <2>2. ~(epoch < TotalEpochs)
    BY <1>1, <2>1
  <2> QED BY <1>6, <2>1, <2>2, FallbackView
<1>7. CASE SaveActor
  <2> DEFINE f == [Folder(step) EXCEPT !.actor = [st |-> "ok", steps |-> policy]]
  <2>1. ckpt' = Put(ckpt, step, f) /\ tracker' = tracker /\ pc \in Saves
    BY <1>7 DEF SaveActor, Saves
  <2>2. f.actor.steps = policy /\ f.adaptive = Folder(step).adaptive
    BY <1>1 DEF CkptFolder
  <2> HIDE DEF f
  <2> QED BY <1>5, <1>6, <2>1, <2>2
<1>8. CASE SaveData
  <2> DEFINE f == [Folder(step) EXCEPT !.data =
                      [st |-> "ok", pos |-> loader.pos, finished |-> loader.finished]]
  <2>1. /\ ckpt' = Put(ckpt, step, f) /\ tracker' = tracker /\ pc \in Saves
        /\ Folder(step).actor.steps = policy
    BY <1>8 DEF SaveData, procVars, FirstSaves, Running, Saves
  <2>2. f.actor = Folder(step).actor /\ f.adaptive = Folder(step).adaptive
    BY <1>1 DEF CkptFolder
  <2> HIDE DEF f
  <2> QED BY <1>5, <1>6, <2>1, <2>2
<1>9. CASE SaveAdaptive
  <2> DEFINE f == [Folder(step) EXCEPT !.adaptive = AdaptiveFile]
  <2>1. /\ ckpt' = Put(ckpt, step, f) /\ tracker' = tracker /\ pc \in Saves
        /\ Folder(step).actor.steps = policy
    BY <1>9 DEF SaveAdaptive, procVars, FirstSaves, Running, Saves
  <2>2. f.actor = Folder(step).actor /\ f.adaptive.st = "ok" /\ f.adaptive.view.n = view.n
    BY <1>1 DEF CkptFolder, AdaptiveFile
  <2> HIDE DEF f
  <2> QED BY <1>5, <1>6, <2>1, <2>2
<1>10. CASE SaveTracker
  <2>1. pc = "tracker" /\ tracker' = step /\ ckpt' = ckpt
    BY <1>10 DEF SaveTracker
  <2>2. Folder(tracker)' = Folder(step)
    BY <2>1 DEF Folder
  <2>3. /\ Folder(step).adaptive = AdaptiveFile /\ Folder(step).actor.steps = policy
        /\ Folder(step).data = [st |-> "ok", pos |-> loader.pos, finished |-> loader.finished]
    BY <2>1 DEF FirstSaves, Running
  <2>4. Len(policy) = step
    BY <2>1 DEF StepInv, ProcessCounted
  <2>5. Resumable(policy, Folder(step))
    <3>1. CASE epoch < TotalEpochs
      BY <2>1, <2>3, <2>4, <3>1, LoopView DEF Resumable, AdaptiveFile, LastEntry, Saves
    <3>2. CASE ~(epoch < TotalEpochs)
      BY <2>1, <2>3, <2>4, <3>2, FallbackView DEF Resumable, AdaptiveFile, LastEntry, Saves
    <3> QED BY <3>1, <3>2
  <2>6. Folder(step).adaptive.st = "ok"
    BY <2>3 DEF AdaptiveFile
  <2> DEFINE f == Folder(step)
  <2>7. f.adaptive.st # "absent" /\ f.actor.steps = policy /\ Resumable(policy, f)
    BY <2>3, <2>5, <2>6
  <2>8. Folder(tracker)' = f
    BY <2>2
  <2> HIDE DEF f
  <2> QED BY <2>7, <2>8 DEF NamedResumable
<1>11. CASE /\ ckpt' = Put(ckpt, step, TornFolder) /\ tracker' = tracker
            /\ pc \in {"actor", "data", "adaptive"}
  <2>1. /\ TornFolder.adaptive.st = "absent" => Folder(step).adaptive.st = "absent"
        /\ pc = "actor" => TornFolder.actor.st # "ok"
        /\ pc # "actor" => TornFolder.actor = Folder(step).actor
        /\ pc = "data" => TornFolder.adaptive = Folder(step).adaptive
        /\ pc = "adaptive" => TornFolder.adaptive.st = "torn"
    BY <1>1, <1>11 DEF TornFolder, CkptFolder, NoActor, NoAdaptive
  <2>2. pc # "actor" => Folder(step).actor.steps = policy
    BY <1>11 DEF FirstSaves, Running, Saves
  <2> DEFINE f == TornFolder
  <2>3. /\ ckpt' = Put(ckpt, step, f)
        /\ f.adaptive.st = "absent" => Folder(step).adaptive.st = "absent"
        /\ pc = "actor" => f.actor.st # "ok"
        /\ pc # "actor" => f.actor = Folder(step).actor
        /\ pc = "data" => f.adaptive = Folder(step).adaptive
        /\ pc = "adaptive" => f.adaptive.st = "torn"
    BY <1>11, <2>1
  <2> HIDE DEF f
  <2> QED BY <1>5, <1>6, <1>11, <2>2, <2>3 DEF Saves
<1>12. \/ UNCHANGED <<ckpt, tracker>> \/ tracker' = TornTracker
       \/ SaveRotate \/ SaveActor \/ SaveData \/ SaveAdaptive \/ SaveTracker
       \/ /\ ckpt' = Put(ckpt, step, TornFolder) /\ tracker' = tracker
          /\ pc \in {"actor", "data", "adaptive"}
  BY DEF Next, Process, Halted, Boot, StartFromScratch, Resume, ResumeFails, Generation,
     SkipGeneration, NoGeneration, LoadCachedEpoch, GenerateEpoch, GenerateOnEmpty,
     WriteCache, Training, BeginEpoch, TrainBatch, Advance, EndEpoch, Saving, FallbackSave,
     NoFallbackSave, FinishFallback, Crash, CrashMidWrite, vars, procVars, diskVars
<1> QED BY <1>2, <1>3, <1>4, <1>7, <1>8, <1>9, <1>10, <1>11, <1>12

LEMMA RepeatStep ==
    ASSUME ConfigAssumption, RepeatInv, [Next]_vars
    PROVE RepeatInv'
<1>1. StepInv /\ StepInv' /\ crashes \in Nat
  BY CountNext DEF RepeatInv, StepInv, TypeOK
<1>2. /\ crashes' = crashes \/ crashes' = crashes + 1
      /\ crashes' # crashes => pc' = "boot" /\ policy' = <<>>
  BY DEF Next, Process, Halted, Boot, StartFromScratch, Resume, ResumeFails, Generation,
     SkipGeneration, NoGeneration, LoadCachedEpoch, GenerateEpoch, GenerateOnEmpty,
     WriteCache, Training, BeginEpoch, TrainBatch, Advance, EndEpoch, Saving, FallbackSave,
     NoFallbackSave, FinishFallback, SaveRotate, SaveActor, SaveData, SaveAdaptive,
     SaveTracker, Crash, CrashMidWrite, FreshProcess, vars, procVars, diskVars, histVars
<1>3. ASSUME crashes' = 0
      PROVE FirstEpochs' /\ FirstSaves'
  BY <1>1, <1>2, <1>3, FirstEpochsStep, FirstSavesStep DEF RepeatInv
<1>4. ASSUME crashes' = 0 \/ (crashes' = 1 /\ pc' = "boot")
      PROVE NamedResumable'
  <2>1. CASE crashes = 0
    BY <1>1, <2>1, NamedStep DEF RepeatInv
  <2>2. CASE crashes # 0
    <3>1. crashes = 1 /\ crashes' = crashes /\ pc' = "boot"
      BY <1>1, <1>2, <1>4, <2>2
    <3>2. UNCHANGED vars
      BY <1>1, <3>1 DEF Next, Process, Halted, Boot, StartFromScratch, Resume, ResumeFails,
         Generation, SkipGeneration, NoGeneration, LoadCachedEpoch, GenerateEpoch,
         GenerateOnEmpty, WriteCache, Training, BeginEpoch, TrainBatch, Advance, EndEpoch,
         Saving, FallbackSave, NoFallbackSave, FinishFallback, SaveRotate, SaveActor,
         SaveData, SaveAdaptive, SaveTracker, Crash, CrashMidWrite
    <3> QED BY <3>1, <3>2 DEF vars, diskVars, RepeatInv, NamedResumable, Folder
  <2> QED BY <2>1, <2>2
<1>5. ASSUME crashes' <= 1
      PROVE Increasing(policy)' /\ (Running' => Ahead')
  <2>1. crashes <= 1
    BY <1>1, <1>2, <1>5
  <2>2. CASE Resume
    <3>1. pc = "boot" /\ (crashes = 0 \/ crashes = 1)
      BY <1>1, <2>1, <2>2 DEF Resume
    <3> QED BY <1>1, <2>2, <3>1, ResumeAhead DEF RepeatInv
  <2>3. CASE ~Resume
    BY <1>1, <2>1, <2>3, AheadStep DEF RepeatInv
  <2> QED BY <2>2, <2>3
<1> QED BY <1>1, <1>3, <1>4, <1>5 DEF RepeatInv

\* One resume never puts a batch of the same epoch into the weights twice,
\* whatever the passes before the crash have dropped and whatever the crash has
\* torn: the arithmetic of _load_checkpoint may skip batches, not repeat them.
THEOREM FirstResumeRepeatsNothing == Spec => []OneResumeRepeatsNothing
<1>1. Init => RepeatInv
  <2> SUFFICES ASSUME Init PROVE RepeatInv
    OBVIOUS
  <2>1. StepInv
    BY CountInit, ConfigAssumption
  <2>2. /\ pc = "boot" /\ tracker = NoTracker /\ epoch = 0 /\ ~skipGen /\ policy = <<>>
        /\ ~loader.resumed /\ \A e \in 0 .. TotalEpochs - 1 : cache[e].st # "ok"
    BY DEF Init, FreshLoader, NoCache
  <2> QED BY <2>1, <2>2 DEF RepeatInv, FirstEpochs, FirstSaves, NamedResumable, Increasing, Running
<1>2. RepeatInv /\ [Next]_vars => RepeatInv'
  BY RepeatStep, ConfigAssumption
<1>3. RepeatInv => OneResumeRepeatsNothing
  BY DEF RepeatInv, OneResumeRepeatsNothing, Increasing, Earlier
<1> QED BY <1>1, <1>2, <1>3, PTL DEF Spec

===============================================================================
