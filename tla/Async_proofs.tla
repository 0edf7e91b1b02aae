---------------------------- MODULE Async_proofs ----------------------------
(***************************************************************************)
(* Proofs about fully asynchronous training, for any numbers of samples,   *)
(* batches, concurrent tasks, failures and crashes and any queue sizes.    *)
(***************************************************************************)
EXTENDS AsyncTraining, FiniteSetTheorems, TLAPS

-----------------------------------------------------------------------------
(* The lock.                                                               *)

Users == {"proc", "monitor", "sync"}

\* Who holds the lock or waits for it.
Wanting ==
    (IF proc.at \in {"hold", "wait"} THEN {"proc"} ELSE {})
      \cup (IF monitor = "hold" THEN {"monitor"} ELSE {})
      \cup (IF sync.at \in {"pause", "gather", "update", "size", "resume"} THEN {"sync"} ELSE {})

\* Nobody is in the line twice, and only who wants the lock is.
Line ==
    /\ lock \in Users \cup {"free"} /\ waiters \in Seq(Users)
    /\ lock = "free" => waiters = <<>>
    /\ lock # "free" => lock \in Wanting
    /\ \A i \in 1..Len(waiters) : waiters[i] \in Wanting /\ waiters[i] # lock
    /\ \A i, j \in 1..Len(waiters) : i # j => waiters[i] # waiters[j]

\* A user that sleeps with the lock in its hand.
Holding ==
    /\ proc.at = "wait" => lock = "proc"
    /\ sync.at \in {"gather", "size"} => lock = "sync"

LEMMA LineShort ==
    ASSUME NEW who \in Users \cup {"free"}, NEW ws \in Seq(Users), who = "free" => ws = <<>>,
           \A i \in 1..Len(ws) : ws[i] # who,
           \A i, j \in 1..Len(ws) : i # j => ws[i] # ws[j]
    PROVE Len(ws) <= 2
<1>1. ASSUME Len(ws) >= 3 PROVE FALSE
  <2>1. 1 \in 1..Len(ws) /\ 2 \in 1..Len(ws) /\ 3 \in 1..Len(ws)
    BY <1>1
  <2>2. ws[1] \in Users /\ ws[2] \in Users /\ ws[3] \in Users /\ who \in Users
    BY <2>1, <1>1
  <2> QED BY <2>1, <2>2 DEF Users
<1> QED BY <1>1

LEMMA AcquireLine ==
    ASSUME Line, NEW u \in Users, u \notin Wanting, Wanting' = Wanting \cup {u}, Acquire(u)
    PROVE Line'
<1>1. CASE lock = "free"
    BY <1>1 DEF Line, Acquire, Users
<1>2. CASE lock # "free"
  <2>1. waiters' = Append(waiters, u) /\ lock' = lock
    BY <1>2 DEF Acquire
  <2> QED BY <1>2, <2>1 DEF Line
<1> QED BY <1>1, <1>2

LEMMA ReleaseLine ==
    ASSUME Line, lock # "free", Wanting' = Wanting \ {lock}, Release
    PROVE Line'
<1>1. CASE waiters = <<>>
    BY <1>1 DEF Line, Release, Users
<1>2. CASE waiters # <<>>
  <2>1. waiters' = Tail(waiters) /\ lock' = Head(waiters)
    BY <1>2 DEF Release
  <2>2. /\ Len(waiters) \in Nat \ {0} /\ lock' = waiters[1] /\ lock' \in Users
        /\ waiters' \in Seq(Users) /\ Len(waiters') = Len(waiters) - 1
        /\ \A i \in 1..Len(waiters') : waiters'[i] = waiters[i + 1]
    BY <1>2, <2>1 DEF Line
  <2> QED BY <2>2 DEF Line, Users
<1> QED BY <1>1, <1>2

LEMMA KeepLine ==
    ASSUME Line, UNCHANGED <<lock, waiters>>, Wanting' = Wanting
    PROVE Line'
BY DEF Line

LEMMA LineStep ==
    ASSUME TypeOK, Line, Holding, [Next]_vars
    PROVE Line' /\ Holding'
<1>0. /\ proc = [at |-> proc.at, goal |-> proc.goal, hand |-> proc.hand]
      /\ sync = [at |-> sync.at, version |-> sync.version, seen |-> sync.seen]
  BY DEF TypeOK
<1> USE <1>0
<1>1. CASE Feed \/ CloseFeed \/ Collect \/ Train \/ Synchronized \/ Save \/ Finish \/ UNCHANGED vars
  BY <1>1, KeepLine DEF Feed, CloseFeed, Collect, Train, Synchronized, Save, Finish, vars, loopVars,
     Wanting, Holding
<1>2. CASE \E t \in active : Complete(t) \/ Interrupt(t) \/ Fail(t)
  BY <1>2, KeepLine DEF Complete, Interrupt, Fail, Wanting, Holding
<1>3. CASE ProcTop
  <2>1. CASE paused \/ ShouldPause
    <3>1. proc.at = "top" /\ proc'.at = "hold" /\ Acquire("proc") /\ UNCHANGED <<monitor, sync>>
      BY <1>3, <2>1 DEF ProcTop, Want
    <3> QED BY <3>1, AcquireLine DEF Wanting, Holding, Users, Acquire
  <2>2. CASE ~(paused \/ ShouldPause)
    <3>1. proc.at = "top" /\ proc'.at \in {"check", "get"} /\ UNCHANGED <<lock, waiters, monitor, sync>>
      BY <1>3, <2>2 DEF ProcTop, TakePending
    <3> QED BY <3>1, KeepLine DEF Wanting, Holding
  <2> QED BY <2>1, <2>2
<1>4. CASE ProcGet
  <2>1. proc.at = "get" /\ proc'.at = "check" /\ UNCHANGED <<lock, waiters, monitor, sync>>
    BY <1>4 DEF ProcGet, TakePending
  <2> QED BY <2>1, KeepLine DEF Wanting, Holding
<1>5. CASE ProcCheck
  <2>1. proc.at = "check" /\ UNCHANGED <<monitor, sync>>
    BY <1>5 DEF ProcCheck
  <2>2. \/ proc'.at = "hold" /\ Acquire("proc")
        \/ proc'.at = "end" /\ UNCHANGED <<lock, waiters>>
    BY <1>5 DEF ProcCheck, Want
  <2>3. CASE proc'.at = "hold" /\ Acquire("proc")
    BY <2>1, <2>3, AcquireLine DEF Wanting, Holding, Users, Acquire
  <2>4. CASE proc'.at = "end" /\ UNCHANGED <<lock, waiters>>
    BY <2>1, <2>4, KeepLine DEF Wanting, Holding
  <2> QED BY <2>2, <2>3, <2>4
<1>6. CASE ProcNotified
  <2>1. proc.at = "notified" /\ proc'.at = "hold" /\ Acquire("proc") /\ UNCHANGED <<monitor, sync>>
    BY <1>6 DEF ProcNotified, Want
  <2> QED BY <2>1, AcquireLine DEF Wanting, Holding, Users, Acquire
<1>7. CASE EndStream
  <2>1. proc.at \in {"end", "dead"} /\ proc'.at = "over" /\ UNCHANGED <<lock, waiters, monitor, sync>>
    BY <1>7 DEF EndStream
  <2> QED BY <2>1, KeepLine DEF Wanting, Holding
<1>8. CASE ProcPause \/ ProcResume \/ ProcSubmit \/ ProcAwaited \/ (ProcAwait /\ active = {})
  <2>1. /\ proc.at \in {"hold", "wait"} /\ lock = "proc" /\ Release /\ UNCHANGED <<monitor, sync>>
        /\ proc'.at \in {"check", "cond", "top", "dead"}
    BY <1>8 DEF ProcPause, ProcResume, ProcSubmit, ProcAwaited, ProcAwait, Holding
  <2> QED BY <2>1, ReleaseLine DEF Wanting, Holding
<1>9. CASE ProcAwait /\ active # {}
  <2>1. proc.at = "hold" /\ lock = "proc" /\ proc'.at = "wait" /\ UNCHANGED <<lock, waiters, monitor, sync>>
    BY <1>9 DEF ProcAwait
  <2> QED BY <2>1, KeepLine DEF Wanting, Holding
<1>10. CASE MonitorCheck
  <2>1. monitor = "sleep" /\ monitor' = "hold" /\ Acquire("monitor") /\ UNCHANGED <<proc, sync>>
    BY <1>10 DEF MonitorCheck
  <2> QED BY <2>1, AcquireLine DEF Wanting, Holding, Users, Acquire
<1>11. CASE MonitorUnpause
  <2>1. /\ monitor = "hold" /\ lock = "monitor" /\ monitor' = "sleep" /\ Release /\ sync' = sync
        /\ proc'.at = IF proc.at = "cond" THEN "notified" ELSE proc.at
    BY <1>11 DEF MonitorUnpause, Notify
  <2> QED BY <2>1, ReleaseLine DEF Wanting, Holding
<1>12. CASE PauseRollout \/ UpdateVersion
  BY <1>12, KeepLine DEF PauseRollout, UpdateVersion, Wanting, Holding
<1>13. CASE PausedRollout \/ UpdateStaleness
  <2>1. /\ sync.at \in {"gather", "size"} /\ sync'.at \in {"weights", "updated"} /\ Release
        /\ UNCHANGED <<proc, monitor>>
    BY <1>13 DEF PausedRollout, UpdateStaleness
  <2> QED BY <2>1, ReleaseLine DEF Wanting, Holding
<1>14. CASE ResumeRollout
  <2>1. /\ sync.at = "resume" /\ lock = "sync" /\ sync'.at = "idle" /\ Release /\ monitor' = monitor
        /\ proc'.at = IF proc.at = "cond" THEN "notified" ELSE proc.at
    BY <1>14 DEF ResumeRollout, Notify
  <2> QED BY <2>1, ReleaseLine DEF Wanting, Holding
<1>15. CASE TransferWeights \/ AskResume \/ Synchronize
  <2>1. /\ sync.at \in {"weights", "updated", "idle"} /\ sync'.at \in {"update", "resume", "pause"}
        /\ Acquire("sync") /\ UNCHANGED <<proc, monitor>>
    BY <1>15 DEF TransferWeights, AskResume, Synchronize, StartSync
  <2> QED BY <2>1, AcquireLine DEF Wanting, Holding, Users, Acquire
<1>16. CASE Crash
  BY <1>16 DEF Crash, Fresh, Line, Holding, Users, Wanting
<1> QED BY <1>1, <1>2, <1>3, <1>4, <1>5, <1>6, <1>7, <1>8, <1>9, <1>10, <1>11, <1>12, <1>13, <1>14,
           <1>15, <1>16 DEF Next, Processor, Monitor, Synchronizer, Trainer, Terminated

-----------------------------------------------------------------------------
(* Which actions change what.                                              *)

Tasks == \E t \in active : Complete(t) \/ Interrupt(t) \/ Fail(t)

LEMMA FeederFrame ==
    ASSUME [Next]_vars, ~Feed, ~CloseFeed, ~Crash
    PROVE feeder' = feeder
BY DEF Next, Feed, CloseFeed, Processor, ProcTop, ProcGet, ProcCheck, ProcPause, ProcResume,
   ProcSubmit, ProcAwait, ProcAwaited, ProcNotified, EndStream, Tasks, Complete, Interrupt, Fail,
   Monitor, MonitorCheck, MonitorUnpause, Synchronizer, PauseRollout, PausedRollout,
   TransferWeights, UpdateVersion, UpdateStaleness, AskResume, ResumeRollout, Trainer, Collect,
   Train, Synchronize, Synchronized, Save, Finish, Terminated, vars, loopVars

LEMMA PendingFrame ==
    ASSUME [Next]_vars, ~Feed, ~CloseFeed, ~ProcTop, ~ProcGet, ~Crash
    PROVE pending' = pending
BY DEF Next, Feed, CloseFeed, Processor, ProcTop, ProcGet, ProcCheck, ProcPause, ProcResume,
   ProcSubmit, ProcAwait, ProcAwaited, ProcNotified, EndStream, Tasks, Complete, Interrupt, Fail,
   Monitor, MonitorCheck, MonitorUnpause, Synchronizer, PauseRollout, PausedRollout,
   TransferWeights, UpdateVersion, UpdateStaleness, AskResume, ResumeRollout, Trainer, Collect,
   Train, Synchronize, Synchronized, Save, Finish, Terminated, vars, loopVars

LEMMA ProcFrame ==
    ASSUME [Next]_vars, ~Processor, ~MonitorUnpause, ~ResumeRollout, ~Crash
    PROVE proc' = proc
BY DEF Next, Feed, CloseFeed, Processor, ProcTop, ProcGet, ProcCheck, ProcPause, ProcResume,
   ProcSubmit, ProcAwait, ProcAwaited, ProcNotified, EndStream, Tasks, Complete, Interrupt, Fail,
   Monitor, MonitorCheck, MonitorUnpause, Synchronizer, PauseRollout, PausedRollout,
   TransferWeights, UpdateVersion, UpdateStaleness, AskResume, ResumeRollout, Trainer, Collect,
   Train, Synchronize, Synchronized, Save, Finish, Terminated, vars, loopVars

LEMMA ActiveFrame ==
    ASSUME [Next]_vars, ~ProcSubmit, ~ProcAwaited, ~PausedRollout, ~Tasks, ~Crash
    PROVE active' = active
BY DEF Next, Feed, CloseFeed, Processor, ProcTop, ProcGet, ProcCheck, ProcPause, ProcResume,
   ProcSubmit, ProcAwait, ProcAwaited, ProcNotified, EndStream, Tasks, Complete, Interrupt, Fail,
   Monitor, MonitorCheck, MonitorUnpause, Synchronizer, PauseRollout, PausedRollout,
   TransferWeights, UpdateVersion, UpdateStaleness, AskResume, ResumeRollout, Trainer, Collect,
   Train, Synchronize, Synchronized, Save, Finish, Terminated, vars, loopVars

LEMMA CancelFrame ==
    ASSUME [Next]_vars, ~ProcTop, \A t \in active : ~Interrupt(t), ~Crash
    PROVE cancelQ' = cancelQ
BY DEF Next, Feed, CloseFeed, Processor, ProcTop, ProcGet, ProcCheck, ProcPause, ProcResume,
   ProcSubmit, ProcAwait, ProcAwaited, ProcNotified, EndStream, Tasks, Complete, Interrupt, Fail,
   Monitor, MonitorCheck, MonitorUnpause, Synchronizer, PauseRollout, PausedRollout,
   TransferWeights, UpdateVersion, UpdateStaleness, AskResume, ResumeRollout, Trainer, Collect,
   Train, Synchronize, Synchronized, Save, Finish, Terminated, vars, loopVars

LEMMA QueueFrame ==
    ASSUME [Next]_vars, ~EndStream, \A t \in active : ~Complete(t), ~Collect, ~Crash
    PROVE mq' = mq
BY DEF Next, Feed, CloseFeed, Processor, ProcTop, ProcGet, ProcCheck, ProcPause, ProcResume,
   ProcSubmit, ProcAwait, ProcAwaited, ProcNotified, EndStream, Tasks, Complete, Interrupt, Fail,
   Monitor, MonitorCheck, MonitorUnpause, Synchronizer, PauseRollout, PausedRollout,
   TransferWeights, UpdateVersion, UpdateStaleness, AskResume, ResumeRollout, Trainer, Collect,
   Train, Synchronize, Synchronized, Save, Finish, Terminated, vars, loopVars

LEMMA LostFrame ==
    ASSUME [Next]_vars, ~EndStream, \A t \in active : ~Complete(t) /\ ~Fail(t), ~Crash
    PROVE lost' = lost
BY DEF Next, Feed, CloseFeed, Processor, ProcTop, ProcGet, ProcCheck, ProcPause, ProcResume,
   ProcSubmit, ProcAwait, ProcAwaited, ProcNotified, EndStream, Tasks, Complete, Interrupt, Fail,
   Monitor, MonitorCheck, MonitorUnpause, Synchronizer, PauseRollout, PausedRollout,
   TransferWeights, UpdateVersion, UpdateStaleness, AskResume, ResumeRollout, Trainer, Collect,
   Train, Synchronize, Synchronized, Save, Finish, Terminated, vars, loopVars

LEMMA SyncFrame ==
    ASSUME [Next]_vars, ~Synchronizer, ~Synchronize, ~Crash
    PROVE sync' = sync
BY DEF Next, Feed, CloseFeed, Processor, ProcTop, ProcGet, ProcCheck, ProcPause, ProcResume,
   ProcSubmit, ProcAwait, ProcAwaited, ProcNotified, EndStream, Tasks, Complete, Interrupt, Fail,
   Monitor, MonitorCheck, MonitorUnpause, Synchronizer, PauseRollout, PausedRollout,
   TransferWeights, UpdateVersion, UpdateStaleness, AskResume, ResumeRollout, Trainer, Collect,
   Train, Synchronize, Synchronized, Save, Finish, Terminated, vars, loopVars

LEMMA TrainerFrame ==
    ASSUME [Next]_vars, ~Trainer, ~Crash
    PROVE UNCHANGED <<tr, trained, ckpt>>
BY DEF Next, Feed, CloseFeed, Processor, ProcTop, ProcGet, ProcCheck, ProcPause, ProcResume,
   ProcSubmit, ProcAwait, ProcAwaited, ProcNotified, EndStream, Tasks, Complete, Interrupt, Fail,
   Monitor, MonitorCheck, MonitorUnpause, Synchronizer, PauseRollout, PausedRollout,
   TransferWeights, UpdateVersion, UpdateStaleness, AskResume, ResumeRollout, Trainer, Collect,
   Train, Synchronize, Synchronized, Save, Finish, Terminated, vars, loopVars

LEMMA StalenessFrame ==
    ASSUME [Next]_vars, ~ProcTop, ~ProcGet, ~UpdateStaleness, ~Crash
    PROVE staleness' = staleness
BY DEF Next, Feed, CloseFeed, Processor, ProcTop, ProcGet, ProcCheck, ProcPause, ProcResume,
   ProcSubmit, ProcAwait, ProcAwaited, ProcNotified, EndStream, Tasks, Complete, Interrupt, Fail,
   Monitor, MonitorCheck, MonitorUnpause, Synchronizer, PauseRollout, PausedRollout,
   TransferWeights, UpdateVersion, UpdateStaleness, AskResume, ResumeRollout, Trainer, Collect,
   Train, Synchronize, Synchronized, Save, Finish, Terminated, vars, loopVars

-----------------------------------------------------------------------------
(* Types.                                                                  *)

FlagTypes ==
    /\ partial \in BOOLEAN /\ waited \in BOOLEAN /\ paused \in BOOLEAN
    /\ trigger \in BOOLEAN /\ stopped \in BOOLEAN /\ monitor \in {"sleep", "hold"}

CountTypes ==
    /\ staleness \in Nat /\ version \in Nat /\ weights \in Nat
    /\ failures \in Nat /\ crashes \in Nat

FeedTypes ==
    /\ feeder \in [at : {"put", "close", "closed"}, pos : Nat, gsteps : Nat]
    /\ pending \in Seq(Nat) /\ Len(pending) <= PendingMax

ProcTypes ==
    proc \in [at : {"top", "get", "check", "hold", "wait", "cond", "notified", "end", "dead", "over"},
              goal : {"pause", "drain", "resume", "limit", "submit", "done"},
              hand : SampleType]

TaskType == [sample : SampleType, born : BOOLEAN, st : {"running", "done", "failed"}]

TaskTypes ==
    /\ active \subseteq TaskType /\ IsFiniteSet(active)
    /\ \A t \in active : t.sample.start \in Nat
    /\ cancelQ \in Seq(SampleType)

QueueTypes ==
    /\ mq \in Seq(SampleType) /\ Len(mq) <= MaxRequired
    /\ lost \subseteq Nat \X {"evicted", "failed", "resumed"}

SyncTypes ==
    sync \in [at : {"idle", "pause", "gather", "weights", "update", "size", "updated", "resume"},
              version : Nat, seen : Nat]

\* The trainer's types, and the batch under way: it is given up only with the
\* stream.
TrainTypes ==
    /\ tr \in [at : {"collect", "train", "last", "sync", "save", "final", "done"},
               got : Seq(SampleType), local : 1..Trigger, version : Nat, saved : Nat,
               closing : BOOLEAN]
    /\ Len(tr.got) <= Required
    /\ trained \subseteq Nat
    /\ ckpt \in [version : Nat, pos : Nat, trained : SUBSET Nat]
    /\ tr.at = "collect" => Len(tr.got) < Required
    /\ tr.at = "train" => Len(tr.got) = Required
    /\ tr.at \in {"last", "sync", "save"} /\ ~tr.closing => tr.got = <<>>
    /\ tr.at \in {"collect", "train", "final"} => ~tr.closing

\* The inductive strengthening of TypeOK.
TypeInv ==
    /\ Line /\ Holding
    /\ FlagTypes /\ CountTypes /\ FeedTypes /\ ProcTypes /\ TaskTypes /\ QueueTypes
    /\ SyncTypes /\ TrainTypes

LEMMA Constants ==
    ASSUME AsyncAssumption
    PROVE /\ Total \in Nat \ {0} /\ Required \in Nat \ {0} /\ Trigger \in Nat \ {0}
          /\ PendingMax \in Nat \ {0} /\ MaxRequired \in Nat \ {0} /\ MaxConcurrent \in Nat \ {0}
          /\ PartialModes \subseteq BOOLEAN
BY DEF AsyncAssumption

LEMMA TypeFollows == TypeInv => TypeOK
<1> SUFFICES ASSUME TypeInv PROVE TypeOK
  OBVIOUS
<1>1. lock \in {"free", "proc", "monitor", "sync"} /\ waiters \in Seq({"proc", "monitor", "sync"})
      /\ Len(waiters) <= 2
  BY LineShort DEF TypeInv, Line, Users
<1>2. /\ {paused, trigger, stopped} \subseteq BOOLEAN
      /\ {staleness, version, weights, failures, crashes} \subseteq Nat
  BY DEF TypeInv, FlagTypes, CountTypes
<1>3. active \subseteq [sample : SampleType, born : BOOLEAN, st : {"running", "done", "failed"}]
  BY DEF TypeInv, TaskTypes, TaskType
<1> QED BY <1>1, <1>2, <1>3, Zenon DEF TypeInv, FlagTypes, CountTypes, FeedTypes, ProcTypes, TaskTypes, QueueTypes,
       SyncTypes, TrainTypes, TypeOK

\* What a start finds is well typed.
LEMMA FreshTypes ==
    ASSUME AsyncAssumption,
           NEW ck \in [version : Nat, pos : Nat, trained : SUBSET Nat]
    PROVE /\ Fresh(ck).feeder \in [at : {"put", "close", "closed"}, pos : Nat, gsteps : Nat]
          /\ Fresh(ck).feeder.at = "put" /\ Fresh(ck).feeder.pos = ck.pos + 1
          /\ Fresh(ck).proc = [at |-> "top", goal |-> "pause", hand |-> Nothing]
          /\ Fresh(ck).sync = [at |-> "idle", version |-> ck.version, seen |-> 0]
          /\ Fresh(ck).tr = [at |-> "collect", got |-> <<>>, local |-> 1, version |-> ck.version,
                             saved |-> ck.version, closing |-> FALSE]
<1>1. ck.version * Required \in Nat
  BY Constants
<1>2. ck.version * Required * Trigger \in Nat
  BY <1>1, Constants
<1> QED BY <1>2 DEF Fresh, FirstPos

LEMMA NothingTypes == Nothing \in SampleType /\ Nothing.id = DONE /\ DONE \in Nat
BY DEF Nothing, Sample, SampleType, DONE, NoVersion

LEMMA TypeInit == ASSUME AsyncAssumption, Init PROVE TypeInv
<1>1. /\ NoCkpt \in [version : Nat, pos : Nat, trained : SUBSET Nat]
      /\ NoCkpt.version = 0
  BY DEF NoCkpt
<1>2. FeedTypes
  <2>1. feeder = Fresh(NoCkpt).feeder /\ pending = <<>>
    BY DEF Init
  <2>2. <<>> \in Seq(Nat) /\ Len(<<>>) <= PendingMax
    BY Constants
  <2> QED BY <1>1, <2>1, <2>2, FreshTypes DEF FeedTypes
<1>3. /\ proc = [at |-> "top", goal |-> "pause", hand |-> Nothing]
      /\ sync = [at |-> "idle", version |-> 0, seen |-> 0]
      /\ tr = [at |-> "collect", got |-> <<>>, local |-> 1, version |-> 0,
               saved |-> 0, closing |-> FALSE]
  BY <1>1, FreshTypes DEF Init
<1>4. FlagTypes /\ CountTypes
  BY Constants DEF Init, FlagTypes, CountTypes
<1>5. ProcTypes /\ SyncTypes
  BY <1>3, NothingTypes DEF ProcTypes, SyncTypes
<1>6. TaskTypes /\ QueueTypes
  BY FS_EmptySet, Constants DEF Init, TaskTypes, QueueTypes
<1>7. TrainTypes
  BY <1>1, <1>3, Constants DEF Init, TrainTypes
<1>8. Line /\ Holding
  BY <1>3 DEF Init, Line, Holding, Users, Wanting
<1> QED BY <1>2, <1>4, <1>5, <1>6, <1>7, <1>8 DEF TypeInv

LEMMA TypeCrash == ASSUME AsyncAssumption, TypeInv, Crash PROVE TypeInv'
<1>1. ckpt \in [version : Nat, pos : Nat, trained : SUBSET Nat] /\ ckpt' = ckpt
  BY DEF TypeInv, TrainTypes, Crash
<1>2. FeedTypes'
  <2>1. feeder' = Fresh(ckpt).feeder /\ pending' = <<>>
    BY DEF Crash
  <2>2. <<>> \in Seq(Nat) /\ Len(<<>>) <= PendingMax
    BY Constants
  <2> QED BY <1>1, <2>1, <2>2, FreshTypes DEF FeedTypes
<1>3. /\ proc' = [at |-> "top", goal |-> "pause", hand |-> Nothing]
      /\ sync' = [at |-> "idle", version |-> ckpt.version, seen |-> 0]
      /\ tr' = [at |-> "collect", got |-> <<>>, local |-> 1, version |-> ckpt.version,
                saved |-> ckpt.version, closing |-> FALSE]
  BY <1>1, FreshTypes DEF Crash
<1>4. FlagTypes' /\ CountTypes'
  <2>1. /\ partial' = partial /\ waited' = FALSE /\ paused' = FALSE /\ trigger' = TRUE
        /\ stopped' = FALSE /\ monitor' = "sleep"
    BY DEF Crash
  <2>2. /\ staleness' = 0 /\ version' = ckpt.version /\ weights' = ckpt.version
        /\ failures' = failures /\ crashes' = crashes + 1
    BY DEF Crash
  <2>3. partial \in BOOLEAN
    BY DEF TypeInv, FlagTypes
  <2>4. failures \in Nat /\ crashes \in Nat /\ ckpt.version \in Nat
    BY <1>1 DEF TypeInv, CountTypes
  <2>5. FlagTypes'
    BY <2>1, <2>3, Zenon DEF FlagTypes
  <2>6. CountTypes'
    BY <2>2, <2>4 DEF CountTypes
  <2> QED BY <2>5, <2>6
<1>5. ProcTypes' /\ SyncTypes'
  BY <1>1, <1>3, NothingTypes DEF ProcTypes, SyncTypes
<1>6. TaskTypes' /\ QueueTypes'
  BY <1>1, FS_EmptySet, Constants DEF Crash, TaskTypes, QueueTypes
<1>7. TrainTypes'
  BY <1>1, <1>3, Constants DEF Crash, TrainTypes
<1>8. Line' /\ Holding'
  BY DEF Crash, Fresh, Line, Holding, Users, Wanting
<1> QED BY <1>2, <1>4, <1>5, <1>6, <1>7, <1>8 DEF TypeInv

LEMMA SampleTypes ==
    /\ \A i \in Nat : Sample(i) \in SampleType
    /\ \A s \in SampleType, v \in Nat : [s EXCEPT !.stamp = v] \in SampleType
    /\ \A s \in SampleType : version \in Nat =>
         [s EXCEPT !.start = IF @ = NoVersion THEN version ELSE @] \in SampleType
BY DEF Sample, SampleType, NoVersion

LEMMA FlagStep ==
    ASSUME TypeInv, [Next]_vars, ~Crash
    PROVE FlagTypes'
<1>1. FlagTypes
  BY DEF TypeInv
<1>2. /\ partial' = partial
      /\ waited' = waited \/ waited' = TRUE
      /\ trigger' = trigger \/ trigger' = TRUE \/ trigger' = FALSE
  BY DEF Next, Feed, CloseFeed, Processor, ProcTop, ProcGet, ProcCheck, ProcPause,
   ProcResume, ProcSubmit, ProcAwait, ProcAwaited, ProcNotified, EndStream, Complete, Interrupt,
   Fail, Monitor, MonitorCheck, MonitorUnpause, Synchronizer, PauseRollout, PausedRollout,
   TransferWeights, UpdateVersion, UpdateStaleness, AskResume, ResumeRollout, Trainer, Collect,
   Train, Synchronize, Synchronized, Save, Finish, Terminated, vars, loopVars
<1>3. /\ paused' = paused \/ paused' = TRUE \/ paused' = FALSE
      /\ stopped' = stopped \/ stopped' = partial \/ stopped' = FALSE
      /\ monitor' = monitor \/ monitor' = "sleep" \/ monitor' = "hold"
  BY DEF Next, Feed, CloseFeed, Processor, ProcTop, ProcGet, ProcCheck, ProcPause,
   ProcResume, ProcSubmit, ProcAwait, ProcAwaited, ProcNotified, EndStream, Complete, Interrupt,
   Fail, Monitor, MonitorCheck, MonitorUnpause, Synchronizer, PauseRollout, PausedRollout,
   TransferWeights, UpdateVersion, UpdateStaleness, AskResume, ResumeRollout, Trainer, Collect,
   Train, Synchronize, Synchronized, Save, Finish, Terminated, vars, loopVars
<1> QED BY <1>1, <1>2, <1>3, Zenon DEF FlagTypes

LEMMA CountStep ==
    ASSUME TypeInv, [Next]_vars, ~Crash
    PROVE CountTypes'
<1>1. CountTypes /\ sync.seen \in Nat /\ sync.version \in Nat /\ Len(mq) \in Nat
  BY DEF TypeInv, SyncTypes, QueueTypes
<1>2. staleness' \in {staleness, staleness + 1, sync.seen + Len(mq)}
  BY DEF Next, Feed, CloseFeed, Processor, ProcTop, TakePending, ProcGet, ProcCheck, ProcPause,
   ProcResume, ProcSubmit, ProcAwait, ProcAwaited, ProcNotified, EndStream, Complete, Interrupt,
   Fail, Monitor, MonitorCheck, MonitorUnpause, Synchronizer, PauseRollout, PausedRollout,
   TransferWeights, UpdateVersion, UpdateStaleness, AskResume, ResumeRollout, Trainer, Collect,
   Train, Synchronize, Synchronized, Save, Finish, Terminated, vars, loopVars
<1>3. /\ version' \in {version, sync.version} /\ weights' \in {weights, sync.version}
      /\ failures' \in {failures, failures + 1} /\ crashes' = crashes
  BY DEF Next, Feed, CloseFeed, Processor, ProcTop, ProcGet, ProcCheck, ProcPause,
   ProcResume, ProcSubmit, ProcAwait, ProcAwaited, ProcNotified, EndStream, Complete, Interrupt,
   Fail, Monitor, MonitorCheck, MonitorUnpause, Synchronizer, PauseRollout, PausedRollout,
   TransferWeights, UpdateVersion, UpdateStaleness, AskResume, ResumeRollout, Trainer, Collect,
   Train, Synchronize, Synchronized, Save, Finish, Terminated, vars, loopVars
<1> QED BY <1>1, <1>2, <1>3 DEF CountTypes

LEMMA FeedStep ==
    ASSUME AsyncAssumption, TypeInv, [Next]_vars, ~Crash
    PROVE FeedTypes'
<1>1. FeedTypes /\ DONE \in Nat
  BY NothingTypes DEF TypeInv
<1>2. CASE Feed \/ CloseFeed
  <2>1. feeder' \in [at : {"put", "close", "closed"}, pos : Nat, gsteps : Nat]
    <3>1. \/ feeder' = [feeder EXCEPT !.at = "close"]
          \/ feeder' = [feeder EXCEPT !.pos = feeder.pos + 1, !.gsteps = feeder.gsteps + 1]
          \/ feeder' = [feeder EXCEPT !.at = "closed"]
      BY <1>2 DEF Feed, CloseFeed
    <3>2. CASE feeder' = [feeder EXCEPT !.at = "close"]
      BY <1>1, <3>2 DEF FeedTypes
    <3>3. CASE feeder' = [feeder EXCEPT !.pos = feeder.pos + 1, !.gsteps = feeder.gsteps + 1]
      <4>1. feeder' = [at |-> feeder.at, pos |-> feeder.pos + 1, gsteps |-> feeder.gsteps + 1]
        BY <1>1, <3>3 DEF FeedTypes
      <4>2. feeder.pos + 1 \in Nat /\ feeder.gsteps + 1 \in Nat /\ feeder.at \in {"put", "close", "closed"}
        BY <1>1 DEF FeedTypes
      <4> QED BY <4>1, <4>2
    <3>4. CASE feeder' = [feeder EXCEPT !.at = "closed"]
      BY <1>1, <3>4 DEF FeedTypes
    <3> QED BY <3>1, <3>2, <3>3, <3>4
  <2>2. \E i \in Nat : pending' = Append(pending, i) /\ Len(pending) < PendingMax
    BY <1>1, <1>2 DEF Feed, CloseFeed, FeedTypes
  <2> QED BY <1>1, <2>1, <2>2, Constants DEF FeedTypes
<1>3. CASE (ProcTop \/ ProcGet) /\ pending' # pending
  <2>1. pending # <<>> /\ pending' = Tail(pending) /\ feeder' = feeder
    BY <1>3 DEF ProcTop, ProcGet, TakePending
  <2>2. pending \in Seq(Nat) /\ Len(pending) <= PendingMax
    BY <1>1 DEF FeedTypes
  <2>3. pending' \in Seq(Nat) /\ Len(pending') = Len(pending) - 1
    BY <2>1, <2>2
  <2>4. Len(pending') <= PendingMax
    BY <2>2, <2>3, Constants
  <2> QED BY <1>1, <2>1, <2>3, <2>4 DEF FeedTypes
<1>4. CASE ~Feed /\ ~CloseFeed /\ pending' = pending
  BY <1>1, <1>4, FeederFrame DEF FeedTypes
<1> QED BY <1>2, <1>3, <1>4, PendingFrame

LEMMA ProcStep ==
    ASSUME TypeInv, [Next]_vars, ~Crash
    PROVE ProcTypes'
<1>1. /\ ProcTypes /\ pending \in Seq(Nat) /\ cancelQ \in Seq(SampleType)
      /\ proc.at \in {"top", "get", "check", "hold", "wait", "cond", "notified", "end", "dead", "over"}
      /\ proc.goal \in {"pause", "drain", "resume", "limit", "submit", "done"}
      /\ proc.hand \in SampleType
  BY DEF TypeInv, FeedTypes, TaskTypes, ProcTypes
<1>2. ASSUME pending # <<>>, TakePending PROVE ProcTypes'
  <2>1. Head(pending) \in Nat
    BY <1>1, <1>2
  <2>2. Sample(Head(pending)) \in SampleType
    BY <2>1, SampleTypes
  <2> QED BY <1>2, <2>2, NothingTypes DEF TakePending, ProcTypes
<1>3. CASE ProcTop
  <2>1. CASE cancelQ # <<>>
    <3>1. Head(cancelQ) \in SampleType
      BY <1>1, <2>1
    <3> QED BY <1>1, <1>3, <2>1, <3>1, NothingTypes DEF ProcTop, Want, ProcTypes
  <2>2. CASE cancelQ = <<>> /\ pending = <<>>
    BY <1>1, <1>3, <2>2, NothingTypes DEF ProcTop, Want, ProcTypes
  <2>3. CASE cancelQ = <<>> /\ pending # <<>>
    <3>1. TakePending \/ Want("pause", Nothing)
      BY <1>3, <2>3 DEF ProcTop
    <3> QED BY <1>2, <2>3, <3>1, NothingTypes DEF Want, ProcTypes
  <2> QED BY <2>1, <2>2, <2>3
<1>4. CASE ProcGet
  BY <1>2, <1>4 DEF ProcGet
<1>5. CASE ProcCheck \/ ProcNotified
  BY <1>1, <1>5, NothingTypes DEF ProcCheck, ProcNotified, Want, ProcTypes
<1>6. CASE ProcPause \/ ProcResume \/ ProcSubmit \/ ProcAwait \/ ProcAwaited \/ EndStream
           \/ MonitorUnpause \/ ResumeRollout
  BY <1>1, <1>6, NothingTypes DEF ProcPause, ProcResume, ProcSubmit, ProcAwait, ProcAwaited, EndStream,
     MonitorUnpause, ResumeRollout, Notify, ProcTypes
<1> QED BY <1>1, <1>3, <1>4, <1>5, <1>6, ProcFrame DEF Processor, ProcTypes

LEMMA PutTypes ==
    ASSUME AsyncAssumption, QueueTypes, NEW s \in SampleType, Put(s)
    PROVE QueueTypes'
<1>1. mq \in Seq(SampleType) /\ Len(mq) <= MaxRequired /\ MaxRequired \in Nat \ {0}
  BY Constants DEF QueueTypes
<1>2. CASE Len(mq) >= MaxRequired
  <2>1. mq # <<>>
    BY <1>1, <1>2
  <2>2. Head(mq) \in SampleType /\ Tail(mq) \in Seq(SampleType) /\ Len(Tail(mq)) = Len(mq) - 1
    BY <1>1, <2>1
  <2>3. mq' = Append(Tail(mq), s) /\ lost' = lost \cup {<<Head(mq).id, "evicted">>}
    BY <1>2 DEF Put
  <2>4. mq' \in Seq(SampleType) /\ Len(mq') = Len(mq)
    BY <1>1, <2>2, <2>3
  <2>5. Head(mq).id \in Nat
    BY <2>2 DEF SampleType
  <2> QED BY <1>1, <2>3, <2>4, <2>5 DEF QueueTypes
<1>3. CASE ~(Len(mq) >= MaxRequired)
  <2>1. mq' = Append(mq, s) /\ lost' = lost
    BY <1>3 DEF Put
  <2>2. mq' \in Seq(SampleType) /\ Len(mq') = Len(mq) + 1
    BY <1>1, <2>1
  <2> QED BY <1>1, <1>3, <2>1, <2>2 DEF QueueTypes
<1> QED BY <1>2, <1>3

LEMMA QueueStep ==
    ASSUME AsyncAssumption, TypeInv, [Next]_vars, ~Crash
    PROVE QueueTypes'
<1>1. QueueTypes /\ version \in Nat /\ active \subseteq TaskType
  BY DEF TypeInv, CountTypes, TaskTypes
<1>2. CASE EndStream
  BY <1>1, <1>2, PutTypes, NothingTypes DEF EndStream, EndSignal
<1>3. ASSUME NEW t \in active, Complete(t) PROVE QueueTypes'
  <2>1. [t.sample EXCEPT !.stamp = version] \in SampleType
    BY <1>1, SampleTypes DEF TaskType
  <2> QED BY <1>1, <1>3, <2>1, PutTypes DEF Complete
<1>4. CASE Collect
  <2>1. mq # <<>> /\ mq' = Tail(mq) /\ lost' = lost
    BY <1>4 DEF Collect
  <2>2. mq \in Seq(SampleType) /\ Len(mq) <= MaxRequired
    BY <1>1 DEF QueueTypes
  <2>3. mq' \in Seq(SampleType) /\ Len(mq') = Len(mq) - 1
    BY <2>1, <2>2
  <2> QED BY <1>1, <2>1, <2>2, <2>3, Constants DEF QueueTypes
<1>5. ASSUME NEW t \in active, Fail(t) PROVE QueueTypes'
  <2>1. t.sample.id \in Nat
    BY <1>1 DEF TaskType, SampleType
  <2> QED BY <1>1, <1>5, <2>1 DEF Fail, QueueTypes
<1>6. CASE mq' = mq /\ lost' = lost
  BY <1>1, <1>6 DEF QueueTypes
<1>7. ~EndStream /\ (\A t \in active : ~Complete(t) /\ ~Fail(t)) /\ ~Collect => mq' = mq /\ lost' = lost
  BY QueueFrame, LostFrame
<1> QED BY <1>2, <1>3, <1>4, <1>5, <1>6, <1>7

LEMMA TaskStep ==
    ASSUME TypeInv, [Next]_vars, ~Crash
    PROVE TaskTypes'
<1>1. /\ active \subseteq TaskType /\ IsFiniteSet(active) /\ (\A t \in active : t.sample.start \in Nat)
      /\ cancelQ \in Seq(SampleType) /\ version \in Nat /\ stopped \in BOOLEAN /\ proc.hand \in SampleType
  BY DEF TypeInv, TaskTypes, CountTypes, FlagTypes, ProcTypes
<1>2. cancelQ' \in Seq(SampleType)
  <2>1. CASE ProcTop
    <3>1. cancelQ' = cancelQ \/ (cancelQ # <<>> /\ cancelQ' = Tail(cancelQ))
      BY <2>1 DEF ProcTop
    <3> QED BY <1>1, <3>1
  <2>2. ASSUME NEW t \in active, Interrupt(t) PROVE cancelQ' \in Seq(SampleType)
    <3>1. t.sample \in SampleType
      BY <1>1 DEF TaskType
    <3> QED BY <1>1, <2>2, <3>1 DEF Interrupt
  <2> QED BY <1>1, <2>1, <2>2, CancelFrame
<1>3. ASSUME active' \subseteq active PROVE TaskTypes'
  BY <1>1, <1>2, <1>3, FS_Subset DEF TaskTypes
<1>4. CASE ProcSubmit /\ active' # active
  <2>1. active' = active \cup {Task(proc.hand)}
    BY <1>4 DEF ProcSubmit
  <2>2. Task(proc.hand) \in TaskType /\ Task(proc.hand).sample.start \in Nat
    <3>1. proc.hand.start \in Nat \cup {NoVersion}
      BY <1>1 DEF SampleType
    <3>2. [proc.hand EXCEPT !.start = IF @ = NoVersion THEN version ELSE @] \in SampleType
      BY <1>1, SampleTypes
    <3>3. [proc.hand EXCEPT !.start = IF @ = NoVersion THEN version ELSE @].start \in Nat
      BY <1>1, <3>1 DEF SampleType, NoVersion
    <3> QED BY <1>1, <3>2, <3>3 DEF Task, TaskType
  <2> QED BY <1>1, <1>2, <2>1, <2>2, FS_AddElement DEF TaskTypes
<1>5. ASSUME NEW t \in active, NEW st \in {"done", "failed"}, EndTask(t, st) PROVE TaskTypes'
  <2>1. active' = (active \ {t}) \cup {[t EXCEPT !.st = st]}
    BY <1>5 DEF EndTask
  <2>2. [t EXCEPT !.st = st] \in TaskType /\ [t EXCEPT !.st = st].sample = t.sample
    BY <1>1 DEF TaskType
  <2>3. IsFiniteSet(active \ {t})
    BY <1>1, FS_RemoveElement
  <2> QED BY <1>1, <1>2, <2>1, <2>2, <2>3, FS_AddElement DEF TaskTypes
<1>6. CASE ProcAwaited \/ PausedRollout
  BY <1>3, <1>6 DEF ProcAwaited, PausedRollout
<1>7. CASE Tasks
  BY <1>5, <1>7 DEF Tasks, Complete, Interrupt, Fail
<1> QED BY <1>3, <1>4, <1>6, <1>7, ActiveFrame

LEMMA SyncStep ==
    ASSUME TypeInv, [Next]_vars, ~Crash
    PROVE SyncTypes'
<1>1. /\ SyncTypes /\ IsFiniteSet(active) /\ Len(cancelQ) \in Nat /\ tr.version \in Nat
  BY DEF TypeInv, TaskTypes, TrainTypes
<1>2. Cardinality(active) + Len(cancelQ) \in Nat
  BY <1>1, FS_CardinalityType
<1>3. ASSUME NEW at \in {"idle", "pause", "gather", "weights", "update", "size", "updated", "resume"},
             NEW v \in Nat, NEW n \in Nat,
             sync' = [at |-> at, version |-> v, seen |-> n]
      PROVE SyncTypes'
  BY <1>3 DEF SyncTypes
<1>4. ASSUME NEW at, NEW n,
             sync' = [sync EXCEPT !.at = at] \/ sync' = [sync EXCEPT !.at = at, !.seen = n]
      PROVE \E k \in {sync.seen, n} : sync' = [at |-> at, version |-> sync.version, seen |-> k]
  BY <1>1, <1>4 DEF SyncTypes
<1>5. sync.version \in Nat /\ sync.seen \in Nat
  BY <1>1 DEF SyncTypes
<1>6. CASE Synchronizer
  <2>1. \E at \in {"idle", "pause", "gather", "weights", "update", "size", "updated", "resume"},
           n \in {0, Cardinality(active) + Len(cancelQ)} :
           sync' = [sync EXCEPT !.at = at] \/ sync' = [sync EXCEPT !.at = at, !.seen = n]
    BY <1>6 DEF Synchronizer, PauseRollout, PausedRollout, TransferWeights, UpdateVersion,
       UpdateStaleness, AskResume, ResumeRollout
  <2>2. PICK at \in {"idle", "pause", "gather", "weights", "update", "size", "updated", "resume"},
             n \in {0, Cardinality(active) + Len(cancelQ)} :
             sync' = [sync EXCEPT !.at = at] \/ sync' = [sync EXCEPT !.at = at, !.seen = n]
    BY <2>1
  <2>3. PICK k \in {sync.seen, n} : sync' = [at |-> at, version |-> sync.version, seen |-> k]
    BY <1>4, <2>2, Zenon
  <2>4. k \in Nat
    BY <1>2, <1>5
  <2> QED BY <1>3, <1>5, <2>3, <2>4
<1>7. CASE Synchronize
  <2>1. sync' = [sync EXCEPT !.at = "pause", !.version = tr.version]
    BY <1>7 DEF Synchronize, StartSync
  <2>2. sync' = [at |-> "pause", version |-> tr.version, seen |-> sync.seen]
    BY <1>1, <2>1 DEF SyncTypes
  <2> QED BY <1>1, <1>3, <1>5, <2>2
<1> QED BY <1>1, <1>6, <1>7, SyncFrame DEF SyncTypes

LEMMA TrainRecord ==
    ASSUME AsyncAssumption,
           NEW at \in {"collect", "train", "last", "sync", "save", "final", "done"},
           NEW got \in Seq(SampleType), NEW local \in 1..Trigger, NEW v \in Nat,
           NEW saved \in Nat, NEW closing \in BOOLEAN,
           tr' = [at |-> at, got |-> got, local |-> local, version |-> v, saved |-> saved,
                  closing |-> closing],
           Len(got) <= Required, at = "collect" => Len(got) < Required,
           at = "train" => Len(got) = Required,
           at \in {"last", "sync", "save"} /\ ~closing => got = <<>>,
           at \in {"collect", "train", "final"} => ~closing,
           trained' \subseteq Nat, ckpt' \in [version : Nat, pos : Nat, trained : SUBSET Nat]
    PROVE  TrainTypes'
BY DEF TrainTypes

LEMMA TrainStep ==
    ASSUME AsyncAssumption, TypeInv, [Next]_vars, ~Crash
    PROVE TrainTypes'
<1>1. TrainTypes /\ QueueTypes /\ feeder.pos \in Nat
  BY DEF TypeInv, FeedTypes
<1>0. Required \in Nat /\ 1 <= Required /\ Trigger \in Nat /\ 1 <= Trigger
  BY Constants
<1> USE <1>0
<1>8. /\ tr.got \in Seq(SampleType) /\ tr.local \in 1..Trigger /\ tr.version \in Nat
      /\ tr.saved \in Nat /\ tr.closing \in BOOLEAN /\ Len(tr.got) <= Required
      /\ trained \subseteq Nat /\ ckpt \in [version : Nat, pos : Nat, trained : SUBSET Nat]
  BY <1>1 DEF TrainTypes
<1>9. /\ tr.version + 1 \in Nat /\ 1 \in 1..Trigger /\ 0 <= Required
      /\ tr.local >= Trigger \/ tr.local + 1 \in 1..Trigger
  <2>1. tr.local \in 1..Trigger /\ tr.version \in Nat
    BY <1>8
  <2> QED BY <2>1
<1>2. CASE Collect
  <2>1. mq \in Seq(SampleType) /\ mq # <<>> /\ tr.at = "collect" /\ tr.got \in Seq(SampleType)
    BY <1>1, <1>2 DEF Collect, TrainTypes, QueueTypes
  <2>2. Head(mq) \in SampleType
    BY <2>1
  <2>3. UNCHANGED <<trained, ckpt>> /\ ~tr.closing
    BY <1>1, <1>2, <2>1 DEF Collect, TrainTypes
  <2>4. CASE Head(mq) = EndSignal
    <3>1. tr' = [at |-> "final", got |-> tr.got, local |-> tr.local, version |-> tr.version,
                 saved |-> tr.saved, closing |-> tr.closing]
      BY <1>1, <1>2, <2>4 DEF Collect, TrainTypes
    <3> QED BY <1>1, <2>3, <3>1, TrainRecord DEF TrainTypes
  <2>5. CASE Head(mq) # EndSignal
    <3> DEFINE got == Append(tr.got, Head(mq))
               at == IF Len(tr.got) + 1 = Required THEN "train" ELSE "collect"
    <3>1. tr' = [tr EXCEPT !.got = got, !.at = IF Len(tr.got) + 1 = Required THEN "train" ELSE tr.at]
      BY <1>2, <2>5 DEF Collect
    <3>2. tr' = [at |-> at, got |-> got, local |-> tr.local, version |-> tr.version,
                 saved |-> tr.saved, closing |-> tr.closing]
      BY <1>1, <2>1, <3>1 DEF TrainTypes
    <3>3. got \in Seq(SampleType) /\ Len(got) = Len(tr.got) + 1
      BY <2>1, <2>2
    <3>4. Len(got) <= Required /\ (at = "train" <=> Len(got) = Required) /\ at \in {"train", "collect"}
      BY <1>1, <2>1, <3>3 DEF TrainTypes
    <3>5. at = "collect" => Len(got) < Required
      BY <3>3, <3>4
    <3>6. /\ tr.local \in 1..Trigger /\ tr.version \in Nat /\ tr.saved \in Nat /\ tr.closing \in BOOLEAN
          /\ trained \subseteq Nat /\ ckpt \in [version : Nat, pos : Nat, trained : SUBSET Nat]
      BY <1>1 DEF TrainTypes
    <3> HIDE DEF got, at
    <3>7. at = "collect" \/ at = "train"
      BY <3>4
    <3>8. tr' \in [at : {"collect", "train", "last", "sync", "save", "final", "done"},
                   got : Seq(SampleType), local : 1..Trigger, version : Nat, saved : Nat,
                   closing : BOOLEAN]
      BY <3>2, <3>3, <3>6, <3>7
    <3>9. tr'.at = at /\ tr'.got = got /\ tr'.closing = tr.closing
      BY <3>2
    <3> QED BY <2>3, <3>4, <3>5, <3>6, <3>7, <3>8, <3>9 DEF TrainTypes
  <2> QED BY <2>4, <2>5
<1>3. CASE Train
  <2>1. Ids(tr.got) \subseteq Nat
    <3>1. tr.got \in Seq(SampleType)
      BY <1>1 DEF TrainTypes
    <3>2. \A i \in DOMAIN tr.got : tr.got[i].id \in Nat
      <4>1. \A i \in DOMAIN tr.got : tr.got[i] \in SampleType
        BY <3>1
      <4> QED BY <4>1 DEF SampleType
    <3> QED BY <3>2 DEF Ids
  <2>3. /\ tr.at = "train" /\ trained' \subseteq Nat /\ ckpt' = ckpt
        /\ tr.saved \in Nat /\ ~tr.closing /\ tr.closing \in BOOLEAN
        /\ ckpt \in [version : Nat, pos : Nat, trained : SUBSET Nat]
    <3>1. tr.at = "train" /\ trained' = trained \cup Ids(tr.got) /\ ckpt' = ckpt
      BY <1>3 DEF Train
    <3>2. /\ trained \subseteq Nat /\ tr.saved \in Nat /\ tr.closing \in BOOLEAN
          /\ ckpt \in [version : Nat, pos : Nat, trained : SUBSET Nat]
          /\ tr.at = "train" => ~tr.closing
      BY <1>1 DEF TrainTypes
    <3> QED BY <2>1, <3>1, <3>2
  <2>4. <<>> \in Seq(SampleType) /\ Len(<<>>) = 0
    OBVIOUS
  <2>5. CASE SyncDue
    <3>1. tr' = [at |-> "last", got |-> <<>>, local |-> 1, version |-> tr.version + 1,
                 saved |-> tr.saved, closing |-> tr.closing]
      <4>1. tr' = [tr EXCEPT !.at = "last", !.got = <<>>, !.local = 1, !.version = tr.version + 1]
        BY <1>3, <2>5 DEF Train
      <4> QED BY <1>1, <4>1 DEF TrainTypes
    <3> QED BY <1>9, <2>3, <2>4, <3>1, TrainRecord
  <2>6. CASE ~SyncDue
    <3>1. /\ tr' = [at |-> "save", got |-> <<>>, local |-> tr.local + 1, version |-> tr.version,
                    saved |-> tr.saved, closing |-> tr.closing]
          /\ tr.local + 1 \in 1..Trigger /\ tr.version \in Nat
      <4>1. tr' = [tr EXCEPT !.at = "save", !.got = <<>>, !.local = tr.local + 1]
        BY <1>3, <2>6 DEF Train
      <4>2. tr.local + 1 \in 1..Trigger /\ tr.version \in Nat
        BY <1>8, <1>9, <2>6 DEF SyncDue
      <4> QED BY <1>1, <4>1, <4>2 DEF TrainTypes
    <3> QED BY <1>9, <2>3, <2>4, <3>1, TrainRecord
  <2> QED BY <2>5, <2>6
<1>4. CASE Synchronize \/ Synchronized
  <2>1. \/ tr.at = "last" /\ tr' = [tr EXCEPT !.at = "sync"]
        \/ tr.at = "sync" /\ tr' = [tr EXCEPT !.at = "save"]
    BY <1>4 DEF Synchronize, Synchronized
  <2>2. PICK at \in {"sync", "save"} :
           tr' = [at |-> at, got |-> tr.got, local |-> tr.local, version |-> tr.version,
                  saved |-> tr.saved, closing |-> tr.closing]
    BY <1>1, <2>1 DEF TrainTypes
  <2>3. UNCHANGED <<trained, ckpt>> /\ tr.at \in {"last", "sync"}
    BY <1>4, <2>1 DEF Synchronize, Synchronized
  <2>4. ~tr.closing => tr.got = <<>>
    BY <1>1, <2>3 DEF TrainTypes
  <2>5. trained' \subseteq Nat /\ ckpt' \in [version : Nat, pos : Nat, trained : SUBSET Nat]
    BY <1>8, <2>3
  <2>6. tr' \in [at : {"collect", "train", "last", "sync", "save", "final", "done"},
                 got : Seq(SampleType), local : 1..Trigger, version : Nat, saved : Nat,
                 closing : BOOLEAN]
    BY <1>8, <2>2
  <2>7. tr'.at \in {"sync", "save"} /\ tr'.got = tr.got /\ tr'.closing = tr.closing
    BY <2>2
  <2> QED BY <1>8, <2>4, <2>5, <2>6, <2>7 DEF TrainTypes
<1>5. CASE Finish
  <2>1. UNCHANGED <<trained, ckpt>>
    BY <1>5 DEF Finish
  <2>2. \/ tr' = [tr EXCEPT !.at = "last", !.closing = TRUE, !.local = 1, !.version = tr.version + 1]
        \/ tr' = [tr EXCEPT !.at = "save", !.closing = TRUE]
    BY <1>5 DEF Finish
  <2>3. PICK at \in {"last", "save"}, local \in {1, tr.local}, v \in {tr.version, tr.version + 1} :
           tr' = [at |-> at, got |-> tr.got, local |-> local, version |-> v,
                  saved |-> tr.saved, closing |-> TRUE]
    <3>1. CASE tr' = [tr EXCEPT !.at = "last", !.closing = TRUE, !.local = 1, !.version = tr.version + 1]
      BY <1>1, <3>1 DEF TrainTypes
    <3>2. CASE tr' = [tr EXCEPT !.at = "save", !.closing = TRUE]
      BY <1>1, <3>2 DEF TrainTypes
    <3> QED BY <2>2, <3>1, <3>2
  <2>4. local \in 1..Trigger /\ v \in Nat
    BY <1>8, <1>9
  <2>5. trained' \subseteq Nat /\ ckpt' \in [version : Nat, pos : Nat, trained : SUBSET Nat]
    BY <1>8, <2>1
  <2> QED BY <1>8, <2>3, <2>4, <2>5, TrainRecord
<1>6. CASE Save
  <2>1. /\ tr.at = "save" /\ trained' = trained
        /\ ckpt' \in {ckpt, [version |-> tr.version, pos |-> feeder.pos, trained |-> trained]}
        /\ \E v \in {tr.saved, tr.version} :
             tr' = [tr EXCEPT !.at = IF tr.closing THEN "done" ELSE "collect", !.saved = v]
    BY <1>6 DEF Save
  <2>2. ckpt' \in [version : Nat, pos : Nat, trained : SUBSET Nat]
    BY <1>1, <2>1 DEF TrainTypes
  <2>3. PICK v \in {tr.saved, tr.version} :
            tr' = [tr EXCEPT !.at = IF tr.closing THEN "done" ELSE "collect", !.saved = v]
    BY <2>1
  <2>4. /\ tr' \in [at : {"collect", "train", "last", "sync", "save", "final", "done"},
                    got : Seq(SampleType), local : 1..Trigger, version : Nat, saved : Nat,
                    closing : BOOLEAN]
        /\ tr'.got = tr.got /\ tr'.closing = tr.closing
        /\ tr'.at = IF tr.closing THEN "done" ELSE "collect"
    BY <1>1, <2>3 DEF TrainTypes
  <2>5. ~tr.closing => tr.got = <<>> /\ Len(tr.got) < Required
    BY <1>1, <2>1 DEF TrainTypes
  <2> QED BY <1>1, <2>1, <2>2, <2>4, <2>5 DEF TrainTypes
<1>7. CASE UNCHANGED <<tr, trained, ckpt>>
  BY <1>1, <1>7 DEF TrainTypes
<1> QED BY <1>2, <1>3, <1>4, <1>5, <1>6, <1>7, TrainerFrame DEF Trainer

LEMMA TypeNext == ASSUME AsyncAssumption, TypeInv, [Next]_vars PROVE TypeInv'
<1>1. Line' /\ Holding'
  BY TypeFollows, LineStep DEF TypeInv
<1>2. CASE ~Crash
  BY <1>1, <1>2, FlagStep, CountStep, FeedStep, ProcStep, TaskStep, QueueStep, SyncStep, TrainStep DEF TypeInv
<1> QED BY <1>2, TypeCrash

\* Every variable of the rollouter, the queue, the synchronizer and the trainer
\* keeps its type, the queues their capacity and the lock its order of waiters.
THEOREM AsyncTypeCorrect == Spec => []TypeOK
<1>1. Init => TypeInv
  BY TypeInit, AsyncAssumption
<1>2. TypeInv /\ [Next]_vars => TypeInv'
  BY TypeNext, AsyncAssumption
<1> QED BY <1>1, <1>2, TypeFollows, PTL DEF Spec

-----------------------------------------------------------------------------
(* Sequences of samples.                                                   *)

\* No sample is in a sequence twice; the end signal may be.
Distinct(ss) == \A i, j \in DOMAIN ss : i # j /\ ss[i].id = ss[j].id => ss[i].id = DONE

\* The end signal is not in a sequence.
Whole(ss) == \A i \in DOMAIN ss : ss[i].id # DONE

\* The same for the positions in pending_queue.
Single(s) == \A i, j \in DOMAIN s : i # j /\ s[i] = s[j] => s[i] = DONE
Positions(s) == {s[i] : i \in DOMAIN s} \ {DONE}

LEMMA AppendIds ==
    ASSUME NEW ss \in Seq(SampleType), NEW s \in SampleType
    PROVE  /\ Ids(Append(ss, s)) = Ids(ss) \cup ({s.id} \ {DONE})
           /\ Distinct(ss) /\ s.id \notin Ids(ss) => Distinct(Append(ss, s))
           /\ Whole(ss) /\ s.id # DONE => Whole(Append(ss, s))
<1> DEFINE n == Len(ss)  t == Append(ss, s)
<1>1. /\ n \in Nat /\ DOMAIN ss = 1..n /\ DOMAIN t = 1..(n + 1)
      /\ t[n + 1] = s /\ \A i \in 1..n : t[i] = ss[i]
  OBVIOUS
<1>2. \A i \in 1..(n + 1) : i \in 1..n \/ i = n + 1
  BY <1>1
<1>3. 1..n \subseteq 1..(n + 1) /\ n + 1 \in 1..(n + 1) /\ n + 1 \notin 1..n
  BY <1>1
<1> HIDE DEF n, t
<1>4. Ids(t) = Ids(ss) \cup ({s.id} \ {DONE})
  BY <1>1, <1>2, <1>3 DEF Ids
<1>5. ASSUME Distinct(ss), s.id \notin Ids(ss) PROVE Distinct(t)
  <2>1. \A i \in 1..n : ss[i].id = s.id => s.id = DONE
    BY <1>1, <1>5 DEF Ids
  <2> QED BY <1>1, <1>2, <1>5, <2>1 DEF Distinct
<1>6. ASSUME Whole(ss), s.id # DONE PROVE Whole(t)
  BY <1>1, <1>2, <1>6 DEF Whole
<1> QED BY <1>4, <1>5, <1>6 DEF t

LEMMA TailIds ==
    ASSUME NEW ss \in Seq(SampleType), ss # <<>>, Distinct(ss)
    PROVE  /\ Ids(Tail(ss)) = Ids(ss) \ {Head(ss).id}
           /\ {Head(ss).id} \ {DONE} \subseteq Ids(ss)
           /\ Distinct(Tail(ss)) /\ (Whole(ss) => Whole(Tail(ss)))
           /\ Head(ss) \in SampleType /\ Head(ss) = ss[1] /\ 1 \in DOMAIN ss
           /\ Tail(ss) \in Seq(SampleType)
           /\ \A i \in DOMAIN Tail(ss) : i + 1 \in DOMAIN ss /\ Tail(ss)[i] = ss[i + 1]
<1> DEFINE n == Len(ss)  t == Tail(ss)
<1>1. /\ n \in Nat /\ n >= 1 /\ DOMAIN ss = 1..n /\ DOMAIN t = 1..(n - 1)
      /\ Head(ss) = ss[1] /\ \A i \in 1..(n - 1) : t[i] = ss[i + 1]
      /\ t \in Seq(SampleType) /\ ss[1] \in SampleType
  OBVIOUS
<1>2. /\ 1 \in 1..n
      /\ \A i \in 1..(n - 1) : i + 1 \in 1..n /\ i + 1 # 1
      /\ \A i \in 1..n : i = 1 \/ (i - 1 \in 1..(n - 1) /\ (i - 1) + 1 = i)
      /\ \A i, j \in 1..(n - 1) : i # j => i + 1 # j + 1
  BY <1>1
<1> HIDE DEF n, t
<1>3. ASSUME NEW i \in 1..(n - 1) PROVE t[i].id # ss[1].id \/ ss[1].id = DONE
  <2>1. t[i] = ss[i + 1] /\ i + 1 \in 1..n /\ 1 \in 1..n /\ i + 1 # 1
    BY <1>1, <1>2
  <2> QED BY <1>1, <2>1 DEF Distinct
<1>4. Ids(t) = Ids(ss) \ {ss[1].id}
  <2>1. ASSUME NEW x \in Ids(t) PROVE x \in Ids(ss) /\ x # ss[1].id
    BY <1>1, <1>2, <1>3, <2>1 DEF Ids
  <2>2. ASSUME NEW x \in Ids(ss), x # ss[1].id PROVE x \in Ids(t)
    <3>1. PICK i \in 1..n : x = ss[i].id /\ x # DONE
      BY <1>1, <2>2 DEF Ids
    <3>2. i - 1 \in 1..(n - 1) /\ t[i - 1] = ss[i]
      BY <1>1, <1>2, <2>2, <3>1
    <3> QED BY <1>1, <3>1, <3>2 DEF Ids
  <2> QED BY <2>1, <2>2
<1>5. Distinct(t)
  <2>1. ASSUME NEW i \in 1..(n - 1), NEW j \in 1..(n - 1), i # j, t[i].id = t[j].id
        PROVE t[i].id = DONE
    <3>1. t[i] = ss[i + 1] /\ t[j] = ss[j + 1]
      BY <1>1
    <3>2. i + 1 \in 1..n /\ j + 1 \in 1..n /\ i + 1 # j + 1
      BY <1>2, <2>1
    <3> QED BY <1>1, <2>1, <3>1, <3>2 DEF Distinct
  <2> QED BY <1>1, <2>1 DEF Distinct
<1>6. Whole(ss) => Whole(t)
  BY <1>1, <1>2 DEF Whole
<1>7. {ss[1].id} \ {DONE} \subseteq Ids(ss)
  BY <1>1, <1>2 DEF Ids
<1> QED BY <1>1, <1>2, <1>4, <1>5, <1>6, <1>7 DEF t

LEMMA AppendPosition ==
    ASSUME NEW s \in Seq(Nat), NEW k \in Nat
    PROVE  /\ Positions(Append(s, k)) = Positions(s) \cup ({k} \ {DONE})
           /\ Single(s) /\ k \notin Positions(s) => Single(Append(s, k))
<1> DEFINE n == Len(s)  t == Append(s, k)
<1>1. /\ n \in Nat /\ DOMAIN s = 1..n /\ DOMAIN t = 1..(n + 1)
      /\ t[n + 1] = k /\ \A i \in 1..n : t[i] = s[i]
  OBVIOUS
<1>2. \A i \in 1..(n + 1) : i \in 1..n \/ i = n + 1
  BY <1>1
<1>3. 1..n \subseteq 1..(n + 1) /\ n + 1 \in 1..(n + 1) /\ n + 1 \notin 1..n
  BY <1>1
<1> HIDE DEF n, t
<1>4. Positions(t) = Positions(s) \cup ({k} \ {DONE})
  BY <1>1, <1>2, <1>3 DEF Positions
<1>5. ASSUME Single(s), k \notin Positions(s) PROVE Single(t)
  <2>1. \A i \in 1..n : s[i] = k => k = DONE
    BY <1>1, <1>5 DEF Positions
  <2> QED BY <1>1, <1>2, <1>5, <2>1 DEF Single
<1> QED BY <1>4, <1>5 DEF t

LEMMA TailPosition ==
    ASSUME NEW s \in Seq(Nat), s # <<>>, Single(s)
    PROVE  /\ Positions(Tail(s)) = Positions(s) \ {Head(s)}
           /\ {Head(s)} \ {DONE} \subseteq Positions(s)
           /\ Single(Tail(s)) /\ Head(s) \in Nat
<1> DEFINE n == Len(s)  t == Tail(s)
<1>1. /\ n \in Nat /\ n >= 1 /\ DOMAIN s = 1..n /\ DOMAIN t = 1..(n - 1)
      /\ Head(s) = s[1] /\ \A i \in 1..(n - 1) : t[i] = s[i + 1]
      /\ s[1] \in Nat
  OBVIOUS
<1>2. /\ 1 \in 1..n
      /\ \A i \in 1..(n - 1) : i + 1 \in 1..n /\ i + 1 # 1
      /\ \A i \in 1..n : i = 1 \/ (i - 1 \in 1..(n - 1) /\ (i - 1) + 1 = i)
      /\ \A i, j \in 1..(n - 1) : i # j => i + 1 # j + 1
  BY <1>1
<1> HIDE DEF n, t
<1>3. ASSUME NEW i \in 1..(n - 1) PROVE t[i] # s[1] \/ s[1] = DONE
  <2>1. t[i] = s[i + 1] /\ i + 1 \in 1..n /\ 1 \in 1..n /\ i + 1 # 1
    BY <1>1, <1>2
  <2> QED BY <1>1, <2>1 DEF Single
<1>4. Positions(t) = Positions(s) \ {s[1]}
  <2>1. ASSUME NEW x \in Positions(t) PROVE x \in Positions(s) /\ x # s[1]
    <3>1. PICK i \in 1..(n - 1) : x = t[i] /\ x # DONE
      BY <1>1, <2>1 DEF Positions
    <3>2. i + 1 \in 1..n /\ t[i] = s[i + 1]
      BY <1>1, <1>2
    <3> QED BY <1>1, <1>3, <3>1, <3>2 DEF Positions
  <2>2. ASSUME NEW x \in Positions(s), x # s[1] PROVE x \in Positions(t)
    <3>1. PICK i \in 1..n : x = s[i] /\ x # DONE
      BY <1>1, <2>2 DEF Positions
    <3>2. i - 1 \in 1..(n - 1) /\ t[i - 1] = s[i]
      BY <1>1, <1>2, <2>2, <3>1
    <3> QED BY <1>1, <3>1, <3>2 DEF Positions
  <2> QED BY <2>1, <2>2
<1>5. Single(t)
  <2>1. ASSUME NEW i \in 1..(n - 1), NEW j \in 1..(n - 1), i # j, t[i] = t[j]
        PROVE t[i] = DONE
    <3>1. t[i] = s[i + 1] /\ t[j] = s[j + 1]
      BY <1>1
    <3>2. i + 1 \in 1..n /\ j + 1 \in 1..n /\ i + 1 # j + 1
      BY <1>2, <2>1
    <3> QED BY <1>1, <2>1, <3>1, <3>2 DEF Single
  <2> QED BY <1>1, <2>1 DEF Single
<1>6. {s[1]} \ {DONE} \subseteq Positions(s)
  BY <1>1, <1>2 DEF Positions
<1> QED BY <1>1, <1>4, <1>5, <1>6 DEF t

-----------------------------------------------------------------------------
(* Places.                                                                 *)

\* Every sample of 1..n is in exactly one place, and nothing else is in any.
Once(P, i) == \E p \in DOMAIN P : i \in P[p] /\ \A q \in DOMAIN P \ {p} : i \notin P[q]
Sound(P, n) ==
    /\ \A i \in 1..n : Once(P, i)
    /\ \A c \in DOMAIN P : P[c] \subseteq 1..n

\* Samples that move from one place to another stay in exactly one.
LEMMA MoveSound ==
    ASSUME NEW P, NEW Q, NEW n \in Nat, Sound(P, n), DOMAIN Q = DOMAIN P,
           NEW a \in DOMAIN P, NEW b \in DOMAIN P, a # b,
           NEW X, X \subseteq P[a],
           Q[a] = P[a] \ X, Q[b] = P[b] \cup X,
           \A c \in DOMAIN P \ {a, b} : Q[c] = P[c]
    PROVE  Sound(Q, n)
<1>1. ASSUME NEW i \in 1..n PROVE Once(Q, i)
  <2>1. PICK p \in DOMAIN P : i \in P[p] /\ \A q \in DOMAIN P \ {p} : i \notin P[q]
    BY DEF Sound, Once
  <2>2. CASE i \in X
    <3>1. p = a
      BY <2>1, <2>2
    <3>2. i \in Q[b] /\ \A q \in DOMAIN P \ {b} : i \notin Q[q]
      BY <2>1, <2>2, <3>1
    <3> QED BY <3>2 DEF Once
  <2>3. CASE i \notin X
    <3>1. i \in Q[p] /\ \A q \in DOMAIN P \ {p} : i \notin Q[q]
      BY <2>1, <2>3
    <3> QED BY <3>1 DEF Once
  <2> QED BY <2>2, <2>3
<1>2. \A c \in DOMAIN Q : Q[c] \subseteq 1..n
  BY DEF Sound
<1> QED BY <1>1, <1>2 DEF Sound

\* A sample drawn is nowhere yet.
LEMMA DrawSound ==
    ASSUME NEW P, NEW Q, NEW n \in Nat, Sound(P, n), DOMAIN Q = DOMAIN P,
           NEW a \in DOMAIN P, Q[a] = P[a] \cup {n + 1},
           \A c \in DOMAIN P \ {a} : Q[c] = P[c]
    PROVE  Sound(Q, n + 1)
<1>1. n + 1 \notin 1..n /\ 1..(n + 1) = 1..n \cup {n + 1}
  OBVIOUS
<1>2. ASSUME NEW i \in 1..n PROVE Once(Q, i)
  <2>1. PICK p \in DOMAIN P : i \in P[p] /\ \A q \in DOMAIN P \ {p} : i \notin P[q]
    BY DEF Sound, Once
  <2>2. i # n + 1
    BY <1>1
  <2>3. i \in Q[p] /\ \A q \in DOMAIN P \ {p} : i \notin Q[q]
    BY <2>1, <2>2
  <2> QED BY <2>3 DEF Once
<1>3. Once(Q, n + 1)
  <2>1. \A c \in DOMAIN P : n + 1 \notin P[c]
    BY <1>1 DEF Sound
  <2> QED BY <2>1 DEF Once
<1>4. \A c \in DOMAIN Q : Q[c] \subseteq 1..(n + 1)
  BY <1>1 DEF Sound
<1> QED BY <1>1, <1>2, <1>3, <1>4 DEF Sound

\* A sample in one place is in no other.
LEMMA OneplaceOnly ==
    ASSUME NEW P, NEW n \in Nat, Sound(P, n), NEW a \in DOMAIN P, NEW b \in DOMAIN P, a # b
    PROVE  P[a] \cap P[b] = {}
BY DEF Sound, Once

-----------------------------------------------------------------------------
(* Conservation of samples.                                                *)

Running == active \ Collected(active)

PendingOnce == Single(pending)
QueueOnce == Distinct(mq) /\ \A i \in DOMAIN mq : mq[i].id = DONE => mq[i] = EndSignal
CutOnce == Distinct(cancelQ) /\ Whole(cancelQ)
GotOnce == Distinct(tr.got) /\ Whole(tr.got)

\* No two tasks generate one sample.
TasksOnce ==
    /\ \A t \in active : t.sample.id # DONE
    /\ \A t, u \in Running : t.sample.id = u.sample.id => t = u

\* The processor holds a sample exactly while it wants to submit it.
HandFits ==
    IF proc.at \in {"top", "get"} THEN proc.hand.id = DONE
    ELSE proc.hand.id # DONE <=> proc.goal \in {"limit", "submit"}

\* The inductive strengthening of Conserved.
ConservedInv ==
    /\ Sound(Places, feeder.pos)
    /\ PendingOnce /\ QueueOnce /\ CutOnce /\ GotOnce /\ TasksOnce /\ HandFits
    /\ ckpt.trained \subseteq 1..ckpt.pos

LEMMA PlacesAre ==
    /\ DOMAIN Places = 1..9
    /\ Places[1] = (IF feeder.at = "put" THEN {feeder.pos} ELSE {})
    /\ Places[2] = Positions(pending)
    /\ Places[3] = {proc.hand.id} \ {DONE}
    /\ Places[4] = {t.sample.id : t \in Running}
    /\ Places[5] = Ids(cancelQ) /\ Places[6] = Ids(mq) /\ Places[7] = Ids(tr.got)
    /\ Places[8] = trained
    /\ Places[9] = {l[1] : l \in lost} \ {DONE}
BY DEF Places, Running, Positions

LEMMA PlacesNext ==
    /\ DOMAIN Places' = 1..9
    /\ Places'[1] = (IF feeder'.at = "put" THEN {feeder'.pos} ELSE {})
    /\ Places'[2] = Positions(pending')
    /\ Places'[3] = {proc'.hand.id} \ {DONE}
    /\ Places'[4] = {t.sample.id : t \in Running'}
    /\ Places'[5] = Ids(cancelQ') /\ Places'[6] = Ids(mq') /\ Places'[7] = Ids(tr'.got)
    /\ Places'[8] = trained'
    /\ Places'[9] = {l[1] : l \in lost'} \ {DONE}
BY DEF Places, Running, Positions, Ids

\* A place changes only with its variable.
LEMMA PlacesFrame ==
    /\ feeder' = feeder => Places'[1] = Places[1]
    /\ pending' = pending => Places'[2] = Places[2]
    /\ proc'.hand = proc.hand => Places'[3] = Places[3]
    /\ Running' = Running => Places'[4] = Places[4]
    /\ cancelQ' = cancelQ => Places'[5] = Places[5]
    /\ mq' = mq => Places'[6] = Places[6]
    /\ tr'.got = tr.got => Places'[7] = Places[7]
    /\ trained' = trained => Places'[8] = Places[8]
    /\ lost' = lost => Places'[9] = Places[9]
<1>1. (feeder' = feeder => Places'[1] = Places[1]) /\ (pending' = pending => Places'[2] = Places[2])
  BY PlacesAre, PlacesNext
<1>2. (proc'.hand = proc.hand => Places'[3] = Places[3]) /\ (Running' = Running => Places'[4] = Places[4])
  BY PlacesAre, PlacesNext
<1>3. (cancelQ' = cancelQ => Places'[5] = Places[5]) /\ (mq' = mq => Places'[6] = Places[6])
      /\ (tr'.got = tr.got => Places'[7] = Places[7])
  BY PlacesAre, PlacesNext
<1>4. (trained' = trained => Places'[8] = Places[8]) /\ (lost' = lost => Places'[9] = Places[9])
  BY PlacesAre, PlacesNext
<1> QED BY <1>1, <1>2, <1>3, <1>4

\* Samples that move between two places.
Moves(a, b, X) ==
    /\ X \subseteq Places[a] /\ Places'[a] = Places[a] \ X /\ Places'[b] = Places[b] \cup X
    /\ \A c \in 1..9 \ {a, b} : Places'[c] = Places[c]

LEMMA MovesSound ==
    ASSUME ConservedInv, feeder.pos \in Nat, feeder'.pos = feeder.pos,
           NEW a \in 1..9, NEW b \in 1..9, a # b, NEW X, Moves(a, b, X)
    PROVE  Sound(Places', feeder'.pos)
<1>1. Sound(Places, feeder.pos) /\ DOMAIN Places = 1..9 /\ DOMAIN Places' = 1..9
  BY PlacesAre, PlacesNext DEF ConservedInv
<1>2. /\ X \subseteq Places[a] /\ Places'[a] = Places[a] \ X /\ Places'[b] = Places[b] \cup X
      /\ \A c \in 1..9 \ {a, b} : Places'[c] = Places[c]
  BY DEF Moves
<1> DEFINE P == Places  Q == Places'  n == feeder.pos
<1>3. /\ Sound(P, n) /\ DOMAIN P = 1..9 /\ DOMAIN Q = DOMAIN P /\ a \in DOMAIN P /\ b \in DOMAIN P
      /\ n \in Nat
      /\ X \subseteq P[a] /\ Q[a] = P[a] \ X /\ Q[b] = P[b] \cup X
      /\ \A c \in DOMAIN P \ {a, b} : Q[c] = P[c]
  BY <1>1, <1>2
<1> HIDE DEF P, Q, n
<1>4. Sound(Q, n)
  BY <1>3, MoveSound
<1> QED BY <1>4 DEF Q, n

LEMMA StaySound ==
    ASSUME ConservedInv, feeder'.pos = feeder.pos, \A c \in 1..9 : Places'[c] = Places[c]
    PROVE  Sound(Places', feeder'.pos)
<1>1. Sound(Places, feeder.pos) /\ DOMAIN Places = 1..9 /\ DOMAIN Places' = 1..9
  BY PlacesAre, PlacesNext DEF ConservedInv
<1>2. \A i \in 1..feeder.pos : Once(Places', i)
  BY <1>1 DEF Sound, Once
<1> QED BY <1>1, <1>2 DEF Sound

\* Tasks that end leave the running ones.
LEMMA EndRunning ==
    ASSUME active \subseteq TaskType, TasksOnce, NEW t \in active, ~Over(t),
           NEW st \in {"done", "failed"}, EndTask(t, st)
    PROVE  /\ Running' = Running \ {t} /\ t \in Running
           /\ {u.sample.id : u \in Running'} = {u.sample.id : u \in Running} \ {t.sample.id}
           /\ t.sample.id # DONE /\ t.sample \in SampleType
           /\ TasksOnce'
<1> DEFINE e == [t EXCEPT !.st = st]
<1>1. e.st = st /\ e.sample = t.sample /\ t.sample \in SampleType /\ Over(e)
  BY DEF TaskType, Over
<1>2. active' = (active \ {t}) \cup {e}
  BY DEF EndTask
<1> HIDE DEF e
<1>3. Running' = Running \ {t} /\ t \in Running
  BY <1>1, <1>2 DEF Running, Collected, Over
<1>4. {u.sample.id : u \in Running'} = {u.sample.id : u \in Running} \ {t.sample.id}
  BY <1>3 DEF TasksOnce
<1>5. \A u \in active' : u.sample.id # DONE
  BY <1>1, <1>2 DEF TasksOnce
<1>6. TasksOnce'
  BY <1>3, <1>5 DEF TasksOnce
<1> QED BY <1>1, <1>3, <1>4, <1>6 DEF TasksOnce

LEMMA SameSound ==
    ASSUME NEW P, NEW Q, NEW n, Sound(P, n), DOMAIN Q = DOMAIN P, \A c \in DOMAIN P : Q[c] = P[c]
    PROVE  Sound(Q, n)
BY DEF Sound, Once

\* What a start finds: the samples of the checkpoint, the next one drawn.
LEMMA FreshSound ==
    ASSUME NEW n \in Nat, NEW T, T \subseteq 1..n, NEW Q, DOMAIN Q = 1..9,
           Q[1] = {n + 1}, Q[8] = T, Q[9] = (1..n) \ T, \A c \in 2..7 : Q[c] = {}
    PROVE  Sound(Q, n + 1)
<1> DEFINE P == [c \in 1..9 |-> IF c = 8 THEN T ELSE IF c = 9 THEN (1..n) \ T ELSE {}]
<1>1. ASSUME NEW i \in 1..n PROVE Once(P, i)
  <2>1. CASE i \in T
    <3>1. 8 \in DOMAIN P /\ i \in P[8] /\ \A q \in DOMAIN P \ {8} : i \notin P[q]
      BY <2>1
    <3> QED BY <3>1 DEF Once
  <2>2. CASE i \notin T
    <3>1. 9 \in DOMAIN P /\ i \in P[9] /\ \A q \in DOMAIN P \ {9} : i \notin P[q]
      BY <2>2
    <3> QED BY <3>1 DEF Once
  <2> QED BY <2>1, <2>2
<1>2. Sound(P, n)
  BY <1>1 DEF Sound
<1>3. DOMAIN P = 1..9 /\ 1 \in DOMAIN P /\ Q[1] = P[1] \cup {n + 1}
  OBVIOUS
<1>4. \A c \in 1..9 \ {1} : Q[c] = P[c]
  <2>1. \A c \in 1..9 \ {1} : c \in 2..7 \/ c = 8 \/ c = 9
    OBVIOUS
  <2> QED BY <2>1
<1> HIDE DEF P
<1> QED BY <1>2, <1>3, <1>4, DrawSound

LEMMA KeepParts ==
    ASSUME ConservedInv
    PROVE  /\ pending' = pending => PendingOnce'
           /\ mq' = mq => QueueOnce'
           /\ cancelQ' = cancelQ => CutOnce'
           /\ tr'.got = tr.got => GotOnce'
           /\ active' = active => TasksOnce'
           /\ proc' = proc => HandFits'
           /\ ckpt' = ckpt => (ckpt.trained \subseteq 1..ckpt.pos)'
<1>1. (pending' = pending => PendingOnce') /\ (mq' = mq => QueueOnce') /\ (cancelQ' = cancelQ => CutOnce')
  BY DEF ConservedInv, PendingOnce, QueueOnce, CutOnce
<1>2. (tr'.got = tr.got => GotOnce') /\ (proc' = proc => HandFits')
  BY DEF ConservedInv, GotOnce, HandFits
<1>3. active' = active => TasksOnce'
  BY DEF ConservedInv, TasksOnce, Running, Collected
<1> QED BY <1>1, <1>2, <1>3 DEF ConservedInv

LEMMA FeedConserved == ASSUME TypeInv, ConservedInv, Feed PROVE ConservedInv'
<1>1. /\ feeder.at = "put" /\ pending' = Append(pending, feeder.pos)
      /\ UNCHANGED <<proc, active, cancelQ, mq, tr, trained, lost, ckpt>>
      /\ \/ feeder' = [feeder EXCEPT !.at = "close"]
         \/ feeder' = [feeder EXCEPT !.pos = feeder.pos + 1, !.gsteps = feeder.gsteps + 1]
  BY DEF Feed
<1>2. /\ feeder \in [at : {"put", "close", "closed"}, pos : Nat, gsteps : Nat] /\ pending \in Seq(Nat)
  BY DEF TypeInv, FeedTypes
<1>3. feeder.pos \in Nat /\ Places[1] = {feeder.pos} /\ feeder.pos \in 1..feeder.pos /\ feeder.pos # DONE
  <2>1. Places[1] \subseteq 1..feeder.pos
    BY PlacesAre DEF ConservedInv, Sound
  <2> QED BY <1>1, <1>2, <2>1, PlacesAre DEF DONE
<1>4. feeder.pos \notin Places[2]
  BY <1>3, PlacesAre, OneplaceOnly DEF ConservedInv
<1>5. Positions(pending') = Positions(pending) \cup {feeder.pos} /\ Single(pending')
  BY <1>1, <1>2, <1>3, <1>4, AppendPosition, PlacesAre DEF ConservedInv, PendingOnce
<1> DEFINE n == feeder.pos
           P == Places
           Q == [c \in 1..9 |-> IF c = 1 THEN {} ELSE IF c = 2 THEN P[2] \cup {n} ELSE P[c]]
           R == Places'
<1>6. Sound(P, n) /\ DOMAIN P = 1..9 /\ n \in Nat /\ P[1] = {n}
  BY <1>3, PlacesAre DEF ConservedInv
<1>7. /\ R[2] = P[2] \cup {n} /\ (\A c \in 3..9 : R[c] = P[c]) /\ DOMAIN R = 1..9
      /\ R[1] = IF feeder'.at = "put" THEN {feeder'.pos} ELSE {}
  <2>1. R[2] = P[2] \cup {n} /\ R[1] = IF feeder'.at = "put" THEN {feeder'.pos} ELSE {}
    BY <1>5, PlacesAre, PlacesNext
  <2>2. R[3] = P[3] /\ R[4] = P[4] /\ R[5] = P[5] /\ R[6] = P[6] /\ R[7] = P[7] /\ R[8] = P[8] /\ R[9] = P[9]
    BY <1>1, PlacesFrame DEF Running, Collected
  <2>3. \A c \in 3..9 : c = 3 \/ c = 4 \/ c = 5 \/ c = 6 \/ c = 7 \/ c = 8 \/ c = 9
    OBVIOUS
  <2> HIDE DEF P, R
  <2>4. \A c \in 3..9 : R[c] = P[c]
    BY <2>2, <2>3
  <2>5. DOMAIN R = 1..9
    BY PlacesNext DEF R
  <2> QED BY <2>1, <2>4, <2>5
<1> HIDE DEF P, R, n
<1>8. Sound(Q, n)
  <2>1. /\ DOMAIN Q = DOMAIN P /\ 1 \in DOMAIN P /\ 2 \in DOMAIN P /\ {n} \subseteq P[1]
        /\ Q[1] = P[1] \ {n} /\ Q[2] = P[2] \cup {n} /\ \A c \in DOMAIN P \ {1, 2} : Q[c] = P[c]
    BY <1>6
  <2> HIDE DEF Q
  <2> QED BY <1>6, <2>1, MoveSound
<1>9. Sound(Places', feeder'.pos)
  <2>1. CASE feeder' = [feeder EXCEPT !.at = "close"]
    <3>1. feeder'.pos = n /\ R[1] = {}
      BY <1>2, <1>7, <2>1 DEF n
    <3>2. \A c \in DOMAIN Q : R[c] = Q[c]
      <4>1. \A c \in 1..9 : c = 1 \/ c = 2 \/ c \in 3..9
        OBVIOUS
      <4> QED BY <1>7, <3>1, <4>1
    <3>3. DOMAIN R = DOMAIN Q
      BY <1>7
    <3> HIDE DEF Q
    <3> QED BY <1>8, <3>1, <3>2, <3>3, SameSound DEF R
  <2>2. CASE feeder' = [feeder EXCEPT !.pos = feeder.pos + 1, !.gsteps = feeder.gsteps + 1]
    <3>1. feeder'.pos = n + 1 /\ R[1] = {n + 1}
      BY <1>1, <1>2, <1>7, <2>2 DEF n
    <3>2. \A c \in DOMAIN Q \ {1} : R[c] = Q[c]
      <4>1. \A c \in 1..9 \ {1} : c = 2 \/ (c \in 3..9 /\ c # 2)
        OBVIOUS
      <4> QED BY <1>7, <4>1
    <3>3. DOMAIN R = DOMAIN Q /\ 1 \in DOMAIN Q /\ R[1] = Q[1] \cup {n + 1}
      BY <1>7, <3>1
    <3> HIDE DEF Q
    <3> QED BY <1>6, <1>8, <3>1, <3>2, <3>3, DrawSound DEF R
  <2> QED BY <1>1, <2>1, <2>2
<1>10. PendingOnce'
  BY <1>5 DEF PendingOnce
<1> QED BY <1>1, <1>9, <1>10, KeepParts DEF ConservedInv

LEMMA CloseFeedConserved == ASSUME TypeInv, ConservedInv, CloseFeed PROVE ConservedInv'
<1>1. /\ feeder.at = "close" /\ feeder' = [feeder EXCEPT !.at = "closed"] /\ pending' = Append(pending, DONE)
      /\ UNCHANGED <<proc, active, cancelQ, mq, tr, trained, lost, ckpt>>
  BY DEF CloseFeed
<1>2. /\ feeder \in [at : {"put", "close", "closed"}, pos : Nat, gsteps : Nat] /\ pending \in Seq(Nat)
      /\ DONE \in Nat
  BY NothingTypes DEF TypeInv, FeedTypes
<1>3. Positions(pending') = Positions(pending) /\ Single(pending')
  <2>1. DONE \notin Positions(pending)
    BY DEF Positions
  <2> QED BY <1>1, <1>2, <2>1, AppendPosition DEF ConservedInv, PendingOnce
<1>4. feeder'.pos = feeder.pos /\ feeder'.at = "closed"
  BY <1>1, <1>2
<1>5. Places'[1] = Places[1] /\ Places'[2] = Places[2]
  BY <1>1, <1>3, <1>4, PlacesAre, PlacesNext
<1>6. \A c \in 1..9 : Places'[c] = Places[c]
  <2>1. /\ Places'[3] = Places[3] /\ Places'[4] = Places[4] /\ Places'[5] = Places[5]
        /\ Places'[6] = Places[6] /\ Places'[7] = Places[7] /\ Places'[8] = Places[8]
        /\ Places'[9] = Places[9]
    BY <1>1, PlacesFrame DEF Running, Collected
  <2>2. \A c \in 1..9 : c = 1 \/ c = 2 \/ c = 3 \/ c = 4 \/ c = 5 \/ c = 6 \/ c = 7 \/ c = 8 \/ c = 9
    OBVIOUS
  <2> QED BY <1>5, <2>1, <2>2
<1>7. Sound(Places', feeder'.pos)
  BY <1>4, <1>6, StaySound
<1>8. PendingOnce'
  BY <1>3 DEF PendingOnce
<1> QED BY <1>1, <1>7, <1>8, KeepParts DEF ConservedInv

LEMMA Nine == \A c \in 1..9 : \/ c = 1 \/ c = 2 \/ c = 3 \/ c = 4 \/ c = 5
                              \/ c = 6 \/ c = 7 \/ c = 8 \/ c = 9
OBVIOUS

LEMMA ProcRecord ==
    ASSUME TypeInv
    PROVE  /\ proc = [at |-> proc.at, goal |-> proc.goal, hand |-> proc.hand]
           /\ proc.hand \in SampleType /\ pending \in Seq(Nat)
           /\ cancelQ \in Seq(SampleType) /\ mq \in Seq(SampleType) /\ tr.got \in Seq(SampleType)
           /\ active \subseteq TaskType /\ feeder.pos \in Nat
BY DEF TypeInv, ProcTypes, FeedTypes, TaskTypes, QueueTypes, TrainTypes

LEMMA Apart ==
    ASSUME TypeInv, ConservedInv, NEW a \in 1..9, NEW b \in 1..9, a # b
    PROVE  Places[a] \cap Places[b] = {}
<1> DEFINE P == Places  n == feeder.pos
<1>1. Sound(P, n) /\ n \in Nat /\ a \in DOMAIN P /\ b \in DOMAIN P
  BY PlacesAre, ProcRecord DEF ConservedInv
<1> HIDE DEF P, n
<1>2. P[a] \cap P[b] = {}
  BY <1>1, OneplaceOnly
<1> QED BY <1>2 DEF P

\* The processor takes a position from pending_queue.
LEMMA TakeConserved ==
    ASSUME TypeInv, ConservedInv, proc.at \in {"top", "get"}, pending # <<>>, TakePending,
           UNCHANGED <<feeder, active, cancelQ, mq, tr, trained, lost, ckpt>>
    PROVE  ConservedInv'
<1> DEFINE h == Head(pending)
<1>1. /\ pending' = Tail(pending) /\ Single(pending') /\ h \in Nat
      /\ Positions(pending') = Positions(pending) \ {h} /\ {h} \ {DONE} \subseteq Positions(pending)
  <2>1. pending' = Tail(pending)
    BY DEF TakePending
  <2> QED BY <2>1, TailPosition, ProcRecord DEF ConservedInv, PendingOnce
<1>2. proc.hand.id = DONE
  BY DEF ConservedInv, HandFits
<1>3. /\ proc'.at = "check" /\ proc'.goal = (IF h = DONE THEN "done" ELSE "limit") /\ proc'.hand.id = h
  BY NothingTypes DEF TakePending, Sample, Nothing
<1> HIDE DEF h
<1>4. PendingOnce' /\ HandFits'
  BY <1>1, <1>3 DEF PendingOnce, HandFits
<1>5. /\ Places[3] = {} /\ Places'[3] = {h} \ {DONE}
      /\ Places'[2] = Places[2] \ ({h} \ {DONE}) /\ {h} \ {DONE} \subseteq Places[2]
  <2>1. Places[2] = Positions(pending) /\ Places'[2] = Positions(pending')
    BY PlacesAre, PlacesNext
  <2>2. DONE \notin Positions(pending)
    BY DEF Positions
  <2>3. Places[3] = {} /\ Places'[3] = {h} \ {DONE}
    BY <1>2, <1>3, PlacesAre, PlacesNext
  <2> QED BY <1>1, <2>1, <2>2, <2>3
<1>6. \A c \in 1..9 \ {2, 3} : Places'[c] = Places[c]
  <2>1. /\ Places'[1] = Places[1] /\ Places'[4] = Places[4] /\ Places'[5] = Places[5]
        /\ Places'[6] = Places[6] /\ Places'[7] = Places[7] /\ Places'[8] = Places[8]
        /\ Places'[9] = Places[9]
    BY PlacesFrame DEF Running, Collected
  <2> QED BY <2>1, Nine
<1>7. Moves(2, 3, {h} \ {DONE})
  BY <1>5, <1>6 DEF Moves
<1>8. Sound(Places', feeder'.pos)
  BY <1>7, MovesSound, ProcRecord
<1> QED BY <1>4, <1>8, KeepParts DEF ConservedInv

\* The processor takes an interrupted sample from cancel_queue.
LEMMA TakeCutConserved ==
    ASSUME TypeInv, ConservedInv, proc.at = "top", cancelQ # <<>>, cancelQ' = Tail(cancelQ),
           proc' = [at |-> "check", goal |-> "limit", hand |-> Head(cancelQ)],
           UNCHANGED <<feeder, pending, active, mq, tr, trained, lost, ckpt>>
    PROVE  ConservedInv'
<1> DEFINE h == Head(cancelQ).id
<1>1. /\ Distinct(cancelQ') /\ Whole(cancelQ') /\ h # DONE
      /\ Ids(cancelQ') = Ids(cancelQ) \ {h} /\ h \in Ids(cancelQ)
  <2>1. Distinct(cancelQ) /\ Whole(cancelQ) /\ cancelQ \in Seq(SampleType)
    BY ProcRecord DEF ConservedInv, CutOnce
  <2>2. Head(cancelQ) = cancelQ[1] /\ 1 \in DOMAIN cancelQ
    BY <2>1, TailIds
  <2>3. h # DONE
    BY <2>1, <2>2 DEF Whole
  <2> QED BY <2>1, <2>3, TailIds
<1>2. proc.hand.id = DONE
  BY DEF ConservedInv, HandFits
<1>3. proc'.at = "check" /\ proc'.goal = "limit" /\ proc'.hand.id = h
  OBVIOUS
<1> HIDE DEF h
<1>4. CutOnce' /\ HandFits'
  BY <1>1, <1>3 DEF CutOnce, HandFits
<1>5. /\ Places[3] = {} /\ Places'[3] = {h}
      /\ Places'[5] = Places[5] \ {h} /\ {h} \subseteq Places[5]
  <2>1. Places[5] = Ids(cancelQ) /\ Places'[5] = Ids(cancelQ')
    BY PlacesAre, PlacesNext
  <2>2. Places[3] = {} /\ Places'[3] = {h}
    BY <1>1, <1>2, <1>3, PlacesAre, PlacesNext
  <2> QED BY <1>1, <2>1, <2>2
<1>6. \A c \in 1..9 \ {5, 3} : Places'[c] = Places[c]
  <2>1. /\ Places'[1] = Places[1] /\ Places'[4] = Places[4] /\ Places'[2] = Places[2]
        /\ Places'[6] = Places[6] /\ Places'[7] = Places[7] /\ Places'[8] = Places[8]
        /\ Places'[9] = Places[9]
    BY PlacesFrame DEF Running, Collected
  <2> QED BY <2>1, Nine
<1>7. Moves(5, 3, {h})
  BY <1>5, <1>6 DEF Moves
<1>8. Sound(Places', feeder'.pos)
  BY <1>7, MovesSound, ProcRecord
<1> QED BY <1>4, <1>8, KeepParts DEF ConservedInv

\* The sample in hand becomes a task.
LEMMA SubmitConserved ==
    ASSUME TypeInv, ConservedInv, proc.at = "hold", proc.goal = "submit",
           active' = active \cup {Task(proc.hand)},
           proc' = [proc EXCEPT !.at = "top", !.hand = Nothing],
           UNCHANGED <<feeder, pending, cancelQ, mq, tr, trained, lost, ckpt>>
    PROVE  ConservedInv'
<1> DEFINE h == proc.hand.id  k == Task(proc.hand)
<1>1. h # DONE
  BY DEF ConservedInv, HandFits
<1>2. k.sample.id = h /\ ~Over(k)
  BY ProcRecord DEF Task, Over, SampleType
<1>3. h \notin Places[4] /\ Places[3] = {h}
  <2>1. Places[3] = {h}
    BY <1>1, PlacesAre
  <2>2. Places[3] \cap Places[4] = {}
    BY Apart
  <2> QED BY <2>1, <2>2
<1>4. proc'.at = "top" /\ proc'.hand.id = DONE
  BY ProcRecord, NothingTypes
<1> HIDE DEF h, k
<1>5. active' = active \cup {k}
  BY DEF k
<1>6. Running' = Running \cup {k}
  BY <1>2, <1>5 DEF Running, Collected
<1>7. Places[4] = {t.sample.id : t \in Running} /\ Places'[4] = {t.sample.id : t \in Running'}
  BY PlacesAre, PlacesNext
<1>8. Places'[4] = Places[4] \cup {h}
  BY <1>2, <1>6, <1>7
<1>9. TasksOnce'
  <2>1. \A t \in Running : t.sample.id # h
    BY <1>3, <1>7
  <2>2. /\ \A t \in active : t.sample.id # DONE
        /\ \A t, u \in Running : t.sample.id = u.sample.id => t = u
    BY DEF TasksOnce, ConservedInv
  <2>3. \A t \in active' : t.sample.id # DONE
    BY <1>1, <1>2, <1>5, <2>2
  <2>4. \A t, u \in Running' : t.sample.id = u.sample.id => t = u
    BY <1>2, <1>6, <2>1, <2>2
  <2> QED BY <2>3, <2>4 DEF TasksOnce
<1>10. Places'[3] = {}
  BY <1>4, PlacesNext
<1>11. \A c \in 1..9 \ {3, 4} : Places'[c] = Places[c]
  <2>1. /\ Places'[1] = Places[1] /\ Places'[2] = Places[2] /\ Places'[5] = Places[5]
        /\ Places'[6] = Places[6] /\ Places'[7] = Places[7] /\ Places'[8] = Places[8]
        /\ Places'[9] = Places[9]
    BY PlacesFrame
  <2> QED BY <2>1, Nine
<1>12. Moves(3, 4, {h})
  BY <1>3, <1>8, <1>10, <1>11 DEF Moves
<1>13. Sound(Places', feeder'.pos)
  BY <1>12, MovesSound, ProcRecord
<1>14. HandFits'
  BY <1>4 DEF HandFits
<1> QED BY <1>9, <1>13, <1>14, KeepParts DEF ConservedInv

\* A step that moves no sample.
LEMMA StillConserved ==
    ASSUME TypeInv, ConservedInv, UNCHANGED <<feeder, pending, cancelQ, mq, trained, lost>>,
           proc'.hand.id = proc.hand.id, Running' = Running, active' \subseteq active,
           tr'.got = tr.got, HandFits', (ckpt.trained \subseteq 1..ckpt.pos)'
    PROVE  ConservedInv'
<1>1. Places'[3] = Places[3]
  BY PlacesAre, PlacesNext
<1>2. \A c \in 1..9 : Places'[c] = Places[c]
  <2>1. /\ Places'[1] = Places[1] /\ Places'[2] = Places[2] /\ Places'[4] = Places[4]
        /\ Places'[5] = Places[5] /\ Places'[6] = Places[6] /\ Places'[7] = Places[7]
        /\ Places'[8] = Places[8] /\ Places'[9] = Places[9]
    BY PlacesFrame
  <2> QED BY <1>1, <2>1, Nine
<1>3. Sound(Places', feeder'.pos)
  BY <1>2, StaySound
<1>4. TasksOnce'
  BY DEF TasksOnce, ConservedInv
<1> QED BY <1>3, <1>4, KeepParts DEF ConservedInv

LEMMA ProcessorConserved == ASSUME TypeInv, ConservedInv, Processor, ~EndStream PROVE ConservedInv'
<1>1. CASE ProcTop
  <2>1. proc.at = "top" /\ proc.hand.id = DONE /\ UNCHANGED <<feeder, active, mq, tr, trained, lost, ckpt>>
    BY <1>1 DEF ProcTop, ConservedInv, HandFits
  <2>2. CASE paused \/ ShouldPause
    <3>1. UNCHANGED <<pending, cancelQ>> /\ proc' = [at |-> "hold", goal |-> "pause", hand |-> Nothing]
      BY <1>1, <2>2 DEF ProcTop, Want
    <3>2. proc'.hand.id = proc.hand.id /\ HandFits'
      BY <2>1, <3>1, NothingTypes DEF HandFits
    <3> QED BY <2>1, <3>1, <3>2, StillConserved DEF Running, Collected, ConservedInv
  <2>3. CASE ~(paused \/ ShouldPause) /\ cancelQ # <<>>
    BY <1>1, <2>1, <2>3, TakeCutConserved DEF ProcTop
  <2>4. CASE ~(paused \/ ShouldPause) /\ cancelQ = <<>> /\ pending # <<>>
    BY <1>1, <2>1, <2>4, TakeConserved DEF ProcTop
  <2>5. CASE ~(paused \/ ShouldPause) /\ cancelQ = <<>> /\ pending = <<>>
    <3>1. UNCHANGED <<pending, cancelQ>> /\ proc' = [proc EXCEPT !.at = "get"]
      BY <1>1, <2>5 DEF ProcTop
    <3>2. proc'.hand.id = proc.hand.id /\ HandFits'
      BY <2>1, <3>1, ProcRecord DEF HandFits
    <3> QED BY <2>1, <3>1, <3>2, StillConserved DEF Running, Collected, ConservedInv
  <2> QED BY <2>2, <2>3, <2>4, <2>5
<1>2. CASE ProcGet
  BY <1>2, TakeConserved DEF ProcGet
<1>3. CASE ProcCheck
  <2>1. /\ proc.at = "check"
        /\ UNCHANGED <<feeder, pending, cancelQ, active, mq, tr, trained, lost, ckpt>>
    BY <1>3 DEF ProcCheck
  <2>2. proc.hand.id # DONE <=> proc.goal \in {"limit", "submit"}
    BY <2>1 DEF ConservedInv, HandFits
  <2>3. \/ proc' = [at |-> "hold", goal |-> proc.goal, hand |-> proc.hand]
        \/ proc.goal = "drain" /\ proc' = [at |-> "hold", goal |-> "resume", hand |-> Nothing]
        \/ proc.goal = "limit" /\ proc' = [at |-> "hold", goal |-> "submit", hand |-> proc.hand]
        \/ proc.goal = "done" /\ proc' = [proc EXCEPT !.at = "end"]
    BY <1>3 DEF ProcCheck, Want
  <2>4. proc'.hand.id = proc.hand.id /\ proc'.at \in {"hold", "end"}
        /\ (proc'.goal \in {"limit", "submit"} <=> proc.goal \in {"limit", "submit"})
    <3>1. CASE proc' = [at |-> "hold", goal |-> proc.goal, hand |-> proc.hand]
      BY <3>1
    <3>2. CASE proc.goal = "drain" /\ proc' = [at |-> "hold", goal |-> "resume", hand |-> Nothing]
      BY <2>2, <3>2, NothingTypes
    <3>3. CASE proc.goal = "limit" /\ proc' = [at |-> "hold", goal |-> "submit", hand |-> proc.hand]
      BY <3>3
    <3>4. CASE proc.goal = "done" /\ proc' = [proc EXCEPT !.at = "end"]
      BY <3>4, ProcRecord
    <3> QED BY <2>3, <3>1, <3>2, <3>3, <3>4
  <2>5. HandFits'
    BY <2>2, <2>4 DEF HandFits
  <2> QED BY <2>1, <2>4, <2>5, StillConserved DEF Running, Collected, ConservedInv
<1>4. CASE ProcPause \/ ProcResume \/ ProcAwait
  <2>1. /\ UNCHANGED <<feeder, pending, cancelQ, active, mq, tr, trained, lost, ckpt>>
        /\ proc.at = "hold"
    BY <1>4 DEF ProcPause, ProcResume, ProcAwait
  <2>2. \/ proc.goal = "pause" /\ proc' = [proc EXCEPT !.at = "check", !.goal = "drain"]
        \/ proc.goal = "resume" /\ \E at \in {"cond", "top"} : proc' = [proc EXCEPT !.at = at]
        \/ \E at \in {"wait", "check", "dead"} : proc' = [proc EXCEPT !.at = at]
    BY <1>4 DEF ProcPause, ProcResume, ProcAwait
  <2>3. proc.hand.id # DONE <=> proc.goal \in {"limit", "submit"}
    BY <2>1 DEF ConservedInv, HandFits
  <2>4. proc'.hand.id = proc.hand.id /\ HandFits'
    <3>1. CASE proc.goal = "pause" /\ proc' = [proc EXCEPT !.at = "check", !.goal = "drain"]
      BY <2>3, <3>1, ProcRecord DEF HandFits
    <3>2. ASSUME NEW at \in {"cond", "top"}, proc.goal = "resume", proc' = [proc EXCEPT !.at = at]
          PROVE proc'.hand.id = proc.hand.id /\ HandFits'
      BY <2>3, <3>2, ProcRecord DEF HandFits
    <3>3. ASSUME NEW at \in {"wait", "check", "dead"}, proc' = [proc EXCEPT !.at = at]
          PROVE proc'.hand.id = proc.hand.id /\ HandFits'
      BY <2>3, <3>3, ProcRecord DEF HandFits
    <3> QED BY <2>2, <3>1, <3>2, <3>3
  <2> QED BY <2>1, <2>4, StillConserved DEF Running, Collected, ConservedInv
<1>5. CASE ProcSubmit
  <2>1. CASE paused
    <3>1. /\ UNCHANGED <<feeder, pending, cancelQ, active, mq, tr, trained, lost, ckpt>>
          /\ proc.at = "hold" /\ proc' = [proc EXCEPT !.at = "cond"]
      BY <1>5, <2>1 DEF ProcSubmit
    <3>2. proc'.hand.id = proc.hand.id /\ HandFits'
      BY <3>1, ProcRecord DEF ConservedInv, HandFits
    <3> QED BY <3>1, <3>2, StillConserved DEF Running, Collected, ConservedInv
  <2>2. CASE ~paused
    BY <1>5, <2>2, SubmitConserved DEF ProcSubmit
  <2> QED BY <2>1, <2>2
<1>6. CASE ProcAwaited
  <2>1. /\ UNCHANGED <<feeder, pending, cancelQ, mq, tr, trained, lost, ckpt>>
        /\ active' = active \ Collected(active) /\ proc.at = "wait"
        /\ \E at \in {"check", "dead"} : proc' = [proc EXCEPT !.at = at]
    BY <1>6 DEF ProcAwaited
  <2>2. Running' = Running /\ active' \subseteq active
    BY <2>1 DEF Running, Collected
  <2>3. proc'.hand.id = proc.hand.id /\ HandFits'
    BY <2>1, ProcRecord DEF ConservedInv, HandFits
  <2> QED BY <2>1, <2>2, <2>3, StillConserved DEF ConservedInv
<1>7. CASE ProcNotified
  <2>1. /\ UNCHANGED <<feeder, pending, cancelQ, active, mq, tr, trained, lost, ckpt>>
        /\ proc.at = "notified" /\ proc' = [at |-> "hold", goal |-> proc.goal, hand |-> proc.hand]
    BY <1>7 DEF ProcNotified, Want
  <2>2. proc'.hand.id = proc.hand.id /\ HandFits'
    BY <2>1, ProcRecord DEF ConservedInv, HandFits
  <2> QED BY <2>1, <2>2, StillConserved DEF Running, Collected, ConservedInv
<1> QED BY <1>1, <1>2, <1>3, <1>4, <1>5, <1>6, <1>7 DEF Processor

\* One more sample is given up.
LEMMA LostMore ==
    ASSUME NEW L, NEW a, NEW b
    PROVE  {l[1] : l \in L \cup {<<a, b>>}} = {l[1] : l \in L} \cup {a}
<1> DEFINE p == <<a, b>>
<1>1. p[1] = a
  OBVIOUS
<1> HIDE DEF p
<1>2. {l[1] : l \in L \cup {p}} = {l[1] : l \in L} \cup {p[1]}
  OBVIOUS
<1> QED BY <1>1, <1>2 DEF p

\* put_sample: what leaves the queue is lost, what is put is in it once.
LEMMA PutQueue ==
    ASSUME AsyncAssumption, TypeInv, ConservedInv, NEW s \in SampleType, Put(s),
           s.id \notin Ids(mq), s.id = DONE => s = EndSignal
    PROVE  \E e \in SUBSET Ids(mq) :
             /\ QueueOnce'
             /\ Places'[6] = (Places[6] \ e) \cup ({s.id} \ {DONE})
             /\ Places'[9] = Places[9] \cup e
<1> DEFINE full == Len(mq) >= MaxRequired
           m == IF full THEN Tail(mq) ELSE mq
           e == IF full THEN {Head(mq).id} \ {DONE} ELSE {}
<1>1. /\ mq \in Seq(SampleType) /\ Distinct(mq) /\ (full => mq # <<>>)
      /\ \A i \in DOMAIN mq : mq[i].id = DONE => mq[i] = EndSignal
  <2>1. MaxRequired >= 1
    BY Constants
  <2>2. mq \in Seq(SampleType)
    BY ProcRecord
  <2>3. full => mq # <<>>
    BY <2>1, <2>2, Constants
  <2> QED BY <2>2, <2>3 DEF ConservedInv, QueueOnce
<1>2. /\ m \in Seq(SampleType) /\ Distinct(m) /\ Ids(m) = Ids(mq) \ e /\ e \subseteq Ids(mq)
      /\ \A i \in DOMAIN m : m[i].id = DONE => m[i] = EndSignal
  <2>1. CASE full
    <3>1. /\ Tail(mq) \in Seq(SampleType) /\ Distinct(Tail(mq))
          /\ Ids(Tail(mq)) = Ids(mq) \ {Head(mq).id} /\ {Head(mq).id} \ {DONE} \subseteq Ids(mq)
          /\ \A i \in DOMAIN Tail(mq) : i + 1 \in DOMAIN mq /\ Tail(mq)[i] = mq[i + 1]
      BY <1>1, <2>1, TailIds
    <3>2. DONE \notin Ids(mq)
      BY DEF Ids
    <3>3. \A i \in DOMAIN Tail(mq) : Tail(mq)[i].id = DONE => Tail(mq)[i] = EndSignal
      BY <1>1, <3>1
    <3> QED BY <2>1, <3>1, <3>2, <3>3
  <2>2. CASE ~full
    BY <1>1, <2>2
  <2> QED BY <2>1, <2>2
<1>3. mq' = Append(m, s)
  BY DEF Put
<1>4. {l[1] : l \in lost'} \ {DONE} = ({l[1] : l \in lost} \ {DONE}) \cup e
  <2>1. CASE full
    <3>1. lost' = lost \cup {<<Head(mq).id, "evicted">>}
      BY <2>1 DEF Put
    <3>2. {l[1] : l \in lost'} = {l[1] : l \in lost} \cup {Head(mq).id}
      BY <3>1, LostMore
    <3> QED BY <2>1, <3>2
  <2>2. CASE ~full
    <3>1. lost' = lost
      BY <2>2 DEF Put
    <3> QED BY <2>2, <3>1
  <2> QED BY <2>1, <2>2
<1> HIDE DEF m, e, full
<1>5. s.id \notin Ids(m)
  BY <1>2
<1>6. Ids(mq') = (Ids(mq) \ e) \cup ({s.id} \ {DONE}) /\ Distinct(mq')
  BY <1>2, <1>3, <1>5, AppendIds
<1>7. \A i \in DOMAIN mq' : mq'[i].id = DONE => mq'[i] = EndSignal
  <2>1. \A i \in DOMAIN Append(m, s) : Append(m, s)[i] = s \/ (i \in DOMAIN m /\ Append(m, s)[i] = m[i])
    BY <1>2
  <2> QED BY <1>2, <1>3, <2>1
<1>8. QueueOnce'
  BY <1>6, <1>7 DEF QueueOnce
<1> QED BY <1>2, <1>4, <1>6, <1>8, PlacesAre, PlacesNext

LEMMA EndStreamConserved ==
    ASSUME AsyncAssumption, TypeInv, ConservedInv, EndStream PROVE ConservedInv'
<1>1. /\ UNCHANGED <<feeder, pending, active, cancelQ, tr, trained, ckpt>>
      /\ proc.at \in {"end", "dead"} /\ Put(EndSignal) /\ proc' = [proc EXCEPT !.at = "over"]
  BY DEF EndStream
<1>2. EndSignal \in SampleType /\ EndSignal.id = DONE /\ DONE \notin Ids(mq)
  BY NothingTypes DEF EndSignal, Ids
<1>3. PICK e \in SUBSET Ids(mq) : /\ QueueOnce' /\ Places'[6] = Places[6] \ e
                                  /\ Places'[9] = Places[9] \cup e
  BY <1>1, <1>2, PutQueue
<1>4. proc'.hand = proc.hand /\ HandFits'
  BY <1>1, ProcRecord DEF ConservedInv, HandFits
<1>5. \A c \in 1..9 \ {6, 9} : Places'[c] = Places[c]
  <2>1. /\ Places'[1] = Places[1] /\ Places'[2] = Places[2] /\ Places'[3] = Places[3]
        /\ Places'[4] = Places[4] /\ Places'[5] = Places[5] /\ Places'[7] = Places[7]
        /\ Places'[8] = Places[8]
    BY <1>1, <1>4, PlacesFrame DEF Running, Collected
  <2> QED BY <2>1, Nine
<1>6. Moves(6, 9, e)
  BY <1>3, <1>5, PlacesAre DEF Moves
<1>7. Sound(Places', feeder'.pos)
  BY <1>1, <1>6, MovesSound, ProcRecord
<1> QED BY <1>1, <1>3, <1>4, <1>7, KeepParts DEF ConservedInv

LEMMA CompleteConserved ==
    ASSUME AsyncAssumption, TypeInv, ConservedInv, NEW t \in active, Complete(t)
    PROVE  ConservedInv'
<1> DEFINE s == [t.sample EXCEPT !.stamp = version]  x == t.sample.id
<1>1. /\ UNCHANGED <<feeder, pending, proc, cancelQ, tr, trained, ckpt>>
      /\ ~Over(t) /\ Put(s) /\ EndTask(t, "done")
  BY DEF Complete, Over
<1>2. /\ Places'[4] = Places[4] \ {x} /\ TasksOnce' /\ x # DONE /\ x \in Places[4]
      /\ t.sample \in SampleType
  <2>1. TasksOnce /\ active \subseteq TaskType
    BY ProcRecord DEF ConservedInv
  <2> QED BY <1>1, <2>1, EndRunning, PlacesAre, PlacesNext
<1>3. s \in SampleType /\ s.id = x
  BY <1>2, SampleTypes DEF TypeInv, CountTypes, SampleType
<1>4. x \notin Ids(mq)
  <2>1. Places[4] \cap Places[6] = {}
    BY Apart
  <2> QED BY <1>2, <2>1, PlacesAre
<1> HIDE DEF s
<1>5. PICK e \in SUBSET Ids(mq) : /\ QueueOnce' /\ Places'[6] = (Places[6] \ e) \cup {x}
                                  /\ Places'[9] = Places[9] \cup e
  BY <1>1, <1>2, <1>3, <1>4, PutQueue
<1> DEFINE P == Places  R == Places'  n == feeder.pos
           Q == [c \in 1..9 |-> IF c = 6 THEN P[6] \ e ELSE IF c = 9 THEN P[9] \cup e ELSE P[c]]
<1> HIDE DEF x
<1>6. /\ Sound(P, n) /\ DOMAIN P = 1..9 /\ DOMAIN R = 1..9 /\ n \in Nat
      /\ e \subseteq P[6] /\ x \in P[4] /\ R[4] = P[4] \ {x}
      /\ R[6] = (P[6] \ e) \cup {x} /\ R[9] = P[9] \cup e
  BY <1>2, <1>5, PlacesAre, PlacesNext, ProcRecord DEF ConservedInv
<1>7. /\ R[1] = P[1] /\ R[2] = P[2] /\ R[3] = P[3] /\ R[5] = P[5] /\ R[7] = P[7] /\ R[8] = P[8]
  BY <1>1, PlacesFrame
<1> HIDE DEF P, R, n
<1>8. Sound(Q, n)
  <2>1. /\ DOMAIN Q = DOMAIN P /\ 6 \in DOMAIN P /\ 9 \in DOMAIN P /\ Q[6] = P[6] \ e
        /\ Q[9] = P[9] \cup e /\ \A c \in DOMAIN P \ {6, 9} : Q[c] = P[c]
    BY <1>6
  <2> HIDE DEF Q
  <2> QED BY <1>6, <2>1, MoveSound
<1>9. Sound(R, n)
  <2> DEFINE X == {x}
  <2>1. /\ DOMAIN R = DOMAIN Q /\ 4 \in DOMAIN Q /\ 6 \in DOMAIN Q /\ X \subseteq Q[4]
        /\ R[4] = Q[4] \ X /\ R[6] = Q[6] \cup X
    BY <1>6
  <2>2. \A c \in DOMAIN Q \ {4, 6} : R[c] = Q[c]
    BY <1>6, <1>7, Nine
  <2>3. n \in Nat
    BY <1>6
  <2> HIDE DEF Q, X
  <2> QED BY <1>8, <2>1, <2>2, <2>3, MoveSound
<1>10. Sound(Places', feeder'.pos)
  BY <1>1, <1>9 DEF R, n
<1> QED BY <1>1, <1>2, <1>5, <1>10, KeepParts DEF ConservedInv

LEMMA InterruptConserved ==
    ASSUME TypeInv, ConservedInv, NEW t \in active, Interrupt(t)
    PROVE  ConservedInv'
<1> DEFINE x == t.sample.id
<1>1. /\ UNCHANGED <<feeder, pending, proc, mq, tr, trained, ckpt, lost>>
      /\ ~Over(t) /\ cancelQ' = Append(cancelQ, t.sample) /\ EndTask(t, "done")
  BY DEF Interrupt, Over
<1>2. /\ Places'[4] = Places[4] \ {x} /\ TasksOnce' /\ x # DONE /\ x \in Places[4]
      /\ t.sample \in SampleType
  <2>1. TasksOnce /\ active \subseteq TaskType
    BY ProcRecord DEF ConservedInv
  <2> QED BY <1>1, <2>1, EndRunning, PlacesAre, PlacesNext
<1>3. x \notin Ids(cancelQ)
  <2>1. Places[4] \cap Places[5] = {}
    BY Apart
  <2> QED BY <1>2, <2>1, PlacesAre
<1>4. Ids(cancelQ') = Ids(cancelQ) \cup {x} /\ Distinct(cancelQ') /\ Whole(cancelQ')
  <2>1. cancelQ \in Seq(SampleType) /\ Distinct(cancelQ) /\ Whole(cancelQ)
    BY ProcRecord DEF ConservedInv, CutOnce
  <2> QED BY <1>1, <1>2, <1>3, <2>1, AppendIds
<1> HIDE DEF x
<1>5. Places'[5] = Places[5] \cup {x} /\ CutOnce'
  BY <1>4, PlacesAre, PlacesNext DEF CutOnce
<1>6. \A c \in 1..9 \ {4, 5} : Places'[c] = Places[c]
  <2>1. /\ Places'[1] = Places[1] /\ Places'[2] = Places[2] /\ Places'[3] = Places[3]
        /\ Places'[6] = Places[6] /\ Places'[7] = Places[7] /\ Places'[8] = Places[8]
        /\ Places'[9] = Places[9]
    BY <1>1, PlacesFrame
  <2> QED BY <2>1, Nine
<1>7. Moves(4, 5, {x})
  BY <1>2, <1>5, <1>6 DEF Moves
<1>8. Sound(Places', feeder'.pos)
  BY <1>1, <1>7, MovesSound, ProcRecord
<1> QED BY <1>1, <1>2, <1>5, <1>8, KeepParts DEF ConservedInv

LEMMA FailConserved ==
    ASSUME TypeInv, ConservedInv, NEW t \in active, Fail(t)
    PROVE  ConservedInv'
<1> DEFINE x == t.sample.id
<1>1. /\ UNCHANGED <<feeder, pending, proc, mq, tr, trained, ckpt, cancelQ>>
      /\ ~Over(t) /\ lost' = lost \cup {<<x, "failed">>} /\ EndTask(t, "failed")
  BY DEF Fail, Over
<1>2. /\ Places'[4] = Places[4] \ {x} /\ TasksOnce' /\ x # DONE /\ x \in Places[4]
  <2>1. TasksOnce /\ active \subseteq TaskType
    BY ProcRecord DEF ConservedInv
  <2> QED BY <1>1, <2>1, EndRunning, PlacesAre, PlacesNext
<1> HIDE DEF x
<1>3. Places'[9] = Places[9] \cup {x}
  <2>1. {l[1] : l \in lost'} = {l[1] : l \in lost} \cup {x}
    BY <1>1, LostMore
  <2> QED BY <1>2, <2>1, PlacesAre, PlacesNext
<1>4. \A c \in 1..9 \ {4, 9} : Places'[c] = Places[c]
  <2>1. /\ Places'[1] = Places[1] /\ Places'[2] = Places[2] /\ Places'[3] = Places[3]
        /\ Places'[5] = Places[5] /\ Places'[6] = Places[6] /\ Places'[7] = Places[7]
        /\ Places'[8] = Places[8]
    BY <1>1, PlacesFrame
  <2> QED BY <2>1, Nine
<1>5. Moves(4, 9, {x})
  BY <1>2, <1>3, <1>4 DEF Moves
<1>6. Sound(Places', feeder'.pos)
  BY <1>1, <1>5, MovesSound, ProcRecord
<1> QED BY <1>1, <1>2, <1>6, KeepParts DEF ConservedInv

LEMMA CollectConserved == ASSUME TypeInv, ConservedInv, Collect PROVE ConservedInv'
<1> DEFINE h == Head(mq)
<1>1. /\ UNCHANGED <<feeder, pending, proc, active, cancelQ, trained, ckpt, lost>>
      /\ mq # <<>> /\ mq' = Tail(mq)
      /\ IF h = EndSignal THEN tr' = [tr EXCEPT !.at = "final"]
         ELSE tr' = [tr EXCEPT !.got = Append(tr.got, h),
                               !.at = IF Len(tr.got) + 1 = Required THEN "train" ELSE tr.at]
  BY DEF Collect, loopVars
<1>2. /\ Ids(mq') = Ids(mq) \ {h.id} /\ {h.id} \ {DONE} \subseteq Ids(mq) /\ Distinct(mq')
      /\ h \in SampleType /\ h = mq[1] /\ 1 \in DOMAIN mq
      /\ \A i \in DOMAIN mq' : i + 1 \in DOMAIN mq /\ mq'[i] = mq[i + 1]
  <2>1. mq \in Seq(SampleType) /\ Distinct(mq)
    BY ProcRecord DEF ConservedInv, QueueOnce
  <2> QED BY <1>1, <2>1, TailIds
<1>3. QueueOnce'
  BY <1>2 DEF ConservedInv, QueueOnce
<1>4. h.id = DONE <=> h = EndSignal
  BY <1>2, NothingTypes DEF ConservedInv, QueueOnce, EndSignal
<1>5. tr = [at |-> tr.at, got |-> tr.got, local |-> tr.local, version |-> tr.version,
            saved |-> tr.saved, closing |-> tr.closing]
  BY DEF TypeInv, TrainTypes
<1>6. /\ Places'[1] = Places[1] /\ Places'[2] = Places[2] /\ Places'[3] = Places[3]
      /\ Places'[4] = Places[4] /\ Places'[5] = Places[5] /\ Places'[8] = Places[8]
      /\ Places'[9] = Places[9]
  BY <1>1, PlacesFrame DEF Running, Collected
<1> HIDE DEF h
<1>7. CASE h = EndSignal
  <2>1. tr'.got = tr.got
    BY <1>1, <1>5, <1>7
  <2>2. Places'[6] = Places[6] /\ Places'[7] = Places[7]
    <3>1. DONE \notin Ids(mq)
      BY DEF Ids
    <3> QED BY <1>2, <1>4, <1>7, <2>1, <3>1, PlacesAre, PlacesNext, PlacesFrame
  <2>3. \A c \in 1..9 : Places'[c] = Places[c]
    BY <1>6, <2>2, Nine
  <2>4. Sound(Places', feeder'.pos)
    BY <1>1, <2>3, StaySound
  <2> QED BY <1>1, <1>3, <2>1, <2>4, KeepParts DEF ConservedInv
<1>8. CASE h # EndSignal
  <2>1. tr'.got = Append(tr.got, h)
    BY <1>1, <1>5, <1>8
  <2>2. h.id \notin Ids(tr.got) /\ h.id # DONE /\ h.id \in Ids(mq)
    <3>1. Places[6] \cap Places[7] = {}
      BY Apart
    <3> QED BY <1>2, <1>4, <1>8, <3>1, PlacesAre
  <2>3. Ids(tr'.got) = Ids(tr.got) \cup {h.id} /\ Distinct(tr'.got) /\ Whole(tr'.got)
    <3>1. tr.got \in Seq(SampleType) /\ Distinct(tr.got) /\ Whole(tr.got)
      BY ProcRecord DEF ConservedInv, GotOnce
    <3> QED BY <1>2, <2>1, <2>2, <3>1, AppendIds
  <2>4. /\ Places'[6] = Places[6] \ {h.id} /\ Places'[7] = Places[7] \cup {h.id}
        /\ {h.id} \subseteq Places[6]
    BY <1>2, <2>2, <2>3, PlacesAre, PlacesNext
  <2>5. \A c \in 1..9 \ {6, 7} : Places'[c] = Places[c]
    BY <1>6, Nine
  <2>6. Moves(6, 7, {h.id})
    BY <2>4, <2>5 DEF Moves
  <2>7. Sound(Places', feeder'.pos)
    BY <1>1, <2>6, MovesSound, ProcRecord
  <2>8. GotOnce'
    BY <2>3 DEF GotOnce
  <2> QED BY <1>1, <1>3, <2>7, <2>8, KeepParts DEF ConservedInv
<1> QED BY <1>7, <1>8

LEMMA TrainConserved == ASSUME TypeInv, ConservedInv, Train PROVE ConservedInv'
<1>1. /\ UNCHANGED <<feeder, pending, proc, active, cancelQ, mq, ckpt, lost>>
      /\ trained' = trained \cup Ids(tr.got)
      /\ \/ tr' = [tr EXCEPT !.at = "last", !.got = <<>>, !.local = 1, !.version = tr.version + 1]
         \/ tr' = [tr EXCEPT !.at = "save", !.got = <<>>, !.local = tr.local + 1]
  BY DEF Train, loopVars
<1>2. tr = [at |-> tr.at, got |-> tr.got, local |-> tr.local, version |-> tr.version,
            saved |-> tr.saved, closing |-> tr.closing]
  BY DEF TypeInv, TrainTypes
<1>3. tr'.got = <<>>
  BY <1>1, <1>2
<1>4. Ids(tr'.got) = {} /\ GotOnce'
  BY <1>3 DEF Ids, GotOnce, Distinct, Whole
<1>5. /\ Places'[7] = {} /\ Places[7] = Ids(tr.got) /\ Places'[8] = Places[8] \cup Ids(tr.got)
  BY <1>1, <1>4, PlacesAre, PlacesNext
<1>6. \A c \in 1..9 \ {7, 8} : Places'[c] = Places[c]
  <2>1. /\ Places'[1] = Places[1] /\ Places'[2] = Places[2] /\ Places'[3] = Places[3]
        /\ Places'[4] = Places[4] /\ Places'[5] = Places[5] /\ Places'[6] = Places[6]
        /\ Places'[9] = Places[9]
    BY <1>1, PlacesFrame DEF Running, Collected
  <2> QED BY <2>1, Nine
<1>7. Moves(7, 8, Ids(tr.got))
  BY <1>5, <1>6 DEF Moves
<1>8. Sound(Places', feeder'.pos)
  BY <1>1, <1>7, MovesSound, ProcRecord
<1> QED BY <1>1, <1>4, <1>8, KeepParts DEF ConservedInv

LEMMA OthersConserved ==
    ASSUME TypeInv, ConservedInv,
           Monitor \/ Synchronizer \/ Synchronize \/ Synchronized \/ Save \/ Finish \/ UNCHANGED vars
    PROVE  ConservedInv'
<1>1. UNCHANGED <<feeder, pending, cancelQ, mq, trained, lost>>
  BY DEF Monitor, MonitorCheck, MonitorUnpause, Synchronizer, PauseRollout, PausedRollout,
     TransferWeights, UpdateVersion, UpdateStaleness, AskResume, ResumeRollout, Synchronize,
     Synchronized, Save, Finish, vars, loopVars
<1>2. proc' = proc \/ (proc.at = "cond" /\ proc' = [proc EXCEPT !.at = "notified"])
  <2>1. proc' = proc \/ proc' = [proc EXCEPT !.at = IF proc.at = "cond" THEN "notified" ELSE proc.at]
    BY DEF Monitor, MonitorCheck, MonitorUnpause, Notify, Synchronizer, PauseRollout, PausedRollout,
       TransferWeights, UpdateVersion, UpdateStaleness, AskResume, ResumeRollout, Synchronize,
       Synchronized, Save, Finish, vars, loopVars
  <2> QED BY <2>1, ProcRecord
<1>3. proc'.hand.id = proc.hand.id /\ HandFits'
  BY <1>2, ProcRecord DEF ConservedInv, HandFits
<1>4. active' \subseteq active /\ Running' = Running
  <2>1. active' = active \/ (active' = {} /\ Collected(active) = active)
    BY DEF Monitor, MonitorCheck, MonitorUnpause, Synchronizer, PauseRollout, PausedRollout,
       TransferWeights, UpdateVersion, UpdateStaleness, AskResume, ResumeRollout, Synchronize,
       Synchronized, Save, Finish, vars, loopVars
  <2> QED BY <2>1 DEF Running, Collected
<1>5. tr = [at |-> tr.at, got |-> tr.got, local |-> tr.local, version |-> tr.version,
            saved |-> tr.saved, closing |-> tr.closing]
  BY DEF TypeInv, TrainTypes
<1>6. tr'.got = tr.got
  <2>1. CASE Monitor \/ Synchronizer \/ UNCHANGED vars
    BY <2>1 DEF Monitor, MonitorCheck, MonitorUnpause, Synchronizer, PauseRollout, PausedRollout,
       TransferWeights, UpdateVersion, UpdateStaleness, AskResume, ResumeRollout, vars
  <2>2. CASE Synchronize \/ Synchronized
    BY <1>5, <2>2 DEF Synchronize, Synchronized
  <2>3. CASE Save
    BY <1>5, <2>3 DEF Save
  <2>4. CASE Finish
    BY <1>5, <2>4 DEF Finish
  <2> QED BY <2>1, <2>2, <2>3, <2>4
<1>7. (ckpt.trained \subseteq 1..ckpt.pos)'
  <2>1. CASE Save
    <3>1. ckpt' = ckpt \/ ckpt' = [version |-> tr.version, pos |-> feeder.pos, trained |-> trained]
      BY <2>1 DEF Save
    <3>2. trained \subseteq 1..feeder.pos
      BY PlacesAre DEF ConservedInv, Sound
    <3>3. ckpt.trained \subseteq 1..ckpt.pos
      BY DEF ConservedInv
    <3>4. CASE ckpt' = [version |-> tr.version, pos |-> feeder.pos, trained |-> trained]
      <4>1. ckpt'.pos = feeder.pos /\ ckpt'.trained = trained
        BY <3>4
      <4> QED BY <3>2, <4>1
    <3> QED BY <3>1, <3>3, <3>4
  <2>2. CASE ~Save
    <3>1. ckpt' = ckpt
      BY <2>2 DEF Monitor, MonitorCheck, MonitorUnpause, Synchronizer, PauseRollout, PausedRollout,
         TransferWeights, UpdateVersion, UpdateStaleness, AskResume, ResumeRollout, Synchronize,
         Synchronized, Finish, vars
    <3> QED BY <3>1 DEF ConservedInv
  <2> QED BY <2>1, <2>2
<1> QED BY <1>1, <1>3, <1>4, <1>6, <1>7, StillConserved

\* A start with nothing in the queues.
LEMMA EmptyOnce ==
    /\ Single(<<>>) /\ Distinct(<<>>) /\ Whole(<<>>) /\ Positions(<<>>) = {} /\ Ids(<<>>) = {}
BY DEF Single, Distinct, Whole, Positions, Ids

LEMMA CrashConserved == ASSUME AsyncAssumption, TypeInv, ConservedInv, Crash PROVE ConservedInv'
<1> DEFINE n == ckpt.pos  T == ckpt.trained
<1>1. ckpt \in [version : Nat, pos : Nat, trained : SUBSET Nat] /\ T \subseteq 1..n /\ n \in Nat
  BY DEF TypeInv, TrainTypes, ConservedInv
<1>2. /\ feeder'.at = "put" /\ feeder'.pos = n + 1 /\ tr'.got = <<>>
      /\ proc' = [at |-> "top", goal |-> "pause", hand |-> Nothing]
  <2>1. feeder' = Fresh(ckpt).feeder /\ tr' = Fresh(ckpt).tr /\ proc' = Fresh(ckpt).proc
    BY DEF Crash
  <2>2. /\ Fresh(ckpt).feeder.at = "put" /\ Fresh(ckpt).feeder.pos = ckpt.pos + 1
        /\ Fresh(ckpt).proc = [at |-> "top", goal |-> "pause", hand |-> Nothing]
        /\ Fresh(ckpt).tr = [at |-> "collect", got |-> <<>>, local |-> 1, version |-> ckpt.version,
                            saved |-> ckpt.version, closing |-> FALSE]
    BY <1>1, FreshTypes
  <2>3. Fresh(ckpt).tr.got = <<>>
    BY <2>2
  <2> QED BY <1>1, <2>1, <2>2, <2>3
<1>3. /\ pending' = <<>> /\ cancelQ' = <<>> /\ mq' = <<>> /\ active' = {} /\ ckpt' = ckpt
      /\ trained' = T /\ lost' = {<<i, "resumed">> : i \in (1..n) \ T}
  BY DEF Crash
<1>4. Running' = {}
  BY <1>3 DEF Running
<1>5. {l[1] : l \in lost'} \ {DONE} = (1..n) \ T
  <2> DEFINE S == (1..n) \ T
  <2>1. {l[1] : l \in lost'} = S
    <3>1. lost' = {<<i, "resumed">> : i \in S}
      BY <1>3
    <3> HIDE DEF S
    <3>2. \A i \in S : <<i, "resumed">>[1] = i
      OBVIOUS
    <3>3. ASSUME NEW x \in S PROVE x \in {l[1] : l \in lost'}
      <4>1. <<x, "resumed">> \in lost'
        BY <3>1
      <4> QED BY <3>2, <4>1
    <3>4. ASSUME NEW l \in lost' PROVE l[1] \in S
      BY <3>1, <3>2
    <3> QED BY <3>3, <3>4
  <2> QED BY <1>1, <2>1 DEF DONE
<1> DEFINE Q == Places'
<1>6. /\ DOMAIN Q = 1..9 /\ Q[1] = {n + 1} /\ Q[8] = T /\ Q[9] = (1..n) \ T
      /\ Q[2] = {} /\ Q[3] = {} /\ Q[4] = {} /\ Q[5] = {} /\ Q[6] = {} /\ Q[7] = {}
  BY <1>2, <1>3, <1>4, <1>5, PlacesNext, EmptyOnce, NothingTypes
<1> HIDE DEF Q, n, T
<1>7. \A c \in 2..7 : Q[c] = {}
  <2>1. \A c \in 2..7 : c = 2 \/ c = 3 \/ c = 4 \/ c = 5 \/ c = 6 \/ c = 7
    OBVIOUS
  <2> QED BY <1>6, <2>1
<1>8. Sound(Q, n + 1)
  BY <1>1, <1>6, <1>7, FreshSound
<1>9. Sound(Places', feeder'.pos)
  BY <1>2, <1>8 DEF Q
<1>10. PendingOnce' /\ QueueOnce' /\ CutOnce' /\ GotOnce'
  BY <1>2, <1>3, EmptyOnce DEF PendingOnce, QueueOnce, CutOnce, GotOnce
<1>11. TasksOnce' /\ HandFits'
  BY <1>2, <1>3, <1>4, NothingTypes DEF TasksOnce, HandFits
<1> QED BY <1>1, <1>3, <1>9, <1>10, <1>11 DEF ConservedInv, n, T

LEMMA InitConserved == ASSUME AsyncAssumption, Init PROVE ConservedInv
<1>1. /\ NoCkpt \in [version : Nat, pos : Nat, trained : SUBSET Nat] /\ NoCkpt.pos = 0
      /\ NoCkpt.trained = {}
  BY DEF NoCkpt
<1>2. /\ feeder.at = "put" /\ feeder.pos = 1 /\ tr.got = <<>>
      /\ proc = [at |-> "top", goal |-> "pause", hand |-> Nothing]
  <2>1. feeder = Fresh(NoCkpt).feeder /\ tr = Fresh(NoCkpt).tr /\ proc = Fresh(NoCkpt).proc
    BY DEF Init
  <2>2. /\ Fresh(NoCkpt).feeder.at = "put" /\ Fresh(NoCkpt).feeder.pos = NoCkpt.pos + 1
        /\ Fresh(NoCkpt).proc = [at |-> "top", goal |-> "pause", hand |-> Nothing]
        /\ Fresh(NoCkpt).tr = [at |-> "collect", got |-> <<>>, local |-> 1, version |-> NoCkpt.version,
                            saved |-> NoCkpt.version, closing |-> FALSE]
    BY <1>1, FreshTypes
  <2>3. Fresh(NoCkpt).tr.got = <<>>
    BY <2>2
  <2> QED BY <1>1, <2>1, <2>2, <2>3
<1>3. /\ pending = <<>> /\ cancelQ = <<>> /\ mq = <<>> /\ active = {} /\ ckpt = NoCkpt
      /\ trained = {} /\ lost = {}
  BY DEF Init
<1>4. Running = {}
  BY <1>3 DEF Running
<1> DEFINE Q == Places
<1>6. /\ DOMAIN Q = 1..9 /\ Q[1] = {1} /\ Q[8] = {} /\ Q[9] = {}
      /\ Q[2] = {} /\ Q[3] = {} /\ Q[4] = {} /\ Q[5] = {} /\ Q[6] = {} /\ Q[7] = {}
  BY <1>2, <1>3, <1>4, PlacesAre, EmptyOnce, NothingTypes
<1> HIDE DEF Q
<1>7. \A c \in 2..7 : Q[c] = {}
  <2>1. \A c \in 2..7 : c = 2 \/ c = 3 \/ c = 4 \/ c = 5 \/ c = 6 \/ c = 7
    OBVIOUS
  <2> QED BY <1>6, <2>1
<1>8. Sound(Q, 0 + 1)
  <2>1. 0 \in Nat /\ {} \subseteq 1..0 /\ Q[1] = {0 + 1} /\ Q[9] = (1..0) \ {}
    BY <1>6
  <2> QED BY <1>6, <1>7, <2>1, FreshSound
<1>9. Sound(Places, feeder.pos)
  BY <1>2, <1>8 DEF Q
<1>10. PendingOnce /\ QueueOnce /\ CutOnce /\ GotOnce
  BY <1>2, <1>3, EmptyOnce DEF PendingOnce, QueueOnce, CutOnce, GotOnce
<1>11. TasksOnce /\ HandFits
  BY <1>2, <1>3, <1>4, NothingTypes DEF TasksOnce, HandFits
<1> QED BY <1>1, <1>3, <1>9, <1>10, <1>11 DEF ConservedInv

LEMMA ConservedNext == ASSUME AsyncAssumption, TypeInv, ConservedInv, [Next]_vars PROVE ConservedInv'
BY FeedConserved, CloseFeedConserved, ProcessorConserved, EndStreamConserved, CompleteConserved,
   InterruptConserved, FailConserved, CollectConserved, TrainConserved, OthersConserved,
   CrashConserved DEF Next, Trainer, Terminated

\* As many samples as entries that are samples.
LEMMA DistinctCount ==
    ASSUME NEW ss \in Seq(SampleType), Distinct(ss)
    PROVE  Cardinality(Ids(ss)) = Cardinality({i \in DOMAIN ss : ss[i].id # DONE})
<1> DEFINE S == {i \in DOMAIN ss : ss[i].id # DONE}  T == Ids(ss)  f == [i \in S |-> ss[i].id]
<1>1. IsFiniteSet(S)
  <2>1. Len(ss) \in Nat /\ S \subseteq 1..Len(ss)
    OBVIOUS
  <2> QED BY <2>1, FS_Interval, FS_Subset
<1>2. f \in Bijection(S, T)
  <2>1. f \in [S -> T]
    BY DEF Ids
  <2>2. \A i, j \in S : f[i] = f[j] => i = j
    BY DEF Distinct
  <2>3. \A x \in T : \E i \in S : f[i] = x
    BY DEF Ids
  <2> QED BY <2>1, <2>2, <2>3 DEF Bijection, Injection, Surjection, IsInjective
<1>3. ExistsBijection(S, T)
  BY <1>2 DEF ExistsBijection
<1> QED BY <1>1, <1>3, FS_Bijection

LEMMA FirstCount ==
    ASSUME NEW n \in Nat
    PROVE  IsFiniteSet(1..n) /\ Cardinality(1..n) = n
<1>1. 1 \in Int /\ n \in Int /\ (IF 1 > n THEN 0 ELSE n - 1 + 1) = n
  OBVIOUS
<1> QED BY <1>1, FS_Interval

LEMMA ConservedFollows == TypeInv /\ ConservedInv => Conserved
<1> SUFFICES ASSUME TypeInv, ConservedInv PROVE Conserved
  OBVIOUS
<1>1. \A i \in 1..feeder.pos : \E p \in DOMAIN Places :
         i \in Places[p] /\ \A q \in DOMAIN Places \ {p} : i \notin Places[q]
  BY DEF ConservedInv, Sound, Once
<1>2. Cardinality(Ids(mq)) = Cardinality({i \in DOMAIN mq : mq[i] # EndSignal})
  <2>1. {i \in DOMAIN mq : mq[i] # EndSignal} = {i \in DOMAIN mq : mq[i].id # DONE}
    BY NothingTypes DEF ConservedInv, QueueOnce, EndSignal
  <2> QED BY <2>1, DistinctCount, ProcRecord DEF ConservedInv, QueueOnce
<1>3. Cardinality(Ids(cancelQ)) = Len(cancelQ)
  <2>1. cancelQ \in Seq(SampleType) /\ Len(cancelQ) \in Nat
    BY ProcRecord
  <2>2. {i \in DOMAIN cancelQ : cancelQ[i].id # DONE} = 1..Len(cancelQ)
    BY <2>1 DEF ConservedInv, CutOnce, Whole
  <2>3. Cardinality(1..Len(cancelQ)) = Len(cancelQ)
    BY <2>1, FirstCount
  <2>4. Cardinality(Ids(cancelQ)) = Cardinality({i \in DOMAIN cancelQ : cancelQ[i].id # DONE})
    <3>1. Distinct(cancelQ)
      BY DEF ConservedInv, CutOnce
    <3> QED BY <2>1, <3>1, DistinctCount
  <2> QED BY <2>2, <2>3, <2>4, Zenon
<1> QED BY <1>1, <1>2, <1>3 DEF Conserved

\* Whatever is interrupted, taken up again, evicted, failed or resumed, every
\* sample drawn is in exactly one place of the system.
THEOREM SamplesConserved == Spec => []Conserved
<1>1. Init => TypeInv /\ ConservedInv
  BY TypeInit, InitConserved, AsyncAssumption
<1>2. TypeInv /\ ConservedInv /\ [Next]_vars => (TypeInv /\ ConservedInv)'
  BY TypeNext, ConservedNext, AsyncAssumption
<1> QED BY <1>1, <1>2, ConservedFollows, PTL DEF Spec

-----------------------------------------------------------------------------
(* The freshness bound.                                                    *)

Held == Cardinality({proc.hand.id} \ {DONE})
Going == Cardinality(Running)
Cut == Len(cancelQ)
Queued == Cardinality(Ids(mq))
InFlight == Held + Going + Cut + Queued

\* What staleness_samples misses is at most the sample in hand; the
\* synchronizer's count covers what is under way until it asks the queue.
BoundInv ==
    /\ InFlight <= staleness + 1 /\ InFlight <= MaxRequired + 1
    /\ proc.at = "get" => InFlight <= MaxRequired
    /\ sync.at = "size" => Going + Cut <= sync.seen

LEMMA IdsFinite ==
    ASSUME NEW ss \in Seq(SampleType)
    PROVE  IsFiniteSet(Ids(ss)) /\ Cardinality(Ids(ss)) \in Nat /\ Cardinality(Ids(ss)) <= Len(ss)
<1> DEFINE n == Len(ss)  T == {ss[i].id : i \in DOMAIN ss}  f == [i \in 1..n |-> ss[i].id]
<1>1. n \in Nat /\ DOMAIN ss = 1..n
  OBVIOUS
<1>2. IsFiniteSet(1..n) /\ Cardinality(1..n) = n
  BY <1>1, FS_Interval
<1>3. f \in Surjection(1..n, T)
  <2>1. f \in [1..n -> T] /\ \A x \in T : \E i \in 1..n : f[i] = x
    BY <1>1
  <2> QED BY <2>1 DEF Surjection
<1>4. IsFiniteSet(T) /\ Cardinality(T) <= n
  BY <1>2, <1>3, FS_Surjection
<1>5. Ids(ss) = T \ {DONE} /\ Ids(ss) \in SUBSET T
  BY DEF Ids
<1> HIDE DEF T, n
<1>6. IsFiniteSet(Ids(ss)) /\ Cardinality(Ids(ss)) <= Cardinality(T)
  BY <1>4, <1>5, FS_Subset
<1>7. Cardinality(Ids(ss)) \in Nat /\ Cardinality(T) \in Nat
  BY <1>4, <1>6, FS_CardinalityType
<1> QED BY <1>1, <1>4, <1>6, <1>7 DEF n

SizesFit ==
    /\ IsFiniteSet(Running) /\ IsFiniteSet(Ids(mq)) /\ IsFiniteSet(active)
    /\ Going \in Nat /\ Cut \in Nat /\ Queued \in Nat /\ Held \in {0, 1}
    /\ Held = (IF proc.hand.id = DONE THEN 0 ELSE 1)
    /\ Queued <= Len(mq) /\ Len(mq) \in Nat /\ staleness \in Nat /\ sync.seen \in Nat
    /\ Going <= Cardinality(active) /\ Cardinality(active) \in Nat
    /\ InFlight = Held + Going + Cut + Queued

LEMMA Sizes == ASSUME TypeInv PROVE SizesFit
<1>1. IsFiniteSet(active) /\ mq \in Seq(SampleType) /\ cancelQ \in Seq(SampleType)
      /\ staleness \in Nat /\ sync.seen \in Nat
  BY DEF TypeInv, TaskTypes, QueueTypes, CountTypes, SyncTypes
<1>2. Running \in SUBSET active
  BY DEF Running
<1>3. IsFiniteSet(Running) /\ Going <= Cardinality(active)
  BY <1>1, <1>2, FS_Subset DEF Going
<1>4. Going \in Nat /\ Cardinality(active) \in Nat
  BY <1>1, <1>3, FS_CardinalityType DEF Going
<1>5. Held = (IF proc.hand.id = DONE THEN 0 ELSE 1)
  <2>1. CASE proc.hand.id = DONE
    <3>1. {proc.hand.id} \ {DONE} = {}
      BY <2>1
    <3> QED BY <2>1, <3>1, FS_EmptySet DEF Held
  <2>2. CASE proc.hand.id # DONE
    <3>1. {proc.hand.id} \ {DONE} = {proc.hand.id}
      BY <2>2
    <3> QED BY <2>2, <3>1, FS_Singleton DEF Held
  <2> QED BY <2>1, <2>2
<1>6. Cut \in Nat /\ Len(mq) \in Nat
  BY <1>1 DEF Cut
<1>7. IsFiniteSet(Ids(mq)) /\ Queued \in Nat /\ Queued <= Len(mq)
  BY <1>1, IdsFinite DEF Queued
<1> QED BY <1>1, <1>3, <1>4, <1>5, <1>6, <1>7 DEF InFlight, SizesFit

LEMMA SizesNext == TypeInv' => SizesFit'
<1>1. TypeInv => SizesFit
  BY Sizes
<1> QED BY <1>1, PTL

\* Nothing is added to what is in flight.
LEMMA BoundKept ==
    ASSUME AsyncAssumption, TypeInv, TypeInv', BoundInv, staleness' = staleness,
           Held' + Going' + Cut' + Queued' <= Held + Going + Cut + Queued,
           proc'.at = "get" => proc.at = "get",
           sync'.at = "size" => sync' = sync /\ Going' + Cut' <= Going + Cut
    PROVE  BoundInv'
<1>1. /\ Going \in Nat /\ Cut \in Nat /\ Queued \in Nat /\ Held \in Nat
      /\ InFlight = Held + Going + Cut + Queued /\ staleness \in Nat /\ sync.seen \in Nat
  BY Sizes DEF SizesFit
<1>2. /\ Going' \in Nat /\ Cut' \in Nat /\ Queued' \in Nat /\ Held' \in Nat
      /\ InFlight' = Held' + Going' + Cut' + Queued'
  BY SizesNext DEF SizesFit
<1>3. /\ Held' + Going' + Cut' + Queued' <= Held + Going + Cut + Queued
      /\ sync'.at = "size" => sync'.seen = sync.seen /\ sync.at = "size" /\ Going' + Cut' <= Going + Cut
      /\ MaxRequired \in Nat /\ staleness' = staleness
  BY Constants
<1>4. /\ InFlight <= staleness + 1 /\ InFlight <= MaxRequired + 1
      /\ proc.at = "get" => InFlight <= MaxRequired
      /\ sync.at = "size" => Going + Cut <= sync.seen
  BY DEF BoundInv
<1> DEFINE h == Held  g == Going  c == Cut  q == Queued  f == InFlight
           h2 == Held'  g2 == Going'  c2 == Cut'  q2 == Queued'  f2 == InFlight'
           n == sync.seen  n2 == sync'.seen  s == staleness  s2 == staleness'
<1>5. /\ g \in Nat /\ c \in Nat /\ q \in Nat /\ h \in Nat /\ f = h + g + c + q /\ s \in Nat /\ n \in Nat
      /\ g2 \in Nat /\ c2 \in Nat /\ q2 \in Nat /\ h2 \in Nat /\ f2 = h2 + g2 + c2 + q2
      /\ h2 + g2 + c2 + q2 <= h + g + c + q /\ MaxRequired \in Nat /\ s2 = s
      /\ f <= s + 1 /\ f <= MaxRequired + 1
      /\ proc.at = "get" => f <= MaxRequired
      /\ sync.at = "size" => g + c <= n
      /\ sync'.at = "size" => n2 = n /\ sync.at = "size" /\ g2 + c2 <= g + c
  BY <1>1, <1>2, <1>3, <1>4, Zenon
<1> HIDE DEF h, g, c, q, f, h2, g2, c2, q2, f2, n, n2, s, s2
<1>6. /\ f2 <= s2 + 1 /\ f2 <= MaxRequired + 1
      /\ proc'.at = "get" => f2 <= MaxRequired
      /\ sync'.at = "size" => g2 + c2 <= n2
  BY <1>5
<1> QED BY <1>6, Zenon DEF BoundInv, g2, c2, f2, n2, s2

LEMMA SameSizes ==
    /\ proc'.hand.id = proc.hand.id => Held' = Held
    /\ Running' = Running => Going' = Going
    /\ cancelQ' = cancelQ => Cut' = Cut
    /\ mq' = mq => Queued' = Queued
BY DEF Held, Going, Cut, Queued, Ids

\* A sample counted in staleness_samples is taken.
LEMMA TakeBound ==
    ASSUME AsyncAssumption, TypeInv, TypeInv', ConservedInv, BoundInv,
           proc.at \in {"top", "get"}, TakePending, InFlight <= MaxRequired,
           UNCHANGED <<active, cancelQ, mq, sync>>
    PROVE  BoundInv'
<1>1. /\ Going \in Nat /\ Cut \in Nat /\ Queued \in Nat /\ staleness \in Nat
      /\ InFlight = Held + Going + Cut + Queued /\ Held = 0
  BY Sizes DEF SizesFit, ConservedInv, HandFits
<1>2. /\ Going' = Going /\ Cut' = Cut /\ Queued' = Queued /\ Held' \in {0, 1}
      /\ InFlight' = Held' + Going' + Cut' + Queued'
  BY SameSizes, SizesNext DEF SizesFit, Running, Collected
<1>3. staleness' = staleness + 1 /\ proc'.at = "check" /\ sync' = sync
  BY DEF TakePending
<1>4. InFlight <= staleness + 1 /\ (sync.at = "size" => Going + Cut <= sync.seen) /\ MaxRequired \in Nat
  BY Constants DEF BoundInv
<1> DEFINE g == Going  c == Cut  q == Queued  f == InFlight  h2 == Held'  f2 == InFlight'
           s == staleness  s2 == staleness'
<1>5. /\ g \in Nat /\ c \in Nat /\ q \in Nat /\ s \in Nat /\ f = 0 + g + c + q
      /\ h2 \in {0, 1} /\ f2 = h2 + g + c + q /\ s2 = s + 1 /\ f <= s + 1 /\ f <= MaxRequired
      /\ MaxRequired \in Nat
  BY <1>1, <1>2, <1>3, <1>4
<1> HIDE DEF g, c, q, f, h2, f2, s, s2
<1>6. f2 <= s2 + 1 /\ f2 <= MaxRequired + 1
  BY <1>5
<1>7. sync'.at = "size" => Going' + Cut' <= sync'.seen
  BY <1>2, <1>3, <1>4
<1> QED BY <1>3, <1>6, <1>7 DEF BoundInv, f2, s2

LEMMA HeldAtMost ==
    ASSUME TypeInv, TypeInv', proc'.hand.id = proc.hand.id \/ proc'.hand.id = DONE
    PROVE  Held' <= Held
<1>1. /\ Held = (IF proc.hand.id = DONE THEN 0 ELSE 1)
      /\ Held' = (IF proc'.hand.id = DONE THEN 0 ELSE 1)
  BY Sizes, SizesNext DEF SizesFit
<1> HIDE DEF Held
<1> QED BY <1>1

\* A step that moves no sample but out of the hand or the queue.
LEMMA StillBound ==
    ASSUME AsyncAssumption, TypeInv, TypeInv', BoundInv, staleness' = staleness,
           cancelQ' = cancelQ, Ids(mq') \subseteq Ids(mq), Running' = Running,
           proc'.hand.id = proc.hand.id \/ proc'.hand.id = DONE,
           proc'.at = "get" => proc.at = "get", sync'.at = "size" => sync' = sync
    PROVE  BoundInv'
<1>1. Held' <= Held /\ Going' = Going /\ Cut' = Cut
  BY HeldAtMost, SameSizes, Zenon
<1>2. Queued' <= Queued
  <2>1. Cardinality(Ids(mq')) <= Cardinality(Ids(mq))
    <3>1. IsFiniteSet(Ids(mq))
      BY Sizes DEF SizesFit
    <3> QED BY <3>1, FS_Subset
  <2> QED BY <2>1 DEF Queued, Ids
<1>3. /\ Going \in Nat /\ Cut \in Nat /\ Queued \in Nat /\ Held \in {0, 1}
      /\ Queued' \in Nat /\ Held' \in {0, 1}
  BY Sizes, SizesNext, Zenon DEF SizesFit
<1> DEFINE h == Held  g == Going  c == Cut  q == Queued
           h2 == Held'  g2 == Going'  c2 == Cut'  q2 == Queued'
<1>4. /\ h \in Nat /\ g \in Nat /\ c \in Nat /\ q \in Nat /\ h2 \in Nat /\ q2 \in Nat
      /\ h2 <= h /\ g2 = g /\ c2 = c /\ q2 <= q
  BY <1>1, <1>2, <1>3
<1> HIDE DEF h, g, c, q, h2, g2, c2, q2
<1>5. h2 + g2 + c2 + q2 <= h + g + c + q /\ g2 + c2 <= g + c
  BY <1>4
<1>6. /\ Held' + Going' + Cut' + Queued' <= Held + Going + Cut + Queued
      /\ Going' + Cut' <= Going + Cut
  BY <1>5 DEF h, g, c, q, h2, g2, c2, q2
<1> QED BY <1>6, BoundKept

\* Where generation is not to pause there is room for one more sample.
LEMMA RoomForOne ==
    ASSUME AsyncAssumption, TypeInv, BoundInv, ~ShouldPause
    PROVE  InFlight <= MaxRequired
<1>1. staleness \in Nat /\ MaxRequired \in Nat /\ InFlight <= staleness + 1 /\ staleness < MaxRequired
      /\ InFlight \in Nat
  <2>1. staleness \in Nat /\ MaxRequired \in Nat /\ InFlight <= staleness + 1
    BY Sizes, Constants DEF SizesFit, BoundInv
  <2>2. InFlight \in Nat
    <3>1. Held \in Nat /\ Going \in Nat /\ Cut \in Nat /\ Queued \in Nat
      BY Sizes DEF SizesFit
    <3> HIDE DEF Held, Going, Cut, Queued
    <3> QED BY <3>1 DEF InFlight
  <2> QED BY <2>1, <2>2 DEF ShouldPause
<1> HIDE DEF InFlight
<1> QED BY <1>1

LEMMA TopBound ==
    ASSUME AsyncAssumption, TypeInv, TypeInv', ConservedInv, BoundInv, ProcTop
    PROVE  BoundInv'
<1>1. proc.at = "top" /\ proc.hand.id = DONE /\ UNCHANGED <<active, mq, sync>>
  BY DEF ProcTop, ConservedInv, HandFits
<1>2. Running' = Running /\ Ids(mq') = Ids(mq)
  BY <1>1 DEF Running, Collected
<1>3. CASE paused \/ ShouldPause
  <2>1. UNCHANGED <<cancelQ, staleness>> /\ proc' = [at |-> "hold", goal |-> "pause", hand |-> Nothing]
    BY <1>3 DEF ProcTop, Want
  <2> QED BY <1>1, <1>2, <2>1, NothingTypes, StillBound
<1>4. CASE ~(paused \/ ShouldPause) /\ cancelQ # <<>>
  <2>1. /\ proc' = [at |-> "check", goal |-> "limit", hand |-> Head(cancelQ)]
        /\ cancelQ' = Tail(cancelQ) /\ staleness' = staleness
    BY <1>4 DEF ProcTop
  <2>2. Len(cancelQ) \in Nat /\ Len(cancelQ') = Len(cancelQ) - 1
    <3>1. cancelQ \in Seq(SampleType)
      BY ProcRecord
    <3> QED BY <1>4, <2>1, <3>1
  <2>3. Cut \in Nat /\ Cut' = Cut - 1 /\ Going' = Going /\ Queued' = Queued
    BY <1>1, <1>2, <2>2, SameSizes DEF Cut
  <2>4. Held = 0 /\ Held' \in {0, 1} /\ Going \in Nat /\ Queued \in Nat
    BY <1>1, Sizes, SizesNext DEF SizesFit
  <2> DEFINE h == Held  g == Going  c == Cut  q == Queued
             h2 == Held'  g2 == Going'  c2 == Cut'  q2 == Queued'
  <2>5. /\ h = 0 /\ h2 \in {0, 1} /\ g \in Nat /\ q \in Nat /\ c \in Nat
        /\ g2 = g /\ q2 = q /\ c2 = c - 1
    BY <2>3, <2>4
  <2> HIDE DEF h, g, c, q, h2, g2, c2, q2
  <2>6. h2 + g2 + c2 + q2 <= h + g + c + q /\ g2 + c2 <= g + c
    BY <2>5
  <2>7. /\ Held' + Going' + Cut' + Queued' <= Held + Going + Cut + Queued
        /\ Going' + Cut' <= Going + Cut
    BY <2>6 DEF h, g, c, q, h2, g2, c2, q2
  <2>8. proc'.at # "get"
    BY <2>1
  <2> QED BY <1>1, <2>1, <2>7, <2>8, BoundKept
<1>5. CASE ~(paused \/ ShouldPause) /\ cancelQ = <<>> /\ pending # <<>>
  BY <1>1, <1>5, RoomForOne, TakeBound DEF ProcTop
<1>6. CASE ~(paused \/ ShouldPause) /\ cancelQ = <<>> /\ pending = <<>>
  <2>1. UNCHANGED <<cancelQ, staleness>> /\ proc' = [proc EXCEPT !.at = "get"]
    BY <1>6 DEF ProcTop
  <2>2. proc'.hand = proc.hand
    BY <2>1, ProcRecord
  <2>3. Held' = Held /\ Going' = Going /\ Cut' = Cut /\ Queued' = Queued
    BY <1>1, <1>2, <2>1, <2>2, SameSizes
  <2>4. InFlight' = InFlight
    BY <2>3 DEF InFlight
  <2>5. InFlight <= MaxRequired
    BY <1>6, RoomForOne
  <2>6. /\ InFlight <= staleness + 1 /\ InFlight <= MaxRequired + 1
        /\ sync.at = "size" => Going + Cut <= sync.seen
    BY DEF BoundInv
  <2> QED BY <1>1, <2>1, <2>3, <2>4, <2>5, <2>6 DEF BoundInv
<1> QED BY <1>3, <1>4, <1>5, <1>6

LEMMA SubmitBound ==
    ASSUME AsyncAssumption, TypeInv, TypeInv', ConservedInv, BoundInv, ProcSubmit
    PROVE  BoundInv'
<1>1. /\ UNCHANGED <<cancelQ, mq, staleness, sync>> /\ proc.at = "hold" /\ lock = "proc"
      /\ proc.goal = "submit"
  BY DEF ProcSubmit
<1>2. CASE paused
  <2>1. active' = active /\ proc' = [proc EXCEPT !.at = "cond"]
    BY <1>2 DEF ProcSubmit
  <2>2. proc'.hand = proc.hand /\ proc'.at # "get"
    BY <2>1, ProcRecord
  <2>3. Running' = Running
    BY <2>1 DEF Running, Collected
  <2> QED BY <1>1, <2>2, <2>3, StillBound
<1>3. CASE ~paused
  <2> DEFINE u == Task(proc.hand)
  <2>1. active' = active \cup {u} /\ proc' = [proc EXCEPT !.at = "top", !.hand = Nothing]
    BY <1>3 DEF ProcSubmit
  <2>2. proc.hand.id # DONE /\ proc'.hand = Nothing /\ proc'.at = "top"
    <3>1. proc.hand.id # DONE
      BY <1>1 DEF ConservedInv, HandFits
    <3> QED BY <2>1, <3>1, ProcRecord
  <2>3. Held = 1 /\ Held' = 0
    BY <2>2, Sizes, SizesNext, NothingTypes DEF SizesFit
  <2> HIDE DEF u
  <2>4. Running' \subseteq Running \cup {u}
    BY <2>1 DEF Running, Collected
  <2>5. IsFiniteSet(Running) /\ Going \in Nat /\ Cut \in Nat /\ Queued \in Nat /\ Going' \in Nat
    BY Sizes, SizesNext DEF SizesFit
  <2>6. Going' <= Going + 1
    <3>1. /\ IsFiniteSet(Running \cup {u})
          /\ Cardinality(Running \cup {u}) = IF u \in Running THEN Cardinality(Running) ELSE Cardinality(Running) + 1
      BY <2>5, FS_AddElement
    <3>2. Cardinality(Running') <= Cardinality(Running \cup {u})
      BY <2>4, <3>1, FS_Subset
    <3>3. Cardinality(Running) \in Nat /\ Cardinality(Running') \in Nat
      BY <2>5 DEF Going
    <3>4. Cardinality(Running') <= Cardinality(Running) + 1
      BY <3>1, <3>2, <3>3
    <3> QED BY <3>4 DEF Going
  <2>7. Cut' = Cut /\ Queued' = Queued
    BY <1>1, SameSizes
  <2> DEFINE h == Held  g == Going  c == Cut  q == Queued
             h2 == Held'  g2 == Going'  c2 == Cut'  q2 == Queued'
  <2>8. /\ h = 1 /\ h2 = 0 /\ g \in Nat /\ q \in Nat /\ c \in Nat /\ g2 \in Nat
        /\ g2 <= g + 1 /\ q2 = q /\ c2 = c
    BY <2>3, <2>5, <2>6, <2>7
  <2> HIDE DEF h, g, c, q, h2, g2, c2, q2
  <2>9. h2 + g2 + c2 + q2 <= h + g + c + q
    BY <2>8
  <2>10. Held' + Going' + Cut' + Queued' <= Held + Going + Cut + Queued
    BY <2>9 DEF h, g, c, q, h2, g2, c2, q2
  <2>11. sync.at # "size" /\ sync' = sync
    BY <1>1 DEF TypeInv, Holding
  <2>12. sync'.at # "size" /\ proc'.at # "get"
    BY <2>2, <2>11
  <2> QED BY <1>1, <2>10, <2>12, BoundKept
<1> QED BY <1>2, <1>3

\* A task that ends is one fewer under way.
LEMMA EndGoing ==
    ASSUME TypeInv, TypeInv', ConservedInv, NEW t \in active, ~Over(t),
           NEW st \in {"done", "failed"}, EndTask(t, st)
    PROVE  Going' + 1 = Going
<1>1. Running' = Running \ {t} /\ t \in Running
  <2>1. active \subseteq TaskType /\ TasksOnce
    BY ProcRecord DEF ConservedInv
  <2> QED BY <2>1, EndRunning
<1>2. IsFiniteSet(Running) /\ Going \in Nat
  BY Sizes DEF SizesFit
<1>3. Cardinality(Running') = Cardinality(Running) - 1
  BY <1>1, <1>2, FS_RemoveElement
<1>4. Cardinality(Running) \in Nat
  BY <1>2 DEF Going
<1>5. Cardinality(Running') + 1 = Cardinality(Running)
  BY <1>3, <1>4
<1> QED BY <1>5 DEF Going

\* put_sample adds one sample at most, none for the end signal.
LEMMA PutQueued ==
    ASSUME AsyncAssumption, TypeInv, TypeInv', NEW s \in SampleType, Put(s)
    PROVE  /\ Ids(mq') \subseteq Ids(mq) \cup ({s.id} \ {DONE})
           /\ Queued' <= Queued + 1
<1> DEFINE m == IF Len(mq) >= MaxRequired THEN Tail(mq) ELSE mq
<1>1. mq \in Seq(SampleType) /\ (Len(mq) >= MaxRequired => mq # <<>>)
  BY ProcRecord, Constants
<1>2. m \in Seq(SampleType) /\ Ids(m) \subseteq Ids(mq)
  <2>1. CASE Len(mq) >= MaxRequired
    <3>1. /\ Tail(mq) \in Seq(SampleType)
          /\ \A i \in DOMAIN Tail(mq) : i + 1 \in DOMAIN mq /\ Tail(mq)[i] = mq[i + 1]
      BY <1>1, <2>1
    <3>2. Ids(Tail(mq)) \subseteq Ids(mq)
      BY <3>1 DEF Ids
    <3> QED BY <2>1, <3>1, <3>2
  <2>2. CASE ~(Len(mq) >= MaxRequired)
    BY <1>1, <2>2
  <2> QED BY <2>1, <2>2
<1>3. mq' = Append(m, s)
  BY DEF Put
<1> HIDE DEF m
<1>4. Ids(mq') \subseteq Ids(m) \cup ({s.id} \ {DONE})
  <2>1. \A i \in DOMAIN Append(m, s) : Append(m, s)[i] = s \/ (i \in DOMAIN m /\ Append(m, s)[i] = m[i])
    BY <1>2
  <2> QED BY <1>3, <2>1 DEF Ids
<1>5. Ids(mq') \subseteq Ids(mq) \cup {s.id}
  BY <1>2, <1>4
<1>6. IsFiniteSet(Ids(mq)) /\ Queued \in Nat /\ Queued' \in Nat
  BY Sizes, SizesNext, Zenon DEF SizesFit
<1>7. /\ IsFiniteSet(Ids(mq) \cup {s.id})
      /\ Cardinality(Ids(mq) \cup {s.id}) = IF s.id \in Ids(mq) THEN Cardinality(Ids(mq)) ELSE Cardinality(Ids(mq)) + 1
  BY <1>6, FS_AddElement
<1>8. Cardinality(Ids(mq')) <= Cardinality(Ids(mq) \cup {s.id})
  BY <1>5, <1>7, FS_Subset
<1>9. Cardinality(Ids(mq)) \in Nat /\ Cardinality(Ids(mq')) \in Nat
  BY <1>6 DEF Queued, Ids
<1>10. Cardinality(Ids(mq')) <= Cardinality(Ids(mq)) + 1
  BY <1>7, <1>8, <1>9
<1>11. Queued' <= Queued + 1
  BY <1>10 DEF Queued, Ids
<1> QED BY <1>2, <1>4, <1>11

LEMMA TaskBound ==
    ASSUME AsyncAssumption, TypeInv, TypeInv', ConservedInv, BoundInv, NEW t \in active,
           Complete(t) \/ Interrupt(t) \/ Fail(t)
    PROVE  BoundInv'
<1>1. UNCHANGED <<proc, staleness, sync>> /\ ~Over(t) /\ \E st \in {"done", "failed"} : EndTask(t, st)
  BY DEF Complete, Interrupt, Fail, Over
<1>2. Going' + 1 = Going
  BY <1>1, EndGoing
<1>3. Held' = Held
  BY <1>1, SameSizes
<1>4. Cut' + Queued' <= Cut + Queued + 1 /\ Cut' <= Cut + 1
  <2>1. Cut \in Nat /\ Queued \in Nat /\ Cut' \in Nat /\ Queued' \in Nat
    BY Sizes, SizesNext, Zenon DEF SizesFit
  <2>2. CASE Complete(t)
    <3>1. cancelQ' = cancelQ /\ Put([t.sample EXCEPT !.stamp = version])
      BY <2>2 DEF Complete
    <3>2. [t.sample EXCEPT !.stamp = version] \in SampleType
      <4>1. t.sample \in SampleType /\ version \in Nat
        BY ProcRecord DEF TaskType, TypeInv, CountTypes
      <4> QED BY <4>1 DEF SampleType
    <3>3. Cut' = Cut /\ Queued' <= Queued + 1
      BY <3>1, <3>2, PutQueued, SameSizes
    <3> DEFINE c == Cut  q == Queued  c2 == Cut'  q2 == Queued'
    <3>4. c \in Nat /\ q \in Nat /\ c2 = c /\ q2 <= q + 1 /\ q2 \in Nat
      BY <2>1, <3>3
    <3> HIDE DEF c, q, c2, q2
    <3>5. c2 + q2 <= c + q + 1 /\ c2 <= c + 1
      BY <3>4
    <3> QED BY <3>5 DEF c, q, c2, q2
  <2>3. CASE Interrupt(t)
    <3>1. cancelQ' = Append(cancelQ, t.sample) /\ mq' = mq
      BY <2>3 DEF Interrupt
    <3>2. cancelQ \in Seq(SampleType) /\ t.sample \in SampleType
      BY ProcRecord DEF TaskType
    <3>3. Len(cancelQ') = Len(cancelQ) + 1
      BY <3>1, <3>2
    <3>4. Cut' = Cut + 1 /\ Queued' = Queued
      BY <3>1, <3>3, SameSizes DEF Cut
    <3> QED BY <2>1, <3>4
  <2>4. CASE Fail(t)
    <3>1. cancelQ' = cancelQ /\ mq' = mq
      BY <2>4 DEF Fail
    <3>2. Cut' = Cut /\ Queued' = Queued
      BY <3>1, SameSizes
    <3> QED BY <2>1, <3>2
  <2> QED BY <2>2, <2>3, <2>4
<1>5. /\ Held \in {0, 1} /\ Going \in Nat /\ Cut \in Nat /\ Queued \in Nat
      /\ Going' \in Nat /\ Cut' \in Nat /\ Queued' \in Nat
  BY Sizes, SizesNext, Zenon DEF SizesFit
<1> DEFINE h == Held  g == Going  c == Cut  q == Queued
           h2 == Held'  g2 == Going'  c2 == Cut'  q2 == Queued'
<1>6. /\ h \in {0, 1} /\ g \in Nat /\ q \in Nat /\ c \in Nat /\ g2 \in Nat /\ c2 \in Nat /\ q2 \in Nat
      /\ h2 = h /\ g2 + 1 = g /\ c2 + q2 <= c + q + 1 /\ c2 <= c + 1
  BY <1>2, <1>3, <1>4, <1>5
<1> HIDE DEF h, g, c, q, h2, g2, c2, q2
<1>7. h2 + g2 + c2 + q2 <= h + g + c + q /\ g2 + c2 <= g + c
  BY <1>6
<1>8. /\ Held' + Going' + Cut' + Queued' <= Held + Going + Cut + Queued
      /\ Going' + Cut' <= Going + Cut
  BY <1>7 DEF h, g, c, q, h2, g2, c2, q2
<1> QED BY <1>1, <1>8, BoundKept

\* The processor's other steps.
LEMMA ProcessorBound ==
    ASSUME AsyncAssumption, TypeInv, TypeInv', ConservedInv, BoundInv, Processor
    PROVE  BoundInv'
<1>1. CASE ProcGet
  <2>1. proc.at = "get" /\ TakePending /\ UNCHANGED <<active, cancelQ, mq, sync>>
    BY <1>1 DEF ProcGet
  <2>2. InFlight <= MaxRequired
    BY <2>1 DEF BoundInv
  <2> QED BY <2>1, <2>2, TakeBound
<1>2. CASE ProcCheck
  <2>1. /\ UNCHANGED <<active, cancelQ, mq, sync, staleness>>
        /\ \/ proc' = [at |-> "hold", goal |-> proc.goal, hand |-> proc.hand]
           \/ proc' = [at |-> "hold", goal |-> "resume", hand |-> Nothing]
           \/ proc' = [at |-> "hold", goal |-> "submit", hand |-> proc.hand]
           \/ proc' = [proc EXCEPT !.at = "end"]
    BY <1>2 DEF ProcCheck, Want
  <2>2. (proc'.hand.id = proc.hand.id \/ proc'.hand.id = DONE) /\ proc'.at # "get"
    <3>1. CASE proc' = [at |-> "hold", goal |-> proc.goal, hand |-> proc.hand]
               \/ proc' = [at |-> "hold", goal |-> "submit", hand |-> proc.hand]
      BY <3>1
    <3>2. CASE proc' = [at |-> "hold", goal |-> "resume", hand |-> Nothing]
      BY <3>2, NothingTypes
    <3>3. CASE proc' = [proc EXCEPT !.at = "end"]
      BY <3>3, ProcRecord
    <3> QED BY <2>1, <3>1, <3>2, <3>3
  <2>3. Running' = Running /\ Ids(mq') = Ids(mq)
    BY <2>1 DEF Running, Collected
  <2> QED BY <2>1, <2>2, <2>3, StillBound
<1>3. CASE ProcPause \/ ProcResume \/ ProcAwait \/ ProcAwaited \/ ProcNotified
  <2>1. /\ UNCHANGED <<cancelQ, mq, sync, staleness>>
        /\ active' = active \/ active' = active \ Collected(active)
        /\ \/ proc' = [proc EXCEPT !.at = "check", !.goal = "drain"]
           \/ \E at \in {"cond", "top", "wait", "check", "dead"} : proc' = [proc EXCEPT !.at = at]
           \/ proc' = [at |-> "hold", goal |-> proc.goal, hand |-> proc.hand]
    BY <1>3 DEF ProcPause, ProcResume, ProcAwait, ProcAwaited, ProcNotified, Want
  <2>2. proc'.hand = proc.hand /\ proc'.at # "get"
    <3>1. CASE proc' = [proc EXCEPT !.at = "check", !.goal = "drain"]
      BY <3>1, ProcRecord
    <3>2. ASSUME NEW at \in {"cond", "top", "wait", "check", "dead"}, proc' = [proc EXCEPT !.at = at]
          PROVE  proc'.hand = proc.hand /\ proc'.at # "get"
      BY <3>2, ProcRecord
    <3>3. CASE proc' = [at |-> "hold", goal |-> proc.goal, hand |-> proc.hand]
      BY <3>3
    <3> QED BY <2>1, <3>1, <3>2, <3>3
  <2>3. Running' = Running /\ Ids(mq') = Ids(mq)
    BY <2>1 DEF Running, Collected
  <2> QED BY <2>1, <2>2, <2>3, StillBound
<1>4. CASE EndStream
  <2>1. /\ UNCHANGED <<active, cancelQ, sync, staleness>> /\ Put(EndSignal)
        /\ proc' = [proc EXCEPT !.at = "over"]
    BY <1>4 DEF EndStream
  <2>2. proc'.hand = proc.hand /\ proc'.at # "get"
    BY <2>1, ProcRecord
  <2>3. Running' = Running /\ Ids(mq') \subseteq Ids(mq)
    <3>1. EndSignal \in SampleType /\ EndSignal.id = DONE
      BY NothingTypes DEF EndSignal
    <3>2. Ids(mq') \subseteq Ids(mq) \cup ({EndSignal.id} \ {DONE})
      BY <2>1, <3>1, PutQueued
    <3>3. Running' = Running
      BY <2>1 DEF Running, Collected
    <3> QED BY <3>1, <3>2, <3>3
  <2> QED BY <2>1, <2>2, <2>3, StillBound
<1> QED BY <1>1, <1>2, <1>3, <1>4, TopBound, SubmitBound DEF Processor

\* The synchronizer's count of what is under way, then the queue's.
LEMMA CountBound ==
    ASSUME AsyncAssumption, TypeInv, TypeInv', BoundInv, UpdateVersion \/ UpdateStaleness
    PROVE  BoundInv'
<1>1. UNCHANGED <<proc, active, cancelQ, mq>>
  BY DEF UpdateVersion, UpdateStaleness
<1>2. Held' = Held /\ Going' = Going /\ Cut' = Cut /\ Queued' = Queued /\ InFlight' = InFlight
  <2>1. Held' = Held /\ Going' = Going /\ Cut' = Cut /\ Queued' = Queued
    BY <1>1, SameSizes DEF Running, Collected
  <2> QED BY <2>1 DEF InFlight
<1>3. /\ InFlight <= staleness + 1 /\ InFlight <= MaxRequired + 1
      /\ proc.at = "get" => InFlight <= MaxRequired
      /\ sync.at = "size" => Going + Cut <= sync.seen
  BY DEF BoundInv
<1>4. CASE UpdateVersion
  <2>1. staleness' = staleness /\ sync'.seen = Cardinality(active) + Cut
    <3>1. staleness' = staleness /\ sync' = [sync EXCEPT !.at = "size", !.seen = Cardinality(active) + Len(cancelQ)]
      BY <1>4 DEF UpdateVersion
    <3>2. sync \in [at : {"idle", "pause", "gather", "weights", "update", "size", "updated", "resume"},
                    version : Nat, seen : Nat]
      BY DEF TypeInv, SyncTypes
    <3> QED BY <3>1, <3>2 DEF Cut
  <2>2. Going <= Cardinality(active) /\ Going \in Nat /\ Cut \in Nat /\ Cardinality(active) \in Nat
    BY Sizes DEF SizesFit
  <2> DEFINE g == Going  c == Cut  n == Cardinality(active)
  <2>3. g <= n /\ g \in Nat /\ c \in Nat /\ n \in Nat
    BY <2>2
  <2> HIDE DEF g, c, n
  <2>4. g + c <= n + c
    BY <2>3
  <2>5. Going' + Cut' <= sync'.seen
    BY <1>2, <2>1, <2>4 DEF g, c, n
  <2> QED BY <1>1, <1>2, <1>3, <2>1, <2>5 DEF BoundInv
<1>5. CASE UpdateStaleness
  <2>1. staleness' = sync.seen + Len(mq) /\ sync'.at = "updated" /\ sync.at = "size"
    <3>1. /\ staleness' = sync.seen + Len(mq) /\ sync.at = "size"
          /\ sync' = [sync EXCEPT !.at = "updated", !.seen = 0]
      BY <1>5 DEF UpdateStaleness
    <3>2. sync \in [at : {"idle", "pause", "gather", "weights", "update", "size", "updated", "resume"},
                    version : Nat, seen : Nat]
      BY DEF TypeInv, SyncTypes
    <3> QED BY <3>1, <3>2
  <2>2. /\ Held \in {0, 1} /\ Going \in Nat /\ Cut \in Nat /\ Queued \in Nat /\ Queued <= Len(mq)
        /\ sync.seen \in Nat /\ Len(mq) \in Nat /\ InFlight = Held + Going + Cut + Queued
    BY Sizes DEF SizesFit
  <2> DEFINE h == Held  g == Going  c == Cut  q == Queued  f == InFlight  n == sync.seen  l == Len(mq)
  <2>3. /\ h \in {0, 1} /\ g \in Nat /\ c \in Nat /\ q \in Nat /\ n \in Nat /\ l \in Nat
        /\ q <= l /\ g + c <= n /\ f = h + g + c + q
    BY <1>3, <2>1, <2>2
  <2> HIDE DEF h, g, c, q, f, n, l
  <2>4. f <= n + l + 1
    BY <2>3
  <2>5. InFlight' <= staleness' + 1
    BY <1>2, <2>1, <2>4 DEF f, n, l
  <2> QED BY <1>1, <1>2, <1>3, <2>1, <2>5 DEF BoundInv
<1> QED BY <1>4, <1>5

\* The other processes, and the feeder.
LEMMA OthersBound ==
    ASSUME AsyncAssumption, TypeInv, TypeInv', BoundInv, [Next]_vars,
           ~Processor, \A t \in active : ~(Complete(t) \/ Interrupt(t) \/ Fail(t)),
           ~UpdateVersion, ~UpdateStaleness, ~Crash
    PROVE  BoundInv'
<1>1. staleness' = staleness /\ cancelQ' = cancelQ
  BY StalenessFrame, CancelFrame DEF Processor
<1>2. proc' = proc \/ proc' = [proc EXCEPT !.at = IF proc.at = "cond" THEN "notified" ELSE proc.at]
  BY DEF Next, Feed, CloseFeed, Monitor, MonitorCheck, MonitorUnpause, Notify, Synchronizer,
     PauseRollout, PausedRollout, TransferWeights, AskResume, ResumeRollout, Trainer, Collect, Train,
     Synchronize, Synchronized, Save, Finish, Terminated, vars, loopVars
<1>3. proc'.hand = proc.hand /\ (proc'.at = "get" => proc.at = "get")
  BY <1>2, ProcRecord
<1>4. Running' = Running
  <2>1. active' = active \/ (active' = {} /\ Collected(active) = active)
    BY DEF Next, Feed, CloseFeed, Monitor, MonitorCheck, MonitorUnpause, Synchronizer,
       PauseRollout, PausedRollout, TransferWeights, AskResume, ResumeRollout, Trainer, Collect, Train,
       Synchronize, Synchronized, Save, Finish, Terminated, vars, loopVars
  <2> QED BY <2>1 DEF Running, Collected
<1>5. Ids(mq') \subseteq Ids(mq)
  <2>1. CASE Collect
    <3>1. mq' = Tail(mq) /\ mq # <<>> /\ mq \in Seq(SampleType)
      BY <2>1, ProcRecord DEF Collect
    <3>2. \A i \in DOMAIN Tail(mq) : i + 1 \in DOMAIN mq /\ Tail(mq)[i] = mq[i + 1]
      BY <3>1
    <3> QED BY <3>1, <3>2 DEF Ids
  <2>2. CASE ~Collect
    <3>1. mq' = mq
      BY <2>2, QueueFrame DEF Processor
    <3> QED BY <3>1
  <2> QED BY <2>1, <2>2
<1>6. sync'.at = "size" => sync' = sync
  <2>1. \/ sync' = sync
        \/ \E at \in {"gather", "weights", "update", "resume", "idle"} : sync' = [sync EXCEPT !.at = at]
        \/ sync' = [sync EXCEPT !.at = "pause", !.version = tr.version]
    BY DEF Next, Feed, CloseFeed, Monitor, MonitorCheck, MonitorUnpause, Synchronizer,
       PauseRollout, PausedRollout, TransferWeights, AskResume, ResumeRollout, Trainer, Collect, Train,
       Synchronize, StartSync, Synchronized, Save, Finish, Terminated, vars, loopVars
  <2>2. sync \in [at : {"idle", "pause", "gather", "weights", "update", "size", "updated", "resume"},
                  version : Nat, seen : Nat]
    BY DEF TypeInv, SyncTypes
  <2> QED BY <2>1, <2>2
<1> QED BY <1>1, <1>3, <1>4, <1>5, <1>6, StillBound

\* A start with nothing under way.
LEMMA IdleBound ==
    ASSUME AsyncAssumption, TypeInv, proc.at = "top", proc.hand.id = DONE, sync.at = "idle",
           active = {}, cancelQ = <<>>, mq = <<>>
    PROVE  BoundInv
<1>1. /\ Held \in {0, 1} /\ Going \in Nat /\ Cut \in Nat /\ Queued \in Nat
      /\ Held = (IF proc.hand.id = DONE THEN 0 ELSE 1) /\ Queued <= Len(mq)
      /\ Going <= Cardinality(active) /\ staleness \in Nat /\ InFlight = Held + Going + Cut + Queued
  BY Sizes DEF SizesFit
<1>2. Cardinality(active) = 0 /\ Len(mq) = 0 /\ Cut = 0 /\ MaxRequired \in Nat
  BY FS_EmptySet, Constants DEF Cut
<1> DEFINE h == Held  g == Going  c == Cut  q == Queued  f == InFlight
<1>3. /\ h = 0 /\ g \in Nat /\ g <= 0 /\ c = 0 /\ q \in Nat /\ q <= 0 /\ f = h + g + c + q
      /\ staleness \in Nat /\ MaxRequired \in Nat
  BY <1>1, <1>2
<1> HIDE DEF h, g, c, q, f
<1>4. f <= staleness + 1 /\ f <= MaxRequired + 1
  BY <1>3
<1> QED BY <1>4 DEF BoundInv, f

LEMMA BoundInit == ASSUME AsyncAssumption, Init PROVE BoundInv
<1>1. proc = [at |-> "top", goal |-> "pause", hand |-> Nothing] /\ sync.at = "idle"
  <2>1. /\ proc = Fresh(NoCkpt).proc /\ sync = Fresh(NoCkpt).sync
    BY DEF Init
  <2> QED BY <2>1 DEF Fresh
<1>2. active = {} /\ cancelQ = <<>> /\ mq = <<>>
  BY DEF Init
<1> QED BY <1>1, <1>2, TypeInit, IdleBound, NothingTypes

LEMMA IdleBoundNext ==
    /\ TypeInv' /\ proc'.at = "top" /\ proc'.hand.id = DONE /\ sync'.at = "idle"
    /\ active' = {} /\ cancelQ' = <<>> /\ mq' = <<>>
    => BoundInv'
<1> DEFINE Idle == /\ TypeInv /\ proc.at = "top" /\ proc.hand.id = DONE /\ sync.at = "idle"
                   /\ active = {} /\ cancelQ = <<>> /\ mq = <<>>
<1>1. Idle => BoundInv
  BY IdleBound, AsyncAssumption
<1> HIDE DEF Idle
<1>2. Idle' => BoundInv'
  BY <1>1, PTL
<1> QED BY <1>2 DEF Idle

LEMMA CrashBound == ASSUME AsyncAssumption, TypeInv, TypeInv', Crash PROVE BoundInv'
<1>1. proc' = [at |-> "top", goal |-> "pause", hand |-> Nothing] /\ sync'.at = "idle"
  <2>1. /\ proc' = Fresh(ckpt).proc /\ sync' = Fresh(ckpt).sync
    BY DEF Crash
  <2> QED BY <2>1 DEF Fresh
<1>2. active' = {} /\ cancelQ' = <<>> /\ mq' = <<>>
  BY DEF Crash
<1> QED BY <1>1, <1>2, IdleBoundNext, NothingTypes

LEMMA BoundNext ==
    ASSUME AsyncAssumption, TypeInv, TypeInv', ConservedInv, BoundInv, [Next]_vars
    PROVE  BoundInv'
BY ProcessorBound, TaskBound, CountBound, CrashBound, OthersBound

LEMMA BoundFollows == BoundInv => InFlightBound
BY DEF BoundInv, InFlight, Held, Going, Cut, Queued, Running, InFlightBound

\* The samples started and not yet fetched are never more than
\* max_required_samples and the one the processor holds while it waits.
THEOREM FreshnessBound == Spec => []InFlightBound
<1>1. Init => TypeInv /\ ConservedInv /\ BoundInv
  BY TypeInit, InitConserved, BoundInit, AsyncAssumption
<1>2. TypeInv /\ ConservedInv /\ BoundInv /\ [Next]_vars => (TypeInv /\ ConservedInv /\ BoundInv)'
  BY TypeNext, ConservedNext, BoundNext, AsyncAssumption
<1> QED BY <1>1, <1>2, BoundFollows, PTL DEF Spec

-----------------------------------------------------------------------------
(* The stream of the trainer.                                              *)

StreamVars == <<feeder.pos, trained, tr.local - 1, tr.version,
                [version |-> ckpt.version, drawn |-> ckpt.pos, trained |-> ckpt.trained]>>
StreamNext == Stream!Draw \/ Stream!Train \/ Stream!Close \/ Stream!Save \/ Stream!Restart

LEMMA TrainerRecord ==
    ASSUME TypeInv
    PROVE  /\ tr = [at |-> tr.at, got |-> tr.got, local |-> tr.local, version |-> tr.version,
                    saved |-> tr.saved, closing |-> tr.closing]
           /\ tr.local \in 1..Trigger /\ tr.version \in Nat
BY DEF TypeInv, TrainTypes

\* A batch that is trained is whole, drawn from the data and new.
LEMMA BatchWhole ==
    ASSUME TypeInv, ConservedInv, tr.at = "train"
    PROVE  /\ Cardinality(Ids(tr.got)) = Required
           /\ Ids(tr.got) \subseteq 1..feeder.pos \ trained
<1>1. tr.got \in Seq(SampleType) /\ Distinct(tr.got) /\ Whole(tr.got) /\ Len(tr.got) = Required
  BY ProcRecord DEF ConservedInv, GotOnce, TypeInv, TrainTypes
<1>2. {i \in DOMAIN tr.got : tr.got[i].id # DONE} = 1..Len(tr.got)
  BY <1>1 DEF Whole
<1>3. Len(tr.got) \in Nat
  BY <1>1
<1>4. Cardinality(1..Len(tr.got)) = Len(tr.got)
  BY <1>3, FirstCount
<1>5. Cardinality(Ids(tr.got)) = Required
  BY <1>1, <1>2, <1>4, DistinctCount
<1>6. Places[7] \cap Places[8] = {}
  BY Apart
<1>7. Places[7] \subseteq 1..feeder.pos
  BY PlacesAre DEF ConservedInv, Sound
<1> QED BY <1>5, <1>6, <1>7, PlacesAre

LEMMA StreamTrain ==
    ASSUME AsyncAssumption, TypeInv, ConservedInv, Train
    PROVE  Stream!Train
<1>1. /\ tr.at = "train" /\ trained' = trained \cup Ids(tr.got) /\ feeder' = feeder /\ ckpt' = ckpt
      /\ tr' = IF tr.local >= Trigger
               THEN [tr EXCEPT !.at = "last", !.got = <<>>, !.local = 1, !.version = tr.version + 1]
               ELSE [tr EXCEPT !.at = "save", !.got = <<>>, !.local = tr.local + 1]
  BY DEF Train, SyncDue, loopVars
<1>2. \E B \in SUBSET (1..feeder.pos \ trained) :
         Cardinality(B) = Required /\ trained' = trained \cup B
  BY <1>1, BatchWhole
<1>3. tr.local \in 1..Trigger /\ Trigger \in Nat
  BY TrainerRecord, Constants
<1>4. IF tr.local - 1 + 1 < Trigger
      THEN tr'.local - 1 = tr.local - 1 + 1 /\ tr'.version = tr.version
      ELSE tr'.local - 1 = 0 /\ tr'.version = tr.version + 1
  <2>1. CASE tr.local >= Trigger
    <3>1. tr'.local = 1 /\ tr'.version = tr.version + 1
      BY <1>1, <2>1, TrainerRecord
    <3> QED BY <1>3, <2>1, <3>1
  <2>2. CASE ~(tr.local >= Trigger)
    <3>1. tr'.local = tr.local + 1 /\ tr'.version = tr.version
      BY <1>1, <2>2, TrainerRecord
    <3> QED BY <1>3, <2>2, <3>1
  <2> QED BY <2>1, <2>2
<1>5. feeder'.pos = feeder.pos /\ ckpt'.version = ckpt.version /\ ckpt'.pos = ckpt.pos
      /\ ckpt'.trained = ckpt.trained
  BY <1>1
<1>6. (IF tr.local - 1 + 1 < Trigger
       THEN (tr.local - 1)' = tr.local - 1 + 1 /\ UNCHANGED tr.version
       ELSE (tr.local - 1)' = 0 /\ (tr.version)' = tr.version + 1)
  BY <1>4
<1>7. UNCHANGED <<feeder.pos, [version |-> ckpt.version, drawn |-> ckpt.pos, trained |-> ckpt.trained]>>
  BY <1>5
<1>8. \E B \in SUBSET (1..feeder.pos \ trained) :
         Stream!Cardinality(B) = Required /\ trained' = trained \cup B
  BY <1>2 DEF Cardinality, Stream!Cardinality
<1> QED BY <1>6, <1>7, <1>8 DEF Stream!Train

LEMMA StreamFeed ==
    ASSUME TypeInv, Feed
    PROVE  Stream!Draw \/ UNCHANGED StreamVars
<1>1. UNCHANGED <<tr, trained, ckpt>>
  BY DEF Feed
<1>2. feeder'.pos = feeder.pos + 1 \/ feeder'.pos = feeder.pos
  <2>1. feeder \in [at : {"put", "close", "closed"}, pos : Nat, gsteps : Nat]
    BY DEF TypeInv, FeedTypes
  <2>2. CASE feeder' = [feeder EXCEPT !.at = "close"]
    BY <2>1, <2>2
  <2>3. CASE feeder' = [feeder EXCEPT !.pos = feeder.pos + 1, !.gsteps = feeder.gsteps + 1]
    BY <2>1, <2>3
  <2> QED BY <2>2, <2>3 DEF Feed
<1> QED BY <1>1, <1>2 DEF Stream!Draw, StreamVars

LEMMA StreamFinish ==
    ASSUME TypeInv, Finish
    PROVE  Stream!Close \/ UNCHANGED StreamVars
<1>1. UNCHANGED <<feeder, trained, ckpt>>
  BY DEF Finish, loopVars
<1>2. CASE tr' = [tr EXCEPT !.at = "last", !.closing = TRUE, !.local = 1, !.version = tr.version + 1]
  <2>1. tr'.local - 1 = 0 /\ tr'.version = tr.version + 1
    BY <1>2, TrainerRecord
  <2> QED BY <1>1, <2>1 DEF Stream!Close
<1>3. CASE tr' = [tr EXCEPT !.at = "save", !.closing = TRUE]
  <2>1. tr'.local = tr.local /\ tr'.version = tr.version
    BY <1>3, TrainerRecord
  <2> QED BY <1>1, <2>1 DEF StreamVars
<1> QED BY <1>2, <1>3 DEF Finish

LEMMA StreamSave ==
    ASSUME TypeInv, Save
    PROVE  Stream!Save \/ UNCHANGED StreamVars
<1>1. UNCHANGED <<feeder, trained>>
  BY DEF Save, loopVars
<1>2. tr'.local = tr.local /\ tr'.version = tr.version
  <2>1. \E at \in {"done", "collect"}, saved \in {tr.version, tr.saved} :
           tr' = [tr EXCEPT !.at = at, !.saved = saved]
    BY DEF Save
  <2> QED BY <2>1, TrainerRecord
<1>3. ckpt' = ckpt \/ ckpt' = [version |-> tr.version, pos |-> feeder.pos, trained |-> trained]
  BY DEF Save
<1> QED BY <1>1, <1>2, <1>3 DEF Stream!Save, StreamVars

LEMMA StreamCrash ==
    ASSUME Crash
    PROVE  Stream!Restart
<1>1. feeder'.pos = ckpt.pos + 1 /\ tr'.version = ckpt.version /\ tr'.local = 1
  <2>1. feeder' = Fresh(ckpt).feeder /\ tr' = Fresh(ckpt).tr
    BY DEF Crash
  <2> QED BY <2>1 DEF Fresh, FirstPos
<1>2. trained' = ckpt.trained /\ ckpt' = ckpt
  BY DEF Crash
<1> QED BY <1>1, <1>2 DEF Stream!Restart

LEMMA StreamStill ==
    ASSUME TypeInv, [Next]_vars, ~Feed, ~Train, ~Finish, ~Save, ~Crash
    PROVE  UNCHANGED StreamVars
<1>1. feeder'.pos = feeder.pos
  <2>1. CASE CloseFeed
    <3>1. feeder' = [feeder EXCEPT !.at = "closed"]
      BY <2>1 DEF CloseFeed
    <3>2. feeder \in [at : {"put", "close", "closed"}, pos : Nat, gsteps : Nat]
      BY DEF TypeInv, FeedTypes
    <3> QED BY <3>1, <3>2
  <2> QED BY <2>1, FeederFrame
<1>2. tr'.local = tr.local /\ tr'.version = tr.version /\ trained' = trained /\ ckpt' = ckpt
  <2>1. CASE Collect
    <3>1. trained' = trained /\ ckpt' = ckpt
      BY <2>1 DEF Collect
    <3>2. \/ tr' = [tr EXCEPT !.at = "final"]
          \/ \E at \in {"train", tr.at} : tr' = [tr EXCEPT !.got = Append(tr.got, Head(mq)), !.at = at]
      BY <2>1 DEF Collect
    <3>3. CASE tr' = [tr EXCEPT !.at = "final"]
      BY <3>1, <3>3, TrainerRecord
    <3>4. CASE \E at \in {"train", tr.at} : tr' = [tr EXCEPT !.got = Append(tr.got, Head(mq)), !.at = at]
      BY <3>1, <3>4, TrainerRecord
    <3> QED BY <3>2, <3>3, <3>4
  <2>2. CASE Synchronize \/ Synchronized
    <3>1. /\ trained' = trained /\ ckpt' = ckpt
          /\ \E at \in {"sync", "save"} : tr' = [tr EXCEPT !.at = at]
      BY <2>2 DEF Synchronize, Synchronized
    <3> QED BY <3>1, TrainerRecord
  <2>3. CASE ~Trainer
    BY <2>3, TrainerFrame
  <2> QED BY <2>1, <2>2, <2>3 DEF Trainer
<1> QED BY <1>1, <1>2 DEF StreamVars

LEMMA StreamStep ==
    ASSUME AsyncAssumption, TypeInv, ConservedInv, [Next]_vars
    PROVE  [StreamNext]_StreamVars
BY StreamFeed, StreamTrain, StreamFinish, StreamSave, StreamCrash, StreamStill DEF StreamNext

\* The trainer trains on whole batches of new samples and resumes saved
\* states, however the rollouter interleaves, fails or is interrupted.
THEOREM StreamImplemented == Spec => ImplementsStream
<1>1. Init => TypeInv /\ ConservedInv
  BY TypeInit, InitConserved, AsyncAssumption
<1>2. TypeInv /\ ConservedInv /\ [Next]_vars => (TypeInv /\ ConservedInv)'
  BY TypeNext, ConservedNext, AsyncAssumption
<1>3. Init => Stream!Init
  <2>1. ASSUME Init PROVE Stream!Init
    <3>1. feeder.pos = 1 /\ tr.local = 1 /\ tr.version = 0
      <4>1. feeder = Fresh(NoCkpt).feeder /\ tr = Fresh(NoCkpt).tr
        BY <2>1 DEF Init
      <4> QED BY <4>1 DEF Fresh, FirstPos, NoCkpt
    <3>2. trained = {} /\ ckpt = [version |-> 0, pos |-> 0, trained |-> {}]
      BY <2>1 DEF Init, NoCkpt
    <3> QED BY <3>1, <3>2 DEF Stream!Init
  <2> QED BY <2>1
<1>4. TypeInv /\ ConservedInv /\ [Next]_vars => [StreamNext]_StreamVars
  BY StreamStep, AsyncAssumption
<1> QED BY <1>1, <1>2, <1>3, <1>4, PTL
        DEF Spec, ImplementsStream, Stream!Spec, Stream!vars, StreamNext, StreamVars

=============================================================================
