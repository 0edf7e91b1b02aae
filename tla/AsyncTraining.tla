---------------------------- MODULE AsyncTraining ----------------------------
(***************************************************************************)
(* Fully asynchronous training: FullyAsyncRollouter generates samples one  *)
(* by one into the MessageQueue, FullyAsyncTrainer trains on batches of    *)
(* them and, every trigger_parameter_sync_step batches, has the            *)
(* ParameterSynchronizer pause the rollouter, transfer the weights and     *)
(* resume it.                                                              *)
(*                                                                         *)
(* The rollouter is one event loop: its feeder, processor, monitor, the    *)
(* tasks that generate a sample each and the calls of the synchronizer     *)
(* take turns at their awaits and share one lock, whose waiters are served *)
(* in order.  The trainer, the queue and the synchronizer are processes of *)
(* their own.  A crash stops all of them; the next start resumes from the  *)
(* last checkpoint.                                                        *)
(*                                                                         *)
(* A sample is its position in the data stream with the parameter versions *)
(* stamped on it; weights are the sequence of samples trained.             *)
(***************************************************************************)
EXTENDS Integers, Sequences, FiniteSets

CONSTANTS
    Total,         \* total_rollout_steps
    Required,      \* required_samples
    Trigger,       \* trigger_parameter_sync_step
    MaxRequired,   \* max_required_samples, also the capacity of the queue
    MaxConcurrent, \* max_concurrent_samples
    PendingMax,    \* maxsize of pending_queue
    PartialModes,  \* the values async_training.partial_rollout may have
    TestFreq,      \* rollout.test_freq
    SaveFreq,      \* trainer.save_freq, 0 when it is not positive
    EsiSignals,    \* the answers should_save_ckpt_esi may give
    MaxFailures,   \* bound on the generations that raise
    MaxCrashes     \* bound on the crashes

AsyncAssumption ==
    /\ {Total, Required, Trigger, PendingMax, TestFreq} \subseteq Nat \ {0}
    /\ {SaveFreq, MaxFailures, MaxCrashes} \subseteq Nat
    /\ MaxRequired \in Nat /\ MaxRequired >= Required * Trigger
    /\ MaxConcurrent \in 1..MaxRequired
    /\ PartialModes \subseteq BOOLEAN /\ PartialModes # {}
    /\ EsiSignals \subseteq BOOLEAN /\ EsiSignals # {}

ASSUME AsyncAssumption

VARIABLES
    \* The rollouter's event loop.
    partial,   \* async_training.partial_rollout
    feeder,    \* _feed_samples: [at, pos: samples drawn so far, gsteps]
    pending,   \* pending_queue
    proc,      \* _processor_worker: [at, goal, hand: the sample it holds]
    waited,    \* whether done_tasks of _processor_worker was ever assigned
    active,    \* active_tasks, those that are over included until collected
    cancelQ,   \* cancel_queue
    paused,    \* self.paused
    trigger,   \* monitor_loop_trigger
    monitor,   \* _async_monitor_loop: "sleep" or "hold"
    staleness, \* staleness_samples
    version,   \* current_param_version of the rollouter
    stopped,   \* whether the servers were cancelled and not resumed
    weights,   \* the version of the weights the servers hold
    lock,      \* who holds self.lock
    waiters,   \* who waits for it, in order
    \* The other processes.
    mq,        \* the MessageQueue
    sync,      \* sync_weights and the calls it left behind: [at, version, seen]
    tr,        \* the trainer: [at, got, local, version, saved, closing]
    \* Disk, environment and history.
    trained,   \* the samples the trainer's weights were trained on, in order
    ckpt,      \* the checkpoint the tracker names: [version, pos, trained]
    lost,      \* <<sample, cause>> of the samples that will not be trained
    failures, crashes

loopVars == <<partial, feeder, pending, proc, waited, active, cancelQ, paused, trigger,
              monitor, staleness, version, stopped, weights, lock, waiters>>
vars == <<loopVars, mq, sync, tr, trained, ckpt, lost, failures, crashes>>

-----------------------------------------------------------------------------
(* Samples and tasks.                                                      *)

DONE == 0           \* the feeder's last item, not a sample
NoVersion == -1     \* no parameter version stamped yet

\* start: the version its first piece was begun with; stamp: at completion.
Sample(id) == [id |-> id, start |-> NoVersion, stamp |-> NoVersion]
Nothing == Sample(DONE)

\* The samples of a sequence, the end signal left out.
Ids(ss) == {ss[i].id : i \in DOMAIN ss} \ {DONE}

\* None, put when the stream is over.
EndSignal == Nothing

\* Mutant of Task: the version is not stamped.
TaskUnstamped(s) == [sample |-> s, born |-> stopped, st |-> "running"]

\* _process_single_sample_streaming up to its first await: the version is
\* stamped when the task starts, and kept as start if none was.
Task(s) == [sample |-> [s EXCEPT !.start = IF @ = NoVersion THEN version ELSE @],
            born |-> stopped, st |-> "running"]

Over(t) == t.st # "running"
Collected(ts) == {t \in ts : Over(t)}

\* put_sample: when the queue is full the oldest entry makes room.
Put(s) == /\ mq' = Append(IF Len(mq) >= MaxRequired THEN Tail(mq) ELSE mq, s)
          /\ lost' = IF Len(mq) >= MaxRequired
                     THEN lost \cup {<<Head(mq).id, "evicted">>} ELSE lost

\* _should_pause_generation.
ShouldPause == Len(mq) >= MaxRequired \/ staleness >= MaxRequired

-----------------------------------------------------------------------------
(* asyncio.Lock: handed over in the order it was asked for.                *)

Acquire(who) ==
    IF lock = "free" THEN lock' = who /\ UNCHANGED waiters
    ELSE waiters' = Append(waiters, who) /\ UNCHANGED lock

Release ==
    IF waiters = <<>> THEN lock' = "free" /\ UNCHANGED waiters
    ELSE lock' = Head(waiters) /\ waiters' = Tail(waiters)

\* Mutant of Notify: nobody is woken.
NotifyNobody == UNCHANGED proc

\* condition.notify_all: the processor is the only one that waits for it.
Notify == proc' = [proc EXCEPT !.at = IF @ = "cond" THEN "notified" ELSE @]

\* Between these points and its next await the processor runs alone on the
\* event loop.  Steps of the other processes commute with that stretch, so
\* they wait for it too.
LoopIdle == proc.at \notin {"top", "check"}

-----------------------------------------------------------------------------
(* What a start of the job finds: nothing, or the last checkpoint.         *)

NoCkpt == [version |-> 0, pos |-> 0, trained |-> {}]

\* Mutant of FirstPos: the dataloader is taken to be where the step count is.
PosOfVersion(ck) == ck.version * Required * Trigger + 1

\* The position of the first sample drawn: the saved dataloader goes on.
FirstPos(ck) == ck.pos + 1

\* load_checkpoint of both sides, then the first sync_weights.
Fresh(ck) ==
    [feeder  |-> [at |-> "put", pos |-> FirstPos(ck), gsteps |-> ck.version * Required * Trigger + 1],
     proc    |-> [at |-> "top", goal |-> "pause", hand |-> Nothing],
     sync    |-> [at |-> "idle", version |-> ck.version, seen |-> 0],
     tr      |-> [at |-> "collect", got |-> <<>>, local |-> 1, version |-> ck.version,
                  saved |-> ck.version, closing |-> FALSE]]

Init ==
    /\ partial \in PartialModes
    /\ feeder = Fresh(NoCkpt).feeder /\ proc = Fresh(NoCkpt).proc
    /\ sync = Fresh(NoCkpt).sync /\ tr = Fresh(NoCkpt).tr
    /\ pending = <<>> /\ cancelQ = <<>> /\ mq = <<>> /\ waiters = <<>>
    /\ active = {} /\ waited = FALSE
    /\ paused = FALSE /\ trigger = TRUE /\ monitor = "sleep" /\ stopped = FALSE
    /\ staleness = 0 /\ version = 0 /\ weights = 0 /\ lock = "free"
    /\ trained = {} /\ ckpt = NoCkpt /\ lost = {}
    /\ failures = 0 /\ crashes = 0

-----------------------------------------------------------------------------
(* _feed_samples.                                                          *)

\* A put that has room, then the next sample drawn from the dataloader.
Feed ==
    /\ LoopIdle
    /\ feeder.at = "put" /\ Len(pending) < PendingMax
    /\ pending' = Append(pending, feeder.pos)
    /\ feeder' = IF feeder.gsteps >= Total THEN [feeder EXCEPT !.at = "close"]
                 ELSE [feeder EXCEPT !.pos = @ + 1, !.gsteps = @ + 1]
    /\ UNCHANGED <<partial, proc, waited, active, cancelQ, paused, trigger, monitor,
                   staleness, version, stopped, weights, lock, waiters,
                   mq, sync, tr, trained, ckpt, lost, failures, crashes>>

CloseFeed ==
    /\ LoopIdle
    /\ feeder.at = "close" /\ Len(pending) < PendingMax
    /\ pending' = Append(pending, DONE)
    /\ feeder' = [feeder EXCEPT !.at = "closed"]
    /\ UNCHANGED <<partial, proc, waited, active, cancelQ, paused, trigger, monitor,
                   staleness, version, stopped, weights, lock, waiters,
                   mq, sync, tr, trained, ckpt, lost, failures, crashes>>

-----------------------------------------------------------------------------
(* _processor_worker.  goal says what it wants the lock for: to pause, to  *)
(* drain the active tasks, to wait for the resumption, to get below the    *)
(* concurrency limit, to submit the sample in hand, to finish.             *)

Want(goal, hand) ==
    /\ proc' = [at |-> "hold", goal |-> goal, hand |-> hand]
    /\ Acquire("proc")

\* Mutant of TakePending: the sample is not counted.
TakeUncounted ==
    /\ pending' = Tail(pending)
    /\ staleness' = staleness
    /\ proc' = IF Head(pending) = DONE
               THEN [at |-> "check", goal |-> "done", hand |-> Nothing]
               ELSE [at |-> "check", goal |-> "limit", hand |-> Sample(Head(pending))]

TakePending ==
    /\ pending' = Tail(pending)
    /\ staleness' = staleness + 1
    /\ proc' = IF Head(pending) = DONE
               THEN [at |-> "check", goal |-> "done", hand |-> Nothing]
               ELSE [at |-> "check", goal |-> "limit", hand |-> Sample(Head(pending))]

\* The head of the loop: pause, else an interrupted sample, else a new one.
ProcTop ==
    /\ proc.at = "top"
    /\ IF paused \/ ShouldPause
       THEN Want("pause", Nothing) /\ UNCHANGED <<pending, cancelQ, staleness>>
       ELSE /\ UNCHANGED <<lock, waiters>>
            /\ IF cancelQ # <<>>
               THEN /\ proc' = [at |-> "check", goal |-> "limit", hand |-> Head(cancelQ)]
                    /\ cancelQ' = Tail(cancelQ)
                    /\ UNCHANGED <<pending, staleness>>
               ELSE /\ UNCHANGED cancelQ
                    /\ IF pending # <<>> THEN TakePending
                       ELSE proc' = [proc EXCEPT !.at = "get"] /\ UNCHANGED <<pending, staleness>>
    /\ UNCHANGED <<partial, feeder, waited, active, paused, trigger, monitor, version, stopped,
                   weights, mq, sync, tr, trained, ckpt, lost, failures, crashes>>

\* pending_queue.get() was empty and is no more.
ProcGet ==
    /\ proc.at = "get" /\ pending # <<>>
    /\ TakePending
    /\ UNCHANGED <<partial, feeder, waited, active, cancelQ, paused, trigger, monitor, version,
                   stopped, weights, lock, waiters, mq, sync, tr, trained, ckpt, lost,
                   failures, crashes>>

\* The condition of the three wait loops, and what follows each.
ProcCheck ==
    LET busy == IF proc.goal = "limit" THEN Cardinality(active) >= MaxConcurrent
                ELSE active # {}
    IN  /\ proc.at = "check"
        /\ \/ busy /\ Want(proc.goal, proc.hand)
           \/ ~busy /\ proc.goal = "drain" /\ Want("resume", Nothing)
           \/ ~busy /\ proc.goal = "limit" /\ Want("submit", proc.hand)
           \/ /\ ~busy /\ proc.goal = "done"
              /\ proc' = [proc EXCEPT !.at = "end"]
              /\ UNCHANGED <<lock, waiters>>
        /\ UNCHANGED <<partial, feeder, pending, waited, active, cancelQ, paused, trigger, monitor,
                       staleness, version, stopped, weights, mq, sync, tr, trained, ckpt, lost,
                       failures, crashes>>

\* Under the lock: pausing itself.
ProcPause ==
    /\ proc.at = "hold" /\ lock = "proc" /\ proc.goal = "pause"
    /\ paused' = TRUE
    /\ proc' = [proc EXCEPT !.at = "check", !.goal = "drain"]
    /\ Release
    /\ UNCHANGED <<partial, feeder, pending, waited, active, cancelQ, trigger, monitor, staleness,
                   version, stopped, weights, mq, sync, tr, trained, ckpt, lost, failures, crashes>>

\* Under the lock: while paused, wait for the condition; then go on.
ProcResume ==
    /\ proc.at = "hold" /\ lock = "proc" /\ proc.goal = "resume"
    /\ proc' = [proc EXCEPT !.at = IF paused THEN "cond" ELSE "top"]
    /\ Release
    /\ UNCHANGED <<partial, feeder, pending, waited, active, cancelQ, paused, trigger, monitor,
                   staleness, version, stopped, weights, mq, sync, tr, trained, ckpt, lost,
                   failures, crashes>>

ProcSubmit ==
    /\ proc.at = "hold" /\ lock = "proc" /\ proc.goal = "submit"
    /\ IF paused
       THEN proc' = [proc EXCEPT !.at = "cond"] /\ UNCHANGED active
       ELSE /\ active' = active \cup {Task(proc.hand)}
            /\ proc' = [proc EXCEPT !.at = "top", !.hand = Nothing]
    /\ Release
    /\ UNCHANGED <<partial, feeder, pending, waited, cancelQ, paused, trigger, monitor, staleness,
                   version, stopped, weights, mq, sync, tr, trained, ckpt, lost, failures, crashes>>

\* Under the lock with tasks to wait for: asyncio.wait keeps the lock.  When
\* the synchronizer emptied active_tasks first, done_tasks is the set of an
\* earlier wait, or was never assigned and the processor dies.
ProcAwait ==
    /\ proc.at = "hold" /\ lock = "proc" /\ proc.goal \in {"drain", "limit", "done"}
    /\ IF active # {}
       THEN proc' = [proc EXCEPT !.at = "wait"] /\ UNCHANGED <<lock, waiters>>
       ELSE /\ proc' = [proc EXCEPT !.at = IF waited THEN "check" ELSE "dead"]
            /\ Release
    /\ UNCHANGED <<partial, feeder, pending, waited, active, cancelQ, paused, trigger, monitor,
                   staleness, version, stopped, weights, mq, sync, tr, trained, ckpt, lost,
                   failures, crashes>>

\* asyncio.wait returned; awaiting a failed task raises its exception.
ProcAwaited ==
    /\ proc.at = "wait" /\ Collected(active) # {}
    /\ active' = active \ Collected(active)
    /\ waited' = TRUE
    /\ proc' = [proc EXCEPT !.at = IF \E t \in active : t.st = "failed" THEN "dead" ELSE "check"]
    /\ Release
    /\ UNCHANGED <<partial, feeder, pending, cancelQ, paused, trigger, monitor, staleness, version,
                   stopped, weights, mq, sync, tr, trained, ckpt, lost, failures, crashes>>

ProcNotified ==
    /\ proc.at = "notified"
    /\ Want(proc.goal, proc.hand)
    /\ UNCHANGED <<partial, feeder, pending, waited, active, cancelQ, paused, trigger, monitor,
                   staleness, version, stopped, weights, mq, sync, tr, trained, ckpt, lost,
                   failures, crashes>>

\* _streaming_generation_main: however the processor ended, the finish signal.
EndStream ==
    /\ proc.at \in {"end", "dead"}
    /\ Put(EndSignal)
    /\ proc' = [proc EXCEPT !.at = "over"]
    /\ UNCHANGED <<partial, feeder, pending, waited, active, cancelQ, paused, trigger, monitor,
                   staleness, version, stopped, weights, lock, waiters, sync, tr, trained, ckpt,
                   failures, crashes>>

Processor ==
    \/ ProcTop \/ ProcGet \/ ProcCheck \/ ProcPause \/ ProcResume \/ ProcSubmit
    \/ ProcAwait \/ ProcAwaited \/ ProcNotified \/ EndStream

-----------------------------------------------------------------------------
(* _process_single_sample_streaming after generation.                      *)

EndTask(t, st) == active' = (active \ {t}) \cup {[t EXCEPT !.st = st]}

\* A whole sample goes to the queue; a server that was stopped gives none.
Complete(t) ==
    /\ LoopIdle
    /\ t.st = "running" /\ ~(stopped /\ t.born)
    /\ Put([t.sample EXCEPT !.stamp = version])
    /\ EndTask(t, "done")
    /\ UNCHANGED <<partial, feeder, pending, proc, waited, cancelQ, paused, trigger, monitor,
                   staleness, version, stopped, weights, lock, waiters, sync, tr, trained, ckpt,
                   failures, crashes>>

Interrupt(t) ==
    /\ LoopIdle
    /\ t.st = "running" /\ stopped
    /\ cancelQ' = Append(cancelQ, t.sample)
    /\ EndTask(t, "done")
    /\ UNCHANGED <<partial, feeder, pending, proc, waited, paused, trigger, monitor, staleness,
                   version, stopped, weights, lock, waiters, mq, sync, tr, trained, ckpt, lost,
                   failures, crashes>>

Fail(t) ==
    /\ LoopIdle
    /\ t.st = "running" /\ failures < MaxFailures
    /\ failures' = failures + 1
    /\ lost' = lost \cup {<<t.sample.id, "failed">>}
    /\ EndTask(t, "failed")
    /\ UNCHANGED <<partial, feeder, pending, proc, waited, cancelQ, paused, trigger, monitor,
                   staleness, version, stopped, weights, lock, waiters, mq, sync, tr, trained,
                   ckpt, crashes>>

-----------------------------------------------------------------------------
(* _async_monitor_loop.                                                    *)

MonitorCheck ==
    /\ LoopIdle
    /\ monitor = "sleep" /\ proc.at # "over"
    /\ trigger /\ ~ShouldPause
    /\ monitor' = "hold"
    /\ Acquire("monitor")
    /\ UNCHANGED <<partial, feeder, pending, proc, waited, active, cancelQ, paused, trigger,
                   staleness, version, stopped, weights, mq, sync, tr, trained, ckpt, lost,
                   failures, crashes>>

MonitorUnpause ==
    /\ LoopIdle
    /\ monitor = "hold" /\ lock = "monitor"
    /\ paused' = FALSE
    /\ monitor' = "sleep"
    /\ Notify /\ Release
    /\ UNCHANGED <<partial, feeder, pending, waited, active, cancelQ, trigger, staleness, version,
                   stopped, weights, mq, sync, tr, trained, ckpt, lost, failures, crashes>>

Monitor == MonitorCheck \/ MonitorUnpause

-----------------------------------------------------------------------------
(* sync_weights: pause, transfer, then update_param_version and resume,    *)
(* which nobody waits for before the next synchronization.                 *)

StartSync(v) ==
    /\ sync' = [sync EXCEPT !.at = "pause", !.version = v]
    /\ Acquire("sync")

\* pause() up to its awaits.
PauseRollout ==
    /\ LoopIdle
    /\ sync.at = "pause" /\ lock = "sync"
    /\ paused' = TRUE
    /\ stopped' = partial
    /\ sync' = [sync EXCEPT !.at = "gather"]
    /\ UNCHANGED <<partial, feeder, pending, proc, waited, active, cancelQ, trigger, monitor,
                   staleness, version, weights, lock, waiters, mq, tr, trained, ckpt, lost,
                   failures, crashes>>

\* pause() when every active task is over; exceptions are swallowed.
PausedRollout ==
    /\ LoopIdle
    /\ sync.at = "gather" /\ Collected(active) = active
    /\ active' = {}
    /\ trigger' = FALSE
    /\ sync' = [sync EXCEPT !.at = "weights"]
    /\ Release
    /\ UNCHANGED <<partial, feeder, pending, proc, waited, cancelQ, paused, monitor, staleness,
                   version, stopped, weights, mq, tr, trained, ckpt, lost, failures, crashes>>

TransferWeights ==
    /\ LoopIdle
    /\ sync.at = "weights"
    /\ weights' = sync.version
    /\ sync' = [sync EXCEPT !.at = "update"]
    /\ Acquire("sync")
    /\ UNCHANGED <<partial, feeder, pending, proc, waited, active, cancelQ, paused, trigger,
                   monitor, staleness, version, stopped, mq, tr, trained, ckpt, lost,
                   failures, crashes>>

\* update_param_version counts what is under way, then asks the queue.
UpdateVersion ==
    /\ LoopIdle
    /\ sync.at = "update" /\ lock = "sync"
    /\ version' = sync.version
    /\ sync' = [sync EXCEPT !.at = "size", !.seen = Cardinality(active) + Len(cancelQ)]
    /\ UNCHANGED <<partial, feeder, pending, proc, waited, active, cancelQ, paused, trigger,
                   monitor, staleness, stopped, weights, lock, waiters, mq, tr, trained, ckpt,
                   lost, failures, crashes>>

UpdateStaleness ==
    /\ LoopIdle
    /\ sync.at = "size"
    /\ staleness' = sync.seen + Len(mq)
    /\ sync' = [sync EXCEPT !.at = "updated", !.seen = 0]
    /\ Release
    /\ UNCHANGED <<partial, feeder, pending, proc, waited, active, cancelQ, paused, trigger,
                   monitor, version, stopped, weights, mq, tr, trained, ckpt, lost,
                   failures, crashes>>

AskResume ==
    /\ LoopIdle
    /\ sync.at = "updated"
    /\ sync' = [sync EXCEPT !.at = "resume"]
    /\ Acquire("sync")
    /\ UNCHANGED <<partial, feeder, pending, proc, waited, active, cancelQ, paused, trigger,
                   monitor, staleness, version, stopped, weights, mq, tr, trained, ckpt, lost,
                   failures, crashes>>

ResumeRollout ==
    /\ LoopIdle
    /\ sync.at = "resume" /\ lock = "sync"
    /\ stopped' = FALSE /\ paused' = FALSE /\ trigger' = TRUE
    /\ sync' = [sync EXCEPT !.at = "idle"]
    /\ Notify /\ Release
    /\ UNCHANGED <<partial, feeder, pending, waited, active, cancelQ, monitor, staleness, version,
                   weights, mq, tr, trained, ckpt, lost, failures, crashes>>

Synchronizer ==
    \/ PauseRollout \/ PausedRollout \/ TransferWeights
    \/ UpdateVersion \/ UpdateStaleness \/ AskResume \/ ResumeRollout

-----------------------------------------------------------------------------
(* FullyAsyncTrainer.fit.                                                  *)

\* _get_samples_from_queue: at the end signal the samples collected so far
\* are given up and the loop ends.
Collect ==
    /\ LoopIdle
    /\ tr.at = "collect" /\ mq # <<>>
    /\ mq' = Tail(mq)
    /\ tr' = IF Head(mq) = EndSignal THEN [tr EXCEPT !.at = "final"]
             ELSE [tr EXCEPT !.got = Append(@, Head(mq)),
                             !.at = IF Len(tr.got) + 1 = Required THEN "train" ELSE @]
    /\ UNCHANGED <<loopVars, sync, trained, ckpt, lost, failures, crashes>>

\* Whether a synchronization is due; its mutant: one batch late.
SyncDueLate == tr.local > Trigger
SyncDue == tr.local >= Trigger

\* One update, then _trigger_parameter_sync_after_step.
Train ==
    /\ LoopIdle
    /\ tr.at = "train"
    /\ trained' = trained \cup Ids(tr.got)
    /\ tr' = IF SyncDue
             THEN [tr EXCEPT !.at = "last", !.got = <<>>, !.local = 1, !.version = @ + 1]
             ELSE [tr EXCEPT !.at = "save", !.got = <<>>, !.local = @ + 1]
    /\ UNCHANGED <<loopVars, mq, sync, ckpt, lost, failures, crashes>>

\* wait_last_valid, then sync_weights up to the end of the transfer.
Synchronize ==
    /\ LoopIdle
    /\ tr.at = "last" /\ sync.at = "idle"
    /\ tr' = [tr EXCEPT !.at = "sync"]
    /\ StartSync(tr.version)
    /\ UNCHANGED <<partial, feeder, pending, proc, waited, active, cancelQ, paused, trigger,
                   monitor, staleness, version, stopped, weights, mq, trained, ckpt, lost,
                   failures, crashes>>

\* At the end of training the trainer also waits for the resumption.
Synchronized ==
    /\ LoopIdle
    /\ tr.at = "sync"
    /\ IF tr.closing THEN sync.at = "idle" ELSE sync.at \notin {"pause", "gather", "weights"}
    /\ tr' = [tr EXCEPT !.at = "save"]
    /\ UNCHANGED <<loopVars, mq, sync, trained, ckpt, lost, failures, crashes>>

\* _check_save_checkpoint with _save_checkpoint and the rollouter's
\* save_checkpoint: weights, and how far the dataloader was drawn.
Save ==
    /\ LoopIdle
    /\ tr.at = "save"
    /\ \E esi \in EsiSignals :
         LET due == /\ tr.version # tr.saved
                    /\ SaveFreq > 0
                    /\ tr.version % SaveFreq = 0 \/ esi
         IN  /\ ckpt' = IF due THEN [version |-> tr.version, pos |-> feeder.pos, trained |-> trained]
                        ELSE ckpt
             /\ tr' = [tr EXCEPT !.at = IF tr.closing THEN "done" ELSE "collect",
                                 !.saved = IF due THEN tr.version ELSE @]
    /\ UNCHANGED <<loopVars, mq, sync, trained, lost, failures, crashes>>

\* After the loop: one more synchronization if the last was not validated.
Finish ==
    /\ LoopIdle
    /\ tr.at = "final" /\ sync.at = "idle"
    /\ IF tr.version % TestFreq # 0 \/ tr.local > 1
       THEN tr' = [tr EXCEPT !.at = "last", !.closing = TRUE, !.local = 1, !.version = @ + 1]
       ELSE tr' = [tr EXCEPT !.at = "save", !.closing = TRUE]
    /\ UNCHANGED <<loopVars, mq, sync, trained, ckpt, lost, failures, crashes>>

Trainer == Collect \/ Train \/ Synchronize \/ Synchronized \/ Save \/ Finish

-----------------------------------------------------------------------------
(* The processes die; a new start loads the checkpoint on both sides.      *)

Crash ==
    /\ crashes < MaxCrashes /\ tr.at # "done"
    /\ crashes' = crashes + 1
    /\ feeder' = Fresh(ckpt).feeder /\ proc' = Fresh(ckpt).proc
    /\ sync' = Fresh(ckpt).sync /\ tr' = Fresh(ckpt).tr
    /\ pending' = <<>> /\ cancelQ' = <<>> /\ mq' = <<>> /\ waiters' = <<>>
    /\ active' = {} /\ waited' = FALSE
    /\ paused' = FALSE /\ trigger' = TRUE /\ monitor' = "sleep" /\ stopped' = FALSE
    /\ staleness' = 0 /\ version' = ckpt.version /\ weights' = ckpt.version /\ lock' = "free"
    /\ trained' = ckpt.trained
    /\ lost' = {<<i, "resumed">> : i \in (1..ckpt.pos) \ ckpt.trained}
    /\ UNCHANGED <<partial, ckpt, failures>>

\* The job is over; the rollouter may still be closing down.
Terminated == tr.at = "done" /\ proc.at = "over" /\ UNCHANGED vars

Next ==
    \/ Feed \/ CloseFeed
    \/ Processor \/ Monitor \/ Synchronizer \/ Trainer
    \/ \E t \in active : Complete(t) \/ Interrupt(t) \/ Fail(t)
    \/ Crash
    \/ Terminated

\* The event loop runs what is ready in turn, so a coroutine that is ready
\* between the processor's stretches gets its turn; processes of their own
\* are never held up for good; generation ends; crashes and failures are
\* never due.
Fairness ==
    /\ WF_vars(Processor)
    /\ SF_vars(Feed \/ CloseFeed) /\ SF_vars(Monitor) /\ SF_vars(Synchronizer)
    /\ SF_vars(Trainer)
    /\ SF_vars(\E t \in active : Complete(t) \/ Interrupt(t))

Spec == Init /\ [][Next]_vars /\ Fairness

-----------------------------------------------------------------------------
(* Properties.                                                             *)

SampleType == [id : Nat, start : Nat \cup {NoVersion}, stamp : Nat \cup {NoVersion}]

\* Every variable has its type; a task has its version stamped, the queue
\* and the lock's line of waiters keep their length.
TypeOK ==
    /\ partial \in BOOLEAN
    /\ feeder \in [at : {"put", "close", "closed"}, pos : Nat, gsteps : Nat]
    /\ pending \in Seq(Nat) /\ Len(pending) <= PendingMax
    /\ proc \in [at : {"top", "get", "check", "hold", "wait", "cond", "notified", "end", "dead", "over"},
                 goal : {"pause", "drain", "resume", "limit", "submit", "done"},
                 hand : SampleType]
    /\ waited \in BOOLEAN
    /\ active \subseteq [sample : SampleType, born : BOOLEAN, st : {"running", "done", "failed"}]
    /\ \A t \in active : t.sample.start \in Nat
    /\ cancelQ \in Seq(SampleType)
    /\ {paused, trigger, stopped} \subseteq BOOLEAN
    /\ monitor \in {"sleep", "hold"}
    /\ {staleness, version, weights, failures, crashes} \subseteq Nat
    /\ lock \in {"free", "proc", "monitor", "sync"}
    /\ waiters \in Seq({"proc", "monitor", "sync"}) /\ Len(waiters) <= 2
    /\ mq \in Seq(SampleType) /\ Len(mq) <= MaxRequired
    /\ sync \in [at : {"idle", "pause", "gather", "weights", "update", "size", "updated", "resume"},
                 version : Nat, seen : Nat]
    /\ tr \in [at : {"collect", "train", "last", "sync", "save", "final", "done"},
               got : Seq(SampleType), local : 1..Trigger, version : Nat, saved : Nat,
               closing : BOOLEAN]
    /\ Len(tr.got) <= Required
    /\ trained \subseteq Nat
    /\ ckpt \in [version : Nat, pos : Nat, trained : SUBSET Nat]
    /\ lost \subseteq Nat \X {"evicted", "failed", "resumed"}

\* Where a sample can be, one set per place.
Places ==
    <<IF feeder.at = "put" THEN {feeder.pos} ELSE {},
      {pending[i] : i \in DOMAIN pending} \ {DONE},
      {proc.hand.id} \ {DONE},
      {t.sample.id : t \in active \ Collected(active)},
      Ids(cancelQ), Ids(mq), Ids(tr.got), trained, {l[1] : l \in lost} \ {DONE}>>

\* Every sample drawn from the data is in exactly one place of the system
\* and in no queue twice, whatever is interrupted, resubmitted, evicted,
\* failed or resumed: none is trained twice, none disappears unaccounted.
Conserved ==
    /\ \A i \in 1..feeder.pos : \E p \in DOMAIN Places :
         i \in Places[p] /\ \A q \in DOMAIN Places \ {p} : i \notin Places[q]
    /\ Cardinality(Ids(mq)) = Cardinality({i \in DOMAIN mq : mq[i] # EndSignal})
    /\ Cardinality(Ids(cancelQ)) = Len(cancelQ)

\* Freshness control: the samples started and not yet fetched by the trainer
\* are at most max_required_samples, and one more: the sample the processor
\* holds while it waits for the resumption is in none of the three counts
\* update_param_version resets staleness_samples to.
InFlightBound ==
    Cardinality({proc.hand.id} \ {DONE}) + Cardinality(active \ Collected(active))
        + Len(cancelQ) + Cardinality(Ids(mq)) <= MaxRequired + 1

\* The stream of the trainer, queues and interruptions left out.
Stream == INSTANCE SampleStream WITH
    drawn <- feeder.pos, batches <- tr.local - 1, version <- tr.version,
    saved <- [version |-> ckpt.version, drawn |-> ckpt.pos, trained |-> ckpt.trained]

\* The trainer only ever trains on whole batches of samples it has not
\* trained on, counts versions by Trigger batches, and resumes a saved state.
ImplementsStream == Stream!Spec

\* No lock, condition, queue or pause keeps the two sides waiting for each
\* other: the trainer comes to its end.
StreamEnds == <>(tr.at = "done")
==============================================================================
