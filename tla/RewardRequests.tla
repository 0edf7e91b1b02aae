---------------------------- MODULE RewardRequests ----------------------------
(***************************************************************************)
(* Calls of the judge engine: a batch of concurrent requests goes through  *)
(* the NaiveRouter to the engine's workers.  Both callers of the tutor,    *)
(* the scoring of a batch (_run_judge_completions, one request for each    *)
(* criterion) and the generator (_call_generator), post each request once  *)
(* and gather the answers; no timeout is set on the way.  The router sends *)
(* a request to the worker with the least count, stays with it for         *)
(* max_attempts tries, and gives the count back only with an answer.       *)
(*                                                                         *)
(* A request is one process: it stands for the coroutine of the caller and *)
(* for the router's handler that serves it, one of which runs at a time.   *)
(***************************************************************************)
EXTENDS Integers, FiniteSets

CONSTANTS
    Requests,      \* the requests of a batch
    NumWorkers,    \* len(worker_urls)
    MaxAttempts,   \* max_attempts of the router
    MaxBatches,    \* bound on the batches
    MaxDown,       \* bound on the workers that go down
    MaxHung,       \* bound on the workers that hang at a time
    MaxFaults      \* bound on the failures at a worker that is up

Workers == 1..NumWorkers     \* in the order of worker_urls

RequestsAssumption ==
    /\ IsFiniteSet(Requests)
    /\ {NumWorkers, MaxAttempts} \subseteq Nat \ {0}
    /\ {MaxBatches, MaxDown, MaxHung, MaxFaults} \subseteq Nat

ASSUME RequestsAssumption

VARIABLES
    call,      \* what the driver does: "none", "batch" or "raised"
    req,       \* per request [at, worker, n: attempts that failed there, status]
    counts,    \* request_counts of the router
    health,    \* per worker: "up", "hung" (accepts, never answers), "down" (refuses)
    faults, batches

vars == <<call, req, counts, health, faults, batches>>

-----------------------------------------------------------------------------

Nobody == 0
Fresh == [at |-> "ready", worker |-> Nobody, n |-> 0, status |-> "none"]

AtWorker(w) == {r \in Requests : req[r].at = "sent" /\ req[r].worker = w}
In(state) == {w \in Workers : health[w] = state}

\* Mutant of Selected: the first worker, whatever it has to do.
SelectedFirst == 1

\* _select_worker: the first of the least counts.
Selected == CHOOSE w \in Workers : /\ \A v \in Workers : counts[w] <= counts[v]
                                   /\ \A v \in 1..(w - 1) : counts[w] < counts[v]

\* _release_worker.
Release(w) == counts' = [counts EXCEPT ![w] = IF @ > 0 THEN @ - 1 ELSE 0]

Init ==
    /\ call = "none"
    /\ req = [r \in Requests |-> Fresh]
    /\ counts = [w \in Workers |-> 0]
    /\ health = [w \in Workers |-> "up"]
    /\ faults = 0 /\ batches = 0

-----------------------------------------------------------------------------
(* The driver.                                                             *)

\* compute_rm_score or a stage of the tutor begins a batch.
Begin ==
    /\ call = "none" /\ batches < MaxBatches
    /\ call' = "batch"
    /\ req' = [r \in Requests |-> Fresh]
    /\ batches' = batches + 1
    /\ UNCHANGED <<counts, health, faults>>

\* gather has every answer.
Finish ==
    /\ call = "batch"
    /\ \A r \in Requests : req[r].at = "done"
    /\ call' = "none"
    /\ UNCHANGED <<req, counts, health, faults, batches>>

\* gather raises at the first request that failed, whatever the others do, and
\* nothing up to the main function catches it: the job ends.
Raise ==
    /\ call = "batch"
    /\ \E r \in Requests : req[r].at = "failed"
    /\ call' = "raised"
    /\ UNCHANGED <<req, counts, health, faults, batches>>

-----------------------------------------------------------------------------
(* A request.                                                              *)

\* The caller posts; the router selects a worker and counts the request.
Post(r) ==
    /\ call = "batch" /\ req[r].at = "ready"
    /\ req' = [req EXCEPT ![r].at = "sent", ![r].worker = Selected]
    /\ counts' = [counts EXCEPT ![Selected] = @ + 1]
    /\ UNCHANGED <<call, health, faults, batches>>

AtHealthy(r, state) ==
    call = "batch" /\ req[r].at = "sent" /\ health[req[r].worker] = state

\* A failure at a worker that is up.
OneFault == faults < MaxFaults /\ faults' = faults + 1

Ends(r, status) == req' = [req EXCEPT ![r].at = "answered", ![r].status = status]

\* The worker answers and the router passes the answer on: the whole of it, or,
\* if it breaks off after the header, an empty object.
Answer(r) ==
    /\ AtHealthy(r, "up")
    /\ \/ Ends(r, "answer") /\ UNCHANGED faults
       \/ Ends(r, "empty") /\ OneFault
    /\ Release(req[r].worker)
    /\ UNCHANGED <<call, health, batches>>

\* The worker answers a 4xx or 5xx: raise_for_status turns either into an
\* exception the handler raises again, whatever attempts are left.
Reject(r) ==
    /\ AtHealthy(r, "up") /\ OneFault
    /\ Ends(r, "error")
    /\ UNCHANGED <<call, counts, health, batches>>

\* Mutants of KeepCount: given back as on success; counted again.
ReleaseEach(r) == Release(req[r].worker)
CountEach(r) == counts' = [counts EXCEPT ![req[r].worker] = @ + 1]

\* The count after a failed attempt.
KeepCount(r) == UNCHANGED counts

\* Mutant of Attempt: the attempts are not counted.
AttemptAgain(r) == req[r].n

\* The number of attempts that have failed now.
Attempt(r) == req[r].n + 1

\* Mutant of HasAttempt: once more than max_attempts allows.
HasOneMore(r) == Attempt(r) <= MaxAttempts

HasAttempt(r) == Attempt(r) < MaxAttempts

\* A refused or a broken connection: another attempt at the same worker after a
\* delay, or the end of them.
Fault(r) ==
    /\ \/ AtHealthy(r, "down") /\ UNCHANGED faults
       \/ AtHealthy(r, "up") /\ OneFault
    /\ \/ HasAttempt(r) /\ req' = [req EXCEPT ![r].n = Attempt(r)]
       \/ ~HasAttempt(r) /\ Ends(r, "error")
    /\ KeepCount(r)
    /\ UNCHANGED <<call, health, batches>>

\* The caller has the router's response; an error, which is always a 500, or an
\* empty one raises.
Receive(r) ==
    /\ call = "batch" /\ req[r].at = "answered"
    /\ req' = [req EXCEPT ![r].at = IF req[r].status = "answer" THEN "done" ELSE "failed"]
    /\ UNCHANGED <<call, counts, health, faults, batches>>

Step(r) == Post(r) \/ Answer(r) \/ Reject(r) \/ Fault(r) \/ Receive(r)

-----------------------------------------------------------------------------
(* The workers.                                                            *)

\* A worker stops answering but keeps its connections.
Hang(w) ==
    /\ call # "raised"
    /\ health[w] = "up" /\ Cardinality(In("hung")) < MaxHung
    /\ health' = [health EXCEPT ![w] = "hung"]
    /\ UNCHANGED <<call, req, counts, faults, batches>>

\* A worker, also one that hung, goes down: its connections break.
GoDown(w) ==
    /\ call # "raised"
    /\ health[w] # "down" /\ Cardinality(In("down")) < MaxDown
    /\ health' = [health EXCEPT ![w] = "down"]
    /\ UNCHANGED <<call, req, counts, faults, batches>>

\* The job's calls are over, one raised and the job with it, or all that is
\* left of a batch waits for workers that hang.
Terminated ==
    /\ \/ call = "raised"
       \/ call = "none" /\ batches = MaxBatches
       \/ \A r \in Requests : req[r].at = "done" \/ AtHealthy(r, "hung")
    /\ UNCHANGED vars

Next ==
    \/ Begin \/ Finish \/ Raise
    \/ \E r \in Requests : Post(r) \/ Answer(r) \/ Reject(r) \/ Fault(r) \/ Receive(r)
    \/ \E w \in Workers : Hang(w) \/ GoDown(w)
    \/ Terminated

\* The driver and every coroutine go on.  A request at a worker that hangs has
\* no step to take, so nothing is assumed of it.
Fairness ==
    /\ WF_vars(Finish \/ Raise)
    /\ \A r \in Requests : WF_vars(Step(r))

Spec == Init /\ [][Next]_vars /\ Fairness

-----------------------------------------------------------------------------
(* Properties.                                                             *)

RequestType == [at : {"ready", "sent", "answered", "done", "failed"},
                worker : Workers \cup {Nobody}, n : 0..(MaxAttempts - 1),
                status : {"none", "answer", "empty", "error"}]

\* Every variable has its type; the router tries a request max_attempts times.
TypeOK ==
    /\ call \in {"none", "batch", "raised"}
    /\ req \in [Requests -> RequestType]
    /\ \A r \in Requests : req[r].at = "sent" => req[r].worker \in Workers
    /\ counts \in [Workers -> Nat]
    /\ health \in [Workers -> {"up", "hung", "down"}]
    /\ faults \in 0..MaxFaults /\ batches \in 0..MaxBatches

\* A worker's count is never below the requests it has, whatever failed: the
\* max(0, ...) of _release_worker never hides a release too many, so a loaded
\* worker never passes for an idle one.
CountsCover == \A w \in Workers : Cardinality(AtWorker(w)) <= counts[w]

\* A failure keeps its worker counted for good, but no batch of a job that goes
\* on inherits such a count: between two batches every count is 0, after any
\* number of failed attempts that were made good.
NothingInherited == call = "none" => \A w \in Workers : counts[w] = 0

\* "Select the least-loaded worker": as long as no request of the batch has
\* failed in the router, a request goes to a worker that has, at that moment,
\* no more requests than any other, whatever attempts went wrong before.
LeastLoaded ==
    [][\A r \in Requests :
         /\ req[r].at = "ready" /\ req'[r].at = "sent"
         /\ \A s \in Requests : req[s].status # "error"
         => \A w \in Workers :
              Cardinality(AtWorker(req'[r].worker)) <= Cardinality(AtWorker(w))]_vars

\* Every batch comes to its end, with answers or with an exception, unless one
\* of its own requests is at a worker that hangs: workers that go down, refuse
\* or break off, and hung workers without a request, hold nothing up.  The one
\* exception is the code's: no timeout is set, and _post_request, which has none
\* either, says itself that it "can hang indefinitely".
BatchEnds ==
    call = "batch" ~> \/ call # "batch"
                      \/ \E w \in In("hung") : AtWorker(w) # {}
==============================================================================
