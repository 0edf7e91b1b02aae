------------------------ MODULE RewardRequests_proofs ------------------------
(***************************************************************************)
(* Proofs about the calls of the judge engine, for any number of requests, *)
(* workers, attempts, batches and failures.                                *)
(***************************************************************************)
EXTENDS RewardRequests, FiniteSetTheorems, WellFoundedInduction, TLAPS

\* The requests a worker's count stands for: those it has, and those of this
\* batch that failed there, whose count is never given back.
Owed(w) == {r \in Requests : /\ req[r].worker = w
                             /\ req[r].at = "sent" \/ req[r].status = "error"}

\* The counts are exactly that.
Exact == \A w \in Workers : counts[w] = Cardinality(Owed(w))

\* A request that has not been sent, or is done, is owed by no worker, and
\* between two batches there are no others.
Settled ==
    /\ \A r \in Requests : req[r].at \in {"ready", "sent", "done"} => req[r].status # "error"
    /\ call = "none" => \A r \in Requests : req[r].at \in {"ready", "done"}

\* The inductive strengthening of CountsCover and NothingInherited.
CountInv == Exact /\ Settled

-----------------------------------------------------------------------------
(* The worker selected.                                                    *)

\* A nonempty set of natural numbers has a least one.
LEMMA LeastNatural ==
    ASSUME NEW S \in SUBSET Nat, S # {}
    PROVE \E x \in S : \A y \in S : x <= y
<1>1. PICK x \in S : \A y \in S : <<y, x>> \notin OpToRel(<, Nat)
    BY WFMin, NatLessThanWellFounded, Zenon
<1>2. \A y \in S : ~ (y < x)
    BY <1>1, Zenon DEF OpToRel
<1> QED BY <1>2

\* There is a first worker of the least count.
LEMMA SelectedIsWorker ==
    ASSUME RequestsAssumption, counts \in [Workers -> Nat]
    PROVE Selected \in Workers /\ \A v \in Workers : counts[Selected] <= counts[v]
<1> DEFINE Loads == {counts[w] : w \in Workers}
<1>1. Workers \subseteq Nat /\ 1 \in Workers
    BY DEF Workers, RequestsAssumption
<1>2. Loads \subseteq Nat /\ Loads # {}
    BY <1>1
<1>3. PICK least \in Loads : \A c \in Loads : least <= c
    BY <1>2, LeastNatural
<1> DEFINE Idlest == {w \in Workers : counts[w] = least}
<1>4. Idlest \subseteq Nat /\ Idlest # {}
    BY <1>1, <1>3
<1> HIDE DEF Idlest
<1>5. PICK w \in Idlest : \A v \in Idlest : w <= v
    BY <1>4, LeastNatural
<1>6. w \in Workers /\ \A v \in Workers : counts[w] <= counts[v]
    BY <1>3, <1>5 DEF Idlest
<1>7. ASSUME NEW v \in 1..(w - 1) PROVE counts[w] < counts[v]
  <2>1. v \in Workers /\ v \notin Idlest
      BY <1>4, <1>5, <1>6 DEF Workers, RequestsAssumption
  <2>2. counts[v] # counts[w]
      BY <1>5, <2>1 DEF Idlest
  <2> QED BY <1>6, <2>1, <2>2
<1> QED BY <1>6, <1>7, Zenon DEF Selected

-----------------------------------------------------------------------------
(* Types.                                                                  *)

\* What the assumption says of the numbers.
LEMMA Constants ==
    ASSUME RequestsAssumption
    PROVE /\ NumWorkers \in Nat \ {0} /\ MaxAttempts \in Nat \ {0}
          /\ MaxBatches \in Nat /\ MaxFaults \in Nat
BY DEF RequestsAssumption

\* A request at the beginning of a batch.
LEMMA FreshType ==
    ASSUME RequestsAssumption
    PROVE Fresh \in RequestType
BY Constants DEF Fresh, RequestType

\* The start.
LEMMA TypeInit == ASSUME RequestsAssumption, Init PROVE TypeOK
<1>1. req \in [Requests -> RequestType]
    BY FreshType DEF Init
<1>2. \A r \in Requests : req[r].at # "sent"
    BY DEF Init, Fresh
<1>3. counts \in [Workers -> Nat] /\ faults \in 0..MaxFaults /\ batches \in 0..MaxBatches
    BY Constants DEF Init
<1> QED BY <1>1, <1>2, <1>3, Zenon DEF Init, TypeOK

\* The driver.
LEMMA TypeDriver ==
    ASSUME RequestsAssumption, TypeOK, Begin \/ Finish \/ Raise
    PROVE TypeOK'
<1>1. CASE Begin
  <2>1. req' \in [Requests -> RequestType]
      BY <1>1, FreshType DEF Begin
  <2>2. \A r \in Requests : req'[r].at # "sent"
      BY <1>1 DEF Begin, Fresh
  <2>3. batches' \in 0..MaxBatches
      BY <1>1, Constants DEF Begin, TypeOK
  <2> QED BY <1>1, <2>1, <2>2, <2>3 DEF Begin, TypeOK
<1>2. CASE Finish \/ Raise
    BY <1>2 DEF Finish, Raise, TypeOK
<1> QED BY <1>1, <1>2

\* A request is sent to a worker.
LEMMA TypePost ==
    ASSUME RequestsAssumption, TypeOK, NEW r \in Requests, Post(r)
    PROVE TypeOK'
<1>1. Selected \in Workers
    BY SelectedIsWorker DEF TypeOK
<1>2. counts' \in [Workers -> Nat]
    BY <1>1 DEF Post, TypeOK
<1>3. req' \in [Requests -> RequestType]
    BY <1>1 DEF Post, TypeOK, RequestType
<1>4. \A s \in Requests : req'[s].at = "sent" => req'[s].worker \in Workers
    BY <1>1 DEF Post, TypeOK, RequestType
<1> QED BY <1>2, <1>3, <1>4 DEF Post, TypeOK

\* A request that ends in the router keeps its place there.
LEMMA EndsType ==
    ASSUME TypeOK, NEW r \in Requests, NEW s \in {"answer", "empty", "error"}, Ends(r, s)
    PROVE /\ req' \in [Requests -> RequestType]
          /\ \A q \in Requests : req'[q].at = "sent" => req'[q].worker \in Workers
<1>1. /\ req \in [Requests -> RequestType]
      /\ req' = [req EXCEPT ![r].at = "answered", ![r].status = s]
      /\ \A q \in Requests : req[q].at = "sent" => req[q].worker \in Workers
    BY DEF Ends, TypeOK
<1>2. req' \in [Requests -> RequestType]
    BY <1>1, ZenonT(60) DEF RequestType
<1> QED BY <1>1, <1>2 DEF RequestType

\* A failure is counted.
LEMMA FaultType ==
    ASSUME RequestsAssumption, TypeOK, OneFault \/ UNCHANGED faults
    PROVE faults' \in 0..MaxFaults
BY Constants DEF OneFault, TypeOK

\* A worker's answer, or a failed attempt there.
LEMMA TypeServed ==
    ASSUME RequestsAssumption, TypeOK, NEW r \in Requests, Answer(r) \/ Reject(r) \/ Fault(r)
    PROVE TypeOK'
<1>1. req[r].at = "sent" /\ req[r].worker \in Workers /\ faults' \in 0..MaxFaults
    BY FaultType DEF Answer, Reject, Fault, AtHealthy, TypeOK
<1>2. counts' \in [Workers -> Nat]
  <2>1. CASE Answer(r)
      BY <1>1, <2>1 DEF Answer, Release, TypeOK
  <2>2. CASE Reject(r) \/ Fault(r)
      BY <2>2 DEF Reject, Fault, KeepCount, TypeOK
  <2> QED BY <2>1, <2>2
<1>3. /\ req' \in [Requests -> RequestType]
      /\ \A q \in Requests : req'[q].at = "sent" => req'[q].worker \in Workers
  <2>1. CASE \E s \in {"answer", "empty", "error"} : Ends(r, s)
      BY <2>1, EndsType
  <2>2. CASE HasAttempt(r) /\ req' = [req EXCEPT ![r].n = Attempt(r)]
    <3>1. req \in [Requests -> RequestType] /\ req[r].n \in 0..(MaxAttempts - 1)
        BY DEF TypeOK, RequestType
    <3>2. Attempt(r) \in 0..(MaxAttempts - 1)
        BY <2>2, <3>1, Constants DEF HasAttempt, Attempt
    <3>3. req' \in [Requests -> RequestType]
        BY <2>2, <3>1, <3>2 DEF RequestType
    <3> QED BY <2>2, <3>1, <3>3 DEF TypeOK, RequestType
  <2> QED BY <2>1, <2>2 DEF Answer, Reject, Fault
<1> QED BY <1>1, <1>2, <1>3 DEF Answer, Reject, Fault, TypeOK

\* The caller has the response.
LEMMA TypeReceive ==
    ASSUME TypeOK, NEW r \in Requests, Receive(r)
    PROVE TypeOK'
<1>1. PICK at \in {"done", "failed"} : req' = [req EXCEPT ![r].at = at]
    BY DEF Receive
<1>2. req' \in [Requests -> RequestType]
    BY <1>1 DEF TypeOK, RequestType
<1>3. \A s \in Requests : req'[s].at = "sent" => req'[s].worker \in Workers
    BY <1>1 DEF TypeOK, RequestType
<1> QED BY <1>2, <1>3 DEF Receive, TypeOK

\* A worker hangs or goes down.
LEMMA TypeHealth ==
    ASSUME TypeOK, NEW w \in Workers, Hang(w) \/ GoDown(w)
    PROVE TypeOK'
BY DEF Hang, GoDown, TypeOK

\* Every step keeps the types.
LEMMA TypeNext == ASSUME RequestsAssumption, TypeOK, [Next]_vars PROVE TypeOK'
<1>1. CASE UNCHANGED vars
    BY <1>1 DEF vars, TypeOK
<1> QED BY <1>1, TypeDriver, TypePost, TypeServed, TypeReceive, TypeHealth DEF Next, Terminated

\* Every variable of the requests keeps its type; no request is tried more
\* often than max_attempts (_make_async_request).
THEOREM RequestsTypeCorrect == Spec => []TypeOK
<1>1. Init => TypeOK
    BY RequestsAssumption, TypeInit
<1>2. TypeOK /\ [Next]_vars => TypeOK'
    BY RequestsAssumption, TypeNext
<1> QED BY <1>1, <1>2, PTL DEF Spec

-----------------------------------------------------------------------------
(* The counts of the router.                                               *)

\* Finitely many requests are owed, and those a worker has are among them.
LEMMA OwedFinite ==
    ASSUME RequestsAssumption, NEW w
    PROVE /\ IsFiniteSet(Owed(w)) /\ Cardinality(Owed(w)) \in Nat
          /\ Cardinality(AtWorker(w)) <= Cardinality(Owed(w))
<1>1. IsFiniteSet(Owed(w)) /\ Cardinality(Owed(w)) \in Nat
    BY FS_Subset, FS_CardinalityType DEF RequestsAssumption, Owed
<1>2. AtWorker(w) \subseteq Owed(w)
    BY DEF AtWorker, Owed
<1> QED BY <1>1, <1>2, FS_Subset

\* The start: nothing is counted and nothing owed.
LEMMA CountInit == ASSUME RequestsAssumption, Init PROVE CountInv
<1>1. \A w \in Workers : Owed(w) = {}
    BY DEF Init, Fresh, Owed
<1> QED BY <1>1, FS_EmptySet DEF Init, Fresh, CountInv, Exact, Settled

\* Between two batches nothing is owed, so nothing is counted.
LEMMA NothingOwed ==
    ASSUME CountInv, call = "none", NEW w \in Workers
    PROVE Owed(w) = {} /\ counts[w] = 0
<1>1. Owed(w) = {}
    BY DEF CountInv, Settled, Owed
<1> QED BY <1>1, FS_EmptySet DEF CountInv, Exact

\* A batch begins with requests no worker owes, and ends with them if none
\* failed.
LEMMA CountDriver ==
    ASSUME TypeOK, CountInv, Begin \/ Finish \/ Raise
    PROVE CountInv'
<1>1. CASE Begin
  <2>1. \A w \in Workers : Owed(w)' = {} /\ counts'[w] = 0
      BY <1>1, NothingOwed DEF Begin, Fresh, Owed
  <2> QED BY <1>1, <2>1, FS_EmptySet DEF Begin, Fresh, CountInv, Exact, Settled
<1>2. CASE Finish \/ Raise
    BY <1>2 DEF Finish, Raise, CountInv, Exact, Settled, Owed
<1> QED BY <1>1, <1>2

\* Post adds one request and one to the count of the same worker.
LEMMA CountPost ==
    ASSUME RequestsAssumption, TypeOK, CountInv, NEW r \in Requests, Post(r)
    PROVE CountInv'
<1>1. Selected \in Workers
    BY SelectedIsWorker DEF TypeOK
<1>2. Settled'
    BY DEF Post, TypeOK, RequestType, CountInv, Settled
<1>3. ASSUME NEW w \in Workers PROVE counts'[w] = Cardinality(Owed(w)')
  <2>1. r \notin Owed(w)
      BY DEF Post, CountInv, Settled, Owed
  <2>2. CASE w = Selected
    <3>1. Owed(w)' = Owed(w) \cup {r}
        BY <2>2 DEF Post, CountInv, Settled, Owed, TypeOK, RequestType
    <3>2. Cardinality(Owed(w)') = Cardinality(Owed(w)) + 1
        BY <2>1, <3>1, OwedFinite, FS_AddElement
    <3> QED BY <1>1, <2>2, <3>2 DEF Post, TypeOK, CountInv, Exact
  <2>3. CASE w # Selected
    <3>1. Owed(w)' = Owed(w)
        BY <2>1, <2>3 DEF Post, Owed, TypeOK, RequestType
    <3> QED BY <1>1, <2>3, <3>1 DEF Post, TypeOK, CountInv, Exact
  <2> QED BY <2>2, <2>3
<1> QED BY <1>2, <1>3 DEF CountInv, Exact

\* Answer takes one request away and, as that request was counted, one from
\* the count: the IF of Release is never needed.
LEMMA CountAnswer ==
    ASSUME RequestsAssumption, TypeOK, CountInv, NEW r \in Requests, Answer(r)
    PROVE CountInv'
<1> DEFINE mine == req[r].worker
<1>1. mine \in Workers /\ r \in Owed(mine) /\ req[r].at = "sent"
    BY DEF Answer, AtHealthy, Owed, TypeOK
<1>2. PICK s \in {"answer", "empty"} : req' = [req EXCEPT ![r].at = "answered", ![r].status = s]
    BY DEF Answer, Ends
<1>3. /\ \A q \in Requests : q # r => req'[q] = req[q]
      /\ req'[r].at = "answered" /\ req'[r].status = s
      /\ req'[r].worker = mine
    BY <1>2 DEF TypeOK, RequestType
<1>4. Settled'
    BY <1>3 DEF Answer, AtHealthy, CountInv, Settled
<1>5. ASSUME NEW w \in Workers PROVE counts'[w] = Cardinality(Owed(w)')
  <2>1. CASE w = mine
    <3>1. Owed(w)' = Owed(w) \ {r}
        BY <1>3, <2>1 DEF Owed
    <3>2. Cardinality(Owed(w)') = Cardinality(Owed(w)) - 1
        BY <1>1, <2>1, <3>1, OwedFinite, FS_RemoveElement
    <3>3. Cardinality(Owed(w)') \in Nat
        BY <3>1, OwedFinite, FS_RemoveElement, FS_CardinalityType
    <3>4. counts[w] > 0 /\ counts[w] \in Nat
        BY <3>2, <3>3, OwedFinite DEF CountInv, Exact
    <3>5. counts'[w] = counts[w] - 1
        BY <1>1, <2>1, <3>4 DEF Answer, Release, TypeOK
    <3> QED BY <3>2, <3>5 DEF CountInv, Exact
  <2>2. CASE w # mine
    <3>1. Owed(w)' = Owed(w)
        BY <1>3, <2>2 DEF Owed
    <3> QED BY <1>1, <2>2, <3>1 DEF Answer, Release, TypeOK, CountInv, Exact
  <2> QED BY <2>1, <2>2
<1> QED BY <1>4, <1>5 DEF CountInv, Exact

\* A request that is tried again, fails or reaches the caller is owed as before.
LEMMA CountKept ==
    ASSUME TypeOK, CountInv, NEW r \in Requests, Reject(r) \/ Fault(r) \/ Receive(r)
    PROVE CountInv'
<1>1. counts' = counts /\ call' = call /\ call = "batch"
    BY DEF Reject, Fault, AtHealthy, KeepCount, Receive
<1>2. /\ \A q \in Requests : q # r => req'[q] = req[q]
      /\ req'[r].worker = req[r].worker
      /\ \/ req[r].at = "sent" /\ req'[r].at = "sent" /\ req'[r].status = req[r].status
         \/ req[r].at = "sent" /\ req'[r].at = "answered" /\ req'[r].status = "error"
         \/ /\ req[r].at = "answered" /\ req'[r].at \in {"done", "failed"}
            /\ req'[r].status = req[r].status
            /\ req'[r].at = "done" => req[r].status = "answer"
  <2>1. req \in [Requests -> RequestType]
      BY DEF TypeOK
  <2>2. CASE Reject(r)
      BY <2>1, <2>2 DEF Reject, AtHealthy, Ends, RequestType
  <2>3. CASE Fault(r)
      BY <2>1, <2>3 DEF Fault, AtHealthy, Ends, RequestType
  <2>4. CASE Receive(r)
      BY <2>1, <2>4 DEF Receive, RequestType
  <2> QED BY <2>2, <2>3, <2>4
<1>3. \A w \in Workers : Owed(w)' = Owed(w)
    BY <1>2 DEF Owed
<1>4. Settled'
    BY <1>1, <1>2 DEF CountInv, Settled
<1> QED BY <1>1, <1>3, <1>4 DEF CountInv, Exact

\* Every step keeps the counts exact.
LEMMA CountNext == ASSUME RequestsAssumption, TypeOK, CountInv, [Next]_vars PROVE CountInv'
<1>1. CASE UNCHANGED vars \/ \E w \in Workers : Hang(w) \/ GoDown(w)
    BY <1>1 DEF vars, Hang, GoDown, CountInv, Exact, Settled, Owed
<1> QED BY <1>1, CountDriver, CountPost, CountAnswer, CountKept DEF Next, Terminated

\* The counts of the router are exactly what its workers owe.
LEMMA CountsAlwaysExact == Spec => [](TypeOK /\ CountInv)
<1>1. Init => CountInv
    BY RequestsAssumption, CountInit
<1>2. TypeOK /\ CountInv /\ [Next]_vars => CountInv'
    BY RequestsAssumption, CountNext
<1> QED BY <1>1, <1>2, RequestsTypeCorrect, PTL DEF Spec

\* A worker's count is never below the requests it has: _release_worker is
\* called once for each request counted.
THEOREM CountsAlwaysCover == Spec => []CountsCover
<1>1. TypeOK /\ CountInv => CountsCover
    BY RequestsAssumption, OwedFinite DEF CountInv, Exact, CountsCover
<1> QED BY <1>1, CountsAlwaysExact, PTL

\* No batch of a job that goes on inherits a count, whatever attempts of the
\* router failed and were made good before.
THEOREM CountsNeverInherited == Spec => []NothingInherited
<1>1. TypeOK /\ CountInv => NothingInherited
    BY NothingOwed DEF NothingInherited
<1> QED BY <1>1, CountsAlwaysExact, PTL

\* What least counts mean: without a failure of the batch, a request goes to a
\* worker that has no more requests than any other (_select_worker).
THEOREM AlwaysLeastLoaded == Spec => LeastLoaded
<1>1. TypeOK /\ CountInv /\ [Next]_vars =>
        [\A r \in Requests :
           /\ req[r].at = "ready" /\ req'[r].at = "sent"
           /\ \A s \in Requests : req[s].status # "error"
           => \A w \in Workers :
                Cardinality(AtWorker(req'[r].worker)) <= Cardinality(AtWorker(w))]_vars
  <2> SUFFICES ASSUME TypeOK, CountInv, Next, NEW r \in Requests,
                      req[r].at = "ready", req'[r].at = "sent",
                      \A s \in Requests : req[s].status # "error"
               PROVE \A w \in Workers :
                       Cardinality(AtWorker(req'[r].worker)) <= Cardinality(AtWorker(w))
      BY Zenon
  <2>1. Post(r)
    <3>1. req \in [Requests -> RequestType]
        BY DEF TypeOK
    <3>2. ASSUME NEW q \in Requests, Step(q) PROVE Post(r)
      <4>1. CASE Post(q)
          BY <3>1, <4>1 DEF Post, RequestType
      <4>2. CASE Answer(q) \/ Reject(q) \/ Fault(q) \/ Receive(q)
          BY <3>1, <4>2 DEF Answer, Reject, Fault, AtHealthy, Ends, Receive, RequestType
      <4> QED BY <3>2, <4>1, <4>2 DEF Step
    <3> QED BY <3>2 DEF Next, Begin, Fresh, Finish, Raise, Step, Hang, GoDown, Terminated, vars
  <2>2. Selected \in Workers /\ \A w \in Workers : counts[Selected] <= counts[w]
      BY RequestsAssumption, SelectedIsWorker DEF TypeOK
  <2>3. req'[r].worker = Selected
      BY <2>1 DEF Post, TypeOK, RequestType
  <2>4. \A w \in Workers : counts[w] = Cardinality(AtWorker(w))
    <3>1. \A w \in Workers : Owed(w) = AtWorker(w)
        BY DEF Owed, AtWorker
    <3> QED BY <3>1 DEF CountInv, Exact
  <2> QED BY <2>2, <2>3, <2>4
<1> QED BY <1>1, CountsAlwaysExact, PTL DEF Spec, LeastLoaded
==============================================================================
