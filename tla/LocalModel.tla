----------------------------- MODULE LocalModel -----------------------------
(***************************************************************************)
(* The local Hugging Face provider, llm/huggingface_local.py: _chat, the   *)
(* semaphore it holds, the worker thread it waits for with a timeout, and  *)
(* _load behind its lock.                                                  *)
(*                                                                         *)
(* Tasks are the coroutines of the event loop.  A task that gets a slot    *)
(* submits a job to the pool of asyncio.to_thread; jobs run in threads and *)
(* interleave with the tasks.  A task that times out leaves its job behind:*)
(* the pool drops a job that has not started and cannot stop one that has. *)
(***************************************************************************)
EXTENDS Integers, Sequences, FiniteSets

CONSTANTS
    Tasks,       \* coroutines that call the provider
    Capacities,  \* the values max_concurrency may have
    Workers,     \* threads of the default executor
    MaxCalls     \* bound: calls made by all the tasks together

ASSUME LocalAssumption ==
    /\ Capacities \subseteq Nat \ {0}
    /\ Workers \in Nat \ {0}
    /\ MaxCalls \in Nat

VARIABLES
    capacity,   \* max_concurrency, fixed when the provider is built
    free,       \* slots of _semaphore nobody holds
    waiting,    \* tasks waiting for a slot, in order
    stage,      \* stage[t]: what task t is doing
    job,        \* job[t]: the job task t waits for, or NoJob
    result,     \* result[t]: how t's last call ended
    thread,     \* thread[j]: how far job j got
    submitted,  \* jobs submitted so far
    lock,       \* _lock: the job that holds it, or NoJob
    loaded,     \* _tokenizer and _model are set
    loadError,  \* _load_error is set
    \* History, read by no action of the code.
    calls,      \* calls made so far
    loads       \* loads that succeeded

loop == <<free, waiting, stage, job, result, submitted, calls>>
load == <<lock, loaded, loadError, loads>>
vars == <<capacity, loop, thread, load>>

NoJob == 0
Jobs  == 1..MaxCalls

Running  == {"fast_check", "get_lock", "check", "load", "generate"}
Finished == {"answered", "failed"}
Threads  == {"none", "queued", "dropped"} \cup Running \cup Finished
Results  == {"none", "answered", "failed", "timeout", "unavailable"}

TypeOK ==
    /\ capacity \in Capacities
    /\ free \in 0..capacity
    /\ waiting \in Seq(Tasks)
    /\ stage \in [Tasks -> {"idle", "waiting", "running"}]
    /\ job \in [Tasks -> Jobs \cup {NoJob}]
    /\ result \in [Tasks -> Results]
    /\ thread \in [Jobs -> Threads]
    /\ submitted \in 0..MaxCalls
    /\ lock \in Jobs \cup {NoJob}
    /\ loaded \in BOOLEAN
    /\ loadError \in BOOLEAN
    /\ calls \in 0..MaxCalls
    /\ loads \in Nat

Init ==
    /\ capacity \in Capacities
    /\ free = capacity
    /\ waiting = <<>>
    /\ stage = [t \in Tasks |-> "idle"]
    /\ job = [t \in Tasks |-> NoJob]
    /\ result = [t \in Tasks |-> "none"]
    /\ thread = [j \in Jobs |-> "none"]
    /\ submitted = 0
    /\ lock = NoJob
    \* warmup() ends before the first request and may have preloaded the weights.
    /\ loaded \in BOOLEAN
    /\ loadError \in {FALSE, ~loaded}
    /\ calls = 0
    /\ loads = IF loaded THEN 1 ELSE 0

-----------------------------------------------------------------------------
\* The event loop.
Available == ~loadError

\* _chat: an unavailable provider raises before it asks for a slot.
Call(t) ==
    /\ stage[t] = "idle"
    /\ calls < MaxCalls
    /\ calls' = calls + 1
    /\ \/ /\ Available
          /\ stage' = [stage EXCEPT ![t] = "waiting"]
          /\ waiting' = Append(waiting, t)
          /\ result' = [result EXCEPT ![t] = "none"]
       \/ /\ ~Available
          /\ result' = [result EXCEPT ![t] = "unavailable"]
          /\ UNCHANGED <<stage, waiting>>
    /\ UNCHANGED <<capacity, free, job, submitted, thread, load>>

\* Faulty variant: the job is submitted without waiting for a slot.
AcquireUnasked(t) ==
    /\ waiting # <<>> /\ Head(waiting) = t
    /\ free' = free - 1
    /\ waiting' = Tail(waiting)
    /\ stage' = [stage EXCEPT ![t] = "running"]
    /\ submitted' = submitted + 1
    /\ job' = [job EXCEPT ![t] = submitted + 1]
    /\ thread' = [thread EXCEPT ![submitted + 1] = "queued"]
    /\ UNCHANGED <<capacity, result, calls, load>>

\* The semaphore serves its waiters in order; availability is not read again.
Acquire(t) ==
    /\ waiting # <<>> /\ Head(waiting) = t
    /\ free > 0
    /\ free' = free - 1
    /\ waiting' = Tail(waiting)
    /\ stage' = [stage EXCEPT ![t] = "running"]
    /\ submitted' = submitted + 1
    /\ job' = [job EXCEPT ![t] = submitted + 1]
    /\ thread' = [thread EXCEPT ![submitted + 1] = "queued"]
    /\ UNCHANGED <<capacity, result, calls, load>>

\* Leaving "async with self._semaphore", by a return or by an exception.
End(t, ending) ==
    /\ free' = free + 1
    /\ stage' = [stage EXCEPT ![t] = "idle"]
    /\ job' = [job EXCEPT ![t] = NoJob]
    /\ result' = [result EXCEPT ![t] = ending]
    /\ UNCHANGED <<capacity, waiting, submitted, calls, load>>

Deliver(t) ==
    /\ stage[t] = "running"
    /\ thread[job[t]] \in Finished
    /\ End(t, thread[job[t]])
    /\ UNCHANGED thread

\* Faulty variant: the slot is given back by the job, so a timeout keeps it.
TimeoutKeepingSlot(t) ==
    /\ stage[t] = "running"
    /\ stage' = [stage EXCEPT ![t] = "idle"]
    /\ job' = [job EXCEPT ![t] = NoJob]
    /\ result' = [result EXCEPT ![t] = "timeout"]
    /\ thread' = [thread EXCEPT ![job[t]] = IF @ = "queued" THEN "dropped" ELSE @]
    /\ UNCHANGED <<capacity, free, waiting, submitted, calls, load>>

\* Faulty variant: the wait is shielded, so the job stays in the pool's queue.
TimeoutShielded(t) ==
    /\ stage[t] = "running"
    /\ End(t, "timeout")
    /\ UNCHANGED thread

\* Faulty variant: a timeout waits for the thread that cannot be stopped.
TimeoutAwaitingThread(t) ==
    /\ stage[t] = "running"
    /\ thread[job[t]] \notin Running
    /\ End(t, "timeout")
    /\ thread' = [thread EXCEPT ![job[t]] = IF @ = "queued" THEN "dropped" ELSE @]

\* wait_for cancels the job's future: a queued job is dropped, a running one goes
\* on, and the answer of one that ended just before the timer fired is lost.
Timeout(t) ==
    /\ stage[t] = "running"
    /\ End(t, "timeout")
    /\ thread' = [thread EXCEPT ![job[t]] = IF @ = "queued" THEN "dropped" ELSE @]

-----------------------------------------------------------------------------
\* The worker threads.
Advance(j, from, to) == thread[j] = from /\ thread' = [thread EXCEPT ![j] = to]

RunningJobs == {j \in Jobs : thread[j] \in Running}
QueuedJobs  == {j \in Jobs : thread[j] = "queued"}

Start(j) ==
    /\ Cardinality(RunningJobs) < Workers
    /\ \A k \in QueuedJobs : j <= k
    /\ Advance(j, "queued", "fast_check")
    /\ UNCHANGED <<capacity, loop, load>>

\* _model is the last of the two attributes written, so both are set or neither
\* counts.
FastCheck(j) ==
    /\ Advance(j, "fast_check", IF loaded THEN "generate" ELSE "get_lock")
    /\ UNCHANGED <<capacity, loop, load>>

GetLock(j) ==
    /\ lock = NoJob
    /\ lock' = j
    /\ Advance(j, "get_lock", "check")
    /\ UNCHANGED <<capacity, loop, loaded, loadError, loads>>

\* Faulty variant: the second check is dropped.
CheckNothing(j) ==
    /\ Advance(j, "check", "load")
    /\ UNCHANGED <<capacity, loop, load>>

\* The second check, with the lock held; _load_error is not looked at.
Check(j) ==
    /\ Advance(j, "check", IF loaded THEN "generate" ELSE "load")
    /\ lock' = IF loaded THEN NoJob ELSE lock
    /\ UNCHANGED <<capacity, loop, loaded, loadError, loads>>

LoadOk(j) ==
    /\ Advance(j, "load", "generate")
    /\ lock' = NoJob
    /\ loaded' = TRUE
    /\ loads' = loads + 1
    /\ UNCHANGED <<capacity, loop, loadError>>

\* An ImportError or an OSError is remembered for good; any other error is not.
LoadFails(j) ==
    /\ Advance(j, "load", "failed")
    /\ lock' = NoJob
    /\ loadError' \in {loadError, TRUE}
    /\ UNCHANGED <<capacity, loop, loaded, loads>>

Generate(j) ==
    /\ \E end \in Finished : Advance(j, "generate", end)
    /\ UNCHANGED <<capacity, loop, load>>

Over ==
    /\ calls = MaxCalls
    /\ \A t \in Tasks : stage[t] = "idle"
    /\ \A j \in Jobs : thread[j] \notin {"queued"} \cup Running
    /\ UNCHANGED vars

Next ==
    \/ \E t \in Tasks : Call(t) \/ Acquire(t) \/ Deliver(t) \/ Timeout(t)
    \/ \E j \in Jobs : Start(j) \/ FastCheck(j) \/ GetLock(j) \/ Check(j)
                         \/ LoadOk(j) \/ LoadFails(j) \/ Generate(j)
    \/ Over

Spec == Init /\ [][Next]_vars

\* Only the event loop is scheduled fairly and only the timer is sure to fire: a
\* thread may hang in a load or in a generation for ever.
FairSpec ==
    Spec /\ \A t \in Tasks : WF_vars(Acquire(t)) /\ WF_vars(Deliver(t) \/ Timeout(t))

-----------------------------------------------------------------------------
\* However jobs are abandoned while they wait for the lock, the weights are loaded
\* once, by one thread at a time (the double check of _load).
LoadedOnce ==
    /\ loads <= 1
    /\ \A j, k \in Jobs :
         thread[j] \in {"check", "load"} /\ thread[k] \in {"check", "load"} => j = k

\* Every slot is free or held by a task that waits for its job: timeouts, failures
\* and answers all give it back, and none twice.
SlotsConserved ==
    free + Cardinality({t \in Tasks : stage[t] = "running"}) = capacity

\* Work that has not started never piles up: each queued job is one that a task
\* with a slot still waits for, so that abandoned requests leave nothing behind in
\* the queue all worker threads of the service share.
QueuedWorkBounded ==
    /\ Cardinality(QueuedJobs) <= capacity
    /\ \A j \in QueuedJobs : \E t \in Tasks : job[t] = j

\* Every call of the provider ends, even if each thread that ever loads or
\* generates hangs: no task waits for a slot for ever.
EveryCallEnds == \A t \in Tasks : stage[t] # "idle" ~> stage[t] = "idle"

\* llm/huggingface_local.py:12-17 says that generations are serialised by the
\* semaphore.  An abandoned generation goes on beside the next one.
GenerationsSerialised ==
    Cardinality({j \in Jobs : thread[j] = "generate"}) <= capacity
=============================================================================
