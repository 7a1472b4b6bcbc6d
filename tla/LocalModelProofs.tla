------------------------- MODULE LocalModelProofs -------------------------
(***************************************************************************)
(* Proofs about LocalModel: types, the slots of the semaphore, the work in *)
(* the pool's queue, and the load behind its lock.  That every call ends   *)
(* is left to TLC.                                                         *)
(***************************************************************************)
EXTENDS LocalModel, FiniteSetTheorems, FunctionTheorems, SequenceTheorems, TLAPS

Holders == {t \in Tasks : stage[t] = "running"}

\* TypeOK without the upper bounds, which follow from what is below.
Types ==
    /\ capacity \in Capacities /\ free \in Nat
    /\ waiting \in Seq(Tasks)
    /\ stage \in [Tasks -> {"idle", "waiting", "running"}]
    /\ job \in [Tasks -> Nat]
    /\ result \in [Tasks -> Results]
    /\ thread \in [Jobs -> Threads]
    /\ submitted \in Nat
    /\ lock \in Jobs \cup {NoJob}
    /\ loaded \in BOOLEAN /\ loadError \in BOOLEAN
    /\ calls \in 0 .. MaxCalls /\ loads \in Nat

Slots == IsFiniteSet(Holders) /\ free + Cardinality(Holders) = capacity

\* A waiting task waits once, and for every waiting task there is a job left to submit.
Queue ==
    /\ submitted + Len(waiting) <= calls
    /\ \A i \in 1 .. Len(waiting) : stage[waiting[i]] = "waiting"
    /\ \A i, j \in 1 .. Len(waiting) : waiting[i] = waiting[j] => i = j

\* A task with a slot waits for a job of its own, and jobs are numbered as they are submitted.
Own ==
    /\ \A t \in Tasks : IF stage[t] = "running" THEN job[t] \in 1 .. submitted ELSE job[t] = NoJob
    /\ \A t, u \in Holders : job[t] = job[u] => t = u
    /\ \A j \in Jobs : j > submitted => thread[j] = "none"

\* A queued job has a task that waits for it.
Awaited == \A j \in Jobs : thread[j] = "queued" => \E t \in Holders : job[t] = j

\* The lock's holder is between the second check and the end of its load, and loads only where nothing is.
Loading ==
    /\ \A j \in Jobs : thread[j] \in {"check", "load"} <=> lock = j
    /\ \A j \in Jobs : thread[j] = "load" => ~ loaded
    /\ loads = IF loaded THEN 1 ELSE 0

LocalInv == Types /\ Slots /\ Queue /\ Own /\ Awaited /\ Loading

-----------------------------------------------------------------------------
\* A provider starts with all slots free and nothing submitted (HuggingFaceLocalProvider.__init__).
LEMMA InitialState == Init => LocalInv
<1> SUFFICES ASSUME Init PROVE LocalInv
  OBVIOUS
<1> USE LocalAssumption
<1>1. Types
  <2>1. loaded \in BOOLEAN /\ loadError \in BOOLEAN
    BY DEF Init
  <2>2. loads \in Nat /\ free \in Nat /\ capacity \in Capacities
    BY DEF Init
  <2>3. /\ waiting \in Seq(Tasks) /\ stage \in [Tasks -> {"idle", "waiting", "running"}] /\ job \in [Tasks -> Nat]
        /\ result \in [Tasks -> Results] /\ thread \in [Jobs -> Threads]
        /\ submitted \in Nat /\ lock \in Jobs \cup {NoJob} /\ calls \in 0 .. MaxCalls
    BY DEF Init, Results, Threads, NoJob
  <2> QED BY <2>1, <2>2, <2>3 DEF Types
<1>2. Holders = {}
  BY DEF Init, Holders
<1>3. Slots
  BY <1>1, <1>2, FS_EmptySet DEF Init, Slots, Types
<1>4. Queue
  BY DEF Init, Queue
<1>5. Own
  BY <1>2 DEF Init, Own
<1>6. Awaited
  BY DEF Init, Awaited
<1>7. Loading
  BY DEF Init, Loading, NoJob, Jobs
<1> QED BY <1>1, <1>3, <1>4, <1>5, <1>6, <1>7 DEF LocalInv

\* A call joins the waiters, or is turned away (_chat before the semaphore).
LEMMA CallKeeps ==
    ASSUME LocalInv, NEW t \in Tasks, Call(t)
    PROVE  LocalInv'
<1> USE LocalAssumption
<1>0. Types
  BY DEF LocalInv
<1>1. UNCHANGED <<capacity, free, job, submitted, thread, lock, loaded, loadError, loads>>
      /\ stage[t] = "idle" /\ calls < MaxCalls /\ calls' = calls + 1
  BY DEF Call, load
<1>2. Awaited' /\ Own' /\ Slots' /\ Holders' = Holders
  <2>1. Holders' = Holders
    BY <1>0, <1>1 DEF Call, Holders, Types
  <2>2. \A u \in Tasks : stage'[u] = "running" <=> stage[u] = "running"
    BY <1>0, <1>1 DEF Call, Types
  <2> QED BY <1>1, <2>1, <2>2 DEF LocalInv, Awaited, Own, Slots
<1>3. Loading'
  BY <1>1 DEF LocalInv, Loading
<1>4. Types'
  <2>1. waiting' \in Seq(Tasks)
    <3>1. waiting \in Seq(Tasks) /\ (waiting' = waiting \/ waiting' = Append(waiting, t))
      BY <1>0 DEF Call, Types
    <3> QED BY <3>1, AppendProperties
  <2>2. stage' \in [Tasks -> {"idle", "waiting", "running"}]
    BY <1>0, <1>1 DEF Call, Types
  <2>3. result' \in [Tasks -> Results]
    BY <1>0, <1>1 DEF Call, Types, Results
  <2>4. calls' \in 0 .. MaxCalls
    BY <1>0, <1>1 DEF Types
  <2>5. loaded' \in BOOLEAN /\ loadError' \in BOOLEAN
    BY <1>0, <1>1 DEF Types
  <2> QED BY <1>0, <1>1, <2>1, <2>2, <2>3, <2>4, <2>5 DEF Types
<1>5. Queue'
  <2>1. CASE waiting' = waiting /\ stage' = stage
    BY <1>0, <1>1, <2>1 DEF LocalInv, Queue, Types
  <2>2. CASE waiting' = Append(waiting, t) /\ stage' = [stage EXCEPT ![t] = "waiting"]
    <3>1. /\ Len(waiting') = Len(waiting) + 1 /\ Len(waiting) \in Nat
          /\ \A i \in 1 .. Len(waiting) : waiting'[i] = waiting[i] /\ waiting[i] \in Tasks
          /\ waiting'[Len(waiting) + 1] = t
      BY <1>0, <2>2 DEF Types
    <3>2. \A i \in 1 .. Len(waiting) : waiting[i] # t
      BY <1>1 DEF LocalInv, Queue
    <3>3. submitted' + Len(waiting') <= calls'
      <4>1. submitted + Len(waiting) <= calls /\ submitted \in Nat /\ calls \in Nat
        BY <1>0 DEF LocalInv, Queue, Types
      <4>2. submitted' = submitted /\ calls' = calls + 1 /\ Len(waiting') = Len(waiting) + 1 /\ Len(waiting) \in Nat
        BY <1>1, <3>1
      <4> QED BY <4>1, <4>2
    <3>4. ASSUME NEW i \in 1 .. Len(waiting')
          PROVE  stage'[waiting'[i]] = "waiting"
      <4>1. i \in 1 .. Len(waiting) \/ i = Len(waiting) + 1
        BY <3>1
      <4> QED BY <1>0, <2>2, <3>1, <3>2, <4>1 DEF LocalInv, Queue, Types
    <3>5. ASSUME NEW i \in 1 .. Len(waiting'), NEW j \in 1 .. Len(waiting'), waiting'[i] = waiting'[j]
          PROVE  i = j
      <4>1. (i \in 1 .. Len(waiting) \/ i = Len(waiting) + 1) /\ (j \in 1 .. Len(waiting) \/ j = Len(waiting) + 1)
        BY <3>1
      <4> QED BY <3>1, <3>2, <3>5, <4>1 DEF LocalInv, Queue
    <3> QED BY <3>3, <3>4, <3>5 DEF Queue
  <2> QED BY <2>1, <2>2 DEF Call
<1> QED BY <1>2, <1>3, <1>4, <1>5 DEF LocalInv

\* The first waiter takes a slot and submits its job.
LEMMA AcquireKeeps ==
    ASSUME LocalInv, NEW t \in Tasks, Acquire(t)
    PROVE  LocalInv'
<1> USE LocalAssumption
<1> DEFINE new == submitted + 1
<1>0. Types
  BY DEF LocalInv
<1>1. /\ waiting # <<>> /\ Head(waiting) = t /\ free > 0 /\ free' = free - 1 /\ waiting' = Tail(waiting)
      /\ stage' = [stage EXCEPT ![t] = "running"] /\ submitted' = new
      /\ job' = [job EXCEPT ![t] = new] /\ thread' = [thread EXCEPT ![new] = "queued"]
      /\ UNCHANGED <<capacity, result, calls, lock, loaded, loadError, loads>>
  BY DEF Acquire, load
<1>2. /\ Len(waiting) \in Nat \ {0} /\ waiting[1] = t /\ Len(waiting') = Len(waiting) - 1
      /\ waiting' \in Seq(Tasks)
      /\ \A i \in 1 .. Len(waiting) - 1 : waiting'[i] = waiting[i + 1]
  BY <1>0, <1>1 DEF Types
<1>3. stage[t] = "waiting" /\ t \notin Holders
  BY <1>2 DEF LocalInv, Queue, Holders
<1>4. new \in Jobs /\ new \in Nat /\ submitted \in Nat
  <2>1. submitted + Len(waiting) <= calls /\ calls <= MaxCalls /\ calls \in Nat /\ submitted \in Nat
    BY <1>0 DEF LocalInv, Queue, Types
  <2> QED BY <1>2, <2>1 DEF Jobs
<1>5. thread[new] = "none"
  BY <1>4 DEF LocalInv, Own
<1>6. Holders' = Holders \cup {t}
  BY <1>0, <1>1 DEF Holders, Types
<1>7. Types'
  BY <1>0, <1>1, <1>2, <1>4 DEF Types, Threads
<1>8. Slots'
  <2>1. IsFiniteSet(Holders) /\ Cardinality(Holders) \in Nat /\ free + Cardinality(Holders) = capacity
    BY FS_CardinalityType DEF LocalInv, Slots
  <2>2. IsFiniteSet(Holders') /\ Cardinality(Holders') = Cardinality(Holders) + 1
    BY <1>3, <1>6, <2>1, FS_AddElement
  <2>3. free \in Nat /\ free' = free - 1 /\ capacity' = capacity
    BY <1>0, <1>1 DEF Types
  <2>4. free' + Cardinality(Holders') = capacity'
    BY <2>1, <2>2, <2>3
  <2> QED BY <2>2, <2>4 DEF Slots
<1>9. Queue'
  <2>1. submitted' + Len(waiting') <= calls'
    <3>1. submitted + Len(waiting) <= calls /\ calls \in Nat /\ submitted \in Nat
      BY <1>0 DEF LocalInv, Queue, Types
    <3>2. submitted' = submitted + 1 /\ calls' = calls /\ Len(waiting') = Len(waiting) - 1 /\ Len(waiting) \in Nat
      BY <1>1, <1>2
    <3> QED BY <3>1, <3>2
  <2>2. ASSUME NEW i \in 1 .. Len(waiting')
        PROVE  /\ i + 1 \in 1 .. Len(waiting) /\ waiting'[i] = waiting[i + 1]
               /\ i + 1 # 1 /\ waiting'[i] \in Tasks
    BY <1>2
  <2>3. ASSUME NEW i \in 1 .. Len(waiting')
        PROVE  stage'[waiting'[i]] = "waiting"
    <3>1. waiting[i + 1] # t
      BY <1>2, <2>2 DEF LocalInv, Queue
    <3> QED BY <1>0, <1>1, <2>2, <3>1 DEF LocalInv, Queue, Types
  <2>4. ASSUME NEW i \in 1 .. Len(waiting'), NEW j \in 1 .. Len(waiting'), waiting'[i] = waiting'[j]
        PROVE  i = j
    <3>1. i + 1 = j + 1
      BY <2>2, <2>4 DEF LocalInv, Queue
    <3> QED BY <3>1
  <2> QED BY <2>1, <2>3, <2>4 DEF Queue
<1>10. Own'
  <2>1. ASSUME NEW u \in Tasks
        PROVE  IF stage'[u] = "running" THEN job'[u] \in 1 .. submitted' ELSE job'[u] = NoJob
    BY <1>0, <1>1, <1>4 DEF LocalInv, Own, Types
  <2>2. ASSUME NEW u \in Holders PROVE u # t /\ job'[u] = job[u] /\ job[u] # new
    <3>1. u # t /\ u \in Tasks /\ job[u] \in 1 .. submitted
      BY <1>3 DEF LocalInv, Own, Holders
    <3> QED BY <1>0, <1>1, <1>4, <3>1 DEF Types
  <2>3. job'[t] = new
    BY <1>0, <1>1 DEF Types
  <2>4. \A u, v \in Holders' : job'[u] = job'[v] => u = v
    <3> HIDE DEF new
    <3> QED BY <1>6, <2>2, <2>3 DEF LocalInv, Own
  <2>5. \A j \in Jobs : j > submitted' => thread'[j] = "none"
    BY <1>0, <1>1, <1>4 DEF LocalInv, Own, Types, Jobs
  <2> QED BY <2>1, <2>4, <2>5 DEF Own
<1>11. Awaited'
  <2>1. ASSUME NEW j \in Jobs, thread'[j] = "queued" PROVE \E u \in Holders' : job'[u] = j
    <3>1. CASE j = new
      BY <1>0, <1>1, <1>6, <3>1 DEF Types
    <3>2. CASE j # new
      <4>1. thread[j] = "queued"
        BY <1>0, <1>1, <1>4, <2>1, <3>2 DEF Types
      <4>2. PICK u \in Holders : job[u] = j
        BY <4>1 DEF LocalInv, Awaited
      <4>3. u \in Holders' /\ job'[u] = job[u]
        BY <1>0, <1>1, <1>3, <1>6 DEF Types
      <4> QED BY <4>2, <4>3
    <3> QED BY <3>1, <3>2
  <2> QED BY <2>1 DEF Awaited
<1>12. Loading'
  <2>1. \A j \in Jobs : thread'[j] = thread[j] \/ (j = new /\ thread'[j] = "queued")
    BY <1>0, <1>1, <1>4 DEF Types
  <2>2. thread[new] = "none" /\ lock # new
    BY <1>4, <1>5 DEF LocalInv, Loading
  <2> HIDE DEF new
  <2> QED BY <1>1, <2>1, <2>2 DEF LocalInv, Loading
<1> QED BY <1>7, <1>8, <1>9, <1>10, <1>11, <1>12 DEF LocalInv

\* A task gives its slot back: nothing of its job but that it is dropped if it had not started.
LEMMA EndKeeps ==
    ASSUME LocalInv, NEW t \in Tasks, stage[t] = "running", NEW ending \in Results, End(t, ending),
           \/ thread' = thread /\ thread[job[t]] # "queued"
           \/ thread' = [thread EXCEPT ![job[t]] = IF @ = "queued" THEN "dropped" ELSE @]
    PROVE  LocalInv'
<1> USE LocalAssumption
<1>0. Types /\ t \in Holders
  BY DEF LocalInv, Holders
<1>1. /\ free' = free + 1 /\ stage' = [stage EXCEPT ![t] = "idle"] /\ job' = [job EXCEPT ![t] = NoJob]
      /\ result' = [result EXCEPT ![t] = ending]
      /\ UNCHANGED <<capacity, waiting, submitted, calls, lock, loaded, loadError, loads>>
  BY DEF End, load
<1>2. Holders' = Holders \ {t}
  BY <1>0, <1>1 DEF Holders, Types
<1>3. job[t] \in Jobs
  <2>1. job[t] \in 1 .. submitted /\ submitted + Len(waiting) <= calls /\ calls \in 0 .. MaxCalls
    BY <1>0 DEF LocalInv, Own, Queue, Types
  <2>2. submitted \in Nat /\ Len(waiting) \in Nat
    BY <1>0 DEF Types
  <2> QED BY <2>1, <2>2 DEF Jobs
<1>4. /\ thread' \in [Jobs -> Threads]
      /\ \A j \in Jobs : thread'[j] = thread[j] \/ (thread[j] = "queued" /\ thread'[j] = "dropped")
      /\ thread'[job[t]] # "queued"
  BY <1>0, <1>3 DEF Types, Threads
<1>5. Types'
  BY <1>0, <1>1, <1>4 DEF Types, NoJob
<1>6. Slots'
  <2>1. IsFiniteSet(Holders) /\ Cardinality(Holders) \in Nat /\ free + Cardinality(Holders) = capacity
    BY FS_CardinalityType DEF LocalInv, Slots
  <2>2. IsFiniteSet(Holders') /\ Cardinality(Holders') = Cardinality(Holders) - 1
    BY <1>0, <1>2, <2>1, FS_RemoveElement
  <2>3. free \in Nat /\ free' = free + 1 /\ capacity' = capacity
    BY <1>0, <1>1 DEF Types
  <2>4. free' + Cardinality(Holders') = capacity'
    BY <2>1, <2>2, <2>3
  <2> QED BY <2>2, <2>4 DEF Slots
<1>7. Queue'
  BY <1>0, <1>1 DEF LocalInv, Queue, Types
<1>8. Own'
  <2>1. ASSUME NEW u \in Tasks
        PROVE  IF stage'[u] = "running" THEN job'[u] \in 1 .. submitted' ELSE job'[u] = NoJob
    BY <1>0, <1>1 DEF LocalInv, Own, Types
  <2>2. \A u, v \in Holders' : job'[u] = job'[v] => u = v
    BY <1>0, <1>1, <1>2 DEF LocalInv, Own, Types, Holders
  <2>3. \A j \in Jobs : j > submitted' => thread'[j] = "none"
    BY <1>1, <1>4 DEF LocalInv, Own
  <2> QED BY <2>1, <2>2, <2>3 DEF Own
<1>9. Awaited'
  <2>1. ASSUME NEW j \in Jobs, thread'[j] = "queued" PROVE \E u \in Holders' : job'[u] = j
    <3>1. thread[j] = "queued" /\ j # job[t]
      BY <1>4, <2>1
    <3>2. PICK u \in Holders : job[u] = j
      BY <3>1 DEF LocalInv, Awaited
    <3>3. u \in Holders' /\ job'[u] = job[u]
      BY <1>0, <1>1, <1>2, <3>1, <3>2 DEF Types, Holders
    <3> QED BY <3>2, <3>3
  <2> QED BY <2>1 DEF Awaited
<1>10. Loading'
  BY <1>1, <1>4 DEF LocalInv, Loading
<1> QED BY <1>5, <1>6, <1>7, <1>8, <1>9, <1>10 DEF LocalInv

\* A worker thread's step: what it needs of the lock and the weights.
LEMMA ThreadKeeps ==
    ASSUME LocalInv, NEW j \in Jobs, NEW from \in Threads \ {"none"}, NEW to \in Threads \ {"queued", "none"},
           Advance(j, from, to), UNCHANGED <<capacity, loop>>,
           lock' \in Jobs \cup {NoJob}, loaded' \in BOOLEAN, loadError' \in BOOLEAN, Loading'
    PROVE  LocalInv'
<1>0. Types
  BY DEF LocalInv
<1>1. /\ UNCHANGED <<capacity, free, waiting, stage, job, result, submitted, calls>>
      /\ thread[j] = from /\ thread' = [thread EXCEPT ![j] = to]
  BY DEF loop, Advance
<1>2. Types'
  BY <1>0, <1>1 DEF Types, Loading
<1>3. Holders' = Holders
  BY <1>1 DEF Holders
<1>4. Slots' /\ Queue'
  BY <1>1, <1>3 DEF LocalInv, Slots, Queue
<1>5. Own'
  BY <1>0, <1>1, <1>3 DEF LocalInv, Own, Types
<1>6. Awaited'
  BY <1>0, <1>1, <1>3 DEF LocalInv, Awaited, Types
<1> QED BY <1>2, <1>4, <1>5, <1>6 DEF LocalInv

\* Every step of the provider keeps the invariant.
LEMMA StepKeeps == LocalInv /\ [Next]_vars => LocalInv'
<1> SUFFICES ASSUME LocalInv, [Next]_vars PROVE LocalInv'
  OBVIOUS
<1>0. Types /\ Loading /\ \A j \in Jobs : j # NoJob
  BY DEF LocalInv, Jobs, NoJob
<1>1. CASE UNCHANGED vars
  BY <1>1 DEF vars, loop, load, LocalInv, Types, Slots, Holders, Queue, Own, Awaited, Loading
<1>2. ASSUME NEW t \in Tasks, Deliver(t) PROVE LocalInv'
  <2>1. thread[job[t]] \in Results /\ thread[job[t]] # "queued"
    BY <1>2 DEF Deliver, Finished, Results
  <2> QED BY <1>2, <2>1, EndKeeps DEF Deliver
<1>3. ASSUME NEW t \in Tasks, Timeout(t) PROVE LocalInv'
  BY <1>3, EndKeeps DEF Timeout, Results
<1>4. ASSUME NEW j \in Jobs, NEW from \in Threads \ {"none"}, NEW to \in Threads \ {"queued", "none", "check", "load"},
             from \notin {"check", "load"}, Advance(j, from, to), UNCHANGED <<capacity, loop, load>>
      PROVE  LocalInv'
  <2>1. lock' = lock /\ loaded' = loaded /\ loadError' = loadError /\ loads' = loads
    BY <1>4 DEF load
  <2>2. Loading'
    BY <1>0, <1>4, <2>1 DEF Loading, Advance, Types
  <2> QED BY <1>0, <1>4, <2>1, <2>2, ThreadKeeps DEF Types
<1>5. ASSUME NEW j \in Jobs, Start(j) PROVE LocalInv'
  BY <1>4, <1>5 DEF Start, Threads, Running
<1>6. ASSUME NEW j \in Jobs, FastCheck(j) PROVE LocalInv'
  <2>1. PICK to \in {"generate", "get_lock"} : Advance(j, "fast_check", to)
    BY <1>6 DEF FastCheck
  <2> QED BY <1>4, <1>6, <2>1 DEF FastCheck, Threads, Running
<1>7. ASSUME NEW j \in Jobs, Generate(j) PROVE LocalInv'
  <2>1. PICK to \in Finished : Advance(j, "generate", to)
    BY <1>7 DEF Generate
  <2> QED BY <1>4, <1>7, <2>1 DEF Generate, Threads, Running, Finished
<1>8. ASSUME NEW j \in Jobs, GetLock(j) PROVE LocalInv'
  <2>1. /\ lock = NoJob /\ lock' = j /\ Advance(j, "get_lock", "check")
        /\ UNCHANGED <<capacity, loop>> /\ UNCHANGED <<loaded, loadError, loads>>
    BY <1>8 DEF GetLock
  <2>2. Loading'
    BY <1>0, <2>1 DEF Loading, Advance, Types
  <2> QED BY <1>0, <2>1, <2>2, ThreadKeeps DEF Types, Threads, Running
<1>9. ASSUME NEW j \in Jobs, Check(j) PROVE LocalInv'
  <2>1. /\ Advance(j, "check", IF loaded THEN "generate" ELSE "load")
        /\ lock' = (IF loaded THEN NoJob ELSE lock)
        /\ UNCHANGED <<capacity, loop>> /\ UNCHANGED <<loaded, loadError, loads>>
    BY <1>9 DEF Check
  <2>2. lock = j
    BY <1>0, <2>1 DEF Loading, Advance
  <2>3. CASE loaded
    <3>1. Advance(j, "check", "generate") /\ lock' = NoJob
      BY <2>1, <2>3
    <3>2. Loading'
      BY <1>0, <2>1, <2>2, <2>3, <3>1 DEF Loading, Advance, Types
    <3> QED BY <1>0, <2>1, <3>1, <3>2, ThreadKeeps DEF Types, Threads, Running
  <2>4. CASE ~ loaded
    <3>1. Advance(j, "check", "load") /\ lock' = lock
      BY <2>1, <2>4
    <3>2. Loading'
      BY <1>0, <2>1, <2>2, <2>4, <3>1 DEF Loading, Advance, Types
    <3> QED BY <1>0, <2>1, <3>1, <3>2, ThreadKeeps DEF Types, Threads, Running
  <2> QED BY <2>3, <2>4
<1>10. ASSUME NEW j \in Jobs, LoadOk(j) PROVE LocalInv'
  <2>1. /\ Advance(j, "load", "generate") /\ lock' = NoJob /\ loaded' = TRUE /\ loads' = loads + 1
        /\ UNCHANGED <<capacity, loop>> /\ loadError' = loadError
    BY <1>10 DEF LoadOk
  <2>2. lock = j /\ ~ loaded /\ loads' = 1
    BY <1>0, <2>1 DEF Loading, Advance
  <2>3. Loading'
    BY <1>0, <2>1, <2>2 DEF Loading, Advance, Types
  <2> QED BY <1>0, <2>1, <2>3, ThreadKeeps DEF Types, Threads, Running
<1>11. ASSUME NEW j \in Jobs, LoadFails(j) PROVE LocalInv'
  <2>1. /\ Advance(j, "load", "failed") /\ lock' = NoJob /\ loadError' \in {loadError, TRUE}
        /\ UNCHANGED <<capacity, loop>> /\ UNCHANGED <<loaded, loads>>
    BY <1>11 DEF LoadFails
  <2>2. lock = j
    BY <1>0, <2>1 DEF Loading, Advance
  <2>3. Loading'
    BY <1>0, <2>1, <2>2 DEF Loading, Advance, Types
  <2>4. loadError' \in BOOLEAN
    BY <1>0, <2>1 DEF Types
  <2> QED BY <1>0, <2>1, <2>3, <2>4, ThreadKeeps DEF Types, Threads, Running, Finished
<1> QED BY <1>1, <1>2, <1>3, <1>5, <1>6, <1>7, <1>8, <1>9, <1>10, <1>11, CallKeeps, AcquireKeeps DEF Next, Over

\* LocalInv holds in every reachable state.
THEOREM AlwaysLocal == Spec => []LocalInv
BY InitialState, StepKeeps, PTL DEF Spec

-----------------------------------------------------------------------------
\* Every slot of the semaphore is free or held by one task that waits for its job, for any number of tasks
\* (the "async with" of _chat).
THEOREM SlotsConservedHold == Spec => []SlotsConserved
<1>1. LocalInv => SlotsConserved
  BY DEF LocalInv, Slots, SlotsConserved, Holders
<1> QED BY <1>1, AlwaysLocal, PTL

\* The weights are loaded once, by one thread at a time (the double check of _load).
THEOREM LoadedOnceHolds == Spec => []LoadedOnce
<1>1. LocalInv => LoadedOnce
  BY DEF LocalInv, Loading, LoadedOnce
<1> QED BY <1>1, AlwaysLocal, PTL

\* Every queued job has a task that waits for it, so there are no more of them than slots (wait_for cancels
\* the future of a job that has not started).
THEOREM QueuedWorkBoundedHolds == Spec => []QueuedWorkBounded
<1>1. LocalInv => QueuedWorkBounded
  <2> SUFFICES ASSUME LocalInv PROVE QueuedWorkBounded
    OBVIOUS
  <2>1. \A j \in QueuedJobs : \E t \in Holders : job[t] = j
    BY DEF LocalInv, Awaited, QueuedJobs
  <2> DEFINE waiter == [j \in QueuedJobs |-> CHOOSE t \in Holders : job[t] = j]
  <2>2. \A j \in QueuedJobs : waiter[j] \in Holders /\ job[waiter[j]] = j
    BY <2>1
  <2>3. waiter \in Injection(QueuedJobs, Holders)
    <3>1. waiter \in [QueuedJobs -> Holders]
      BY <2>2
    <3>2. \A i, j \in QueuedJobs : waiter[i] = waiter[j] => i = j
      BY <2>2
    <3> HIDE DEF waiter
    <3> QED BY <3>1, <3>2, Fun_IsInj
  <2>4. IsFiniteSet(Holders) /\ free + Cardinality(Holders) = capacity /\ free \in Nat
    BY DEF LocalInv, Slots, Types
  <2> HIDE DEF waiter
  <2>5. IsFiniteSet(QueuedJobs) /\ Cardinality(QueuedJobs) <= Cardinality(Holders)
    BY <2>3, <2>4, FS_Injection
  <2>6. Cardinality(QueuedJobs) \in Nat /\ Cardinality(Holders) \in Nat
    BY <2>4, <2>5, FS_CardinalityType
  <2>7. Cardinality(QueuedJobs) <= capacity
    BY <2>4, <2>5, <2>6
  <2> QED BY <2>1, <2>7 DEF QueuedWorkBounded, Holders
<1> QED BY <1>1, AlwaysLocal, PTL

\* Every reachable state is well typed: no more slots are free than there are, and no more jobs submitted
\* than calls were made.
THEOREM TypeCorrect == Spec => []TypeOK
<1>1. LocalInv => TypeOK
  <2> SUFFICES ASSUME LocalInv PROVE TypeOK
    OBVIOUS
  <2> USE LocalAssumption
  <2>1. Types
    BY DEF LocalInv
  <2>2. free \in 0 .. capacity
    <3>1. Cardinality(Holders) \in Nat /\ free + Cardinality(Holders) = capacity /\ free \in Nat /\ capacity \in Nat
      BY <2>1, FS_CardinalityType DEF LocalInv, Slots, Types
    <3> QED BY <3>1
  <2>3. submitted \in 0 .. MaxCalls
    <3>1. submitted + Len(waiting) <= calls /\ calls \in 0 .. MaxCalls /\ submitted \in Nat /\ Len(waiting) \in Nat
      BY <2>1 DEF LocalInv, Queue, Types
    <3> QED BY <3>1
  <2>4. job \in [Tasks -> Jobs \cup {NoJob}]
    <3>1. ASSUME NEW t \in Tasks PROVE job[t] \in Jobs \cup {NoJob}
      <4>1. job[t] \in 1 .. submitted \/ job[t] = NoJob
        BY DEF LocalInv, Own
      <4> QED BY <2>3, <4>1 DEF Jobs
    <3> QED BY <2>1, <3>1 DEF Types
  <2> QED BY <2>1, <2>2, <2>3, <2>4 DEF Types, TypeOK
<1> QED BY <1>1, AlwaysLocal, PTL
=============================================================================
