---------------------------- MODULE SchemaCache ----------------------------
(***************************************************************************)
(* The schema cache: TTLCache of metadata/cache.py with the one caller     *)
(* that invalidates it, MetadataService.refresh of metadata/service.py.    *)
(*                                                                         *)
(* Every question calls get() from a worker thread (asyncio.to_thread), so *)
(* any number of threads run it at once.  A hit takes no lock: it reads    *)
(* _value, _loaded_at and the clock, then _loaded_at and _value again, and *)
(* each read is a step of its own here.  Writers hold the lock and write   *)
(* _value before _loaded_at, again two steps.                              *)
(*                                                                         *)
(* A schema value is the serial number of the load that read it, in the    *)
(* order in which the loader read the database, so "older" is "<".         *)
(***************************************************************************)
EXTENDS Integers

CONSTANTS
    Threads,   \* worker threads that call the cache
    NoThread,  \* the lock's owner while it is free
    Ttls,      \* the values of ttl_seconds the settings may hold
    MaxClock,  \* bound: the clock stops here
    MaxCalls,  \* bound: calls made by all the threads together
    MaxLoads   \* bound: loads that succeed; MaxCalls of them never binds

ASSUME CacheAssumption ==
    /\ NoThread \notin Threads
    /\ Ttls \subseteq Nat
    /\ MaxClock \in Nat
    /\ MaxCalls \in Nat
    /\ MaxLoads \in Nat

VARIABLES
    ttl,         \* _ttl, fixed when the cache is built
    serveStale,  \* _serve_stale, fixed when the cache is built
    value,       \* _value: the load that produced it, or None
    loadedAt,    \* _loaded_at: a clock reading, or NoTime
    lock,        \* _lock: its owner, or NoThread
    clock,       \* what _clock() answers
    pc,          \* pc[t]: the read or write thread t makes next
    now,         \* now[t]: the clock reading t compares with _loaded_at
    loaded,      \* loaded[t]: what the loader returned to t
    result,      \* result[t]: how t's last call ended
    \* History, read by no action of the code.
    loads,       \* loads completed so far
    calls,       \* calls made so far
    publishedAt, \* publishedAt[v]: the _loaded_at written with value v
    highest,     \* the latest load any call has returned
    cold,        \* nothing was stored since the start or the last refresh
    call         \* call[t]: facts about t's current call

settings == <<ttl, serveStale>>
locals   == <<now, loaded>>
history  == <<loads, calls, publishedAt, highest, cold, call>>
vars     == <<settings, value, loadedAt, lock, clock, pc, locals, result, history>>

None   == 0
NoTime == -1

Loads   == 1..MaxLoads
Times   == 0..MaxClock
Reading == {"read_value", "read_loaded_at", "read_clock", "read_age", "read_cached"}
Loading == {"load", "set_value", "set_time"}
Labels  == Reading \cup Loading \cup {"idle", "get_lock", "drop_value", "drop_time"}

\* How a call ends: a value found fresh, a value this call loaded, a stale value
\* served because the load failed, the load's own error, or an error of the
\* cache itself.
NoResult == [kind |-> "none", id |-> None, checked |-> NoTime]
Answers  == {"cached", "loaded", "stale"}
Errors   == {"load_error", "type_error", "runtime_error"}
Results  == [kind : {"none"} \cup Answers \cup Errors,
             id : Loads \cup {None}, checked : Times \cup {NoTime}]

\* op: the method called. floor: the latest load returned before the call began.
\* mark: the loads completed when this refresh dropped the value. dropped: whether
\* some refresh dropped the value during the call.
Calls == [op : {"get", "refresh"}, floor : Loads \cup {None},
          mark : Loads \cup {None}, dropped : BOOLEAN]

TypeOK ==
    /\ ttl \in Ttls
    /\ serveStale \in BOOLEAN
    /\ value \in Loads \cup {None}
    /\ loadedAt \in Times \cup {NoTime}
    /\ lock \in Threads \cup {NoThread}
    /\ clock \in Times
    /\ pc \in [Threads -> Labels]
    /\ now \in [Threads -> Times]
    /\ loaded \in [Threads -> Loads \cup {None}]
    /\ result \in [Threads -> Results]
    /\ loads \in 0..MaxLoads
    /\ calls \in 0..MaxCalls
    /\ publishedAt \in [Loads -> Times \cup {NoTime}]
    /\ highest \in Loads \cup {None}
    /\ cold \in BOOLEAN
    /\ call \in [Threads -> Calls]

Init ==
    /\ ttl \in Ttls
    /\ serveStale \in BOOLEAN
    /\ value = None
    /\ loadedAt = NoTime
    /\ lock = NoThread
    /\ clock = 0
    /\ pc = [t \in Threads |-> "idle"]
    /\ now = [t \in Threads |-> 0]
    /\ loaded = [t \in Threads |-> None]
    /\ result = [t \in Threads |-> NoResult]
    /\ loads = 0
    /\ calls = 0
    /\ publishedAt = [v \in Loads |-> NoTime]
    /\ highest = None
    /\ cold = TRUE
    /\ call = [t \in Threads |->
                 [op |-> "get", floor |-> None, mark |-> None, dropped |-> FALSE]]

-----------------------------------------------------------------------------
Goto(t, label) == pc' = [pc EXCEPT ![t] = label]

\* The frame of the call is gone: its locals mean nothing any more.
Leave(t) ==
    /\ Goto(t, "idle")
    /\ now' = [now EXCEPT ![t] = 0]
    /\ loaded' = [loaded EXCEPT ![t] = None]

\* The call returns value v, judged fresh at clock reading checked.
Return(t, kind, v, checked) ==
    /\ Leave(t)
    /\ result' = [result EXCEPT ![t] = [kind |-> kind, id |-> v, checked |-> checked]]
    /\ highest' = IF v > highest THEN v ELSE highest

\* The call raises.
Raise(t, kind) ==
    /\ Leave(t)
    /\ result' = [result EXCEPT ![t] = [kind |-> kind, id |-> None, checked |-> NoTime]]
    /\ UNCHANGED highest

\* A thread calls get() or refresh(); refresh() starts with invalidate().
Call(t, op) ==
    /\ pc[t] = "idle"
    /\ calls < MaxCalls
    /\ calls' = calls + 1
    /\ call' = [call EXCEPT ![t] = [op |-> op, floor |-> highest,
                                    mark |-> None, dropped |-> FALSE]]
    /\ result' = [result EXCEPT ![t] = NoResult]
    /\ Goto(t, IF op = "get" THEN "read_value" ELSE "drop_value")
    /\ UNCHANGED <<settings, value, loadedAt, lock, clock, locals,
                   loads, publishedAt, highest, cold>>

-----------------------------------------------------------------------------
(* The lock-free check of get(): _is_fresh, one attribute read at a time.   *)

ReadValue(t) ==
    /\ pc[t] = "read_value"
    /\ Goto(t, IF value = None THEN "get_lock" ELSE "read_loaded_at")
    /\ UNCHANGED <<settings, value, loadedAt, lock, clock, locals, result, history>>

ReadLoadedAt(t) ==
    /\ pc[t] = "read_loaded_at"
    /\ Goto(t, IF loadedAt = NoTime \/ ttl = 0 THEN "get_lock" ELSE "read_clock")
    /\ UNCHANGED <<settings, value, loadedAt, lock, clock, locals, result, history>>

ReadClock(t) ==
    /\ pc[t] = "read_clock"
    /\ now' = [now EXCEPT ![t] = clock]
    /\ Goto(t, "read_age")
    /\ UNCHANGED <<settings, value, loadedAt, lock, clock, loaded, result, history>>

\* _loaded_at is read again for the subtraction, and None cannot be subtracted.
ReadAge(t) ==
    /\ pc[t] = "read_age"
    /\ IF loadedAt = NoTime
         THEN Raise(t, "type_error")
         ELSE /\ Goto(t, IF now[t] - loadedAt < ttl THEN "read_cached" ELSE "get_lock")
              /\ UNCHANGED <<locals, result, highest>>
    /\ UNCHANGED <<settings, value, loadedAt, lock, clock,
                   loads, calls, publishedAt, cold, call>>

\* _cached() reads _value again, and raises when it has gone.
ReadCached(t) ==
    /\ pc[t] = "read_cached"
    /\ IF value = None
         THEN Raise(t, "runtime_error")
         ELSE Return(t, "cached", value, now[t])
    /\ UNCHANGED <<settings, value, loadedAt, lock, clock,
                   loads, calls, publishedAt, cold, call>>

-----------------------------------------------------------------------------
(* The part of get() that holds the lock.  Only lock holders write, so the  *)
(* check made under it is one step.                                         *)

IsFresh ==
    /\ value # None
    /\ loadedAt # NoTime
    /\ ttl > 0
    /\ clock - loadedAt < ttl

AcquireFresh(t) ==
    /\ pc[t] = "get_lock"
    /\ lock = NoThread
    /\ IsFresh
    /\ Return(t, "cached", value, clock)
    /\ UNCHANGED <<settings, value, loadedAt, lock, clock,
                   loads, calls, publishedAt, cold, call>>

\* Faulty variants of AcquireStale: the lock is not taken; the check is not made again.
AcquireStaleUnlocked(t) ==
    /\ pc[t] = "get_lock"
    /\ ~IsFresh
    /\ Goto(t, "load")
    /\ UNCHANGED <<settings, value, loadedAt, lock, clock, locals, result, history>>

AcquireUnchecked(t) ==
    /\ pc[t] = "get_lock"
    /\ lock = NoThread
    /\ lock' = t
    /\ Goto(t, "load")
    /\ UNCHANGED <<settings, value, loadedAt, clock, locals, result, history>>

AcquireStale(t) ==
    /\ pc[t] = "get_lock"
    /\ lock = NoThread
    /\ ~IsFresh
    /\ lock' = t
    /\ Goto(t, "load")
    /\ UNCHANGED <<settings, value, loadedAt, clock, locals, result, history>>

\* Faulty variant of LoadOk: the time is stored before the value.
LoadOkStampsFirst(t) ==
    /\ pc[t] = "load"
    /\ loads < MaxLoads
    /\ loads' = loads + 1
    /\ loaded' = [loaded EXCEPT ![t] = loads + 1]
    /\ loadedAt' = clock
    /\ Goto(t, "set_value")
    /\ UNCHANGED <<settings, value, lock, clock, now, result,
                   calls, publishedAt, highest, cold, call>>

\* The loader reads the database and returns a catalogue.
LoadOk(t) ==
    /\ pc[t] = "load"
    /\ loads < MaxLoads
    /\ loads' = loads + 1
    /\ loaded' = [loaded EXCEPT ![t] = loads + 1]
    /\ Goto(t, "set_value")
    /\ UNCHANGED <<settings, value, loadedAt, lock, clock, now, result,
                   calls, publishedAt, highest, cold, call>>

\* Faulty variants of LoadFails: the value is cleared first; the lock is kept.
LoadFailsAndClears(t) ==
    /\ pc[t] = "load"
    /\ value' = None
    /\ loadedAt' = NoTime
    /\ Raise(t, "load_error")
    /\ lock' = NoThread
    /\ UNCHANGED <<settings, clock, loads, calls, publishedAt, cold, call>>

LoadFailsHoldingLock(t) ==
    /\ pc[t] = "load"
    /\ Raise(t, "load_error")
    /\ UNCHANGED <<settings, value, loadedAt, lock, clock,
                   loads, calls, publishedAt, cold, call>>

LoadFails(t) ==
    /\ pc[t] = "load"
    /\ IF serveStale /\ value # None
         THEN Return(t, "stale", value, NoTime)
         ELSE Raise(t, "load_error")
    /\ lock' = NoThread
    /\ UNCHANGED <<settings, value, loadedAt, clock,
                   loads, calls, publishedAt, cold, call>>

SetValue(t) ==
    /\ pc[t] = "set_value"
    /\ value' = loaded[t]
    /\ cold' = FALSE
    /\ Goto(t, "set_time")
    /\ UNCHANGED <<settings, loadedAt, lock, clock, locals, result,
                   loads, calls, publishedAt, highest, call>>

\* Faulty variant of SetTime: the clock reading is rounded up.
SetTimeRoundedUp(t) ==
    /\ pc[t] = "set_time"
    /\ loadedAt' = clock + 1
    /\ publishedAt' = [publishedAt EXCEPT ![loaded[t]] = clock + 1]
    /\ lock' = NoThread
    /\ Return(t, "loaded", loaded[t], NoTime)
    /\ UNCHANGED <<settings, value, clock, loads, calls, cold, call>>

SetTime(t) ==
    /\ pc[t] = "set_time"
    /\ loadedAt' = clock
    /\ publishedAt' = [publishedAt EXCEPT ![loaded[t]] = clock]
    /\ lock' = NoThread
    /\ Return(t, "loaded", loaded[t], NoTime)
    /\ UNCHANGED <<settings, value, clock, loads, calls, cold, call>>

-----------------------------------------------------------------------------
(* invalidate(), the first half of refresh(); the second half is get().     *)

\* Faulty variant of DropValue: invalidate() does not take the lock.
DropValueUnlocked(t) ==
    /\ pc[t] = "drop_value"
    /\ value' = None
    /\ cold' = TRUE
    /\ call' = [u \in Threads |->
                  [call[u] EXCEPT !.dropped = TRUE,
                                  !.mark = IF u = t THEN loads ELSE @]]
    /\ Goto(t, "drop_time")
    /\ UNCHANGED <<settings, loadedAt, lock, clock, locals, result,
                   loads, calls, publishedAt, highest>>

DropValue(t) ==
    /\ pc[t] = "drop_value"
    /\ lock = NoThread
    /\ lock' = t
    /\ value' = None
    /\ cold' = TRUE
    /\ call' = [u \in Threads |->
                  [call[u] EXCEPT !.dropped = TRUE,
                                  !.mark = IF u = t THEN loads ELSE @]]
    /\ Goto(t, "drop_time")
    /\ UNCHANGED <<settings, loadedAt, clock, locals, result,
                   loads, calls, publishedAt, highest>>

DropTime(t) ==
    /\ pc[t] = "drop_time"
    /\ loadedAt' = NoTime
    /\ lock' = NoThread
    /\ Goto(t, "read_value")
    /\ UNCHANGED <<settings, value, clock, locals, result, history>>

Tick ==
    /\ clock < MaxClock
    /\ clock' = clock + 1
    /\ UNCHANGED <<settings, value, loadedAt, lock, pc, locals, result, history>>

-----------------------------------------------------------------------------
Step(t) ==
    \/ ReadValue(t) \/ ReadLoadedAt(t) \/ ReadClock(t) \/ ReadAge(t) \/ ReadCached(t)
    \/ AcquireFresh(t) \/ AcquireStale(t)
    \/ LoadOk(t) \/ LoadFails(t) \/ SetValue(t) \/ SetTime(t)
    \/ DropValue(t) \/ DropTime(t)

Next ==
    \/ Tick
    \/ \E t \in Threads : \E op \in {"get", "refresh"} : Call(t, op)
    \/ \E t \in Threads : Step(t)

Spec == Init /\ [][Next]_vars

\* A thread that can take its next step is scheduled, and a load ends.  With a
\* bounded number of calls no thread is overtaken for ever, so the lock needs no
\* fairness of its own (threading.Lock promises none).
FairSpec == Spec /\ \A t \in Threads : WF_vars(Step(t))

-----------------------------------------------------------------------------
Answered(t) == result[t].kind \in Answers

\* At most one thread is inside the loader or storing what it returned: a burst
\* of questions on a stale cache makes one introspection at a time.
SingleFlight ==
    \A t, u \in Threads : pc[t] \in Loading /\ pc[u] \in Loading => t = u

\* A value handed out as fresh was stored less than ttl before the clock reading
\* that judged it, although the lock-free path reads _value and _loaded_at at
\* different moments.  (A value whose _loaded_at is still to be written is newer
\* than any reading.)
FreshWhenChecked ==
    \A t \in Threads : result[t].kind = "cached" =>
        LET at == publishedAt[result[t].id]
        IN  at # NoTime => result[t].checked - at < ttl

\* What refresh() returns was read from the database after that call dropped the
\* old value, whether this thread or another one loaded it, and a failed reload
\* never brings the old value back.
RefreshSeesNewLoad ==
    \A t \in Threads : Answered(t) /\ call[t].op = "refresh" =>
        result[t].id > call[t].mark

\* A call never returns an older schema than one already returned to anybody
\* when the call began.
\* (AtomicCache implies it, so no run checks it apart; it is proved.)
MonotonicReads ==
    \A t \in Threads : Answered(t) => result[t].id >= call[t].floor

\* A thread that waited for the lock while another one reloaded does not reload:
\* a load runs only while the stored value is missing or past its ttl.
LoadsOnlyWhenStale ==
    \A t \in Threads : pc[t] = "load" /\ value # None =>
        ttl = 0 \/ clock - loadedAt >= ttl

\* get() fails with an error of the cache's own only when a refresh dropped the
\* value while that call ran; a failed load never has this effect.
OwnErrorsOnlyAfterDrop ==
    \A t \in Threads : result[t].kind \in {"type_error", "runtime_error"} => call[t].dropped

\* A failed reload loses nothing, however often it fails: where the settings
\* allow stale answers, a call raises the load's error only while nothing was
\* stored since the start or since the last refresh.
LoadErrorOnlyWhenCold ==
    [][\A t \in Threads :
         result[t].kind # "load_error" /\ result'[t].kind = "load_error" /\ serveStale
           => cold]_vars

\* A load counts in the abstract cache from the moment it is stored.
Newest == IF \E t \in Threads : pc[t] = "set_value" THEN loads - 1 ELSE loads

\* A refresh is one until it has dropped the value, and a get from there on.
Phases == [t \in Threads |-> IF pc[t] = "idle" THEN "idle"
                             ELSE IF pc[t] = "drop_value" THEN "refresh"
                             ELSE "get"]

Emptied  == [t \in Threads |-> call[t].dropped]
Returned == [t \in Threads |-> result[t].id]

Atomic == INSTANCE AtomicCache WITH
    lenient <- serveStale, stored <- value, newest <- Newest,
    phase <- Phases, emptied <- Emptied, answer <- Returned

\* Every call of the cache takes effect at one instant, its lock-free reads of
\* _value and _loaded_at included.  In particular the thread that loaded still
\* answers with what is stored when it answers, and a hit that finds nothing to
\* return ends in an error only when a refresh emptied the store under it.
ImplementsAtomicCache == Atomic!Spec

\* Every get() and refresh() ends: the lock is released on every path.
EveryCallEnds == \A t \in Threads : pc[t] # "idle" ~> pc[t] = "idle"
=============================================================================
