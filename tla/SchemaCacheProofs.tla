------------------------- MODULE SchemaCacheProofs -------------------------
(***************************************************************************)
(* What holds of the schema cache for every number of threads, calls,      *)
(* loads and clock readings.  Each invariant is strengthened just enough   *)
(* to be inductive on top of the ones before it.                           *)
(***************************************************************************)
EXTENDS SchemaCache, TLAPS

\* A call that returns a value (get, every "return") leaves well typed locals and a
\* well typed result.
LEMMA ReturnTypes ==
  ASSUME TypeOK, NEW t \in Threads, NEW kind \in Answers, NEW v \in Loads \cup {None},
         NEW checked \in Times \cup {NoTime}, Return(t, kind, v, checked)
  PROVE  /\ pc' \in [Threads -> Labels]
         /\ now' \in [Threads -> Times]
         /\ loaded' \in [Threads -> Loads \cup {None}]
         /\ result' \in [Threads -> Results]
         /\ highest' \in Loads \cup {None}
<1>1. [kind |-> kind, id |-> v, checked |-> checked] \in Results
  BY DEF Results
<1>2. /\ "idle" \in Labels
      /\ 0 \in Times
  BY CacheAssumption DEF Labels, Times
<1>3. QED
  BY <1>1, <1>2 DEF TypeOK, Return, Leave, Goto

\* So does a call that raises.
LEMMA RaiseTypes ==
  ASSUME TypeOK, NEW t \in Threads, NEW kind \in Errors, Raise(t, kind)
  PROVE  /\ pc' \in [Threads -> Labels]
         /\ now' \in [Threads -> Times]
         /\ loaded' \in [Threads -> Loads \cup {None}]
         /\ result' \in [Threads -> Results]
         /\ highest' \in Loads \cup {None}
<1>1. [kind |-> kind, id |-> None, checked |-> NoTime] \in Results
  BY DEF Results
<1>2. /\ "idle" \in Labels
      /\ 0 \in Times
  BY CacheAssumption DEF Labels, Times
<1>3. QED
  BY <1>1, <1>2 DEF TypeOK, Raise, Leave, Goto

\* invalidate() marks every call in progress and keeps the type of the marks.
LEMMA DropTypes ==
  ASSUME TypeOK, NEW t \in Threads, DropValue(t)
  PROVE  call' \in [Threads -> Calls]
<1>1. /\ loads \in Loads \cup {None}
      /\ call \in [Threads -> Calls]
  BY CacheAssumption DEF TypeOK, Loads, None
<1>2. ASSUME NEW c \in Calls, NEW m \in Loads \cup {None}
      PROVE  [c EXCEPT !.dropped = TRUE, !.mark = m] \in Calls
  BY DEF Calls
<1>3. ASSUME NEW u \in Threads
      PROVE  call'[u] \in Calls
  <2>1. /\ call[u] \in Calls
        /\ call[u].mark \in Loads \cup {None}
    BY <1>1 DEF Calls
  <2>2. CASE u = t
    BY <1>1, <1>2, <2>1, <2>2 DEF DropValue
  <2>3. CASE u # t
    BY <1>2, <2>1, <2>3 DEF DropValue
  <2>4. QED
    BY <2>2, <2>3
<1>4. QED
  BY <1>3 DEF DropValue

\* Every attribute, local and result of the cache keeps its type: in particular a
\* load never passes its bound and no step stores a time that is not a reading.
THEOREM TypeCorrect == Spec => []TypeOK
<1> USE CacheAssumption DEF Loads, Times, Labels, Reading, Loading, Results, Answers,
          Errors, Calls, None, NoTime
<1>1. Init => TypeOK
  BY DEF Init, TypeOK, NoResult
<1>2. TypeOK /\ [Next]_vars => TypeOK'
  <2> SUFFICES ASSUME TypeOK, [Next]_vars PROVE TypeOK'
    OBVIOUS
  <2> USE DEF TypeOK, settings, locals, history, Goto
  <2>1. ASSUME NEW t \in Threads, NEW op \in {"get", "refresh"}, Call(t, op) PROVE TypeOK'
    BY <2>1 DEF Call, NoResult
  <2>2. ASSUME NEW t \in Threads, ReadValue(t) PROVE TypeOK'
    BY <2>2 DEF ReadValue
  <2>3. ASSUME NEW t \in Threads, ReadLoadedAt(t) PROVE TypeOK'
    BY <2>3 DEF ReadLoadedAt
  <2>4. ASSUME NEW t \in Threads, ReadClock(t) PROVE TypeOK'
    BY <2>4 DEF ReadClock
  <2>5. ASSUME NEW t \in Threads, ReadAge(t) PROVE TypeOK'
    <3>1. CASE loadedAt = NoTime
      BY <2>5, <3>1, RaiseTypes DEF ReadAge
    <3>2. CASE loadedAt # NoTime
      BY <2>5, <3>2 DEF ReadAge
    <3>3. QED
      BY <3>1, <3>2
  <2>6. ASSUME NEW t \in Threads, ReadCached(t) PROVE TypeOK'
    <3>1. CASE value = None
      BY <2>6, <3>1, RaiseTypes DEF ReadCached
    <3>2. CASE value # None
      BY <2>6, <3>2, ReturnTypes DEF ReadCached
    <3>3. QED
      BY <3>1, <3>2
  <2>7. ASSUME NEW t \in Threads, AcquireFresh(t) PROVE TypeOK'
    BY <2>7, ReturnTypes DEF AcquireFresh
  <2>8. ASSUME NEW t \in Threads, AcquireStale(t) PROVE TypeOK'
    BY <2>8 DEF AcquireStale
  <2>9. ASSUME NEW t \in Threads, LoadOk(t) PROVE TypeOK'
    BY <2>9 DEF LoadOk
  <2>10. ASSUME NEW t \in Threads, LoadFails(t) PROVE TypeOK'
    <3>1. CASE serveStale /\ value # None
      BY <2>10, <3>1, ReturnTypes DEF LoadFails
    <3>2. CASE ~(serveStale /\ value # None)
      BY <2>10, <3>2, RaiseTypes DEF LoadFails
    <3>3. QED
      BY <3>1, <3>2
  <2>11. ASSUME NEW t \in Threads, SetValue(t) PROVE TypeOK'
    BY <2>11 DEF SetValue
  <2>12. ASSUME NEW t \in Threads, SetTime(t) PROVE TypeOK'
    BY <2>12, ReturnTypes DEF SetTime
  <2>13. ASSUME NEW t \in Threads, DropValue(t) PROVE TypeOK'
    <3>1. call' \in [Threads -> Calls]
      BY <2>13, DropTypes DEF DropValue
    <3>2. QED
      BY <2>13, <3>1 DEF DropValue
  <2>14. ASSUME NEW t \in Threads, DropTime(t) PROVE TypeOK'
    BY <2>14 DEF DropTime
  <2>15. CASE Tick
    BY <2>15 DEF Tick
  <2>16. CASE UNCHANGED vars
    BY <2>16 DEF vars
  <2> HIDE DEF TypeOK, settings, locals, history, Goto
  <2>17. QED
    BY <2>1, <2>2, <2>3, <2>4, <2>5, <2>6, <2>7, <2>8, <2>9, <2>10, <2>11, <2>12,
       <2>13, <2>14, <2>15, <2>16 DEF Next, Step
<1>3. QED
  BY <1>1, <1>2, PTL DEF Spec

-----------------------------------------------------------------------------
(* What the operators shared by the actions do, stated once.                *)

\* The bounds are numbers and the markers None and NoTime are outside them, or below.
LEMMA Numbers ==
  ASSUME TypeOK
  PROVE  /\ value \in Nat /\ loads \in Nat /\ highest \in Nat
         /\ clock \in Nat /\ ttl \in Nat /\ loadedAt \in Int
         /\ value # None => value \in Loads
         /\ \A t \in Threads :
              /\ now[t] \in Nat /\ loaded[t] \in Nat
              /\ result[t].id \in Nat /\ result[t].checked \in Int
              /\ result[t].id # None => result[t].id \in Loads
              /\ call[t].floor \in Nat /\ call[t].mark \in Nat
         /\ \A v \in Loads : publishedAt[v] \in Int
<1> USE CacheAssumption DEF TypeOK, Loads, Times, None, NoTime
<1>1. \A r \in Results : r.id \in Loads \cup {None} /\ r.checked \in Int
  BY DEF Results
<1>2. \A c \in Calls : c.floor \in Nat /\ c.mark \in Nat
  BY DEF Calls
<1>3. QED
  BY <1>1, <1>2

\* What a return changes for the caller and leaves alone for the others.
LEMMA ReturnEffect ==
  ASSUME TypeOK, NEW t \in Threads, NEW kind, NEW v, NEW checked, Return(t, kind, v, checked)
  PROVE  /\ \A u \in Threads : pc'[u] = IF u = t THEN "idle" ELSE pc[u]
         /\ \A u \in Threads : now'[u] = IF u = t THEN 0 ELSE now[u]
         /\ \A u \in Threads : loaded'[u] = IF u = t THEN None ELSE loaded[u]
         /\ \A u \in Threads : u # t => result'[u] = result[u]
         /\ result'[t].kind = kind /\ result'[t].id = v /\ result'[t].checked = checked
         /\ highest' = IF v > highest THEN v ELSE highest
BY DEF TypeOK, Return, Leave, Goto

\* What an exception changes for the caller and leaves alone for the others.
LEMMA RaiseEffect ==
  ASSUME TypeOK, NEW t \in Threads, NEW kind, Raise(t, kind)
  PROVE  /\ \A u \in Threads : pc'[u] = IF u = t THEN "idle" ELSE pc[u]
         /\ \A u \in Threads : now'[u] = IF u = t THEN 0 ELSE now[u]
         /\ \A u \in Threads : loaded'[u] = IF u = t THEN None ELSE loaded[u]
         /\ \A u \in Threads : u # t => result'[u] = result[u]
         /\ result'[t].kind = kind /\ result'[t].id = None
         /\ highest' = highest
BY DEF TypeOK, Raise, Leave, Goto

\* What a call changes, besides the count of calls.
Called(t, op) ==
    /\ pc[t] = "idle"
    /\ \A u \in Threads : u # t =>
         /\ pc'[u] = pc[u]
         /\ call'[u] = call[u]
         /\ result'[u] = result[u]
    /\ pc'[t] = IF op = "get" THEN "read_value" ELSE "drop_value"
    /\ call'[t].op = op /\ call'[t].floor = highest /\ call'[t].dropped = FALSE
    /\ result'[t].kind = "none"
    /\ UNCHANGED <<ttl, serveStale, value, loadedAt, lock, clock, now, loaded, loads,
                   publishedAt, highest, cold>>

\* What the start of a call records.
LEMMA CallEffect ==
  ASSUME TypeOK, NEW t \in Threads, NEW op \in {"get", "refresh"}, Call(t, op)
  PROVE  Called(t, op)
BY DEF TypeOK, Call, Called, Goto, NoResult, settings, locals

\* What an invalidation changes.
Dropped(t) ==
    /\ pc[t] = "drop_value" /\ pc'[t] = "drop_time"
    /\ lock = NoThread /\ lock' = t
    /\ call'[t].mark = loads
    /\ \A u \in Threads : u # t => pc'[u] = pc[u] /\ call'[u].mark = call[u].mark
    /\ \A u \in Threads : /\ call'[u].op = call[u].op
                          /\ call'[u].floor = call[u].floor
                          /\ call'[u].dropped = TRUE
    /\ value' = None /\ cold' = TRUE
    /\ UNCHANGED <<ttl, serveStale, loadedAt, clock, now, loaded, result, loads,
                   publishedAt, highest>>

\* What invalidate() records in the calls in progress.
LEMMA DropEffect ==
  ASSUME TypeOK, NEW t \in Threads, DropValue(t)
  PROVE  Dropped(t)
<1>1. \A c \in Calls, m \in Nat :
         LET d == [c EXCEPT !.dropped = TRUE, !.mark = m]
         IN  d.op = c.op /\ d.floor = c.floor /\ d.mark = m /\ d.dropped = TRUE
  BY DEF Calls
<1>2. \A u \in Threads : call[u] \in Calls /\ call[u].mark \in Nat
  BY Numbers DEF TypeOK
<1>3. \A u \in Threads :
         /\ call'[u].op = call[u].op
         /\ call'[u].floor = call[u].floor
         /\ call'[u].dropped = TRUE
         /\ call'[u].mark = IF u = t THEN loads ELSE call[u].mark
  <2> SUFFICES ASSUME NEW u \in Threads
               PROVE  /\ call'[u].op = call[u].op
                      /\ call'[u].floor = call[u].floor
                      /\ call'[u].dropped = TRUE
                      /\ call'[u].mark = IF u = t THEN loads ELSE call[u].mark
    OBVIOUS
  <2> DEFINE m == IF u = t THEN loads ELSE call[u].mark
  <2>1. call[u] \in Calls /\ m \in Nat
    BY <1>2, Numbers
  <2>2. call'[u] = [call[u] EXCEPT !.dropped = TRUE, !.mark = m]
    BY DEF DropValue
  <2> HIDE DEF m
  <2>3. /\ call'[u].op = call[u].op
        /\ call'[u].floor = call[u].floor
        /\ call'[u].mark = m
        /\ call'[u].dropped = TRUE
    BY <1>1, <2>1, <2>2
  <2>4. QED
    BY <2>3 DEF m
<1>4. QED
  BY <1>3 DEF TypeOK, DropValue, Dropped, Goto, settings, locals

-----------------------------------------------------------------------------
(* Mutual exclusion: a thread between taking the lock and releasing it owns  *)
(* it.  (The lock-free readers are not in this set, and need not be.)        *)

Critical == Loading \cup {"drop_time"}

LockInv == \A t \in Threads : pc[t] \in Critical => lock = t

\* A thread that loads, stores or drops holds the lock (the "with self._lock" blocks).
LEMMA LockHeld == Spec => []LockInv
<1>1. Init => LockInv
  BY CacheAssumption DEF Init, LockInv, Critical, Loading
<1>2. TypeOK /\ LockInv /\ [Next]_vars => LockInv'
  <2> SUFFICES ASSUME TypeOK, LockInv, [Next]_vars
               PROVE  LockInv'
    OBVIOUS
  <2> USE Numbers, CacheAssumption
  <2> USE DEF settings, locals, history, Goto, TypeOK, LockInv, Critical,
     Loading
  <2>1. ASSUME NEW t \in Threads, NEW op \in {"get", "refresh"}, Call(t, op) PROVE LockInv'
    <3>1. Called(t, op)
      BY <2>1, CallEffect
    <3>2. QED
      BY <3>1 DEF Called
  <2>2. ASSUME NEW t \in Threads, ReadValue(t) PROVE LockInv'
    BY <2>2 DEF ReadValue
  <2>3. ASSUME NEW t \in Threads, ReadLoadedAt(t) PROVE LockInv'
    BY <2>3 DEF ReadLoadedAt
  <2>4. ASSUME NEW t \in Threads, ReadClock(t) PROVE LockInv'
    BY <2>4 DEF ReadClock
  <2>5. ASSUME NEW t \in Threads, ReadAge(t) PROVE LockInv'
    <3>1. CASE loadedAt = NoTime
      BY <2>5, <3>1, RaiseEffect DEF ReadAge
    <3>2. CASE ~(loadedAt = NoTime)
      BY <2>5, <3>2, RaiseEffect DEF ReadAge
    <3>3. QED
      BY <3>1, <3>2
  <2>6. ASSUME NEW t \in Threads, ReadCached(t) PROVE LockInv'
    <3>1. CASE value = None
      BY <2>6, <3>1, ReturnEffect, RaiseEffect DEF ReadCached
    <3>2. CASE ~(value = None)
      BY <2>6, <3>2, ReturnEffect, RaiseEffect DEF ReadCached
    <3>3. QED
      BY <3>1, <3>2
  <2>7. ASSUME NEW t \in Threads, AcquireFresh(t) PROVE LockInv'
    BY <2>7, ReturnEffect DEF AcquireFresh, IsFresh
  <2>8. ASSUME NEW t \in Threads, AcquireStale(t) PROVE LockInv'
    BY <2>8 DEF AcquireStale
  <2>9. ASSUME NEW t \in Threads, LoadOk(t) PROVE LockInv'
    BY <2>9 DEF LoadOk
  <2>10. ASSUME NEW t \in Threads, LoadFails(t) PROVE LockInv'
    <3>1. CASE serveStale /\ value # None
      BY <2>10, <3>1, ReturnEffect, RaiseEffect DEF LoadFails
    <3>2. CASE ~(serveStale /\ value # None)
      BY <2>10, <3>2, ReturnEffect, RaiseEffect DEF LoadFails
    <3>3. QED
      BY <3>1, <3>2
  <2>11. ASSUME NEW t \in Threads, SetValue(t) PROVE LockInv'
    BY <2>11 DEF SetValue
  <2>12. ASSUME NEW t \in Threads, SetTime(t) PROVE LockInv'
    BY <2>12, ReturnEffect DEF SetTime
  <2>13. ASSUME NEW t \in Threads, DropValue(t) PROVE LockInv'
    <3>1. Dropped(t)
      BY <2>13, DropEffect
    <3>2. QED
      BY <3>1 DEF Dropped
  <2>14. ASSUME NEW t \in Threads, DropTime(t) PROVE LockInv'
    BY <2>14 DEF DropTime
  <2>15. CASE Tick
    BY <2>15 DEF Tick
  <2>16. CASE UNCHANGED vars
    BY <2>16 DEF vars
  <2> HIDE DEF settings, locals, history, Goto, TypeOK, LockInv, Critical,
     Loading
  <2>17. QED
    BY <2>1, <2>2, <2>3, <2>4, <2>5, <2>6, <2>7, <2>8, <2>9, <2>10, <2>11,
       <2>12, <2>13, <2>14, <2>15, <2>16 DEF Next, Step
<1>3. QED
  BY <1>1, <1>2, TypeCorrect, PTL DEF Spec

\* At most one thread is inside the loader or storing what it returned.
THEOREM SingleFlightHolds == Spec => []SingleFlight
<1>1. LockInv => SingleFlight
  BY DEF LockInv, SingleFlight, Critical
<1>2. QED
  BY <1>1, LockHeld, PTL

-----------------------------------------------------------------------------
(* The order of loads.  The lock makes the value stored next the latest load *)
(* of all, so what readers see, with or without the lock, only gets newer.   *)

OrderInv ==
    /\ value <= loads
    /\ highest <= loads
    /\ value # None => highest <= value
    /\ \A t \in Threads :
         /\ pc[t] = "set_value" =>
              loaded[t] = loads /\ value < loads /\ highest < loads
         /\ pc[t] = "set_time" => loaded[t] = loads /\ value = loads /\ value # None
         /\ call[t].floor <= highest
    /\ MonotonicReads

\* The stored value, the values being stored and every value returned are loads that
\* happened, and the stored one is the latest returned or newer.
LEMMA LoadsInOrder == Spec => []OrderInv
<1>1. Init => OrderInv
  BY CacheAssumption DEF Init, OrderInv, MonotonicReads, Answered, Answers,
     NoResult, None
<1>2. TypeOK /\ LockInv /\ OrderInv /\ [Next]_vars => OrderInv'
  <2> SUFFICES ASSUME TypeOK, LockInv, OrderInv, [Next]_vars
               PROVE  OrderInv'
    OBVIOUS
  <2> USE Numbers, CacheAssumption
  <2> USE DEF settings, locals, history, Goto, TypeOK, LockInv, Critical,
     Loading, None, NoTime, OrderInv, MonotonicReads, Answered, Answers
  <2>1. ASSUME NEW t \in Threads, NEW op \in {"get", "refresh"}, Call(t, op) PROVE OrderInv'
    <3>1. Called(t, op)
      BY <2>1, CallEffect
    <3>2. QED
      BY <3>1 DEF Called
  <2>2. ASSUME NEW t \in Threads, ReadValue(t) PROVE OrderInv'
    BY <2>2 DEF ReadValue
  <2>3. ASSUME NEW t \in Threads, ReadLoadedAt(t) PROVE OrderInv'
    BY <2>3 DEF ReadLoadedAt
  <2>4. ASSUME NEW t \in Threads, ReadClock(t) PROVE OrderInv'
    BY <2>4 DEF ReadClock
  <2>5. ASSUME NEW t \in Threads, ReadAge(t) PROVE OrderInv'
    <3>1. CASE loadedAt = NoTime
      BY <2>5, <3>1, RaiseEffect DEF ReadAge
    <3>2. CASE ~(loadedAt = NoTime)
      BY <2>5, <3>2, RaiseEffect DEF ReadAge
    <3>3. QED
      BY <3>1, <3>2
  <2>6. ASSUME NEW t \in Threads, ReadCached(t) PROVE OrderInv'
    <3>1. CASE value = None
      BY <2>6, <3>1, ReturnEffect, RaiseEffect DEF ReadCached
    <3>2. CASE ~(value = None)
      BY <2>6, <3>2, ReturnEffect, RaiseEffect DEF ReadCached
    <3>3. QED
      BY <3>1, <3>2
  <2>7. ASSUME NEW t \in Threads, AcquireFresh(t) PROVE OrderInv'
    BY <2>7, ReturnEffect DEF AcquireFresh, IsFresh
  <2>8. ASSUME NEW t \in Threads, AcquireStale(t) PROVE OrderInv'
    BY <2>8 DEF AcquireStale
  <2>9. ASSUME NEW t \in Threads, LoadOk(t) PROVE OrderInv'
    BY <2>9 DEF LoadOk
  <2>10. ASSUME NEW t \in Threads, LoadFails(t) PROVE OrderInv'
    <3>1. CASE serveStale /\ value # None
      BY <2>10, <3>1, ReturnEffect, RaiseEffect DEF LoadFails
    <3>2. CASE ~(serveStale /\ value # None)
      BY <2>10, <3>2, ReturnEffect, RaiseEffect DEF LoadFails
    <3>3. QED
      BY <3>1, <3>2
  <2>11. ASSUME NEW t \in Threads, SetValue(t) PROVE OrderInv'
    BY <2>11 DEF SetValue
  <2>12. ASSUME NEW t \in Threads, SetTime(t) PROVE OrderInv'
    BY <2>12, ReturnEffect DEF SetTime
  <2>13. ASSUME NEW t \in Threads, DropValue(t) PROVE OrderInv'
    <3>1. Dropped(t)
      BY <2>13, DropEffect
    <3>2. QED
      BY <3>1 DEF Dropped
  <2>14. ASSUME NEW t \in Threads, DropTime(t) PROVE OrderInv'
    BY <2>14 DEF DropTime
  <2>15. CASE Tick
    BY <2>15 DEF Tick
  <2>16. CASE UNCHANGED vars
    BY <2>16 DEF vars
  <2> HIDE DEF settings, locals, history, Goto, TypeOK, LockInv, Critical,
     Loading, None, NoTime, OrderInv, MonotonicReads, Answered, Answers
  <2>17. QED
    BY <2>1, <2>2, <2>3, <2>4, <2>5, <2>6, <2>7, <2>8, <2>9, <2>10, <2>11,
       <2>12, <2>13, <2>14, <2>15, <2>16 DEF Next, Step
<1>3. QED
  BY <1>1, <1>2, TypeCorrect, LockHeld, PTL DEF Spec

\* No call returns an older schema than one returned before it began.
THEOREM MonotonicReadsHolds == Spec => []MonotonicReads
<1>1. OrderInv => MonotonicReads
  BY DEF OrderInv
<1>2. QED
  BY <1>1, LoadsInOrder, PTL

-----------------------------------------------------------------------------
(* Refresh.  Once a refresh has dropped the value, whatever is stored next    *)
(* was loaded later: a load in progress would have held the lock.             *)

RefreshInv ==
    \A t \in Threads :
      /\ pc[t] # "idle" => result[t].kind = "none"
      /\ call[t].op = "refresh" /\ pc[t] \notin {"idle", "drop_value"} =>
           /\ call[t].mark <= loads
           /\ value # None => call[t].mark < value
           /\ \A u \in Threads : pc[u] = "set_value" => call[t].mark < loads
      /\ Answered(t) /\ call[t].op = "refresh" => result[t].id > call[t].mark

\* While a refresh that dropped the value runs, whatever is stored was loaded later.
LEMMA RefreshDrops == Spec => []RefreshInv
<1>1. Init => RefreshInv
  <2>1. ASSUME Init, NEW t \in Threads
        PROVE  pc[t] = "idle" /\ call[t].op = "get" /\ result[t].kind = "none"
    BY <2>1 DEF Init, NoResult
  <2>2. QED
    BY <2>1 DEF RefreshInv, Answered, Answers
<1>2. TypeOK /\ LockInv /\ OrderInv /\ RefreshInv /\ [Next]_vars => RefreshInv'
  <2> SUFFICES ASSUME TypeOK, LockInv, OrderInv, RefreshInv, [Next]_vars
               PROVE  RefreshInv'
    OBVIOUS
  <2> USE Numbers, CacheAssumption
  <2> USE DEF settings, locals, history, Goto, TypeOK, LockInv, Critical,
     Loading, None, NoTime, OrderInv, RefreshInv, Answered, Answers
  <2>1. ASSUME NEW t \in Threads, NEW op \in {"get", "refresh"}, Call(t, op) PROVE RefreshInv'
    <3>1. Called(t, op)
      BY <2>1, CallEffect
    <3>2. QED
      BY <3>1 DEF Called
  <2>2. ASSUME NEW t \in Threads, ReadValue(t) PROVE RefreshInv'
    BY <2>2 DEF ReadValue
  <2>3. ASSUME NEW t \in Threads, ReadLoadedAt(t) PROVE RefreshInv'
    BY <2>3 DEF ReadLoadedAt
  <2>4. ASSUME NEW t \in Threads, ReadClock(t) PROVE RefreshInv'
    BY <2>4 DEF ReadClock
  <2>5. ASSUME NEW t \in Threads, ReadAge(t) PROVE RefreshInv'
    <3>1. CASE loadedAt = NoTime
      BY <2>5, <3>1, RaiseEffect DEF ReadAge
    <3>2. CASE ~(loadedAt = NoTime)
      BY <2>5, <3>2, RaiseEffect DEF ReadAge
    <3>3. QED
      BY <3>1, <3>2
  <2>6. ASSUME NEW t \in Threads, ReadCached(t) PROVE RefreshInv'
    <3>1. CASE value = None
      BY <2>6, <3>1, ReturnEffect, RaiseEffect DEF ReadCached
    <3>2. CASE ~(value = None)
      BY <2>6, <3>2, ReturnEffect, RaiseEffect DEF ReadCached
    <3>3. QED
      BY <3>1, <3>2
  <2>7. ASSUME NEW t \in Threads, AcquireFresh(t) PROVE RefreshInv'
    BY <2>7, ReturnEffect DEF AcquireFresh, IsFresh
  <2>8. ASSUME NEW t \in Threads, AcquireStale(t) PROVE RefreshInv'
    BY <2>8 DEF AcquireStale
  <2>9. ASSUME NEW t \in Threads, LoadOk(t) PROVE RefreshInv'
    BY <2>9 DEF LoadOk
  <2>10. ASSUME NEW t \in Threads, LoadFails(t) PROVE RefreshInv'
    <3>1. CASE serveStale /\ value # None
      BY <2>10, <3>1, ReturnEffect, RaiseEffect DEF LoadFails
    <3>2. CASE ~(serveStale /\ value # None)
      BY <2>10, <3>2, ReturnEffect, RaiseEffect DEF LoadFails
    <3>3. QED
      BY <3>1, <3>2
  <2>11. ASSUME NEW t \in Threads, SetValue(t) PROVE RefreshInv'
    BY <2>11 DEF SetValue
  <2>12. ASSUME NEW t \in Threads, SetTime(t) PROVE RefreshInv'
    BY <2>12, ReturnEffect DEF SetTime
  <2>13. ASSUME NEW t \in Threads, DropValue(t) PROVE RefreshInv'
    <3>1. Dropped(t)
      BY <2>13, DropEffect
    <3>2. QED
      BY <3>1 DEF Dropped
  <2>14. ASSUME NEW t \in Threads, DropTime(t) PROVE RefreshInv'
    BY <2>14 DEF DropTime
  <2>15. CASE Tick
    BY <2>15 DEF Tick
  <2>16. CASE UNCHANGED vars
    BY <2>16 DEF vars
  <2> HIDE DEF settings, locals, history, Goto, TypeOK, LockInv, Critical,
     Loading, None, NoTime, OrderInv, RefreshInv, Answered, Answers
  <2>17. QED
    BY <2>1, <2>2, <2>3, <2>4, <2>5, <2>6, <2>7, <2>8, <2>9, <2>10, <2>11,
       <2>12, <2>13, <2>14, <2>15, <2>16 DEF Next, Step
<1>3. QED
  BY <1>1, <1>2, TypeCorrect, LockHeld, LoadsInOrder, PTL DEF Spec

\* A refresh returns a schema read after it dropped the old one.
THEOREM RefreshSeesNewLoadHolds == Spec => []RefreshSeesNewLoad
<1>1. RefreshInv => RefreshSeesNewLoad
  BY DEF RefreshInv, RefreshSeesNewLoad
<1>2. QED
  BY <1>1, RefreshDrops, PTL

-----------------------------------------------------------------------------
(* Freshness.  _value is written before _loaded_at, so a reader that sees the *)
(* new _loaded_at also sees the new _value.                                   *)

FreshInv ==
    /\ \A v \in Loads : publishedAt[v] <= clock /\ (v > loads => publishedAt[v] = NoTime)
    /\ value # None => publishedAt[value] \in {NoTime, loadedAt}
    /\ \A t \in Threads :
         /\ now[t] <= clock
         /\ pc[t] \in {"read_clock", "read_age", "read_cached"} => ttl > 0
         /\ pc[t] = "set_value" => \A v \in Loads : v = loads => publishedAt[v] = NoTime
         /\ pc[t] = "drop_time" => value = None
         /\ pc[t] = "read_cached" /\ value # None =>
              publishedAt[value] = NoTime \/ now[t] - publishedAt[value] < ttl
         /\ result[t].kind = "cached" =>
              ttl > 0 /\ result[t].checked <= clock /\ result[t].id # None
    /\ FreshWhenChecked

\* A value judged fresh, and one about to be returned as fresh, was stored within ttl
\* of the reading that judges it.
LEMMA CachedIsFresh == Spec => []FreshInv
<1>1. Init => FreshInv
  BY CacheAssumption DEF Init, FreshInv, FreshWhenChecked, NoResult, None,
     NoTime, Times, Loads
<1>2. TypeOK /\ LockInv /\ OrderInv /\ FreshInv /\ [Next]_vars => FreshInv'
  <2> SUFFICES ASSUME TypeOK, LockInv, OrderInv, FreshInv, [Next]_vars
               PROVE  FreshInv'
    OBVIOUS
  <2> USE Numbers, CacheAssumption
  <2> USE DEF settings, locals, history, Goto, TypeOK, LockInv, Critical,
     Loading, None, NoTime, OrderInv, FreshInv, FreshWhenChecked
  <2>1. ASSUME NEW t \in Threads, NEW op \in {"get", "refresh"}, Call(t, op) PROVE FreshInv'
    <3>1. Called(t, op)
      BY <2>1, CallEffect
    <3>2. QED
      BY <3>1 DEF Called
  <2>2. ASSUME NEW t \in Threads, ReadValue(t) PROVE FreshInv'
    BY <2>2 DEF ReadValue
  <2>3. ASSUME NEW t \in Threads, ReadLoadedAt(t) PROVE FreshInv'
    BY <2>3 DEF ReadLoadedAt
  <2>4. ASSUME NEW t \in Threads, ReadClock(t) PROVE FreshInv'
    BY <2>4 DEF ReadClock
  <2>5. ASSUME NEW t \in Threads, ReadAge(t) PROVE FreshInv'
    <3>1. CASE loadedAt = NoTime
      BY <2>5, <3>1, RaiseEffect DEF ReadAge
    <3>2. CASE ~(loadedAt = NoTime)
      BY <2>5, <3>2, RaiseEffect DEF ReadAge
    <3>3. QED
      BY <3>1, <3>2
  <2>6. ASSUME NEW t \in Threads, ReadCached(t) PROVE FreshInv'
    <3>1. CASE value = None
      BY <2>6, <3>1, ReturnEffect, RaiseEffect DEF ReadCached
    <3>2. CASE ~(value = None)
      BY SMTT(30), <2>6, <3>2, ReturnEffect, RaiseEffect DEF ReadCached
    <3>3. QED
      BY <3>1, <3>2
  <2>7. ASSUME NEW t \in Threads, AcquireFresh(t) PROVE FreshInv'
    BY <2>7, ReturnEffect DEF AcquireFresh, IsFresh
  <2>8. ASSUME NEW t \in Threads, AcquireStale(t) PROVE FreshInv'
    BY <2>8 DEF AcquireStale
  <2>9. ASSUME NEW t \in Threads, LoadOk(t) PROVE FreshInv'
    BY <2>9 DEF LoadOk, Loads
  <2>10. ASSUME NEW t \in Threads, LoadFails(t) PROVE FreshInv'
    <3>1. CASE serveStale /\ value # None
      BY <2>10, <3>1, ReturnEffect, RaiseEffect DEF LoadFails
    <3>2. CASE ~(serveStale /\ value # None)
      BY <2>10, <3>2, ReturnEffect, RaiseEffect DEF LoadFails
    <3>3. QED
      BY <3>1, <3>2
  <2>11. ASSUME NEW t \in Threads, SetValue(t) PROVE FreshInv'
    BY <2>11 DEF SetValue
  <2>12. ASSUME NEW t \in Threads, SetTime(t) PROVE FreshInv'
    BY <2>12, ReturnEffect DEF SetTime
  <2>13. ASSUME NEW t \in Threads, DropValue(t) PROVE FreshInv'
    <3>1. Dropped(t)
      BY <2>13, DropEffect
    <3>2. QED
      BY <3>1 DEF Dropped
  <2>14. ASSUME NEW t \in Threads, DropTime(t) PROVE FreshInv'
    BY <2>14 DEF DropTime
  <2>15. CASE Tick
    BY <2>15 DEF Tick
  <2>16. CASE UNCHANGED vars
    BY <2>16 DEF vars
  <2> HIDE DEF settings, locals, history, Goto, TypeOK, LockInv, Critical,
     Loading, None, NoTime, OrderInv, FreshInv, FreshWhenChecked
  <2>17. QED
    BY <2>1, <2>2, <2>3, <2>4, <2>5, <2>6, <2>7, <2>8, <2>9, <2>10, <2>11,
       <2>12, <2>13, <2>14, <2>15, <2>16 DEF Next, Step
<1>3. QED
  BY <1>1, <1>2, TypeCorrect, LockHeld, LoadsInOrder, PTL DEF Spec

\* A value handed out as fresh was stored within ttl of the reading that judged it.
THEOREM FreshWhenCheckedHolds == Spec => []FreshWhenChecked
<1>1. FreshInv => FreshWhenChecked
  BY DEF FreshInv
<1>2. QED
  BY <1>1, CachedIsFresh, PTL

-----------------------------------------------------------------------------
(* Double-checked locking.  A value without a time is being stored by the     *)
(* owner of the lock, so the check made under the lock sees both or neither.  *)

StaleInv ==
    /\ value # None /\ loadedAt = NoTime => lock \in Threads /\ pc[lock] = "set_time"
    /\ LoadsOnlyWhenStale

\* While a thread loads, what is stored was stale when it took the lock, and it only
\* gets older.
LEMMA LoadsAreNeeded == Spec => []StaleInv
<1>1. Init => StaleInv
  BY CacheAssumption DEF Init, StaleInv, LoadsOnlyWhenStale, None
<1>2. TypeOK /\ LockInv /\ FreshInv /\ StaleInv /\ [Next]_vars => StaleInv'
  <2> SUFFICES ASSUME TypeOK, LockInv, FreshInv, StaleInv, [Next]_vars
               PROVE  StaleInv'
    OBVIOUS
  <2> USE Numbers, CacheAssumption
  <2> USE DEF settings, locals, history, Goto, TypeOK, LockInv, Critical,
     Loading, None, NoTime, FreshInv, StaleInv, LoadsOnlyWhenStale
  <2>1. ASSUME NEW t \in Threads, NEW op \in {"get", "refresh"}, Call(t, op) PROVE StaleInv'
    <3>1. Called(t, op)
      BY <2>1, CallEffect
    <3>2. QED
      BY <3>1 DEF Called
  <2>2. ASSUME NEW t \in Threads, ReadValue(t) PROVE StaleInv'
    BY <2>2 DEF ReadValue
  <2>3. ASSUME NEW t \in Threads, ReadLoadedAt(t) PROVE StaleInv'
    BY <2>3 DEF ReadLoadedAt
  <2>4. ASSUME NEW t \in Threads, ReadClock(t) PROVE StaleInv'
    BY <2>4 DEF ReadClock
  <2>5. ASSUME NEW t \in Threads, ReadAge(t) PROVE StaleInv'
    <3>1. CASE loadedAt = NoTime
      BY <2>5, <3>1, RaiseEffect DEF ReadAge
    <3>2. CASE ~(loadedAt = NoTime)
      BY <2>5, <3>2, RaiseEffect DEF ReadAge
    <3>3. QED
      BY <3>1, <3>2
  <2>6. ASSUME NEW t \in Threads, ReadCached(t) PROVE StaleInv'
    <3>1. CASE value = None
      BY <2>6, <3>1, ReturnEffect, RaiseEffect DEF ReadCached
    <3>2. CASE ~(value = None)
      BY <2>6, <3>2, ReturnEffect, RaiseEffect DEF ReadCached
    <3>3. QED
      BY <3>1, <3>2
  <2>7. ASSUME NEW t \in Threads, AcquireFresh(t) PROVE StaleInv'
    BY <2>7, ReturnEffect DEF AcquireFresh, IsFresh
  <2>8. ASSUME NEW t \in Threads, AcquireStale(t) PROVE StaleInv'
    BY <2>8 DEF AcquireStale, IsFresh
  <2>9. ASSUME NEW t \in Threads, LoadOk(t) PROVE StaleInv'
    BY <2>9 DEF LoadOk
  <2>10. ASSUME NEW t \in Threads, LoadFails(t) PROVE StaleInv'
    <3>1. CASE serveStale /\ value # None
      BY <2>10, <3>1, ReturnEffect, RaiseEffect DEF LoadFails
    <3>2. CASE ~(serveStale /\ value # None)
      BY <2>10, <3>2, ReturnEffect, RaiseEffect DEF LoadFails
    <3>3. QED
      BY <3>1, <3>2
  <2>11. ASSUME NEW t \in Threads, SetValue(t) PROVE StaleInv'
    BY <2>11 DEF SetValue
  <2>12. ASSUME NEW t \in Threads, SetTime(t) PROVE StaleInv'
    BY <2>12, ReturnEffect DEF SetTime
  <2>13. ASSUME NEW t \in Threads, DropValue(t) PROVE StaleInv'
    <3>1. Dropped(t)
      BY <2>13, DropEffect
    <3>2. QED
      BY <3>1 DEF Dropped
  <2>14. ASSUME NEW t \in Threads, DropTime(t) PROVE StaleInv'
    BY <2>14 DEF DropTime
  <2>15. CASE Tick
    BY <2>15 DEF Tick
  <2>16. CASE UNCHANGED vars
    BY <2>16 DEF vars
  <2> HIDE DEF settings, locals, history, Goto, TypeOK, LockInv, Critical,
     Loading, None, NoTime, FreshInv, StaleInv, LoadsOnlyWhenStale
  <2>17. QED
    BY <2>1, <2>2, <2>3, <2>4, <2>5, <2>6, <2>7, <2>8, <2>9, <2>10, <2>11,
       <2>12, <2>13, <2>14, <2>15, <2>16 DEF Next, Step
<1>3. QED
  BY <1>1, <1>2, TypeCorrect, LockHeld, CachedIsFresh, PTL DEF Spec

\* No thread reloads a schema that another one has just reloaded.
THEOREM LoadsOnlyWhenStaleHolds == Spec => []LoadsOnlyWhenStale
<1>1. StaleInv => LoadsOnlyWhenStale
  BY DEF StaleInv
<1>2. QED
  BY <1>1, LoadsAreNeeded, PTL

-----------------------------------------------------------------------------
(* The cache's own errors.  A lock-free reader past its first test finds the *)
(* value or its time missing only if a refresh dropped them meanwhile.        *)

DropInv ==
    /\ \A t \in Threads :
         /\ pc[t] \in {"read_loaded_at", "read_clock", "read_age", "read_cached"}
              /\ value = None => call[t].dropped
         /\ pc[t] \in {"read_clock", "read_age"} /\ loadedAt = NoTime => call[t].dropped
         /\ pc[t] # "idle" => result[t].kind = "none"
    /\ OwnErrorsOnlyAfterDrop

\* A thread inside the lock-free check finds _value or _loaded_at gone only when a
\* refresh dropped it after the call began.
LEMMA ErrorsNeedDrops == Spec => []DropInv
<1>1. Init => DropInv
  BY CacheAssumption DEF Init, DropInv, OwnErrorsOnlyAfterDrop, NoResult
<1>2. TypeOK /\ LockInv /\ OrderInv /\ FreshInv /\ DropInv /\ [Next]_vars => DropInv'
  <2> SUFFICES ASSUME TypeOK, LockInv, OrderInv, FreshInv, DropInv, [Next]_vars
               PROVE  DropInv'
    OBVIOUS
  <2> USE Numbers, CacheAssumption
  <2> USE DEF settings, locals, history, Goto, TypeOK, LockInv, Critical,
     Loading, None, NoTime, OrderInv, FreshInv, DropInv, OwnErrorsOnlyAfterDrop
  <2>1. ASSUME NEW t \in Threads, NEW op \in {"get", "refresh"}, Call(t, op) PROVE DropInv'
    <3>1. Called(t, op)
      BY <2>1, CallEffect
    <3>2. QED
      BY <3>1 DEF Called
  <2>2. ASSUME NEW t \in Threads, ReadValue(t) PROVE DropInv'
    BY <2>2 DEF ReadValue
  <2>3. ASSUME NEW t \in Threads, ReadLoadedAt(t) PROVE DropInv'
    BY <2>3 DEF ReadLoadedAt
  <2>4. ASSUME NEW t \in Threads, ReadClock(t) PROVE DropInv'
    BY <2>4 DEF ReadClock
  <2>5. ASSUME NEW t \in Threads, ReadAge(t) PROVE DropInv'
    <3>1. CASE loadedAt = NoTime
      BY <2>5, <3>1, RaiseEffect DEF ReadAge
    <3>2. CASE ~(loadedAt = NoTime)
      BY <2>5, <3>2, RaiseEffect DEF ReadAge
    <3>3. QED
      BY <3>1, <3>2
  <2>6. ASSUME NEW t \in Threads, ReadCached(t) PROVE DropInv'
    <3>1. CASE value = None
      BY <2>6, <3>1, ReturnEffect, RaiseEffect DEF ReadCached
    <3>2. CASE ~(value = None)
      BY <2>6, <3>2, ReturnEffect, RaiseEffect DEF ReadCached
    <3>3. QED
      BY <3>1, <3>2
  <2>7. ASSUME NEW t \in Threads, AcquireFresh(t) PROVE DropInv'
    BY <2>7, ReturnEffect DEF AcquireFresh, IsFresh
  <2>8. ASSUME NEW t \in Threads, AcquireStale(t) PROVE DropInv'
    BY <2>8 DEF AcquireStale
  <2>9. ASSUME NEW t \in Threads, LoadOk(t) PROVE DropInv'
    BY <2>9 DEF LoadOk
  <2>10. ASSUME NEW t \in Threads, LoadFails(t) PROVE DropInv'
    <3>1. CASE serveStale /\ value # None
      BY <2>10, <3>1, ReturnEffect, RaiseEffect DEF LoadFails
    <3>2. CASE ~(serveStale /\ value # None)
      BY <2>10, <3>2, ReturnEffect, RaiseEffect DEF LoadFails
    <3>3. QED
      BY <3>1, <3>2
  <2>11. ASSUME NEW t \in Threads, SetValue(t) PROVE DropInv'
    BY <2>11 DEF SetValue
  <2>12. ASSUME NEW t \in Threads, SetTime(t) PROVE DropInv'
    BY <2>12, ReturnEffect DEF SetTime
  <2>13. ASSUME NEW t \in Threads, DropValue(t) PROVE DropInv'
    <3>1. Dropped(t)
      BY <2>13, DropEffect
    <3>2. QED
      BY <3>1 DEF Dropped
  <2>14. ASSUME NEW t \in Threads, DropTime(t) PROVE DropInv'
    BY <2>14 DEF DropTime
  <2>15. CASE Tick
    BY <2>15 DEF Tick
  <2>16. CASE UNCHANGED vars
    BY <2>16 DEF vars
  <2> HIDE DEF settings, locals, history, Goto, TypeOK, LockInv, Critical,
     Loading, None, NoTime, OrderInv, FreshInv, DropInv, OwnErrorsOnlyAfterDrop
  <2>17. QED
    BY <2>1, <2>2, <2>3, <2>4, <2>5, <2>6, <2>7, <2>8, <2>9, <2>10, <2>11,
       <2>12, <2>13, <2>14, <2>15, <2>16 DEF Next, Step
<1>3. QED
  BY <1>1, <1>2, TypeCorrect, LockHeld, LoadsInOrder, CachedIsFresh, PTL DEF
     Spec

\* A get() that no refresh interferes with never fails with an error of the cache.
THEOREM OwnErrorsOnlyAfterDropHolds == Spec => []OwnErrorsOnlyAfterDrop
<1>1. DropInv => OwnErrorsOnlyAfterDrop
  BY DEF DropInv
<1>2. QED
  BY <1>1, ErrorsNeedDrops, PTL

-----------------------------------------------------------------------------
(* Failed loads lose nothing.                                                 *)

ColdInv == value = None => cold

\* Once a value was stored, only invalidate() takes it away.
LEMMA NothingIsLost == Spec => []ColdInv
<1>1. Init => ColdInv
  BY CacheAssumption DEF Init, ColdInv
<1>2. TypeOK /\ OrderInv /\ ColdInv /\ [Next]_vars => ColdInv'
  <2> SUFFICES ASSUME TypeOK, OrderInv, ColdInv, [Next]_vars
               PROVE  ColdInv'
    OBVIOUS
  <2> USE Numbers, CacheAssumption
  <2> USE DEF settings, locals, history, Goto, TypeOK, OrderInv, ColdInv, None
  <2>1. ASSUME NEW t \in Threads, NEW op \in {"get", "refresh"}, Call(t, op) PROVE ColdInv'
    <3>1. Called(t, op)
      BY <2>1, CallEffect
    <3>2. QED
      BY <3>1 DEF Called
  <2>2. ASSUME NEW t \in Threads, ReadValue(t) PROVE ColdInv'
    BY <2>2 DEF ReadValue
  <2>3. ASSUME NEW t \in Threads, ReadLoadedAt(t) PROVE ColdInv'
    BY <2>3 DEF ReadLoadedAt
  <2>4. ASSUME NEW t \in Threads, ReadClock(t) PROVE ColdInv'
    BY <2>4 DEF ReadClock
  <2>5. ASSUME NEW t \in Threads, ReadAge(t) PROVE ColdInv'
    <3>1. CASE loadedAt = NoTime
      BY <2>5, <3>1, RaiseEffect DEF ReadAge
    <3>2. CASE ~(loadedAt = NoTime)
      BY <2>5, <3>2, RaiseEffect DEF ReadAge
    <3>3. QED
      BY <3>1, <3>2
  <2>6. ASSUME NEW t \in Threads, ReadCached(t) PROVE ColdInv'
    <3>1. CASE value = None
      BY <2>6, <3>1, ReturnEffect, RaiseEffect DEF ReadCached
    <3>2. CASE ~(value = None)
      BY <2>6, <3>2, ReturnEffect, RaiseEffect DEF ReadCached
    <3>3. QED
      BY <3>1, <3>2
  <2>7. ASSUME NEW t \in Threads, AcquireFresh(t) PROVE ColdInv'
    BY <2>7, ReturnEffect DEF AcquireFresh, IsFresh
  <2>8. ASSUME NEW t \in Threads, AcquireStale(t) PROVE ColdInv'
    BY <2>8 DEF AcquireStale
  <2>9. ASSUME NEW t \in Threads, LoadOk(t) PROVE ColdInv'
    BY <2>9 DEF LoadOk
  <2>10. ASSUME NEW t \in Threads, LoadFails(t) PROVE ColdInv'
    <3>1. CASE serveStale /\ value # None
      BY <2>10, <3>1, ReturnEffect, RaiseEffect DEF LoadFails
    <3>2. CASE ~(serveStale /\ value # None)
      BY <2>10, <3>2, ReturnEffect, RaiseEffect DEF LoadFails
    <3>3. QED
      BY <3>1, <3>2
  <2>11. ASSUME NEW t \in Threads, SetValue(t) PROVE ColdInv'
    <3>1. loaded[t] = loads /\ value < loads
      BY <2>11 DEF SetValue
    <3>2. loaded[t] # None
      BY <3>1
    <3>3. QED
      BY <2>11, <3>2 DEF SetValue
  <2>12. ASSUME NEW t \in Threads, SetTime(t) PROVE ColdInv'
    BY <2>12, ReturnEffect DEF SetTime
  <2>13. ASSUME NEW t \in Threads, DropValue(t) PROVE ColdInv'
    <3>1. Dropped(t)
      BY <2>13, DropEffect
    <3>2. QED
      BY <3>1 DEF Dropped
  <2>14. ASSUME NEW t \in Threads, DropTime(t) PROVE ColdInv'
    BY <2>14 DEF DropTime
  <2>15. CASE Tick
    BY <2>15 DEF Tick
  <2>16. CASE UNCHANGED vars
    BY <2>16 DEF vars
  <2> HIDE DEF settings, locals, history, Goto, TypeOK, OrderInv, ColdInv,
     None
  <2>17. QED
    BY <2>1, <2>2, <2>3, <2>4, <2>5, <2>6, <2>7, <2>8, <2>9, <2>10, <2>11,
       <2>12, <2>13, <2>14, <2>15, <2>16 DEF Next, Step
<1>3. QED
  BY <1>1, <1>2, TypeCorrect, LoadsInOrder, PTL DEF Spec

\* A load's error reaches the caller only while there was nothing to serve instead.
THEOREM LoadErrorOnlyWhenColdHolds == Spec => LoadErrorOnlyWhenCold
<1>1. TypeOK /\ ColdInv /\ [Next]_vars =>
        [\A t \in Threads :
           result[t].kind # "load_error" /\ result'[t].kind = "load_error" /\ serveStale
             => cold]_vars
  <2> SUFFICES ASSUME TypeOK, ColdInv, Next, NEW u \in Threads,
                      result[u].kind # "load_error", result'[u].kind = "load_error",
                      serveStale
               PROVE  cold
    OBVIOUS
  <2>1. CASE Tick
    BY <2>1 DEF Tick
  <2>2. ASSUME NEW t \in Threads, NEW op \in {"get", "refresh"}, Call(t, op) PROVE FALSE
    <3>1. Called(t, op)
      BY <2>2, CallEffect
    <3>2. QED
      BY <3>1 DEF Called
  <2>3. ASSUME NEW t \in Threads, LoadFails(t) PROVE cold
    <3>1. CASE value # None
      <4>1. Return(t, "stale", value, NoTime)
        BY <2>3, <3>1 DEF LoadFails
      <4>2. QED
        BY <4>1, ReturnEffect
    <3>2. CASE value = None
      BY <3>2 DEF ColdInv
    <3>3. QED
      BY <3>1, <3>2
  <2>4. ASSUME NEW t \in Threads, ReadValue(t) PROVE FALSE
    BY <2>4 DEF ReadValue
  <2>5. ASSUME NEW t \in Threads, ReadLoadedAt(t) PROVE FALSE
    BY <2>5 DEF ReadLoadedAt
  <2>6. ASSUME NEW t \in Threads, ReadClock(t) PROVE FALSE
    BY <2>6 DEF ReadClock
  <2>7. ASSUME NEW t \in Threads, ReadAge(t) PROVE FALSE
    <3>1. CASE loadedAt = NoTime
      BY <2>7, <3>1, RaiseEffect DEF ReadAge
    <3>2. CASE ~(loadedAt = NoTime)
      BY <2>7, <3>2, RaiseEffect DEF ReadAge
    <3>3. QED
      BY <3>1, <3>2
  <2>8. ASSUME NEW t \in Threads, ReadCached(t) PROVE FALSE
    <3>1. CASE value = None
      BY <2>8, <3>1, ReturnEffect, RaiseEffect DEF ReadCached
    <3>2. CASE ~(value = None)
      BY <2>8, <3>2, ReturnEffect, RaiseEffect DEF ReadCached
    <3>3. QED
      BY <3>1, <3>2
  <2>9. ASSUME NEW t \in Threads, AcquireFresh(t) PROVE FALSE
    BY <2>9, ReturnEffect DEF AcquireFresh
  <2>10. ASSUME NEW t \in Threads, AcquireStale(t) PROVE FALSE
    BY <2>10 DEF AcquireStale
  <2>11. ASSUME NEW t \in Threads, LoadOk(t) PROVE FALSE
    BY <2>11 DEF LoadOk
  <2>12. ASSUME NEW t \in Threads, SetValue(t) PROVE FALSE
    BY <2>12 DEF SetValue
  <2>13. ASSUME NEW t \in Threads, SetTime(t) PROVE FALSE
    BY <2>13, ReturnEffect DEF SetTime
  <2>14. ASSUME NEW t \in Threads, DropValue(t) PROVE FALSE
    <3>1. Dropped(t)
      BY <2>14, DropEffect
    <3>2. QED
      BY <3>1 DEF Dropped
  <2>15. ASSUME NEW t \in Threads, DropTime(t) PROVE FALSE
    BY <2>15 DEF DropTime
  <2>16. QED
    BY <2>1, <2>2, <2>3, <2>4, <2>5, <2>6, <2>7, <2>8, <2>9, <2>10, <2>11,
       <2>12, <2>13, <2>14, <2>15 DEF Next, Step
<1>2. QED
  BY <1>1, TypeCorrect, NothingIsLost, PTL DEF Spec, LoadErrorOnlyWhenCold

-----------------------------------------------------------------------------
(* Every call takes effect at one instant: the refinement of AtomicCache.     *)

atomicVars == <<serveStale, value, Newest, Phases, Emptied, Returned>>

\* A call that has dropped what it had to drop, and is not about to store a load.
InGet(t) == pc[t] \notin {"idle", "drop_value", "set_value"}

\* A return with the stored value is an answer of the abstract cache.
LEMMA AnswersAtomically ==
  ASSUME TypeOK, NEW t \in Threads, NEW kind, NEW checked, Return(t, kind, value, checked),
         InGet(t), value # None, UNCHANGED <<serveStale, value, loads, call>>
  PROVE  Atomic!Answer(t)
<1>1. Phases[t] = "get"
  BY DEF Phases, InGet
<1>2. Returned' = [Returned EXCEPT ![t] = value]
  <2>1. result'[t].id = value /\ \A u \in Threads : u # t => result'[u] = result[u]
    BY ReturnEffect
  <2>2. QED
    BY <2>1 DEF Returned
<1>3. Phases' = [Phases EXCEPT ![t] = "idle"]
  BY ReturnEffect DEF Phases
<1>4. Newest' = Newest
  BY ReturnEffect DEF Newest, InGet
<1>5. QED
  BY <1>1, <1>2, <1>3, <1>4 DEF Atomic!Answer, Atomic!None, None, Emptied

\* An exception is a failure of the abstract cache, where that may fail.
LEMMA FailsAtomically ==
  ASSUME TypeOK, NEW t \in Threads, NEW kind, Raise(t, kind), InGet(t),
         value = None \/ call[t].dropped \/ ~serveStale,
         UNCHANGED <<serveStale, value, loads, call>>
  PROVE  Atomic!Fail(t)
<1>1. Phases[t] = "get" /\ Emptied[t] = call[t].dropped
  BY DEF Phases, InGet, Emptied
<1>2. Returned' = [Returned EXCEPT ![t] = None]
  BY RaiseEffect DEF Returned
<1>3. Phases' = [Phases EXCEPT ![t] = "idle"]
  BY RaiseEffect DEF Phases
<1>4. Newest' = Newest
  BY RaiseEffect DEF Newest, InGet
<1>5. QED
  BY <1>1, <1>2, <1>3, <1>4 DEF Atomic!Fail, Atomic!None, None, Emptied

\* A step inside a call that neither stores, drops nor ends it is invisible.
LEMMA GoesOnUnseen ==
  ASSUME TypeOK, NEW t \in Threads, NEW label, Goto(t, label), InGet(t),
         label \notin {"idle", "drop_value", "set_value"},
         UNCHANGED <<serveStale, value, loads, call, result>>
  PROVE  UNCHANGED atomicVars
<1>1. Phases' = Phases
  BY DEF Phases, InGet, Goto, TypeOK
<1>2. Newest' = Newest
  BY DEF Newest, InGet, Goto, TypeOK
<1>3. QED
  BY <1>1, <1>2 DEF atomicVars, Emptied, Returned

\* Every step of the cache is a step of AtomicCache, or nothing it sees.  A load is
\* invisible until it is stored, and stored by its thread alone (LockInv), as the
\* latest one (OrderInv); the cache's own errors follow a drop (DropInv).
LEMMA CacheStepsAtomically ==
  ASSUME TypeOK, LockInv, OrderInv, DropInv, [Next]_vars
  PROVE  Atomic!Next \/ UNCHANGED atomicVars
<1> USE DEF settings, locals, history
<1>1. ASSUME NEW t \in Threads, NEW op \in {"get", "refresh"}, Call(t, op) PROVE Atomic!Next
  <2>1. Called(t, op) /\ result'[t].id = None
    BY <1>1, CallEffect DEF Call, TypeOK, NoResult
  <2>2. Phases[t] = "idle" /\ Phases' = [Phases EXCEPT ![t] = op]
    BY <2>1 DEF Phases, Called
  <2>3. Emptied' = [Emptied EXCEPT ![t] = FALSE]
    BY <2>1 DEF Emptied, Called
  <2>4. Returned' = [Returned EXCEPT ![t] = None]
    BY <2>1 DEF Returned, Called
  <2>5. Newest' = Newest
    BY <2>1 DEF Newest, Called
  <2>6. Atomic!Begin(t, op)
    BY <2>1, <2>2, <2>3, <2>4, <2>5 DEF Atomic!Begin, Atomic!None, None, Called
  <2>7. QED
    BY <2>6 DEF Atomic!Next
<1>2. ASSUME NEW t \in Threads, ReadValue(t) PROVE UNCHANGED atomicVars
  BY <1>2, GoesOnUnseen DEF ReadValue, InGet
<1>3. ASSUME NEW t \in Threads, ReadLoadedAt(t) PROVE UNCHANGED atomicVars
  BY <1>3, GoesOnUnseen DEF ReadLoadedAt, InGet
<1>4. ASSUME NEW t \in Threads, ReadClock(t) PROVE UNCHANGED atomicVars
  BY <1>4, GoesOnUnseen DEF ReadClock, InGet
<1>5. ASSUME NEW t \in Threads, ReadAge(t) PROVE Atomic!Next \/ UNCHANGED atomicVars
  <2>1. CASE loadedAt = NoTime
    <3>1. Atomic!Fail(t)
      BY <1>5, <2>1, FailsAtomically DEF ReadAge, InGet, DropInv
    <3>2. QED
      BY <3>1 DEF Atomic!Next
  <2>2. CASE loadedAt # NoTime
    BY <1>5, <2>2, GoesOnUnseen DEF ReadAge, InGet
  <2>3. QED
    BY <2>1, <2>2
<1>6. ASSUME NEW t \in Threads, ReadCached(t) PROVE Atomic!Next
  <2>1. CASE value = None
    <3>1. Atomic!Fail(t)
      BY <1>6, <2>1, FailsAtomically DEF ReadCached, InGet
    <3>2. QED
      BY <3>1 DEF Atomic!Next
  <2>2. CASE value # None
    <3>1. Atomic!Answer(t)
      BY <1>6, <2>2, AnswersAtomically DEF ReadCached, InGet
    <3>2. QED
      BY <3>1 DEF Atomic!Next
  <2>3. QED
    BY <2>1, <2>2
<1>7. ASSUME NEW t \in Threads, AcquireFresh(t) PROVE Atomic!Next
  <2>1. Atomic!Answer(t)
    BY <1>7, AnswersAtomically DEF AcquireFresh, IsFresh, InGet
  <2>2. QED
    BY <2>1 DEF Atomic!Next
<1>8. ASSUME NEW t \in Threads, AcquireStale(t) PROVE UNCHANGED atomicVars
  BY <1>8, GoesOnUnseen DEF AcquireStale, InGet
<1>9. ASSUME NEW t \in Threads, LoadOk(t) PROVE UNCHANGED atomicVars
  <2>1. \A u \in Threads : pc[u] # "set_value"
    BY <1>9 DEF LoadOk, LockInv, Critical, Loading
  <2>2. Newest' = Newest
    BY <1>9, <2>1, Numbers DEF LoadOk, Newest, Goto, TypeOK
  <2>3. Phases' = Phases
    BY <1>9 DEF LoadOk, Phases, Goto, TypeOK
  <2>4. QED
    BY <1>9, <2>2, <2>3 DEF LoadOk, atomicVars, Emptied, Returned
<1>10. ASSUME NEW t \in Threads, LoadFails(t) PROVE Atomic!Next
  <2>1. CASE serveStale /\ value # None
    <3>1. Atomic!Answer(t)
      BY <1>10, <2>1, AnswersAtomically DEF LoadFails, InGet
    <3>2. QED
      BY <3>1 DEF Atomic!Next
  <2>2. CASE ~(serveStale /\ value # None)
    <3>1. Atomic!Fail(t)
      BY <1>10, <2>2, FailsAtomically DEF LoadFails, InGet
    <3>2. QED
      BY <3>1 DEF Atomic!Next
  <2>3. QED
    BY <2>1, <2>2
<1>11. ASSUME NEW t \in Threads, SetValue(t) PROVE Atomic!Next
  <2>1. \A u \in Threads : u # t => pc[u] # "set_value"
    BY <1>11 DEF SetValue, LockInv, Critical, Loading
  <2>2. Newest = loads - 1 /\ Newest' = loads
    BY <1>11, <2>1 DEF SetValue, Newest, Goto, TypeOK
  <2>3. value' = Newest + 1 /\ Newest' = Newest + 1
    BY <1>11, <2>2, Numbers DEF SetValue, OrderInv
  <2>4. Phases[t] = "get" /\ Phases' = Phases
    BY <1>11 DEF SetValue, Phases, Goto, TypeOK
  <2>5. Atomic!Store(t)
    BY <1>11, <2>3, <2>4 DEF SetValue, Atomic!Store, Emptied, Returned
  <2>6. QED
    BY <2>5 DEF Atomic!Next
<1>12. ASSUME NEW t \in Threads, SetTime(t) PROVE Atomic!Next
  <2>1. loaded[t] = value /\ value # None
    BY <1>12 DEF SetTime, OrderInv
  <2>2. Atomic!Answer(t)
    BY <1>12, <2>1, AnswersAtomically DEF SetTime, InGet
  <2>3. QED
    BY <2>2 DEF Atomic!Next
<1>13. ASSUME NEW t \in Threads, DropValue(t) PROVE Atomic!Next
  <2>1. Dropped(t)
    BY <1>13, DropEffect
  <2>2. Phases[t] = "refresh" /\ Phases' = [Phases EXCEPT ![t] = "get"]
    BY <2>1 DEF Phases, Dropped
  <2>3. Emptied' = [u \in Threads |-> TRUE]
    BY <2>1 DEF Emptied, Dropped
  <2>4. Newest' = Newest
    BY <2>1 DEF Newest, Dropped
  <2>5. Atomic!Empty(t)
    BY <2>1, <2>2, <2>3, <2>4 DEF Atomic!Empty, Atomic!None, None, Dropped, Returned
  <2>6. QED
    BY <2>5 DEF Atomic!Next
<1>14. ASSUME NEW t \in Threads, DropTime(t) PROVE UNCHANGED atomicVars
  BY <1>14, GoesOnUnseen DEF DropTime, InGet
<1>15. CASE Tick \/ UNCHANGED vars
  BY <1>15 DEF Tick, vars, atomicVars, Newest, Phases, Emptied, Returned
<1>16. QED
  BY <1>1, <1>2, <1>3, <1>4, <1>5, <1>6, <1>7, <1>8, <1>9, <1>10, <1>11, <1>12,
     <1>13, <1>14, <1>15 DEF Next, Step

\* Whatever the threads interleave, the cache behaves as one that answers, stores and
\* empties in single steps.
THEOREM ImplementsAtomicCacheHolds == Spec => ImplementsAtomicCache
<1>1. Init => Atomic!Init
  BY CacheAssumption
  DEF Init, Atomic!Init, Atomic!None, None, Newest, Phases, Emptied, Returned, NoResult
<1>2. TypeOK /\ LockInv /\ OrderInv /\ DropInv /\ [Next]_vars
        => [Atomic!Next]_<<serveStale, value, Newest, Phases, Emptied, Returned>>
  BY CacheStepsAtomically DEF atomicVars
<1>3. QED
  BY <1>1, <1>2, TypeCorrect, LockHeld, LoadsInOrder, ErrorsNeedDrops, PTL
  DEF Spec, ImplementsAtomicCache, Atomic!Spec
=============================================================================
