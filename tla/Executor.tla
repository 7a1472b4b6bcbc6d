------------------------------ MODULE Executor ------------------------------
(***************************************************************************)
(* SQLExecutor (pipeline/sql_executor.py): the worker threads that run     *)
(* statements on pooled connections, what each leaves on its connection,   *)
(* and the coroutine that retries them (core/retry.py).                    *)
(*                                                                         *)
(* A caller has one operation at a time.  A cancelled caller leaves its    *)
(* thread behind, which goes on to its end.  The statement, its parameters *)
(* and the elapsed time are left out; a result is the sizes of its rows.   *)
(***************************************************************************)
EXTENDS Retry, Sequences

CONSTANTS
    Tenants, NoTenant,
    TenantOf,      \* TenantOf[k]: the tenant of the principal that k serves, or NoTenant
    Connections,   \* pool_size + max_overflow of them
    PoolSize,
    Nobody,
    Publishes,     \* tenancy is on, names a session key, and the database is SQL Server
    CostEnabled,
    MaxAttempts,
    MaxRows, MaxBytes,
    Answers        \* the results the database may give, as sequences of row sizes

ASSUME ExecutorAssumption ==
    /\ TenantOf \in [Callers -> Tenants \cup {NoTenant}]
    /\ Nobody \notin Callers \cup Connections
    /\ MaxAttempts \in Nat \ {0} /\ MaxRows \in Nat /\ MaxBytes \in Nat
    /\ Publishes \in BOOLEAN /\ CostEnabled \in BOOLEAN
    /\ Answers \subseteq Seq(Nat)

VARIABLES
    conns,   \* the connections: their user, the session's context, the driver's timeout, plan mode
    thread   \* the operation of each caller, and what its thread has done

executorVars == <<conns, thread>>

Operations == {"execute", "dry_run", "estimate_cost", "ping"}
Unclassified == "driver"
\* What _classify makes of an error: one worth a retry, or one of those that are not (a time-out, a refused
\* permission, a missing object, any other).
Classes == {"transient", "failed"}

Closed == [open |-> FALSE, user |-> Nobody, context |-> NoTenant, timeout |-> "default",
           plan |-> FALSE, stuck |-> FALSE]

\* What a thread knows before it has a connection.
Unstarted ==
    [op |-> "none", at |-> "idle", attempt |-> 0, gone |-> FALSE, conn |-> Nobody,
     previous |-> "default", error |-> "none", ranAs |-> {}, answer |-> <<>>,
     kept |-> 0, bytes |-> 0, truncated |-> FALSE, limited |-> FALSE]

ExecutorInit ==
    /\ conns = [c \in Connections |-> Closed]
    /\ thread = [k \in Callers |-> Unstarted]

-----------------------------------------------------------------------------
Start(k, op) ==
    /\ thread[k].at = "idle"
    /\ op = "estimate_cost" => CostEnabled
    /\ thread' = [thread EXCEPT ![k] = [Unstarted EXCEPT !.op = op, !.at = "connect", !.attempt = 1]]
    /\ UNCHANGED conns

\* An idle connection is taken before another one is opened; the ping before its use may replace it by a
\* new one.  The timeout is set before anything can fail, and the old one is remembered.
Connect(k, c, fresh) ==
    LET session == IF fresh THEN Closed ELSE conns[c]
        op      == thread[k].op IN
    /\ thread[k].at = "connect"
    /\ conns[c].user = Nobody
    /\ ~ conns[c].open => fresh /\ \A d \in Connections : conns[d].user = Nobody => ~ conns[d].open
    /\ conns' = [conns EXCEPT ![c] =
            [session EXCEPT !.open = TRUE, !.user = k,
                            !.timeout = IF op = "ping" THEN session.timeout ELSE op]]
    /\ thread' = [thread EXCEPT ![k].conn = c, ![k].previous = session.timeout,
            ![k].at = IF op = "estimate_cost" THEN "plan_on"
                      ELSE IF op # "ping" /\ Publishes /\ TenantOf[k] # NoTenant THEN "publish"
                      ELSE "run"]

\* No connection in time, or none can be opened.
ConnectFails(k) ==
    /\ thread[k].at = "connect"
    /\ thread' = [thread EXCEPT ![k].at = "ended", ![k].error = Unclassified]
    /\ UNCHANGED conns

\* Faulty variant: the session's tenant is published only where there is none yet.
PublishOnce(k) ==
    /\ thread[k].at = "publish"
    /\ thread' = [thread EXCEPT ![k].at = "run"]
    /\ conns' = [conns EXCEPT ![thread[k].conn].context = IF @ = NoTenant THEN TenantOf[k] ELSE @]

\* A session in plan mode executes nothing, sp_set_session_context included.
Publish(k) ==
    /\ thread[k].at = "publish"
    /\ thread' = [thread EXCEPT ![k].at = "run"]
    /\ conns' = [conns EXCEPT ![thread[k].conn].context = IF conns[thread[k].conn].plan THEN @ ELSE TenantOf[k]]

\* Faulty variant: plan mode is switched off only where the plan was read.
FailsWithoutFinally(k, from, error) ==
    /\ thread[k].at = from
    /\ thread' = [thread EXCEPT ![k].at = "release", ![k].error = error]
    /\ UNCHANGED conns

\* Where a step fails the thread goes on in its finally.
Fails(k, from, error) ==
    /\ thread[k].at = from
    /\ thread' = [thread EXCEPT ![k].at = IF from = "plan" THEN "plan_off" ELSE "release",
                                ![k].error = error]
    /\ UNCHANGED conns

\* A session in plan mode answers one row, its plan.
Run(k, answer) ==
    /\ thread[k].at = "run"
    /\ thread' = [thread EXCEPT ![k].at = IF thread[k].op = "ping" THEN "release" ELSE "fetch",
                                ![k].answer = IF conns[thread[k].conn].plan THEN <<1>>
                                              ELSE IF thread[k].op = "dry_run" THEN <<>> ELSE answer,
                                ![k].ranAs = IF conns[thread[k].conn].plan THEN {}
                                             ELSE {conns[thread[k].conn].context}]
    /\ UNCHANGED conns

RowLimitOf(k) == IF thread[k].op = "dry_run" THEN 0 ELSE MaxRows

\* Faulty variant: the row that just fills the budget is dropped with those beyond it.
FetchOneShort(k) ==
    LET t    == thread[k]
        more == t.kept < Len(t.answer)
        full == more /\ t.kept >= RowLimitOf(k)
        size == IF more THEN t.answer[t.kept + 1] ELSE 0
        fat  == more /\ ~ full /\ t.bytes + size >= MaxBytes IN
    /\ t.at = "fetch"
    /\ thread' = [thread EXCEPT ![k].at = IF more /\ ~ full /\ ~ fat THEN "fetch" ELSE "release",
                                ![k].kept = IF more /\ ~ full /\ ~ fat THEN @ + 1 ELSE @,
                                ![k].bytes = IF full THEN @ ELSE @ + size,
                                ![k].truncated = full \/ fat,
                                ![k].limited = fat]
    /\ UNCHANGED conns

Fetch(k) ==
    LET t    == thread[k]
        more == t.kept < Len(t.answer)
        full == more /\ t.kept >= RowLimitOf(k)
        size == IF more THEN t.answer[t.kept + 1] ELSE 0
        fat  == more /\ ~ full /\ t.bytes + size > MaxBytes IN
    /\ t.at = "fetch"
    /\ thread' = [thread EXCEPT ![k].at = IF more /\ ~ full /\ ~ fat THEN "fetch" ELSE "release",
                                ![k].kept = IF more /\ ~ full /\ ~ fat THEN @ + 1 ELSE @,
                                ![k].bytes = IF full THEN @ ELSE @ + size,
                                ![k].truncated = full \/ fat,
                                ![k].limited = fat]
    /\ UNCHANGED conns

PlanOn(k) ==
    /\ thread[k].at = "plan_on"
    /\ thread' = [thread EXCEPT ![k].at = "plan"]
    /\ conns' = [conns EXCEPT ![thread[k].conn].plan = TRUE]

ReadPlan(k) ==
    /\ thread[k].at = "plan"
    /\ thread' = [thread EXCEPT ![k].at = "plan_off"]
    /\ UNCHANGED conns

PlanOff(k) ==
    /\ thread[k].at = "plan_off"
    /\ thread' = [thread EXCEPT ![k].at = "release"]
    /\ conns' = [conns EXCEPT ![thread[k].conn].plan = FALSE, ![thread[k].conn].stuck = FALSE]

\* The statement that switches plan mode off fails, and the connection survives it.
PlanOffFails(k) ==
    /\ thread[k].at = "plan_off"
    /\ thread' = [thread EXCEPT ![k].at = "release", ![k].error = Unclassified]
    /\ conns' = [conns EXCEPT ![thread[k].conn].stuck = TRUE]

\* reset(), rollback, and back to the pool (what was fetched is returned and not used here again).  The pool
\* keeps PoolSize connections and none that a failure broke.
Release(k, broken) ==
    LET c == thread[k].conn
        others == {d \in Connections : conns[d].open /\ conns[d].user = Nobody} IN
    /\ thread[k].at = "release"
    /\ broken => thread[k].error # "none"
    /\ conns' = [conns EXCEPT ![c] =
            IF broken \/ Cardinality(others) >= PoolSize THEN Closed
            ELSE [@ EXCEPT !.user = Nobody, !.timeout = thread[k].previous]]
    /\ thread' = [thread EXCEPT ![k] =
            [Unstarted EXCEPT !.op = thread[k].op, !.at = "ended", !.attempt = thread[k].attempt,
                              !.gone = thread[k].gone, !.error = thread[k].error]]

\* Only execute() runs under a retry policy, and only transient faults are retried.
MayRetry(k) ==
    /\ thread[k].op = "execute" /\ ~ thread[k].gone
    /\ Repeats(thread[k].attempt, MaxAttempts, thread[k].error = "transient")

\* Faulty variant: each repetition starts a policy of its own.
RetryAfresh(k) ==
    /\ thread[k].at = "ended" /\ MayRetry(k)
    /\ thread' = [thread EXCEPT ![k] =
            [Unstarted EXCEPT !.op = "execute", !.at = "connect", !.attempt = 1]]
    /\ UNCHANGED conns

Retry(k) ==
    /\ thread[k].at = "ended" /\ MayRetry(k)
    /\ thread' = [thread EXCEPT ![k] =
            [Unstarted EXCEPT !.op = "execute", !.at = "connect", !.attempt = thread[k].attempt + 1]]
    /\ UNCHANGED conns

\* The operation returns, raises, or, where its caller has gone, leaves its result to nobody.  The cost
\* estimate and the ping turn their errors into None and False.
End(k) ==
    /\ thread[k].at = "ended" /\ ~ MayRetry(k)
    /\ thread' = [thread EXCEPT ![k] =
            IF thread[k].gone THEN Unstarted
            ELSE [Unstarted EXCEPT !.at = "returned",
                      !.error = IF thread[k].op \in {"estimate_cost", "ping"} THEN "none" ELSE thread[k].error]]
    /\ UNCHANGED conns

\* The caller takes the result or the error.
Collect(k) ==
    /\ thread[k].at = "returned"
    /\ thread' = [thread EXCEPT ![k] = Unstarted]
    /\ UNCHANGED conns

\* The caller's task is cancelled; asyncio.to_thread's thread is not.
Leave(k) ==
    /\ thread[k].at \notin {"idle", "returned"} /\ ~ thread[k].gone
    /\ thread' = [thread EXCEPT ![k].gone = TRUE]
    /\ UNCHANGED conns

ThreadStep(k) ==
    \/ \E c \in Connections, fresh \in BOOLEAN : Connect(k, c, fresh)
    \/ ConnectFails(k)
    \/ Publish(k)
    \/ Fails(k, "publish", Unclassified)
    \/ \E answer \in Answers : Run(k, answer)
    \/ \E class \in Classes : Fails(k, "run", IF thread[k].op = "ping" THEN Unclassified ELSE class)
    \/ Fetch(k)
    \/ Fails(k, "fetch", Unclassified)
    \/ PlanOn(k)
    \/ \E place \in {"plan_on", "plan"} : Fails(k, place, Unclassified)
    \/ ReadPlan(k) \/ PlanOff(k) \/ PlanOffFails(k)
    \/ \E broken \in BOOLEAN : Release(k, broken)
    \/ Retry(k) \/ End(k)

ExecutorNext == \E k \in Callers : (\E op \in Operations : Start(k, op)) \/ ThreadStep(k) \/ Collect(k) \/ Leave(k)

ExecutorSpec == ExecutorInit /\ [][ExecutorNext]_executorVars

-----------------------------------------------------------------------------
\* "the executor publishes the tenant to the session before each query" (README.md:473): a connection
\* keeps the tenant of whoever used it last, and yet a statement run for a tenant reads its rows in a
\* session of that tenant, whatever failed on the connection before.
RunsAsItsTenant ==
    \A k \in Callers : Publishes /\ TenantOf[k] # NoTenant /\ thread[k].op \in {"execute", "dry_run"} =>
        thread[k].ranAs \subseteq {TenantOf[k]}

\* Whatever fails between taking a connection and giving it back, a connection in the pool has the driver's
\* own timeout and not that of a finished statement, and answers rows, unless the very statement that
\* switches plan mode off failed on it.
IdleIsClean ==
    \A c \in Connections : conns[c].user = Nobody =>
        /\ conns[c].timeout = "default"
        /\ conns[c].plan => conns[c].stuck

\* Sizes(rows)[n]: how much the first n rows hold together.
Sizes(rows) ==
    LET size[n \in 0 .. Len(rows)] == IF n = 0 THEN 0 ELSE size[n - 1] + rows[n]
    IN  size

\* What a thread has fetched when it stops without an error is the longest prefix of the result within both
\* budgets, marked truncated exactly when there was more, and size limited when the bytes were the reason.
FetchedExactly ==
    \A k \in Callers :
        LET t       == thread[k]
            fits(n) == n <= RowLimitOf(k) /\ Sizes(t.answer)[n] <= MaxBytes IN
        t.at = "release" /\ t.error = "none" /\ t.op \in {"execute", "dry_run"} =>
            /\ fits(t.kept) /\ (t.kept < Len(t.answer) => ~ fits(t.kept + 1))
            /\ t.truncated = (t.kept < Len(t.answer))
            /\ t.limited = (t.truncated /\ t.kept < RowLimitOf(k))
=============================================================================
