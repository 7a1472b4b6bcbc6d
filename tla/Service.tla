------------------------------ MODULE Service ------------------------------
(***************************************************************************)
(* Requests through the HTTP layer (api/middleware.py, api/deps.py,        *)
(* api/errors.py, api/routers), the rate limiter (security/rate_limit.py)  *)
(* and the two resources they share: the language model (ModelCall) and    *)
(* the database (Executor).  Of the pipeline between them only its calls   *)
(* are here, with one candidate; QueryPipeline and CandidateSelection      *)
(* model their order and choice.                                           *)
(***************************************************************************)
EXTENDS Executor, ModelCall

CONSTANTS
    Loads,     \* the requests there may be: kind[k] is the endpoint k asks, limit is rate_limit_per_minute
    Window,    \* WINDOW_SECONDS
    Skew,      \* the longest a thread is kept between its reading of the clock and the lock
    MaxNow

Kinds == {"query", "validate", "schema", "ready", "none"}

ASSUME ServiceAssumption ==
    /\ Skew \in Nat /\ Window \in Nat /\ Skew < Window
    /\ \A l \in Loads : l.limit \in Nat /\ l.kind \in [Callers -> Kinds]

VARIABLES
    load,
    stage,     \* where each request is
    hits,      \* the window of the principal: where there is a limit all requests are one principal's
    readAt,    \* the time a request read before it waits for the limiter's lock
    now,
    admitted   \* when requests were let through

apiVars == <<load, stage, hits, readAt, now, admitted>>
vars == <<executorVars, modelCallVars, apiVars>>

Kind(k) == load.kind[k]
Limit == load.limit

Init ==
    /\ ExecutorInit /\ ModelCallInit
    /\ load \in Loads
    /\ stage = [k \in Callers |-> IF Kind(k) = "none" THEN "done" ELSE "new"]
    /\ hits = <<>> /\ readAt = [k \in Callers |-> 0] /\ now = 0 /\ admitted = <<>>

Stage(k, from, to) == stage[k] = from /\ stage' = [stage EXCEPT ![k] = to]

\* Nothing of the limiter's changes.
OnlyStages == UNCHANGED <<load, hits, readAt, now, admitted>>

-----------------------------------------------------------------------------
(***************************************************************************)
(* The middleware and the principal.                                       *)
(***************************************************************************)
\* A body that is too large is refused with an envelope of the middleware's own.
Receive(k, large) ==
    /\ Stage(k, "new", IF large THEN "done"
                       ELSE IF Kind(k) = "ready" THEN "ping" ELSE "authenticate")
    /\ UNCHANGED <<executorVars, modelCallVars, load, hits, readAt, now, admitted>>

\* get_principal runs in a worker thread: an unknown key is refused, and a known one reads the clock.
Authenticate(k, known) ==
    /\ Stage(k, "authenticate", IF known THEN "count" ELSE "app_error")
    /\ readAt' = IF known THEN [readAt EXCEPT ![k] = now] ELSE readAt
    /\ UNCHANGED <<executorVars, modelCallVars, load, hits, now, admitted>>

\* Faulty variant: a hit exactly as old as the window is dropped too.
ExpiredTooSoon(n, t) ==
    /\ \A i \in 1 .. n : hits[i] <= t - Window
    /\ n < Len(hits) => hits[n + 1] > t - Window

\* The first n hits are those that a scan from the front finds older than Window at the reading t.
Expired(n, t) ==
    /\ \A i \in 1 .. n : hits[i] < t - Window
    /\ n < Len(hits) => hits[n + 1] >= t - Window

\* check() with the lock: n hits have expired, and there is room for one more; or there is none.
Admit(k, n) ==
    /\ Limit > 0 => Expired(n, readAt[k]) /\ Len(hits) - n < Limit
    /\ Stage(k, "count", "admitted")
    /\ hits' = IF Limit = 0 THEN hits ELSE Append(SubSeq(hits, n + 1, Len(hits)), readAt[k])
    /\ admitted' = IF Limit = 0 THEN admitted ELSE Append(admitted, now)
    /\ readAt' = [readAt EXCEPT ![k] = 0]
    /\ UNCHANGED <<executorVars, modelCallVars, load, now>>

Refuse(k, n) ==
    /\ Limit > 0 /\ Expired(n, readAt[k]) /\ Len(hits) - n >= Limit
    /\ Stage(k, "count", "app_error")
    /\ hits' = SubSeq(hits, n + 1, Len(hits))
    /\ readAt' = [readAt EXCEPT ![k] = 0]
    /\ UNCHANGED <<executorVars, modelCallVars, load, now, admitted>>

\* Time matters to the limiter only; a request waits for its lock for Skew at most.
Tick ==
    /\ Limit > 0 /\ now < MaxNow
    /\ \E k \in Callers : stage[k] \in {"new", "authenticate", "count"}
    /\ \A k \in Callers : stage[k] = "count" => now - readAt[k] < Skew
    /\ now' = now + 1
    /\ UNCHANGED <<executorVars, modelCallVars, load, stage, hits, readAt, admitted>>

-----------------------------------------------------------------------------
(***************************************************************************)
(* The endpoints.                                                          *)
(***************************************************************************)
\* The catalogue is answered, or cannot be read; administration is refused to others.
Schema(k, outcome) ==
    /\ Kind(k) = "schema" /\ Stage(k, "admitted", outcome)
    /\ OnlyStages /\ UNCHANGED <<executorVars, modelCallVars>>

\* A body or filters that do not pass end here; otherwise QueryPipeline.run asks the model.
Question(k, accepted) ==
    /\ Kind(k) \in {"query", "validate"}
    /\ Stage(k, "admitted", IF accepted THEN "model" ELSE "app_error")
    /\ IF accepted THEN Ask(k) ELSE UNCHANGED modelCallVars
    /\ OnlyStages /\ UNCHANGED executorVars

\* The query is written and checked, or the model or the validator ends the question.
Written(k, outcome) ==
    /\ Stage(k, "model", outcome)
    /\ Take(k)
    /\ outcome \in {"probe", "unexpected"} => llm[k].at = "answered"
    /\ OnlyStages /\ UNCHANGED executorVars

\* The statements of a question, one at a time: its dry run, its cost, itself.
Statement(k) ==
    /\ \/ Stage(k, "probe", "probing") /\ Start(k, "dry_run")
       \/ Stage(k, "estimate", "estimating") /\ Start(k, "estimate_cost")
       \/ Stage(k, "execute", "executing") /\ Start(k, "execute")
       \/ Stage(k, "ping", "pinging") /\ Start(k, "ping")
    /\ OnlyStages /\ UNCHANGED modelCallVars

\* What follows a statement: an unclassified error is not an AppError, any other is, and so is a query that
\* is estimated to be too expensive.
After(k) ==
    /\ stage[k] \in {"probing", "estimating", "executing", "pinging"}
    /\ Collect(k)
    /\ \E next \in
          IF thread[k].error = Unclassified THEN {"unexpected"}
          ELSE IF thread[k].error # "none" THEN {"app_error"}
          ELSE IF stage[k] = "probing" /\ CostEnabled THEN {"estimate"}
          ELSE (IF stage[k] = "estimating" THEN {"app_error"} ELSE {})
               \cup {IF stage[k] \in {"probing", "estimating"} /\ Kind(k) = "query" THEN "execute" ELSE "ok"} :
          stage' = [stage EXCEPT ![k] = next]
    /\ OnlyStages /\ UNCHANGED modelCallVars

\* The request is cancelled: no response, and a statement that runs goes on without it.
Cancel(k) ==
    /\ stage[k] \in {"model", "probing", "estimating", "executing"}
    /\ stage' = [stage EXCEPT ![k] = "done"]
    /\ IF stage[k] = "model"
       THEN Abandon(k) /\ UNCHANGED executorVars
       ELSE Leave(k) /\ UNCHANGED modelCallVars
    /\ UNCHANGED <<load, hits, readAt, now, admitted>>

\* The response, or the envelope that a handler makes of the error.
Respond(k) ==
    /\ stage[k] \in {"ok", "app_error", "unexpected"}
    /\ stage' = [stage EXCEPT ![k] = "done"]
    /\ UNCHANGED <<executorVars, modelCallVars, load, hits, readAt, now, admitted>>

-----------------------------------------------------------------------------
Work(k) ==
    \/ ThreadStep(k) /\ UNCHANGED <<modelCallVars, apiVars>>
    \/ ModelCallStep(k) /\ UNCHANGED <<executorVars, apiVars>>

Step(k) ==
    \/ Receive(k, FALSE)
    \/ \E known \in BOOLEAN : Authenticate(k, known)
    \/ \E n \in 0 .. Len(hits) : Admit(k, n) \/ Refuse(k, n)
    \/ \E outcome \in {"ok", "app_error"} : Schema(k, outcome)
    \/ \E accepted \in BOOLEAN : Question(k, accepted)
    \/ \E outcome \in {"probe", "app_error", "unexpected"} : Written(k, outcome)
    \/ Statement(k) \/ After(k) \/ Respond(k)
    \/ Work(k)

Next == Tick \/ \E k \in Callers : Step(k) \/ Receive(k, TRUE) \/ Cancel(k)

Spec == Init /\ [][Next]_vars

\* Coroutines and worker threads are scheduled; the driver's and the client's time-outs end every call of
\* the database and of the model, and the pool's time-out every wait for a connection.
FairSpec == Spec /\ \A k \in Callers : WF_vars(Step(k))

-----------------------------------------------------------------------------
\* Every request is answered or cancelled, and every thread left behind ends too: retries are bounded, and
\* no thread keeps a connection that others wait for.
EveryRequestEnds ==
    <>(\A k \in Callers : stage[k] = "done" /\ thread[k].at = "idle")

\* "Allows a fixed number of requests per principal per minute" (rate_limit.py:21): the clock is read before
\* the lock is taken, so hits are out of order and judged by old readings, and yet more than Limit requests
\* are never let through within a window shortened by the longest such delay.
LimiterHolds ==
    Limit > 0 =>
        \A i \in 1 .. Len(admitted) :
            i + Limit <= Len(admitted) => admitted[i + Limit] - admitted[i] > Window - Skew

\* Retries and repairs multiply within one structured call: whatever fails in whatever order, the attempts
\* made and those it may still make stay within the product of the two settings.
ModelCallsBounded == \A k \in Callers : usage[k].calls + Left(k) <= PerCall
=============================================================================
