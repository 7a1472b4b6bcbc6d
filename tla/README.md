# A verification model of the Natural Language to SQL Assistant

The program answers questions in plain language over a database: it discovers
the schema, has one or two models write a query, validates it, runs it read
only and has a model write the answer. This directory holds TLA+ modules
translated from its source, configurations for TLC, and proofs for TLAPS. Paths
below are relative to `src/nl2sql/` of the repository.

Contents: [inventory](#inventory), [modules](#modules), [runs](#runs),
[bounds](#bounds), [fairness](#fairness), [proofs](#proofs),
[disagreements](#where-the-code-and-its-documents-disagree),
[not modelled](#what-is-not-modelled-and-why).

## Inventory

One asyncio event loop serves the requests. What blocks (database work, schema
loads, local generations, conversation and audit writes) runs in threads of the
default executor through `asyncio.to_thread`. Nothing is shared between
requests except the state listed here.

| Component | State | Operations | What is hard |
| --- | --- | --- | --- |
| Schema cache (`metadata/cache.py`, `service.py`) | `_value`, `_loaded_at`, `_lock` | `get`, `invalidate`, `refresh` | the hit takes no lock; `refresh` is two calls; the loader can fail |
| Router and selection (`pipeline/router.py`, `sql_verifier.py`) | per question: decision, candidate list, repairs, flags; shared: provider availability | `route`, `produce` (generate, repair, escalate, verify, cross check, dry run, choose, check cost) | every call may fail; availability changes in between; late rejections; ties |
| Local model (`llm/huggingface_local.py`) | semaphore, load lock, `_model`, `_load_error` | `is_available`, `_chat`, `_load`, `_generate`, `preload` | time-outs that leave a thread running; sticky failure; shared executor |
| Orchestrator (`pipeline/orchestrator.py`) | per question: audit entry, usage counter, outcome | `run`, `_run` | failure or cancellation at any stage, each to be recorded once |
| Audit trail (`observability/audit.py`) | log, metrics, rows | `record` | its own failure must not fail the question |
| Conversation memory (`conversation/`, `db/repositories.py`) | turns per conversation and principal | `history`, `record`, trimming, expiry | concurrent questions of one conversation; swallowed write failures; transactions |
| Model calls (`llm/base.py`, `azure_openai.py`, `core/retry.py`, `llm/usage.py`) | usage collection per question | `generate_structured`, `_invoke` | retries inside repairs; every attempt leaves a record |
| Executor (`pipeline/sql_executor.py`, `db/`) | pooled connections and their session state | `execute`, `dry_run`, `estimate_cost`, `ping` | driver timeouts and session state must be undone on every path |
| Validator, guard, tenancy, policy (`pipeline/sql_validator.py`, `security/`) | the report of one statement | `validate`, `apply`, `check` | two sets of name rules, its own and the database's; rewrites that must not change the answer; boundaries of the row limit; masking through expressions |
| Introspection and catalogue (`metadata/introspector.py`, `models.py`, `service.py`) | none | `introspect`, `apply_policy`, `resolve` | ambiguous and hidden names |
| Schema retrieval (`pipeline/schema_retriever.py`) | none | `retrieve`, foreign key expansion | ranking |
| Rate limiter (`security/rate_limit.py`) | hits per principal, `_lock` | `check` | clock read before the lock |
| API (`api/`) | the request | middleware, principal, endpoints, error handlers | cancellation; errors of two kinds |
| Token provider (`db/azure_auth.py`) | token, expiry | `get_token` | one lock around all of it |
| CLI, configuration, logging, evaluation | none that matters here | | translation only |

How they interact: the API (or the command line) builds a `QueryCommand` and
calls the orchestrator; the orchestrator reads the conversation, normalises the
question, takes the catalogue from the schema cache, retrieves tables, routes,
has the selection produce a query, executes it, writes the answer, stores the
turn and records the audit entry. Selection calls the model providers and the
executor (dry runs, cost). The local model serves every question. Every request
passes the rate limiter first, and they all share the connections of one pool.

What makes each correct, in a line: the cache never hands out something stale or
goes back; a query that runs was vetted and is the best of those; the local
model neither leaks permits nor piles up work; every question that is answered
or refused is recorded once and truthfully; a conversation shows the latest
answers; a statement that passes validation reads what the policy shows, writes
nothing, and is answered as if the database held the tenant's rows only (each with
the exceptions [below](#where-the-code-and-its-documents-disagree)); a pooled
connection carries nothing from one use to the next that the next would notice;
the limiter and the retries keep their limits; every request ends.

## Modules

- `SchemaCache` models `TTLCache` one attribute access at a time. `pc[t]` is the
  access thread `t` makes next (`read_value`, `read_loaded_at`, `read_clock`,
  `read_age`, `read_cached` are the lock-free hit of `get`; `get_lock`, `load`,
  `set_value`, `set_time` the reload; `drop_value`, `drop_time` are
  `invalidate`). A catalogue is the number of the load that read it, so "older"
  is `<`. History variables (`publishedAt`, `highest`, `call`, `cold`, `loads`,
  `calls`) record what the properties compare with and guard nothing but the
  bounds.
- `AtomicCache` is the abstract specification of that: one store, and calls that
  empty it, store a newer load, answer with what is stored or fail in single
  steps. `SchemaCache` maps its `_value` to the store; a load counts from
  `set_value` on, a refresh empties at `drop_value`, and a call answers at its
  last read of `_value` or, if it loaded, when it writes `_loaded_at`. The failures
  it allows are those of an empty store, of a refresh during the call, and, where
  stale answers are off, any.
- `CandidateSelection` models `ModelRouter.route` and `SQLVerifier.produce`, one
  step per await. `candidates` is the Python list; confidences are integers and
  `Score` is the code's weighted sum scaled to integers. `LocalModelBreaks` is
  the only interference from other questions: a failed load makes the local
  model unavailable for good.
- `SafeChoice` is the abstract specification of that: queries are proposed,
  standing ones may be rejected, and the question ends once, with one that
  stands, with a refusal when none does, or with an error.
- `LocalModel` models `_chat`, the semaphore, `wait_for` and the double-checked
  `_load`, with the executor's jobs going on after their caller timed out.
- `QueryPipeline` models `run` and `_run` for concurrent questions, the
  conversation memory and the audit trail. A question can be cancelled at any
  await, and its worker thread goes on. Selection and schema are one step each,
  with every outcome those modules allow.
- `Statement` translates the pure part of a statement's way: the policy and the
  catalogue it leaves (`Discovered`, `Catalog`, `Resolve`), the guard
  (`GuardIssues`), name resolution (`Binding`, `ColumnIssue`, `ResolveIssues`), the
  cost check, masking (`MaskedOutputs`), the tenant predicates (`Scope`), filters
  (`ApplyFilters`) and the row limit (`ApplyRowLimit`), each an operator on an
  abstract statement: a SELECT over base tables and derived tables, one join of any
  kind, outputs with a name and without one, the columns of WHERE, GROUP BY and
  HAVING, an ORDER BY, a limit, and the constructs the guard looks for. `validate` is
  `Errors` and `Rewritten`, in the order of the code. A rewritten query carries its
  orders, inside and outside of the wrapping SELECT, apart from the statement's:
  `LiftOrder` drops the qualifier of the key as `_lift_order` does, so that the query
  may rank by another column than the statement. `FirstTenant` is the one column of a
  table that is bound to the tenant.
- `StatementMeaning` says what a database makes of that statement: how it binds
  names, which rows it joins, keeps, orders and cuts, and what it writes. It is
  external to the repository and independent of `Statement`, so that the two can
  disagree. An output's name counts in ORDER BY where it is the whole term; inside an
  expression, in GROUP BY and in HAVING a name is a source's column first, as in
  SQLite, SQL Server and PostgreSQL. A NULL passes no filter and no tenant predicate.
- `StatementPath` takes a statement from generation to display (refused, valid,
  executed or failed, shown) and states what must hold of both together.
- `Executor` models `SQLExecutor` one statement of the driver at a time. `conns[c]`
  is a pooled connection with what stays on it (tenant of the session, time-out,
  plan mode); `thread[k]` is the worker thread of caller `k` and where it is
  (`connect`, `publish`, `run`, `fetch`, `plan_on`, `plan`, `plan_off`, `release`,
  `ended`), with its attempt. A cancelled caller leaves its thread (`gone`). A
  result is the sequence of its rows' sizes.
- `ModelCall` models one structured call: attempts, repairs, and the record of each.
  `Retry` is the decision both share (`core/retry.py`).
- `Service` composes the two with the HTTP layer and the limiter: each request goes
  from the middleware through principal, limiter and endpoint to the model and the
  database and back. Of the pipeline between them only the calls are here, with one
  candidate for each question. `readAt` and `Tick` are the limiter's clock;
  `admitted` is a history variable.
- `MCSchemaCache`, `MCCandidateSelection`, `MCQueryPipeline`, `MCStatementPath` and
  `MCService` give the constants for TLC. `LocalModel` needs none.
- `SchemaCacheProofs`, `CandidateSelectionProofs`, `QueryPipelineProofs`,
  `LocalModelProofs`, `StatementPathProofs`, `ServiceProofs` and `LimiterProofs`
  hold the theorems, `DataInduction` lemmas that two of them share.

Operators whose comment begins with "Faulty variant" are plausible mistakes in
the operator after them. No specification uses them; putting one in place of
the operator makes TLC find the property it is listed with in `PROJECT.json`
violated, which shows that the property depends on that code.

## Runs

| Run | Shows |
| --- | --- |
| `cache` | Three threads, four calls of `get` or `refresh`, every interleaving: single flight, freshness of hits, a refresh sees a new load, loads only when stale, the cache's own errors only after a drop, and refinement of `AtomicCache`. |
| `cache_live` | Every cache call ends. |
| `selection` | All settings, questions and outcomes: vetted winner, best survivor and earliest of equals, refusal only as a last resort, call budget, no self review, truthful warning, and refinement of `SafeChoice`. |
| `selection_review` | Finds a query that runs against its reviewer. |
| `local` | Permits conserved, weights loaded once, queued work bounded, every call ends. |
| `local_concurrency` | Finds two generations at once where one is allowed. |
| `pipeline` | Three questions, failures everywhere, cancellation, expiry: one truthful record each, history is the latest turns, an answer that was delivered is remembered. |
| `pipeline_cost` | Finds a record without the tokens its question used. |
| `statement` | Statements over every kind of name, construct, source, join, order, limit and filter, for each tenant: only visible tables and columns are read, nothing is written, named outputs over masked columns are never shown in clear, the executed statement's answer is the original's over the tenant's rows, cut at the row limit, and no other tenant's rows are in it. What each property leaves out is stated with it, and is what the next two runs find or is listed under [limits](#what-is-not-modelled-and-why). |
| `statement_tenants` | Finds another tenant's rows in a right or full join. |
| `statement_filters` | Finds a filtered query whose answer is not among the first rows it asks for. |
| `service` | Requests of two tenants, of no tenant and a probe over a pool of two connections, and requests that compete for the limiter's window: statements run as their tenant, connections at rest are clean, what is fetched is exact, the limiter holds, attempts are bounded, and every request ends. |

## Bounds

- `cache`: a violation needs at most a reader, a writer and a later observer, so
  three threads and four calls; `Ttls = {0, 1}` and a clock up to 2 give fresh,
  just expired and always stale. `MaxLoads` equals `MaxCalls` and never binds.
  Threads are symmetric.
- `selection`: up to two repairs, each switch on or off, two confidences on
  either side of the verification threshold, the default weights. The model's
  control does not depend on more.
- `local`: three tasks and four calls over two executor threads and one or two
  permits, so that an abandoned job, a waiting task and a new one coexist.
- `pipeline`: two questions in one conversation and a third that joins it, is
  only validated in it, or is outside it; the memory is off, in memory with its limit
  below the prompt's window, or in the database with its limit above. Three
  turns overflow both limits.

- `statement`: nine tables with a blocked table, a blocked column, masked columns, a
  hidden schema, a view left out, a name in two schemas and one hidden in the
  default one, and a table with two columns that could carry the tenant; two tenants
  whose rows differ in join and order, with rows that no join matches on either side,
  under all four kinds of join; orders by name, place and expression, and by columns
  that both sources have; outputs whose names hide a column, and outputs without one;
  at most two rows are returned, with limits from -1 to 4 around that. One construct, nested kind or
  keyword at a time for the guard: its checks are a union of independent faults.
- `service`: `Loads` are the mixes of requests, so that each contention is explored
  alone: three requests and limits 1 and 2 over a window of 2 with `Skew` 1; two
  tenants' dry runs and estimates; a query with a probe; a tenant and no tenant.
  Two connections of which the pool keeps one, two attempts, one repair, rows of
  sizes that just fill and just pass the byte budget. `MaxNow` (3) bounds the
  clock: a request admitted at 0 has left the window by then.

Runs of `SchemaCache`, `StatementPath` and `Service` do not check for deadlock,
because their bounded calls and requests come to an end (and `service` checks that
they all do). The others stutter explicitly when all is over, so that a deadlock is
an error.

## Fairness

- `SchemaCache`: weak fairness of each thread's steps. Python's locks are not
  fair, but with bounded calls nobody is overtaken for ever. The loader ends
  because its connection has a timeout.
- `LocalModel`: weak fairness of `Acquire` (the semaphore serves waiters in
  order) and of `Deliver` or `Timeout` (the event loop runs and timers fire).
  Threads get none: a generation may hang and the call must end all the same.
- `Service`: weak fairness of each request's steps, which are those of its coroutine
  and its thread. Every wait in them is bounded by a time-out of the code or of a
  library: the driver's for a statement, the client's for a model call, the pool's
  for a connection, each of which is an action that is always possible there. A
  cancellation and a request that is too large get no fairness; time need not pass.
- `CandidateSelection` and `QueryPipeline` have no liveness property. Each
  question only moves forward: selection is bounded by `CallBudget`, and a
  pipeline stage is never entered twice; neither deadlocks.

## Proofs

TLAPS checks every theorem for all values of the constants, from the named
assumptions of the modules only (ranges that `config/settings.py` enforces, and
that the dummy values are not members of the sets).

- `SchemaCacheProofs`: after `TypeOK`, `LockInv` (who is past the lock owns it)
  carries the rest. `OrderInv` says that the stored value, what a thread loaded
  and what was returned are in load order; `RefreshInv` that after a drop
  everything in circulation was loaded later; `FreshInv` that a thread about to
  return a hit holds a clock reading the stored time was compared with, or a
  newer value; `StaleInv` that a loader's value is still missing or expired,
  since only the lock's owner writes; `DropInv` and `ColdInv` that `None` after a
  value means a refresh during the call. None of these is the property itself,
  because the property speaks of results and the induction of the accesses that
  lead to them. The last theorem proves the refinement of `AtomicCache`: three
  lemmas say when a return is its `Answer`, an exception its `Fail` and a step
  invisible; that a load is stored as the next one needs `LockInv` and `OrderInv`,
  that the cache's own errors may be failures needs `DropInv`.
  `MonotonicReads`, that no call goes back behind one that returned before it began,
  follows from atomicity, and `LoadErrorOnlyWhenCold`, that with stale answers a failed
  load fails a call only while nothing is stored, says little more than `AtomicCache`'s
  `Fail`, so no run checks them apart; they are theorems all the same.
- `CandidateSelectionProofs`: `Core` is `TypeOK` with the shape of the routing.
  `WriterInv` ties origin to writer, `ChoiceInv` says the best so far is the
  first maximum of the scanned prefix, `WarningInv` and `RefusalInv` carry what
  was tried to the end. The last theorem proves the refinement of `SafeChoice`
  step by step: each action is one abstract step or a stutter.
- `QueryPipelineProofs`: lemmas about `LastOf` come first (trimming before an
  append changes nothing of what trimming after it keeps; the last m of the last
  n; dropping the oldest). `Telling` ties entry, record and reply of each
  question at every stage, since nothing is recorded before the end; the three
  audit properties follow. `Keeping` says that a turn is stored or being stored
  only of a query that ran, and only once, so that a conversation repeats no turn;
  `Ordering` that the store is `LastOf` the live turns, which needs that fact
  where the oldest turn expires. `Present` and `AnsweredEarlier` say that a stored
  turn is live until it expires, and that whoever was answered earlier is past
  storing anything, so that `stored` is settled for the questions
  `AnswersAreRemembered` speaks of.

- `LocalModelProofs`: `LocalInv` adds to the types that `Holders`, the tasks with a
  slot, are finite and account for the slots that are not free; that a waiting task
  waits once; that jobs are numbered in order and each held by one task; that a
  queued job has its task; and who holds the lock. The bound on queued work follows
  by an injection from queued jobs to holders, for any number of tasks.
- `StatementPathProofs`: `StatementInv` says that a report is the one the operators
  of `Statement` give and that what ran is what was validated. The work is in the
  lemmas that compare the validator's binding of a name with the database's, for
  every catalogue, policy and statement of the grammar. `AnswersExactly` compares
  whole queries in three steps: a row passes its source's predicate exactly when it
  is among the rows the table would hold for the tenant (`OwnRowsAre`), so the scoped
  statement joins what the plain one would join of those rows, each kind of join with
  the predicate where the scoper puts it (`JoinsAlike`); the first `MaxRows + 1` rows
  are among those the statement itself would return (`TakeWidens`, which needs that
  every joined row has a rank, `RanksAreInts`, and that the top of a finite set
  extends to any size); and of one row more than is shown, the first ones and whether
  there was a last one are as of the whole (`OneMoreTells`). `RanksAlike` says when an
  order that moved out is still the order it was. `RowsOfTheTenant` needs none of that:
  whatever is kept of a join, each of its rows passed a predicate (`JoinedRowsPass`), or
  is an unmatched one. `ReadsOnlyVisible` rests on `OrdersWithin`, that rewriting adds
  no column to what the order reads.
- `ServiceProofs`: `ServiceImplementsExecutor` shows that the composition is, of
  connections and threads, the executor alone; the executor's invariant (who holds
  which connection, what it will put back, when it is in plan mode, that a thread
  about to read for a tenant is in that tenant's session or in one that reads
  nothing) then holds of it. `CallsWithin` does the same for model calls; the step
  that matters is a repair, which trades one round of retries for another. `FetchInv`
  says that while it reads, a thread has kept a prefix within both budgets whose size
  is what it counted; that the sizes of a result's prefixes are the sums their
  recursive definition says is shown by induction over its length (`SizesAre`).
- `DataInduction` has the inductions both need, up to a number and over the size of a
  finite set, each from the well-foundedness of the natural numbers: the least number
  outside a set has a predecessor inside it.
- `LimiterProofs`: `Accounted` relates the window to the whole history of requests
  let through: those it has forgotten are older than the window allows, and each hit
  that is left is at most `Skew` older than its request. The scan that stops at the
  first recent hit may leave expired ones behind it, which only makes it stricter.

Only model-checked: the liveness properties, which are out of the prover's reach, as
is `ENABLED`. Every safety property of a passing run is proved. The findings are
counterexamples of TLC.

## Where the code and its documents disagree

- `README.md:21-23` says the query that runs survived the other model's review;
  the review is a term of a score and does not decide.
- `llm/huggingface_local.py:12-17` says generations are serialised by the
  semaphore; after a time-out they overlap.
- `observability/audit.py:3-6` says each record tells the cost; the handler of
  unexpected errors leaves the tokens at zero.
- `pipeline/sql_validator.py:493` says filters apply to the query's result columns;
  with an ORDER BY and a LIMIT they apply to rows of no particular order, since lines
  527-529 move the order out and leave the limit in.
- `security/tenancy.py:8-12` says every table that carries a tenant column is bound to
  it and that a predicate in the ON keeps an outer join what it is; in a right or full
  join from a table without a tenant, or from a derived one (whose predicate is inside
  it), the ON keeps the joined table's rows of other tenants, as unmatched ones (lines
  103-108). Where the first table has a tenant column, its predicate is in the WHERE
  and removes every row the join kept for the joined table instead, the tenant's own
  as well.

Noted, without a run of their own:

- `metadata/cache.py:91` says the branch is guarded by `_is_fresh`; a concurrent
  `refresh` reaches it. `OwnErrorsOnlyAfterDrop` shows that nothing else does.
- `pipeline/sql_validator.py:318-321` says an output alias is accepted in ORDER BY,
  GROUP BY and HAVING only, lest a projection vouch for itself; there too the database
  may take the name for a column, in an expression and in GROUP BY before it looks at
  outputs, and lines 322-330 have then let a hidden column through: `SELECT email AS
  hash ... ORDER BY UPPER(hash)` reads the column `hash`. Without the conjunct about
  `Mistaken`, `OnlyVisibleDataRead` is violated.
- `pipeline/sql_validator.py:465-467` says any expression computed from a masked column
  is masked; lines 474-476 skip those without a name, as `MAX(email)` without an alias.
  Without `\ {NoName}`, `MaskedNeverInClear` is violated.
- `pipeline/sql_validator.py:594` says an order moves out when each of its terms refers
  to an output column; lines 597 and 609 look at the bare name, so a qualified key
  becomes whichever output has its name. Without `LiftKeepsOrder`, `AnswerIsExact` is
  violated.
- A cancelled question leaves no record (`pipeline/orchestrator.py:127` says "either
  way").
- A store that cannot be read fails the question while one that cannot be written
  does not (`conversation/store.py:86`, `121`).
- A concurrent append can drop a turn within the limit under snapshot isolation
  (`db/repositories.py:65-90`).
- Error envelopes promise identifiers (`api/errors.py:6-7`, `README.md:313-325`), but
  `run` resets the query's before a handler reads it (`orchestrator.py:170-172`), and
  the handler of unexpected errors runs outside the middleware that resets the
  request's.

## What is not modelled, and why

The text of questions, prompts, queries and answers, and the parser and generator of
SQL; scoring of tables and the complexity formula (floating point ranking, only its
comparisons matter and they are inputs) and the expansion along foreign keys, which
is a function of the ranking; rounding of scores to four decimals, which can only
turn a close pair into a tie; the confidence reported to the caller; logging and
metrics; HTTP framing and how a key or token is verified; parameter binding and value
conversion; the drivers, whose outcomes are inputs; the token provider, which is one
critical section; configuration, read once at start; the evaluation harness.
`conversation.clear`, `purge` and the limiter's `reset` have no caller.

Limits of what is modelled, so that the properties are not read for more than they
say:

- Statements have no common table expression, set operation or subquery in a
  predicate (`security/tenancy.py:129` passes over names equal to a CTE's).
- Of GROUP BY and HAVING only the columns they read are modelled, and of WHERE too: no
  rows are grouped or dropped. `AnswerIsExact` leaves grouped statements out. An
  output that reads one column ranks as that column.
- Outputs without a name are taken together and come last, so the place of a named one
  does not change when a filter's wrapping SELECT drops them.
- `OnlyVisibleDataRead` leaves out the names described above (`Mistaken`),
  `MaskedNeverInClear` outputs without a name, `AnswerIsExact` and
  `TenantsRowsButUnmatched` the right and full joins described above; a filter over
  an ordered query is in `AnswerIsExact` where `LiftKeepsOrder` holds.
- The kinds of statement nested in another are those of the guard's list and SELECT
  (`IsStatement`): whether the list misses a kind the database has is not modelled.
- Where NULLs are in an order depends on the database; the model puts them at 0.
- Masking looks at the outer SELECT only (`sql_validator.py:469`), so
  `MaskedNeverInClear` speaks of base tables and not of what a derived table renames;
  `result_validator.py:37` compares output names exactly.
- `Agreed` in the properties of `StatementPath` leaves out an unqualified name that
  the validator resolves in another schema because the policy hides the default
  schema's table of that name.
- Where the policy hides the tenant column, the table counts as having none and is
  read whole; `AnswerIsExact` leaves such tables out (`TenantsShown`).
- The values in the database are integers, because only their order and equality
  count, and tables are finite (`RowsAssumption`).
- A limit of 0 becomes `max_rows` (`sql_validator.py:624`); an order that cannot move
  out of a filtered query gives its limit up for `max_rows`, with a warning (534). T-SQL's
  FETCH clause is not the limit the code looks for.
- `IdleIsClean` makes an exception of a connection on which the statement that leaves
  plan mode failed: it stays in plan mode and answers plans.
- `Skew` is the longest delay between a thread's reading of the clock and the lock;
  the code does not bound it, and the limit is off by as much.
- `Service` writes one candidate for a question; several are `CandidateSelection`'s.
