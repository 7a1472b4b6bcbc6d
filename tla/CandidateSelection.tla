------------------------- MODULE CandidateSelection -------------------------
(***************************************************************************)
(* How one question gets its query: ModelRouter.route and should_verify of *)
(* pipeline/router.py, then SQLVerifier.produce of pipeline/sql_verifier.py*)
(* with everything it awaits.                                              *)
(*                                                                         *)
(* Each await is a step: a model call, a dry run, the cost estimate.  In   *)
(* between, another question may find that the local model cannot be       *)
(* loaded, after which it is unavailable to this one too.                  *)
(*                                                                         *)
(* Confidences are integers from 0 to Certain (1.0); weights are integers  *)
(* in any common unit, and Score is scaled by 2 * Certain so that every    *)
(* term is an integer.  Left out: the rounding to four decimals, the       *)
(* confidence reported to the caller, and flags that are only logged.      *)
(***************************************************************************)
EXTENDS Integers, Sequences

CONSTANTS
    Settings,     \* the routing settings the service may run with
    Confidences,  \* the confidences a model may state
    Certain,      \* the confidence 1.0
    VerifyBelow,  \* verify_below_confidence
    Weights       \* selection_weights

Local     == "local"
Azure     == "azure_openai"
Nobody    == "nobody"
Providers == {Local, Azure}

\* routing: routing.enabled, with the default provider used when it is off.
AllSettings ==
    [routing : BOOLEAN, default : Providers, localCanVerify : BOOLEAN, repairs : Nat,
     escalate : BOOLEAN, crossGenerate : BOOLEAN, dryRun : BOOLEAN]

ASSUME SelectionAssumption ==
    /\ Settings \subseteq AllSettings
    /\ Certain \in Nat
    /\ Confidences \subseteq 0..Certain
    /\ VerifyBelow \in Int
    /\ Weights \in [validation : Nat, dryRun : Nat, verifier : Nat, confidence : Nat]

VARIABLES
    settings,
    question,    \* what the router and the validator know of the question
    available,   \* available[p]: is_available() of provider p
    pc,          \* the await produce() reaches next
    decision,    \* the RoutingDecision
    candidates,  \* the CandidateSQL list, oldest first
    repairs,
    warned,      \* the warning that a second model was used is in warnings
    scanned,     \* candidates _choose has looked at
    best,        \* its best so far: an index into candidates, or 0
    outcome,     \* how the question ended
    asked        \* history: asked[p] is how often produce() called provider p

made == <<candidates, repairs, warned>>
scan == <<scanned, best>>
vars == <<settings, question, available, pc, decision, made, scan, outcome, asked>>

\* simple: the complexity is at most local_max_complexity. complex: it reaches
\* always_verify_above_complexity. tenantMissing: tenant isolation needs a tenant
\* and the caller has none.
Questions == [simple : BOOLEAN, complex : BOOLEAN, tenantMissing : BOOLEAN]
Decisions == [primary : Providers \cup {Nobody}, verifier : Providers \cup {Nobody}]

NoVerdict == [by |-> Nobody, agrees |-> FALSE, confidence |-> 0]
Verdicts  == [by : Providers \cup {Nobody}, agrees : BOOLEAN, confidence : 0..Certain]

\* dryRun: "unbound" is a probe that could not be written (dry_run returns False
\* and the report stays valid), "rejected" one the database refused.
Candidates ==
    [writer : Providers, origin : {"primary", "repair", "escalation", "cross_check"},
     confidence : 0..Certain, valid : BOOLEAN, failed : BOOLEAN, verdict : Verdicts,
     dryRun : {"untried", "ok", "unbound", "rejected"}]

Stages == {"route", "generate", "decide", "cross_check", "dry_run", "choose", "cost", "done"}

Endings  == {"selected", "refused", "too_expensive", "unavailable", "no_tenant", "db_error"}
Outcomes == [kind : {"pending"} \cup Endings, winner : Nat]
Pending  == [kind |-> "pending", winner |-> 0]

TypeOK ==
    /\ settings \in Settings
    /\ question \in Questions
    /\ available \in [Providers -> BOOLEAN]
    /\ pc \in Stages
    /\ decision \in Decisions
    /\ candidates \in Seq(Candidates)
    /\ repairs \in 0..settings.repairs
    /\ warned \in BOOLEAN
    /\ scanned \in 0..Len(candidates)
    /\ best \in 0..scanned
    /\ outcome \in Outcomes
    /\ asked \in [Providers -> Nat]

Init ==
    /\ settings \in Settings
    /\ question \in Questions
    /\ available \in [Providers -> BOOLEAN]
    /\ pc = "route"
    /\ decision = [primary |-> Nobody, verifier |-> Nobody]
    /\ candidates = <<>>
    /\ repairs = 0
    /\ warned = FALSE
    /\ scanned = 0
    /\ best = 0
    /\ outcome = Pending
    /\ asked = [p \in Providers |-> 0]

-----------------------------------------------------------------------------
Finish(kind, winner) == pc' = "done" /\ outcome' = [kind |-> kind, winner |-> winner]

\* Routing.
PrimaryFor(s, q, up) ==
    CASE ~s.routing /\ up[s.default]          -> s.default
      [] s.routing /\ q.simple /\ up[Local]   -> Local
      [] OTHER                                -> IF up[Azure] THEN Azure ELSE Local

\* Faulty variant: the local model reviews whenever it may, whoever wrote.
VerifierForAnyone(s, q, up) ==
    IF s.routing /\ up[Local] /\ s.localCanVerify THEN Local ELSE Nobody

VerifierFor(s, q, up) ==
    CASE ~s.routing                                               -> Nobody
      [] s.routing /\ PrimaryFor(s, q, up) = Local /\ up[Azure]   -> Azure
      [] s.routing /\ PrimaryFor(s, q, up) = Azure /\ up[Local]
           /\ s.localCanVerify                                    -> Local
      [] OTHER                                                    -> Nobody

Route ==
    /\ pc = "route"
    /\ IF \A p \in Providers : ~available[p]
       THEN Finish("unavailable", 0) /\ UNCHANGED decision
       ELSE /\ decision' = [primary  |-> PrimaryFor(settings, question, available),
                            verifier |-> VerifierFor(settings, question, available)]
            /\ pc' = "generate"
            /\ UNCHANGED outcome
    /\ UNCHANGED <<settings, question, available, made, scan, asked>>

\* A worker thread of another question fails to load the local model: _load_error
\* is set and never cleared.
LocalModelBreaks ==
    /\ available[Local]
    /\ available' = [available EXCEPT ![Local] = FALSE]
    /\ UNCHANGED <<settings, question, pc, decision, made, scan, outcome, asked>>

-----------------------------------------------------------------------------
\* Writing candidates.
Candidate(writer, origin, confidence, valid, failed) ==
    [writer |-> writer, origin |-> origin, confidence |-> confidence, valid |-> valid,
     failed |-> failed, verdict |-> NoVerdict, dryRun |-> "untried"]

Written(writer, origin, confidence, valid) ==
    Candidate(writer, origin, confidence, valid, FALSE)

\* _failed_candidate: an empty GeneratedSQL, whose confidence is 0.5.
Unwritten(writer, origin) == Candidate(writer, origin, Certain \div 2, FALSE, TRUE)

Current == candidates[Len(candidates)]

\* One call to provider p.  An unavailable provider raises at once, inside the try.
Asking(p) == asked' = [asked EXCEPT ![p] = @ + 1]

\* Generate or repair with provider p: the call fails, the model declines or the
\* validator refuses what it wrote, the query passes, or the tenant scoper raises
\* what no handler here catches.
Write(p, origin, next) ==
    /\ Asking(p)
    /\ \/ /\ candidates' = Append(candidates, Unwritten(p, origin))
          /\ pc' = next
          /\ UNCHANGED outcome
       \/ \E confidence \in Confidences :
            /\ available[p]
            /\ candidates' = Append(candidates, Written(p, origin, confidence, FALSE))
            /\ pc' = next
            /\ UNCHANGED outcome
       \/ \E confidence \in Confidences :
            /\ available[p] /\ ~question.tenantMissing
            /\ candidates' = Append(candidates, Written(p, origin, confidence, TRUE))
            /\ pc' = next
            /\ UNCHANGED outcome
       \/ /\ available[p] /\ question.tenantMissing
          /\ Finish("no_tenant", 0)
          /\ UNCHANGED candidates
    /\ UNCHANGED <<settings, question, available, decision, scan>>

Generate ==
    /\ pc = "generate"
    /\ Write(decision.primary, "primary", "decide")
    /\ UNCHANGED <<repairs, warned>>

\* Faulty variant: the loop runs while repairs <= max_repair_attempts.
RepairOnceTooOften ==
    /\ pc = "decide"
    /\ ~Current.valid
    /\ repairs <= settings.repairs
    /\ repairs' = repairs + 1
    /\ Write(decision.primary, "repair", "decide")
    /\ UNCHANGED warned

\* Faulty variant: the loop forgets "repairs += 1".
RepairUncounted ==
    /\ pc = "decide"
    /\ ~Current.valid
    /\ repairs < settings.repairs
    /\ Write(decision.primary, "repair", "decide")
    /\ UNCHANGED <<repairs, warned>>

Repair ==
    /\ pc = "decide"
    /\ ~Current.valid
    /\ repairs < settings.repairs
    /\ repairs' = repairs + 1
    /\ Write(decision.primary, "repair", "decide")
    /\ UNCHANGED warned

MayEscalate ==
    /\ ~Current.valid
    /\ repairs >= settings.repairs
    /\ decision.verifier # Nobody
    /\ settings.escalate

Escalate ==
    /\ pc = "decide"
    /\ MayEscalate
    /\ Write(decision.verifier, "escalation", "dry_run")
    /\ warned' = TRUE
    /\ UNCHANGED repairs

-----------------------------------------------------------------------------
\* Review.
ShouldVerify ==
    /\ decision.verifier # Nobody
    /\ question.complex \/ Current.confidence < VerifyBelow

Reviewed(verdict) ==
    /\ candidates' = [candidates EXCEPT ![Len(candidates)].verdict = verdict]
    /\ pc' = IF verdict.by # Nobody /\ ~verdict.agrees /\ settings.crossGenerate
             THEN "cross_check" ELSE "dry_run"

\* The verifier judges the query.  It may be unusable by now, or fail: then the
\* candidate simply has no verdict.
Review ==
    /\ pc = "decide"
    /\ Current.valid
    /\ ShouldVerify
    /\ LET verifier == decision.verifier IN
       \/ /\ ~available[verifier]
          /\ Reviewed(NoVerdict)
          /\ UNCHANGED asked
       \/ /\ available[verifier]
          /\ Asking(verifier)
          /\ \/ Reviewed(NoVerdict)
             \/ \E agrees \in BOOLEAN, confidence \in Confidences :
                  Reviewed([by |-> verifier, agrees |-> agrees, confidence |-> confidence])
    /\ UNCHANGED <<settings, question, available, decision, repairs, warned, scan, outcome>>

\* Faulty variant: the cross check leaves the warning of an escalation.
CrossCheckWarns ==
    /\ pc = "cross_check"
    /\ Write(decision.verifier, "cross_check", "dry_run")
    /\ warned' = TRUE
    /\ UNCHANGED repairs

\* The reviewer disagreed: it writes a query of its own, which nobody reviews.
CrossCheck ==
    /\ pc = "cross_check"
    /\ Write(decision.verifier, "cross_check", "dry_run")
    /\ UNCHANGED <<repairs, warned>>

\* None of the branches applies.
Settle ==
    /\ pc = "decide"
    /\ IF Current.valid THEN ~ShouldVerify ELSE repairs >= settings.repairs /\ ~MayEscalate
    /\ pc' = "dry_run"
    /\ UNCHANGED <<settings, question, available, decision, made, scan, outcome, asked>>

-----------------------------------------------------------------------------
\* Dry runs.
\* Faulty variant: only what the primary model wrote is dry run.
UnprobedPrimary ==
    {i \in DOMAIN candidates : /\ candidates[i].valid
                               /\ candidates[i].dryRun = "untried"
                               /\ candidates[i].writer = decision.primary}

Unprobed == {i \in DOMAIN candidates : candidates[i].valid /\ candidates[i].dryRun = "untried"}

\* An ExecutionError, a transient fault included, invalidates the report.
RejectCandidate(i) ==
    candidates' = [candidates EXCEPT ![i].dryRun = "rejected", ![i].valid = FALSE]

\* The next valid candidate is bound against the database.  What is not an
\* ExecutionError, such as a connection that cannot be opened, is not caught.
DryRun ==
    /\ pc = "dry_run"
    /\ settings.dryRun
    /\ \E i \in Unprobed :
         /\ \A j \in Unprobed : i <= j
         /\ \/ /\ \/ \E bound \in {"ok", "unbound"} :
                       candidates' = [candidates EXCEPT ![i].dryRun = bound]
                  \/ RejectCandidate(i)
               /\ UNCHANGED <<pc, outcome>>
            \/ Finish("db_error", 0) /\ UNCHANGED candidates
    /\ UNCHANGED <<settings, question, available, decision, repairs, warned, scan, asked>>

DryRunsEnd ==
    /\ pc = "dry_run"
    /\ settings.dryRun => Unprobed = {}
    /\ pc' = "choose"
    /\ UNCHANGED <<settings, question, available, decision, made, scan, outcome, asked>>

-----------------------------------------------------------------------------
\* Selection.
VerdictScore(verdict) ==
    CASE verdict.by = Nobody -> Certain
      [] verdict.by # Nobody /\ verdict.agrees -> 2 * verdict.confidence
      [] OTHER -> 2 * (Certain - verdict.confidence)

DryRunScore(dryRun) ==
    CASE dryRun = "untried" -> Certain
      [] dryRun = "ok"      -> 2 * Certain
      [] OTHER              -> 0

Score(c) ==
    Weights.validation * (IF c.valid THEN 2 * Certain ELSE 0)
      + Weights.dryRun * DryRunScore(c.dryRun)
      + Weights.verifier * VerdictScore(c.verdict)
      + Weights.confidence * (2 * c.confidence)

\* Faulty variant: the last of equal scores wins.
BeatsOrTies(i) == best = 0 \/ Score(candidates[i]) >= Score(candidates[best])

Beats(i) == best = 0 \/ Score(candidates[i]) > Score(candidates[best])

\* Faulty variant: the loop does not skip invalid candidates.
ConsiderAny ==
    /\ pc = "choose"
    /\ scanned < Len(candidates)
    /\ scanned' = scanned + 1
    /\ best' = IF Beats(scanned + 1) THEN scanned + 1 ELSE best
    /\ UNCHANGED <<settings, question, available, pc, decision, made, outcome, asked>>

\* One turn of the loop of _choose.
Consider ==
    /\ pc = "choose"
    /\ scanned < Len(candidates)
    /\ scanned' = scanned + 1
    /\ best' = IF candidates[scanned + 1].valid /\ Beats(scanned + 1) THEN scanned + 1 ELSE best
    /\ UNCHANGED <<settings, question, available, pc, decision, made, outcome, asked>>

\* Faulty variant: the refusal looks at the last candidate, not at the winner.
ChosenByLast ==
    /\ pc = "choose"
    /\ scanned = Len(candidates)
    /\ IF ~Current.valid THEN Finish("refused", 0) ELSE pc' = "cost" /\ UNCHANGED outcome
    /\ UNCHANGED <<settings, question, available, decision, made, scan, asked>>

Chosen ==
    /\ pc = "choose"
    /\ scanned = Len(candidates)
    /\ IF best = 0 THEN Finish("refused", 0) ELSE pc' = "cost" /\ UNCHANGED outcome
    /\ UNCHANGED <<settings, question, available, decision, made, scan, asked>>

\* The ceiling is checked on the winner alone.  A disabled or failed estimate
\* passes.
CheckCost ==
    /\ pc = "cost"
    /\ Finish("selected", best) \/ Finish("too_expensive", 0)
    /\ UNCHANGED <<settings, question, available, decision, made, scan, asked>>

Over == pc = "done" /\ UNCHANGED vars

Next ==
    \/ Route \/ LocalModelBreaks \/ Generate \/ Repair \/ Escalate \/ Review \/ CrossCheck
    \/ Settle \/ DryRun \/ DryRunsEnd \/ Consider \/ Chosen \/ CheckCost \/ Over

Spec == Init /\ [][Next]_vars

-----------------------------------------------------------------------------
Selected == outcome.kind = "selected"
Winner   == candidates[outcome.winner]

\* The query that runs was accepted by the validator and, when dry runs are on,
\* went through one the database did not refuse, whichever model wrote it and
\* however late it joined the list (_dry_run_candidates, _choose).
WinnerWasVetted ==
    Selected => /\ outcome.winner \in DOMAIN candidates
                /\ Winner.valid /\ ~Winner.failed
                /\ settings.dryRun => Winner.dryRun \in {"ok", "unbound"}

\* No other query that stands scores higher than the one that runs, and none that
\* was written before it scores the same (the strict comparison of _choose).
BestSurvivorWins ==
    Selected => \A i \in DOMAIN candidates : candidates[i].valid =>
        /\ Score(candidates[i]) <= Score(Winner)
        /\ i < outcome.winner => Score(candidates[i]) < Score(Winner)

\* A question is refused only when no query stands, and after everything the
\* settings allow was tried: either every repair was spent and the second model, if
\* there is one to escalate to, also wrote, or the database refused a query that
\* validation had passed.
RefusalIsLastResort ==
    outcome.kind = "refused" =>
        /\ \A i \in DOMAIN candidates : ~candidates[i].valid
        /\ \/ \E i \in DOMAIN candidates : candidates[i].dryRun = "rejected"
           \/ /\ repairs = settings.repairs
              /\ (decision.verifier # Nobody /\ settings.escalate)
                    => \E i \in DOMAIN candidates : candidates[i].origin = "escalation"

\* However the attempts fail and follow one another, the model that writes is
\* called once and once per repair, and the other at most twice: to escalate, or to
\* review and then to cross check.
CallBudget ==
    /\ \A p \in Providers \ {decision.primary} : asked[p] <= 2
    /\ decision.primary # Nobody => asked[decision.primary] <= 1 + settings.repairs

\* A verdict is never the writer's own: "the model that did not write the query
\* checks it" (README.md), through routing, repair and review.
ReviewerDidNotWrite ==
    \A i \in DOMAIN candidates : candidates[i].verdict.by # candidates[i].writer

\* The caller is told that a second model was used because the first could not
\* produce a valid query exactly when the second model wrote what runs for that
\* reason, and then nothing the first wrote stands.
SecondModelWarningIsTrue ==
    Selected => /\ warned <=> Winner.origin = "escalation"
                /\ warned => \A i \in DOMAIN candidates :
                                candidates[i].valid => candidates[i].writer # decision.primary

\* The refinement mapping to the abstract choice.
Standing == [i \in DOMAIN candidates |-> candidates[i].valid]

Answer ==
    CASE outcome.kind = "pending"  -> 0
      [] outcome.kind = "selected" -> outcome.winner
      [] outcome.kind = "refused"  -> -1
      [] OTHER                     -> -2

Choice == INSTANCE SafeChoice WITH standing <- Standing, answer <- Answer

\* Routing, repairs, review and dry runs together implement the abstract choice:
\* no query stands again once rejected, and the question ends once.
ImplementsSafeChoice == Choice!Spec

\* README.md:21-23 says that the candidate that runs survived the review.  The
\* review only weighs in the score: a query the reviewer disagreed with can win.
WinnerSurvivedReview ==
    Selected => Winner.verdict.by = Nobody \/ Winner.verdict.agrees
=============================================================================
