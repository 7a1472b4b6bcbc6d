---------------------- MODULE CandidateSelectionProofs ----------------------
(***************************************************************************)
(* What holds of the choice of a query for all settings, all weights, all  *)
(* confidences and any number of repairs.  The first lemmas say what each  *)
(* kind of step does to the list of candidates; the invariants then only   *)
(* cite them.                                                              *)
(***************************************************************************)
EXTENDS CandidateSelection, SequenceTheorems, TLAPS

\* What _generate, _repair and _failed_candidate build is a candidate.
LEMMA CandidateTypes ==
  ASSUME NEW p \in Providers,
         NEW origin \in {"primary", "repair", "escalation", "cross_check"},
         NEW confidence \in 0..Certain, NEW valid \in BOOLEAN, NEW failed \in BOOLEAN
  PROVE  Candidate(p, origin, confidence, valid, failed) \in Candidates
<1>1. 0 \in 0..Certain
  BY SelectionAssumption
<1>2. NoVerdict \in Verdicts
  BY <1>1 DEF NoVerdict, Verdicts
<1>3. QED
  BY <1>2 DEF Candidate, Candidates

\* What one call to write a query does: a well formed candidate is appended and the
\* next stage begins, or the question ends without a query.
Appends(p, origin, next) ==
    \E c \in Candidates :
        /\ c.writer = p /\ c.origin = origin
        /\ c.verdict = NoVerdict /\ c.dryRun = "untried"
        /\ c.valid => ~c.failed
        /\ candidates' = Append(candidates, c)
        /\ pc' = next
        /\ outcome' = outcome

\* Writing appends one candidate that is untried and unreviewed, or ends the question.
LEMMA WriteEffect ==
  ASSUME TypeOK, NEW p \in Providers,
         NEW origin \in {"primary", "repair", "escalation", "cross_check"}, NEW next,
         Write(p, origin, next)
  PROVE  /\ \/ Appends(p, origin, next)
            \/ /\ pc' = "done"
               /\ outcome' = [kind |-> "no_tenant", winner |-> 0]
               /\ candidates' = candidates
         /\ asked' = [asked EXCEPT ![p] = @ + 1]
         /\ UNCHANGED <<settings, question, available, decision, scan>>
<1>1. ASSUME NEW confidence \in 0..Certain, NEW valid \in BOOLEAN, NEW failed \in BOOLEAN,
             valid => ~failed,
             candidates' = Append(candidates, Candidate(p, origin, confidence, valid, failed)),
             pc' = next, UNCHANGED outcome
      PROVE  Appends(p, origin, next)
  <2>1. Candidate(p, origin, confidence, valid, failed) \in Candidates
    BY CandidateTypes
  <2>2. QED
    BY <1>1, <2>1 DEF Appends, Candidate
<1>2. Certain \div 2 \in 0..Certain /\ Confidences \subseteq 0..Certain
  BY SelectionAssumption
<1>3. CASE Finish("no_tenant", 0) /\ UNCHANGED candidates
  BY <1>3 DEF Write, Asking, Finish
<1>4. QED
  BY <1>1, <1>2, <1>3 DEF Write, Asking, Written, Unwritten

\* Appending keeps every earlier candidate at its place.
LEMMA AppendEffect ==
  ASSUME TypeOK, NEW c \in Candidates, candidates' = Append(candidates, c)
  PROVE  /\ candidates' \in Seq(Candidates)
         /\ candidates' # <<>>
         /\ Len(candidates') = Len(candidates) + 1
         /\ DOMAIN candidates' = 1..(Len(candidates) + 1)
         /\ \A i \in 1..Len(candidates) : candidates'[i] = candidates[i]
         /\ candidates'[Len(candidates) + 1] = c
<1>1. candidates \in Seq(Candidates)
  BY DEF TypeOK
<1>2. QED
  BY <1>1, AppendProperties, LenProperties

\* Review and dry run replace one candidate by a revised one.
LEMMA ReviseEffect ==
  ASSUME TypeOK, NEW i \in DOMAIN candidates, NEW c \in Candidates,
         candidates' = [candidates EXCEPT ![i] = c]
  PROVE  /\ candidates' \in Seq(Candidates)
         /\ Len(candidates') = Len(candidates)
         /\ DOMAIN candidates' = 1..Len(candidates)
         /\ \A j \in DOMAIN candidates : candidates'[j] = IF j = i THEN c ELSE candidates[j]
<1>1. candidates \in Seq(Candidates) /\ i \in 1..Len(candidates)
  BY DEF TypeOK
<1>2. QED
  BY <1>1, ExceptSeq, LenProperties

-----------------------------------------------------------------------------
\* Where the question stands: who was chosen to write and to review, when there is
\* a candidate to look at, and that the question has ended exactly when it is done.
RoutingInv ==
    /\ (pc = "route" \/ outcome.kind = "unavailable")
         => decision.primary = Nobody /\ decision.verifier = Nobody
    /\ (pc # "route" /\ outcome.kind # "unavailable") => decision.primary \in Providers
    /\ decision.primary # Nobody => decision.verifier # decision.primary
    /\ pc \in {"route", "generate"} => candidates = <<>>
    /\ pc \in {"decide", "cross_check", "dry_run", "choose", "cost"} => candidates # <<>>
    /\ pc = "cross_check" => decision.verifier # Nobody
    /\ pc = "done" <=> outcome.kind # "pending"

Core == TypeOK /\ RoutingInv

\* The router picks an existing provider, and never the same one twice.
LEMMA RouteChoice ==
  ASSUME NEW s \in AllSettings, NEW q \in Questions, NEW up \in [Providers -> BOOLEAN]
  PROVE  /\ PrimaryFor(s, q, up) \in Providers
         /\ VerifierFor(s, q, up) \in Providers \cup {Nobody}
         /\ VerifierFor(s, q, up) # PrimaryFor(s, q, up)
<1>1. /\ PrimaryFor(s, q, up) \in {Local, Azure}
      /\ Local # Azure /\ Nobody # Local /\ Nobody # Azure
  BY DEF PrimaryFor, AllSettings, Providers, Local, Azure, Nobody
<1>2. \/ VerifierFor(s, q, up) = Nobody
      \/ VerifierFor(s, q, up) = Azure /\ PrimaryFor(s, q, up) = Local
      \/ VerifierFor(s, q, up) = Local /\ PrimaryFor(s, q, up) = Azure
  BY DEF VerifierFor
<1>3. QED
  BY <1>1, <1>2 DEF Providers

\* The last candidate exists from the first generation on.
LEMMA CurrentExists ==
  ASSUME TypeOK, candidates # <<>>
  PROVE  /\ Len(candidates) \in DOMAIN candidates
         /\ DOMAIN candidates = 1..Len(candidates)
         /\ Current \in Candidates
<1>1. candidates \in Seq(Candidates)
  BY DEF TypeOK
<1>2. QED
  BY <1>1, LenProperties, EmptySeq DEF Current

\* A review revises the last candidate's verdict and nothing else.
LEMMA ReviewEffect ==
  ASSUME Core, Review
  PROVE  \E v \in Verdicts :
           /\ v.by \in {Nobody, decision.verifier}
           /\ candidates' = [candidates EXCEPT ![Len(candidates)] = [Current EXCEPT !.verdict = v]]
           /\ [Current EXCEPT !.verdict = v] \in Candidates
           /\ pc' = IF v.by # Nobody /\ ~v.agrees /\ settings.crossGenerate
                    THEN "cross_check" ELSE "dry_run"
           /\ \/ asked' = asked
              \/ asked' = [asked EXCEPT ![decision.verifier] = @ + 1]
<1>1. /\ Len(candidates) \in DOMAIN candidates
      /\ Current \in Candidates
      /\ decision.verifier \in Providers
      /\ 0 \in 0..Certain /\ Confidences \subseteq 0..Certain
  BY CurrentExists, SelectionAssumption
     DEF Core, TypeOK, RoutingInv, Review, ShouldVerify, Decisions
<1>2. ASSUME NEW v \in Verdicts, v.by \in {Nobody, decision.verifier}, Reviewed(v)
      PROVE  /\ candidates' = [candidates EXCEPT ![Len(candidates)] = [Current EXCEPT !.verdict = v]]
             /\ [Current EXCEPT !.verdict = v] \in Candidates
             /\ pc' = IF v.by # Nobody /\ ~v.agrees /\ settings.crossGenerate
                      THEN "cross_check" ELSE "dry_run"
  BY <1>1, <1>2 DEF Reviewed, Current, Candidates
<1>3. NoVerdict \in Verdicts /\ NoVerdict.by = Nobody
  BY <1>1 DEF NoVerdict, Verdicts
<1>4. ASSUME NEW agrees \in BOOLEAN, NEW confidence \in Confidences
      PROVE  LET v == [by |-> decision.verifier, agrees |-> agrees, confidence |-> confidence]
             IN  v \in Verdicts /\ v.by = decision.verifier
  BY <1>1 DEF Verdicts
<1>5. CASE Reviewed(NoVerdict) /\ (asked' = asked \/ Asking(decision.verifier))
  BY <1>2, <1>3, <1>5 DEF Asking
<1>6. CASE Asking(decision.verifier) /\ \E agrees \in BOOLEAN, confidence \in Confidences :
             Reviewed([by |-> decision.verifier, agrees |-> agrees, confidence |-> confidence])
  BY <1>2, <1>4, <1>6 DEF Asking
<1>7. QED
  BY <1>5, <1>6 DEF Review

\* A dry run notes its outcome on one candidate that still stands, and takes it out
\* when the database refused it; or the question ends with a database error.
LEMMA DryRunEffect ==
  ASSUME Core, DryRun
  PROVE  \/ \E i \in Unprobed, c \in Candidates :
              /\ candidates' = [candidates EXCEPT ![i] = c]
              /\ \/ c = [candidates[i] EXCEPT !.dryRun = "ok"]
                 \/ c = [candidates[i] EXCEPT !.dryRun = "unbound"]
                 \/ c = [candidates[i] EXCEPT !.dryRun = "rejected", !.valid = FALSE]
              /\ UNCHANGED <<pc, outcome>>
         \/ /\ candidates' = candidates
            /\ pc' = "done"
            /\ outcome' = [kind |-> "db_error", winner |-> 0]
<1>1. candidates \in Seq(Candidates)
  BY DEF Core, TypeOK
<1>2. ASSUME NEW i \in Unprobed, NEW bound \in {"ok", "unbound"},
             candidates' = [candidates EXCEPT ![i].dryRun = bound]
      PROVE  /\ [candidates[i] EXCEPT !.dryRun = bound] \in Candidates
             /\ candidates' = [candidates EXCEPT ![i] = [candidates[i] EXCEPT !.dryRun = bound]]
  <2>1. candidates[i] \in Candidates
    BY <1>1, ElementOfSeq, LenProperties DEF Unprobed
  <2>2. QED
    BY <1>2, <2>1 DEF Candidates
<1>3. ASSUME NEW i \in Unprobed, RejectCandidate(i)
      PROVE  LET c == [candidates[i] EXCEPT !.dryRun = "rejected", !.valid = FALSE]
             IN  c \in Candidates /\ candidates' = [candidates EXCEPT ![i] = c]
  <2>1. candidates[i] \in Candidates /\ i \in DOMAIN candidates
    BY <1>1, ElementOfSeq, LenProperties DEF Unprobed
  <2>2. [candidates[i] EXCEPT !.dryRun = "rejected", !.valid = FALSE] \in Candidates
    BY <2>1 DEF Candidates
  <2>3. candidates' = [candidates EXCEPT
            ![i] = [candidates[i] EXCEPT !.dryRun = "rejected", !.valid = FALSE]]
    BY <1>1, <1>3, <2>1 DEF RejectCandidate
  <2>4. QED
    BY <2>2, <2>3
<1>4. PICK i \in Unprobed :
        \/ /\ \/ \E bound \in {"ok", "unbound"} :
                   candidates' = [candidates EXCEPT ![i].dryRun = bound]
              \/ RejectCandidate(i)
           /\ UNCHANGED <<pc, outcome>>
        \/ Finish("db_error", 0) /\ UNCHANGED candidates
  BY DEF DryRun
<1>5. QED
  BY <1>2, <1>3, <1>4 DEF Finish

\* The variables keep their types, and the question keeps its stage in order.
LEMMA CoreInductive == Core /\ [Next]_vars => Core'
<1> SUFFICES ASSUME Core, [Next]_vars
             PROVE  Core'
  OBVIOUS
<1> USE DEF Core
<1>1. /\ candidates \in Seq(Candidates)
      /\ Len(candidates) \in Nat
      /\ decision \in Decisions
      /\ asked \in [Providers -> Nat]
      /\ settings \in AllSettings
      /\ Nobody \notin Providers
      /\ decision.primary # Nobody => decision.primary \in Providers
      /\ decision.verifier # Nobody => decision.verifier \in Providers
  BY SelectionAssumption, LenProperties
     DEF TypeOK, Decisions, Providers, Nobody, Local, Azure
<1>2. ASSUME NEW p \in Providers, asked' = [asked EXCEPT ![p] = @ + 1]
      PROVE  asked' \in [Providers -> Nat]
  BY <1>1, <1>2
<1>3. ASSUME NEW p \in Providers,
             NEW origin \in {"primary", "repair", "escalation", "cross_check"},
             NEW next \in {"decide", "dry_run"}, Write(p, origin, next),
             pc \in {"generate", "decide", "cross_check"},
             repairs' \in 0..settings.repairs, warned' \in BOOLEAN
      PROVE  Core'
  <2>1. /\ \/ Appends(p, origin, next)
           \/ /\ pc' = "done"
              /\ outcome' = [kind |-> "no_tenant", winner |-> 0]
              /\ candidates' = candidates
        /\ asked' = [asked EXCEPT ![p] = @ + 1]
        /\ UNCHANGED <<settings, question, available, decision, scan>>
    BY <1>3, WriteEffect
  <2>2. /\ candidates' \in Seq(Candidates)
        /\ scanned' \in 0..Len(candidates')
        /\ pc' # "done" => candidates' # <<>>
    <3>1. CASE Appends(p, origin, next)
      BY <1>1, <2>1, <3>1, AppendEffect DEF Appends, TypeOK, scan
    <3>2. CASE candidates' = candidates /\ pc' = "done"
      BY <1>1, <2>1, <3>2 DEF TypeOK, scan
    <3>3. QED
      BY <2>1, <3>1, <3>2
  <2>3. TypeOK'
    BY <1>2, <1>3, <2>1, <2>2
       DEF TypeOK, Appends, scan, Stages, Outcomes, Endings
  <2>4. RoutingInv'
    BY <1>3, <2>1, <2>2 DEF RoutingInv, Appends
  <2>5. QED
    BY <2>3, <2>4
<1>4. ASSUME Route
      PROVE  Core'
  <2>1. CASE Finish("unavailable", 0) /\ UNCHANGED decision
    BY <1>1, <1>4, <2>1
       DEF Route, Finish, TypeOK, RoutingInv, made, scan, Stages, Outcomes, Endings
  <2>2. CASE /\ decision' = [primary  |-> PrimaryFor(settings, question, available),
                             verifier |-> VerifierFor(settings, question, available)]
             /\ pc' = "generate"
             /\ UNCHANGED outcome
    <3>1. /\ decision'.primary \in Providers
          /\ decision'.verifier \in Providers \cup {Nobody}
          /\ decision'.verifier # decision'.primary
          /\ decision' \in Decisions
      BY <1>1, <2>2, RouteChoice DEF TypeOK, Decisions
    <3>2. QED
      BY <1>1, <1>4, <2>2, <3>1 DEF Route, TypeOK, RoutingInv, made, scan, Stages, Outcomes
  <2>3. QED
    BY <1>4, <2>1, <2>2 DEF Route
<1>5. ASSUME LocalModelBreaks
      PROVE  Core'
  BY <1>1, <1>5 DEF LocalModelBreaks, TypeOK, RoutingInv, made, scan, Providers
<1>6. ASSUME Generate
      PROVE  Core'
  BY <1>1, <1>3, <1>6 DEF Generate, TypeOK, RoutingInv
<1>7. ASSUME Repair
      PROVE  Core'
  <2>1. repairs' \in 0..settings.repairs
    BY <1>1, <1>7 DEF Repair, TypeOK, AllSettings
  <2>2. decision.primary \in Providers
    BY <1>1, <1>7 DEF Repair, RoutingInv
  <2>3. QED
    BY <1>3, <1>7, <2>1, <2>2 DEF Repair, TypeOK
<1>8. ASSUME Escalate
      PROVE  Core'
  BY <1>1, <1>3, <1>8 DEF Escalate, MayEscalate, TypeOK
<1>9. ASSUME Review
      PROVE  Core'
  <2>1. PICK v \in Verdicts :
           /\ candidates' = [candidates EXCEPT ![Len(candidates)] = [Current EXCEPT !.verdict = v]]
           /\ [Current EXCEPT !.verdict = v] \in Candidates
           /\ pc' \in {"cross_check", "dry_run"}
           /\ \/ asked' = asked
              \/ asked' = [asked EXCEPT ![decision.verifier] = @ + 1]
    BY <1>9, ReviewEffect
  <2>2. /\ candidates # <<>>
        /\ decision.verifier \in Providers
        /\ Len(candidates) \in DOMAIN candidates
    BY <1>1, <1>9, CurrentExists DEF Review, ShouldVerify, RoutingInv
  <2>3. candidates' \in Seq(Candidates) /\ Len(candidates') = Len(candidates)
    BY <2>1, <2>2, ReviseEffect
  <2>4. candidates' # <<>>
    BY <1>1, <2>2, <2>3, EmptySeq, LenProperties
  <2>5. asked' \in [Providers -> Nat]
    BY <1>1, <1>2, <2>1, <2>2
  <2>6. QED
    BY <1>1, <1>9, <2>1, <2>2, <2>3, <2>4, <2>5 DEF Review, TypeOK, RoutingInv, scan, Stages
<1>10. ASSUME CrossCheck
       PROVE  Core'
  BY <1>1, <1>3, <1>10 DEF CrossCheck, TypeOK, RoutingInv
<1>11. ASSUME DryRun
       PROVE  Core'
  <2>1. CASE /\ candidates' = candidates
             /\ pc' = "done"
             /\ outcome' = [kind |-> "db_error", winner |-> 0]
    BY <1>1, <1>11, <2>1 DEF DryRun, TypeOK, RoutingInv, scan, Stages, Outcomes, Endings
  <2>2. CASE \E i \in Unprobed, c \in Candidates :
               candidates' = [candidates EXCEPT ![i] = c] /\ UNCHANGED <<pc, outcome>>
    <3>1. PICK i \in Unprobed, c \in Candidates :
            candidates' = [candidates EXCEPT ![i] = c] /\ UNCHANGED <<pc, outcome>>
      BY <2>2
    <3>2. candidates' \in Seq(Candidates) /\ Len(candidates') = Len(candidates)
      BY <3>1, ReviseEffect DEF Unprobed
    <3>3. candidates # <<>> /\ candidates' # <<>>
      BY <1>1, <1>11, <3>2, EmptySeq, LenProperties DEF DryRun, RoutingInv
    <3>4. QED
      BY <1>11, <3>1, <3>2, <3>3 DEF DryRun, TypeOK, RoutingInv, scan
  <2>3. QED
    BY <1>11, <2>1, <2>2, DryRunEffect
<1>12. ASSUME DryRunsEnd
       PROVE  Core'
  BY <1>1, <1>12 DEF DryRunsEnd, TypeOK, RoutingInv, made, scan, Stages
<1>13. ASSUME Consider
       PROVE  Core'
  BY <1>1, <1>13 DEF Consider, TypeOK, RoutingInv, made
<1>14. ASSUME Chosen
       PROVE  Core'
  BY <1>1, <1>14
     DEF Chosen, Finish, TypeOK, RoutingInv, made, scan, Stages, Outcomes, Endings
<1>15. ASSUME CheckCost
       PROVE  Core'
  BY <1>1, <1>15
     DEF CheckCost, Finish, TypeOK, RoutingInv, made, scan, Stages, Outcomes, Endings
<1>16. ASSUME Settle
       PROVE  Core'
  BY <1>1, <1>16 DEF Settle, TypeOK, RoutingInv, made, scan, Stages
<1>17. CASE Over \/ UNCHANGED vars
  BY <1>17 DEF Over, TypeOK, RoutingInv, vars, made, scan
<1>18. QED
  BY <1>4, <1>5, <1>6, <1>7, <1>8, <1>9, <1>10, <1>11, <1>12, <1>13, <1>14, <1>15, <1>16, <1>17
     DEF Next

\* The inductive core: types, and which stage may follow what.
LEMMA CoreInvariant == Spec => []Core
<1>1. Init => Core
  <2> SUFFICES ASSUME Init
               PROVE  Core
    OBVIOUS
  <2>1. /\ settings.repairs \in Nat
        /\ decision \in Decisions
        /\ outcome \in Outcomes /\ outcome.kind = "pending"
    BY SelectionAssumption DEF Init, AllSettings, Decisions, Outcomes, Pending
  <2>2. candidates \in Seq(Candidates) /\ 0 \in 0..Len(candidates)
    BY EmptySeq DEF Init
  <2>3. TypeOK
    <3>1. /\ settings \in Settings /\ question \in Questions
          /\ available \in [Providers -> BOOLEAN]
          /\ pc \in Stages /\ warned \in BOOLEAN
      BY DEF Init, Stages
    <3>2. repairs \in 0..settings.repairs /\ scanned = 0 /\ best \in 0..scanned
      BY <2>1 DEF Init
    <3>3. asked \in [Providers -> Nat]
      BY DEF Init
    <3>4. QED
      BY <2>1, <2>2, <3>1, <3>2, <3>3 DEF TypeOK
  <2>4. RoutingInv
    BY <2>1 DEF Init, RoutingInv
  <2>5. QED
    BY <2>3, <2>4 DEF Core
<1>2. QED
  BY <1>1, CoreInductive, PTL DEF Spec

\* Every variable keeps its type: no loop of produce() runs past its limit.
THEOREM TypeCorrect == Spec => []TypeOK
<1>1. Core => TypeOK
  BY DEF Core
<1>2. QED
  BY <1>1, CoreInvariant, PTL

-----------------------------------------------------------------------------
\* The first model is called once and once per repair, the second not at all while
\* the first one still writes and at most once before a cross check.
CallInv ==
    /\ decision.primary # Nobody =>
         asked[decision.primary] <= repairs + (IF pc = "generate" THEN 0 ELSE 1)
    /\ \A p \in Providers \ {decision.primary} :
         asked[p] <= CASE pc \in {"route", "generate", "decide"} -> 0
                       [] pc = "cross_check" -> 1
                       [] OTHER -> 2

\* The number of model calls stays within its budget however attempts fail (the
\* loop and the branches of SQLVerifier.produce).
THEOREM CallBudgetHolds == Spec => []CallBudget
<1>1. Init => CallInv
  BY DEF Init, CallInv
<1>2. Core /\ CallInv /\ [Next]_vars => CallInv'
  <2> SUFFICES ASSUME Core, CallInv, [Next]_vars
               PROVE  CallInv'
    OBVIOUS
  <2>1. /\ asked \in [Providers -> Nat]
        /\ repairs \in Nat
        /\ decision.primary # Nobody => decision.primary \in Providers
        /\ decision.verifier # Nobody => decision.verifier \in Providers
        /\ decision.verifier = Nobody \/ decision.verifier # decision.primary
        /\ (pc # "route" /\ outcome.kind # "unavailable") => decision.primary # Nobody
        /\ pc = "done" <=> outcome.kind # "pending"
    BY SelectionAssumption
       DEF Core, TypeOK, RoutingInv, Decisions, AllSettings, Providers, Nobody, Local, Azure
  <2>2. ASSUME NEW p \in Providers,
               NEW origin \in {"primary", "repair", "escalation", "cross_check"},
               NEW next \in {"decide", "dry_run"}, Write(p, origin, next)
        PROVE  /\ asked' = [asked EXCEPT ![p] = @ + 1]
               /\ pc' \in {next, "done"}
               /\ decision' = decision
    BY <2>2, WriteEffect DEF Core, Appends
  <2>3. CASE Route
    <3>1. \A p \in Providers : asked[p] = 0
      BY <2>1, <2>3 DEF Route, CallInv, RoutingInv, Core, Providers, Nobody, Local, Azure
    <3>2. /\ asked' = asked /\ repairs' = repairs
          /\ pc' \in {"generate", "done"}
          /\ decision'.primary # Nobody => decision'.primary \in Providers
      BY <2>1, <2>3, CoreInductive DEF Route, Finish, made, Core, TypeOK, Decisions
    <3>3. QED
      BY <2>1, <3>1, <3>2, <2>3 DEF CallInv, Route, Finish
  <2>4. CASE Generate
    BY <2>1, <2>2, <2>4 DEF Generate, CallInv
  <2>5. CASE Repair
    BY <2>1, <2>2, <2>5 DEF Repair, CallInv
  <2>6. CASE Escalate
    BY <2>1, <2>2, <2>6 DEF Escalate, MayEscalate, CallInv
  <2>7. CASE Review
    <3>1. /\ \/ asked' = asked
             \/ asked' = [asked EXCEPT ![decision.verifier] = @ + 1]
          /\ pc' \in {"cross_check", "dry_run"}
          /\ UNCHANGED <<decision, repairs>>
          /\ pc = "decide" /\ decision.verifier # Nobody
      BY <2>7, ReviewEffect DEF Review, ShouldVerify
    <3>2. QED
      BY <2>1, <3>1 DEF CallInv
  <2>8. CASE CrossCheck
    BY <2>1, <2>2, <2>8 DEF CrossCheck, CallInv, RoutingInv, Core
  <2>9. CASE DryRun
    <3>1. pc = "dry_run" /\ pc' \in {"dry_run", "done"}
      BY <2>9, DryRunEffect DEF DryRun
    <3>2. QED
      BY <2>1, <2>9, <3>1 DEF DryRun, CallInv
  <2>10. CASE LocalModelBreaks \/ Settle \/ DryRunsEnd \/ Consider \/ Chosen \/ CheckCost
              \/ Over \/ UNCHANGED vars
    BY <2>1, <2>10 DEF LocalModelBreaks, Settle, DryRunsEnd, Consider, Chosen, CheckCost,
                       Over, Finish, CallInv, vars, made
  <2>11. QED
    BY <2>3, <2>4, <2>5, <2>6, <2>7, <2>8, <2>9, <2>10 DEF Next
<1>3. Core /\ CallInv => CallBudget
  <2> SUFFICES ASSUME Core, CallInv
               PROVE  CallBudget
    OBVIOUS
  <2>1. /\ asked \in [Providers -> Nat]
        /\ repairs \in Nat /\ settings.repairs \in Nat /\ repairs <= settings.repairs
        /\ decision.primary # Nobody => decision.primary \in Providers
    BY SelectionAssumption DEF Core, TypeOK, AllSettings, Decisions
  <2>2. QED
    BY <2>1 DEF CallInv, CallBudget
<1>4. QED
  BY <1>1, <1>2, <1>3, CoreInvariant, PTL DEF Spec

-----------------------------------------------------------------------------
\* Who wrote and who judged each candidate: a candidate that stands was really
\* written and no dry run refused it, the first model wrote everything until the
\* repairs were spent, and only its queries are reviewed, by the other model.
WriterInv ==
    /\ \A i \in DOMAIN candidates :
         LET c == candidates[i] IN
         /\ c.valid => ~c.failed /\ c.dryRun # "rejected"
         /\ c.origin \in {"primary", "repair"} => c.writer = decision.primary
         /\ c.origin \in {"escalation", "cross_check"} => c.writer = decision.verifier
         /\ c.verdict.by # Nobody
              => c.verdict.by = decision.verifier /\ c.writer = decision.primary
    /\ pc = "decide" => \A i \in DOMAIN candidates : candidates[i].origin \in {"primary", "repair"}

\* Who wrote what: the origin of a candidate tells its writer, and a verdict is the
\* verifier's on what the primary model wrote.
LEMMA WriterInvariant == Spec => []WriterInv
<1>1. Init => WriterInv
  BY EmptySeq DEF Init, WriterInv
<1>2. Core /\ WriterInv /\ [Next]_vars => WriterInv'
  <2> SUFFICES ASSUME Core, WriterInv, [Next]_vars
               PROVE  WriterInv'
    OBVIOUS
  <2>1. TypeOK /\ DOMAIN candidates = 1..Len(candidates) /\ Len(candidates) \in Nat
    BY LenProperties DEF Core, TypeOK
  <2>2. ASSUME NEW p \in Providers,
               NEW origin \in {"primary", "repair", "escalation", "cross_check"},
               NEW next \in {"decide", "dry_run"}, Write(p, origin, next),
               p = IF origin \in {"primary", "repair"} THEN decision.primary
                   ELSE decision.verifier,
               next = "decide" => origin \in {"primary", "repair"},
               pc # "decide" => next # "decide" \/ candidates = <<>>
        PROVE  WriterInv'
    <3>1. /\ \/ Appends(p, origin, next)
             \/ candidates' = candidates /\ pc' = "done"
          /\ decision' = decision
      <4>1. Write(p, origin, next)
        BY <2>2
      <4>2. QED
        BY <2>1, <4>1, WriteEffect
    <3>2. CASE candidates' = candidates /\ pc' = "done"
      BY <3>1, <3>2 DEF WriterInv
    <3>3. CASE Appends(p, origin, next)
      <4>1. PICK c \in Candidates :
              /\ c.writer = p /\ c.origin = origin
              /\ c.verdict = NoVerdict /\ c.dryRun = "untried"
              /\ c.valid => ~c.failed
              /\ candidates' = Append(candidates, c)
              /\ pc' = next
        BY <3>3 DEF Appends
      <4>2. /\ DOMAIN candidates' = 1..(Len(candidates) + 1)
            /\ \A i \in 1..Len(candidates) : candidates'[i] = candidates[i]
            /\ candidates'[Len(candidates) + 1] = c
        BY <2>1, <4>1, AppendEffect
      <4>3. c.verdict.by = Nobody
        BY <4>1 DEF NoVerdict
      <4>4. candidates = <<>> => Len(candidates) = 0
        BY EmptySeq
      <4>5. /\ c.origin \in {"primary", "repair"} => c.writer = decision.primary
            /\ c.origin \in {"escalation", "cross_check"} => c.writer = decision.verifier
            /\ c.valid => ~c.failed /\ c.dryRun # "rejected"
        BY <2>2, <4>1
      <4>6. ASSUME pc' = "decide", NEW i \in 1..Len(candidates)
            PROVE  candidates[i].origin \in {"primary", "repair"}
        BY <2>1, <2>2, <4>1, <4>4, <4>6 DEF WriterInv
      <4>7. pc' = "decide" => c.origin \in {"primary", "repair"}
        BY <2>2, <4>1
      <4>8. QED
        BY <2>1, <3>1, <4>2, <4>3, <4>5, <4>6, <4>7 DEF WriterInv
    <3>4. QED
      BY <3>1, <3>2, <3>3
  <2>3. CASE Route
    BY <2>1, <2>3, EmptySeq DEF Route, Finish, WriterInv, RoutingInv, Core, made
  <2>4. CASE Generate
    BY <2>1, <2>2, <2>4 DEF Generate, Core, RoutingInv, TypeOK, Outcomes, Endings
  <2>5. CASE Repair
    BY <2>1, <2>2, <2>5 DEF Repair, Core, RoutingInv, TypeOK, Outcomes, Endings
  <2>6. CASE Escalate
    BY <2>1, <2>2, <2>6 DEF Escalate, MayEscalate, TypeOK, Decisions
  <2>7. CASE CrossCheck
    BY <2>1, <2>2, <2>7 DEF CrossCheck, Core, RoutingInv, TypeOK, Decisions
  <2>8. CASE Review
    <3>1. PICK v \in Verdicts :
           /\ v.by \in {Nobody, decision.verifier}
           /\ candidates' = [candidates EXCEPT ![Len(candidates)] = [Current EXCEPT !.verdict = v]]
           /\ [Current EXCEPT !.verdict = v] \in Candidates
           /\ pc' \in {"cross_check", "dry_run"}
      BY <2>8, ReviewEffect
    <3>2. Len(candidates) \in DOMAIN candidates /\ Current \in Candidates
      BY <2>1, <2>8, CurrentExists DEF Review, Core, RoutingInv
    <3>3. /\ DOMAIN candidates' = DOMAIN candidates
          /\ \A j \in DOMAIN candidates :
               candidates'[j] = IF j = Len(candidates) THEN [Current EXCEPT !.verdict = v]
                                ELSE candidates[j]
      BY <2>1, <3>1, <3>2, ReviseEffect
    <3>4. pc = "decide" /\ decision' = decision
      BY <2>8 DEF Review
    <3>5. LET c == [Current EXCEPT !.verdict = v] IN
            /\ c.valid = Current.valid /\ c.failed = Current.failed
            /\ c.dryRun = Current.dryRun /\ c.origin = Current.origin
            /\ c.writer = Current.writer /\ c.verdict = v
      BY <3>2 DEF Candidates
    <3>6. QED
      BY <3>1, <3>2, <3>3, <3>4, <3>5 DEF WriterInv, Current
  <2>9. CASE DryRun
    <3>1. decision' = decision /\ pc' # "decide"
      BY <2>9, DryRunEffect DEF DryRun
    <3>2. CASE candidates' = candidates
      BY <3>1, <3>2 DEF WriterInv
    <3>3. ASSUME NEW i \in Unprobed, NEW c \in Candidates,
                 candidates' = [candidates EXCEPT ![i] = c],
                 \/ c = [candidates[i] EXCEPT !.dryRun = "ok"]
                 \/ c = [candidates[i] EXCEPT !.dryRun = "unbound"]
                 \/ c = [candidates[i] EXCEPT !.dryRun = "rejected", !.valid = FALSE]
          PROVE  WriterInv'
      <4>1. i \in DOMAIN candidates /\ candidates[i] \in Candidates
        BY <2>1, ElementOfSeq DEF Unprobed, TypeOK
      <4>2. /\ DOMAIN candidates' = DOMAIN candidates
            /\ \A j \in DOMAIN candidates :
                 candidates'[j] = IF j = i THEN c ELSE candidates[j]
        BY <2>1, <3>3, <4>1, ReviseEffect
      <4>3. /\ c.valid => candidates[i].valid /\ c.dryRun # "rejected"
            /\ c.failed = candidates[i].failed /\ c.origin = candidates[i].origin
            /\ c.writer = candidates[i].writer /\ c.verdict = candidates[i].verdict
        BY <3>3, <4>1 DEF Candidates
      <4>4. QED
        BY <3>1, <4>1, <4>2, <4>3 DEF WriterInv
    <3>4. QED
      BY <2>9, <3>2, <3>3, DryRunEffect
  <2>10. CASE LocalModelBreaks \/ Settle \/ DryRunsEnd \/ Consider \/ Chosen \/ CheckCost
              \/ Over \/ UNCHANGED vars
    BY <2>10 DEF LocalModelBreaks, Settle, DryRunsEnd, Consider, Chosen, CheckCost,
                 Over, Finish, WriterInv, vars, made
  <2>11. QED
    BY <2>3, <2>4, <2>5, <2>6, <2>7, <2>8, <2>9, <2>10 DEF Next
<1>3. QED
  BY <1>1, <1>2, CoreInvariant, PTL DEF Spec

\* No model judges its own query: routing never picks the same model twice, and a
\* verdict is given only while the first model's query is the current one.
THEOREM ReviewerDidNotWriteHolds == Spec => []ReviewerDidNotWrite
<1>1. Core /\ WriterInv => ReviewerDidNotWrite
  <2> SUFFICES ASSUME Core, WriterInv, NEW i \in DOMAIN candidates
               PROVE  candidates[i].verdict.by # candidates[i].writer
    BY DEF ReviewerDidNotWrite
  <2>1. candidates[i].writer \in Providers
    <3>1. candidates \in Seq(Candidates)
      BY DEF Core, TypeOK
    <3>2. candidates[i] \in Candidates
      BY <3>1, ElementOfSeq, LenProperties
    <3>3. QED
      BY <3>2 DEF Candidates
  <2>2. CASE candidates[i].verdict.by = Nobody
    BY <2>1, <2>2 DEF Providers, Nobody, Local, Azure
  <2>3. CASE candidates[i].verdict.by # Nobody
    BY <2>1, <2>3 DEF WriterInv, Core, RoutingInv, Providers, Nobody, Local, Azure
  <2>4. QED
    BY <2>2, <2>3
<1>2. QED
  BY <1>1, CoreInvariant, WriterInvariant, PTL

-----------------------------------------------------------------------------
\* Scores are integers, so that they can be compared.
LEMMA ScoreIsInteger ==
  ASSUME NEW c \in Candidates
  PROVE  Score(c) \in Int
<1>1. /\ Weights.validation \in Int /\ Weights.dryRun \in Int
      /\ Weights.verifier \in Int /\ Weights.confidence \in Int
      /\ Certain \in Int
  BY SelectionAssumption
<1>2. c.confidence \in Int /\ c.verdict.confidence \in Int
  BY <1>1 DEF Candidates, Verdicts
<1>3. VerdictScore(c.verdict) \in Int
  <2>1. \/ VerdictScore(c.verdict) = Certain
        \/ VerdictScore(c.verdict) = 2 * c.verdict.confidence
        \/ VerdictScore(c.verdict) = 2 * (Certain - c.verdict.confidence)
    BY DEF VerdictScore
  <2>2. QED
    BY <1>1, <1>2, <2>1
<1>4. DryRunScore(c.dryRun) \in Int
  BY <1>1 DEF DryRunScore
<1>5. (IF c.valid THEN 2 * Certain ELSE 0) \in Int
  BY <1>1
<1>6. \A x, y \in Int : x * y \in Int /\ x + y \in Int
  OBVIOUS
<1>7. QED
  BY <1>1, <1>2, <1>3, <1>4, <1>5, <1>6 DEF Score

\* The best of the first n candidates, as the loop of _choose should leave it.
BestOfFirst(n) ==
    /\ best = 0 => \A i \in 1..n : ~candidates[i].valid
    /\ best # 0 =>
         /\ candidates[best].valid
         /\ \A i \in 1..n : candidates[i].valid =>
              /\ Score(candidates[i]) <= Score(candidates[best])
              /\ i < best => Score(candidates[i]) < Score(candidates[best])

\* Nothing is scanned before the dry runs are over, and from then on no standing
\* candidate is left without one; the scan keeps the best so far.
ChoiceInv ==
    /\ pc \in {"route", "generate", "decide", "cross_check", "dry_run"} => scanned = 0 /\ best = 0
    /\ (pc \in {"choose", "cost"} \/ Selected) /\ settings.dryRun =>
         \A i \in DOMAIN candidates : candidates[i].valid => candidates[i].dryRun # "untried"
    /\ BestOfFirst(scanned)
    /\ (pc = "cost" \/ outcome.kind \in {"selected", "refused"}) => scanned = Len(candidates)
    /\ pc = "cost" => best # 0
    /\ Selected => outcome.winner = best /\ best # 0
    /\ outcome.kind = "refused" => best = 0

\* The candidate _choose holds as its best is the first of the highest scores among
\* the standing ones it has looked at, and nothing it looked at changes any more.
LEMMA ChoiceInvariant == Spec => []ChoiceInv
<1>1. Init => ChoiceInv
  BY DEF Init, ChoiceInv, BestOfFirst, Selected, Pending
<1>2. Core /\ ChoiceInv /\ [Next]_vars => ChoiceInv'
  <2> SUFFICES ASSUME Core, ChoiceInv, [Next]_vars
               PROVE  ChoiceInv'
    OBVIOUS
  <2>1. /\ candidates \in Seq(Candidates)
        /\ DOMAIN candidates = 1..Len(candidates) /\ Len(candidates) \in Nat
        /\ \A i \in 1..Len(candidates) : Score(candidates[i]) \in Int
        /\ scanned \in 0..Len(candidates) /\ best \in 0..scanned
        /\ pc = "done" <=> outcome.kind # "pending"
    <3>1. candidates \in Seq(Candidates)
      BY DEF Core, TypeOK
    <3>2. \A i \in 1..Len(candidates) : candidates[i] \in Candidates
      BY <3>1, ElementOfSeq
    <3>3. QED
      BY <3>1, <3>2, LenProperties, ScoreIsInteger DEF Core, TypeOK, RoutingInv
  \* Before the scan, and when it is cut short, there is nothing to compare.
  <2>2. ASSUME scanned' = 0, best' = 0,
               pc' \in {"generate", "decide", "cross_check", "dry_run", "done"},
               outcome'.kind \in {"pending", "unavailable", "no_tenant", "db_error"}
        PROVE  ChoiceInv'
    BY <2>2 DEF ChoiceInv, BestOfFirst, Selected
  <2>3. ASSUME NEW p \in Providers,
               NEW origin \in {"primary", "repair", "escalation", "cross_check"},
               NEW next \in {"decide", "dry_run"}, Write(p, origin, next),
               pc \in {"generate", "decide", "cross_check"}
        PROVE  ChoiceInv'
    <3>1. /\ pc' \in {next, "done"}
          /\ outcome' = outcome \/ outcome'.kind = "no_tenant"
          /\ UNCHANGED scan
      BY <2>3, WriteEffect DEF Core, Appends
    <3>2. QED
      BY <2>1, <2>2, <2>3, <3>1 DEF ChoiceInv, scan
  <2>4. CASE Route
    BY <2>1, <2>2, <2>4 DEF Route, Finish, ChoiceInv, scan
  <2>5. CASE Generate
    BY <2>1, <2>3, <2>5 DEF Generate, Core, RoutingInv
  <2>6. CASE Repair
    BY <2>1, <2>3, <2>6 DEF Repair, Core, RoutingInv
  <2>7. CASE Escalate
    BY <2>1, <2>3, <2>7 DEF Escalate, MayEscalate, Core, TypeOK, Decisions
  <2>8. CASE CrossCheck
    BY <2>1, <2>3, <2>8 DEF CrossCheck, Core, RoutingInv, TypeOK, Decisions
  <2>9. CASE Review
    <3>1. pc' \in {"cross_check", "dry_run"} /\ pc = "decide" /\ UNCHANGED <<scan, outcome>>
      BY <2>9, ReviewEffect DEF Review
    <3>2. QED
      BY <2>1, <2>2, <3>1 DEF ChoiceInv, scan
  <2>10. CASE DryRun
    <3>1. /\ pc = "dry_run" /\ UNCHANGED scan
          /\ \/ UNCHANGED <<pc, outcome>>
             \/ pc' = "done" /\ outcome'.kind = "db_error"
      <4>1. pc = "dry_run" /\ UNCHANGED scan
        BY <2>10 DEF DryRun
      <4>2. \/ UNCHANGED <<pc, outcome>>
            \/ pc' = "done" /\ outcome' = [kind |-> "db_error", winner |-> 0]
        BY <2>10, DryRunEffect
      <4>3. QED
        BY <4>1, <4>2
    <3>2. QED
      BY <2>1, <2>2, <3>1 DEF ChoiceInv, scan
  <2>11. CASE Settle
    BY <2>1, <2>2, <2>11 DEF Settle, ChoiceInv, scan
  <2>12. CASE DryRunsEnd
    BY <2>1, <2>12 DEF DryRunsEnd, Unprobed, ChoiceInv, BestOfFirst, Selected, made, scan
  <2>13. CASE Consider
    <3>1. /\ scanned' = scanned + 1 /\ scanned + 1 \in 1..Len(candidates)
          /\ UNCHANGED <<settings, pc, candidates, outcome>>
          /\ best' = IF candidates[scanned + 1].valid /\ Beats(scanned + 1)
                     THEN scanned + 1 ELSE best
          /\ pc = "choose"
      BY <2>1, <2>13 DEF Consider, made
    <3>2. BestOfFirst(scanned)'
      <4> DEFINE n    == scanned + 1
                 S(i) == Score(candidates[i])
      <4>1. /\ n \in Nat /\ \A i \in 1..n : i \in 1..scanned \/ i = n
            /\ \A i \in 1..n : S(i) \in Int
            /\ best \in Nat /\ best < n
            /\ best # 0 => best \in 1..scanned
            /\ n # 0
        BY <2>1, <3>1
      <4>2. BestOfFirst(scanned)
        BY DEF ChoiceInv
      <4>3. CASE candidates[n].valid /\ Beats(n)
        <5>1. best' = n
          BY <3>1, <4>3
        <5>2. \A i \in 1..scanned : candidates[i].valid => S(i) < S(n)
          <6>1. CASE best = 0
            BY <4>2, <6>1 DEF BestOfFirst
          <6>2. CASE best # 0
            <7>1. S(best) < S(n)
              BY <4>3, <6>2 DEF Beats
            <7>2. /\ S(best) \in Int /\ S(n) \in Int
                  /\ \A i \in 1..scanned : S(i) \in Int
              BY <2>1, <3>1, <4>1, <6>2
            <7>3. \A i \in 1..scanned : candidates[i].valid => S(i) <= S(best)
              BY <4>2, <6>2 DEF BestOfFirst
            <7>4. QED
              BY <7>1, <7>2, <7>3
          <6>3. QED
            BY <6>1, <6>2
        <5>3. \A i \in 1..n : candidates[i].valid => S(i) <= S(n) /\ (i < n => S(i) < S(n))
          BY <4>1, <5>2
        <5>4. QED
          BY <3>1, <4>1, <4>3, <5>1, <5>3 DEF BestOfFirst
      <4>4. CASE ~(candidates[n].valid /\ Beats(n))
        <5>1. best' = best
          BY <3>1, <4>4
        <5>2. CASE best = 0
          BY <3>1, <4>1, <4>2, <4>4, <5>1, <5>2 DEF BestOfFirst, Beats
        <5>3. CASE best # 0
          <6>1. candidates[n].valid => S(n) <= S(best)
            BY <4>1, <4>4, <5>3 DEF Beats
          <6>2. \A i \in 1..n : candidates[i].valid =>
                   S(i) <= S(best) /\ (i < best => S(i) < S(best))
            BY <4>1, <4>2, <5>3, <6>1 DEF BestOfFirst
          <6>3. candidates[best].valid
            BY <4>2, <5>3 DEF BestOfFirst
          <6>4. QED
            BY <3>1, <5>1, <5>3, <6>2, <6>3 DEF BestOfFirst
        <5>4. QED
          BY <5>2, <5>3
      <4>5. QED
        BY <4>3, <4>4
    <3>3. QED
      BY <2>1, <3>1, <3>2 DEF ChoiceInv, Selected
  <2>14. CASE Chosen
    BY <2>1, <2>14 DEF Chosen, Finish, ChoiceInv, BestOfFirst, Selected, made, scan
  <2>15. CASE CheckCost
    BY <2>1, <2>15 DEF CheckCost, Finish, ChoiceInv, BestOfFirst, Selected, made, scan
  <2>16. CASE LocalModelBreaks \/ Over \/ UNCHANGED vars
    BY <2>16 DEF LocalModelBreaks, Over, ChoiceInv, BestOfFirst, Selected, vars, made, scan
  <2>17. QED
    BY <2>4, <2>5, <2>6, <2>7, <2>8, <2>9, <2>10, <2>11, <2>12, <2>13, <2>14, <2>15, <2>16
       DEF Next
<1>3. QED
  BY <1>1, <1>2, CoreInvariant, PTL DEF Spec

\* Whatever runs passed validation and, when dry runs are on, a dry run that did not
\* refuse it: nothing joins the list after the dry runs began.
THEOREM WinnerWasVettedHolds == Spec => []WinnerWasVetted
<1>1. Core /\ WriterInv /\ ChoiceInv => WinnerWasVetted
  <2> SUFFICES ASSUME Core, WriterInv, ChoiceInv, Selected
               PROVE  /\ outcome.winner \in DOMAIN candidates
                      /\ Winner.valid /\ ~Winner.failed
                      /\ settings.dryRun => Winner.dryRun \in {"ok", "unbound"}
    BY DEF WinnerWasVetted
  <2>1. /\ outcome.winner \in DOMAIN candidates
        /\ outcome.winner = best /\ best # 0
        /\ Winner \in Candidates
    <3>1. candidates \in Seq(Candidates) /\ best \in 0..scanned /\ scanned \in 0..Len(candidates)
      BY DEF Core, TypeOK
    <3>2. outcome.winner = best /\ best # 0
      BY DEF ChoiceInv
    <3>3. best \in 1..Len(candidates)
      BY <3>1, <3>2, LenProperties
    <3>4. QED
      BY <3>1, <3>2, <3>3, ElementOfSeq, LenProperties DEF Winner
  <2>2. Winner.valid
    BY <2>1 DEF ChoiceInv, BestOfFirst, Winner
  <2>3. ~Winner.failed /\ Winner.dryRun # "rejected"
    BY <2>1, <2>2 DEF WriterInv, Winner
  <2>4. settings.dryRun => Winner.dryRun # "untried"
    BY <2>1, <2>2 DEF ChoiceInv, Winner
  <2>5. QED
    BY <2>1, <2>2, <2>3, <2>4 DEF Candidates
<1>2. QED
  BY <1>1, CoreInvariant, WriterInvariant, ChoiceInvariant, PTL

\* For any weights the loop of _choose finds a highest score, and the earliest of
\* equal ones.
THEOREM BestSurvivorWinsHolds == Spec => []BestSurvivorWins
<1>1. Core /\ ChoiceInv => BestSurvivorWins
  BY LenProperties
     DEF Core, TypeOK, ChoiceInv, BestOfFirst, BestSurvivorWins, Selected, Winner
<1>2. QED
  BY <1>1, CoreInvariant, ChoiceInvariant, PTL

-----------------------------------------------------------------------------
\* A review changes no candidate's standing, origin or dry run.
LEMMA ReviewKeeps ==
  ASSUME Core, Review
  PROVE  /\ DOMAIN candidates' = DOMAIN candidates
         /\ \A j \in DOMAIN candidates :
              /\ candidates'[j].valid = candidates[j].valid
              /\ candidates'[j].origin = candidates[j].origin
              /\ candidates'[j].dryRun = candidates[j].dryRun
         /\ pc' \in {"cross_check", "dry_run"}
<1>1. TypeOK /\ DOMAIN candidates = 1..Len(candidates)
  BY LenProperties DEF Core, TypeOK
<1>2. PICK v \in Verdicts :
         /\ candidates' = [candidates EXCEPT ![Len(candidates)] = [Current EXCEPT !.verdict = v]]
         /\ [Current EXCEPT !.verdict = v] \in Candidates
         /\ pc' \in {"cross_check", "dry_run"}
  BY ReviewEffect
<1>3. Len(candidates) \in DOMAIN candidates /\ Current \in Candidates
  BY <1>1, CurrentExists DEF Review, Core, RoutingInv
<1>4. /\ DOMAIN candidates' = DOMAIN candidates
      /\ \A j \in DOMAIN candidates :
           candidates'[j] = IF j = Len(candidates) THEN [Current EXCEPT !.verdict = v]
                            ELSE candidates[j]
  BY <1>1, <1>2, <1>3, ReviseEffect
<1>5. LET c == [Current EXCEPT !.verdict = v] IN
        c.valid = Current.valid /\ c.origin = Current.origin /\ c.dryRun = Current.dryRun
  BY <1>3 DEF Candidates
<1>6. QED
  BY <1>2, <1>3, <1>4, <1>5 DEF Current

\* A dry run takes a candidate out only by rejecting it, and puts none back.
LEMMA DryRunKeeps ==
  ASSUME Core, DryRun
  PROVE  /\ DOMAIN candidates' = DOMAIN candidates
         /\ \A j \in DOMAIN candidates :
              /\ candidates'[j].origin = candidates[j].origin
              /\ candidates'[j].valid => candidates[j].valid
              /\ candidates[j].valid => candidates'[j].valid \/ candidates'[j].dryRun = "rejected"
              /\ candidates[j].dryRun = "rejected" => candidates'[j].dryRun = "rejected"
         /\ \/ UNCHANGED <<pc, outcome>>
            \/ pc' = "done" /\ outcome'.kind = "db_error"
<1>1. TypeOK /\ DOMAIN candidates = 1..Len(candidates)
  BY LenProperties DEF Core, TypeOK
<1>2. CASE /\ candidates' = candidates
           /\ pc' = "done"
           /\ outcome' = [kind |-> "db_error", winner |-> 0]
  BY <1>2
<1>3. ASSUME NEW i \in Unprobed, NEW c \in Candidates,
             candidates' = [candidates EXCEPT ![i] = c],
             \/ c = [candidates[i] EXCEPT !.dryRun = "ok"]
             \/ c = [candidates[i] EXCEPT !.dryRun = "unbound"]
             \/ c = [candidates[i] EXCEPT !.dryRun = "rejected", !.valid = FALSE]
      PROVE  /\ DOMAIN candidates' = DOMAIN candidates
             /\ \A j \in DOMAIN candidates :
                  /\ candidates'[j].origin = candidates[j].origin
                  /\ candidates'[j].valid => candidates[j].valid
                  /\ candidates[j].valid
                       => candidates'[j].valid \/ candidates'[j].dryRun = "rejected"
                  /\ candidates[j].dryRun = "rejected" => candidates'[j].dryRun = "rejected"
  <2>1. i \in DOMAIN candidates /\ candidates[i] \in Candidates /\ candidates[i].dryRun = "untried"
    BY <1>1, ElementOfSeq DEF Unprobed, TypeOK
  <2>2. /\ DOMAIN candidates' = DOMAIN candidates
        /\ \A j \in DOMAIN candidates :
             candidates'[j] = IF j = i THEN c ELSE candidates[j]
    BY <1>1, <1>3, <2>1, ReviseEffect
  <2>3. /\ c.origin = candidates[i].origin
        /\ c.valid => candidates[i].valid
        /\ candidates[i].valid => c.valid \/ c.dryRun = "rejected"
    BY <1>3, <2>1 DEF Candidates
  <2>4. QED
    BY <2>1, <2>2, <2>3
<1>4. QED
  BY <1>2, <1>3, DryRunEffect

\* The warning that a second model was used is given with the escalation, when
\* nothing written before it stands.
WarningInv ==
    /\ pc \in {"route", "generate", "decide", "cross_check"} => ~warned
    /\ pc \in {"route", "generate"} => candidates = <<>>
    /\ pc = "decide" => \A i \in DOMAIN candidates : i < Len(candidates) => ~candidates[i].valid
    /\ \A i \in DOMAIN candidates :
         IF warned THEN candidates[i].valid => candidates[i].origin = "escalation"
         ELSE candidates[i].origin # "escalation"

\* With the warning only an escalation can stand; without it nothing is an escalation.
LEMMA WarningInvariant == Spec => []WarningInv
<1>1. Init => WarningInv
  BY EmptySeq DEF Init, WarningInv
<1>2. Core /\ WarningInv /\ [Next]_vars => WarningInv'
  <2> SUFFICES ASSUME Core, WarningInv, [Next]_vars
               PROVE  WarningInv'
    OBVIOUS
  <2>1. /\ TypeOK /\ candidates \in Seq(Candidates)
        /\ DOMAIN candidates = 1..Len(candidates) /\ Len(candidates) \in Nat
        /\ candidates = <<>> => Len(candidates) = 0
        /\ \A i \in 1..Len(candidates) : candidates[i] \in Candidates
        /\ warned \in BOOLEAN
    BY LenProperties, EmptySeq, ElementOfSeq DEF Core, TypeOK
  \* A query is written while none before it stands, or as a cross check.
  <2>2. ASSUME NEW p \in Providers,
               NEW origin \in {"primary", "repair", "escalation", "cross_check"},
               NEW next \in {"decide", "dry_run"}, Write(p, origin, next),
               pc \in {"generate", "decide", "cross_check"},
               warned' = (origin = "escalation"),
               origin # "cross_check" => \A i \in DOMAIN candidates : ~candidates[i].valid,
               origin \in {"escalation", "cross_check"} => next = "dry_run"
        PROVE  WarningInv'
    <3>1. /\ \/ Appends(p, origin, next)
             \/ candidates' = candidates /\ pc' = "done"
      <4>1. Write(p, origin, next)
        BY <2>2
      <4>2. QED
        BY <2>1, <4>1, WriteEffect
    <3>2. CASE candidates' = candidates /\ pc' = "done"
      BY <2>1, <2>2, <3>2 DEF WarningInv
    <3>3. CASE Appends(p, origin, next)
      <4>1. PICK c \in Candidates :
              /\ c.origin = origin
              /\ candidates' = Append(candidates, c)
              /\ pc' = next
        BY <3>3 DEF Appends
      <4>2. /\ Len(candidates') = Len(candidates) + 1
            /\ DOMAIN candidates' = 1..(Len(candidates) + 1)
            /\ \A i \in 1..Len(candidates) : candidates'[i] = candidates[i]
            /\ candidates'[Len(candidates) + 1] = c
        BY <2>1, <4>1, AppendEffect
      <4>3. pc' \in {"decide", "dry_run"} /\ (origin = "cross_check" => pc' = "dry_run")
        BY <2>2, <4>1
      <4>4. ~warned
        BY <2>2 DEF WarningInv
      <4>5. ASSUME NEW i \in DOMAIN candidates'
            PROVE  IF warned' THEN candidates'[i].valid => candidates'[i].origin = "escalation"
                   ELSE candidates'[i].origin # "escalation"
        <5>1. i \in 1..Len(candidates) \/ i = Len(candidates) + 1
          BY <2>1, <4>2
        <5>2. CASE i = Len(candidates) + 1
          BY <2>2, <4>1, <4>2, <5>2
        <5>3. CASE i \in 1..Len(candidates)
          BY <2>1, <2>2, <4>2, <4>4, <5>3 DEF WarningInv
        <5>4. QED
          BY <5>1, <5>2, <5>3
      <4>6. ASSUME pc' = "decide", NEW i \in DOMAIN candidates', i < Len(candidates')
            PROVE  ~candidates'[i].valid
        <5>1. i \in 1..Len(candidates)
          BY <2>1, <4>2, <4>6
        <5>2. origin # "cross_check"
          BY <4>3, <4>6
        <5>3. QED
          BY <2>1, <2>2, <4>2, <5>1, <5>2
      <4>7. pc' \in {"decide", "cross_check"} => ~warned'
        <5>1. origin = "escalation" => next = "dry_run"
          BY <2>2
        <5>2. QED
          BY <2>2, <4>1, <4>3, <5>1
      <4>8. QED
        BY <4>3, <4>5, <4>6, <4>7 DEF WarningInv
    <3>4. QED
      BY <3>1, <3>2, <3>3
  <2>3. pc = "decide" /\ ~Current.valid => \A i \in DOMAIN candidates : ~candidates[i].valid
    BY <2>1 DEF WarningInv, Current
  <2>4. CASE Route
    BY <2>1, <2>4 DEF Route, Finish, WarningInv, made
  <2>5. CASE Generate
    BY <2>1, <2>2, <2>5, EmptySeq DEF Generate, Core, RoutingInv, WarningInv
  <2>6. CASE Repair
    BY <2>1, <2>2, <2>3, <2>6 DEF Repair, Core, RoutingInv, WarningInv
  <2>7. CASE Escalate
    BY <2>1, <2>2, <2>3, <2>7 DEF Escalate, MayEscalate, TypeOK, Decisions
  <2>8. CASE CrossCheck
    BY <2>1, <2>2, <2>8 DEF CrossCheck, Core, RoutingInv, TypeOK, Decisions, WarningInv
  <2>9. CASE Review
    <3>1. pc = "decide" /\ warned' = warned
      BY <2>9 DEF Review
    <3>2. QED
      BY <2>9, <3>1, ReviewKeeps DEF WarningInv
  <2>10. CASE DryRun
    <3>1. pc = "dry_run" /\ warned' = warned /\ pc' \in {"dry_run", "done"}
      BY <2>10, DryRunKeeps DEF DryRun
    <3>2. QED
      BY <2>10, <3>1, DryRunKeeps DEF WarningInv
  <2>11. CASE Settle \/ DryRunsEnd \/ Consider \/ Chosen \/ CheckCost
    BY <2>11 DEF Settle, DryRunsEnd, Consider, Chosen, CheckCost, Finish, WarningInv, made
  <2>12. CASE LocalModelBreaks \/ Over \/ UNCHANGED vars
    BY <2>12 DEF LocalModelBreaks, Over, WarningInv, vars, made
  <2>13. QED
    BY <2>4, <2>5, <2>6, <2>7, <2>8, <2>9, <2>10, <2>11, <2>12 DEF Next
<1>3. QED
  BY <1>1, <1>2, CoreInvariant, PTL DEF Spec

\* The caller is warned of a second model exactly when it wrote what runs because
\* nothing of the first one's stands.
THEOREM SecondModelWarningIsTrueHolds == Spec => []SecondModelWarningIsTrue
<1>1. Core /\ WriterInv /\ WinnerWasVetted /\ WarningInv => SecondModelWarningIsTrue
  <2> SUFFICES ASSUME Core, WriterInv, WinnerWasVetted, WarningInv, Selected
               PROVE  /\ warned <=> Winner.origin = "escalation"
                      /\ warned => \A i \in DOMAIN candidates :
                           candidates[i].valid => candidates[i].writer # decision.primary
    BY DEF SecondModelWarningIsTrue
  <2>1. outcome.winner \in DOMAIN candidates /\ Winner.valid
    BY DEF WinnerWasVetted
  <2>2. warned <=> Winner.origin = "escalation"
    BY <2>1 DEF WarningInv, Winner, Core, TypeOK
  <2>3. decision.primary # Nobody
    BY DEF Core, RoutingInv, Selected, TypeOK, Providers, Nobody, Local, Azure
  <2>4. ASSUME warned, NEW i \in DOMAIN candidates, candidates[i].valid
        PROVE  candidates[i].writer # decision.primary
    BY <2>3, <2>4 DEF WarningInv, WriterInv, Core, RoutingInv
  <2>5. QED
    BY <2>2, <2>4
<1>2. QED
  BY <1>1, CoreInvariant, WriterInvariant, WinnerWasVettedHolds, WarningInvariant, PTL

-----------------------------------------------------------------------------
\* What can be said for a refusal: some query stands, the database took one out, or
\* the settings allow no further attempt.
SomeStands   == \E i \in DOMAIN candidates : candidates[i].valid
SomeRejected == \E i \in DOMAIN candidates : candidates[i].dryRun = "rejected"
Exhausted ==
    /\ repairs = settings.repairs
    /\ (decision.verifier # Nobody /\ settings.escalate)
         => \E i \in DOMAIN candidates : candidates[i].origin = "escalation"

RefusalInv ==
    /\ pc = "cross_check" => SomeStands
    /\ (pc \in {"dry_run", "choose"} \/ outcome.kind = "refused")
         => SomeStands \/ SomeRejected \/ Exhausted

\* Whatever reaches the dry runs has a standing candidate, or lost one to the database,
\* or has spent the repairs and the escalation.
LEMMA RefusalInvariant == Spec => []RefusalInv
<1>1. Init => RefusalInv
  BY DEF Init, RefusalInv, Pending
<1>2. Core /\ RefusalInv /\ [Next]_vars => RefusalInv'
  <2> SUFFICES ASSUME Core, RefusalInv, [Next]_vars
               PROVE  RefusalInv'
    OBVIOUS
  <2>1. /\ TypeOK /\ DOMAIN candidates = 1..Len(candidates) /\ Len(candidates) \in Nat
        /\ repairs \in 0..settings.repairs /\ settings.repairs \in Nat
        /\ pc # "done" => outcome.kind = "pending"
    BY SelectionAssumption, LenProperties DEF Core, TypeOK, RoutingInv, AllSettings
  <2>2. ASSUME NEW p \in Providers,
               NEW origin \in {"primary", "repair", "escalation", "cross_check"},
               NEW next \in {"decide", "dry_run"}, Write(p, origin, next), pc # "done"
        PROVE  /\ \/ pc' = "done" /\ outcome'.kind = "no_tenant"
                  \/ /\ pc' = next /\ outcome'.kind = "pending"
                     /\ \E i \in DOMAIN candidates' : candidates'[i].origin = origin
                     /\ SomeStands => SomeStands'
               /\ UNCHANGED <<settings, decision>>
    <3>1. Write(p, origin, next)
      BY <2>2
    <3>2. /\ \/ Appends(p, origin, next)
             \/ pc' = "done" /\ outcome' = [kind |-> "no_tenant", winner |-> 0]
          /\ UNCHANGED <<settings, decision>>
      BY <2>1, <3>1, WriteEffect
    <3>3. CASE Appends(p, origin, next)
      <4>1. PICK c \in Candidates :
              /\ c.origin = origin
              /\ candidates' = Append(candidates, c)
              /\ pc' = next /\ outcome' = outcome
        BY <3>3 DEF Appends
      <4>2. /\ DOMAIN candidates' = 1..(Len(candidates) + 1)
            /\ \A i \in 1..Len(candidates) : candidates'[i] = candidates[i]
            /\ candidates'[Len(candidates) + 1] = c
        BY <2>1, <4>1, AppendEffect
      <4>3. Len(candidates) + 1 \in DOMAIN candidates'
            /\ \A i \in DOMAIN candidates : i \in DOMAIN candidates'
        BY <2>1, <4>2
      <4>4. SomeStands => SomeStands'
        BY <2>1, <4>2, <4>3 DEF SomeStands
      <4>5. QED
        BY <2>1, <2>2, <3>2, <4>1, <4>2, <4>3, <4>4
    <3>4. QED
      BY <3>2, <3>3
  <2>3. CASE Route
    BY <2>1, <2>3 DEF Route, Finish, RefusalInv
  <2>4. CASE Generate
    BY <2>1, <2>2, <2>4 DEF Generate, Core, RoutingInv, RefusalInv
  <2>5. CASE Repair
    BY <2>1, <2>2, <2>5 DEF Repair, Core, RoutingInv, RefusalInv
  <2>6. CASE Escalate
    <3>1. /\ \/ pc' = "done" /\ outcome'.kind = "no_tenant"
             \/ \E i \in DOMAIN candidates' : candidates'[i].origin = "escalation"
          /\ pc' # "cross_check"
          /\ outcome'.kind # "refused"
          /\ UNCHANGED <<settings, decision, repairs>>
      BY <2>1, <2>2, <2>6 DEF Escalate, MayEscalate, TypeOK, Decisions
    <3>2. repairs = settings.repairs
      BY <2>1, <2>6 DEF Escalate, MayEscalate
    <3>3. QED
      BY <3>1, <3>2 DEF RefusalInv, Exhausted
  <2>7. CASE CrossCheck
    <3>1. decision.verifier \in Providers
      BY <2>1, <2>7 DEF CrossCheck, Core, RoutingInv, TypeOK, Decisions
    <3>2. \/ pc' = "done" /\ outcome'.kind = "no_tenant"
          \/ pc' = "dry_run" /\ outcome'.kind = "pending" /\ (SomeStands => SomeStands')
      BY <2>2, <2>7, <3>1 DEF CrossCheck
    <3>3. QED
      BY <2>7, <3>2 DEF CrossCheck, RefusalInv
  <2>8. CASE Review
    <3>1. /\ Len(candidates) \in DOMAIN candidates /\ candidates[Len(candidates)].valid
          /\ pc' # "done" /\ outcome' = outcome
      BY <2>1, <2>8, CurrentExists, ReviewKeeps DEF Review, Core, RoutingInv, Current
    <3>2. SomeStands'
      BY <2>8, <3>1, ReviewKeeps DEF SomeStands
    <3>3. QED
      BY <3>2 DEF RefusalInv
  <2>9. CASE Settle
    <3>1. SomeStands \/ Exhausted
      <4>1. CASE Current.valid
        BY <2>1, <2>9, <4>1, CurrentExists DEF Settle, Core, RoutingInv, Current, SomeStands
      <4>2. CASE ~Current.valid
        BY <2>1, <2>9, <4>2 DEF Settle, MayEscalate, Exhausted
      <4>3. QED
        BY <4>1, <4>2
    <3>2. QED
      BY <2>9, <3>1 DEF Settle, RefusalInv, SomeStands, Exhausted, made
  <2>10. CASE DryRun
    <3>1. SomeStands \/ SomeRejected \/ Exhausted
      BY <2>10 DEF DryRun, RefusalInv
    <3>2. UNCHANGED <<settings, decision, repairs>> /\ pc = "dry_run"
      BY <2>10 DEF DryRun
    <3>3. SomeStands' \/ SomeRejected' \/ Exhausted'
      BY <2>10, <3>1, <3>2, DryRunKeeps DEF SomeStands, SomeRejected, Exhausted
    <3>4. pc' # "cross_check"
      BY <2>10, <3>2, DryRunKeeps
    <3>5. QED
      BY <3>3, <3>4 DEF RefusalInv
  <2>11. CASE DryRunsEnd \/ Consider \/ Chosen \/ CheckCost
    BY <2>1, <2>11 DEF DryRunsEnd, Consider, Chosen, CheckCost, Finish, RefusalInv,
                       SomeStands, SomeRejected, Exhausted, made
  <2>12. CASE LocalModelBreaks \/ Over \/ UNCHANGED vars
    BY <2>12 DEF LocalModelBreaks, Over, RefusalInv, SomeStands, SomeRejected, Exhausted,
                 vars, made
  <2>13. QED
    BY <2>3, <2>4, <2>5, <2>6, <2>7, <2>8, <2>9, <2>10, <2>11, <2>12 DEF Next
<1>3. QED
  BY <1>1, <1>2, CoreInvariant, PTL DEF Spec

\* A question is refused only when nothing stands and every attempt the settings
\* allow was made, or the database took out what validation had passed.
THEOREM RefusalIsLastResortHolds == Spec => []RefusalIsLastResort
<1>1. Core /\ ChoiceInv /\ RefusalInv => RefusalIsLastResort
  BY LenProperties
     DEF Core, TypeOK, ChoiceInv, BestOfFirst, RefusalInv, SomeStands, SomeRejected, Exhausted,
         RefusalIsLastResort
<1>2. QED
  BY <1>1, CoreInvariant, ChoiceInvariant, RefusalInvariant, PTL

-----------------------------------------------------------------------------
\* Appending a candidate appends its standing.
LEMMA StandingOfAppend ==
  ASSUME TypeOK, NEW c \in Candidates, candidates' = Append(candidates, c)
  PROVE  Standing' = Append(Standing, c.valid)
<1>1. /\ Len(candidates) \in Nat /\ DOMAIN candidates = 1..Len(candidates)
      /\ \A i \in DOMAIN candidates : candidates[i].valid \in BOOLEAN
      /\ c.valid \in BOOLEAN
  <2>1. candidates \in Seq(Candidates)
    BY DEF TypeOK
  <2>2. /\ Len(candidates) \in Nat /\ DOMAIN candidates = 1..Len(candidates)
        /\ \A i \in DOMAIN candidates : candidates[i] \in Candidates
    BY <2>1, LenProperties, ElementOfSeq
  <2>3. \A d \in Candidates : d.valid \in BOOLEAN
    BY DEF Candidates
  <2>4. QED
    BY <2>2, <2>3
<1>2. Standing \in Seq(BOOLEAN) /\ Len(Standing) = Len(candidates)
  BY <1>1 DEF Standing
<1>3. /\ Append(Standing, c.valid) \in Seq(BOOLEAN)
      /\ Len(Append(Standing, c.valid)) = Len(candidates) + 1
      /\ \A i \in 1..Len(candidates) : Append(Standing, c.valid)[i] = Standing[i]
      /\ Append(Standing, c.valid)[Len(candidates) + 1] = c.valid
  BY <1>1, <1>2, AppendProperties
<1>4. /\ DOMAIN candidates' = 1..(Len(candidates) + 1)
      /\ \A i \in 1..Len(candidates) : candidates'[i] = candidates[i]
      /\ candidates'[Len(candidates) + 1] = c
  BY AppendEffect
<1>5. Standing' = [i \in 1..(Len(candidates) + 1) |-> Append(Standing, c.valid)[i]]
  <2>1. ASSUME NEW i \in 1..(Len(candidates) + 1)
        PROVE  candidates'[i].valid = Append(Standing, c.valid)[i]
    BY <1>1, <1>3, <1>4, <2>1 DEF Standing
  <2>2. QED
    BY <1>4, <2>1 DEF Standing
<1>6. QED
  BY <1>1, <1>3, <1>5, LenProperties

\* How a question may end, seen from the abstract choice.
LEMMA EndsAsAbort ==
  ASSUME outcome.kind = "pending", candidates' = candidates,
         outcome'.kind \in {"unavailable", "no_tenant", "db_error", "too_expensive"}
  PROVE  Choice!Abort
<1>1. Answer = 0 /\ Answer' = -2
  BY DEF Answer
<1>2. Standing' = Standing
  BY DEF Standing
<1>3. QED
  BY <1>1, <1>2 DEF Choice!Abort, Choice!Undecided, Choice!Aborted

\* Every step of the detailed specification is a step of SafeChoice, or changes
\* nothing that SafeChoice sees.
LEMMA StepImplements ==
  ASSUME Core, ChoiceInv, [Next]_vars
  PROVE  Choice!Next \/ UNCHANGED <<Standing, Answer>>
<1>1. /\ TypeOK /\ candidates \in Seq(Candidates)
      /\ DOMAIN candidates = 1..Len(candidates) /\ Len(candidates) \in Nat
      /\ \A i \in DOMAIN candidates : candidates[i].valid \in BOOLEAN
      /\ pc # "done" => outcome.kind = "pending"
      /\ DOMAIN Standing = DOMAIN candidates
      /\ \A i \in DOMAIN candidates : Standing[i] = candidates[i].valid
  <2>1. candidates \in Seq(Candidates)
    BY DEF Core, TypeOK
  <2>2. /\ Len(candidates) \in Nat /\ DOMAIN candidates = 1..Len(candidates)
        /\ \A i \in DOMAIN candidates : candidates[i] \in Candidates
    BY <2>1, LenProperties, ElementOfSeq
  <2>3. \A d \in Candidates : d.valid \in BOOLEAN
    BY DEF Candidates
  <2>4. QED
    BY <2>1, <2>2, <2>3 DEF Core, RoutingInv, Standing
<1>2. outcome.kind = "pending" => Answer = 0
  BY DEF Answer
\* A query written is a proposal; a query that could not be scoped ends the question.
<1>3. ASSUME NEW p \in Providers,
             NEW origin \in {"primary", "repair", "escalation", "cross_check"},
             NEW next \in {"decide", "dry_run"}, Write(p, origin, next), pc # "done"
      PROVE  Choice!Next
  <2>1. Write(p, origin, next)
    BY <1>3
  <2>2. \/ Appends(p, origin, next)
        \/ /\ candidates' = candidates
           /\ outcome' = [kind |-> "no_tenant", winner |-> 0]
    BY <1>1, <2>1, WriteEffect
  <2>3. CASE Appends(p, origin, next)
    <3>1. PICK c \in Candidates : candidates' = Append(candidates, c) /\ outcome' = outcome
      BY <2>3 DEF Appends
    <3>2. Standing' = Append(Standing, c.valid) /\ c.valid \in BOOLEAN
      BY <1>1, <3>1, StandingOfAppend DEF Candidates
    <3>3. Answer = 0 /\ Answer' = Answer
      BY <1>1, <1>2, <1>3, <3>1 DEF Answer
    <3>4. Choice!Propose
      BY <3>2, <3>3 DEF Choice!Propose, Choice!Undecided
    <3>5. QED
      BY <3>4 DEF Choice!Next
  <2>4. CASE candidates' = candidates /\ outcome' = [kind |-> "no_tenant", winner |-> 0]
    BY <1>1, <1>3, <2>4, EndsAsAbort DEF Choice!Next
  <2>5. QED
    BY <2>2, <2>3, <2>4
<1>4. CASE UNCHANGED <<candidates, outcome>>
  BY <1>4 DEF Standing, Answer
<1>5. CASE Route
  <2>1. CASE outcome' = outcome
    BY <1>4, <1>5, <2>1 DEF Route, made
  <2>2. CASE Finish("unavailable", 0)
    BY <1>1, <1>5, <2>2, EndsAsAbort DEF Route, Finish, made, Choice!Next
  <2>3. QED
    BY <1>5, <2>1, <2>2 DEF Route
<1>6. CASE Generate
  BY <1>3, <1>6 DEF Generate, Core, RoutingInv, TypeOK, Outcomes, Endings
<1>7. CASE Repair
  BY <1>3, <1>7 DEF Repair, Core, RoutingInv, TypeOK, Outcomes, Endings
<1>8. CASE Escalate
  BY <1>1, <1>3, <1>8 DEF Escalate, MayEscalate, TypeOK, Decisions
<1>9. CASE CrossCheck
  BY <1>1, <1>3, <1>9 DEF CrossCheck, Core, RoutingInv, TypeOK, Decisions
<1>10. CASE Review
  <2>1. Standing' = Standing
    BY <1>10, ReviewKeeps DEF Standing
  <2>2. Answer' = Answer
    BY <1>10 DEF Review, Answer
  <2>3. QED
    BY <2>1, <2>2
\* A dry run that changes the standing of a candidate rejects it.
<1>11. CASE DryRun
  <2>1. CASE /\ candidates' = candidates
             /\ outcome' = [kind |-> "db_error", winner |-> 0]
    BY <1>1, <1>11, <2>1, EndsAsAbort DEF DryRun, Choice!Next
  <2>2. ASSUME NEW i \in Unprobed, NEW c \in Candidates,
               candidates' = [candidates EXCEPT ![i] = c],
               \/ c = [candidates[i] EXCEPT !.dryRun = "ok"]
               \/ c = [candidates[i] EXCEPT !.dryRun = "unbound"]
               \/ c = [candidates[i] EXCEPT !.dryRun = "rejected", !.valid = FALSE],
               UNCHANGED outcome
        PROVE  Choice!Next \/ UNCHANGED <<Standing, Answer>>
    <3>1. i \in DOMAIN candidates /\ candidates[i] \in Candidates /\ candidates[i].valid
      BY <1>1, ElementOfSeq DEF Unprobed
    <3>2. /\ DOMAIN candidates' = DOMAIN candidates
          /\ \A j \in DOMAIN candidates :
               candidates'[j] = IF j = i THEN c ELSE candidates[j]
      BY <1>1, <2>2, <3>1, ReviseEffect
    <3>3. Standing' = [Standing EXCEPT ![i] = c.valid]
      BY <1>1, <3>1, <3>2 DEF Standing
    <3>4. Answer' = Answer /\ Answer = 0
      BY <1>1, <1>2, <1>11, <2>2 DEF Answer, DryRun
    <3>5. c.valid = candidates[i].valid \/ c.valid = FALSE
      BY <2>2, <3>1 DEF Candidates
    <3>6. CASE c.valid = candidates[i].valid
      <4>1. Standing' = Standing
        BY <1>1, <3>1, <3>2, <3>6 DEF Standing
      <4>2. QED
        BY <3>4, <4>1
    <3>7. CASE c.valid = FALSE
      <4>1. Choice!Reject
        BY <1>1, <3>1, <3>3, <3>4, <3>7 DEF Choice!Reject, Choice!Undecided
      <4>2. QED
        BY <4>1 DEF Choice!Next
    <3>8. QED
      BY <3>5, <3>6, <3>7
  <2>3. QED
    BY <1>11, <2>1, <2>2, DryRunEffect
<1>12. CASE Chosen
  <2>1. CASE outcome' = outcome
    BY <1>4, <1>12, <2>1 DEF Chosen, made
  <2>2. CASE best = 0 /\ Finish("refused", 0)
    <3>1. Answer = 0 /\ Answer' = -1
      BY <1>1, <1>2, <1>12, <2>2 DEF Chosen, Finish, Answer
    <3>2. Standing' = Standing
      BY <1>12 DEF Chosen, made, Standing
    <3>3. \A i \in DOMAIN Standing : ~Standing[i]
      BY <1>1, <1>12, <2>2 DEF Chosen, ChoiceInv, BestOfFirst
    <3>4. Standing # <<>>
      <4>1. candidates # <<>>
        BY <1>12 DEF Chosen, Core, RoutingInv
      <4>2. 1 \in DOMAIN Standing
        BY <1>1, <4>1, EmptySeq
      <4>3. QED
        BY <4>2
    <3>5. Choice!Refuse
      BY <3>1, <3>2, <3>3, <3>4 DEF Choice!Refuse, Choice!Undecided, Choice!Refused
    <3>6. QED
      BY <3>5 DEF Choice!Next
  <2>3. QED
    BY <1>12, <2>1, <2>2 DEF Chosen
<1>13. CASE CheckCost
  <2>1. CASE Finish("selected", best)
    <3>1. best \in DOMAIN candidates /\ candidates[best].valid
      BY <1>1, <1>13 DEF CheckCost, ChoiceInv, BestOfFirst, Core, TypeOK
    <3>2. Answer = 0 /\ Answer' = best
      BY <1>1, <1>2, <1>13, <2>1 DEF CheckCost, Finish, Answer
    <3>3. Standing' = Standing
      BY <1>13 DEF CheckCost, made, Standing
    <3>4. Choice!Select
      BY <1>1, <3>1, <3>2, <3>3 DEF Choice!Select, Choice!Undecided
    <3>5. QED
      BY <3>4 DEF Choice!Next
  <2>2. CASE Finish("too_expensive", 0)
    BY <1>1, <1>13, <2>2, EndsAsAbort DEF CheckCost, Finish, made, Choice!Next
  <2>3. QED
    BY <1>13, <2>1, <2>2 DEF CheckCost
<1>14. CASE LocalModelBreaks \/ Settle \/ DryRunsEnd \/ Consider \/ Over \/ UNCHANGED vars
  BY <1>4, <1>14 DEF LocalModelBreaks, Settle, DryRunsEnd, Consider, Over, vars, made
<1>15. QED
  BY <1>5, <1>6, <1>7, <1>8, <1>9, <1>10, <1>11, <1>12, <1>13, <1>14 DEF Next

\* Routing, writing, repairing, reviewing, dry running and scoring together are an
\* implementation of the abstract choice, whatever the settings.
THEOREM ImplementsSafeChoiceHolds == Spec => ImplementsSafeChoice
<1>1. Init => Choice!Init
  <2> SUFFICES ASSUME Init
               PROVE  Standing = <<>> /\ Answer = 0
    BY DEF Choice!Init, Choice!Undecided
  <2>1. Answer = 0
    BY DEF Init, Answer, Pending
  <2>2. Standing = <<>>
    BY EmptySeq DEF Init, Standing
  <2>3. QED
    BY <2>1, <2>2
<1>2. Core /\ ChoiceInv /\ [Next]_vars => [Choice!Next]_<<Standing, Answer>>
  BY StepImplements
<1>3. QED
  BY <1>1, <1>2, CoreInvariant, ChoiceInvariant, PTL DEF Spec, ImplementsSafeChoice, Choice!Spec
=============================================================================
