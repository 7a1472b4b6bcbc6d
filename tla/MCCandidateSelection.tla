------------------------ MODULE MCCandidateSelection ------------------------
(***************************************************************************)
(* Settings for TLC: every combination of the switches with routing on, and*)
(* the two default providers with routing off, where no second model       *)
(* exists and the switches about it mean nothing.                          *)
(***************************************************************************)
EXTENDS CandidateSelection

CONSTANT RepairLimits  \* bound: the values of max_repair_attempts tried

MCSettings ==
    {s \in [routing : BOOLEAN, default : Providers, localCanVerify : BOOLEAN,
            repairs : RepairLimits, escalate : BOOLEAN, crossGenerate : BOOLEAN,
            dryRun : BOOLEAN] :
       IF s.routing THEN s.default = Azure
       ELSE ~s.localCanVerify /\ ~s.escalate /\ ~s.crossGenerate}

\* The default selection_weights of config/settings.py, in hundredths.
MCWeights == [validation |-> 40, dryRun |-> 25, verifier |-> 20, confidence |-> 15]
=============================================================================
