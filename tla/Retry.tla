------------------------------- MODULE Retry -------------------------------
(***************************************************************************)
(* core/retry.py: the policy under which statements and model calls are    *)
(* repeated.  Callers are the coroutines that make them.                   *)
(***************************************************************************)
EXTENDS Integers, FiniteSets

CONSTANT Callers

ASSUME CallersAssumption == IsFiniteSet(Callers)

\* stop_after_attempt counts the first one, and only an error that says so is worth another.
Repeats(attempt, maxAttempts, retryable) == retryable /\ attempt < maxAttempts
=============================================================================
