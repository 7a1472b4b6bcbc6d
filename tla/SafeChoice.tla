----------------------------- MODULE SafeChoice -----------------------------
(***************************************************************************)
(* What choosing a query promises, whoever writes and checks the queries.  *)
(* Queries are proposed one by one, each standing or already refused.  A   *)
(* standing query may be rejected, and never stands again.  The question   *)
(* ends once: with a query that still stands, with a refusal when none     *)
(* does, or with an error that answers nothing.                            *)
(***************************************************************************)
EXTENDS Integers, Sequences

VARIABLES
    standing,  \* standing[i]: whether the i-th proposed query still stands
    answer     \* a query's number, or one of the three below

Undecided == 0
Refused   == -1
Aborted   == -2

Init == standing = <<>> /\ answer = Undecided

Propose ==
    /\ answer = Undecided
    /\ \E stands \in BOOLEAN : standing' = Append(standing, stands)
    /\ UNCHANGED answer

Reject ==
    /\ answer = Undecided
    /\ \E i \in DOMAIN standing :
         /\ standing[i]
         /\ standing' = [standing EXCEPT ![i] = FALSE]
    /\ UNCHANGED answer

Select ==
    /\ answer = Undecided
    /\ \E i \in DOMAIN standing : standing[i] /\ answer' = i
    /\ UNCHANGED standing

Refuse ==
    /\ answer = Undecided
    /\ standing # <<>>
    /\ \A i \in DOMAIN standing : ~standing[i]
    /\ answer' = Refused
    /\ UNCHANGED standing

Abort ==
    /\ answer = Undecided
    /\ answer' = Aborted
    /\ UNCHANGED standing

Next == Propose \/ Reject \/ Select \/ Refuse \/ Abort

Spec == Init /\ [][Next]_<<standing, answer>>
=============================================================================
