---------------------------- MODULE AtomicCache ----------------------------
(***************************************************************************)
(* What the schema cache promises, whatever its threads interleave: every  *)
(* call takes effect at one instant.  A call that returns returns what is  *)
(* stored at that instant, loads are stored in the order in which they     *)
(* read the database, and a refresh has emptied the store before it        *)
(* answers.  A call fails only for a reason: the store is empty, a refresh *)
(* emptied it during the call, or failed loads are not to be papered over. *)
(***************************************************************************)
EXTENDS Integers

CONSTANT Threads  \* who calls

VARIABLES
    lenient,  \* whether a failed load may be answered with what is stored
    stored,   \* the load in the store, or None
    newest,   \* the latest load ever stored
    phase,    \* phase[t]: "idle", "refresh" (the store is yet to be emptied), "get"
    emptied,  \* emptied[t]: the store was emptied since t's call began
    answer    \* answer[t]: the load t's last call returned, or None

None == 0

Init ==
    /\ lenient \in BOOLEAN
    /\ stored = None
    /\ newest = None
    /\ phase = [t \in Threads |-> "idle"]
    /\ emptied = [t \in Threads |-> FALSE]
    /\ answer = [t \in Threads |-> None]

Begin(t, what) ==
    /\ phase[t] = "idle"
    /\ phase' = [phase EXCEPT ![t] = what]
    /\ emptied' = [emptied EXCEPT ![t] = FALSE]
    /\ answer' = [answer EXCEPT ![t] = None]
    /\ UNCHANGED <<lenient, stored, newest>>

\* A refresh empties the store and goes on as a get.
Empty(t) ==
    /\ phase[t] = "refresh"
    /\ stored' = None
    /\ emptied' = [u \in Threads |-> TRUE]
    /\ phase' = [phase EXCEPT ![t] = "get"]
    /\ UNCHANGED <<lenient, newest, answer>>

\* A load arrives, newer than all before it.
Store(t) ==
    /\ phase[t] = "get"
    /\ newest' = newest + 1
    /\ stored' = newest + 1
    /\ UNCHANGED <<lenient, phase, emptied, answer>>

Answer(t) ==
    /\ phase[t] = "get"
    /\ stored # None
    /\ answer' = [answer EXCEPT ![t] = stored]
    /\ phase' = [phase EXCEPT ![t] = "idle"]
    /\ UNCHANGED <<lenient, stored, newest, emptied>>

Fail(t) ==
    /\ phase[t] = "get"
    /\ stored = None \/ emptied[t] \/ ~lenient
    /\ answer' = [answer EXCEPT ![t] = None]
    /\ phase' = [phase EXCEPT ![t] = "idle"]
    /\ UNCHANGED <<lenient, stored, newest, emptied>>

Next ==
    \E t \in Threads :
        \/ \E what \in {"get", "refresh"} : Begin(t, what)
        \/ Empty(t) \/ Store(t) \/ Answer(t) \/ Fail(t)

Spec == Init /\ [][Next]_<<lenient, stored, newest, phase, emptied, answer>>
=============================================================================
