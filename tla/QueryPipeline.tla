--------------------------- MODULE QueryPipeline ---------------------------
(***************************************************************************)
(* QueryPipeline.run and _run of pipeline/orchestrator.py, for questions   *)
(* answered concurrently, with what they share: the conversation memory    *)
(* (conversation/store.py and its two stores) and the audit trail          *)
(* (observability/audit.py).                                               *)
(*                                                                         *)
(* Each await is a step.  A question can be cancelled while it waits (the  *)
(* server shuts down, the command line is interrupted); a worker thread it *)
(* waits for goes on.  Choosing a query is one step here and a module of   *)
(* its own, CandidateSelection; so is the schema, SchemaCache.             *)
(*                                                                         *)
(* The database store appends in one transaction: here transactions are    *)
(* serial, as with the default SQLite database.                            *)
(***************************************************************************)
EXTENDS Integers, Sequences, SequencesExt

CONSTANTS
    Questions,
    Conversations,  \* a conversation identifier together with its principal
    NoConversation,
    Commands,       \* the assignments of a QueryCommand to each question
    Settings

Command == [conversation : Conversations \cup {NoConversation}, validateOnly : BOOLEAN]

\* store: where turns go, or "off", as when no field is to be stored. context: context_turns. limit: max_turns.
AllSettings ==
    [store : {"off", "memory", "sqlalchemy"}, context : Nat, limit : Nat \ {0},
     rewrite : BOOLEAN, audit : BOOLEAN]

ASSUME PipelineAssumption ==
    /\ NoConversation \notin Conversations
    /\ Commands \subseteq [Questions -> Command]
    /\ Settings \subseteq AllSettings

VARIABLES
    settings,
    command,
    stage,     \* stage[q]: what question q waits for
    seen,      \* seen[q]: the turns q was given as history
    spent,     \* spent[q]: a model call of q used tokens
    entry,     \* entry[q]: the AuditEntry of q
    response,  \* response[q]: how run() ends
    turns,     \* turns[c]: the stored turns of c within their retention
    writing,   \* questions whose turn a worker thread is storing
    audit,     \* audit[q]: the entries recorded for q
    \* History, read by no action of the code.
    live,      \* live[c]: the turns ever stored in c that have not expired
    stored,    \* questions whose turn was stored
    expired,   \* questions whose turn has passed its time to live
    earlier,   \* earlier[q]: the questions answered before q was asked
    asOf       \* asOf[q]: live when q read its history

memory  == <<turns, writing>>
history == <<live, stored, expired, earlier, asOf>>
vars == <<settings, command, stage, seen, spent, entry, response, memory, audit, history>>

Stages ==
    {"new", "history", "normalize", "intent", "schema", "retrieval", "generation",
     "execution", "answer", "recording", "auditing", "ended"}

\* The stages that are reached with the history read.
WithHistory ==
    {"normalize", "intent", "schema", "retrieval", "generation", "execution", "answer",
     "recording"}

Entries ==
    [status : {"not_executed", "succeeded", "failed"}, passed : BOOLEAN,
     error : {"none", "app_error", "internal_error"}, tokens : BOOLEAN]

Responses == {"none", "answered", "validated", "failed", "cancelled"}

TypeOK ==
    /\ settings \in Settings
    /\ command \in Commands
    /\ stage \in [Questions -> Stages]
    /\ seen \in [Questions -> Seq(Questions)]
    /\ spent \in [Questions -> BOOLEAN]
    /\ entry \in [Questions -> Entries]
    /\ response \in [Questions -> Responses]
    /\ turns \in [Conversations -> Seq(Questions)]
    /\ \A c \in Conversations : Len(turns[c]) <= settings.limit
    /\ writing \subseteq Questions
    /\ audit \in [Questions -> Seq(Entries)]
    /\ live \in [Conversations -> Seq(Questions)]
    /\ stored \subseteq Questions
    /\ expired \subseteq Questions
    /\ earlier \in [Questions -> SUBSET Questions]
    /\ asOf \in [Questions -> Seq(Questions)]

Init ==
    /\ settings \in Settings
    /\ command \in Commands
    /\ stage = [q \in Questions |-> "new"]
    /\ seen = [q \in Questions |-> <<>>]
    /\ spent = [q \in Questions |-> FALSE]
    /\ entry = [q \in Questions |->
                  [status |-> "not_executed", passed |-> FALSE, error |-> "none",
                   tokens |-> FALSE]]
    /\ response = [q \in Questions |-> "none"]
    /\ turns = [c \in Conversations |-> <<>>]
    /\ writing = {}
    /\ audit = [q \in Questions |-> <<>>]
    /\ live = [c \in Conversations |-> <<>>]
    /\ stored = {}
    /\ expired = {}
    /\ earlier = [q \in Questions |-> {}]
    /\ asOf = [q \in Questions |-> <<>>]

-----------------------------------------------------------------------------
Ended(q) == stage[q] = "ended"

Goto(q, next) == stage' = [stage EXCEPT ![q] = next]

Conversation(q) == command[q].conversation

\* The memory is on and the question names a conversation.
Remembers(q) == settings.store # "off" /\ Conversation(q) # NoConversation

LastOf(s, n) == SubSeq(s, IF Len(s) > n THEN Len(s) - n + 1 ELSE 1, Len(s))

\* A stage that may call a model: a failing call is recorded with no tokens.
MaySpend(q) == \E used \in BOOLEAN : spent' = [spent EXCEPT ![q] = @ \/ used]

\* run() records entry e and then returns or raises.  The log line and the metrics
\* are written at once; the row is written by a thread, whose failure is swallowed.
End(q, e, reply) ==
    /\ entry' = [entry EXCEPT ![q] = e]
    /\ audit' = [audit EXCEPT ![q] = Append(@, e)]
    /\ response' = [response EXCEPT ![q] = reply]
    /\ Goto(q, IF settings.audit THEN "auditing" ELSE "ended")

\* Faulty variants of FailApp: the tokens are forgotten; the status is left alone;
\* nothing is recorded.
FailAppUncounted(q) ==
    End(q, [entry[q] EXCEPT !.error = "app_error", !.status = "failed"], "failed")

FailAppKeepingStatus(q) ==
    End(q, [entry[q] EXCEPT !.error = "app_error", !.tokens = spent'[q]], "failed")

FailAppUnrecorded(q) ==
    /\ Goto(q, "ended")
    /\ response' = [response EXCEPT ![q] = "failed"]
    /\ UNCHANGED <<entry, audit>>

\* The two handlers of run(): the one for unexpected errors does not set the tokens.
FailApp(q) ==
    End(q, [entry[q] EXCEPT !.error = "app_error", !.status = "failed", !.tokens = spent'[q]],
        "failed")

FailInternal(q) ==
    End(q, [entry[q] EXCEPT !.error = "internal_error", !.status = "failed"], "failed")

Return(q, e, reply) == End(q, [e EXCEPT !.tokens = spent'[q]], reply)

Continue(q, next) == Goto(q, next) /\ UNCHANGED <<entry, response, audit>>

-----------------------------------------------------------------------------
Ask(q) ==
    /\ stage[q] = "new"
    /\ Goto(q, "history")
    /\ earlier' = [earlier EXCEPT ![q] = {p \in Questions : Ended(p) /\ response[p] = "answered"}]
    /\ UNCHANGED <<settings, command, seen, spent, entry, response, memory, audit,
                   live, stored, expired, asOf>>

ReadHistory(q) ==
    /\ stage[q] = "history"
    /\ Remembers(q)
    /\ seen' = [seen EXCEPT ![q] = LastOf(turns[Conversation(q)], settings.context)]
    /\ asOf' = [asOf EXCEPT ![q] = live[Conversation(q)]]
    /\ Continue(q, "normalize")
    /\ UNCHANGED <<settings, command, spent, memory, live, stored, expired, earlier>>

\* Nothing in run() handles an error of the store while the history is read.
HistoryFails(q) ==
    /\ stage[q] = "history"
    /\ Remembers(q) /\ settings.store = "sqlalchemy"
    /\ FailInternal(q)
    /\ UNCHANGED <<settings, command, seen, spent, memory, history>>

NoHistory(q) ==
    /\ stage[q] = "history"
    /\ ~Remembers(q)
    /\ Continue(q, "normalize")
    /\ UNCHANGED <<settings, command, seen, spent, memory, history>>

\* A follow-up is rewritten by a model, and a question may be refused before or
\* after that.
Normalize(q) ==
    /\ stage[q] = "normalize"
    /\ IF seen[q] # <<>> /\ settings.rewrite THEN MaySpend(q) ELSE UNCHANGED spent
    /\ Continue(q, "intent") \/ FailApp(q)
    /\ UNCHANGED <<settings, command, seen, memory, history>>

\* A failing model call falls back on keywords.
Intent(q) ==
    /\ stage[q] = "intent"
    /\ MaySpend(q)
    /\ Continue(q, "schema")
    /\ UNCHANGED <<settings, command, seen, memory, history>>

\* Introspection fails as an AppError, the cache's own errors are unexpected.
Schema(q) ==
    /\ stage[q] = "schema"
    /\ UNCHANGED spent
    /\ Continue(q, "retrieval") \/ FailApp(q) \/ FailInternal(q)
    /\ UNCHANGED <<settings, command, seen, memory, history>>

\* Retrieval, and the routing that follows it without waiting.
Retrieve(q) ==
    /\ stage[q] = "retrieval"
    /\ MaySpend(q)
    /\ Continue(q, "generation") \/ FailApp(q)
    /\ UNCHANGED <<settings, command, seen, memory, history>>

\* SQLVerifier.produce returns a query, refuses, or meets an unexpected error, such
\* as a connection that cannot be opened for a dry run.
Generate(q) ==
    /\ stage[q] = "generation"
    /\ \/ /\ spent' = [spent EXCEPT ![q] = TRUE]
          /\ LET e == [entry[q] EXCEPT !.passed = TRUE]
             IN  IF command[q].validateOnly
                 THEN Return(q, e, "validated")
                 ELSE /\ entry' = [entry EXCEPT ![q] = e]
                      /\ Goto(q, "execution")
                      /\ UNCHANGED <<response, audit>>
       \/ MaySpend(q) /\ (FailApp(q) \/ FailInternal(q))
    /\ UNCHANGED <<settings, command, seen, memory, history>>

Execute(q) ==
    /\ stage[q] = "execution"
    /\ UNCHANGED spent
    /\ \/ /\ entry' = [entry EXCEPT ![q].status = "succeeded"]
          /\ Goto(q, "answer")
          /\ UNCHANGED <<response, audit>>
       \/ FailApp(q)
       \/ FailInternal(q)
    /\ UNCHANGED <<settings, command, seen, memory, history>>

-----------------------------------------------------------------------------
\* Faulty variants: no turn is dropped; the oldest turns are kept.
RememberAll(q) ==
    LET c == Conversation(q) IN
    /\ turns' = [turns EXCEPT ![c] = Append(@, q)]
    /\ live' = [live EXCEPT ![c] = Append(@, q)]
    /\ stored' = stored \cup {q}

RememberOldest(q) ==
    LET c == Conversation(q) IN
    /\ turns' = [turns EXCEPT ![c] = IF Len(@) < settings.limit THEN Append(@, q) ELSE @]
    /\ live' = [live EXCEPT ![c] = Append(@, q)]
    /\ stored' = stored \cup {q}

\* The store appends the turn of q and drops the oldest beyond max_turns.
Remember(q) ==
    LET c == Conversation(q) IN
    /\ turns' = [turns EXCEPT ![c] = LastOf(Append(@, q), settings.limit)]
    /\ live' = [live EXCEPT ![c] = Append(@, q)]
    /\ stored' = stored \cup {q}

\* Faulty variant: the answer does not wait for the thread that stores the turn.
AnswerWithoutWaiting(q) ==
    /\ stage[q] = "answer"
    /\ MaySpend(q)
    /\ Return(q, entry[q], "answered")
    /\ writing' = IF Remembers(q) THEN writing \cup {q} ELSE writing
    /\ UNCHANGED <<settings, command, seen, turns, history>>

\* A failing model call falls back on a summary.  The turn is stored before the
\* question is recorded: at once in memory, by a thread in the database.
Answer(q) ==
    /\ stage[q] = "answer"
    /\ MaySpend(q)
    /\ \/ /\ ~Remembers(q)
          /\ Return(q, entry[q], "answered")
          /\ UNCHANGED <<memory, live, stored>>
       \/ /\ Remembers(q) /\ settings.store = "memory"
          /\ Remember(q)
          /\ Return(q, entry[q], "answered")
          /\ UNCHANGED writing
       \/ /\ Remembers(q) /\ settings.store = "sqlalchemy"
          /\ writing' = writing \cup {q}
          /\ Continue(q, "recording")
          /\ UNCHANGED <<turns, live, stored>>
    /\ UNCHANGED <<settings, command, seen, expired, earlier, asOf>>

\* The thread stores the turn, or fails, whether or not q still waits for it.
StoreTurn(q) ==
    /\ q \in writing
    /\ writing' = writing \ {q}
    /\ Remember(q) \/ UNCHANGED <<turns, live, stored>>
    /\ UNCHANGED <<settings, command, stage, seen, spent, entry, response, audit,
                   expired, earlier, asOf>>

\* Faulty variant: an error while the turn is stored, perhaps after it was, fails q.
RecordedOrFails(q) ==
    /\ stage[q] = "recording"
    /\ q \notin writing
    /\ UNCHANGED spent
    /\ Return(q, entry[q], "answered") \/ FailInternal(q)
    /\ UNCHANGED <<settings, command, seen, memory, history>>

\* A failure to store the turn is logged and swallowed.
Recorded(q) ==
    /\ stage[q] = "recording"
    /\ q \notin writing
    /\ UNCHANGED spent
    /\ Return(q, entry[q], "answered")
    /\ UNCHANGED <<settings, command, seen, memory, history>>

\* The thread that writes the audit row ends, with or without it.
Deliver(q) ==
    /\ stage[q] = "auditing"
    /\ Goto(q, "ended")
    /\ UNCHANGED <<settings, command, seen, spent, entry, response, memory, audit, history>>

\* CancelledError passes both handlers of run().
Cancel(q) ==
    /\ stage[q] \notin {"new", "ended"}
    /\ Goto(q, "ended")
    /\ response' = [response EXCEPT ![q] = "cancelled"]
    /\ UNCHANGED <<settings, command, seen, spent, entry, memory, audit, history>>

\* The oldest turn of a conversation passes its time to live.  Turns are kept in the
\* order they were stored, so the store holds it as its first turn or not at all.
Expire(c) ==
    /\ live[c] # <<>>
    /\ LET oldest == Head(live[c]) IN
       /\ live' = [live EXCEPT ![c] = Tail(@)]
       /\ expired' = expired \cup {oldest}
       /\ turns' = [turns EXCEPT ![c] = IF @ # <<>> /\ Head(@) = oldest THEN Tail(@) ELSE @]
    /\ UNCHANGED <<settings, command, stage, seen, spent, entry, response, writing, audit,
                   stored, earlier, asOf>>

Over == (\A q \in Questions : Ended(q)) /\ UNCHANGED vars

Step(q) ==
    \/ ReadHistory(q) \/ HistoryFails(q) \/ NoHistory(q) \/ Normalize(q) \/ Intent(q)
    \/ Schema(q) \/ Retrieve(q) \/ Generate(q) \/ Execute(q) \/ Answer(q) \/ Recorded(q)
    \/ Deliver(q)

Next ==
    \/ \E q \in Questions : Ask(q) \/ Step(q) \/ StoreTurn(q) \/ Cancel(q)
    \/ \E c \in Conversations : Expire(c)
    \/ Over

Spec == Init /\ [][Next]_vars

-----------------------------------------------------------------------------
Delivered(q) == Ended(q) /\ response[q] # "cancelled"

\* "One record per question, whether it succeeded, was refused by validation or
\* failed in the database": whatever is delivered was recorded once, however it
\* ended, and nothing is recorded twice.
AuditedOnce ==
    \A q \in Questions : /\ Len(audit[q]) <= 1
                         /\ Delivered(q) => Len(audit[q]) = 1

\* The record says what the caller got: a query that ran and passed validation
\* behind every answer, an error code and a failed status behind every error, and
\* validation without execution behind a question that was only validated.
AuditTellsOutcome ==
    \A q \in Questions : Delivered(q) /\ audit[q] # <<>> =>
        LET e == Last(audit[q]) IN
        CASE response[q] = "answered"  -> e.status = "succeeded" /\ e.passed /\ e.error = "none"
          [] response[q] = "validated" -> e.status = "not_executed" /\ e.passed /\ e.error = "none"
          [] OTHER                     -> e.status = "failed" /\ e.error # "none"

\* The record of a question that did not end in an unexpected error counts the
\* tokens of every stage, the answer's included.
AuditCountsTokens ==
    \A q \in Questions : \A i \in DOMAIN audit[q] :
        audit[q][i].error # "internal_error" => audit[q][i].tokens = spent[q]

\* A conversation holds only turns of questions whose query ran, which the caller
\* has been or is being told about: neither failures nor validations are
\* remembered, and a cancelled question only if it was cancelled after its query ran.
TurnsAreAnswers ==
    \A c \in Conversations : \A i \in DOMAIN turns[c] :
        LET q == turns[c][i] IN
        /\ Conversation(q) = c /\ ~command[q].validateOnly
        /\ entry[q].status = "succeeded" /\ entry[q].error = "none"
        /\ response[q] \in {"none", "answered", "cancelled"}

\* Dropping turns as they are stored loses nothing a prompt would show: a question
\* sees the latest turns of its conversation that have not expired, oldest first.
HistoryIsLatest ==
    \A q \in Questions :
        seen[q] = LastOf(asOf[q], IF settings.context < settings.limit
                                  THEN settings.context ELSE settings.limit)

\* A follow-up asked after an answer was delivered finds its turn, unless the turn
\* expired or could not be stored: run() stores the turn before it returns.
AnswersAreRemembered ==
    \A q \in Questions : \A p \in earlier[q] \cap stored :
        /\ Conversation(p) = Conversation(q)
        /\ stage[q] \in WithHistory
        => p \in Range(asOf[q]) \cup expired

\* observability/audit.py:3-6 says that the record of a question that failed tells
\* how much it cost.  An unexpected error after a model call is recorded with none.
EveryRecordTellsCost ==
    \A q \in Questions : \A i \in DOMAIN audit[q] : audit[q][i].tokens = spent[q]
=============================================================================
