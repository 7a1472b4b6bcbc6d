----------------------------- MODULE ModelCall -----------------------------
(***************************************************************************)
(* One structured model call (llm/base.py): attempts under the retry       *)
(* policy (core/retry.py), repairs of an answer that does not fit its      *)
(* schema, and the record each attempt leaves (llm/usage.py).  Prompts,    *)
(* texts and delays are left out; the adapter is llm/azure_openai.py's.    *)
(***************************************************************************)
EXTENDS Retry

CONSTANTS
    RetryAttempts,    \* retry.max_attempts of the provider
    RepairAttempts,
    NativeSchema      \* structured_output_mode is json_schema

ASSUME ModelCallAssumption ==
    /\ RetryAttempts \in Nat \ {0} /\ RepairAttempts \in Nat /\ NativeSchema \in BOOLEAN

VARIABLES
    llm,       \* the structured call of each caller
    usage      \* what it has added to its question's collection: the attempts, and those that failed

modelCallVars == <<llm, usage>>

NoCall == [at |-> "idle", attempt |-> 0, repair |-> 0]
NoUsage == [calls |-> 0, errors |-> 0]

ModelCallInit ==
    /\ llm = [k \in Callers |-> NoCall]
    /\ usage = [k \in Callers |-> NoUsage]

\* What a call may fail with, and which of it _translate_error declares retryable.  A missing credential
\* and a refused one, a bad request and a filtered answer are all the general error.
Retryable == {"llm_rate_limited", "llm_timeout", "llm_service_error"}
ChatErrors == Retryable \cup {"llm_error"}

\* What may become of an answer: extract_json takes a bare object, one in a fence, and one inside prose.
\* Where the service enforces the schema an answer is still empty, or cut short at the token limit.
Texts == {"object", "fenced", "in_prose", "empty", "cut_short"}
             \cup (IF NativeSchema THEN {} ELSE {"no_json", "wrong_schema"})
Parses(text) == text \in {"object", "fenced", "in_prose"}

Ask(k) ==
    /\ llm[k].at = "idle"
    /\ llm' = [llm EXCEPT ![k] = [NoCall EXCEPT !.at = "chat", !.attempt = 1]]
    /\ UNCHANGED usage

Record(k, failed) ==
    usage' = [usage EXCEPT ![k] = [calls |-> @.calls + 1, errors |-> IF failed THEN @.errors + 1 ELSE @.errors]]

\* Faulty variant: a repair is not counted when the answer was cut short.
ChatUncounted(k, text) ==
    /\ llm[k].at = "chat"
    /\ llm' = [llm EXCEPT ![k] =
            IF Parses(text) THEN [NoCall EXCEPT !.at = "answered"]
            ELSE IF llm[k].repair < RepairAttempts
            THEN [NoCall EXCEPT !.at = "chat", !.attempt = 1,
                                !.repair = IF text = "cut_short" THEN llm[k].repair ELSE llm[k].repair + 1]
            ELSE [NoCall EXCEPT !.at = "raised"]]
    /\ Record(k, FALSE)

\* An attempt answers.  An answer that does not parse is repaired, under a full retry budget again.
Chat(k, text) ==
    /\ llm[k].at = "chat"
    /\ llm' = [llm EXCEPT ![k] =
            IF Parses(text) THEN [NoCall EXCEPT !.at = "answered"]
            ELSE IF llm[k].repair < RepairAttempts
            THEN [NoCall EXCEPT !.at = "chat", !.attempt = 1, !.repair = llm[k].repair + 1]
            ELSE [NoCall EXCEPT !.at = "raised"]]
    /\ Record(k, FALSE)

ChatFails(k, error) ==
    /\ llm[k].at = "chat"
    /\ llm' = [llm EXCEPT ![k] =
            IF Repeats(llm[k].attempt, RetryAttempts, error \in Retryable)
            THEN [llm[k] EXCEPT !.attempt = @ + 1]
            ELSE [NoCall EXCEPT !.at = "raised"]]
    /\ Record(k, TRUE)

\* The question is cancelled: CancelledError passes both handlers, and the attempt leaves no record.
Abandon(k) ==
    /\ llm[k].at = "chat"
    /\ llm' = [llm EXCEPT ![k] = NoCall]
    /\ usage' = [usage EXCEPT ![k] = NoUsage]

\* The caller takes the answer or the error.
Take(k) ==
    /\ llm[k].at \in {"answered", "raised"}
    /\ llm' = [llm EXCEPT ![k] = NoCall]
    /\ usage' = [usage EXCEPT ![k] = NoUsage]

ModelCallStep(k) ==
    \/ \E text \in Texts : Chat(k, text)
    \/ \E error \in ChatErrors : ChatFails(k, error)

-----------------------------------------------------------------------------
PerCall == (RepairAttempts + 1) * RetryAttempts

\* The budget of a structured call that is under way: it never has more attempts left than this.
Left(k) ==
    IF llm[k].at = "chat"
    THEN (RepairAttempts - llm[k].repair) * RetryAttempts + RetryAttempts - llm[k].attempt + 1
    ELSE 0
=============================================================================
