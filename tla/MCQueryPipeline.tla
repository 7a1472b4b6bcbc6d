-------------------------- MODULE MCQueryPipeline --------------------------
(***************************************************************************)
(* Questions and settings for TLC: two questions that run their query in   *)
(* one conversation, and a third that does so too, is only validated in    *)
(* that conversation, or runs outside any conversation.                    *)
(***************************************************************************)
EXTENDS QueryPipeline

CONSTANTS q1, q2, q3, chat

Chatting == [conversation |-> chat, validateOnly |-> FALSE]
Checking == [conversation |-> chat, validateOnly |-> TRUE]
Alone    == [conversation |-> NoConversation, validateOnly |-> FALSE]

MCCommands ==
    {[q \in Questions |-> IF q = q3 THEN third ELSE Chatting] :
        third \in {Chatting, Checking, Alone}}

\* In memory the limit is below the context, in the database above it.
MCSettings ==
    {[store |-> "off", context |-> 1, limit |-> 1, rewrite |-> TRUE, audit |-> FALSE],
     [store |-> "memory", context |-> 2, limit |-> 1, rewrite |-> TRUE, audit |-> TRUE],
     [store |-> "sqlalchemy", context |-> 1, limit |-> 2, rewrite |-> FALSE, audit |-> TRUE]}
=============================================================================
