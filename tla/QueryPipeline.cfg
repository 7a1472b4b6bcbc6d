SPECIFICATION Spec
CONSTANTS
    q1 = q1
    q2 = q2
    q3 = q3
    chat = chat
    Questions = {q1, q2, q3}
    Conversations = {chat}
    NoConversation = NoConversation
    Commands <- MCCommands
    Settings <- MCSettings
INVARIANTS
    TypeOK
    AuditedOnce
    AuditTellsOutcome
    AuditCountsTokens
    TurnsAreAnswers
    HistoryIsLatest
    AnswersAreRemembered
