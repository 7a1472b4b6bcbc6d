------------------------ MODULE QueryPipelineProofs ------------------------
(***************************************************************************)
(* What holds of the pipeline for every set of questions, conversations,   *)
(* commands and settings.                                                  *)
(*                                                                         *)
(* The order: lemmas about the last turns of a sequence; the types; what   *)
(* is told of a question (Telling: its entry, its record and its reply     *)
(* agree at every stage), which gives the audit properties; what is stored *)
(* of it (Keeping) and in which order (Ordering), which give those of the  *)
(* memory; and that an answer delivered earlier stays in the memory until  *)
(* it expires (Present, AnsweredEarlier).                                  *)
(***************************************************************************)
EXTENDS QueryPipeline, SequenceTheorems, TLAPS

-----------------------------------------------------------------------------
\* The last n turns of a sequence of at most n turns are all of them.
LEMMA LastOfShort ==
  ASSUME NEW S, NEW s \in Seq(S), NEW n \in Nat, Len(s) <= n
  PROVE  LastOf(s, n) = s
<1>1. Len(s) \in Nat /\ ~(Len(s) > n)
  BY LenProperties
<1>2. LastOf(s, n) = SubSeq(s, 1, Len(s))
  BY <1>1 DEF LastOf
<1>3. QED
  BY <1>2, SubSeqFull

\* Those of a longer one are n, and where each comes from.
LEMMA LastOfLong ==
  ASSUME NEW S, NEW s \in Seq(S), NEW n \in Nat, Len(s) > n
  PROVE  /\ LastOf(s, n) \in Seq(S)
         /\ Len(LastOf(s, n)) = n
         /\ \A i \in 1..n : LastOf(s, n)[i] = s[Len(s) - n + i]
<1>1. /\ Len(s) \in Nat
      /\ LastOf(s, n) = SubSeq(s, Len(s) - n + 1, Len(s))
  BY LenProperties DEF LastOf
<1>2. PICK m \in Int : m = Len(s) - n + 1
  <2>1. Len(s) - n + 1 \in Int
    BY <1>1
  <2>2. QED
    BY <2>1
<1>3. \A i \in m..Len(s) : s[i] \in S
  BY <1>1, <1>2, ElementOfSeq
<1>4. /\ SubSeq(s, m, Len(s)) \in Seq(S)
      /\ Len(SubSeq(s, m, Len(s))) = IF m <= Len(s) THEN Len(s) - m + 1 ELSE 0
      /\ \A i \in 1..(Len(s) - m + 1) : SubSeq(s, m, Len(s))[i] = s[m + i - 1]
  BY <1>1, <1>3, SubSeqProperties
<1>5. Len(s) - m + 1 = n /\ (m > Len(s) => n = 0)
  BY <1>1, <1>2
<1>6. ASSUME NEW i \in 1..n
      PROVE  LastOf(s, n)[i] = s[Len(s) - n + i]
  <2>1. m + i - 1 = Len(s) - n + i
    BY <1>1, <1>2
  <2>2. QED
    BY <1>1, <1>2, <1>4, <1>5, <2>1
<1>7. QED
  BY <1>1, <1>2, <1>4, <1>5, <1>6

\* The last n of a sequence are a sequence of at most n.
LEMMA LastOfTypes ==
  ASSUME NEW S, NEW s \in Seq(S), NEW n \in Nat
  PROVE  LastOf(s, n) \in Seq(S) /\ Len(LastOf(s, n)) <= n
<1>1. CASE Len(s) <= n
  BY <1>1, LastOfShort
<1>2. CASE Len(s) > n
  BY <1>2, LastOfLong
<1>3. QED
  BY <1>1, <1>2, LenProperties

\* Trimming before a turn is appended changes nothing of what trimming after it keeps
\* (InMemoryConversationStore.append never sees the turns it dropped earlier).
LEMMA LastOfAppend ==
  ASSUME NEW S, NEW s \in Seq(S), NEW x \in S, NEW n \in Nat \ {0}
  PROVE  LastOf(Append(LastOf(s, n), x), n) = LastOf(Append(s, x), n)
<1>1. Len(s) \in Nat
  BY LenProperties
<1>2. CASE Len(s) <= n
  BY <1>2, LastOfShort
<1>3. CASE Len(s) > n
  <2>1. PICK kept \in Seq(S) : kept = LastOf(s, n)
    BY <1>3, LastOfLong
  <2>2. /\ Len(kept) = n
        /\ \A i \in 1..n : kept[i] = s[Len(s) - n + i]
    BY <1>3, <2>1, LastOfLong
  <2>3. PICK ka \in Seq(S) : ka = Append(kept, x)
    BY <2>1, AppendProperties
  <2>4. PICK sa \in Seq(S) : sa = Append(s, x)
    BY AppendProperties
  <2>5. /\ Len(ka) = n + 1
        /\ \A i \in 1..n : ka[i] = kept[i]
        /\ ka[n + 1] = x
    BY <2>1, <2>2, <2>3, AppendProperties
  <2>6. /\ Len(sa) = Len(s) + 1
        /\ \A i \in 1..Len(s) : sa[i] = s[i]
        /\ sa[Len(s) + 1] = x
    BY <2>4, AppendProperties
  <2>7. /\ LastOf(ka, n) \in Seq(S)
        /\ Len(LastOf(ka, n)) = n
        /\ \A i \in 1..n : LastOf(ka, n)[i] = ka[n + 1 - n + i]
    <3>1. Len(ka) > n
      BY <2>5
    <3>2. QED
      BY <2>5, <3>1, LastOfLong
  <2>8. /\ LastOf(sa, n) \in Seq(S)
        /\ Len(LastOf(sa, n)) = n
        /\ \A i \in 1..n : LastOf(sa, n)[i] = sa[Len(s) + 1 - n + i]
    <3>1. Len(sa) > n
      BY <1>1, <1>3, <2>6
    <3>2. \A i \in 1..n : LastOf(sa, n)[i] = sa[Len(sa) - n + i]
      BY <3>1, LastOfLong
    <3>3. QED
      BY <2>6, <3>1, <3>2, LastOfLong
  <2>9. ASSUME NEW i \in 1..n
        PROVE  LastOf(ka, n)[i] = LastOf(sa, n)[i]
    <3>1. CASE i = n
      <4>1. n + 1 - n + i = n + 1 /\ Len(s) + 1 - n + i = Len(s) + 1
        BY <1>1, <3>1
      <4>2. QED
        BY <2>5, <2>6, <2>7, <2>8, <4>1
    <3>2. CASE i < n
      <4>1. /\ n + 1 - n + i = i + 1 /\ i + 1 \in 1..n
            /\ Len(s) + 1 - n + i \in 1..Len(s)
            /\ Len(s) - n + (i + 1) = Len(s) + 1 - n + i
        BY <1>1, <1>3, <3>2
      <4>2. LastOf(ka, n)[i] = kept[i + 1]
        BY <2>5, <2>7, <4>1
      <4>3. LastOf(sa, n)[i] = s[Len(s) + 1 - n + i]
        BY <2>6, <2>8, <4>1
      <4>4. kept[i + 1] = s[Len(s) + 1 - n + i]
        BY <2>2, <4>1
      <4>5. QED
        BY <4>2, <4>3, <4>4
    <3>3. QED
      BY <3>1, <3>2
  <2>10. LastOf(ka, n) = LastOf(sa, n)
    BY <2>7, <2>8, <2>9, SeqEqual
  <2>11. QED
    BY <2>1, <2>3, <2>4, <2>10
<1>4. QED
  BY <1>1, <1>2, <1>3

\* Dropping the oldest turn drops it from the last n only if it is among them.
LEMMA LastOfTail ==
  ASSUME NEW S, NEW s \in Seq(S), s # <<>>, NEW n \in Nat
  PROVE  LastOf(Tail(s), n) = IF Len(s) > n THEN LastOf(s, n) ELSE Tail(LastOf(s, n))
<1>1. Len(s) \in Nat /\ Len(s) > 0
  BY LenProperties, EmptySeq
<1>2. PICK rest \in Seq(S) : rest = Tail(s)
  BY HeadTailProperties
<1>3. /\ Len(rest) = Len(s) - 1
      /\ \A i \in 1..Len(rest) : rest[i] = s[i + 1]
  BY <1>2, HeadTailProperties
<1>4. CASE Len(s) <= n
  <2>1. LastOf(s, n) = s
    BY <1>4, LastOfShort
  <2>2. Len(rest) <= n
    BY <1>1, <1>3, <1>4
  <2>3. LastOf(rest, n) = rest
    BY <2>2, LastOfShort
  <2>4. ~(Len(s) > n)
    BY <1>1, <1>4
  <2>5. QED
    BY <1>2, <2>1, <2>3, <2>4
<1>5. CASE Len(s) > n
  <2>1. /\ LastOf(s, n) \in Seq(S)
        /\ Len(LastOf(s, n)) = n
        /\ \A i \in 1..n : LastOf(s, n)[i] = s[Len(s) - n + i]
    BY <1>5, LastOfLong
  <2>2. PICK last \in Seq(S) : last = LastOf(rest, n)
    BY LastOfTypes
  <2>3. /\ Len(last) = n
        /\ \A i \in 1..n : last[i] = rest[Len(rest) - n + i]
    <3>1. CASE Len(rest) <= n
      <4>1. Len(rest) = n /\ last = rest
        BY <1>1, <1>3, <1>5, <2>2, <3>1, LastOfShort
      <4>2. \A i \in 1..n : Len(rest) - n + i = i
        BY <4>1
      <4>3. QED
        BY <4>1, <4>2
    <3>2. CASE Len(rest) > n
      BY <2>2, <3>2, LastOfLong
    <3>3. QED
      BY <1>1, <1>3, <3>1, <3>2
  <2>4. ASSUME NEW i \in 1..n
        PROVE  last[i] = LastOf(s, n)[i]
    <3>1. /\ Len(rest) - n + i \in 1..Len(rest)
          /\ Len(rest) - n + i + 1 = Len(s) - n + i
      BY <1>1, <1>3, <1>5
    <3>2. rest[Len(rest) - n + i] = s[Len(rest) - n + i + 1]
      BY <1>3, <3>1
    <3>3. QED
      BY <2>1, <2>3, <3>1, <3>2
  <2>5. last = LastOf(s, n)
    BY <2>1, <2>3, <2>4, SeqEqual
  <2>6. QED
    BY <1>2, <1>5, <2>2, <2>5
<1>6. QED
  BY <1>1, <1>4, <1>5

\* The last m of the last n: what a prompt shows of what the store kept.
LEMMA LastOfLastOf ==
  ASSUME NEW S, NEW s \in Seq(S), NEW m \in Nat, NEW n \in Nat
  PROVE  LastOf(LastOf(s, n), m) = LastOf(s, IF m < n THEN m ELSE n)
<1>1. Len(s) \in Nat
  BY LenProperties
<1>2. PICK last \in Seq(S) : last = LastOf(s, n)
  BY LastOfTypes
<1>3. CASE Len(s) <= n
  <2>1. last = s
    BY <1>2, <1>3, LastOfShort
  <2>2. CASE m < n
    BY <1>2, <2>1, <2>2
  <2>3. CASE ~(m < n)
    <3>1. Len(s) <= m
      BY <1>1, <1>3, <2>3
    <3>2. LastOf(s, m) = s /\ LastOf(s, n) = s
      BY <1>3, <3>1, LastOfShort
    <3>3. QED
      BY <1>2, <2>1, <2>3, <3>2
  <2>4. QED
    BY <2>2, <2>3
<1>4. CASE Len(s) > n
  <2>1. /\ Len(last) = n
        /\ \A i \in 1..n : last[i] = s[Len(s) - n + i]
    BY <1>2, <1>4, LastOfLong
  <2>2. CASE ~(m < n)
    <3>1. Len(last) <= m
      BY <2>1, <2>2
    <3>2. QED
      BY <1>2, <2>2, <3>1, LastOfShort
  <2>3. CASE m < n
    <3>1. Len(last) > m /\ Len(s) > m
      BY <1>1, <1>4, <2>1, <2>3
    <3>2. /\ LastOf(last, m) \in Seq(S)
          /\ Len(LastOf(last, m)) = m
          /\ \A i \in 1..m : LastOf(last, m)[i] = last[n - m + i]
      BY <2>1, <3>1, LastOfLong
    <3>3. /\ LastOf(s, m) \in Seq(S)
          /\ Len(LastOf(s, m)) = m
          /\ \A i \in 1..m : LastOf(s, m)[i] = s[Len(s) - m + i]
      BY <3>1, LastOfLong
    <3>4. ASSUME NEW i \in 1..m
          PROVE  LastOf(last, m)[i] = LastOf(s, m)[i]
      <4>1. n - m + i \in 1..n /\ Len(s) - n + (n - m + i) = Len(s) - m + i
        BY <1>1, <2>3
      <4>2. QED
        BY <2>1, <3>2, <3>3, <4>1
    <3>5. LastOf(last, m) = LastOf(s, m)
      BY <3>2, <3>3, <3>4, SeqEqual
    <3>6. QED
      BY <1>2, <2>3, <3>5
  <2>4. QED
    BY <2>2, <2>3
<1>5. QED
  BY <1>1, <1>3, <1>4

-----------------------------------------------------------------------------
\* What the assumption says of the settings and the commands of a state.
LEMMA Values ==
  ASSUME TypeOK
  PROVE  /\ settings \in AllSettings
         /\ settings.limit \in Nat \ {0} /\ settings.context \in Nat
         /\ command \in [Questions -> Command]
         /\ \A q \in Questions : Remembers(q) => Conversation(q) \in Conversations
<1>1. settings \in AllSettings /\ command \in [Questions -> Command]
  BY PipelineAssumption DEF TypeOK
<1>2. settings.limit \in Nat \ {0} /\ settings.context \in Nat
  BY <1>1 DEF AllSettings
<1>3. QED
  BY <1>1, <1>2 DEF Remembers, Conversation, Command

\* What a question does before its end keeps the types of what run() returns.
LEMMA EndTypes ==
  ASSUME TypeOK, NEW q \in Questions, NEW e \in Entries, NEW reply \in Responses,
         End(q, e, reply)
  PROVE  /\ stage' \in [Questions -> Stages]
         /\ entry' \in [Questions -> Entries]
         /\ response' \in [Questions -> Responses]
         /\ audit' \in [Questions -> Seq(Entries)]
<1>1. Append(audit[q], e) \in Seq(Entries)
  BY AppendProperties DEF TypeOK
<1>2. QED
  BY <1>1 DEF TypeOK, End, Goto, Stages

\* So does the end of a question that failed, by either handler.
LEMMA FailTypes ==
  ASSUME TypeOK, NEW q \in Questions, spent' \in [Questions -> BOOLEAN],
         FailApp(q) \/ FailInternal(q)
  PROVE  /\ stage' \in [Questions -> Stages]
         /\ entry' \in [Questions -> Entries]
         /\ response' \in [Questions -> Responses]
         /\ audit' \in [Questions -> Seq(Entries)]
<1>1. entry[q] \in Entries
  BY DEF TypeOK
<1>2. /\ [entry[q] EXCEPT !.error = "app_error", !.status = "failed", !.tokens = spent'[q]]
           \in Entries
      /\ [entry[q] EXCEPT !.error = "internal_error", !.status = "failed"] \in Entries
  BY <1>1 DEF Entries
<1>3. "failed" \in Responses
  BY DEF Responses
<1>4. QED
  BY <1>2, <1>3, EndTypes DEF FailApp, FailInternal

\* The store's sequences stay sequences of questions, no longer than max_turns.
LEMMA RememberTypes ==
  ASSUME TypeOK, NEW q \in Questions, Remember(q), settings' = settings
  PROVE  /\ turns' \in [Conversations -> Seq(Questions)]
         /\ \A c \in Conversations : Len(turns'[c]) <= settings'.limit
         /\ live' \in [Conversations -> Seq(Questions)]
         /\ stored' \subseteq Questions
<1>1. CASE Conversation(q) \in Conversations
  <2>1. PICK c \in Conversations : c = Conversation(q)
    BY <1>1
  <2>2. PICK more \in Seq(Questions) : more = Append(turns[c], q)
    BY AppendProperties DEF TypeOK
  <2>3. PICK kept \in Seq(Questions) : kept = LastOf(more, settings.limit)
    BY LastOfTypes, Values
  <2>4. Len(kept) <= settings.limit
    BY <2>3, LastOfTypes, Values
  <2>5. PICK all \in Seq(Questions) : all = Append(live[c], q)
    BY AppendProperties DEF TypeOK
  <2>6. /\ turns' = [turns EXCEPT ![c] = kept]
        /\ live' = [live EXCEPT ![c] = all]
        /\ stored' = stored \cup {q}
    BY <2>1, <2>2, <2>3, <2>5 DEF Remember
  <2>7. QED
    BY <2>4, <2>6 DEF TypeOK
<1>2. CASE Conversation(q) \notin Conversations
  <2>1. turns' = turns /\ live' = live /\ stored' = stored \cup {q}
    BY <1>2 DEF Remember, TypeOK
  <2>2. QED
    BY <2>1 DEF TypeOK
<1>3. QED
  BY <1>1, <1>2

\* Every step of the pipeline keeps the types.
LEMMA TypePreserved == TypeOK /\ [Next]_vars => TypeOK'
<1> SUFFICES ASSUME TypeOK, [Next]_vars
             PROVE  TypeOK'
  OBVIOUS
<1> USE DEF memory, history
<1>1. ASSUME NEW q \in Questions, Ask(q)
      PROVE  TypeOK'
  BY <1>1 DEF TypeOK, Ask, Goto, Stages
<1>2. ASSUME NEW q \in Questions, ReadHistory(q)
      PROVE  TypeOK'
  <2>1. PICK c \in Conversations : c = Conversation(q)
    BY <1>2, Values DEF ReadHistory
  <2>2. PICK given \in Seq(Questions) : given = LastOf(turns[c], settings.context)
    BY LastOfTypes, Values DEF TypeOK
  <2>3. /\ seen' = [seen EXCEPT ![q] = given]
        /\ asOf' = [asOf EXCEPT ![q] = live[c]]
    BY <1>2, <2>1, <2>2 DEF ReadHistory
  <2>4. QED
    BY <1>2, <2>3 DEF TypeOK, ReadHistory, Continue, Goto, Stages
<1>3. ASSUME NEW q \in Questions, HistoryFails(q)
      PROVE  TypeOK'
  <2>1. FailInternal(q) /\ spent' \in [Questions -> BOOLEAN]
    BY <1>3 DEF HistoryFails, TypeOK
  <2>2. QED
    BY <1>3, <2>1, FailTypes DEF TypeOK, HistoryFails
<1>4. ASSUME NEW q \in Questions, NoHistory(q)
      PROVE  TypeOK'
  BY <1>4 DEF TypeOK, NoHistory, Continue, Goto, Stages
<1>5. ASSUME NEW q \in Questions, Normalize(q)
      PROVE  TypeOK'
  <2>1. spent' \in [Questions -> BOOLEAN]
    BY <1>5 DEF Normalize, MaySpend, TypeOK
  <2>2. CASE Continue(q, "intent")
    BY <1>5, <2>1, <2>2 DEF TypeOK, Normalize, Continue, Goto, Stages
  <2>3. CASE FailApp(q)
    BY <1>5, <2>1, <2>3, FailTypes DEF TypeOK, Normalize
  <2>4. QED
    BY <1>5, <2>2, <2>3 DEF Normalize
<1>6. ASSUME NEW q \in Questions, Intent(q)
      PROVE  TypeOK'
  <2>1. spent' \in [Questions -> BOOLEAN]
    BY <1>6 DEF Intent, MaySpend, TypeOK
  <2>2. QED
    BY <1>6, <2>1 DEF TypeOK, Intent, Continue, Goto, Stages
<1>7. ASSUME NEW q \in Questions, Schema(q)
      PROVE  TypeOK'
  <2>1. spent' \in [Questions -> BOOLEAN]
    BY <1>7 DEF Schema, TypeOK
  <2>2. CASE Continue(q, "retrieval")
    BY <1>7, <2>1, <2>2 DEF TypeOK, Schema, Continue, Goto, Stages
  <2>3. CASE FailApp(q) \/ FailInternal(q)
    BY <1>7, <2>1, <2>3, FailTypes DEF TypeOK, Schema
  <2>4. QED
    BY <1>7, <2>2, <2>3 DEF Schema
<1>8. ASSUME NEW q \in Questions, Retrieve(q)
      PROVE  TypeOK'
  <2>1. spent' \in [Questions -> BOOLEAN]
    BY <1>8 DEF Retrieve, MaySpend, TypeOK
  <2>2. CASE Continue(q, "generation")
    BY <1>8, <2>1, <2>2 DEF TypeOK, Retrieve, Continue, Goto, Stages
  <2>3. CASE FailApp(q)
    BY <1>8, <2>1, <2>3, FailTypes DEF TypeOK, Retrieve
  <2>4. QED
    BY <1>8, <2>2, <2>3 DEF Retrieve
<1>9. ASSUME NEW q \in Questions, Generate(q)
      PROVE  TypeOK'
  <2>1. spent' \in [Questions -> BOOLEAN]
    BY <1>9 DEF Generate, MaySpend, TypeOK
  <2>2. PICK e \in Entries : e = [entry[q] EXCEPT !.passed = TRUE]
    <3>1. entry[q] \in Entries
      BY DEF TypeOK
    <3>2. [entry[q] EXCEPT !.passed = TRUE] \in Entries
      BY <3>1 DEF Entries
    <3>3. QED
      BY <3>2
  <2>3. [e EXCEPT !.tokens = spent'[q]] \in Entries /\ "validated" \in Responses
    BY <2>1 DEF Entries, Responses
  <2>4. CASE Return(q, e, "validated")
    BY <1>9, <2>1, <2>3, <2>4, EndTypes DEF Return, TypeOK, Generate
  <2>5. CASE /\ entry' = [entry EXCEPT ![q] = e]
             /\ Goto(q, "execution")
             /\ UNCHANGED <<response, audit>>
    BY <1>9, <2>1, <2>5 DEF TypeOK, Generate, Goto, Stages
  <2>6. CASE FailApp(q) \/ FailInternal(q)
    BY <1>9, <2>1, <2>6, FailTypes DEF TypeOK, Generate
  <2>7. QED
    BY <1>9, <2>2, <2>4, <2>5, <2>6 DEF Generate
<1>10. ASSUME NEW q \in Questions, Execute(q)
       PROVE  TypeOK'
  <2>1. spent' \in [Questions -> BOOLEAN]
    BY <1>10 DEF Execute, TypeOK
  <2>2. CASE /\ entry' = [entry EXCEPT ![q].status = "succeeded"]
             /\ Goto(q, "answer")
             /\ UNCHANGED <<response, audit>>
    <3>1. entry' \in [Questions -> Entries]
      <4>1. [entry[q] EXCEPT !.status = "succeeded"] \in Entries
        <5>1. entry[q] \in Entries
          BY DEF TypeOK
        <5>2. QED
          BY <5>1 DEF Entries
      <4>2. entry' = [entry EXCEPT ![q] = [entry[q] EXCEPT !.status = "succeeded"]]
        BY <2>2
      <4>3. QED
        BY <4>1, <4>2 DEF TypeOK
    <3>2. QED
      BY <1>10, <2>1, <2>2, <3>1 DEF TypeOK, Execute, Goto, Stages
  <2>3. CASE FailApp(q) \/ FailInternal(q)
    BY <1>10, <2>1, <2>3, FailTypes DEF TypeOK, Execute
  <2>4. QED
    BY <1>10, <2>2, <2>3 DEF Execute
<1>11. ASSUME NEW q \in Questions, Answer(q)
       PROVE  TypeOK'
  <2>1. spent' \in [Questions -> BOOLEAN]
    BY <1>11 DEF Answer, MaySpend, TypeOK
  <2>2. [entry[q] EXCEPT !.tokens = spent'[q]] \in Entries /\ "answered" \in Responses
    <3>1. entry[q] \in Entries /\ spent'[q] \in BOOLEAN
      BY <2>1 DEF TypeOK
    <3>2. QED
      BY <3>1 DEF Entries, Responses
  <2>3. CASE Return(q, entry[q], "answered") /\ UNCHANGED <<memory, live, stored>>
    BY <1>11, <2>1, <2>2, <2>3, EndTypes DEF Return, TypeOK, Answer
  <2>4. CASE Return(q, entry[q], "answered") /\ Remember(q) /\ UNCHANGED writing
    <3>1. settings' = settings
      BY <1>11 DEF Answer
    <3>2. QED
      BY <1>11, <2>1, <2>2, <2>4, <3>1, EndTypes, RememberTypes DEF Return, TypeOK, Answer
  <2>5. CASE /\ writing' = writing \cup {q}
             /\ Continue(q, "recording")
             /\ UNCHANGED <<turns, live, stored>>
    BY <1>11, <2>1, <2>5 DEF TypeOK, Answer, Continue, Goto, Stages
  <2>6. QED
    BY <1>11, <2>3, <2>4, <2>5 DEF Answer
<1>12. ASSUME NEW q \in Questions, Recorded(q)
       PROVE  TypeOK'
  <2>1. [entry[q] EXCEPT !.tokens = spent'[q]] \in Entries /\ "answered" \in Responses
    <3>1. entry[q] \in Entries /\ spent'[q] \in BOOLEAN
      BY <1>12 DEF TypeOK, Recorded
    <3>2. QED
      BY <3>1 DEF Entries, Responses
  <2>2. QED
    BY <1>12, <2>1, EndTypes DEF Return, TypeOK, Recorded
<1>13. ASSUME NEW q \in Questions, Deliver(q)
       PROVE  TypeOK'
  BY <1>13 DEF TypeOK, Deliver, Goto, Stages
<1>14. ASSUME NEW q \in Questions, StoreTurn(q)
       PROVE  TypeOK'
  <2>1. CASE Remember(q)
    <3>1. settings' = settings
      BY <1>14 DEF StoreTurn
    <3>2. QED
      BY <1>14, <2>1, <3>1, RememberTypes DEF TypeOK, StoreTurn
  <2>2. CASE UNCHANGED <<turns, live, stored>>
    BY <1>14, <2>2 DEF TypeOK, StoreTurn
  <2>3. QED
    BY <1>14, <2>1, <2>2 DEF StoreTurn
<1>15. ASSUME NEW q \in Questions, Cancel(q)
       PROVE  TypeOK'
  BY <1>15 DEF TypeOK, Cancel, Goto, Stages, Responses
<1>16. ASSUME NEW c \in Conversations, Expire(c)
       PROVE  TypeOK'
  <2>1. PICK now \in Seq(Questions) : now = turns[c]
    BY DEF TypeOK
  <2>2. PICK all \in Seq(Questions) : all = live[c] /\ all # <<>>
    BY <1>16 DEF TypeOK, Expire
  <2>3. Tail(all) \in Seq(Questions) /\ Head(all) \in Questions
    BY <2>2, HeadTailProperties
  <2>4. now # <<>> => Tail(now) \in Seq(Questions) /\ Len(Tail(now)) <= Len(now)
    BY HeadTailProperties, LenProperties
  <2>5. PICK left \in Seq(Questions) :
            /\ left = IF now # <<>> /\ Head(now) = Head(all) THEN Tail(now) ELSE now
            /\ Len(left) <= Len(now)
    <3>1. CASE now # <<>> /\ Head(now) = Head(all)
      BY <2>4, <3>1
    <3>2. CASE ~(now # <<>> /\ Head(now) = Head(all))
      <4>1. Len(now) <= Len(now)
        BY LenProperties
      <4>2. QED
        BY <3>2, <4>1
    <3>3. QED
      BY <3>1, <3>2
  <2>6. /\ turns' = [turns EXCEPT ![c] = left]
        /\ live' = [live EXCEPT ![c] = Tail(all)]
        /\ expired' = expired \cup {Head(all)}
    BY <1>16, <2>1, <2>2, <2>5 DEF Expire
  <2>7. Len(left) <= settings.limit
    <3>1. Len(left) \in Nat /\ Len(now) \in Nat
      BY LenProperties
    <3>2. Len(now) <= settings.limit /\ settings.limit \in Nat
      BY <2>1, Values DEF TypeOK
    <3>3. QED
      BY <2>5, <3>1, <3>2
  <2>8. /\ turns' \in [Conversations -> Seq(Questions)]
        /\ live' \in [Conversations -> Seq(Questions)]
        /\ expired' \subseteq Questions
    BY <2>3, <2>6 DEF TypeOK
  <2>9. ASSUME NEW d \in Conversations
        PROVE  Len(turns'[d]) <= settings'.limit
    <3>1. settings' = settings
      BY <1>16 DEF Expire
    <3>2. CASE d = c
      BY <2>6, <2>7, <3>1, <3>2 DEF TypeOK
    <3>3. CASE d # c
      <4>1. turns'[d] = turns[d]
        BY <2>6, <3>3 DEF TypeOK
      <4>2. QED
        BY <3>1, <4>1 DEF TypeOK
    <3>4. QED
      BY <3>2, <3>3
  <2>10. QED
    BY <1>16, <2>8, <2>9 DEF TypeOK, Expire
<1>17. CASE UNCHANGED vars
  BY <1>17 DEF TypeOK, vars
<1>18. QED
  BY <1>1, <1>2, <1>3, <1>4, <1>5, <1>6, <1>7, <1>8, <1>9, <1>10, <1>11, <1>12, <1>13,
     <1>14, <1>15, <1>16, <1>17 DEF Next, Step, Over

\* Type correctness of the pipeline.
THEOREM TypeCorrect == Spec => []TypeOK
<1>1. Init => TypeOK
  <2>1. \A S : <<>> \in Seq(S) /\ Len(<<>>) = 0
    BY EmptySeq, LenProperties
  <2>2. \A s \in Settings : s.limit \in Nat
    BY PipelineAssumption DEF AllSettings
  <2>3. QED
    BY <2>1, <2>2 DEF Init, TypeOK, Stages, Entries, Responses
<1>2. QED
  BY <1>1, TypePreserved, PTL DEF Spec

-----------------------------------------------------------------------------
\* What a question is on its way to, from the code between its awaits: nothing is
\* recorded before the end, where the one record matches what the caller gets.
Matches(e, reply) ==
    \/ reply = "answered" /\ e.status = "succeeded" /\ e.passed /\ e.error = "none"
    \/ reply = "validated" /\ e.status = "not_executed" /\ e.passed /\ e.error = "none"
    \/ reply = "failed" /\ e.status = "failed" /\ e.error # "none"

Finished(q) == stage[q] \in {"auditing", "ended"}

Told(q) ==
    /\ ~Finished(q) => audit[q] = <<>> /\ response[q] = "none" /\ entry[q].error = "none"
    /\ ~Finished(q) /\ stage[q] \notin {"answer", "recording"} => entry[q].status = "not_executed"
    /\ stage[q] \in {"answer", "recording"} => entry[q].status = "succeeded"
    /\ stage[q] \in {"execution", "answer", "recording"} =>
           entry[q].passed /\ ~command[q].validateOnly
    /\ stage[q] = "auditing" => response[q] # "cancelled"
    /\ Finished(q) /\ response[q] # "cancelled" =>
           audit[q] = <<entry[q]>> /\ Matches(entry[q], response[q])
    /\ audit[q] = <<>> \/ audit[q] = <<entry[q]>>
    /\ audit[q] # <<>> => entry[q].error = "internal_error" \/ entry[q].tokens = spent[q]

Telling == \A q \in Questions : Told(q)

\* A step of one question leaves what is told of the others alone.
LEMMA OthersKeep ==
  ASSUME TypeOK, NEW q \in Questions, NEW p \in Questions, p # q,
         Ask(q) \/ Step(q) \/ StoreTurn(q) \/ Cancel(q)
  PROVE  /\ command' = command /\ settings' = settings
         /\ stage'[p] = stage[p] /\ entry'[p] = entry[p] /\ response'[p] = response[p]
         /\ audit'[p] = audit[p] /\ spent'[p] = spent[p]
<1>1. ASSUME NEW e, NEW reply, End(q, e, reply)
      PROVE  /\ stage'[p] = stage[p] /\ entry'[p] = entry[p] /\ response'[p] = response[p]
             /\ audit'[p] = audit[p]
  BY <1>1 DEF End, Goto, TypeOK
<1>2. ASSUME FailApp(q) \/ FailInternal(q) \/ (\E e, reply : Return(q, e, reply))
      PROVE  /\ stage'[p] = stage[p] /\ entry'[p] = entry[p] /\ response'[p] = response[p]
             /\ audit'[p] = audit[p]
  BY <1>1, <1>2 DEF FailApp, FailInternal, Return
<1>3. ASSUME NEW next, Goto(q, next)
      PROVE  stage'[p] = stage[p]
  BY <1>3 DEF Goto, TypeOK
<1>4. CASE Ask(q) \/ StoreTurn(q) \/ Cancel(q) \/ Deliver(q) \/ ReadHistory(q) \/ NoHistory(q)
  BY <1>3, <1>4 DEF Ask, StoreTurn, Cancel, Deliver, ReadHistory, NoHistory, Continue, TypeOK
<1>5. CASE HistoryFails(q) \/ Schema(q) \/ Recorded(q)
  BY <1>2, <1>3, <1>5 DEF HistoryFails, Schema, Recorded, Continue
<1>6. CASE Normalize(q) \/ Intent(q) \/ Retrieve(q)
  BY <1>2, <1>3, <1>6 DEF Normalize, Intent, Retrieve, Continue, MaySpend, TypeOK
<1>7. CASE Generate(q) \/ Execute(q) \/ Answer(q)
  BY <1>2, <1>3, <1>7 DEF Generate, Execute, Answer, Continue, MaySpend, TypeOK
<1>8. QED
  BY <1>4, <1>5, <1>6, <1>7 DEF Step

\* run() ends: the record it makes is the only one and tells what it replies.
LEMMA EndTells ==
  ASSUME TypeOK, NEW q \in Questions, Told(q), ~Finished(q), command' = command,
         NEW e, NEW reply, End(q, e, reply), Matches(e, reply),
         e.error = "internal_error" \/ e.tokens = spent'[q]
  PROVE  Told(q)'
<1>1. /\ entry'[q] = e /\ response'[q] = reply /\ audit'[q] = Append(audit[q], e)
      /\ stage'[q] \in {"auditing", "ended"}
  BY DEF End, Goto, TypeOK
<1>2. audit'[q] = <<e>>
  <2>1. audit[q] = <<>>
    BY DEF Told
  <2>2. QED
    BY <1>1, <2>1
<1>3. reply # "cancelled"
  BY DEF Matches
<1>4. QED
  BY <1>1, <1>2, <1>3 DEF Told, Finished

\* Each handler of run() records an error code and a failed status.
LEMMA FailTells ==
  ASSUME TypeOK, NEW q \in Questions, Told(q), ~Finished(q), command' = command,
         FailApp(q) \/ FailInternal(q)
  PROVE  Told(q)'
<1>1. PICK e \in Entries : e = entry[q]
  BY DEF TypeOK
<1>2. CASE FailApp(q)
  <2>1. PICK f : f = [e EXCEPT !.error = "app_error", !.status = "failed", !.tokens = spent'[q]]
    OBVIOUS
  <2>2. f.error = "app_error" /\ f.status = "failed" /\ f.tokens = spent'[q]
    BY <2>1 DEF Entries
  <2>3. End(q, f, "failed")
    BY <1>1, <1>2, <2>1 DEF FailApp
  <2>4. Matches(f, "failed")
    BY <2>2 DEF Matches
  <2>5. QED
    BY <2>2, <2>3, <2>4, EndTells
<1>3. CASE FailInternal(q)
  <2>1. PICK f : f = [e EXCEPT !.error = "internal_error", !.status = "failed"]
    OBVIOUS
  <2>2. f.error = "internal_error" /\ f.status = "failed"
    BY <2>1 DEF Entries
  <2>3. End(q, f, "failed")
    BY <1>1, <1>3, <2>1 DEF FailInternal
  <2>4. Matches(f, "failed")
    BY <2>2 DEF Matches
  <2>5. QED
    BY <2>2, <2>3, <2>4, EndTells
<1>4. QED
  BY <1>2, <1>3

\* A question that goes on tells nothing yet.
LEMMA ContinueTells ==
  ASSUME TypeOK, NEW q \in Questions, Told(q), ~Finished(q), command' = command,
         NEW next, Continue(q, next), next \notin {"execution", "auditing", "ended"},
         stage[q] \in {"answer", "recording"} <=> next \in {"answer", "recording"}
  PROVE  Told(q)'
<1>1. /\ stage'[q] = next /\ entry'[q] = entry[q] /\ response'[q] = response[q]
      /\ audit'[q] = audit[q]
  BY DEF Continue, Goto, TypeOK
<1>2. QED
  BY <1>1 DEF Told, Finished

\* An answer is told of a query that ran.
LEMMA AnswerTells ==
  ASSUME TypeOK, NEW q \in Questions, Told(q), command' = command,
         stage[q] \in {"answer", "recording"}, Return(q, entry[q], "answered")
  PROVE  Told(q)'
<1>1. PICK e \in Entries : e = entry[q]
  BY DEF TypeOK
<1>2. PICK f : f = [e EXCEPT !.tokens = spent'[q]]
  OBVIOUS
<1>3. /\ f.status = e.status /\ f.passed = e.passed /\ f.error = e.error
      /\ f.tokens = spent'[q]
  BY <1>2 DEF Entries
<1>4. e.status = "succeeded" /\ e.passed /\ e.error = "none" /\ ~Finished(q)
  BY <1>1 DEF Told, Finished
<1>5. End(q, f, "answered")
  BY <1>1, <1>2 DEF Return
<1>6. Matches(f, "answered")
  BY <1>3, <1>4 DEF Matches
<1>7. QED
  BY <1>3, <1>4, <1>5, <1>6, EndTells

\* Each step of a question leaves its entry, its record and its reply in agreement.
LEMMA ToldByOwnStep ==
  ASSUME TypeOK, NEW q \in Questions, Told(q), Ask(q) \/ Step(q) \/ StoreTurn(q) \/ Cancel(q)
  PROVE  Told(q)'
<1>1. CASE Ask(q)
  BY <1>1 DEF Ask, Goto, Told, Finished, TypeOK
<1>2. CASE ReadHistory(q) \/ NoHistory(q)
  <2>1. stage[q] = "history" /\ Continue(q, "normalize") /\ command' = command
    BY <1>2 DEF ReadHistory, NoHistory
  <2>2. QED
    BY <2>1, ContinueTells DEF Finished
<1>3. CASE HistoryFails(q)
  BY <1>3, FailTells DEF HistoryFails, Finished
<1>4. CASE Normalize(q)
  <2>1. /\ stage[q] = "normalize" /\ ~Finished(q) /\ command' = command
        /\ Continue(q, "intent") \/ FailApp(q)
    BY <1>4 DEF Normalize, Finished
  <2>2. QED
    BY <2>1, ContinueTells, FailTells
<1>5. CASE Intent(q)
  <2>1. stage[q] = "intent" /\ ~Finished(q) /\ command' = command /\ Continue(q, "schema")
    BY <1>5 DEF Intent, Finished
  <2>2. QED
    BY <2>1, ContinueTells
<1>6. CASE Schema(q)
  <2>1. /\ stage[q] = "schema" /\ ~Finished(q) /\ command' = command
        /\ Continue(q, "retrieval") \/ FailApp(q) \/ FailInternal(q)
    BY <1>6 DEF Schema, Finished
  <2>2. QED
    BY <2>1, ContinueTells, FailTells
<1>7. CASE Retrieve(q)
  <2>1. /\ stage[q] = "retrieval" /\ ~Finished(q) /\ command' = command
        /\ Continue(q, "generation") \/ FailApp(q)
    BY <1>7 DEF Retrieve, Finished
  <2>2. QED
    BY <2>1, ContinueTells, FailTells
<1>8. CASE Generate(q)
  <2>1. /\ stage[q] = "generation" /\ ~Finished(q) /\ command' = command
        /\ entry[q].status = "not_executed" /\ entry[q].error = "none"
        /\ audit[q] = <<>> /\ response[q] = "none"
    BY <1>8 DEF Generate, Finished, Told
  <2>2. PICK e \in Entries : e = [entry[q] EXCEPT !.passed = TRUE]
    <3>1. entry[q] \in Entries
      BY DEF TypeOK
    <3>2. [entry[q] EXCEPT !.passed = TRUE] \in Entries
      BY <3>1 DEF Entries
    <3>3. QED
      BY <3>2
  <2>3. e.passed /\ e.status = "not_executed" /\ e.error = "none"
    <3>1. entry[q] \in Entries
      BY DEF TypeOK
    <3>2. QED
      BY <2>1, <2>2, <3>1 DEF Entries
  <2>4. CASE command[q].validateOnly /\ Return(q, e, "validated")
    <3>1. PICK f : f = [e EXCEPT !.tokens = spent'[q]]
      OBVIOUS
    <3>2. /\ f.status = e.status /\ f.passed = e.passed /\ f.error = e.error
          /\ f.tokens = spent'[q]
      BY <3>1 DEF Entries
    <3>3. End(q, f, "validated")
      BY <2>4, <3>1 DEF Return
    <3>4. Matches(f, "validated")
      BY <2>3, <3>2 DEF Matches
    <3>5. QED
      BY <2>1, <3>2, <3>3, <3>4, EndTells
  <2>5. CASE /\ ~command[q].validateOnly
             /\ entry' = [entry EXCEPT ![q] = e]
             /\ Goto(q, "execution")
             /\ UNCHANGED <<response, audit>>
    <3>1. entry'[q] = e /\ stage'[q] = "execution" /\ response' = response /\ audit' = audit
      BY <2>5 DEF Goto, TypeOK
    <3>2. QED
      BY <2>1, <2>3, <2>5, <3>1 DEF Told, Finished
  <2>6. CASE FailApp(q) \/ FailInternal(q)
    BY <2>1, <2>6, FailTells
  <2>7. QED
    BY <1>8, <2>2, <2>4, <2>5, <2>6 DEF Generate
<1>9. CASE Execute(q)
  <2>1. /\ stage[q] = "execution" /\ ~Finished(q) /\ command' = command
        /\ entry[q].passed /\ ~command[q].validateOnly /\ entry[q].error = "none"
        /\ audit[q] = <<>> /\ response[q] = "none"
    BY <1>9 DEF Execute, Finished, Told
  <2>2. CASE /\ entry' = [entry EXCEPT ![q].status = "succeeded"]
             /\ Goto(q, "answer")
             /\ UNCHANGED <<response, audit>>
    <3>1. PICK e \in Entries : e = entry[q]
      BY DEF TypeOK
    <3>2. PICK f : f = [e EXCEPT !.status = "succeeded"]
      OBVIOUS
    <3>3. f.status = "succeeded" /\ f.passed = e.passed /\ f.error = e.error
      BY <3>2 DEF Entries
    <3>4. entry'[q] = f /\ stage'[q] = "answer" /\ response' = response /\ audit' = audit
      BY <2>2, <3>1, <3>2 DEF Goto, TypeOK
    <3>5. QED
      BY <2>1, <3>1, <3>3, <3>4 DEF Told, Finished
  <2>3. CASE FailApp(q) \/ FailInternal(q)
    BY <2>1, <2>3, FailTells
  <2>4. QED
    BY <1>9, <2>2, <2>3 DEF Execute
<1>10. CASE Answer(q)
  <2>1. /\ stage[q] = "answer" /\ ~Finished(q) /\ command' = command
        /\ Return(q, entry[q], "answered") \/ Continue(q, "recording")
    BY <1>10 DEF Answer, Finished
  <2>2. QED
    BY <2>1, AnswerTells, ContinueTells
<1>11. CASE Recorded(q)
  BY <1>11, AnswerTells DEF Recorded
<1>12. CASE Deliver(q)
  BY <1>12 DEF Deliver, Goto, Told, Finished, TypeOK
<1>13. CASE StoreTurn(q)
  BY <1>13 DEF StoreTurn, Told, Finished
<1>14. CASE Cancel(q)
  BY <1>14 DEF Cancel, Goto, Told, Finished, TypeOK
<1>15. QED
  BY <1>1, <1>2, <1>3, <1>4, <1>5, <1>6, <1>7, <1>8, <1>9, <1>10, <1>11, <1>12, <1>13,
     <1>14 DEF Step

\* What is told of every question stays true, whoever takes a step.
LEMMA TellingPreserved == TypeOK /\ Telling /\ [Next]_vars => Telling'
<1> SUFFICES ASSUME TypeOK, \A p \in Questions : Told(p), [Next]_vars,
                    NEW p \in Questions
             PROVE  Told(p)'
  BY DEF Telling
<1>1. ASSUME NEW q \in Questions, Ask(q) \/ Step(q) \/ StoreTurn(q) \/ Cancel(q)
      PROVE  Told(p)'
  <2>1. CASE p = q
    BY <1>1, <2>1, ToldByOwnStep
  <2>2. CASE p # q
    BY <1>1, <2>2, OthersKeep DEF Told, Finished
  <2>3. QED
    BY <2>1, <2>2
<1>2. ASSUME NEW c \in Conversations, Expire(c)
      PROVE  Told(p)'
  BY <1>2 DEF Expire, Told, Finished
<1>3. CASE UNCHANGED vars
  BY <1>3 DEF vars, Told, Finished
<1>4. QED
  BY <1>1, <1>2, <1>3 DEF Next, Over

\* What is told of every question, at every moment.
THEOREM AlwaysTold == Spec => []Telling
<1>1. Init => Telling
  BY DEF Init, Telling, Told, Finished
<1>2. QED
  BY <1>1, TypeCorrect, TellingPreserved, PTL DEF Spec

\* One record per question, made before anything is delivered.
THEOREM AuditedOnceHolds == Spec => []AuditedOnce
<1>1. Telling => AuditedOnce
  <2> SUFFICES ASSUME Telling, NEW q \in Questions
               PROVE  Len(audit[q]) <= 1 /\ (Delivered(q) => Len(audit[q]) = 1)
    BY DEF AuditedOnce
  <2>1. Len(<<entry[q]>>) = 1 /\ Len(<<>>) = 0
    OBVIOUS
  <2>2. Delivered(q) => audit[q] = <<entry[q]>>
    BY DEF Telling, Delivered, Ended, Told, Finished
  <2>3. audit[q] = <<>> \/ audit[q] = <<entry[q]>>
    BY DEF Telling, Told
  <2>4. CASE audit[q] = <<>>
    <3>1. audit[q] # <<entry[q]>> /\ Len(audit[q]) = 0
      BY <2>1, <2>4
    <3>2. QED
      BY <2>2, <3>1
  <2>5. CASE audit[q] = <<entry[q]>>
    <3>1. Len(audit[q]) = 1
      BY <2>1, <2>5
    <3>2. QED
      BY <3>1
  <2>6. QED
    BY <2>3, <2>4, <2>5
<1>2. QED
  BY <1>1, AlwaysTold, PTL

\* The record of a delivered reply says what the reply was.
THEOREM AuditTellsOutcomeHolds == Spec => []AuditTellsOutcome
<1>1. Telling => AuditTellsOutcome
  <2> SUFFICES ASSUME Telling, NEW q \in Questions, Delivered(q)
               PROVE  LET e == Last(audit[q]) IN
                      CASE response[q] = "answered"  ->
                               e.status = "succeeded" /\ e.passed /\ e.error = "none"
                        [] response[q] = "validated" ->
                               e.status = "not_executed" /\ e.passed /\ e.error = "none"
                        [] OTHER -> e.status = "failed" /\ e.error # "none"
    BY DEF AuditTellsOutcome
  <2>1. audit[q] = <<entry[q]>> /\ Matches(entry[q], response[q])
    BY DEF Telling, Delivered, Ended, Told, Finished
  <2>2. Last(audit[q]) = entry[q]
    BY <2>1 DEF Last
  <2>3. QED
    BY <2>1, <2>2 DEF Matches
<1>2. QED
  BY <1>1, AlwaysTold, PTL

\* Only the handler for unexpected errors records fewer tokens than were spent.
THEOREM AuditCountsTokensHolds == Spec => []AuditCountsTokens
<1>1. Telling => AuditCountsTokens
  <2> SUFFICES ASSUME Telling, NEW q \in Questions, NEW i \in DOMAIN audit[q],
                      audit[q][i].error # "internal_error"
               PROVE  audit[q][i].tokens = spent[q]
    BY DEF AuditCountsTokens
  <2>1. CASE audit[q] = <<>>
    BY <2>1
  <2>2. CASE audit[q] # <<>>
    <3>1. audit[q] = <<entry[q]>>
      BY <2>2 DEF Telling, Told
    <3>2. audit[q][i] = entry[q]
      BY <3>1
    <3>3. QED
      BY <2>2, <3>2 DEF Telling, Told
  <2>3. QED
    BY <2>1, <2>2
<1>2. QED
  BY <1>1, AlwaysTold, PTL

-----------------------------------------------------------------------------
\* A turn is stored of a query that ran, once, and before its answer is delivered:
\* only a cancelled question leaves a thread behind that is still storing.
Ran(q) ==
    entry[q].status = "succeeded" /\ entry[q].error = "none" /\ ~command[q].validateOnly

Kept(q) ==
    /\ q \in writing => /\ Remembers(q) /\ Ran(q) /\ q \notin stored
                        /\ stage[q] \in {"recording", "ended"}
                        /\ response[q] \in {"none", "cancelled"}
    /\ q \in stored => /\ Remembers(q) /\ Ran(q)
                       /\ stage[q] \in {"recording", "auditing", "ended"}
                       /\ response[q] \in {"none", "answered", "cancelled"}

Keeping == \A q \in Questions : Kept(q)

\* No question stores another's turn.
LEMMA OthersKept ==
  ASSUME NEW q \in Questions, NEW p \in Questions, p # q,
         Ask(q) \/ Step(q) \/ StoreTurn(q) \/ Cancel(q)
  PROVE  (p \in writing' <=> p \in writing) /\ (p \in stored' <=> p \in stored)
<1> USE DEF memory, history
<1>1. CASE Ask(q) \/ Cancel(q) \/ Deliver(q) \/ Recorded(q) \/ ReadHistory(q) \/ HistoryFails(q)
           \/ NoHistory(q)
  BY <1>1 DEF Ask, Cancel, Deliver, Recorded, ReadHistory, HistoryFails, NoHistory
<1>2. CASE Normalize(q) \/ Intent(q) \/ Schema(q) \/ Retrieve(q) \/ Generate(q) \/ Execute(q)
  BY <1>2 DEF Normalize, Intent, Schema, Retrieve, Generate, Execute
<1>3. CASE Answer(q)
  BY <1>3 DEF Answer, Remember
<1>4. CASE StoreTurn(q)
  BY <1>4 DEF StoreTurn, Remember
<1>5. QED
  BY <1>1, <1>2, <1>3, <1>4 DEF Step

\* An answer that is returned keeps what the entry says of the query.
LEMMA AnswerRan ==
  ASSUME TypeOK, NEW q \in Questions, Ran(q), command' = command, Return(q, entry[q], "answered")
  PROVE  Ran(q)' /\ response'[q] = "answered" /\ stage'[q] \in {"auditing", "ended"}
<1>1. PICK e \in Entries : e = entry[q]
  BY DEF TypeOK
<1>2. PICK f : f = [e EXCEPT !.tokens = spent'[q]]
  OBVIOUS
<1>3. f.status = e.status /\ f.error = e.error
  BY <1>2 DEF Entries
<1>4. entry'[q] = f /\ response'[q] = "answered" /\ stage'[q] \in {"auditing", "ended"}
  BY <1>1, <1>2 DEF Return, End, Goto, TypeOK
<1>5. QED
  BY <1>1, <1>3, <1>4 DEF Ran

\* Each step of a question, and of the thread that stores its turn, keeps that true.
LEMMA KeptByOwnStep ==
  ASSUME TypeOK, NEW q \in Questions, Told(q), Kept(q),
         Ask(q) \/ Step(q) \/ StoreTurn(q) \/ Cancel(q)
  PROVE  Kept(q)'
<1> USE DEF memory, history
<1>1. CASE \/ Ask(q) \/ ReadHistory(q) \/ HistoryFails(q) \/ NoHistory(q) \/ Normalize(q)
           \/ Intent(q) \/ Schema(q) \/ Retrieve(q) \/ Generate(q) \/ Execute(q)
  <2>1. writing' = writing /\ stored' = stored
    BY <1>1 DEF Ask, ReadHistory, HistoryFails, NoHistory, Normalize, Intent, Schema,
                Retrieve, Generate, Execute
  <2>2. stage[q] \notin {"answer", "recording", "auditing", "ended"}
    BY <1>1 DEF Ask, ReadHistory, HistoryFails, NoHistory, Normalize, Intent, Schema,
                Retrieve, Generate, Execute
  <2>3. q \notin writing /\ q \notin stored
    BY <2>2 DEF Kept
  <2>4. QED
    BY <2>1, <2>3 DEF Kept
<1>2. CASE Answer(q)
  <2>1. /\ stage[q] = "answer" /\ q \notin writing /\ q \notin stored
        /\ command' = command /\ settings' = settings
    BY <1>2 DEF Answer, Kept
  <2>2. Ran(q) /\ response[q] = "none"
    BY <2>1 DEF Told, Finished, Ran
  <2>3. CASE Return(q, entry[q], "answered") /\ writing' = writing /\ stored' = stored
    BY <2>1, <2>3 DEF Kept
  <2>4. CASE /\ Return(q, entry[q], "answered") /\ writing' = writing
             /\ Remembers(q) /\ Remember(q)
    <3>1. Ran(q)' /\ response'[q] = "answered" /\ stage'[q] \in {"auditing", "ended"}
      BY <2>1, <2>2, <2>4, AnswerRan
    <3>2. QED
      BY <2>1, <2>4, <3>1 DEF Kept, Remembers, Conversation
  <2>5. CASE /\ writing' = writing \cup {q} /\ stored' = stored /\ Remembers(q)
             /\ Continue(q, "recording")
    <3>1. stage'[q] = "recording" /\ entry' = entry /\ response' = response
      BY <2>5 DEF Continue, Goto, TypeOK
    <3>2. QED
      BY <2>1, <2>2, <2>5, <3>1 DEF Kept, Ran, Remembers, Conversation
  <2>6. QED
    BY <1>2, <2>3, <2>4, <2>5 DEF Answer
<1>3. CASE Recorded(q)
  <2>1. /\ stage[q] = "recording" /\ q \notin writing
        /\ command' = command /\ settings' = settings /\ writing' = writing /\ stored' = stored
        /\ Return(q, entry[q], "answered")
    BY <1>3 DEF Recorded
  <2>2. Ran(q)
    BY <2>1 DEF Told, Finished, Ran
  <2>3. Ran(q)' /\ response'[q] = "answered" /\ stage'[q] \in {"auditing", "ended"}
    BY <2>1, <2>2, AnswerRan
  <2>4. QED
    BY <2>1, <2>3 DEF Kept, Remembers, Conversation
<1>4. CASE StoreTurn(q)
  <2>1. /\ q \in writing /\ writing' = writing \ {q}
        /\ UNCHANGED <<settings, command, stage, entry, response>>
        /\ stored' = stored \cup {q} \/ stored' = stored
    BY <1>4 DEF StoreTurn, Remember
  <2>2. QED
    BY <2>1 DEF Kept, Ran, Remembers, Conversation
<1>5. CASE Deliver(q)
  <2>1. stage[q] = "auditing" /\ stage'[q] = "ended"
    BY <1>5 DEF Deliver, Goto, TypeOK
  <2>2. QED
    BY <1>5, <2>1 DEF Deliver, Kept, Ran, Remembers, Conversation
<1>6. CASE Cancel(q)
  <2>1. stage'[q] = "ended" /\ response'[q] = "cancelled"
    BY <1>6 DEF Cancel, Goto, TypeOK
  <2>2. QED
    BY <1>6, <2>1 DEF Cancel, Kept, Ran, Remembers, Conversation
<1>7. QED
  BY <1>1, <1>2, <1>3, <1>4, <1>5, <1>6 DEF Step

\* It stays true of every question, whoever takes a step.
LEMMA KeepingPreserved == TypeOK /\ Telling /\ Keeping /\ [Next]_vars => Keeping'
<1> SUFFICES ASSUME TypeOK, Telling, Keeping, [Next]_vars, NEW p \in Questions
             PROVE  Kept(p)'
  BY DEF Keeping
<1>1. Told(p) /\ Kept(p)
  BY DEF Telling, Keeping
<1>2. ASSUME NEW q \in Questions, Ask(q) \/ Step(q) \/ StoreTurn(q) \/ Cancel(q)
      PROVE  Kept(p)'
  <2>1. CASE p = q
    BY <1>1, <1>2, <2>1, KeptByOwnStep
  <2>2. CASE p # q
    BY <1>1, <1>2, <2>2, OthersKeep, OthersKept DEF Kept, Ran, Remembers, Conversation
  <2>3. QED
    BY <2>1, <2>2
<1>3. ASSUME NEW c \in Conversations, Expire(c)
      PROVE  Kept(p)'
  BY <1>1, <1>3 DEF Expire, Kept, Ran, Remembers, Conversation
<1>4. CASE UNCHANGED vars
  BY <1>1, <1>4 DEF vars, memory, history, Kept, Ran, Remembers, Conversation
<1>5. QED
  BY <1>2, <1>3, <1>4 DEF Next, Over

\* What is stored, or being stored, of every question at every moment.
THEOREM AlwaysKept == Spec => []Keeping
<1>1. Init => Keeping
  BY DEF Init, Keeping, Kept
<1>2. QED
  BY <1>1, TypeCorrect, AlwaysTold, KeepingPreserved, PTL DEF Spec

-----------------------------------------------------------------------------
\* A store that trims at every append holds the latest of the turns ever stored and
\* not expired; a conversation has the turns of its own questions, each once.
InOrder(c) ==
    /\ turns[c] = LastOf(live[c], settings.limit)
    /\ \A i \in DOMAIN live[c] : live[c][i] \in stored /\ Conversation(live[c][i]) = c
    /\ \A i, j \in DOMAIN live[c] : live[c][i] = live[c][j] => i = j

Ordering == \A c \in Conversations : InOrder(c)

\* Storing a turn keeps the order.
LEMMA RememberOrders ==
  ASSUME TypeOK, Ordering, NEW q \in Questions, Remembers(q), q \notin stored, Remember(q),
         settings' = settings, command' = command
  PROVE  Ordering'
<1> SUFFICES ASSUME NEW c \in Conversations
             PROVE  InOrder(c)'
  BY DEF Ordering
<1>1. InOrder(c)
  BY DEF Ordering
<1>2. CASE c = Conversation(q)
  <2>1. PICK all \in Seq(Questions) : all = live[c]
    BY DEF TypeOK
  <2>2. PICK more \in Seq(Questions) : more = Append(all, q)
    BY AppendProperties
  <2>3. /\ Len(all) \in Nat /\ Len(more) = Len(all) + 1
        /\ DOMAIN all = 1..Len(all) /\ DOMAIN more = 1..(Len(all) + 1)
        /\ \A i \in 1..Len(all) : more[i] = all[i]
        /\ more[Len(all) + 1] = q
    BY <2>2, AppendProperties, LenProperties
  <2>4. /\ live' = [live EXCEPT ![c] = Append(@, q)]
        /\ turns' = [turns EXCEPT ![c] = LastOf(Append(@, q), settings.limit)]
        /\ stored' = stored \cup {q}
    BY <1>2 DEF Remember
  <2>5. live'[c] = more
    BY <2>1, <2>2, <2>4 DEF TypeOK
  <2>6. turns'[c] = LastOf(more, settings.limit)
    <3>1. turns'[c] = LastOf(Append(turns[c], q), settings.limit)
      BY <2>4 DEF TypeOK
    <3>2. turns[c] = LastOf(all, settings.limit)
      BY <1>1, <2>1 DEF InOrder
    <3>3. LastOf(Append(LastOf(all, settings.limit), q), settings.limit)
            = LastOf(Append(all, q), settings.limit)
      BY LastOfAppend, Values
    <3>4. QED
      BY <2>2, <3>1, <3>2, <3>3
  <2>7. \A i \in 1..Len(all) : all[i] \in stored /\ Conversation(all[i]) = c
    BY <1>1, <2>1, <2>3 DEF InOrder
  <2>8. ASSUME NEW i \in DOMAIN more
        PROVE  more[i] \in stored' /\ Conversation(more[i])' = c
    <3>1. i = Len(all) + 1 \/ i \in 1..Len(all)
      BY <2>3
    <3>2. QED
      BY <1>2, <2>3, <2>4, <2>7, <3>1 DEF Conversation
  <2>9. ASSUME NEW i \in DOMAIN more, NEW j \in DOMAIN more, more[i] = more[j]
        PROVE  i = j
    <3>1. /\ i = Len(all) + 1 \/ i \in 1..Len(all)
          /\ j = Len(all) + 1 \/ j \in 1..Len(all)
      BY <2>3
    <3>2. \A k \in 1..Len(all) : more[k] # q
      BY <2>3, <2>7
    <3>3. \A k, l \in 1..Len(all) : all[k] = all[l] => k = l
      BY <1>1, <2>1, <2>3 DEF InOrder
    <3>4. QED
      BY <2>3, <2>9, <3>1, <3>2, <3>3
  <2>10. QED
    BY <2>5, <2>6, <2>8, <2>9 DEF InOrder, Conversation
<1>3. CASE c # Conversation(q)
  <2>1. live'[c] = live[c] /\ turns'[c] = turns[c] /\ stored \subseteq stored'
    BY <1>3 DEF Remember, TypeOK
  <2>2. QED
    BY <1>1, <2>1 DEF InOrder, Conversation
<1>4. QED
  BY <1>2, <1>3

\* The oldest turn that expires leaves the store only if the store still holds it.
LEMMA ExpireOrders ==
  ASSUME TypeOK, Ordering, NEW d \in Conversations, Expire(d)
  PROVE  Ordering'
<1> SUFFICES ASSUME NEW c \in Conversations
             PROVE  InOrder(c)'
  BY DEF Ordering
<1>1. InOrder(c)
  BY DEF Ordering
<1>2. CASE c = d
  <2>1. PICK all \in Seq(Questions) : all = live[c] /\ all # <<>>
    BY <1>2 DEF TypeOK, Expire
  <2>2. PICK rest \in Seq(Questions) : rest = Tail(all)
    BY <2>1, HeadTailProperties
  <2>3. /\ Len(all) \in Nat /\ Len(all) > 0 /\ Len(rest) = Len(all) - 1
        /\ DOMAIN all = 1..Len(all) /\ DOMAIN rest = 1..Len(rest)
        /\ \A i \in 1..Len(rest) : rest[i] = all[i + 1]
        /\ Head(all) = all[1]
    BY <2>1, <2>2, HeadTailProperties, LenProperties, EmptySeq
  <2>4. \A i, j \in 1..Len(all) : all[i] = all[j] => i = j
    BY <1>1, <2>1, <2>3 DEF InOrder
  <2>5. PICK now \in Seq(Questions) : now = turns[c] /\ now = LastOf(all, settings.limit)
    BY <1>1, <2>1 DEF InOrder, TypeOK
  <2>6. /\ live'[c] = rest /\ settings' = settings /\ stored' = stored /\ command' = command
        /\ turns'[c] = IF now # <<>> /\ Head(now) = all[1] THEN Tail(now) ELSE now
    BY <1>2, <2>1, <2>2, <2>3, <2>5 DEF Expire, TypeOK
  <2>7. turns'[c] = LastOf(rest, settings.limit)
    <3>1. PICK n \in Nat \ {0} : n = settings.limit
      BY Values
    <3>2. CASE Len(all) > n
      <4>1. /\ Len(now) = n /\ now[1] = all[Len(all) - n + 1]
        <5>1. /\ Len(now) = n
              /\ \A i \in 1..n : now[i] = all[Len(all) - n + i]
          <6>1. now = LastOf(all, n)
            BY <2>5, <3>1
          <6>2. QED
            BY <3>2, <6>1, LastOfLong
        <5>2. 1 \in 1..n
          BY <3>1
        <5>3. QED
          BY <5>1, <5>2
      <4>2. now # <<>> /\ Head(now) = now[1]
        BY <3>1, <4>1, EmptySeq, HeadTailProperties
      <4>3. Len(all) - n + 1 \in 1..Len(all) /\ Len(all) - n + 1 # 1 /\ 1 \in 1..Len(all)
        BY <2>3, <3>1, <3>2
      <4>4. Head(now) # all[1]
        BY <2>4, <4>1, <4>2, <4>3
      <4>5. LastOf(rest, n) = LastOf(all, n)
        BY <2>1, <2>2, <3>2, LastOfTail
      <4>6. QED
        BY <2>5, <2>6, <3>1, <4>4, <4>5
    <3>3. CASE Len(all) <= n
      <4>1. now = all
        BY <2>5, <3>1, <3>3, LastOfShort
      <4>2. Len(rest) <= n
        BY <2>3, <3>1, <3>3
      <4>3. LastOf(rest, n) = rest
        BY <4>2, LastOfShort
      <4>4. QED
        BY <2>1, <2>2, <2>3, <2>6, <3>1, <4>1, <4>3
    <3>4. QED
      BY <2>3, <3>1, <3>2, <3>3
  <2>8. ASSUME NEW i \in DOMAIN rest
        PROVE  /\ rest[i] = all[i + 1] /\ i + 1 \in DOMAIN all
               /\ rest[i] \in stored /\ Conversation(rest[i]) = c
    <3>1. rest[i] = all[i + 1] /\ i + 1 \in DOMAIN all
      BY <2>3
    <3>2. QED
      BY <1>1, <2>1, <3>1 DEF InOrder
  <2>9. ASSUME NEW i \in DOMAIN rest, NEW j \in DOMAIN rest, rest[i] = rest[j]
        PROVE  i = j
    <3>1. i + 1 = j + 1
      BY <2>3, <2>4, <2>8, <2>9
    <3>2. i \in Nat /\ j \in Nat
      BY <2>3
    <3>3. QED
      BY <3>1, <3>2
  <2>10. QED
    BY <2>6, <2>7, <2>8, <2>9 DEF InOrder, Conversation
<1>3. CASE c # d
  <2>1. live'[c] = live[c] /\ turns'[c] = turns[c]
    BY <1>3 DEF Expire, TypeOK
  <2>2. QED
    BY <1>1, <1>3, <2>1 DEF InOrder, Conversation, Expire
<1>4. QED
  BY <1>2, <1>3

\* A question's step leaves the store alone or stores its turn, for the first time.
LEMMA StoreSteps ==
  ASSUME NEW q \in Questions, Kept(q), Ask(q) \/ Step(q) \/ StoreTurn(q) \/ Cancel(q)
  PROVE  /\ settings' = settings /\ command' = command /\ expired' = expired
         /\ \/ turns' = turns /\ live' = live /\ stored' = stored
            \/ Remembers(q) /\ q \notin stored /\ Remember(q)
               /\ (q \in writing \/ stage[q] = "answer")
<1> USE DEF memory, history
<1>1. CASE Ask(q) \/ Cancel(q) \/ Deliver(q) \/ Recorded(q) \/ ReadHistory(q) \/ HistoryFails(q)
           \/ NoHistory(q)
  BY <1>1 DEF Ask, Cancel, Deliver, Recorded, ReadHistory, HistoryFails, NoHistory
<1>2. CASE Normalize(q) \/ Intent(q) \/ Schema(q) \/ Retrieve(q) \/ Generate(q) \/ Execute(q)
  BY <1>2 DEF Normalize, Intent, Schema, Retrieve, Generate, Execute
<1>3. CASE Answer(q)
  <2>1. stage[q] = "answer" /\ q \notin stored
    BY <1>3 DEF Answer, Kept
  <2>2. QED
    BY <1>3, <2>1 DEF Answer
<1>4. CASE StoreTurn(q)
  <2>1. q \in writing /\ Remembers(q) /\ q \notin stored
    BY <1>4 DEF StoreTurn, Kept
  <2>2. QED
    BY <1>4, <2>1 DEF StoreTurn
<1>5. QED
  BY <1>1, <1>2, <1>3, <1>4 DEF Step

\* Every step keeps the order, since no turn is stored twice.
LEMMA OrderingPreserved == TypeOK /\ Keeping /\ Ordering /\ [Next]_vars => Ordering'
<1> SUFFICES ASSUME TypeOK, Keeping, Ordering, [Next]_vars
             PROVE  Ordering'
  OBVIOUS
<1>1. CASE UNCHANGED <<settings, command, turns, live, stored>>
  BY <1>1 DEF Ordering, InOrder, Conversation
<1>2. ASSUME NEW q \in Questions, Ask(q) \/ Step(q) \/ StoreTurn(q) \/ Cancel(q)
      PROVE  Ordering'
  <2>1. Kept(q)
    BY DEF Keeping
  <2>2. QED
    BY <1>1, <1>2, <2>1, StoreSteps, RememberOrders
<1>3. ASSUME NEW c \in Conversations, Expire(c)
      PROVE  Ordering'
  BY <1>3, ExpireOrders
<1>4. CASE UNCHANGED vars
  BY <1>1, <1>4 DEF vars, memory, history
<1>5. QED
  BY <1>2, <1>3, <1>4 DEF Next, Over

\* The store holds the latest turns of each conversation at every moment.
THEOREM AlwaysInOrder == Spec => []Ordering
<1>1. Init => Ordering
  <2> SUFFICES ASSUME Init, NEW c \in Conversations
               PROVE  InOrder(c)
    BY DEF Ordering
  <2>1. turns[c] = <<>> /\ live[c] = <<>>
    BY DEF Init
  <2>2. settings.limit \in Nat
    BY PipelineAssumption DEF Init, AllSettings
  <2>3. <<>> \in Seq(Questions) /\ Len(<<>>) = 0
    BY EmptySeq
  <2>4. LastOf(<<>>, settings.limit) = <<>>
    <3>1. Len(<<>>) <= settings.limit
      BY <2>2, <2>3
    <3>2. QED
      BY <2>2, <2>3, <3>1, LastOfShort
  <2>5. QED
    BY <2>1, <2>4 DEF InOrder
<1>2. QED
  BY <1>1, TypeCorrect, AlwaysKept, OrderingPreserved, PTL DEF Spec

-----------------------------------------------------------------------------
\* Only what ran is remembered, in the conversation it was asked in.
THEOREM TurnsAreAnswersHold == Spec => []TurnsAreAnswers
<1>1. TypeOK /\ Keeping /\ Ordering => TurnsAreAnswers
  <2> SUFFICES ASSUME TypeOK, Keeping, Ordering, NEW c \in Conversations,
                      NEW i \in DOMAIN turns[c]
               PROVE  LET q == turns[c][i] IN
                      /\ Conversation(q) = c /\ ~command[q].validateOnly
                      /\ entry[q].status = "succeeded" /\ entry[q].error = "none"
                      /\ response[q] \in {"none", "answered", "cancelled"}
    BY DEF TurnsAreAnswers
  <2>1. PICK q \in Questions : q = turns[c][i]
    <3>1. turns[c] \in Seq(Questions)
      BY DEF TypeOK
    <3>2. QED
      BY <3>1, ElementOfSeq, LenProperties
  <2>2. q \in stored /\ Conversation(q) = c
    <3>1. InOrder(c)
      BY DEF Ordering
    <3>2. PICK all \in Seq(Questions) : all = live[c]
      BY DEF TypeOK
    <3>3. PICK n \in Nat : n = settings.limit
      BY Values
    <3>4. \E j \in DOMAIN all : turns[c][i] = all[j]
      <4>1. Len(all) \in Nat /\ DOMAIN all = 1..Len(all)
        BY LenProperties
      <4>2. CASE Len(all) <= n
        BY <3>1, <3>2, <3>3, <4>2, LastOfShort DEF InOrder
      <4>3. CASE Len(all) > n
        <5>1. /\ turns[c] \in Seq(Questions) /\ Len(turns[c]) = n
              /\ \A k \in 1..n : turns[c][k] = all[Len(all) - n + k]
          <6>1. turns[c] = LastOf(all, n)
            BY <3>1, <3>2, <3>3 DEF InOrder
          <6>2. QED
            BY <4>3, <6>1, LastOfLong
        <5>2. i \in 1..n
          BY <5>1, LenProperties
        <5>3. Len(all) - n + i \in DOMAIN all
          BY <4>1, <4>3, <5>2
        <5>4. QED
          BY <5>1, <5>2, <5>3
      <4>4. QED
        BY <4>1, <4>2, <4>3
    <3>5. QED
      BY <2>1, <3>1, <3>2, <3>4 DEF InOrder
  <2>3. Ran(q) /\ response[q] \in {"none", "answered", "cancelled"}
    BY <2>2 DEF Keeping, Kept
  <2>4. QED
    BY <2>1, <2>2, <2>3 DEF Ran
<1>2. QED
  BY <1>1, TypeCorrect, AlwaysKept, AlwaysInOrder, PTL

\* What a question is given is what its history was read from.
LEMMA SeenPreserved == TypeOK /\ Ordering /\ HistoryIsLatest /\ [Next]_vars => HistoryIsLatest'
<1> SUFFICES ASSUME TypeOK, Ordering, HistoryIsLatest, [Next]_vars
             PROVE  HistoryIsLatest'
  OBVIOUS
<1> USE DEF memory, history
<1>1. CASE UNCHANGED <<settings, seen, asOf>>
  BY <1>1 DEF HistoryIsLatest
<1>2. ASSUME NEW q \in Questions, ReadHistory(q)
      PROVE  HistoryIsLatest'
  <2>1. PICK c \in Conversations : c = Conversation(q)
    BY <1>2, Values DEF ReadHistory
  <2>2. PICK all \in Seq(Questions) : all = live[c]
    BY DEF TypeOK
  <2>3. PICK m \in Nat, n \in Nat : m = settings.context /\ n = settings.limit
    BY Values
  <2>4. LastOf(turns[c], m) = LastOf(all, IF m < n THEN m ELSE n)
    <3>1. turns[c] = LastOf(all, n)
      BY <2>2, <2>3 DEF Ordering, InOrder
    <3>2. QED
      BY <3>1, LastOfLastOf
  <2>5. /\ settings' = settings
        /\ seen' = [seen EXCEPT ![q] = LastOf(turns[c], m)]
        /\ asOf' = [asOf EXCEPT ![q] = all]
    BY <1>2, <2>1, <2>2, <2>3 DEF ReadHistory
  <2>6. ASSUME NEW p \in Questions
        PROVE  seen'[p] = LastOf(asOf'[p], IF m < n THEN m ELSE n)
    <3>1. CASE p = q
      <4>1. seen'[q] = LastOf(turns[c], m) /\ asOf'[q] = all
        BY <2>5 DEF TypeOK
      <4>2. QED
        BY <2>4, <3>1, <4>1
    <3>2. CASE p # q
      <4>1. seen'[p] = seen[p] /\ asOf'[p] = asOf[p]
        BY <2>5, <3>2 DEF TypeOK
      <4>2. QED
        BY <2>3, <4>1 DEF HistoryIsLatest
    <3>3. QED
      BY <3>1, <3>2
  <2>7. QED
    BY <2>3, <2>5, <2>6 DEF HistoryIsLatest
<1>3. ASSUME NEW q \in Questions, Ask(q) \/ StoreTurn(q) \/ Cancel(q) \/ Deliver(q)
      PROVE  UNCHANGED <<settings, seen, asOf>>
  BY <1>3 DEF Ask, StoreTurn, Cancel, Deliver
<1>4. ASSUME NEW q \in Questions,
             \/ HistoryFails(q) \/ NoHistory(q) \/ Normalize(q) \/ Intent(q) \/ Schema(q)
             \/ Retrieve(q) \/ Generate(q) \/ Execute(q) \/ Answer(q) \/ Recorded(q)
      PROVE  UNCHANGED <<settings, seen, asOf>>
  BY <1>4 DEF HistoryFails, NoHistory, Normalize, Intent, Schema, Retrieve, Generate,
              Execute, Answer, Recorded
<1>5. ASSUME NEW c \in Conversations, Expire(c)
      PROVE  UNCHANGED <<settings, seen, asOf>>
  BY <1>5 DEF Expire
<1>6. CASE UNCHANGED vars
  BY <1>1, <1>6 DEF vars
<1>7. QED
  BY <1>1, <1>2, <1>3, <1>4, <1>5, <1>6 DEF Next, Step, Over

\* Dropping turns as they are stored loses nothing a prompt would show.
THEOREM HistoryIsLatestHolds == Spec => []HistoryIsLatest
<1>1. Init => HistoryIsLatest
  <2> SUFFICES ASSUME Init, NEW q \in Questions
               PROVE  seen[q] = LastOf(asOf[q], IF settings.context < settings.limit
                                                THEN settings.context ELSE settings.limit)
    BY DEF HistoryIsLatest
  <2>1. PICK n \in Nat : n = IF settings.context < settings.limit
                             THEN settings.context ELSE settings.limit
    BY PipelineAssumption DEF Init, AllSettings
  <2>2. <<>> \in Seq(Questions) /\ Len(<<>>) = 0
    BY EmptySeq
  <2>3. LastOf(<<>>, n) = <<>>
    <3>1. Len(<<>>) <= n
      BY <2>1, <2>2
    <3>2. QED
      BY <2>1, <2>2, <3>1, LastOfShort
  <2>4. QED
    BY <2>1, <2>3 DEF Init
<1>2. QED
  BY <1>1, TypeCorrect, AlwaysInOrder, SeenPreserved, PTL DEF Spec

-----------------------------------------------------------------------------
\* A stored turn is in the live turns of its conversation until it expires, and
\* whoever was answered before a question was asked is past storing anything.
Present == \A p \in stored : p \in Range(live[Conversation(p)]) \cup expired

AnsweredEarlier ==
    \A q \in Questions : \A p \in earlier[q] :
        stage[p] = "ended" /\ response[p] = "answered"

\* A turn leaves the live turns of its conversation only by expiring.
LEMMA PresentPreserved == TypeOK /\ Keeping /\ Present /\ [Next]_vars => Present'
<1> SUFFICES ASSUME TypeOK, Keeping, Present, [Next]_vars
             PROVE  Present'
  OBVIOUS
<1>1. CASE UNCHANGED <<command, live, stored, expired>>
  BY <1>1 DEF Present, Conversation
<1>2. ASSUME NEW q \in Questions, Remembers(q), Remember(q),
             command' = command, expired' = expired
      PROVE  Present'
  <2>1. PICK c \in Conversations : c = Conversation(q)
    BY <1>2, Values
  <2>2. PICK all \in Seq(Questions) : all = live[c]
    BY DEF TypeOK
  <2>3. PICK more \in Seq(Questions) : more = Append(all, q)
    BY AppendProperties
  <2>4. /\ Len(all) \in Nat /\ DOMAIN all = 1..Len(all) /\ DOMAIN more = 1..(Len(all) + 1)
        /\ \A i \in 1..Len(all) : more[i] = all[i]
        /\ more[Len(all) + 1] = q
    BY <2>3, AppendProperties, LenProperties
  <2>5. q \in Range(more) /\ Range(all) \subseteq Range(more)
    BY <2>4 DEF Range
  <2>6. /\ live' = [live EXCEPT ![c] = more]
        /\ stored' = stored \cup {q}
    BY <1>2, <2>1, <2>2, <2>3 DEF Remember
  <2>7. ASSUME NEW p \in stored'
        PROVE  p \in Range(live'[Conversation(p)]) \cup expired
    <3>1. CASE Conversation(p) = c
      <4>1. live'[Conversation(p)] = more
        BY <2>6, <3>1 DEF TypeOK
      <4>2. p = q \/ p \in Range(all) \cup expired
        BY <2>2, <2>6, <2>7, <3>1 DEF Present
      <4>3. QED
        BY <2>5, <4>1, <4>2
    <3>2. CASE Conversation(p) # c
      <4>1. p \in stored
        BY <2>1, <2>6, <2>7, <3>2
      <4>2. live'[Conversation(p)] = live[Conversation(p)]
        <5>1. p \in Questions
          BY <4>1 DEF TypeOK
        <5>2. Conversation(p) \in Conversations
          BY <4>1, <5>1, Values DEF Keeping, Kept
        <5>3. QED
          BY <2>6, <3>2, <5>2 DEF TypeOK
      <4>3. QED
        BY <4>1, <4>2 DEF Present
    <3>3. QED
      BY <3>1, <3>2
  <2>8. QED
    BY <1>2, <2>7 DEF Present, Conversation
<1>3. ASSUME NEW q \in Questions, Ask(q) \/ Step(q) \/ StoreTurn(q) \/ Cancel(q)
      PROVE  Present'
  <2>1. Kept(q)
    BY DEF Keeping
  <2>2. QED
    BY <1>1, <1>2, <1>3, <2>1, StoreSteps
<1>4. ASSUME NEW c \in Conversations, Expire(c)
      PROVE  Present'
  <2>1. PICK all \in Seq(Questions) : all = live[c] /\ all # <<>>
    BY <1>4 DEF TypeOK, Expire
  <2>2. PICK rest \in Seq(Questions) : rest = Tail(all)
    BY <2>1, HeadTailProperties
  <2>3. /\ Len(all) \in Nat /\ Len(all) > 0 /\ Len(rest) = Len(all) - 1
        /\ DOMAIN all = 1..Len(all) /\ DOMAIN rest = 1..Len(rest)
        /\ \A i \in 1..Len(rest) : rest[i] = all[i + 1]
        /\ Head(all) = all[1]
    BY <2>1, <2>2, HeadTailProperties, LenProperties, EmptySeq
  <2>4. /\ live' = [live EXCEPT ![c] = rest] /\ expired' = expired \cup {all[1]}
        /\ stored' = stored /\ command' = command
    BY <1>4, <2>1, <2>2, <2>3 DEF Expire
  <2>5. ASSUME NEW i \in 1..Len(all)
        PROVE  all[i] \in Range(rest) \cup {all[1]}
    <3>1. CASE i = 1
      BY <3>1
    <3>2. CASE i # 1
      <4>1. i - 1 \in 1..Len(rest) /\ (i - 1) + 1 = i
        BY <2>3, <3>2
      <4>2. rest[i - 1] = all[i]
        BY <2>3, <4>1
      <4>3. QED
        BY <2>3, <4>1, <4>2 DEF Range
    <3>3. QED
      BY <3>1, <3>2
  <2>6. Range(all) \subseteq Range(rest) \cup {all[1]}
    BY <2>3, <2>5 DEF Range
  <2>7. ASSUME NEW p \in stored
        PROVE  p \in Range(live'[Conversation(p)]) \cup expired'
    <3>1. CASE Conversation(p) = c
      <4>1. live'[Conversation(p)] = rest
        BY <2>4, <3>1 DEF TypeOK
      <4>2. p \in Range(all) \cup expired
        BY <2>1, <3>1 DEF Present
      <4>3. QED
        BY <2>4, <2>6, <4>1, <4>2
    <3>2. CASE Conversation(p) # c
      <4>1. live'[Conversation(p)] = live[Conversation(p)]
        <5>1. p \in Questions
          BY DEF TypeOK
        <5>2. Conversation(p) \in Conversations
          BY <5>1, Values DEF Keeping, Kept
        <5>3. QED
          BY <2>4, <3>2, <5>2 DEF TypeOK
      <4>2. QED
        BY <2>4, <4>1 DEF Present
    <3>3. QED
      BY <3>1, <3>2
  <2>8. QED
    BY <2>4, <2>7 DEF Present, Conversation
<1>5. CASE UNCHANGED vars
  BY <1>1, <1>5 DEF vars, memory, history
<1>6. QED
  BY <1>3, <1>4, <1>5 DEF Next, Over

\* A question that ended takes no step but its thread's.
LEMMA EndedStays ==
  ASSUME TypeOK, [Next]_vars, NEW p \in Questions, stage[p] = "ended"
  PROVE  stage'[p] = "ended" /\ response'[p] = response[p]
<1>1. ASSUME NEW q \in Questions, Ask(q) \/ Step(q) \/ StoreTurn(q) \/ Cancel(q)
      PROVE  stage'[p] = "ended" /\ response'[p] = response[p]
  <2>1. CASE p # q
    BY <1>1, <2>1, OthersKeep
  <2>2. CASE p = q
    <3>1. StoreTurn(q)
      BY <1>1, <2>2 DEF Ask, Cancel, Step, ReadHistory, HistoryFails, NoHistory, Normalize,
                        Intent, Schema, Retrieve, Generate, Execute, Answer, Recorded, Deliver
    <3>2. QED
      BY <3>1 DEF StoreTurn
  <2>3. QED
    BY <2>1, <2>2
<1>2. ASSUME NEW c \in Conversations, Expire(c)
      PROVE  stage'[p] = "ended" /\ response'[p] = response[p]
  BY <1>2 DEF Expire
<1>3. CASE UNCHANGED vars
  BY <1>3 DEF vars
<1>4. QED
  BY <1>1, <1>2, <1>3 DEF Next, Over

\* Only asking changes whom a question comes after, only reading what it has read.
LEMMA ReadOnce ==
  ASSUME TypeOK, [Next]_vars, NEW q \in Questions
  PROVE  /\ settings' = settings /\ command' = command
         /\ earlier'[q] = earlier[q] \/ Ask(q)
         /\ \/ asOf'[q] = asOf[q] /\ (stage'[q] \in WithHistory => stage[q] \in WithHistory)
            \/ ReadHistory(q)
            \/ NoHistory(q)
<1> USE DEF memory, history
<1>1. ASSUME NEW p \in Questions, Ask(p) \/ StoreTurn(p) \/ Cancel(p) \/ Deliver(p)
      PROVE  /\ settings' = settings /\ command' = command /\ asOf' = asOf
             /\ earlier'[q] = earlier[q] \/ Ask(q)
             /\ stage'[q] \in WithHistory => stage[q] \in WithHistory
  <2>1. CASE p = q
    BY <1>1, <2>1 DEF Ask, StoreTurn, Cancel, Deliver, Goto, WithHistory, TypeOK
  <2>2. CASE p # q
    BY <1>1, <2>2 DEF Ask, StoreTurn, Cancel, Deliver, Goto, TypeOK
  <2>3. QED
    BY <2>1, <2>2
<1>2. ASSUME NEW p \in Questions,
             \/ HistoryFails(p) \/ NoHistory(p) \/ Normalize(p) \/ Intent(p) \/ Schema(p)
             \/ Retrieve(p) \/ Generate(p) \/ Execute(p) \/ Answer(p) \/ Recorded(p)
      PROVE  /\ settings' = settings /\ command' = command /\ asOf' = asOf
             /\ earlier' = earlier
  BY <1>2 DEF HistoryFails, NoHistory, Normalize, Intent, Schema, Retrieve, Generate,
              Execute, Answer, Recorded
<1>3. ASSUME NEW p \in Questions,
             \/ Normalize(p) \/ Intent(p) \/ Schema(p) \/ Retrieve(p) \/ Generate(p)
             \/ Execute(p) \/ Answer(p) \/ Recorded(p) \/ HistoryFails(p)
      PROVE  stage'[q] \in WithHistory => stage[q] \in WithHistory
  <2>1. CASE p = q
    <3>1. CASE HistoryFails(p)
      <4>1. stage'[p] \in {"auditing", "ended"}
        BY <3>1 DEF HistoryFails, FailInternal, End, Goto, TypeOK
      <4>2. QED
        BY <2>1, <4>1 DEF WithHistory
    <3>2. CASE ~HistoryFails(p)
      BY <1>3, <2>1, <3>2 DEF Normalize, Intent, Schema, Retrieve, Generate, Execute, Answer,
                              Recorded, WithHistory
    <3>3. QED
      BY <3>1, <3>2
  <2>2. CASE p # q
    BY <1>3, <2>2, OthersKeep DEF Step
  <2>3. QED
    BY <2>1, <2>2
<1>4. ASSUME NEW p \in Questions, ReadHistory(p) \/ NoHistory(p), p # q
      PROVE  /\ settings' = settings /\ command' = command
             /\ earlier'[q] = earlier[q] /\ asOf'[q] = asOf[q] /\ stage'[q] = stage[q]
  BY <1>4, OthersKeep DEF Step, ReadHistory, NoHistory, TypeOK
<1>5. ASSUME ReadHistory(q) \/ NoHistory(q)
      PROVE  settings' = settings /\ command' = command /\ earlier'[q] = earlier[q]
  BY <1>5 DEF ReadHistory, NoHistory
<1>6. ASSUME NEW c \in Conversations, Expire(c)
      PROVE  UNCHANGED <<settings, command, stage, earlier, asOf>>
  BY <1>6 DEF Expire
<1>7. CASE UNCHANGED vars
  BY <1>7 DEF vars
<1>8. QED
  BY <1>1, <1>2, <1>3, <1>4, <1>5, <1>6, <1>7 DEF Next, Step, Over

\* Whoever was answered before a question was asked stays so.
LEMMA EarlierPreserved == TypeOK /\ AnsweredEarlier /\ [Next]_vars => AnsweredEarlier'
<1> SUFFICES ASSUME TypeOK, AnsweredEarlier, [Next]_vars,
                    NEW q \in Questions, NEW p \in earlier'[q]
             PROVE  stage'[p] = "ended" /\ response'[p] = "answered"
  BY DEF AnsweredEarlier
<1>1. p \in Questions /\ stage[p] = "ended" /\ response[p] = "answered"
  <2>1. CASE earlier'[q] = earlier[q]
    BY <2>1 DEF AnsweredEarlier, TypeOK
  <2>2. CASE Ask(q)
    BY <2>2 DEF Ask, Ended, TypeOK
  <2>3. QED
    BY <2>1, <2>2, ReadOnce
<1>2. QED
  BY <1>1, EndedStays

\* The history a question reads holds the turns of those answered before it, and none of
\* them is stored later.
LEMMA RememberedPreserved ==
  TypeOK /\ Keeping /\ Present /\ AnsweredEarlier /\ AnswersAreRemembered /\ [Next]_vars
    => AnswersAreRemembered'
<1> SUFFICES ASSUME TypeOK, Keeping, Present, AnsweredEarlier, AnswersAreRemembered, [Next]_vars,
                    NEW q \in Questions, NEW p \in earlier'[q] \cap stored',
                    Conversation(p)' = Conversation(q)', stage'[q] \in WithHistory
             PROVE  p \in Range(asOf'[q]) \cup expired'
  BY DEF AnswersAreRemembered
<1>1. earlier'[q] = earlier[q]
  <2>1. ASSUME Ask(q)
        PROVE  FALSE
    <3>1. stage'[q] = "history"
      BY <2>1 DEF Ask, Goto, TypeOK
    <3>2. QED
      BY <3>1 DEF WithHistory
  <2>2. QED
    BY <2>1, ReadOnce
<1>2. p \in Questions /\ stage[p] = "ended" /\ response[p] = "answered"
  BY <1>1 DEF AnsweredEarlier, TypeOK
<1>3. p \in stored
  <2>1. p \notin writing
    BY <1>2 DEF Keeping, Kept
  <2>2. ASSUME NEW r \in Questions, Ask(r) \/ Step(r) \/ StoreTurn(r) \/ Cancel(r)
        PROVE  p \in stored
    <3>1. CASE r = p
      <4>1. Kept(r)
        BY DEF Keeping
      <4>2. ~Remember(r) \/ p \in stored
        BY <1>2, <2>1, <2>2, <3>1, <4>1, StoreSteps
      <4>3. QED
        BY <2>2, <4>1, <4>2, StoreSteps
    <3>2. CASE r # p
      BY <1>2, <2>2, <3>2, OthersKept
    <3>3. QED
      BY <3>1, <3>2
  <2>3. ASSUME NEW c \in Conversations, Expire(c)
        PROVE  p \in stored
    BY <2>3 DEF Expire
  <2>4. CASE UNCHANGED vars
    BY <2>4 DEF vars, history
  <2>5. QED
    BY <2>2, <2>3, <2>4 DEF Next, Over
<1>4. /\ settings' = settings /\ command' = command
      /\ Conversation(p) = Conversation(q) /\ Remembers(p) /\ Remembers(q)
  <2>1. settings' = settings /\ command' = command
    BY ReadOnce
  <2>2. Conversation(p) = Conversation(q)
    BY <2>1 DEF Conversation
  <2>3. Remembers(p)
    BY <1>2, <1>3 DEF Keeping, Kept
  <2>4. QED
    BY <2>1, <2>2, <2>3 DEF Remembers
<1>5. expired \subseteq expired'
  <2>1. ASSUME NEW r \in Questions, Ask(r) \/ Step(r) \/ StoreTurn(r) \/ Cancel(r)
        PROVE  expired' = expired
    <3>1. Kept(r)
      BY DEF Keeping
    <3>2. QED
      BY <2>1, <3>1, StoreSteps
  <2>2. ASSUME NEW c \in Conversations, Expire(c)
        PROVE  expired \subseteq expired'
    BY <2>2 DEF Expire
  <2>3. CASE UNCHANGED vars
    BY <2>3 DEF vars, history
  <2>4. QED
    BY <2>1, <2>2, <2>3 DEF Next, Over
<1>6. CASE asOf'[q] = asOf[q] /\ stage[q] \in WithHistory
  <2>1. p \in Range(asOf[q]) \cup expired
    BY <1>1, <1>3, <1>4, <1>6 DEF AnswersAreRemembered
  <2>2. QED
    BY <1>5, <1>6, <2>1
<1>7. CASE ReadHistory(q)
  <2>1. asOf'[q] = live[Conversation(q)] /\ expired' = expired
    BY <1>7 DEF ReadHistory, TypeOK
  <2>2. QED
    BY <1>3, <1>4, <2>1 DEF Present
<1>8. CASE NoHistory(q)
  BY <1>4, <1>8 DEF NoHistory
<1>9. QED
  BY <1>6, <1>7, <1>8, ReadOnce

\* A follow-up finds every answer delivered before it was asked that was stored and
\* has not expired.
THEOREM AnswersAreRememberedHolds == Spec => []AnswersAreRemembered
<1>1. Init => Present /\ AnsweredEarlier /\ AnswersAreRemembered
  BY DEF Init, Present, AnsweredEarlier, AnswersAreRemembered
<1>2. Spec => []Present
  BY <1>1, TypeCorrect, AlwaysKept, PresentPreserved, PTL DEF Spec
<1>3. Spec => []AnsweredEarlier
  BY <1>1, TypeCorrect, EarlierPreserved, PTL DEF Spec
<1>4. QED
  BY <1>1, <1>2, <1>3, TypeCorrect, AlwaysKept, RememberedPreserved, PTL DEF Spec
=============================================================================
