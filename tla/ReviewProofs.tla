---------------------------- MODULE ReviewProofs ----------------------------
(***************************************************************************)
(* Theorems about Review, for any number of reviews, any templates and any *)
(* behaviour of the servers.                                               *)
(***************************************************************************)
EXTENDS Review, SequenceFacts, FiniteSetTheorems, TLAPS

\* The part of TypeOK that the conversation is made of.
Typed ==
    /\ config \in Config
    /\ call \in [Review -> Call]
    /\ pc \in [Review -> PC]
    /\ req \in [Review -> RequestType]
    /\ sent \in [Review -> Seq(RequestType)]
    /\ got \in [Review -> Seq(Outcome)]
    /\ result \in [Review -> Nat]

\* The schema is of use to the adapter of r.
Usable(r) == Adapter[r] = "anthropic" \/ config.schema

\* Every request has been answered, but for one that is waited for.
Answers(r) ==
    /\ pc[r] \in {"start", "log", "build"} => sent[r] = <<>> /\ got[r] = <<>>
    /\ pc[r] = "chat" => Len(got[r]) = Len(sent[r])
    /\ pc[r] = "wait" => Len(sent[r]) = Len(got[r]) + 1 /\ sent[r][Len(sent[r])] = req[r]
    /\ Len(got[r]) <= Len(sent[r])
    /\ Len(sent[r]) <= 3

\* The request being made: the first, what is left of it after a 400, or the
\* correction of the answer that came last.
Pending(r) ==
    /\ req[r].try =>
         /\ req[r].quotes = 0
         /\ Len(got[r]) <= 1
         /\ Len(got[r]) > 0 => got[r][1] = "400" /\ sent[r][1].attempt
    /\ ~req[r].try =>
         /\ Len(got[r]) > 0 /\ Len(got[r]) <= 2
         /\ req[r].quotes = Len(got[r])
         /\ got[r][Len(got[r])] = "bad"
    /\ req[r].attempt => req[r].try /\ got[r] = <<>>
    /\ req[r].format => req[r].attempt
    /\ req[r].attempt /\ Usable(r) => req[r].format

\* Each request that was sent, by its place and what came before it.
History(r) ==
    \A i \in DOMAIN sent[r] :
        /\ sent[r][i].format => i = 1
        /\ sent[r][i].attempt /\ Usable(r) => sent[r][i].format
        /\ sent[r][i].quotes # 0 =>
             /\ i > 1 /\ sent[r][i].quotes = i - 1
             /\ i - 1 <= Len(got[r]) /\ got[r][i - 1] = "bad"
        /\ sent[r][i].quotes = 0 /\ i > 1 =>
             i = 2 /\ Len(got[r]) > 0 /\ got[r][1] = "400" /\ sent[r][1].attempt

\* An answer that parsed is the end.
Ended(r) ==
    /\ \A i \in DOMAIN got[r] : got[r][i] = "good" => pc[r] = "returned"
    /\ pc[r] = "returned" =>
         /\ Len(got[r]) = Len(sent[r]) /\ Len(sent[r]) > 0
         /\ result[r] = Len(sent[r]) /\ got[r][Len(sent[r])] = "good"

Conversation(r) ==
    /\ Answers(r)
    /\ pc[r] \in {"chat", "wait"} => Pending(r)
    /\ History(r)
    /\ Ended(r)

Inv == Typed /\ \A r \in Review : Conversation(r)

LEMMA InvInit == Init => Inv
  BY DEF Init, Inv, Typed, PC, NoRequest, RequestType, Conversation, Answers,
         Pending, History, Ended

\* The body of a request is one.
LEMMA BodyType ==
    ASSUME Typed, NEW r \in Review, NEW try \in BOOLEAN, NEW quotes \in Nat
    PROVE  Body(r, try, quotes) \in RequestType
<1>1. config.schema \in BOOLEAN
  BY ReviewAssumption DEF Typed, ConfigType
<1>2. call[r].model \in Model \cup {NoModel}
  BY ReviewAssumption DEF Typed, CallType
<1>3. QED
  BY <1>1, <1>2 DEF Body, RequestType

\* What a step leaves alone in the other reviews.
Frame(r) ==
    /\ config' = config
    /\ \A s \in Review \ {r} :
         /\ pc'[s] = pc[s] /\ req'[s] = req[s] /\ sent'[s] = sent[s]
         /\ got'[s] = got[s] /\ result'[s] = result[s]

\* Conversations do not disturb one another.
LEMMA OthersGoOn ==
    ASSUME Inv, NEW r \in Review, Frame(r), Typed', Conversation(r)'
    PROVE  Inv'
<1>1. ASSUME NEW s \in Review \ {r} PROVE Conversation(s)'
  <2>1. /\ pc'[s] = pc[s] /\ req'[s] = req[s] /\ sent'[s] = sent[s]
        /\ got'[s] = got[s] /\ result'[s] = result[s] /\ config' = config
    BY DEF Frame
  <2>2. Conversation(s)
    BY DEF Inv
  <2>3. Answers(s)'
    BY <2>1, <2>2 DEF Conversation, Answers
  <2>4. (pc[s] \in {"chat", "wait"} => Pending(s))'
    BY <2>1, <2>2 DEF Conversation, Pending, Usable
  <2>5. History(s)'
    BY <2>1, <2>2 DEF Conversation, History, Usable
  <2>6. Ended(s)'
    BY <2>1, <2>2 DEF Conversation, Ended
  <2>7. QED
    BY <2>3, <2>4, <2>5, <2>6 DEF Conversation
<1>2. QED
  BY <1>1 DEF Inv

\* Steps before the conversation.
LEMMA BeforeChat ==
    ASSUME Inv, NEW r \in Review, Skip(r) \/ Enrich(r) \/ WriteLog(r)
    PROVE  Inv'
<1>1. Typed' /\ Frame(r)
  BY DEF Inv, Typed, Skip, Enrich, WriteLog, Goto, PC, Frame, setup, asking
<1>2. Conversation(r)'
  BY <1>1 DEF Inv, Typed, Skip, Enrich, WriteLog, Goto, asking, Conversation, Answers,
              Pending, History, Ended
<1>3. QED
  BY <1>1, <1>2, OthersGoOn

\* Steps that end a review with an error.
LEMMA Failing ==
    ASSUME Inv, NEW r \in Review,
           \/ BuildFails(r) \/ NetworkError(r)
           \/ ServerFails(r) \/ Unusable(r) \/ BadAgain(r)
    PROVE  Inv'
<1> DEFINE Heard(c) == pc[r] = "wait" /\ got' = [got EXCEPT ![r] = Append(@, c)]
<1>1. /\ pc[r] \in {"build", "chat", "wait"}
      /\ Goto(r, "failed") /\ UNCHANGED <<setup, req, sent, result>>
      /\ (UNCHANGED got) \/ (\E c \in Outcome \ {"good"} : Heard(c))
  BY DEF BuildFails, NetworkError, ServerFails, Unusable, BadAgain, Answered, Receive, setup,
         asking, Outcome
<1>2. /\ pc'[r] = "failed" /\ config' = config
      /\ req'[r] = req[r] /\ sent'[r] = sent[r] /\ result'[r] = result[r]
      /\ sent[r] \in Seq(RequestType) /\ got[r] \in Seq(Outcome)
  BY <1>1 DEF Inv, Typed, Goto, setup
<1>3. Answers(r) /\ History(r) /\ Ended(r)
  BY DEF Inv, Conversation
<1>4. CASE UNCHANGED got
  <2>1. Typed' /\ Frame(r)
    BY <1>1, <1>4 DEF Inv, Typed, Goto, PC, Frame, setup
  <2>2. Conversation(r)'
    BY <1>1, <1>2, <1>3, <1>4 DEF Conversation, Answers, History, Ended, Usable
  <2>3. QED
    BY <2>1, <2>2, OthersGoOn
<1>5. ASSUME NEW c \in Outcome \ {"good"}, Heard(c) PROVE Inv'
  <2>1. Typed' /\ Frame(r)
    BY <1>1, <1>5 DEF Inv, Typed, Goto, PC, Frame, setup
  <2>2. got'[r] = Append(got[r], c)
    BY <1>5 DEF Inv, Typed
  <2>3. Answers(r)'
    BY <1>2, <1>3, <1>5, <2>2 DEF Answers
  <2>4. History(r)'
    BY <1>2, <1>3, <2>2 DEF History, Usable
  <2>5. Ended(r)'
    BY <1>2, <1>3, <1>5, <2>2 DEF Ended
  <2>6. QED
    BY <1>2, <2>1, <2>3, <2>4, <2>5, OthersGoOn DEF Conversation
<1>6. QED
  BY <1>1, <1>4, <1>5

\* The first request is made.
LEMMA Building ==
    ASSUME Inv, NEW r \in Review, Build(r)
    PROVE  Inv'
<1>1. Body(r, TRUE, 0) \in RequestType
  BY BodyType DEF Inv
<1>2. Typed' /\ Frame(r)
  BY <1>1 DEF Inv, Typed, Build, Goto, PC, Frame, setup
<1>3. /\ req'[r] = Body(r, TRUE, 0) /\ pc'[r] = "chat" /\ config' = config
      /\ sent'[r] = <<>> /\ got'[r] = <<>>
  BY DEF Inv, Typed, Build, Goto, setup, Conversation, Answers
<1>4. Pending(r)'
  <2>1. config.schema \in BOOLEAN /\ Adapter[r] \in {"openai", "anthropic"}
    BY ReviewAssumption DEF Inv, Typed, ConfigType
  <2>2. /\ req'[r].try /\ req'[r].quotes = 0
        /\ req'[r].format = config.schema
        /\ req'[r].attempt = (config.schema \/ Adapter[r] = "openai")
    BY <1>3, <2>1 DEF Body
  <2>3. got'[r] = <<>>
    BY <1>3
  <2>4. req'[r].attempt /\ Usable(r)' => req'[r].format
    BY <1>3, <2>1, <2>2 DEF Usable
  <2>5. (req[r].try => got[r] = <<>> /\ req[r].quotes = 0)'
    BY <2>2, <2>3
  <2>6. Len(got'[r]) <= 1 /\ ~(Len(got'[r]) > 0)
    BY <2>3
  <2>7. QED
    BY <2>2, <2>4, <2>5, <2>6 DEF Pending
<1>5. Conversation(r)'
  BY <1>3, <1>4 DEF Conversation, Answers, History, Ended
<1>6. QED
  BY <1>2, <1>5, OthersGoOn

\* There is room for one more.
LEMMA AskedTwiceAtMost ==
    ASSUME Inv, NEW r \in Review, pc[r] = "chat"
    PROVE  Len(sent[r]) \in Nat /\ Len(sent[r]) = Len(got[r]) /\ Len(sent[r]) <= 2
<1>1. sent[r] \in Seq(RequestType) /\ got[r] \in Seq(Outcome) /\ Answers(r) /\ Pending(r)
  BY DEF Inv, Typed, Conversation
<1>2. Len(sent[r]) = Len(got[r])
  BY <1>1 DEF Answers
<1>3. CASE req[r].try
  <2>1. Len(got[r]) <= 1
    BY <1>1, <1>3 DEF Pending
  <2>2. QED
    BY <1>1, <1>2, <2>1
<1>4. CASE ~req[r].try
  <2>1. Len(got[r]) <= 2
    BY <1>1, <1>4 DEF Pending
  <2>2. QED
    BY <1>1, <1>2, <2>1
<1>5. QED
  BY <1>3, <1>4

\* A request is sent.
LEMMA Asking ==
    ASSUME Inv, NEW r \in Review, Ask(r)
    PROVE  Inv'
<1>1. Typed' /\ Frame(r)
  BY DEF Inv, Typed, Ask, Goto, PC, Frame, setup
<1>2. /\ pc[r] = "chat" /\ pc'[r] = "wait" /\ config' = config
      /\ req'[r] = req[r] /\ got'[r] = got[r]
      /\ sent'[r] = Append(sent[r], req[r])
      /\ sent[r] \in Seq(RequestType) /\ req[r] \in RequestType /\ got[r] \in Seq(Outcome)
  BY DEF Inv, Typed, Ask, Goto, setup
<1>3. Answers(r) /\ Pending(r) /\ History(r) /\ Ended(r)
  BY <1>2 DEF Inv, Conversation
<1>4. Len(sent[r]) = Len(got[r])
  BY <1>2, AskedTwiceAtMost
<1>5. Len(got[r]) <= 2
  BY <1>2, <1>4, AskedTwiceAtMost
<1>6. Answers(r)'
  BY <1>2, <1>4, <1>5 DEF Answers
<1>7. Pending(r)'
  BY <1>2, <1>3, <1>4 DEF Pending, Usable
<1>8. History(r)'
  <2> SUFFICES ASSUME NEW i \in DOMAIN sent'[r]
               PROVE  /\ sent'[r][i].format => i = 1
                      /\ sent'[r][i].attempt /\ Usable(r)' => sent'[r][i].format
                      /\ sent'[r][i].quotes # 0 =>
                           /\ i > 1 /\ sent'[r][i].quotes = i - 1
                           /\ i - 1 <= Len(got'[r]) /\ got'[r][i - 1] = "bad"
                      /\ sent'[r][i].quotes = 0 /\ i > 1 =>
                           i = 2 /\ Len(got'[r]) > 0 /\ got'[r][1] = "400" /\ sent'[r][1].attempt
    BY DEF History
  <2>1. CASE i \in DOMAIN sent[r]
    BY <1>2, <1>3, <2>1 DEF History, Usable
  <2>2. CASE i = Len(sent[r]) + 1
    <3>1. sent'[r][i] = req[r]
      BY <1>2, <2>2
    <3>2. Len(sent[r]) > 0 => sent'[r][1] = sent[r][1]
      BY <1>2
    <3>3. i = Len(got[r]) + 1 /\ Len(got[r]) <= 2
      BY <1>2, <1>4, <1>5, <2>2
    <3>4. CASE req[r].try
      <4>1. /\ req[r].quotes = 0 /\ Len(got[r]) <= 1
            /\ Len(got[r]) > 0 => got[r][1] = "400" /\ sent[r][1].attempt
            /\ req[r].attempt => got[r] = <<>>
            /\ req[r].format => req[r].attempt
            /\ req[r].attempt /\ Usable(r) => req[r].format
        BY <1>3, <3>4 DEF Pending
      <4>2. QED
        BY <1>2, <1>4, <3>1, <3>2, <3>3, <4>1 DEF Usable
    <3>5. CASE ~req[r].try
      <4>1. /\ ~req[r].attempt /\ ~req[r].format
            /\ Len(got[r]) > 0 /\ req[r].quotes = Len(got[r])
            /\ got[r][Len(got[r])] = "bad"
        BY <1>3, <3>3, <3>5 DEF Pending
      <4>2. QED
        BY <1>2, <3>1, <3>3, <4>1
    <3>6. QED
      BY <3>4, <3>5
  <2>3. QED
    BY <1>2, <2>1, <2>2
<1>9. Ended(r)'
  BY <1>2, <1>3 DEF Ended
<1>10. QED
  BY <1>1, <1>2, <1>6, <1>7, <1>8, <1>9, OthersGoOn DEF Conversation

\* A refusal is answered with the request that asks for less.
LEMMA Refusing ==
    ASSUME Inv, NEW r \in Review, Refused(r)
    PROVE  Inv'
<1>1. /\ sent[r] \in Seq(RequestType) /\ got[r] \in Seq(Outcome) /\ req[r] \in RequestType
      /\ pc[r] = "wait" /\ pc'[r] = "chat" /\ config' = config /\ result'[r] = result[r]
      /\ sent'[r] = sent[r] /\ got'[r] = Append(got[r], "400")
      /\ req'[r] = Fallback(req[r])
      /\ req[r].attempt
  BY DEF Inv, Typed, Refused, Receive, Goto, setup
<1>2. Fallback(req[r]) \in RequestType
  BY <1>1 DEF Fallback, RequestType
<1>3. Typed' /\ Frame(r)
  BY <1>2 DEF Inv, Typed, Refused, Receive, Goto, PC, Frame, setup, Outcome
<1>4. Answers(r) /\ Pending(r) /\ History(r) /\ Ended(r)
  BY <1>1 DEF Inv, Conversation
<1>5. /\ req[r].try /\ req[r].quotes = 0 /\ got[r] = <<>>
  BY <1>1, <1>4 DEF Pending
<1>6. /\ Len(sent[r]) = Len(got[r]) + 1 /\ sent[r][Len(sent[r])] = req[r]
  BY <1>1, <1>4 DEF Answers
<1>7. /\ got'[r] = <<"400">> /\ sent'[r][1].attempt
  BY <1>1, <1>5, <1>6
<1>8. /\ req'[r].try /\ req'[r].quotes = 0 /\ ~req'[r].attempt /\ ~req'[r].format
  BY <1>1, <1>5 DEF Fallback, RequestType
<1>9. Answers(r)'
  BY <1>1, <1>4, <1>6 DEF Answers
<1>10. Pending(r)'
  BY <1>7, <1>8 DEF Pending
<1>11. History(r)'
  BY <1>1, <1>4 DEF History, Usable
<1>12. Ended(r)'
  BY <1>1, <1>4 DEF Ended
<1>13. QED
  BY <1>3, <1>9, <1>10, <1>11, <1>12, OthersGoOn DEF Conversation

\* An answer that parses ends the review.
LEMMA Returning ==
    ASSUME Inv, NEW r \in Review, Good(r)
    PROVE  Inv'
<1>1. /\ sent[r] \in Seq(RequestType) /\ got[r] \in Seq(Outcome)
      /\ pc[r] = "wait" /\ pc'[r] = "returned" /\ config' = config
      /\ sent'[r] = sent[r] /\ req'[r] = req[r] /\ got'[r] = Append(got[r], "good")
      /\ result'[r] = Len(sent[r])
  BY DEF Inv, Typed, Good, Answered, Receive, Goto, setup
<1>2. Typed' /\ Frame(r)
  BY <1>1 DEF Inv, Typed, Good, Answered, Receive, Goto, PC, Frame, setup, Outcome
<1>3. Answers(r) /\ Pending(r) /\ History(r) /\ Ended(r)
  BY <1>1 DEF Inv, Conversation
<1>4. Len(sent[r]) = Len(got[r]) + 1
  BY <1>1, <1>3 DEF Answers
<1>5. Answers(r)'
  BY <1>1, <1>3, <1>4 DEF Answers
<1>6. History(r)'
  BY <1>1, <1>3 DEF History, Usable
<1>7. Ended(r)'
  BY <1>1, <1>4 DEF Ended
<1>8. QED
  BY <1>1, <1>2, <1>5, <1>6, <1>7, OthersGoOn DEF Conversation

\* The first answer that does not parse is quoted.
LEMMA Correcting ==
    ASSUME Inv, NEW r \in Review, Bad(r)
    PROVE  Inv'
<1>1. /\ sent[r] \in Seq(RequestType) /\ got[r] \in Seq(Outcome)
      /\ pc[r] = "wait" /\ pc'[r] = "chat" /\ config' = config /\ result'[r] = result[r]
      /\ sent'[r] = sent[r] /\ got'[r] = Append(got[r], "bad")
      /\ req'[r] = Body(r, FALSE, Len(sent[r]))
      /\ req[r].try
  BY DEF Inv, Typed, Bad, Correction, Answered, Receive, Goto, setup
<1>2. Body(r, FALSE, Len(sent[r])) \in RequestType
  <2>1. Len(sent[r]) \in Nat /\ FALSE \in BOOLEAN
    BY <1>1
  <2>2. QED
    BY <2>1, BodyType DEF Inv
<1>3. Typed' /\ Frame(r)
  <2>1. /\ req' = [req EXCEPT ![r] = Body(r, FALSE, Len(sent[r]))]
        /\ got' = [got EXCEPT ![r] = Append(@, "bad")]
        /\ Goto(r, "chat") /\ UNCHANGED <<setup, sent, result>>
    BY DEF Bad, Correction, Answered, Receive
  <2>2. Frame(r)
    BY <2>1 DEF Inv, Typed, Goto, Frame, setup
  <2>3. req' \in [Review -> RequestType]
    BY <1>2, <2>1 DEF Inv, Typed
  <2>4. got' \in [Review -> Seq(Outcome)]
    BY <2>1 DEF Inv, Typed, Outcome
  <2>5. QED
    BY <2>1, <2>2, <2>3, <2>4 DEF Inv, Typed, Goto, PC, setup
<1>4. Answers(r) /\ Pending(r) /\ History(r) /\ Ended(r)
  BY <1>1 DEF Inv, Conversation
<1>5. Len(sent[r]) = Len(got[r]) + 1 /\ Len(got[r]) <= 1
  BY <1>1, <1>4 DEF Answers, Pending
<1>6. /\ ~req'[r].try /\ ~req'[r].attempt /\ ~req'[r].format
      /\ req'[r].quotes = Len(sent[r])
  <2>1. req'[r] = [try |-> FALSE, quotes |-> Len(sent[r]), model |-> call[r].model,
                   format |-> FALSE, attempt |-> FALSE]
    BY <1>1 DEF Body
  <2>2. QED
    BY <2>1
<1>7. Answers(r)'
  BY <1>1, <1>4, <1>5 DEF Answers
<1>8. Pending(r)'
  <2>1. /\ Len(got'[r]) = Len(got[r]) + 1 /\ got'[r][Len(got'[r])] = "bad"
        /\ Len(got'[r]) > 0 /\ Len(got'[r]) <= 2
    BY <1>1, <1>5
  <2>2. req'[r].quotes = Len(got'[r])
    BY <1>5, <1>6, <2>1
  <2>3. QED
    BY <1>6, <2>1, <2>2 DEF Pending
<1>9. History(r)'
  BY <1>1, <1>4 DEF History, Usable
<1>10. Ended(r)'
  BY <1>1, <1>4 DEF Ended
<1>11. QED
  BY <1>3, <1>7, <1>8, <1>9, <1>10, OthersGoOn DEF Conversation

LEMMA InvStep == Inv /\ [Next]_vars => Inv'
<1> SUFFICES ASSUME Inv, [Next]_vars PROVE Inv'
  OBVIOUS
<1>1. CASE UNCHANGED vars
  BY <1>1 DEF vars, setup, asking, Inv, Typed, Conversation, Answers, Pending, History, Ended,
              Usable
<1>2. ASSUME NEW r \in Review, Local(r) \/ Reply(r) PROVE Inv'
  BY <1>2, BeforeChat, Building, Asking, Failing, Refusing, Returning, Correcting DEF Local, Reply
<1>3. QED
  BY <1>1, <1>2 DEF Next

\* However refusals and answers combine, the conversation is in order (send,
\* Review's retry).
THEOREM ConversationInOrder == Spec => []Inv
  BY InvInit, InvStep, PTL DEF Spec

\* A review costs three requests at most, and only the first may ask for
\* structured output (send's fallback, Review's retry).
THEOREM RequestsAreBounded == Spec => []RequestsBounded
<1>1. Inv => RequestsBounded
  BY DEF Inv, Conversation, Answers, History, RequestsBounded
<1>2. QED
  BY <1>1, ConversationInOrder, PTL

\* Each request after the first is the fallback of a refused one or quotes the
\* answer it corrects (send, Review's retry).
THEOREM CorrectionsFollowRejections == Spec => []CorrectionFollowsRejection
<1>1. Inv => CorrectionFollowsRejection
  <2> SUFFICES ASSUME Inv, NEW r \in Review, NEW i \in DOMAIN sent[r]
               PROVE  /\ sent[r][i].quotes # 0 =>
                           /\ sent[r][i].quotes = i - 1
                           /\ got[r][sent[r][i].quotes] = "bad"
                           /\ ~sent[r][i].format
                      /\ sent[r][i].quotes = 0 /\ i > 1 => got[r][i - 1] = "400"
    BY DEF CorrectionFollowsRejection
  <2>1. History(r)
    BY DEF Inv, Conversation
  <2>2. i \in Nat
    BY DEF Inv, Typed
  <2>3. QED
    BY <2>1, <2>2 DEF History
<1>2. QED
  BY <1>1, ConversationInOrder, PTL

\* No request repeats an earlier one where the schema is of use (send's fallback
\* drops what was refused, the retry quotes).
THEOREM NothingIsAskedTwice == Spec => []NothingAskedTwice
<1>1. Inv => NothingAskedTwice
  <2> SUFFICES ASSUME Inv, NEW r \in Review, Usable(r),
                      NEW i \in DOMAIN sent[r], NEW j \in DOMAIN sent[r],
                      SameRequest(sent[r][i], sent[r][j])
               PROVE  i = j
    BY DEF NothingAskedTwice, Usable
  <2>1. History(r) /\ i \in Nat /\ j \in Nat /\ i > 0 /\ j > 0
    BY DEF Inv, Typed, Conversation
  <2>2. sent[r][i].quotes = sent[r][j].quotes /\ sent[r][i].format = sent[r][j].format
    BY DEF SameRequest
  <2>3. CASE sent[r][i].quotes # 0
    <3>1. sent[r][i].quotes = i - 1 /\ sent[r][j].quotes = j - 1
      BY <2>1, <2>2, <2>3 DEF History
    <3>2. i - 1 = j - 1
      BY <2>2, <3>1
    <3>3. QED
      BY <2>1, <3>2
  <2>4. CASE sent[r][i].quotes = 0
    <3>1. ASSUME NEW k \in DOMAIN sent[r], sent[r][k].quotes = 0, k # 1
          PROVE  k = 2 /\ sent[r][1].format /\ ~sent[r][k].format
      <4>1. 1 \in DOMAIN sent[r] /\ k \in Nat /\ k > 1
        BY <3>1 DEF Inv, Typed
      <4>2. k = 2 /\ sent[r][1].attempt /\ ~sent[r][k].format
        BY <2>1, <3>1, <4>1 DEF History
      <4>3. QED
        BY <2>1, <4>1, <4>2 DEF History
    <3>2. QED
      BY <2>1, <2>2, <2>4, <3>1
  <2>5. QED
    BY <2>3, <2>4
<1>2. QED
  BY <1>1, ConversationInOrder, PTL

\* A review returns exactly when an answer parsed, with that answer and its
\* tokens (Review).
THEOREM TheGoodAnswerIsReturned == Spec => []GoodAnswerIsReturned
<1>1. Inv => GoodAnswerIsReturned
  <2> SUFFICES ASSUME Inv, NEW r \in Review
               PROVE  /\ pc[r] = "returned" <=> \E i \in DOMAIN got[r] : got[r][i] = "good"
                      /\ pc[r] = "returned" => /\ result[r] = Len(sent[r])
                                               /\ got[r][result[r]] = "good"
    BY DEF GoodAnswerIsReturned
  <2>1. Ended(r) /\ got[r] \in Seq(Outcome) /\ sent[r] \in Seq(RequestType)
    BY DEF Inv, Typed, Conversation
  <2>2. ASSUME pc[r] = "returned" PROVE Len(sent[r]) \in DOMAIN got[r]
    BY <2>1, <2>2 DEF Ended
  <2>3. QED
    BY <2>1, <2>2 DEF Ended
<1>2. QED
  BY <1>1, ConversationInOrder, PTL

\* A review is one answer or one error after a bounded number of requests.
THEOREM ReviewImplementsOneAnswer == Spec => ImplementsOneAnswer
<1>1. Init => Abstract!Init
  BY DEF Init, Abstract!Init, Status
<1>2. ASSUME Inv, [Next]_vars PROVE [Abstract!Next]_(Abstract!vars)
  <2> DEFINE status == [s \in Review |-> Status(s)]
             asked == [s \in Review |-> Len(sent[s])]
  <2>1. CASE UNCHANGED vars
    BY <2>1 DEF vars, setup, asking, Abstract!vars, Status
  <2>2. ASSUME NEW r \in Review, Local(r) \/ Reply(r)
        PROVE  [Abstract!Next]_(Abstract!vars)
    <3>1. CASE \/ Skip(r) \/ Enrich(r) \/ WriteLog(r) \/ Build(r)
               \/ Refused(r) \/ Bad(r)
      <4>1. status' = status /\ asked' = asked
        BY <1>2, <3>1 DEF Skip, Enrich, WriteLog, Build, Refused, Bad, Answered, Goto, Status,
              asking, Inv, Typed
      <4>2. QED
        BY <4>1 DEF Abstract!vars
    <3>2. CASE Ask(r)
      <4>1. /\ status[r] = "running" /\ status' = status
            /\ asked' = [asked EXCEPT ![r] = @ + 1]
        <5>1. pc[r] = "chat" /\ pc' = [pc EXCEPT ![r] = "wait"] /\ pc \in [Review -> PC]
          BY <1>2, <3>2 DEF Ask, Goto, Inv, Typed
        <5>2. status[r] = "running" /\ status' = status
          BY <5>1 DEF Status
        <5>3. /\ sent' = [sent EXCEPT ![r] = Append(@, req[r])] /\ req[r] \in RequestType
              /\ sent \in [Review -> Seq(RequestType)]
          BY <1>2, <3>2 DEF Ask, Inv, Typed
        <5>4. \A s \in Review :
                 Len(sent'[s]) = IF s = r THEN Len(sent[s]) + 1 ELSE Len(sent[s])
          BY <5>3
        <5>5. QED
          BY <5>2, <5>4
      <4>2. asked[r] < 3
        BY <1>2, <3>2, AskedTwiceAtMost DEF Ask
      <4>3. Abstract!Ask(r)
        BY <4>1, <4>2 DEF Abstract!Ask
      <4>4. QED
        BY <4>3 DEF Abstract!Next
    <3>3. CASE Good(r)
      <4>1. /\ status[r] = "running" /\ status' = [status EXCEPT ![r] = "answered"]
            /\ asked' = asked
        BY <1>2, <3>3 DEF Good, Answered, Goto, Status, Inv, Typed
      <4>2. asked[r] > 0
        BY <1>2, <3>3 DEF Good, Answered, Inv, Typed, Conversation, Answers
      <4>3. Abstract!Answer(r)
        BY <4>1, <4>2 DEF Abstract!Answer
      <4>4. QED
        BY <4>3 DEF Abstract!Next
    <3>4. CASE \/ BuildFails(r) \/ NetworkError(r)
               \/ ServerFails(r) \/ Unusable(r) \/ BadAgain(r)
      <4>1. /\ status[r] = "running" /\ status' = [status EXCEPT ![r] = "failed"]
            /\ asked' = asked
        BY <1>2, <3>4 DEF BuildFails, NetworkError, ServerFails, Unusable, BadAgain, Answered,
              Goto, Status, asking, Inv, Typed
      <4>2. Abstract!Fail(r)
        BY <4>1 DEF Abstract!Fail
      <4>3. QED
        BY <4>2 DEF Abstract!Next
    <3>5. QED
      BY <2>2, <3>1, <3>2, <3>3, <3>4 DEF Local, Reply
  <2>3. QED
    BY <1>2, <2>1, <2>2 DEF Next
<1>3. QED
  BY <1>1, <1>2, ConversationInOrder, PTL DEF Spec, ImplementsOneAnswer, Abstract!Spec

-----------------------------------------------------------------------------
(* The bundle log.                                                         *)

LogLine == [review : Review, refs : Attachment]

\* The lines of r: none before it is written, one after it, unless the sink
\* failed, and that one says what was attached.
Logged(r) ==
    /\ pc[r] \in {"start", "log"} => LinesOf(r) = {} /\ r \notin unlogged
    /\ pc[r] = "log" => refs[r] \in Attachment
    /\ config.enrich = "on" /\ config.sink /\ pc[r] \notin {"start", "log"}
         => r \in unlogged \/ LinesOf(r) # {}
    /\ \A i, j \in LinesOf(r) : i = j
    /\ \A i \in LinesOf(r) : log[i].refs = refs[r]

LogTyped ==
    /\ refs \in [Review -> Attachment \cup {<<>>}]
    /\ log \in Seq(LogLine)
    /\ unlogged \subseteq Review

LogInv == LogTyped /\ \A r \in Review : Logged(r)

LEMMA LogInit == Init => LogInv
  BY DEF Init, LogInv, LogTyped, Logged, LinesOf

\* A line is added at the end.
LEMMA OneMoreLine ==
    ASSUME LogTyped, NEW l \in LogLine, log' = Append(log, l)
    PROVE  /\ log' \in Seq(LogLine)
           /\ DOMAIN log' = DOMAIN log \cup {Len(log) + 1}
           /\ Len(log) + 1 \notin DOMAIN log
           /\ log'[Len(log) + 1] = l
           /\ \A i \in DOMAIN log : log'[i] = log[i]
<1> DEFINE L == LogLine
<1>1. log \in Seq(L) /\ l \in L
  BY DEF LogTyped
<1> HIDE DEF L
<1>2. log' \in Seq(L)
  BY <1>1
<1>3. /\ DOMAIN log = 1..Len(log) /\ DOMAIN log' = 1..Len(log) + 1 /\ Len(log) \in Nat
      /\ log'[Len(log) + 1] = l /\ \A i \in 1..Len(log) : log'[i] = log[i]
  BY <1>1
<1> QED
  BY <1>2, <1>3 DEF L

\* A step that does not write to the log keeps the lines.
LEMMA LogKept ==
    ASSUME Inv, LogInv, NEW r \in Review,
           log' = log, unlogged' = unlogged, config' = config,
           refs' \in [Review -> Attachment \cup {<<>>}],
           \A s \in Review \ {r} : pc'[s] = pc[s] /\ refs'[s] = refs[s],
           Logged(r)'
    PROVE  LogInv'
<1>1. ASSUME NEW s \in Review \ {r} PROVE Logged(s)'
  BY <1>1 DEF LogInv, Logged, LinesOf
<1> QED
  BY <1>1 DEF LogInv, LogTyped

LEMMA LogStep == Inv /\ LogInv /\ [Next]_vars => LogInv'
<1> SUFFICES ASSUME Inv, LogInv, [Next]_vars PROVE LogInv'
  OBVIOUS
<1>1. CASE UNCHANGED vars
  BY <1>1 DEF vars, setup, asking, LogInv, LogTyped, Logged, LinesOf
<1>2. ASSUME NEW r \in Review, Enrich(r) PROVE LogInv'
  <2>1. PICK text \in Attachment : refs' = [refs EXCEPT ![r] = text]
    BY <1>2 DEF Enrich
  <2>2. /\ log' = log /\ unlogged' = unlogged /\ config' = config /\ pc[r] = "start"
        /\ pc' = [pc EXCEPT ![r] = IF config.sink THEN "log" ELSE "build"]
    BY <1>2 DEF Enrich, setup, Goto
  <2>3. /\ refs' \in [Review -> Attachment \cup {<<>>}] /\ refs'[r] = text
        /\ pc'[r] = IF config.sink THEN "log" ELSE "build"
        /\ \A s \in Review \ {r} : pc'[s] = pc[s] /\ refs'[s] = refs[s]
    BY <2>1, <2>2 DEF LogInv, LogTyped, Inv, Typed
  <2>4. LinesOf(r) = {} /\ r \notin unlogged
    BY <2>2 DEF LogInv, Logged
  <2>5. LinesOf(r)' = {}
    BY <2>2, <2>4 DEF LinesOf
  <2>6. Logged(r)'
    BY <2>2, <2>3, <2>4, <2>5 DEF Logged
  <2> QED
    BY <2>2, <2>3, <2>6, LogKept
<1>3. ASSUME NEW r \in Review, WriteLog(r) PROVE LogInv'
  <2>1. /\ pc[r] = "log" /\ pc' = [pc EXCEPT ![r] = "build"] /\ config' = config /\ refs' = refs
    BY <1>3 DEF WriteLog, setup, Goto
  <2>2. /\ pc'[r] = "build" /\ \A s \in Review \ {r} : pc'[s] = pc[s]
    BY <2>1 DEF Inv, Typed
  <2>3. /\ LinesOf(r) = {} /\ r \notin unlogged /\ refs[r] \in Attachment
    BY <2>1 DEF LogInv, Logged
  <2>4. CASE UNCHANGED log /\ unlogged' = unlogged \cup {r}
    <3>1. LinesOf(r)' = {} /\ r \in unlogged'
      BY <2>3, <2>4 DEF LinesOf
    <3>2. Logged(r)'
      BY <2>2, <3>1 DEF Logged
    <3>3. ASSUME NEW s \in Review \ {r} PROVE Logged(s)'
      BY <2>1, <2>2, <2>4, <3>3 DEF LogInv, Logged, LinesOf
    <3> QED
      BY <2>1, <2>4, <3>2, <3>3 DEF LogInv, LogTyped
  <2>5. CASE log' = Append(log, [review |-> r, refs |-> refs[r]]) /\ UNCHANGED unlogged
    <3> DEFINE l == [review |-> r, refs |-> refs[r]]
    <3>1. l \in LogLine /\ l.review = r /\ l.refs = refs[r]
      BY <2>3 DEF LogLine
    <3>2. PICK n : n = Len(log) + 1
      OBVIOUS
    <3> HIDE DEF l
    <3>3. log' = Append(log, l)
      BY <2>5 DEF l
    <3>4. /\ log' \in Seq(LogLine) /\ DOMAIN log' = DOMAIN log \cup {n}
          /\ n \notin DOMAIN log /\ log'[n] = l
          /\ \A i \in DOMAIN log : log'[i] = log[i]
      BY <3>1, <3>2, <3>3, OneMoreLine DEF LogInv
    <3>5. LinesOf(r)' = {n}
      BY <2>3, <3>1, <3>4 DEF LinesOf
    <3>6. Logged(r)'
      BY <2>1, <2>2, <3>1, <3>4, <3>5 DEF Logged
    <3>7. ASSUME NEW s \in Review \ {r} PROVE Logged(s)'
      <4>1. LinesOf(s)' = LinesOf(s)
        BY <3>1, <3>4, <3>7 DEF LinesOf
      <4>2. \A i \in LinesOf(s) : log'[i] = log[i]
        BY <3>4 DEF LinesOf
      <4>3. /\ pc'[s] = pc[s] /\ refs'[s] = refs[s] /\ config' = config
            /\ s \in unlogged' <=> s \in unlogged
        BY <2>1, <2>2, <2>5, <3>7
      <4>4. Logged(s)
        BY DEF LogInv
      <4>5. (\A i, j \in LinesOf(s) : i = j)'
        BY <4>1, <4>4 DEF Logged
      <4>6. (\A i \in LinesOf(s) : log[i].refs = refs[s])'
        BY <4>1, <4>2, <4>3, <4>4 DEF Logged
      <4> QED
        BY <4>1, <4>3, <4>4, <4>5, <4>6 DEF Logged
    <3> QED
      BY <2>1, <2>5, <3>4, <3>6, <3>7 DEF LogInv, LogTyped
  <2> QED
    BY <1>3, <2>4, <2>5 DEF WriteLog
<1>4. ASSUME NEW r \in Review, Skip(r) PROVE LogInv'
  <2>1. /\ pc[r] = "start" /\ config.enrich # "on" /\ pc' = [pc EXCEPT ![r] = "build"]
        /\ log' = log /\ unlogged' = unlogged /\ config' = config /\ refs' = refs
    BY <1>4 DEF Skip, setup, Goto
  <2>2. /\ pc'[r] = "build" /\ \A s \in Review \ {r} : pc'[s] = pc[s]
        /\ refs' \in [Review -> Attachment \cup {<<>>}]
    BY <2>1 DEF Inv, Typed, LogInv, LogTyped
  <2>3. Logged(r)'
    BY <2>1, <2>2 DEF LogInv, Logged, LinesOf
  <2> QED
    BY <2>1, <2>2, <2>3, LogKept
<1>5. ASSUME NEW r \in Review,
             \/ Build(r) \/ BuildFails(r) \/ Ask(r) \/ NetworkError(r)
             \/ Reply(r)
      PROVE  LogInv'
  <2>1. /\ pc[r] \in {"build", "chat", "wait"}
        /\ \E p \in {"chat", "wait", "failed", "returned"} : pc' = [pc EXCEPT ![r] = p]
        /\ log' = log /\ unlogged' = unlogged /\ config' = config /\ refs' = refs
    BY <1>5 DEF Build, BuildFails, Ask, NetworkError, Reply, Refused, ServerFails, Unusable,
                Good, Bad, BadAgain, Answered, Goto, setup
  <2>2. /\ pc'[r] \in {"chat", "wait", "failed", "returned"}
        /\ \A s \in Review \ {r} : pc'[s] = pc[s]
        /\ refs' \in [Review -> Attachment \cup {<<>>}]
    BY <2>1 DEF Inv, Typed, LogInv, LogTyped
  <2>3. Logged(r)'
    BY <2>1, <2>2 DEF LogInv, Logged, LinesOf
  <2> QED
    BY <2>1, <2>2, <2>3, LogKept
<1> QED
  BY <1>1, <1>2, <1>3, <1>4, <1>5 DEF Next, Local

\* When the model is asked, the line of the log is there, once, and says what
\* the prompt holds, unless the sink failed (Review, AppendTo).
THEOREM ReviewsAreLoggedBeforeTheyAsk == Spec => []LoggedBeforeAsked
<1>1. Inv /\ LogInv => LoggedBeforeAsked
  <2> SUFFICES ASSUME Inv, LogInv, NEW r \in Review
               PROVE  /\ config.enrich = "on" /\ config.sink /\ r \notin unlogged /\ sent[r] # <<>>
                           => Cardinality(LinesOf(r)) = 1
                      /\ \A i \in LinesOf(r) : log[i].refs = refs[r]
    BY DEF LoggedBeforeAsked
  <2>1. Logged(r) /\ Answers(r)
    BY DEF LogInv, Inv, Conversation
  <2>2. ASSUME config.enrich = "on", config.sink, r \notin unlogged, sent[r] # <<>>
        PROVE  Cardinality(LinesOf(r)) = 1
    <3>1. pc[r] \notin {"start", "log"}
      BY <2>1, <2>2 DEF Answers
    <3>2. PICK i : i \in LinesOf(r)
      BY <2>1, <2>2, <3>1 DEF Logged
    <3>3. LinesOf(r) = {i}
      BY <2>1, <3>2 DEF Logged
    <3> QED
      BY <3>3, FS_Singleton
  <2> QED
    BY <2>1, <2>2 DEF Logged
<1>2. Spec => []LogInv
  BY LogInit, LogStep, ConversationInOrder, PTL DEF Spec
<1> QED
  BY <1>1, <1>2, ConversationInOrder, PTL

-----------------------------------------------------------------------------
(* The prompt.                                                             *)

Atom == Key \cup Piece

\* What ReplaceAll puts in the place of each atom, ...
One(key, value) == [x \in Atom |-> IF x = key THEN value ELSE <<x>>]

\* ... and what the first n rounds of interpolate do to it.
Rounds(order, values, n) ==
    [x \in Atom |-> IF \E i \in 1..n : order[i] = x THEN values[x] ELSE <<x>>]

LEMMA ReplaceIsSpread ==
    ASSUME NEW text \in Text, NEW key \in Key, NEW value \in Text
    PROVE  /\ One(key, value) \in [Atom -> Seq(Atom)]
           /\ Replace(text, key, value) = Spread(text, One(key, value))
           /\ Replace(text, key, value) \in Text
<1>1. One(key, value) \in [Atom -> Seq(Atom)]
  <2>1. \A x \in Atom : <<x>> \in Seq(Atom)
    OBVIOUS
  <2>2. value \in Seq(Atom)
    BY DEF Text, Atom
  <2> QED
    BY <2>1, <2>2 DEF One
<1>2. \A i \in DOMAIN text : text[i] \in Atom
  BY DEF Text, Atom
<1>3. \A i \in DOMAIN text :
        One(key, value)[text[i]] = IF text[i] = key THEN value ELSE <<text[i]>>
  BY <1>2 DEF One
<1>4. [i \in DOMAIN text |-> One(key, value)[text[i]]]
        = [i \in DOMAIN text |-> IF text[i] = key THEN value ELSE <<text[i]>>]
  BY <1>3
<1>5. Replace(text, key, value) = Spread(text, One(key, value))
  BY <1>4 DEF Replace, Spread
<1>6. Spread(text, One(key, value)) \in Seq(Atom)
  BY <1>1, SpreadType DEF Text, Atom
<1> QED
  BY <1>1, <1>5, <1>6 DEF Text, Atom

\* interpolate goes from text to text.
LEMMA InterpolatedStepwise ==
    ASSUME NEW template \in Text, NEW values \in [Key -> Text],
           NEW order \in SetToSeqs(Key)
    PROVE  \E after \in [0..Len(order) -> Text] :
              /\ after[0] = template
              /\ \A n \in 1..Len(order) :
                    after[n] = Replace(after[n - 1], order[n], values[order[n]])
              /\ Interpolated(template, values, order) = after[Len(order)]
<1>1. PICK m \in Nat : m = Len(order)
  BY Listing, ReviewAssumption
<1>2. \A n \in 1..m : order[n] \in Key /\ values[order[n]] \in Text
  BY <1>1, Listing, ReviewAssumption
<1> DEFINE step == [n \in 1..m |-> [x \in Text |-> Replace(x, order[n], values[order[n]])]]
           Eq(g) == g = [n \in 0..m |-> IF n = 0 THEN template
                                        ELSE Replace(g[n - 1], order[n], values[order[n]])]
<1>3. step \in [1..m -> [Text -> Text]]
  BY <1>2, ReplaceIsSpread
<1>4. PICK f \in [0..m -> Text] : f[0] = template /\ \A n \in 1..m : f[n] = step[n][f[n - 1]]
  <2>1. PICK t \in [1..m -> [Text -> Text]] : t = step
    <3> HIDE DEF step
    <3> QED
      BY <1>3
  <2>2. \E f \in [0..m -> Text] : f[0] = template /\ \A n \in 1..m : f[n] = t[n][f[n - 1]]
    BY Recursion, SMTT(60)
  <2> HIDE DEF step
  <2> QED
    BY <2>1, <2>2
<1>5. \A n \in 1..m : f[n] = Replace(f[n - 1], order[n], values[order[n]])
  <2> SUFFICES ASSUME NEW n \in 1..m PROVE f[n] = Replace(f[n - 1], order[n], values[order[n]])
    OBVIOUS
  <2>1. f[n - 1] \in Text
    OBVIOUS
  <2> QED
    BY <1>4, <2>1
<1>6. Eq(f)
  <2>1. \A n \in 0..m : n # 0 => n \in 1..m
    OBVIOUS
  <2> QED
    BY <1>4, <1>5, <2>1
<1>7. PICK g : Eq(g) /\ Interpolated(template, values, order) = g[m]
  <2>1. Interpolated(template, values, order) = (CHOOSE g : Eq(g))[m]
    BY <1>1 DEF Interpolated
  <2> HIDE DEF Eq
  <2> QED
    BY <1>6, <2>1
<1>8. g[0] = template /\ \A n \in 1..m : g[n] = Replace(g[n - 1], order[n], values[order[n]])
  <2>1. 0 \in 0..m /\ \A n \in 1..m : n \in 0..m /\ n # 0
    OBVIOUS
  <2> QED
    BY <1>7, <2>1
<1> DEFINE S == {n \in 0..m : g[n] \in Text}
<1>9. 0 \in S
  BY <1>8
<1>10. ASSUME NEW n \in 1..m, n - 1 \in S PROVE n \in S
  <2>1. g[n - 1] \in Text /\ n \in 0..m
    BY <1>10
  <2>2. Replace(g[n - 1], order[n], values[order[n]]) \in Text
    BY <1>2, <2>1, ReplaceIsSpread
  <2> QED
    BY <1>8, <2>1, <2>2
<1>11. \A n \in 0..m : n \in S
  <2> HIDE DEF S
  <2> QED
    BY <1>9, <1>10, InductionUpTo
<1>12. g \in [0..m -> Text]
  <2>1. \A n \in 0..m : g[n] \in Text
    BY <1>11
  <2> QED
    BY <1>7, <2>1
<1> HIDE DEF Eq
<1> QED
  BY <1>1, <1>7, <1>8, <1>12

LEMMA RoundsType ==
    ASSUME NEW values \in [Key -> Text], NEW order, NEW n, \A i \in 1..n : order[i] \in Key
    PROVE  Rounds(order, values, n) \in [Atom -> Seq(Atom)]
<1>1. \A x \in Atom : <<x>> \in Seq(Atom)
  OBVIOUS
<1>2. \A k \in Key : values[k] \in Seq(Atom)
  BY DEF Text, Atom
<1> QED
  BY <1>1, <1>2 DEF Rounds

\* A round replaces its own placeholder and leaves the values in their places.
LEMMA OneMoreRound ==
    ASSUME NEW values \in [Key -> Text], Plain(values), NEW order \in SetToSeqs(Key),
           NEW n \in 1..Len(order), NEW x \in Atom
    PROVE  Spread(Rounds(order, values, n - 1)[x], One(order[n], values[order[n]]))
             = Rounds(order, values, n)[x]
<1>1. /\ order \in Seq(Key) /\ order[n] \in Key /\ values[order[n]] \in Text
      /\ \A i \in 1..Len(order) : order[i] \in Key
      /\ n \in Nat /\ n > 0 /\ n <= Len(order) /\ DOMAIN order = 1..Len(order)
  BY Listing, ReviewAssumption
<1> DEFINE h == One(order[n], values[order[n]])
<1>2. h \in [Atom -> Seq(Atom)]
  BY <1>1, ReplaceIsSpread, EmptySeq DEF Text, Atom
<1>3. \A y \in Atom : h[y] = IF y = order[n] THEN values[order[n]] ELSE <<y>>
  BY DEF One
<1> HIDE DEF h
<1>4. Rounds(order, values, n - 1)[x] = IF \E i \in 1..n - 1 : order[i] = x THEN values[x] ELSE <<x>>
  BY DEF Rounds
<1>5. Rounds(order, values, n)[x] = IF \E i \in 1..n : order[i] = x THEN values[x] ELSE <<x>>
  BY DEF Rounds
<1>6. CASE \E i \in 1..n - 1 : order[i] = x
  <2>1. PICK i \in 1..n - 1 : order[i] = x
    BY <1>6
  <2>2. i \in 1..n /\ i \in 1..Len(order)
    BY <1>1
  <2>3. x \in Key
    BY <1>1, <2>1, <2>2
  <2>4. values[x] \in Seq(Piece)
    <3>1. values[x] \in Seq(Key \cup Piece)
      BY <2>3 DEF Text
    <3>2. \A j \in DOMAIN values[x] : values[x][j] \in Key \cup Piece /\ values[x][j] \notin Key
      BY <2>3, <3>1 DEF Plain, Range
    <3>3. \A j \in 1..Len(values[x]) : values[x][j] \in Piece
      BY <3>1, <3>2
    <3> QED
      BY <3>1, <3>3
  <2>5. Piece \subseteq Atom /\ \A y \in Piece : h[y] = <<y>>
    BY <1>1, <1>3, ReviewAssumption DEF Atom
  <2>6. Spread(values[x], h) = values[x]
    BY <1>2, <2>4, <2>5, SpreadSame
  <2>7. Rounds(order, values, n)[x] = values[x]
    BY <1>5, <2>1, <2>2
  <2> QED
    BY <1>4, <1>6, <2>6, <2>7 DEF h
<1>7. CASE ~ \E i \in 1..n - 1 : order[i] = x
  <2>1. Spread(<<x>>, h) = h[x]
    BY <1>2, SpreadOne
  <2>2. (\E i \in 1..n : order[i] = x) <=> x = order[n]
    <3>1. ASSUME NEW i \in 1..n, order[i] = x PROVE x = order[n]
      <4>1. i = n \/ i \in 1..n - 1
        BY <1>1
      <4> QED
        BY <1>7, <3>1, <4>1
    <3>2. n \in 1..n
      BY <1>1
    <3> QED
      BY <3>1, <3>2
  <2>3. h[x] = Rounds(order, values, n)[x]
    BY <1>3, <1>5, <2>2
  <2>4. Rounds(order, values, n - 1)[x] = <<x>>
    BY <1>4, <1>7
  <2> QED
    BY <2>1, <2>3, <2>4 DEF h
<1> QED
  BY <1>6, <1>7

\* Where the values name no placeholder, the order of the rounds is of no
\* importance: each placeholder has its value.
LEMMA InterpolatedPlainly ==
    ASSUME NEW template \in Text, NEW values \in [Key -> Text], Plain(values),
           NEW order \in SetToSeqs(Key)
    PROVE  Interpolated(template, values, order)
             = FlattenSeq([i \in DOMAIN template |->
                 IF template[i] \in Key THEN values[template[i]] ELSE <<template[i]>>])
<1>1. /\ order \in Seq(Key) /\ Range(order) = Key /\ DOMAIN order = 1..Len(order)
      /\ Len(order) \in Nat /\ \A i \in 1..Len(order) : order[i] \in Key
  BY Listing, ReviewAssumption
<1>2. PICK m \in Nat : m = Len(order)
  BY <1>1
<1>3. PICK after \in [0..m -> Text] :
        /\ after[0] = template
        /\ \A n \in 1..m : after[n] = Replace(after[n - 1], order[n], values[order[n]])
        /\ Interpolated(template, values, order) = after[m]
  BY <1>2, InterpolatedStepwise
<1> DEFINE R(n) == Rounds(order, values, n)
           S == {n \in 0..m : after[n] = Spread(template, R(n))}
<1>4. template \in Seq(Atom)
  BY DEF Text, Atom
<1>5. \A n \in 0..m : R(n) \in [Atom -> Seq(Atom)]
  <2> SUFFICES ASSUME NEW n \in 0..m PROVE R(n) \in [Atom -> Seq(Atom)]
    OBVIOUS
  <2>1. \A i \in 1..n : order[i] \in Key
    BY <1>1, <1>2
  <2> QED
    BY <2>1, RoundsType
<1>6. 0 \in S
  <2>1. \A x \in Atom : R(0)[x] = <<x>>
    BY DEF Rounds
  <2>2. R(0) \in [Atom -> Seq(Atom)]
    BY <1>5
  <2>3. Spread(template, R(0)) = template
    <3> HIDE DEF R
    <3> QED
      BY <1>4, <2>1, <2>2, SpreadSame
  <2> QED
    BY <1>3, <2>3
<1>7. ASSUME NEW n \in 1..m, n - 1 \in S PROVE n \in S
  <2> DEFINE h == One(order[n], values[order[n]])
  <2>1. /\ n - 1 \in 0..m /\ n \in 0..m /\ after[n - 1] \in Text
        /\ order[n] \in Key /\ values[order[n]] \in Text
    BY <1>1, <1>2
  <2>2. after[n] = Spread(after[n - 1], h) /\ h \in [Atom -> Seq(Atom)]
    BY <1>3, <2>1, ReplaceIsSpread
  <2>3. after[n - 1] = Spread(template, R(n - 1))
    BY <1>7
  <2>4. \A x \in Atom : R(n)[x] = Spread(R(n - 1)[x], h)
    BY <1>2, OneMoreRound
  <2>5. R(n - 1) \in [Atom -> Seq(Atom)] /\ R(n) \in [Atom -> Seq(Atom)]
    BY <1>5, <2>1
  <2>6. after[n] = Spread(template, R(n))
    <3> HIDE DEF R, h
    <3>1. Spread(Spread(template, R(n - 1)), h) = Spread(template, R(n))
      <4>1. PICK a \in Replacements(Atom), b \in Replacements(Atom), c \in Replacements(Atom) :
              a = R(n - 1) /\ b = h /\ c = R(n)
        BY <2>2, <2>5 DEF Replacements
      <4>2. \A x \in Atom : c[x] = Spread(a[x], b)
        BY <2>4, <4>1
      <4>3. Spread(Spread(template, a), b) = Spread(template, c)
        BY <1>4, <4>2, SpreadTwice
      <4> QED
        BY <4>1, <4>3
    <3> QED
      BY <2>2, <2>3, <3>1
  <2> QED
    BY <2>1, <2>6
<1>8. \A n \in 0..m : n \in S
  <2> HIDE DEF S
  <2> QED
    BY <1>6, <1>7, InductionUpTo
<1>9. after[m] = Spread(template, R(m))
  <2>1. m \in S
    <3> HIDE DEF S
    <3> QED
      BY <1>8
  <2> QED
    BY <2>1
<1>10. \A i \in DOMAIN template :
         R(m)[template[i]] = IF template[i] \in Key THEN values[template[i]] ELSE <<template[i]>>
  <2> SUFFICES ASSUME NEW x \in Atom
               PROVE  R(m)[x] = IF x \in Key THEN values[x] ELSE <<x>>
    BY <1>4
  <2>1. (\E i \in 1..m : order[i] = x) <=> x \in Key
    BY <1>1, <1>2 DEF Range
  <2> QED
    BY <2>1 DEF Rounds
<1>11. [i \in DOMAIN template |-> R(m)[template[i]]]
         = [i \in DOMAIN template |->
              IF template[i] \in Key THEN values[template[i]] ELSE <<template[i]>>]
  <2> HIDE DEF R
  <2> QED
    BY <1>10
<1> QED
  <2> HIDE DEF R
  <2> QED
    BY <1>3, <1>9, <1>11 DEF Spread

\* A round loses its own placeholder only, and brings all of its value.
LEMMA ReplaceKeeps ==
    ASSUME NEW text \in Text, NEW key \in Key, NEW value \in Text
    PROVE  /\ \A x \in Range(text) : x # key => x \in Range(Replace(text, key, value))
           /\ key \in Range(text) => Range(value) \subseteq Range(Replace(text, key, value))
<1> DEFINE h == One(key, value)
<1>1. h \in [Atom -> Seq(Atom)] /\ Replace(text, key, value) = Spread(text, h)
  BY ReplaceIsSpread
<1>2. text \in Seq(Atom) /\ \A i \in DOMAIN text : text[i] \in Atom
  BY DEF Text, Atom
<1>3. \A y \in Atom : h[y] = IF y = key THEN value ELSE <<y>>
  BY DEF One
<1> HIDE DEF h
<1>4. Range(Spread(text, h)) = UNION {Range(h[text[i]]) : i \in DOMAIN text}
  BY <1>1, <1>2, SpreadRange
<1>5. ASSUME NEW i \in DOMAIN text, text[i] # key PROVE text[i] \in Range(Spread(text, h))
  <2>1. h[text[i]] = <<text[i]>>
    BY <1>2, <1>3, <1>5
  <2>2. text[i] \in Range(<<text[i]>>)
    BY DEF Range
  <2> QED
    BY <1>4, <2>1, <2>2
<1>6. ASSUME NEW i \in DOMAIN text, text[i] = key PROVE Range(value) \subseteq Range(Spread(text, h))
  <2>1. h[text[i]] = value
    BY <1>2, <1>3, <1>6
  <2> QED
    BY <1>4, <2>1
<1>7. \A x \in Range(text) : \E i \in DOMAIN text : x = text[i]
  BY DEF Range
<1> QED
  BY <1>1, <1>5, <1>6, <1>7

\* Every piece of the template and of the values it asks for comes through.
LEMMA InterpolatedKeeps ==
    ASSUME NEW template \in Text, NEW values \in [Key -> Text], NEW order \in SetToSeqs(Key)
    PROVE  /\ Range(template) \cap Piece \subseteq Range(Interpolated(template, values, order))
           /\ \A k \in Key \cap Range(template) :
                 Range(values[k]) \cap Piece \subseteq Range(Interpolated(template, values, order))
<1>1. /\ order \in Seq(Key) /\ Range(order) = Key /\ DOMAIN order = 1..Len(order)
      /\ Len(order) \in Nat /\ \A i \in 1..Len(order) : order[i] \in Key
  BY Listing, ReviewAssumption
<1>2. PICK m \in Nat : m = Len(order)
  BY <1>1
<1>3. PICK after \in [0..m -> Text] :
        /\ after[0] = template
        /\ \A n \in 1..m : after[n] = Replace(after[n - 1], order[n], values[order[n]])
        /\ Interpolated(template, values, order) = after[m]
  BY <1>2, InterpolatedStepwise
<1> DEFINE Kept(n) == Range(template) \cap Piece \subseteq Range(after[n])
           Came(n) == \A k \in Key \cap Range(template) :
                         IF \E i \in 1..n : order[i] = k
                         THEN Range(values[k]) \cap Piece \subseteq Range(after[n])
                         ELSE k \in Range(after[n])
           S == {n \in 0..m : Kept(n) /\ Came(n)}
<1>4. 0 \in S
  BY <1>3
<1>5. ASSUME NEW n \in 1..m, n - 1 \in S PROVE n \in S
  <2> DEFINE a == after[n - 1]
             z == after[n]
             key == order[n]
  <2>1. n \in 0..m /\ key \in Key /\ values[key] \in Text /\ a \in Text
    BY <1>1, <1>2
  <2>2. z = Replace(a, key, values[key])
    BY <1>3
  <2>3. /\ \A x \in Range(a) : x # key => x \in Range(z)
        /\ key \in Range(a) => Range(values[key]) \subseteq Range(z)
    <3> HIDE DEF a, z, key
    <3> QED
      BY <2>1, <2>2, ReplaceKeeps
  <2>4. Kept(n - 1) /\ Came(n - 1)
    BY <1>5
  <2>5. \A x \in Piece : x # key
    BY <2>1, ReviewAssumption
  <2>6. Kept(n)
    BY <2>3, <2>4, <2>5
  <2>7. Came(n)
    <3> SUFFICES ASSUME NEW k \in Key \cap Range(template)
                 PROVE  IF \E i \in 1..n : order[i] = k
                        THEN Range(values[k]) \cap Piece \subseteq Range(z)
                        ELSE k \in Range(z)
      OBVIOUS
    <3>1. CASE \E i \in 1..n - 1 : order[i] = k
      <4>1. Range(values[k]) \cap Piece \subseteq Range(a)
        BY <2>4, <3>1
      <4>2. Range(values[k]) \cap Piece \subseteq Range(z)
        <5> HIDE DEF a, z, key
        <5> QED
          BY <2>3, <2>5, <4>1
      <4>3. \E i \in 1..n : order[i] = k
        <5>1. PICK i \in 1..n - 1 : order[i] = k
          BY <3>1
        <5>2. i \in 1..n
          OBVIOUS
        <5> QED
          BY <5>1, <5>2
      <4> QED
        BY <4>2, <4>3
    <3>2. CASE ~ \E i \in 1..n - 1 : order[i] = k
      <4>1. k \in Range(a)
        BY <2>4, <3>2
      <4>2. CASE k = key
        <5>1. Range(values[k]) \subseteq Range(z)
          <6> HIDE DEF a, z, key
          <6> QED
            BY <2>3, <4>1, <4>2
        <5>2. \E i \in 1..n : order[i] = k
          <6>1. n \in 1..n
            OBVIOUS
          <6> QED
            BY <4>2, <6>1
        <5> QED
          BY <5>1, <5>2
      <4>3. CASE k # key
        <5>1. k \in Range(z)
          <6> HIDE DEF a, z, key
          <6> QED
            BY <2>3, <4>1, <4>3
        <5>2. ~ \E i \in 1..n : order[i] = k
          <6>1. \A i \in 1..n : i = n \/ i \in 1..n - 1
            OBVIOUS
          <6> QED
            BY <3>2, <4>3, <6>1
        <5> QED
          BY <5>1, <5>2
      <4> QED
        BY <4>2, <4>3
    <3> QED
      BY <3>1, <3>2
  <2> QED
    BY <2>1, <2>6, <2>7
<1>6. \A n \in 0..m : n \in S
  <2> HIDE DEF S
  <2> QED
    BY <1>4, <1>5, InductionUpTo
<1>7. Kept(m) /\ Came(m)
  <2>1. m \in S
    <3> HIDE DEF S
    <3> QED
      BY <1>6
  <2> QED
    BY <2>1
<1>8. \A k \in Key : \E i \in 1..m : order[i] = k
  BY <1>1, <1>2 DEF Range
<1> QED
  BY <1>3, <1>7, <1>8

\* The prompt of a review that asks was made of its template, its bundle and
\* what was attached.
Prompted(r) ==
    pc[r] \in {"chat", "wait"} \/ sent[r] # <<>> =>
        prompt[r] \in Prompts[config.template][call[r].bundle][refs[r]]

PromptInv == prompt \in [Review -> Text] /\ \A r \in Review : Prompted(r)

\* The texts that a prompt is made of.
LEMMA PromptTexts ==
    ASSUME Inv, LogInv, NEW r \in Review
    PROVE  /\ config.template \in Template /\ config.template \in Text
           /\ call[r].bundle \in DOMAIN Value
           /\ refs[r] \in Attachment \cup {<<>>}
           /\ Values(call[r].bundle, refs[r]) \in [Key -> Text]
<1>1. config.template \in Template /\ config.template \in Text
  BY ReviewAssumption DEF Inv, Typed, ConfigType
<1>2. call[r].bundle \in DOMAIN Value
  BY ReviewAssumption DEF Inv, Typed, CallType
<1>3. refs[r] \in Attachment \cup {<<>>}
  BY DEF LogInv, LogTyped
<1>4. refs[r] \in Text
  BY <1>3, ReviewAssumption, EmptySeq DEF Text
<1>5. Value[call[r].bundle] \in [Key -> Text]
  BY <1>2, ReviewAssumption
<1>6. Values(call[r].bundle, refs[r]) \in [Key -> Text]
  BY <1>4, <1>5 DEF Values
<1> QED
  BY <1>1, <1>2, <1>3, <1>6

LEMMA PromptOrder ==
    ASSUME Inv, LogInv, NEW r \in Review,
           NEW text \in Prompts[config.template][call[r].bundle][refs[r]]
    PROVE  \E order \in SetToSeqs(Key) :
              text = Interpolated(config.template, Values(call[r].bundle, refs[r]), order)
  BY PromptTexts DEF Prompts

LEMMA InterpolatedType ==
    ASSUME NEW template \in Text, NEW values \in [Key -> Text], NEW order \in SetToSeqs(Key)
    PROVE  Interpolated(template, values, order) \in Text
<1>1. PICK after \in [0..Len(order) -> Text] : Interpolated(template, values, order) = after[Len(order)]
  BY InterpolatedStepwise
<1>2. Len(order) \in 0..Len(order)
  BY Listing, ReviewAssumption
<1> QED
  BY <1>1, <1>2

LEMMA PromptTyped == Inv /\ LogInv /\ PromptInv /\ [Next]_vars => prompt' \in [Review -> Text]
<1> SUFFICES ASSUME Inv, LogInv, PromptInv, [Next]_vars PROVE prompt' \in [Review -> Text]
  OBVIOUS
<1>1. CASE UNCHANGED prompt
  BY <1>1 DEF PromptInv
<1>2. ASSUME NEW r \in Review, Build(r) PROVE prompt' \in [Review -> Text]
  <2>1. PICK text \in Prompts[config.template][call[r].bundle][refs[r]] :
          prompt' = [prompt EXCEPT ![r] = text]
    BY <1>2 DEF Build
  <2>2. text \in Text
    BY PromptTexts, PromptOrder, InterpolatedType
  <2> QED
    BY <2>1, <2>2 DEF PromptInv
<1>3. UNCHANGED prompt \/ \E r \in Review : Build(r)
  BY DEF Next, Local, Reply, vars, Skip, Enrich, WriteLog, BuildFails, Ask, NetworkError, Refused,
         ServerFails, Unusable, Good, Bad, BadAgain
<1> QED
  BY <1>1, <1>2, <1>3

LEMMA PromptStep == Inv /\ LogInv /\ PromptInv /\ [Next]_vars => PromptInv'
<1> SUFFICES ASSUME Inv, LogInv, PromptInv, [Next]_vars, NEW s \in Review PROVE Prompted(s)'
  BY PromptTyped DEF PromptInv
<1>0. Prompted(s)
  BY DEF PromptInv
<1>1. CASE UNCHANGED vars
  BY <1>0, <1>1 DEF vars, setup, asking, Prompted
<1>2. ASSUME NEW r \in Review, Enrich(r) PROVE Prompted(s)'
  <2>1. /\ pc[r] = "start" /\ pc'[r] \notin {"chat", "wait"} /\ sent[r] = <<>>
        /\ UNCHANGED <<config, call, prompt, sent>>
        /\ \A q \in Review \ {r} : pc'[q] = pc[q] /\ refs'[q] = refs[q]
    BY <1>2 DEF Enrich, Goto, setup, asking, Inv, Typed, LogInv, LogTyped, Conversation, Answers
  <2> QED
    BY <1>0, <2>1 DEF Prompted
<1>3. ASSUME NEW r \in Review, Skip(r) \/ WriteLog(r) \/ BuildFails(r) PROVE Prompted(s)'
  <2>1. /\ pc'[r] \notin {"chat", "wait"} /\ UNCHANGED <<config, call, prompt, sent, refs>>
        /\ \A q \in Review \ {r} : pc'[q] = pc[q]
    BY <1>3 DEF Skip, WriteLog, BuildFails, Goto, setup, asking, Inv, Typed
  <2> QED
    BY <1>0, <2>1 DEF Prompted
<1>4. ASSUME NEW r \in Review, Build(r) PROVE Prompted(s)'
  <2>1. PICK text \in Prompts[config.template][call[r].bundle][refs[r]] :
          prompt' = [prompt EXCEPT ![r] = text]
    BY <1>4 DEF Build
  <2>2. /\ pc[r] = "build" /\ UNCHANGED <<config, call, sent, refs>> /\ sent[r] = <<>>
        /\ \A q \in Review \ {r} : pc'[q] = pc[q]
    BY <1>4 DEF Build, Goto, setup, Inv, Typed, Conversation, Answers
  <2>3. CASE s = r
    <3>1. prompt'[r] = text
      BY <2>1 DEF PromptInv
    <3> QED
      BY <2>1, <2>2, <2>3, <3>1 DEF Prompted
  <2>4. CASE s # r
    <3>1. prompt'[s] = prompt[s] /\ pc'[s] = pc[s]
      BY <2>1, <2>2, <2>4
    <3> QED
      BY <1>0, <2>2, <3>1 DEF Prompted
  <2> QED
    BY <2>3, <2>4
<1>5. ASSUME NEW r \in Review, Ask(r) \/ NetworkError(r) \/ Reply(r) PROVE Prompted(s)'
  <2>1. /\ pc[r] \in {"chat", "wait"} /\ UNCHANGED <<config, call, prompt, refs>>
        /\ \A q \in Review \ {r} : pc'[q] = pc[q] /\ sent'[q] = sent[q]
    BY <1>5 DEF Ask, NetworkError, Reply, Refused, ServerFails, Unusable, Good, Bad, BadAgain,
                Answered, Goto, setup, asking, Inv, Typed
  <2> QED
    BY <1>0, <2>1 DEF Prompted
<1> QED
  BY <1>1, <1>2, <1>3, <1>4, <1>5 DEF Next, Local

LEMMA PromptAlways == Spec => [](Inv /\ LogInv /\ PromptInv)
<1>1. Init => PromptInv
  BY EmptySeq DEF Init, PromptInv, Prompted, Text
<1> QED
  BY <1>1, LogInit, LogStep, PromptStep, ConversationInOrder, PTL DEF Spec

\* The prompt says what it should, whatever order the placeholders are replaced
\* in, where no text names one; and it never loses a piece (interpolate).
THEOREM PromptsAreFaithful == Spec => []PromptFaithful
<1>1. Inv /\ LogInv /\ PromptInv => PromptFaithful
  <2> SUFFICES ASSUME Inv, LogInv, PromptInv, NEW r \in Review, sent[r] # <<>>
               PROVE  LET b == call[r].bundle
                          text == Substituted[config.template][b][refs[r]]
                      IN  /\ Plain(Values(b, refs[r])) => prompt[r] = text
                          /\ Range(text) \cap Piece \subseteq Range(prompt[r])
    BY DEF PromptFaithful
  <2> DEFINE b == call[r].bundle
             template == config.template
             values == Values(b, refs[r])
             text == FlattenSeq([i \in DOMAIN template |->
                        IF template[i] \in Key THEN values[template[i]] ELSE <<template[i]>>])
  <2>1. /\ template \in Template /\ template \in Text /\ b \in DOMAIN Value
        /\ refs[r] \in Attachment \cup {<<>>} /\ values \in [Key -> Text]
    BY PromptTexts
  <2>2. Substituted[template][b][refs[r]] = text
    BY <2>1 DEF Substituted
  <2>3. prompt[r] \in Prompts[config.template][call[r].bundle][refs[r]]
    BY DEF PromptInv, Prompted
  <2>4. PICK order \in SetToSeqs(Key) : prompt[r] = Interpolated(template, values, order)
    BY <2>3, PromptOrder
  <2>5. Plain(values) => prompt[r] = text
    <3> HIDE DEF values, template
    <3> QED
      BY <2>1, <2>4, InterpolatedPlainly
  <2>6. Range(text) \cap Piece \subseteq Range(prompt[r])
    <3> HIDE DEF values, template
    <3> SUFFICES ASSUME NEW x \in Range(text) \cap Piece PROVE x \in Range(prompt[r])
      OBVIOUS
    <3>1. /\ Range(template) \cap Piece \subseteq Range(prompt[r])
          /\ \A k \in Key \cap Range(template) : Range(values[k]) \cap Piece \subseteq Range(prompt[r])
      BY <2>1, <2>4, InterpolatedKeeps
    <3> DEFINE parts == [i \in DOMAIN template |->
                           IF template[i] \in Key THEN values[template[i]] ELSE <<template[i]>>]
    <3>2. parts \in Texts(Atom)
      <4> DEFINE h == [y \in Atom |-> IF y \in Key THEN values[y] ELSE <<y>>]
      <4>1. h \in [Atom -> Seq(Atom)]
        <5>1. \A y \in Key : values[y] \in Seq(Atom)
          BY <2>1 DEF Text, Atom
        <5>2. \A y \in Atom : <<y>> \in Seq(Atom)
          OBVIOUS
        <5> QED
          BY <5>1, <5>2
      <4>2. template \in Seq(Atom) /\ \A i \in DOMAIN template : template[i] \in Atom
        BY <2>1 DEF Text, Atom
      <4>3. [i \in DOMAIN template |-> h[template[i]]] = parts
        BY <4>2
      <4>4. [i \in DOMAIN template |-> h[template[i]]] \in Texts(Atom)
        <5> HIDE DEF h
        <5> QED
          BY <4>1, <4>2, SpreadParts
      <4> QED
        BY <4>3, <4>4
    <3>3. PICK j \in DOMAIN FlattenSeq(parts) : x = FlattenSeq(parts)[j]
      BY DEF Range
    <3>4. PICK i \in DOMAIN parts : \E k \in DOMAIN parts[i] : x = parts[i][k]
      <4> HIDE DEF parts
      <4> QED
        BY <3>2, <3>3, FlattenElements
    <3>5. CASE template[i] \in Key
      <4>1. parts[i] = values[template[i]] /\ template[i] \in Range(template)
        BY <3>5 DEF Range
      <4>2. x \in Range(values[template[i]])
        BY <3>3, <3>4, <4>1 DEF Range
      <4> QED
        BY <3>1, <3>5, <4>1, <4>2
    <3>6. CASE template[i] \notin Key
      <4>1. parts[i] = <<template[i]>> /\ template[i] \in Range(template)
        BY <3>6 DEF Range
      <4>2. x = template[i]
        BY <3>3, <3>4, <4>1
      <4> QED
        BY <3>1, <4>1, <4>2
    <3> QED
      BY <3>5, <3>6
  <2> QED
    BY <2>2, <2>5, <2>6
<1> QED
  BY <1>1, PromptAlways, PTL

-----------------------------------------------------------------------------
(* Types.                                                                  *)

\* What is quoted or returned has come.
Referring(r) == req[r].quotes <= Len(got[r]) /\ result[r] <= Len(got[r])
ReferInv == \A r \in Review : Referring(r)

LEMMA ReferStep == Inv /\ ReferInv /\ [Next]_vars => ReferInv'
<1> SUFFICES ASSUME Inv, ReferInv, [Next]_vars, NEW s \in Review PROVE Referring(s)'
  BY DEF ReferInv
<1>0. /\ Referring(s) /\ got[s] \in Seq(Outcome) /\ sent[s] \in Seq(RequestType)
      /\ Len(got[s]) \in Nat /\ req[s].quotes \in Nat /\ result[s] \in Nat
  <2>1. got[s] \in Seq(Outcome) /\ sent[s] \in Seq(RequestType) /\ result[s] \in Nat
    BY DEF Inv, Typed
  <2>2. req[s] \in RequestType
    BY DEF Inv, Typed
  <2> QED
    BY <2>1, <2>2 DEF ReferInv, RequestType
<1>1. CASE UNCHANGED <<req, got, result>>
  BY <1>0, <1>1 DEF Referring
<1>2. ASSUME NEW r \in Review, Build(r) PROVE Referring(s)'
  <2>1. /\ req' = [req EXCEPT ![r] = Body(r, TRUE, 0)] /\ got' = got /\ result' = result
    BY <1>2 DEF Build
  <2>2. req'[s].quotes = IF s = r THEN 0 ELSE req[s].quotes
    <3>1. Body(r, TRUE, 0).quotes = 0
      BY DEF Body
    <3>2. req'[s] = IF s = r THEN Body(r, TRUE, 0) ELSE req[s]
      BY <2>1 DEF Inv, Typed
    <3> QED
      BY <3>1, <3>2
  <2>3. req'[s].quotes <= Len(got[s])
    BY <1>0, <2>2 DEF Referring
  <2> QED
    BY <1>0, <2>1, <2>3 DEF Referring
<1>3. ASSUME NEW r \in Review, NEW c \in Outcome, got' = [got EXCEPT ![r] = Append(@, c)],
             req'[s].quotes = req[s].quotes, result' = result
      PROVE  Referring(s)'
  <2>1. got'[s] = IF s = r THEN Append(got[s], c) ELSE got[s]
    BY <1>3 DEF Inv, Typed
  <2>2. Len(got'[s]) \in Nat /\ Len(got'[s]) >= Len(got[s])
    BY <1>0, <2>1
  <2> QED
    BY <1>0, <1>3, <2>2 DEF Referring
<1>4. ASSUME NEW r \in Review, Refused(r) PROVE Referring(s)'
  <2>1. req'[s].quotes = req[s].quotes
    BY <1>4 DEF Refused, Fallback, Inv, Typed, RequestType
  <2> QED
    BY <1>3, <1>4, <2>1 DEF Refused, Receive, Outcome
<1>5. ASSUME NEW r \in Review, ServerFails(r) \/ Unusable(r) \/ BadAgain(r) PROVE Referring(s)'
  BY <1>3, <1>5 DEF ServerFails, Unusable, BadAgain, Answered, Receive, Outcome
<1>6. ASSUME NEW r \in Review, Good(r) \/ Bad(r) PROVE Referring(s)'
  <2>1. /\ pc[r] = "wait" /\ \E c \in Outcome : got' = [got EXCEPT ![r] = Append(@, c)]
    BY <1>6 DEF Good, Bad, Answered, Receive, Outcome
  <2>2. PICK c \in Outcome : got' = [got EXCEPT ![r] = Append(@, c)]
    BY <2>1
  <2>3. CASE s = r
    <3>1. Len(sent[s]) = Len(got[s]) + 1
      BY <2>1, <2>3 DEF Inv, Conversation, Answers
    <3>2. got'[s] = Append(got[s], c)
      BY <2>2, <2>3 DEF Inv, Typed
    <3>3. Len(got'[s]) = Len(got[s]) + 1
      BY <1>0, <3>2
    <3>4. CASE Good(r)
      <4>1. req' = req /\ result'[s] = Len(sent[s])
        BY <2>3, <3>4 DEF Good, Inv, Typed
      <4> QED
        BY <1>0, <3>1, <3>3, <4>1 DEF Referring
    <3>5. CASE Bad(r)
      <4>1. result' = result /\ req'[s] = Body(s, FALSE, Len(sent[s]))
        BY <2>3, <3>5 DEF Bad, Correction, Inv, Typed
      <4>2. req'[s].quotes = Len(sent[s])
        <5>1. Body(s, FALSE, Len(sent[s])).quotes = Len(sent[s])
          BY DEF Body
        <5> QED
          BY <4>1, <5>1
      <4>3. req'[s].quotes <= Len(got'[s])
        BY <1>0, <3>1, <3>3, <4>2
      <4>4. result'[s] <= Len(got'[s])
        BY <1>0, <3>3, <4>1 DEF Referring
      <4> QED
        BY <4>3, <4>4 DEF Referring
    <3> QED
      BY <1>6, <3>4, <3>5
  <2>4. CASE s # r
    <3>1. /\ got'[s] = got[s] /\ req'[s] = req[s] /\ result'[s] = result[s]
      BY <1>6, <2>2, <2>4 DEF Good, Bad, Inv, Typed
    <3> QED
      BY <1>0, <3>1 DEF Referring
  <2> QED
    BY <2>3, <2>4
<1>7. ASSUME NEW r \in Review,
             Skip(r) \/ Enrich(r) \/ WriteLog(r) \/ BuildFails(r) \/ Ask(r) \/ NetworkError(r)
      PROVE  UNCHANGED <<req, got, result>>
  BY <1>7 DEF Skip, Enrich, WriteLog, BuildFails, Ask, NetworkError, asking
<1> QED
  BY <1>1, <1>2, <1>4, <1>5, <1>6, <1>7 DEF Next, Local, Reply, vars

\* The type invariant.
THEOREM ReviewIsTyped == Spec => []TypeOK
<1>1. Init => ReferInv
  BY DEF Init, ReferInv, Referring, NoRequest
<1>2. Inv /\ LogInv /\ PromptInv /\ ReferInv => TypeOK
  <2> SUFFICES ASSUME Inv, LogInv, PromptInv, ReferInv PROVE TypeOK
    OBVIOUS
  <2>1. ASSUME NEW r \in Review PROVE {req[r].quotes, result[r]} \subseteq 0..Len(got[r])
    <3>1. /\ req[r].quotes \in Nat /\ result[r] \in Nat /\ Len(got[r]) \in Nat
          /\ req[r].quotes <= Len(got[r]) /\ result[r] <= Len(got[r])
      BY DEF Inv, Typed, RequestType, ReferInv, Referring
    <3> QED
      BY <3>1
  <2>2. log \in Seq([review : Review, refs : Attachment])
    BY DEF LogInv, LogTyped, LogLine
  <2> QED
    BY <2>1, <2>2 DEF TypeOK, Inv, Typed, LogInv, LogTyped, PromptInv
<1> QED
  BY <1>1, <1>2, ReferStep, PromptAlways, PTL DEF Spec
=============================================================================
