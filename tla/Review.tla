------------------------------ MODULE Review ------------------------------
(***************************************************************************)
(* engine.Review around its enrichment: the gate before it, the line of    *)
(* the bundle log after it, the prompt, and the conversation with the      *)
(* model.  A request goes through an adapter, which sends it again without *)
(* a schema when the server refuses it with a 400; an answer that does not *)
(* parse is sent back once with a correction.  Requests may be refused,    *)
(* fail, time out, be cancelled or be answered with anything.              *)
(*                                                                         *)
(* What the enrichment attaches is described by Enrichment; here it is any *)
(* text.  Texts are sequences of pieces, some of which are placeholders.   *)
(***************************************************************************)
EXTENDS Naturals, FiniteSets, Sequences, SequencesExt

CONSTANTS
    Review,      \* calls of engine.Review, of engines with one configuration
    Adapter,     \* Adapter[r]: "openai" or "anthropic"
    Key,         \* placeholders of the templates, Refs among them
    Refs,        \* the placeholder of the referenced files
    Piece,       \* other pieces of text
    Template,    \* templates: sequences of keys and pieces
    Value,       \* Value[b][k]: the text of the bundle b for the key k
    Attachment,  \* texts that the enrichment may attach
    Model,       \* names of models
    NoModel,     \* the empty name
    Config,      \* what the reviews have in common, see ConfigType
    Call         \* what callers ask for, see CallType

Text == Seq(Key \cup Piece)

\* enrich: "off" without a workspace, when it is skipped, or for an empty
\* bundle; "capped" when it depends on what git says of the workspace.
\* schema: the schema is a JSON object, as it need not be in a PromptRoot.
ConfigType ==
    [enrich : {"off", "capped", "on"}, sink : BOOLEAN, template : Template, schema : BOOLEAN]
CallType == [bundle : DOMAIN Value, model : Model \cup {NoModel}]

ASSUME ReviewAssumption ==
    /\ Adapter \in [Review -> {"openai", "anthropic"}]
    /\ Refs \in Key /\ IsFiniteSet(Key) /\ Key \cap Piece = {}
    /\ Template \subseteq Text
    /\ \A b \in DOMAIN Value : Value[b] \in [Key -> Text]
    /\ Attachment \subseteq Text
    /\ NoModel \notin Model
    /\ Config \subseteq ConfigType
    /\ Call \subseteq CallType

VARIABLES
    config,      \* the configuration of the engines
    call,        \* call[r]: the bundle and the options of r
    pc,          \* where each review is
    refs,        \* refs[r]: bundle.ReferencedFiles, as text
    log,         \* lines of the bundle log
    unlogged,    \* reviews whose line the sink did not take
    prompt,      \* prompt[r]: the user message
    req,         \* req[r]: the request being made, see RequestType
    sent,        \* sent[r]: requests the server was sent
    got,         \* got[r][i]: what came of sent[r][i]
    result       \* result[r]: the answer whose review and tokens are returned

vars == <<config, call, pc, refs, log, unlogged, prompt, req, sent, got, result>>
setup == <<config, call>>
asking == <<req, sent, got, result>>

\* A request of ChatRequest: try is TryJSONSchema, attempt what the adapter
\* passes to send, format whether the body asks for structured output, and
\* quotes the answer that the messages quote, 0 for none.
RequestType ==
    [try : BOOLEAN, attempt : BOOLEAN, format : BOOLEAN, quotes : Nat,
     model : Model \cup {NoModel}]
NoRequest == [try |-> FALSE, attempt |-> FALSE, format |-> FALSE, quotes |-> 0, model |-> NoModel]

PC == {"start", "log", "build", "chat", "wait", "returned", "failed"}
Over(r) == pc[r] \in {"returned", "failed"}

Goto(r, p) == pc' = [pc EXCEPT ![r] = p]

-----------------------------------------------------------------------------
(* Enrichment and the bundle log.                                          *)

\* shouldEnrich says no.
Skip(r) ==
    /\ pc[r] = "start" /\ config.enrich # "on"
    /\ Goto(r, "build")
    /\ UNCHANGED <<setup, refs, log, unlogged, prompt, asking>>

\* (Mutant.) No line is written when nothing was attached.
EnrichQuietly(r) ==
    /\ pc[r] = "start" /\ config.enrich # "off"
    /\ \E text \in Attachment :
         /\ refs' = [refs EXCEPT ![r] = text]
         /\ Goto(r, IF config.sink /\ text # <<>> THEN "log" ELSE "build")
    /\ UNCHANGED <<setup, log, unlogged, prompt, asking>>

Enrich(r) ==
    /\ pc[r] = "start" /\ config.enrich # "off"
    /\ \E text \in Attachment : refs' = [refs EXCEPT ![r] = text]
    /\ Goto(r, IF config.sink THEN "log" ELSE "build")
    /\ UNCHANGED <<setup, log, unlogged, prompt, asking>>

\* AppendTo writes the line with one Write; its error is not looked at.
WriteLog(r) ==
    /\ pc[r] = "log"
    /\ \/ /\ log' = Append(log, [review |-> r, refs |-> refs[r]])
          /\ UNCHANGED unlogged
       \/ /\ unlogged' = unlogged \cup {r}
          /\ UNCHANGED log
    /\ Goto(r, "build")
    /\ UNCHANGED <<setup, refs, prompt, asking>>

-----------------------------------------------------------------------------
(* The prompt.                                                             *)

\* (Mutant.) Only the first occurrence is replaced.
ReplaceFirst(text, key, value) ==
    IF key \notin Range(text) THEN text
    ELSE LET i == CHOOSE i \in DOMAIN text : text[i] = key /\ key \notin Range(SubSeq(text, 1, i - 1))
         IN  SubSeq(text, 1, i - 1) \o value \o SubSeq(text, i + 1, Len(text))

\* strings.ReplaceAll of one placeholder.
Replace(text, key, value) ==
    FlattenSeq([i \in DOMAIN text |-> IF text[i] = key THEN value ELSE <<text[i]>>])

\* interpolate replaces one placeholder after the other, in the order in which
\* a map yields them, in the template and in what has been put into it.
Values(b, attached) == [Value[b] EXCEPT ![Refs] = attached]
Interpolated(template, values, order) ==
    LET after[n \in 0..Len(order)] ==
            IF n = 0 THEN template ELSE Replace(after[n - 1], order[n], values[order[n]])
    IN  after[Len(order)]

\* What may come out of it.
Prompts ==
    [template \in Template |-> [b \in DOMAIN Value |-> [attached \in Attachment \cup {<<>>} |->
        {Interpolated(template, Values(b, attached), order) : order \in SetToSeqs(Key)}]]]

\* The body of the first request: TryJSONSchema is set, and the schema is used
\* if it can be.  OpenAI's send is told the former, Anthropic's the latter.
Body(r, try, quotes) ==
    [try |-> try, quotes |-> quotes, model |-> call[r].model,
     format |-> try /\ config.schema,
     attempt |-> try /\ (config.schema \/ Adapter[r] = "openai")]

Build(r) ==
    /\ pc[r] = "build"
    /\ \E text \in Prompts[config.template][call[r].bundle][refs[r]] :
            prompt' = [prompt EXCEPT ![r] = text]
    /\ req' = [req EXCEPT ![r] = Body(r, TRUE, 0)]
    /\ Goto(r, "chat")
    /\ UNCHANGED <<setup, refs, log, unlogged, sent, got, result>>

\* PromptRoot has no template for the mode.
BuildFails(r) ==
    /\ pc[r] = "build"
    /\ Goto(r, "failed")
    /\ UNCHANGED <<setup, refs, log, unlogged, prompt, asking>>

-----------------------------------------------------------------------------
(* The conversation.                                                       *)

Ask(r) ==
    /\ pc[r] = "chat"
    /\ sent' = [sent EXCEPT ![r] = Append(@, req[r])]
    /\ Goto(r, "wait")
    /\ UNCHANGED <<setup, refs, log, unlogged, prompt, req, got, result>>

\* (Mutant.) Requests have no timeout.
NoTimeout(r) ==
    /\ pc[r] = "chat"
    /\ Goto(r, "failed")
    /\ UNCHANGED <<setup, refs, log, unlogged, prompt, asking>>

\* The caller's context is done, the request timed out, or the connection failed.
NetworkError(r) ==
    /\ pc[r] \in {"chat", "wait"}
    /\ Goto(r, "failed")
    /\ UNCHANGED <<setup, refs, log, unlogged, prompt, asking>>

Receive(r, reply) == got' = [got EXCEPT ![r] = Append(@, reply)]

\* (Mutant.) The request after a 400 may be sent again after another.
StillAttempting(q) == [q EXCEPT !.format = FALSE]

\* (Mutant.) ... or asks for the same.
SameBody(q) == [q EXCEPT !.attempt = FALSE]

\* The body without what the server did not understand.
Fallback(q) == [q EXCEPT !.format = FALSE, !.attempt = FALSE]

\* A 400 to an attempt at structured output.
Refused(r) ==
    /\ pc[r] = "wait" /\ req[r].attempt
    /\ Receive(r, "400")
    /\ req' = [req EXCEPT ![r] = Fallback(@)]
    /\ Goto(r, "chat")
    /\ UNCHANGED <<setup, refs, log, unlogged, prompt, sent, result>>

\* mapHTTPError: any other status than 200, or a 400 again.
ServerFails(r) ==
    /\ pc[r] = "wait"
    /\ \/ Receive(r, "error")
       \/ ~req[r].attempt /\ Receive(r, "400")
    /\ Goto(r, "failed")
    /\ UNCHANGED <<setup, refs, log, unlogged, prompt, req, sent, result>>

\* What a 200 holds: the input of a tool, text, or neither, which may parse as
\* a review or not.  OpenAI's text is the content of the first choice.
Content == {"none", "good", "bad"}
Holds(r, tool, text) ==
    IF Adapter[r] = "anthropic" /\ req[r].attempt /\ tool # "none" THEN tool ELSE text

\* No choices, no usable block, or a body that is not JSON.
Unusable(r) ==
    /\ pc[r] = "wait"
    /\ Receive(r, "unusable")
    /\ Goto(r, "failed")
    /\ UNCHANGED <<setup, refs, log, unlogged, prompt, req, sent, result>>

Answered(r, content) ==
    /\ pc[r] = "wait"
    /\ \E tool, text \in Content : Holds(r, tool, text) = content
    /\ Receive(r, content)

\* (Mutant.) The second answer is parsed, the first one's tokens are reported.
GoodOfFirst(r) ==
    /\ Answered(r, "good")
    /\ result' = [result EXCEPT ![r] = 1]
    /\ Goto(r, "returned")
    /\ UNCHANGED <<setup, refs, log, unlogged, prompt, req, sent>>

Good(r) ==
    /\ Answered(r, "good")
    /\ result' = [result EXCEPT ![r] = Len(sent[r])]
    /\ Goto(r, "returned")
    /\ UNCHANGED <<setup, refs, log, unlogged, prompt, req, sent>>

\* (Mutant.) The correction quotes nothing.
Forgetful(r) == Body(r, FALSE, 0)

\* (Mutant.) It quotes an answer that has not come.
Foretelling(r) == Body(r, FALSE, Len(sent[r]) + 1)

Correction(r) == Body(r, FALSE, Len(sent[r]))

\* The first answer that does not parse is quoted in a correction ...
Bad(r) ==
    /\ req[r].try
    /\ Answered(r, "bad")
    /\ req' = [req EXCEPT ![r] = Correction(r)]
    /\ Goto(r, "chat")
    /\ UNCHANGED <<setup, refs, log, unlogged, prompt, sent, result>>

\* (Mutant.) The second one is corrected, too.
CorrectAgain(r) ==
    /\ ~req[r].try
    /\ Answered(r, "bad")
    /\ req' = [req EXCEPT ![r] = Correction(r)]
    /\ Goto(r, "chat")
    /\ UNCHANGED <<setup, refs, log, unlogged, prompt, sent, result>>

\* ... and the second one ends the review.
BadAgain(r) ==
    /\ ~req[r].try
    /\ Answered(r, "bad")
    /\ Goto(r, "failed")
    /\ UNCHANGED <<setup, refs, log, unlogged, prompt, req, sent, result>>

-----------------------------------------------------------------------------
Init ==
    /\ config \in Config
    /\ call \in [Review -> Call]
    /\ pc = [r \in Review |-> "start"]
    /\ refs = [r \in Review |-> <<>>]
    /\ log = <<>>
    /\ unlogged = {}
    /\ prompt = [r \in Review |-> <<>>]
    /\ req = [r \in Review |-> NoRequest]
    /\ sent = [r \in Review |-> <<>>]
    /\ got = [r \in Review |-> <<>>]
    /\ result = [r \in Review |-> 0]

\* What the program does by itself, its timeouts included, and what a server
\* may do or not.
Local(r) ==
    \/ Skip(r) \/ Enrich(r) \/ WriteLog(r)
    \/ Build(r) \/ BuildFails(r)
    \/ Ask(r) \/ NetworkError(r)
Reply(r) ==
    \/ Refused(r) \/ ServerFails(r) \/ Unusable(r)
    \/ Good(r) \/ Bad(r) \/ BadAgain(r)

Next == \E r \in Review : Local(r) \/ Reply(r)

Spec == Init /\ [][Next]_vars
FairSpec == Spec /\ \A r \in Review : WF_vars(Local(r))

-----------------------------------------------------------------------------
(* Properties.                                                             *)

Outcome == {"400", "error", "unusable", "good", "bad"}

TypeOK ==
    /\ config \in Config
    /\ call \in [Review -> Call]
    /\ pc \in [Review -> PC]
    /\ refs \in [Review -> Attachment \cup {<<>>}]
    /\ log \in Seq([review : Review, refs : Attachment])
    /\ unlogged \subseteq Review
    /\ prompt \in [Review -> Text]
    /\ req \in [Review -> RequestType]
    /\ sent \in [Review -> Seq(RequestType)]
    /\ got \in [Review -> Seq(Outcome)]
    /\ result \in [Review -> Nat]
    /\ \A r \in Review : {req[r].quotes, result[r]} \subseteq 0..Len(got[r])

\* However refusals and answers that do not parse come together, a review costs
\* three requests at most, of which only the first asks for structured output
\* (send's fallback after a 400, Review's retry).
RequestsBounded ==
    \A r \in Review :
        Len(sent[r]) <= 3 /\ \A i \in DOMAIN sent[r] : sent[r][i].format => i = 1

\* No request is sent that was sent before, unless the schema is unusable and
\* OpenAI's adapter makes an attempt without it.
SameRequest(p, q) == p.format = q.format /\ p.quotes = q.quotes
NothingAskedTwice ==
    \A r \in Review :
        Adapter[r] = "anthropic" \/ config.schema =>
            \A i, j \in DOMAIN sent[r] : SameRequest(sent[r][i], sent[r][j]) => i = j

\* A request after the first follows a refusal and asks for the same, or
\* follows an answer that did not parse and quotes just that answer.
CorrectionFollowsRejection ==
    \A r \in Review : \A i \in DOMAIN sent[r] :
        LET q == sent[r][i].quotes
        IN  /\ q # 0 => q = i - 1 /\ got[r][q] = "bad" /\ ~sent[r][i].format
            /\ q = 0 /\ i > 1 => got[r][i - 1] = "400"

\* A review returns exactly when an answer parsed, and it reports the tokens
\* of that answer, which is the last one.
GoodAnswerIsReturned ==
    \A r \in Review :
        /\ pc[r] = "returned" <=> \E i \in DOMAIN got[r] : got[r][i] = "good"
        /\ pc[r] = "returned" => result[r] = Len(sent[r]) /\ got[r][result[r]] = "good"

\* When the model is asked, the log has one line of an enriched review, with
\* what was attached to the prompt, unless the sink failed (Review writes it
\* before the chat; the review may still fail).
LinesOf(r) == {i \in DOMAIN log : log[i].review = r}
LoggedBeforeAsked ==
    \A r \in Review :
        /\ config.enrich = "on" /\ config.sink /\ r \notin unlogged /\ sent[r] # <<>>
             => Cardinality(LinesOf(r)) = 1
        /\ \A i \in LinesOf(r) : log[i].refs = refs[r]

\* Where no text names a placeholder, the prompt is the template with all texts
\* in their places, whatever order the map of placeholders is walked in; and
\* every piece of every text is there even otherwise (interpolate).
Plain(values) == \A k \in Key : Range(values[k]) \cap Key = {}
Substituted ==
    [template \in Template |-> [b \in DOMAIN Value |-> [attached \in Attachment \cup {<<>>} |->
        FlattenSeq([i \in DOMAIN template |->
            IF template[i] \in Key THEN Values(b, attached)[template[i]] ELSE <<template[i]>>])]]]
PromptFaithful ==
    \A r \in Review : sent[r] # <<>> =>
        LET b == call[r].bundle
            text == Substituted[config.template][b][refs[r]]
        IN  /\ Plain(Values(b, refs[r])) => prompt[r] = text
            /\ Range(text) \cap Piece \subseteq Range(prompt[r])

\* Every review ends, although the server may never answer: each request has a
\* timeout, and there are not many of them.
EveryReviewEnds == \A r \in Review : <>Over(r)

\* One answer or one error for each review, after at most three requests.
Status(r) ==
    IF pc[r] = "returned" THEN "answered" ELSE IF pc[r] = "failed" THEN "failed" ELSE "running"
Abstract == INSTANCE OneAnswer WITH
    MaxRequests <- 3,
    status <- [r \in Review |-> Status(r)],
    asked <- [r \in Review |-> Len(sent[r])]
ImplementsOneAnswer == Abstract!Spec
=============================================================================
