------------------------------- MODULE Replies --------------------------------
(***************************************************************************)
(* What a request of Codex may be answered with: the controls its card has  *)
(* (handle_server_request), the form behind Answer (server_answer_form) and *)
(* the reply that a press or a submitted form is turned into                *)
(* (resolve_approval, answer_server_request, requests.rs).  Who gets there  *)
(* first, the stored rows and the cards are the concern of ServerRequests.  *)
(*                                                                          *)
(* A text is the sequence of its lines, which part a list as commas do; a   *)
(* field is known by its place; a number has a syntax, like a flag.         *)
(***************************************************************************)
EXTENDS Naturals, Sequences, FiniteSets

CONSTANTS
    FormFields,   \* fields a Discord form has room for (5)
    ButtonLimit,  \* buttons a card has room for (25)
    MaxOffered,   \* bound: decisions offered in a request
    MaxFields     \* bound: questions or fields of a request

VARIABLES
    request,      \* what Codex asked
    state,        \* "new", "open" (it is in pending_server_requests), "answered", "lost"
    form,         \* a form was opened for it
    said,         \* observed: what the owner pressed or typed for the reply
    reply         \* what Codex was sent

vars == <<request, state, form, said, reply>>

None == [as |-> "none"]

-----------------------------------------------------------------------------
UpTo(S, n) == UNION {[1..k -> S] : k \in 0..n}

Decisions == {"accept", "acceptForSession", "decline", "cancel", "amendment", "future"}
Words     == {"yes", "other"}
Blank     == ""
Texts     == UpTo(Words \cup {Blank}, 2)

(* Questions are free, from a list, from a list or other, or secret.        *)
Question(options, other, secret) == [options |-> options, other |-> other, secret |-> secret]
Questions == {Question({}, FALSE, FALSE), Question({"yes"}, FALSE, FALSE),
              Question({"yes"}, TRUE, FALSE), Question({}, FALSE, TRUE)}
Fields == [type : {"flag", "list", "text"}, required : BOOLEAN]

Modern   == {"command", "file"}
Nothing  == <<>>
Asked(method, listed, offered, url, schema, fields) ==
    [method |-> method, listed |-> listed, offered |-> offered,
     url |-> url, schema |-> schema, fields |-> fields]
Plain(method) == Asked(method, FALSE, Nothing, FALSE, FALSE, Nothing)

Requests ==
    {Plain(m) : m \in Modern \cup {"legacy", "permissions", "time", "unsupported"}}
    \cup (UNION {{Asked(m, TRUE, l, FALSE, FALSE, Nothing) : l \in UpTo(Decisions, MaxOffered)} :
                    m \in Modern})
    \cup {Asked("input", FALSE, Nothing, FALSE, TRUE, f) : f \in UpTo(Questions, MaxFields) \ {Nothing}}
    \cup (UNION {{Asked("mcp", FALSE, Nothing, u, w, Nothing) : w \in BOOLEAN} : u \in BOOLEAN})
    \cup {Asked("mcp", FALSE, Nothing, FALSE, TRUE, f) : f \in UpTo(Fields, MaxFields)}

(* offered_approval_decisions: those this relay knows, under the index they *)
(* have in the request.                                                     *)
Supported(r) == {i \in DOMAIN r.offered : r.offered[i] # "future"}

(* The first ButtonLimit of them have a button.                             *)
Place(r, i) == Cardinality({j \in Supported(r) : j <= i})
(* Mutant of Choices: numbered after the unknown ones were left out.        *)
ChoicesRenumbered(r) ==
    {[index |-> Place(r, i), label |-> r.offered[i]] :
        i \in {j \in Supported(r) : Place(r, j) <= ButtonLimit}}
Choices(r) ==
    {[index |-> i, label |-> r.offered[i]] :
        i \in {j \in Supported(r) : Place(r, j) <= ButtonLimit}}

Button(label) == [index |-> 0, label |-> label]
EmptyForm(r)  == r.method = "mcp" /\ ~r.url /\ r.schema /\ r.fields = Nothing

(* The buttons of the card; "answer" opens the form.                        *)
Controls(r) ==
    CASE r.method = "mcp" /\ r.url -> {Button("accept"), Button("cancel"), Button("decline")}
      [] EmptyForm(r) -> {Button("accept"), Button("decline")}
      [] r.method = "input" \/ (r.method = "mcp" /\ ~r.url /\ ~EmptyForm(r)) ->
            {Button("answer"), Button("decline")}
      [] r.method \in Modern /\ r.listed -> Choices(r)
      [] OTHER -> {Button("accept"), Button("acceptForSession"), Button("decline"), Button("cancel")}

-----------------------------------------------------------------------------
Refused == [as |-> "refused"]
Error(code) == [as |-> "error", code |-> code]
Decision(value) == [as |-> "decision", value |-> value]
Grant(permissions, scope) == [as |-> "grant", permissions |-> permissions, scope |-> scope]

(* mcp_elicitation_reply checks that a form has content, a link has none.   *)
NoContent     == [given |-> FALSE, fields |-> Nothing]
Given(fields) == [given |-> TRUE, fields |-> fields]
Elicitation(r, action, content) ==
    IF content.given = (action = "accept" /\ ~r.url)
    THEN [as |-> "elicitation", action |-> action, content |-> content.fields]
    ELSE Refused

LegacyDecision(d) ==
    CASE d = "accept" -> "approved" [] d = "acceptForSession" -> "approvedForSession"
      [] d = "decline" -> "denied"  [] d = "cancel" -> "abort"

(* resolve_approval after it has taken the request: what is sent, or it     *)
(* fails and the request is gone.                                           *)
Approval(r, button) ==
    LET d == button.label IN
    CASE r.method \in Modern /\ button.index # 0 ->
            IF button.index \in Supported(r) THEN Decision(r.offered[button.index]) ELSE Refused
      [] button.index # 0 -> Refused
      [] r.method \in Modern   -> Decision(d)
      [] r.method = "legacy"   -> Decision(LegacyDecision(d))
      [] r.method = "permissions" ->
            IF d \in {"decline", "cancel"} THEN Grant("nothing", "turn")
            ELSE Grant("asked", IF d = "accept" THEN "turn" ELSE "session")
      [] r.method = "mcp" ->
            IF d \in {"decline", "cancel"} THEN Elicitation(r, d, NoContent)
            ELSE IF d = "accept" /\ r.url THEN Elicitation(r, d, NoContent)
            ELSE IF d = "accept" /\ EmptyForm(r) THEN Elicitation(r, d, Given(Nothing))
            ELSE Refused
      [] r.method = "input" -> IF d \in {"decline", "cancel"} THEN Error("declined") ELSE Refused
      [] OTHER -> Error("unsupported")

(* expired_server_reply: what each protocol takes for an end.               *)
Expired(r) ==
    CASE r.method \in Modern     -> Decision("cancel")
      [] r.method = "legacy"     -> Decision("timedOut")
      [] r.method = "mcp"        -> Elicitation(r, "cancel", NoContent)
      [] r.method = "permissions" -> Grant("nothing", "turn")
      [] r.method = "input"      -> Error("expired")
      [] OTHER                   -> Error("unsupported")

-----------------------------------------------------------------------------
(* One field for each question or property, or one for all of them.         *)
Single(r) == Len(r.fields) \notin 1..FormFields

(* server_answer_form.                                                      *)
FormOffered(r) == ~(\E i \in DOMAIN r.fields : r.method = "input" /\ r.fields[i].secret)

(* What can be typed: Discord insists on the fields that are required.  In  *)
(* the single field any of the entries may be missing.                      *)
Inputs(r) ==
    LET n == 1..(IF r.fields = Nothing THEN 1 ELSE Len(r.fields)) IN
    IF Single(r) THEN UNION {[s -> Texts \ {<<>>}] : s \in (SUBSET n) \ {{}}}
    ELSE {t \in [n -> Texts] :
            \A i \in n : (r.method = "input" \/ r.fields[i].required) => t[i] # <<>>}

Parts(text) == SelectSeq(text, LAMBDA part : part # Blank)

(* validate_user_answer.                                                    *)
Valid(question, values) ==
    /\ values # <<>>
    /\ question.options # {} /\ ~question.other =>
         \A i \in DOMAIN values : values[i] \in question.options

(* parse_user_input_modal_answers.  An entry of the single field is one     *)
(* value and not split: with more than one part it is no word of any list.  *)
Values(r, text) == IF Single(r) /\ Len(text) > 1 THEN <<"other">> ELSE Parts(text)
Answers(r, texts) ==
    IF \A i \in DOMAIN r.fields :
         i \in DOMAIN texts /\ Valid(r.fields[i], Values(r, texts[i]))
    THEN [as |-> "answers", values |-> [i \in DOMAIN r.fields |-> Values(r, texts[i])]]
    ELSE Refused

(* parse_mcp_modal_content: the blank ones are left out; the entries of the *)
(* single field are taken as they look, whatever the schema says.           *)
Kept(texts) == {i \in DOMAIN texts : \E k \in DOMAIN texts[i] : texts[i][k] # Blank}
Typed(type, text) ==
    CASE type = "flag" -> [type |-> "flag", value |-> Parts(text)]
      [] type = "list" -> [type |-> "list", value |-> Parts(text)]
      [] type = "text" -> [type |-> "text", value |-> text]
Loose(text) == Typed(IF text = <<"yes">> THEN "flag" ELSE "text", text)
Content(r, texts) ==
    IF Single(r) THEN Elicitation(r, "accept", Given([i \in DOMAIN texts |-> Loose(texts[i])]))
    ELSE IF \E i \in Kept(texts) : r.fields[i].type = "flag" /\ Parts(texts[i]) # <<"yes">>
         THEN Refused
         ELSE Elicitation(r, "accept",
                Given([i \in Kept(texts) |-> Typed(r.fields[i].type, texts[i])]))

Submitted(r, texts) == IF r.method = "input" THEN Answers(r, texts) ELSE Content(r, texts)

-----------------------------------------------------------------------------
Init ==
    /\ request \in Requests /\ state = "new" /\ form = FALSE
    /\ said = None /\ reply = None

Send(r, words) == reply' = r /\ said' = words /\ state' = "answered"

(* handle_server_request: what needs nobody is answered at once.            *)
Handle ==
    /\ state = "new"
    /\ IF request.method = "time" THEN Send([as |-> "time"], None)
       ELSE IF request.method = "unsupported" THEN Send(Error("unsupported"), None)
       ELSE IF request.method \in Modern /\ request.listed /\ Supported(request) = {}
            THEN Send(Error("no supported decision"), None)
            ELSE state' = "open" /\ UNCHANGED <<said, reply>>
    /\ UNCHANGED <<request, form>>

(* A reply that does not get through puts the request back.                 *)
Deliver(r, words) == Send(r, words) \/ UNCHANGED <<state, said, reply>>

Press(button) ==
    /\ state = "open" /\ button.label # "answer"
    /\ LET r == Approval(request, button) IN
       IF r = Refused THEN state' = "lost" /\ UNCHANGED <<said, reply>>
       ELSE Deliver(r, [as |-> "pressed", button |-> button])
    /\ UNCHANGED <<request, form>>

OpenForm ==
    /\ state = "open" /\ Button("answer") \in Controls(request) /\ FormOffered(request)
    /\ form' = TRUE
    /\ UNCHANGED <<request, state, said, reply>>

Submit(texts) ==
    /\ state = "open" /\ form
    /\ LET r == Submitted(request, texts) IN
       IF r = Refused THEN UNCHANGED <<state, said, reply>>
       ELSE Deliver(r, [as |-> "typed", texts |-> texts])
    /\ UNCHANGED <<request, form>>

(* expire_live_pending_requests.                                            *)
Expire ==
    /\ state = "open" /\ Deliver(Expired(request), [as |-> "silence"])
    /\ UNCHANGED <<request, form>>

Next ==
    \/ Handle \/ OpenForm \/ Expire
    \/ state = "open" /\ \E button \in Controls(request) : Press(button)
    \/ form /\ \E texts \in Inputs(request) : Submit(texts)

Spec == Init /\ [][Next]_vars

-----------------------------------------------------------------------------
TypeOK ==
    /\ form => Button("answer") \in Controls(request)
    /\ state \in {"new", "open", "answered", "lost"}
    /\ (reply # None) = (state = "answered") /\ reply # Refused

(* The reply says what the owner said, in the request's own protocol.       *)
Permitted(label) == label \in {"accept", "acceptForSession", "amendment"}
Allows(r) ==
    CASE r.as = "decision" -> r.value \notin {"decline", "cancel", "denied", "abort", "timedOut"}
      [] r.as = "grant"    -> r.permissions = "asked"
      [] r.as = "elicitation" -> r.action = "accept"
      [] r.as = "error"    -> FALSE
ForSession(r) ==
    (r.as = "decision" /\ r.value \in {"acceptForSession", "approvedForSession"})
    \/ (r.as = "grant" /\ r.scope = "session")

(* A request is never lost between its card and its reply: each button of   *)
(* the card leads to a reply.  The reply allows what was asked when the     *)
(* button said so, and for the session only when it said that; of a list of *)
(* decisions it is the one on the button.  A question of a form is answered *)
(* with what was typed under it and from its own list, a property has the   *)
(* type that it should have.                                                *)
AnswersFit ==
    /\ state # "lost"
    /\ state = "answered" /\ said.as = "pressed" =>
        /\ Allows(reply) = Permitted(said.button.label)
        /\ ForSession(reply) = (said.button.label = "acceptForSession")
        /\ request.listed => reply = Decision(said.button.label)
    /\ state = "answered" /\ said.as = "silence" => ~Allows(reply)
    /\ state = "answered" /\ said.as = "typed" /\ request.method = "input" =>
        /\ DOMAIN reply.values = DOMAIN request.fields
        /\ \A i \in DOMAIN request.fields :
            LET q == request.fields[i] IN
            /\ reply.values[i] # <<>>
            /\ q.options = {} \/ q.other
               \/ \A k \in DOMAIN reply.values[i] : reply.values[i][k] \in q.options
    /\ state = "answered" /\ said.as = "typed" /\ request.method = "mcp" /\ ~Single(request) =>
        \A i \in DOMAIN request.fields :
            /\ i \in DOMAIN reply.content <=> (\E k \in DOMAIN said.texts[i] : said.texts[i][k] # Blank)
            /\ i \in DOMAIN reply.content => reply.content[i].type = request.fields[i].type

-----------------------------------------------------------------------------
(* Why it holds.  An open request is one that somebody can answer, a form   *)
(* belongs to a request that has one, and nothing is sent before the reply. *)
Answerable(r) ==
    r.method \notin {"time", "unsupported"} /\ (r.listed => Supported(r) # {})
Shape ==
    /\ request \in Requests
    /\ state \in {"new", "open", "answered"}
    /\ state = "open" => Answerable(request)
    /\ form => Button("answer") \in Controls(request)
    /\ (reply # None) = (state = "answered") /\ reply # Refused

IInv == Shape /\ AnswersFit
=============================================================================
