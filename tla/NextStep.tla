---- MODULE NextStep ----
(***************************************************************************)
(* One call of OpenAIStructuredStepClient.next_step after the other, with  *)
(* the replies of the LLM looked into: which part of the text is taken for *)
(* the step, and whether the step is valid.  StepClient says what follows. *)
(***************************************************************************)
EXTENDS StepClient, TimeWindow, ReplyText

CONSTANTS
    Texts,      \* the texts of replies
    Payloads,   \* what the object in a text may say
    None

VARIABLES
    reply,      \* the reply that arrived last
    outcome     \* how next_step ended

vars == <<stepVars, reply, outcome>>

\* What matters of a NextStep: its tool, its flag, the time window of a search,
\* and whether all other fields satisfy the schema.
Windows == [from : Boundaries, to : Boundaries]

AllPayloads ==
    [finish : {FALSE}, completed : BOOLEAN, fits : BOOLEAN, window : Windows \cup {None}]
    \cup [finish : {TRUE}, completed : BOOLEAN, fits : BOOLEAN, window : {None}]

Plain == [finish |-> FALSE, completed |-> FALSE, fits |-> TRUE, window |-> None]

ASSUME NextStepAssumption ==
    /\ Texts \subseteq Seq(Tokens)
    /\ Payloads \subseteq AllPayloads
    /\ None \notin Windows

\* A reply has a text, or it is a refusal, or lacks choices or a message.
\* (Bound: every text with a plain step, and every step in a plain text.)
Unusable == [usable |-> FALSE, text |-> << >>, payload |-> Plain]

Replies ==
    {Unusable}
    \cup [usable : {TRUE}, text : Texts, payload : {Plain}]
    \cup [usable : {TRUE}, text : {<<"lbrace", "x", "rbrace">>}, payload : Payloads]

Init ==
    /\ Idle
    /\ reply = None
    /\ outcome = "none"

\* NextStep.model_validate_json, then the rule on the flag.
ValidatePayload(p) ==
    LET w == IF p.window = None THEN "window" ELSE ValidateWindow(p.window.from, p.window.to)
    IN  CASE w = "OverflowError" -> "OverflowError"
          [] w = "ValueError" \/ ~p.fits \/ p.completed # p.finish -> "ValueError"
          [] OTHER -> "step"

\* extract_raw_content and parse_next_step_payload
Parse(r) ==
    CASE ~r.usable -> "ValueError"
      [] r.usable /\ ~IsObject(ExtractJsonObject(r.text)) -> "ValueError"
      [] OTHER -> ValidatePayload(r.payload)

\* Only the errors of parse_next_step_payload are caught.
Caught(r) == r.usable /\ Parse(r) = "ValueError"

Call ==
    /\ Idle
    /\ Asks(<<Message("system", 0), Message("user", 0)>>)
    /\ reply' = None
    /\ outcome' = "none"

Receive ==
    /\ attempt > 0
    /\ reply = None
    /\ reply' \in Replies
    /\ UNCHANGED <<stepVars, outcome>>

ReturnStep ==
    /\ reply # None
    /\ Parse(reply) = "step"
    /\ HasStep /\ Ends
    /\ outcome' = "step"
    /\ UNCHANGED reply

Repair ==
    /\ reply # None
    /\ Caught(reply)
    /\ Repairs
    /\ reply' = None
    /\ UNCHANGED outcome

GiveUp ==
    /\ reply # None
    /\ Caught(reply)
    /\ RaisesInvalid
    /\ outcome' = "NextStepRequestError"
    /\ UNCHANGED reply

\* Every other exception leaves next_step at once.
Escape ==
    /\ reply # None
    /\ Parse(reply) # "step"
    /\ ~Caught(reply)
    /\ RaisesUnusable
    /\ outcome' = Parse(reply)
    /\ UNCHANGED reply

Next == Call \/ Receive \/ ReturnStep \/ Repair \/ GiveUp \/ Escape

Spec == Init /\ [][Next]_vars

----
(* Properties *)

\* The objects in a text, each as its first and its last place.
Objects(text) ==
    {p \in (DOMAIN text) \X (DOMAIN text) : p[1] < p[2] /\ IsObject(SubSeq(text, p[1], p[2]))}

Within(places, p) == places \subseteq p[1] .. p[2]

\* "Remove common provider wrappers around a JSON object": an object with no
\* brace outside of it is always found, and what is taken for a step is an object
\* that contains every other one: of two steps in one reply none is chosen.
StepIsTheOnlyObject ==
    reply # None =>
        LET found == ExtractJsonObject(reply.text)
            objects == Objects(reply.text)
            braces == Places(reply.text, "lbrace") \cup Places(reply.text, "rbrace")
        IN  /\ IsObject(found) => \E p \in objects :
                /\ found = SubSeq(reply.text, p[1], p[2])
                /\ \A q \in objects : Within({q[1], q[2]}, p)
            /\ \A p \in objects :
                Within(braces, p) => found = SubSeq(reply.text, p[1], p[2])

\* The instants a boundary admits, as its text says: a day admits all of itself,
\* a local time itself.
NotBefore(u, b) ==
    IF b.form = "day" THEN u \div TicksPerDay >= b.at ELSE u + b.offset >= b.at
NotAfter(u, b) ==
    IF b.form = "day" THEN u \div TicksPerDay <= b.at ELSE u + b.offset <= b.at

\* "Inclusive timestamp range for graph search": a window that is accepted is
\* the set of instants its boundaries admit, and only one that is malformed or
\* empty is refused.
WindowIsInclusive ==
    reply # None /\ reply.payload.window # None =>
        LET from == reply.payload.window.from
            to == reply.payload.window.to
            admitted == {u \in Instants : NotBefore(u, from) /\ NotAfter(u, to)}
        IN  CASE ValidateWindow(from, to) = "window" ->
                    admitted # {} /\ Interval(from, to) = admitted
              [] ValidateWindow(from, to) = "ValueError" ->
                    "malformed" \in {from.form, to.form} \/ admitted = {}
              [] OTHER -> TRUE

\* "repairing malformed replies when possible": what a reply with a text can do
\* to next_step is to make it return or, after the last attempt, to raise
\* NextStepRequestError.
MalformedIsRepaired ==
    reply # None /\ reply.usable =>
        outcome \in {"none", "step", "NextStepRequestError"}

====
