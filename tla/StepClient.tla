---- MODULE StepClient ----
(***************************************************************************)
(* OpenAIStructuredStepClient.next_step (bluesec1_agent/llm.py): the       *)
(* requests it makes to the provider for one step of the agent.  A reply   *)
(* that is not a valid NextStep is sent back with an instruction to repair *)
(* it, as long as attempts are left.                                       *)
(*                                                                         *)
(* The actions say what next_step does with one reply of the provider, an  *)
(* external service; the agent's module says what the agent does then.     *)
(* Messages are records [role, id]; id pairs a tool call with its answer   *)
(* and is 0 in all others.                                                 *)
(***************************************************************************)
EXTENDS Integers, Sequences

CONSTANT MaxRetries     \* max_retries, the attempts for one step

ASSUME StepClientAssumption == MaxRetries \in Nat \ {0}

VARIABLES
    attempt,    \* the loop variable, 0 when no step is asked for
    request     \* request_messages

stepVars == <<attempt, request>>

Message(role, id) == [role |-> role, id |-> id]

Idle == attempt = 0 /\ request = << >>

\* Mutant of Ends: the attempts are not reset.
EndsRequestOnly == request' = << >> /\ UNCHANGED attempt

Ends == attempt' = 0 /\ request' = << >>

\* The conversation as the provider sees it: the instruction about the output is
\* added to the first system message, or put in front.
Instructed(conversation) ==
    IF conversation # << >> /\ Head(conversation).role = "system"
    THEN <<Message("instructed", 0)>> \o Tail(conversation)
    ELSE <<Message("instructed", 0)>> \o conversation

\* next_step is called and the first request leaves.
Asks(conversation) ==
    /\ attempt' = 1
    /\ request' = Instructed(conversation)

RepairMessages == <<Message("assistant", 0), Message("user", 0)>>

\* The reply is empty, not JSON, violates the schema, or its flag contradicts
\* the tool it selects; another attempt is made.
Repairs ==
    /\ attempt \in 1 .. MaxRetries - 1
    /\ attempt' = attempt + 1
    /\ request' = request \o RepairMessages

\* The last attempt brings an invalid reply too: NextStepRequestError.
RaisesInvalid == attempt = MaxRetries /\ Ends

\* A refusal, a reply without a message, or an error of the provider ends the
\* loop at any attempt.
RaisesUnusable == attempt > 0 /\ Ends

\* The reply is a valid NextStep, and the agent goes on with it.
HasStep == attempt > 0

====
