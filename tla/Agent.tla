---- MODULE Agent ----
(***************************************************************************)
(* SimpleSGRAgent.run and _investigate (bluesec1_agent/agent.py) inside    *)
(* the contexts that cli.run puts around them: tasks are taken one after   *)
(* the other, each is driven by the steps of the LLM, and one that fails   *)
(* is aborted.                                                             *)
(*                                                                         *)
(* The agent is the only user of its client and of each session, so that   *)
(* neither ever waits for a lock, and a session is what TaskOutcome says.  *)
(* An RPC is a logical call (LogicalCall): the server executes it once at  *)
(* most, perhaps after the agent has been told that it failed.             *)
(***************************************************************************)
EXTENDS StepClient, FiniteSets

CONSTANTS
    Tasks,      \* the tasks of the server's queue
    MaxSteps,   \* max_steps of the agent
    None

ASSUME AgentAssumption ==
    /\ MaxSteps \in Nat \ {0}
    /\ IsFiniteSet(Tasks)

VARIABLES
    pc,         \* "start"; the await the agent is at: "leasing", "thinking",
                \* "calling", "aborting"; "leaving" the contexts; "done"
    client,     \* the state of the client that run is given
    task,       \* the task of the session
    step,       \* step_index
    messages,   \* the conversation about the task
    results,    \* task_results
    report,     \* AgentRunResult
    ending,     \* how run ended, and cli.run after it
    printed,    \* the report was printed
    queue,      \* tasks the server has not leased
    finished,   \* how the server ended each task
    wire,       \* requests the server has not executed: [rpc, task]
    answer      \* the server's answer to the RPC the agent awaits

taskVars == <<stepVars, task, step, messages>>
runVars == <<results, report, ending, printed, client>>
serverVars == <<queue, finished>>
netVars == <<wire, answer>>
vars == <<pc, taskVars, runVars, serverVars, netVars>>

Completions == {"terminated", "truncated", "error", "aborted"}

Endings == {"returned", "RuntimeError", "RemoteClientStateError", "RemoteClientError",
            "TaskAlreadyFinishedError", "CancelledError", "cleanup failed"}

\* A session or none; the result of the task, or none while it goes on or when
\* the abort is refused.
Answers == [task : Tasks \cup {None}] \cup [result : Completions \cup {None}]

\* Nothing that is something is None.
ASSUME NoneAssumption == None \notin Tasks \cup Completions \cup Endings \cup Answers

TypeOK ==
    /\ pc \in {"start", "leasing", "thinking", "calling", "aborting", "leaving", "done"}
    /\ client \in {"new", "open", "closed"}
    /\ pc \in {"thinking", "calling", "aborting"} => task \in Tasks
    /\ step \in 0 .. MaxSteps
    /\ attempt \in 0 .. MaxRetries
    /\ pc = "thinking" <=> attempt > 0
    /\ results \in Seq([task : Tasks, reason : Completions])
    /\ ending \in Endings \cup {None}
    /\ report # None => ending # None
    /\ printed \in BOOLEAN
    /\ queue \subseteq Tasks
    /\ finished \in [Tasks -> Completions \cup {None}]
    /\ wire \subseteq [rpc : {"LeaseTask", "CallTool", "AbortTask"}, task : Tasks \cup {None}]
    /\ answer \in Answers \cup {None}

Init ==
    /\ pc = "start"
    /\ client \in {"new", "open", "closed"}
    /\ task = None
    /\ step = 0
    /\ messages = << >>
    /\ results = << >>
    /\ report = None
    /\ ending = None
    /\ printed = FALSE
    /\ queue = Tasks
    /\ finished = [t \in Tasks |-> None]
    /\ wire = {}
    /\ answer = None
    /\ Idle

----
(* The remote calls of the agent *)

\* The await of each RPC.
Awaiting(rpc) ==
    [LeaseTask |-> "leasing", CallTool |-> "calling", AbortTask |-> "aborting"][rpc]

Sends(rpc, t) ==
    /\ wire' = wire \cup {[rpc |-> rpc, task |-> t]}
    /\ answer' = None

Leases ==
    /\ pc' = "leasing"
    /\ Sends("LeaseTask", None)

Aborts(t) ==
    /\ pc' = "aborting"
    /\ Sends("AbortTask", t)

\* The conversation before the first step.
Opening == <<Message("system", 0), Message("user", 0)>>

\* run ends, and the contexts are left.
RunEnds(e) ==
    /\ pc' = "leaving"
    /\ ending' = e
    /\ UNCHANGED <<task, step, messages, results, printed, client, serverVars, netVars>>

----
(* run *)

RejectUnopened ==
    /\ pc = "start"
    /\ client = "new"
    /\ RunEnds("RuntimeError")
    /\ UNCHANGED <<stepVars, report>>

\* A closed client still has its run; it is start_task that refuses.
RejectClosed ==
    /\ pc = "start"
    /\ client = "closed"
    /\ RunEnds("RemoteClientStateError")
    /\ UNCHANGED <<stepVars, report>>

Start ==
    /\ pc = "start"
    /\ client = "open"
    /\ Leases
    /\ UNCHANGED <<taskVars, runVars, serverVars>>

\* The agent is told that LeaseTask failed, whatever the server does with it.
LeaseFails ==
    /\ pc = "leasing"
    /\ RunEnds("RemoteClientError")
    /\ UNCHANGED <<stepVars, report>>

\* Mutant of Successful: a task that was aborted in good order counts.
NotInError(r) == r.reason # "error"

Successful(r) == r.reason \in {"terminated", "truncated"}

ReceiveExhausted ==
    /\ pc = "leasing"
    /\ answer # None
    /\ answer.task = None
    /\ LET successes == Cardinality({i \in DOMAIN results : Successful(results[i])})
       IN  report' = [successful |-> successes, failed |-> Len(results) - successes]
    /\ RunEnds("returned")
    /\ UNCHANGED stepVars

\* The session of the next task, whose catalog of tools is usable or not.
ReceiveTask ==
    /\ pc = "leasing"
    /\ answer # None
    /\ answer.task # None
    /\ task' = answer.task
    /\ \/ /\ pc' = "thinking"
          /\ step' = 1
          /\ messages' = Opening
          /\ Asks(Opening)
          /\ UNCHANGED netVars
       \/ /\ Aborts(answer.task)
          /\ UNCHANGED <<stepVars, step, messages>>
    /\ UNCHANGED <<runVars, serverVars>>

\* A task is over, and its result is kept.
Collects(reason) ==
    /\ results' = Append(results, [task |-> task, reason |-> reason])
    /\ Leases
    /\ UNCHANGED <<taskVars, report, ending, printed, client, serverVars>>

ReceiveAborted ==
    /\ pc = "aborting"
    /\ answer # None
    /\ answer.result # None
    /\ Collects(answer.result)

\* Mutant of AbortRefused: a refused abort is tried again.
AbortAgain ==
    /\ pc = "aborting"
    /\ answer # None
    /\ answer.result = None
    /\ Aborts(task)
    /\ UNCHANGED <<taskVars, runVars, serverVars>>

\* An abort that the server refuses or that fails ends the run.
AbortRefused ==
    /\ pc = "aborting"
    /\ answer # None
    /\ answer.result = None
    /\ RunEnds("TaskAlreadyFinishedError")
    /\ UNCHANGED <<stepVars, report>>

AbortFails ==
    /\ pc = "aborting"
    /\ RunEnds("RemoteClientError")
    /\ UNCHANGED <<stepVars, report>>

----
(* _investigate *)

\* Mutant of HandlesFailure: the agent goes on without aborting the task.
SkipsTask == Leases

\* Mutant of HandlesFailure: only the errors of the remote client are caught.
HandlesRemoteFailure ==
    IF pc = "calling" THEN Aborts(task) ELSE pc' = "leaving" /\ UNCHANGED netVars

\* "except Exception" around _investigate.
HandlesFailure == Aborts(task)

\* _investigate raises.
TaskFails ==
    /\ HandlesFailure
    /\ Ends
    /\ UNCHANGED <<task, step, messages, runVars, serverVars>>

\* The for loop has another turn.
Budget == step < MaxSteps

\* The head of the loop, with the conversation as it is then: the next step is
\* asked for, or the budget is exhausted and _investigate raises.
NextTurn(conversation) ==
    /\ messages' = conversation
    /\ \/ /\ Budget
          /\ pc' = "thinking"
          /\ step' = step + 1
          /\ Asks(conversation)
          /\ UNCHANGED netVars
       \/ /\ ~Budget
          /\ HandlesFailure
          /\ Ends
          /\ UNCHANGED step
    /\ UNCHANGED <<task, runVars, serverVars>>

ToolCall == Message("assistant", step)
ToolAnswer == Message("tool", step)

\* Mutant of TurnOfRejected: the model gets no answer to its rejected call.
TurnWithoutAnswer == <<ToolCall>>

\* What a rejected step adds to the conversation.
TurnOfRejected == <<ToolCall, ToolAnswer>>

\* The LLM selects a tool that the task does not advertise: rejected without
\* asking the server.
RejectTool ==
    /\ pc = "thinking"
    /\ HasStep
    /\ NextTurn(messages \o TurnOfRejected)

CallTool ==
    /\ pc = "thinking"
    /\ HasStep
    /\ pc' = "calling"
    /\ Sends("CallTool", task)
    /\ messages' = Append(messages, ToolCall)
    /\ Ends
    /\ UNCHANGED <<task, step, runVars, serverVars>>

\* The session rejects the arguments before it sends anything.
ArgumentsInvalid ==
    /\ pc = "thinking"
    /\ HasStep
    /\ TaskFails

\* An invalid reply is repaired inside next_step, on a copy of the conversation.
RepairStep ==
    /\ pc = "thinking"
    /\ Repairs
    /\ UNCHANGED <<pc, task, step, messages, runVars, serverVars, netVars>>

StepFails ==
    /\ pc = "thinking"
    /\ RaisesInvalid \/ RaisesUnusable
    /\ TaskFails

ReceiveFeedback ==
    /\ pc = "calling"
    /\ answer # None
    /\ answer.result = None
    /\ NextTurn(Append(messages, ToolAnswer))

ReceiveResult ==
    /\ pc = "calling"
    /\ answer # None
    /\ answer.result # None
    /\ Collects(answer.result)

\* CallTool fails or its answer is refused by a check, whatever the server does.
ToolFails ==
    /\ pc = "calling"
    /\ TaskFails

----
(* cli.run *)

\* The task of the agent is cancelled at an await: no handler catches it.
Cancel ==
    /\ pc \in {"leasing", "thinking", "calling", "aborting"}
    /\ RunEnds("CancelledError")
    /\ Ends
    /\ UNCHANGED report

\* The contexts of the client and of the LLM are left, client first.  What the
\* client's cleanup raises counts only if run returned; what the LLM's raises
\* replaces any ending.
LeaveContexts ==
    /\ pc = "leaving"
    /\ pc' = "done"
    /\ ending' \in {ending, "cleanup failed"}
    /\ printed' = (ending' = "returned")
    /\ UNCHANGED <<taskVars, results, report, client, serverVars, netVars>>

----
(* The server *)

\* A request leaves the wire; the agent gets the answer if it still awaits it.
Serves(rpc, t, reply) ==
    /\ [rpc |-> rpc, task |-> t] \in wire
    /\ wire' = wire \ {[rpc |-> rpc, task |-> t]}
    /\ answer' = IF pc = Awaiting(rpc) /\ t \in {task, None} THEN reply ELSE answer
    /\ UNCHANGED <<pc, taskVars, runVars>>

ServeLease ==
    /\ \/ \E t \in queue :
            /\ Serves("LeaseTask", None, [task |-> t])
            /\ queue' = queue \ {t}
       \/ /\ queue = {}
          /\ Serves("LeaseTask", None, [task |-> None])
          /\ UNCHANGED queue
    /\ UNCHANGED finished

ServeTool(t) ==
    /\ finished[t] = None
    /\ \E r \in (Completions \ {"aborted"}) \cup {None} :
        /\ Serves("CallTool", t, [result |-> r])
        /\ finished' = [finished EXCEPT ![t] = r]
    /\ UNCHANGED queue

ServeAbort(t) ==
    /\ finished[t] = None
    /\ Serves("AbortTask", t, [result |-> "aborted"])
    /\ finished' = [finished EXCEPT ![t] = "aborted"]
    /\ UNCHANGED queue

\* An abort of a task that is over is refused or answered with its result.
ServeLateAbort(t) ==
    /\ finished[t] # None
    /\ \E r \in {None, finished[t]} : Serves("AbortTask", t, [result |-> r])
    /\ UNCHANGED serverVars

----
Step ==
    \/ RejectUnopened
    \/ RejectClosed
    \/ Start
    \/ LeaseFails
    \/ ReceiveExhausted
    \/ ReceiveTask
    \/ ReceiveAborted
    \/ AbortRefused
    \/ AbortFails
    \/ RejectTool
    \/ CallTool
    \/ ArgumentsInvalid
    \/ RepairStep
    \/ StepFails
    \/ ReceiveFeedback
    \/ ReceiveResult
    \/ ToolFails
    \/ LeaveContexts

Serve == ServeLease \/ \E t \in Tasks : ServeTool(t) \/ ServeAbort(t) \/ ServeLateAbort(t)

Next == Step \/ Cancel \/ Serve

Spec == Init /\ [][Next]_vars

\* Every await of the agent ends: the provider's requests, the RPCs and the
\* closing of the contexts have timeouts.  The server owes nothing.
FairSpec == Spec /\ WF_vars(Step)

----
(* Properties *)

\* What the provider is shown is the whole conversation, with every tool call
\* followed by its answer, and the repairs of this step only, each as a pair.
\* An unpaired message makes the provider refuse the request, and a repair that
\* stayed in the conversation would be shown with every later step.
ProviderSeesPairedCalls ==
    pc = "thinking" =>
        /\ \A i \in DOMAIN request :
            request[i].role = "assistant" =>
                /\ i < Len(request)
                /\ request[i + 1] =
                    Message(IF request[i].id = 0 THEN "user" ELSE "tool", request[i].id)
        /\ Len(request) = 2 * step + 2 * (attempt - 1)
        /\ \A i, j \in DOMAIN messages :
            messages[i].id = messages[j].id /\ messages[i].role = messages[j].role => i = j

\* Every task that was leased to the agent before the present one is over and
\* has exactly one result, the server's: the agent never holds two tasks, and
\* never drops or invents a result.
ResultsAreServers ==
    /\ \A i, j \in DOMAIN results : results[i].task = results[j].task => i = j
    /\ \A i \in DOMAIN results : results[i].reason = finished[results[i].task]
    /\ pc \in {"thinking", "calling", "aborting"} =>
        {results[i].task : i \in DOMAIN results} = (Tasks \ queue) \ {task}

\* A run that returns has emptied the queue and accounts for every task, as
\* successful or failed by the server's word.
ReportComplete ==
    report # None =>
        /\ queue = {}
        /\ report.successful + report.failed = Cardinality(Tasks)
        /\ report.successful =
            Cardinality({t \in Tasks : finished[t] \in {"terminated", "truncated"}})

\* No failure of the LLM, of a tool call or of the catalog ends the run: it is
\* over only by the queue, or by a failed lease or abort.
FailuresStayLocal ==
    [][pc # "leaving" /\ pc' = "leaving" /\ ending' # "CancelledError" =>
        pc \in {"start", "leasing", "aborting"}]_vars

\* Every run ends, though the server may never answer and the LLM never finish.
RunEventuallyEnds == pc # "done" ~> pc = "done"

\* "takes tasks until the queue is empty and prints the server-side result of
\* each one".
ResultsArePrinted == pc = "done" /\ report # None => printed

====
