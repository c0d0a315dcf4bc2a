# A TLA+ model of bluesec1-agent and its runtime client

`bluesec1-agent` is an asynchronous Python program that solves investigation
tasks served by a remote "scenario runtime". This directory holds TLA+ modules
that model its core, the TLC configurations that check them on small instances,
and theorems about them that TLAPS proves for every instance.

    tlc -workers 2 -config RemoteSession.cfg RemoteSession
    tlapm RemoteSessionProofs.tla

`PROJECT.json` lists the runs, the mutants that show that each property can
fail, the source lines of every definition, the hazards of the code and the
theorems. Paths below are relative to `src/src/`.

## 1. Inventory

### Components

| component | source | state it keeps | operations |
|---|---|---|---|
| investigation agent | `bluesec1_agent/agent.py` | the conversation, the step index, the collected results | `run`, `_investigate` |
| LLM step client | `bluesec1_agent/llm.py` | the provider connection, the request with its repairs | `next_step`, `aclose` |
| agent data models | `bluesec1_agent/models.py` | none (validated values) | validators, schema normalisation |
| command line, settings | `bluesec1_agent/cli.py`, `settings.py` | none | `run`, `main` |
| run client | `bluesec1_client/remote/client.py` | `_state`, `_run`, `_owned_transport`, `_lock` | `open`, `start_task`, `aclose`, context manager |
| task session | `bluesec1_client/remote/session.py` | `_terminal_result`, `_aborted_result`, `_lock` | `call_tool`, `abort_task` |
| gRPC transport | `bluesec1_client/remote/transport/grpc.py` | `_closed`, the channel; inside `_invoke` the attempt and its delay | five RPCs, `aclose` |
| gRPC error mapping | same file, `map_grpc_error` and its helpers | none | one function |
| codec and decoders | `bluesec1_client/remote/transport/mappers.py` | none (a counter per message) | encode and decode each message |
| commands, limits, validators | `bluesec1_client/remote/models.py` | none | value validation |
| generated code | `bluesec1_client/proto/` | none | - |

### Interaction

The agent takes tasks from the client (`start_task`), which hands out a session
per leased task; the session shares the client's transport and asks the client
through a callback (`_is_open`) whether it may still start an operation. Client
and session each hold an `asyncio.Lock` across their RPCs, but not the same one.
The transport repeats an RPC with the same encoded request and hence the same
identifier; a *new call* of a session or client method draws a *new* identifier.
Everything runs in one event loop, so that code between two `await`s is atomic,
and every `await` is a place where other coroutines run and where a cancellation
may arrive.

### What is hard

* interleavings at the locks of client and session, including cancellation in
  the queue and the closing of the client, which does not take session locks;
* the closing of the client under a session that is in a call, since neither
  takes the other's lock;
* answers that are lost although the server has done the work, and the
  difference between a retry (same identifier) and a repetition (a new one);
* failures in the middle of a cleanup (`open`, `aclose`, `__aexit__`);
* verdicts of the server that must end a retry loop, in error statuses whose
  code and reason overlap;
* replies of a language model: text around the step, two steps, dates no
  calendar has;
* bounds: attempts, backoff, requested delays, details of a status, the agent's
  step budget, the limits of dynamic values.

`PROJECT.json` lists each of these at its line under "hazards".

### What makes each component correct

* *session*: what it believes about the end of its task is what the server
  decided; it sends nothing once it knows the end or the client is closed; one
  request at a time; a successful abort is repeatable; every call ends.
* *client*: one run at most; a run is left active only by a failure; a leased
  task is handed out or its answer was lost; `None` means an exhausted queue;
  the transport is closed last and always; closed is final; every call ends.
* *client and session together*: the session's task ends without a request of
  its own only when the client is already closed; nothing is asked of a run that
  was closed.
* *transport*: a logical call has one effect at most whatever is lost or late; a
  verdict ends it; once it is being closed no loop starts, and nothing is sent
  after the owned channel started to close; attempts and sleeps are bounded;
  every call ends.
* *error mapping*: only codes that leave a request undecided are retryable, and
  none of three verdicts; the delay is the server's and bounded; each declared
  limit has its exception.
* *agent*: each leased task yields one result, the server's; the conversation is
  well formed; a failure costs a task and not the run; a run that returns has
  emptied the queue; every run ends.
* *LLM step client*: the step taken from a reply is its only object; a malformed
  reply is repaired; the window of a search is what its text means.
* *codec*: the client's validator and the encoder agree and are exact; what is
  sent reads back the same; what the decoders let through satisfies what the
  session checks and expects.

## 2. Plan

1. `AsyncLock`, `RemoteSession`, `TaskOutcome`. *Done, proved.*
2. `RemoteClient`. *Done, proved.*
3. `GrpcErrors`, `GrpcErrorMapping`, `GrpcTransport`, `LogicalCall`. *Done,
   proved.*
4. `StepClient` and `Agent`: the loops of `run`, `_investigate` and `next_step`
   over logical calls, with the results counted in `AgentRunResult` and the
   order in which `cli.run` leaves its contexts. *Done, proved.*
5. `DynamicValues`, `Decoders`, `Codec`; `TimeWindow`, `ReplyText`, `NextStep`.
   *Done, proved.*
6. `System`: client, session and server in one state space. *Done, proved to
   implement both `RemoteClient` and `RemoteSession`.*
7. Not joined formally: the identifiers of `RemoteSession` and `RemoteClient` to
   the attempts of `GrpcTransport`. Both sides are written for the interface
   `LogicalCall`, and the transport is proved to implement it.

No module with a theorem, and none that such a module uses, declares a RECURSIVE
operator: the retry backoff is a recursive function, the loop over the details
of a status a fold of the community modules, and a recursive method of the codec
a function of its depth. Only `MCCodec`, which lists the values for TLC, uses
recursive operators.

## 3. Modules

**AsyncLock** is the external `asyncio.Lock` as one sequence: its head owns the
lock, the others wait in the order they came. A free lock is taken without
suspending, so a task can be cancelled at the lock only if it had to queue
(`Arrival`).

**RemoteSession** models one session shared by `Callers`. A method call is
`Enter` (queue for the lock), then one of the early returns (`RejectClosed`,
`ReturnCachedAbort`, `RejectFinished`, `RejectInput`, in the order of the code)
or `Send`, then one ending of the RPC: `ReceiveTool` and `ReceiveAbort` with the
checks and assignments of the method, `RefuseAnswer` when a check fails,
`ReceiveRejection` for the server's TASK_ALREADY_FINISHED, `Fail` for everything
the transport may raise, `CancelCalling` or `CancelWaiting`. The checks, the
command and the start of the RPC are one step because no `await` separates them.
The server (external) serves each identifier at most once, at any time after it
was sent, also after the caller gave up. A *genuine* answer passes the server's
reply on; the *malformed* ones are those a faulty custom transport could make,
with wrong identifiers, a foreign result, or flags that contradict the result.
`fate`, `method` and `outcome` are history. Identifiers are drawn in a fixed
order (`Fresh`), which loses nothing, since they are interchangeable.

**TaskOutcome** is what a session promises: the task ends once, the session
knows that one result or nothing and never forgets it, and the abort cache holds
the same result. `RemoteSession` implements it with `finished`, `terminal` and
`aborted`.

**RemoteClient** models `open`, `start_task`, `aclose` and `__aexit__` with an
exception ("aexit"); `__aenter__` is `open`, and `__aexit__` without an
exception is `aclose`. Its awaits are the lock, the three RPCs and the
transport's `aclose`, and each may end in a failure or in a cancellation.
`inside` holds the callers whose `open` has returned and whose context has not
been left: only they enter "aexit", and once. `shut` is the `_closed` of the
transport, set when its `aclose` begins; what becomes of the channel after that
is `GrpcTransport`'s.
`Cleans` is the last part of both cleanups, `saved` the exception that will be
raised after it. A run is named by the identifier of its CreateRun.

**System** puts a client, the session of one of its tasks and their server into
one state space. It EXTENDS `RemoteClient` and instantiates `RemoteSession`,
whose environment becomes real: `open` is the answer of the client's `_is_open`,
the session acts only after `start_task` has handed it out, and the server ends
its task on its own when it serves CloseRun. That the result is a behaviour of
`RemoteSession` (`ImplementsSession`) discharges what that module assumes of its
environment, so that its theorems hold in the system (`SessionFits` is its
assumption on constants). It is not obvious: it needs that `aclose` marks the
client closed before its first await.

**GrpcErrors** is `map_grpc_error` as an ordered list of rules (the first that
matches decides) and the loop over the details of a status as a fold.
**GrpcErrorMapping** calls it once for each input of a set.

**GrpcTransport** models `_invoke` for several logical calls and `aclose`. An
attempt puts a copy of the request on the wire. The copy may be served, replayed
from the server's store, refused, or stay there, also after its attempt has
ended. An attempt ends with its answer, with UNAVAILABLE, with its deadline or
because the channel was shut. `_closed` is read once, before the loop, as in the
code; what stops a sleeping call is the channel, which refuses new calls as soon
as it is closing. `heard` is history.

Closing takes several steps. `Close` sets `_closed` and gives the close of an
owned channel to `asyncio.wait_for`, which up to Python 3.11 makes a task of it:
the channel is "due" and still takes calls until that task runs
(`StartsClosing`), so that a call whose sleep is over may send once more. A task
that is cancelled before its first step, as when the loop is shut down and
cancels all tasks, closes nothing (`CancelsClosing`), and the channel stays open
though `_closed` is set. Since Python 3.12 the two steps follow each other at
once, which is one of the behaviours of the model. `ChannelShuts` is the end of
the grace period.

**LogicalCall** is one request as the session and the client see it: sent once,
served at most once and perhaps late, answered or abandoned. `GrpcTransport`
implements it; `fate` and `reply` of `RemoteSession` and `RemoteClient` assume
it.

**StepClient** is `next_step`: what it does with each reply of the provider, as
actions on `attempt` and on the request it builds (`Asks`, `Repairs`, and the
two ways to raise). It has no specification of its own. **NextStep** extends it
with the replies: a reply has a text and, if that holds one object, a payload.
**ReplyText** is `extract_json_object` on sequences of tokens (fences, the name
of their language, braces, spaces, and one that stands for all other text),
**TimeWindow** the parsing of the two boundaries of a search on a calendar of a
few days. `Receive` is the await; then `ReturnStep`, `Repair`, `GiveUp`, or
`Escape` for an exception that the handler of `next_step` does not catch.
**Agent** extends `StepClient` with `run` and `_investigate`. `pc` names the
await the agent is at. A turn of the loop is `RejectTool`, or `CallTool`
followed by `ReceiveFeedback`, `ReceiveResult` or `ToolFails`; `NextTurn` is the
head of the loop with its limit. Everything `except Exception` catches leads to
`HandlesFailure`, the abort. `RunEnds` leaves the agent for the contexts of
`cli.run` (`LeaveContexts`), whose cleanup may fail: the failure of the client's is raised
only if `run` returned, that of the LLM's replaces any ending. A message is its role and,
for a tool call and its answer, the step; replies of the LLM are a choice
(valid, invalid, unusable). The agent is the only user of its client and
sessions, so their locks do not show. What is in a reply is left to `NextStep`.
An RPC is a request on the wire that the server may execute late or never, while
the agent may be told of a failure at any moment; an abort that finds its task
over is refused, or answered with the result the server has.

**DynamicValues** holds the three walks over recursive values: the client's
validator, the encoder and the decoder, each written from its own code. `Values`
and `Messages` are the values and the messages there are, with all that is
nested in them. `ValidateValue`, `EncodeValue` and `DecodeValue` are the bodies
of the recursive methods; what they call, one level further down, is their
parameter `walk`, and `Validator`, `Encoder` and `Decoder` tie the knot. Since
every walk ends at the depth limit, they are functions on `0 .. MaxDepth + 1`.
`Loop` is the loop over the entries of a collection, with the count that the
code keeps in a list of one number. **Decoders** says which answers the
transport passes on. **Codec** sends one object or receives one answer through
them. `Canonical` is the reference definition: the levels (`Nests`) and the
entries (`Size`) of a value, told without a count that is carried along.

The `*Proofs` modules hold the theorems (section 5), **SharedLemmas** the facts
that several of them cite. The `MC*` modules give the constants their values and
the symmetry sets. Operators whose comment starts with "Mutant of" are not part
of the models; they are the faults by which each property was tested.

## 4. Runs

| run | what it shows | size |
|---|---|---|
| `session` | the safety and action properties of a session, its refinement of `TaskOutcome`, and that every call ends | 2 callers, 3 identifiers, 2 results |
| `client` | the safety properties of the client, and that every call ends | 2 callers, 5 identifiers, 2 tasks |
| `system` | client and server are the environment that `RemoteSession` assumes; no request to a closed run | 1 client caller with 3 identifiers, 2 session callers with 2 |
| `next_step` | the step taken from a reply, the window taken from its text | texts of up to 6 tokens, 3 days of 2 ticks, 2 attempts |
| `next_step_overflow` | expected violation, see below | the same |
| `client_exit` | expected violation, see below | 2 callers, 3 identifiers |
| `error_mapping` | the mapping on all codes, reasons and orders of details | 16 codes, 26 reasons, up to 4 details |
| `transport_safety` | the retry loop is invisible to its callers; closing ends the sending | 2 calls, 2 attempts, an owned channel |
| `transport_long` | the bounds on attempts and sleeps; every call ends | 1 call, 4 attempts, a channel it does not own |
| `agent` | conversation, results, report, locality of failures, end | 3 tasks, 3 steps, 2 attempts per step |
| `agent_print` | expected violation, see below | 2 tasks, 2 steps |
| `codec` | validator, encoder and decoder agree; decoded answers satisfy the session | depth 2, 3 entries, 2 bytes |

*Bounds.* Two callers are enough for every pair to meet at the lock in every
order, with one in an RPC and one in the queue. Three identifiers allow a call
that ends the task, one whose answer is lost and an abort on top of it; five
allow a client to open, lease twice, find the queue exhausted and close. A
caller starts only while identifiers are left for it and for those before it
(`Enter`); the client keeps one for the request that closes the run. Two
results, and two tasks, let a wrong one be told from the right one. In the error
mapping a second has ten parts and three details are looked at instead of 16,
which keeps every boundary on both sides. Four attempts with a multiplier of 4
grow the backoff beyond its cap. Three tasks show what a failed one does to the
next and to the report; three steps give a conversation that is continued twice
and a limit that is met; two attempts give one repair and one failure. The
values of `codec` have up to two entries at each of two levels, and chains of
three levels, so that each limit is met exactly, passed by one, and passed only
by the sum over levels.

In `system` one caller of the client creates the run, leases the task and
closes, each in parallel with two callers of the session, of which one is in an
RPC and one in the queue; the concurrency of two callers of the client is in
`client`. Six tokens hold a fenced object with its language and text, a nested
object, two objects, and any stray braces; three days with an offset of half a
day have instants beyond both ends of the calendar and boundaries that an offset
moves to the next day.

*Deadlock.* The systems may stop: identifiers run out, calls are done. Deadlock
checking is off for that reason, and the liveness properties take its place.
`next_step` can always be called again and is checked for deadlock.

*Fairness.* `Begin` and `Settle` are weakly fair per caller: the event loop runs
every coroutine that can run, and every RPC ends, since each attempt has a
deadline and the attempts are counted. `Enter`, cancellation, closing and the
server are not fair. In `GrpcTransport` a call's own steps are weakly fair, of
which the deadline is one; the network and the server owe nothing. In `Agent`
the steps of the agent together are weakly fair: the provider's requests and the
RPCs have timeouts, so that each await ends, if only in a failure. Which way it
ends is never owed.

*Symmetry* is used in `transport_safety` and `system` only, which check no
liveness.

### What the runs found

`client_exit`: `__aexit__` drops every exception of its cleanup if the context
ended with one. If the task is cancelled while `aclose` still queues for the
client's lock, nothing has been closed, the cancellation is swallowed, and the
client that the context opened stays open with its run active, against "Close
the run and owned resources on context exit." It takes a second coroutine that
is ahead at the lock; the command line has only one.

`agent_print`: `cli.run` prints the report after both contexts have been left.
If CloseRun or the closing of a channel fails at the very end, that failure is
raised before the print and the results of a complete run are lost, against
"takes tasks until the queue is empty and prints the server-side result of each
one" in the repository's README.

`next_step_overflow`: a timestamp near the ends of the calendar, such as
`9999-12-31T23:59:59-05:00`, raises `OverflowError` when `_parse_time_boundary`
converts it to UTC. That is no `ValueError`, so neither Pydantic nor
`parse_next_step_payload` nor `next_step` handles it: the reply is not repaired,
and the agent aborts the task at once.

The model also shows, as behaviour the properties allow: a closed client given
to the agent is refused with `RemoteClientStateError` and not with the
`RuntimeError` that `run` documents for a client that is not open
(`RejectClosed`); a reply with an object and stray braces before or after it is
taken for the object; a lost answer to AbortTask is followed by a new abort with
a new identifier, which the server may refuse; a lost LeaseTask answer leaves
its task leased until the run is closed; a failed CloseRun leaves the run
active, and `aclose` does not try again. If the answer that ends a task is lost,
the agent's abort may be refused, and the refusal ends the whole run with tasks
left in the queue (`AbortRefused`); `FailuresStayLocal` says that nothing else
but a failed lease or abort does.

## 5. Proofs

| module | about | theorems |
|---|---|---|
| `RemoteSessionProofs` | `RemoteSession` | type invariant, its four safety invariants, its two action properties, refinement of `TaskOutcome` |
| `RemoteClientProofs` | `RemoteClient` | type invariant, its five safety invariants, its action property |
| | `System` | it implements `RemoteClient` and `RemoteSession`; its action property; the invariants and action properties of the session hold in it |
| `GrpcErrorsProofs` | `GrpcErrorMapping` | its three invariants |
| `GrpcTransportProofs` | `GrpcTransport` | type invariant, its three safety invariants, its action property, refinement of `LogicalCall` |
| `AgentProofs` | `Agent` | type invariant, its three safety invariants, its action property |
| `NextStepProofs` | `NextStep`, `ReplyText`, `TimeWindow` | its two invariants; what surrounds an object in a reply makes no difference |
| `CodecProofs` | `Codec`, `DynamicValues`, `Decoders` | its three invariants |

Every invariant, action property and refinement that a passing run checks is
proved.

`SharedLemmas` has the facts about the queue of a lock, and those that stand in
for induction: the provers cannot instantiate a theorem that takes an operator, so
that `SetInduction` speaks of a set that holds 0 and the successor of each of
its numbers. `FoldExists` shows from it that the recursive function inside a
fold exists, `IterationExists` the same for a function that repeats a step,
`Correspondence` that sets in one-to-one correspondence have equally many
elements.

In each module `IInv` is the inductive invariant (`MappingInv` for the error
mapping, `ReplyTyped` for the step client); `System` takes the client's and adds
`RunClosedByClient` and `SessionAwaitsItsRequest`. They were checked with TLC
before they were proved; `InvInit` and `InvStep` show that it holds initially
and is preserved by each action, one step per action. The action properties and
refinements follow from `IInv` in the state before a step.

*Assumptions*, for every value of the constants otherwise: `None` is not a value
of any type it is used in (`SessionAssumption`, `ClientAssumption`,
`NoneAssumption`, `OutcomesAssumption`, `SessionFits`); the session's task in
`System` is one of the client's and has a possible result (`SystemAssumption`);
policy and bounds are natural numbers (of parts of a second), with at least one
attempt, a multiplier of at least one and an initial backoff of at most the
maximal one, and the errors of the server are statuses (`BoundsAssumption`,
`DetailsAssumption`, `TransportAssumption`); the queue is finite, and there is
at least one step and one attempt (`AgentAssumption`, `StepClientAssumption`);
the calendar has a day and a day a tick, and offsets are shorter than a day
(`TimeWindowAssumption`); replies are sequences of tokens
(`NextStepAssumption`); the limits on dynamic values are positive
(`LimitsAssumption`), `Values` and `Messages` are sets of trees that hold
whatever is nested in their members (`ValuesAssumption`), and the message of an
object that is encoded is one of `Messages` (`CodecAssumption`). These sets may
be infinite. The details of a status are any sequence, and its delays any two
integers.

### The session

`TypeOK` is inductive by itself; it includes that a caller has an identifier
exactly while it awaits an RPC. The safety properties are not. `IInv` adds what
they rest on:

* `CallingHoldsLock`: a caller that awaits an RPC is the head of the queue, and
  its identifier is open and was sent for the method it runs; since a queue has
  one head, one request at most is open (`OpenIsAwaited`);
* `RepliesTrue`: a stored reply carries a result only if it is `finished`, and
  refuses only when there is one, so an accepted answer can only teach the
  session the truth;
* `UnusedIsUnserved`, `AnsweredIsLearned`: nothing is served before it is sent,
  and whatever was answered with a result has been stored;
* `EndHasCause`: while the client is open, some request ended the task. With
  `AnsweredIsLearned` that request's answer is lost or under way, or the session
  knows the result.

### The client

The same lock argument (`BusyHoldsLock`, `OpenIsAwaited`) reduces every action
to one busy caller. Then the order of a client's life is followed:

* `PlaceFitsState`, `ShutIsQuiet`, `ClosedGetsShut`: each await fits one state
  of the client, and a closed client with a transport of its own has shut it or
  has a caller that is about to;
* `CreateIsFirst`, `CloseIsLast`, `CloseIsSent`: CreateRun is sent by a new
  client only and leaves it with another state or a caller in the RPC, whatever
  ends that RPC; CloseRun is sent in the step that closes the client, if it has
  a run. So there is one of each;
* `RunIsAnswered`, `ActiveIsKept`, `ActiveIsServed`, `RepliesFit`,
  `CloseCloses`: an active run whose CreateRun was answered is the client's, and
  a served CloseRun closes it. An active run of a closed client is then one
  whose CreateRun, or whose CloseRun, was abandoned.

### Client and session together

A step of `System` is a step of `RemoteClient` or leaves its variables alone, so
every invariant of the client holds in it (`SystemImplementsClient`). In the
other direction, a step must be one of the session or of the environment that
`RemoteSession` allows. The only one that is not so by its form is the server's
closing of the run, which ends the session's task: `RemoteSession` allows that
only while its client is not open. By `CloseIsLast` a CloseRun was sent by a
closed client, and `ClosedStep` says a closed client stays so. The same fact
gives `NoRequestToClosedRun`, through `RunClosedByClient`;
`SessionAwaitsItsRequest` says that an identifier, once drawn, does not become
unused.

With that, the theorems of `RemoteSessionProofs` are instantiated with the
variables of `System` (`Shown`), where the prover asks for their assumption on
constants, which `SessionFits` gives. `SystemSessionIsTrue` and
`SystemSessionActsInTime` are the result: what a session promises does not
depend on an idealised client. (`SameSteps` and the lemmas before it are
bookkeeping: `Session` of the model and `Shown` of the proofs are two instances
of one module, and the prover has to be shown that their actions are the same.)

### Error mapping

`LoopReadsAll` says what the loop over the details leaves behind, the last
usable detail of each kind among those it looks at, by induction on their
number; the properties say it without a loop. `RuleTable` writes the list of 24
rules out, and `OneRuleDecides` shows that some rule matches every error, so
that the first is well defined. `MappedError` then follows the list: a rule that
allows a retry can be the first to match only if none of the verdicts before it
does, and each declared limit matches a rule of its own before the fallback.

### The transport

`IInv` has a part about the loops (`LoopInv`) and one about the network and the
server (`NetInv`), shown separately for each action.

* `AttemptsAreCounted`, `SleepsAreBounded`: a call has slept at most
  `LongestDelay` for each attempt but the first. That the backoff is bounded by
  its cap is obvious; that it is a number needs the induction of `GrowthType`,
  and that a requested delay is bounded comes from `MappedError`.
* `CopiesWereSent`, `VerdictsEndTheLoop`: a verdict that was heard belongs to
  the last attempt of a call that is done, and copies on the wire are never
  ahead of the loop.
* `StoreIsEffect`, `AnswersAreStored`: the server has executed exactly what it
  has stored, once, and the answer to a served request is evidence of that.
* `OpenUntilClosed`: only `aclose` closes the channel. A loop starts only while
  `_closed` is not set, and a sleeping one goes on only while the channel takes
  calls; from that follow the two parts of `ClosingEndsSending`.

The refinement maps `Begin` to Start, `Execute` to Serve, `Receive` of an answer
to Answer and every other ending to Abandon; attempts, replays and refusals
stutter. A call refused at the start because the transport is closed was never
sent.

### The agent

* `ConversationIsTurns`: the conversation is its opening and one pair of
  messages for each turn (`Turns`); the request shows it with one pair for each
  repair (`Shows`). `AnotherTurn` and `RepairShows` extend them.
* `OneTaskAtATime`, `ResultsAreDistinct`, `ResultsAreFinal`: the agent has one
  result for each task it has leased but the present one, and the server has no
  lease to execute behind its back, so a task is never leased that the agent
  does not hear of; a task that is over stays as it ended.
* `ReportIsFinal`: at an exhausted queue the results are in one-to-one
  correspondence with the tasks, and the successes with the successful tasks.
  Counting needs `Correspondence`, and that the queue is finite.

### The step client

The state of `NextStep` is simple (`ReplyTyped`); what takes work is that the
operators compute what the properties say.

* *The window.* `ProductGrows` and `DayOfTick` say that the days of a calendar
  are intervals of its instants, for days of any number of ticks. So a boundary
  that is a date stands for the first or the last instant of its day, and one
  that is a time for that time less its offset (`BoundaryAdmits`);
  `WindowHoldsWhatItSays` follows for every calendar.
* *The object.* A trim takes tokens from the ends of a text, none of them a
  brace (`Trims`, `StripTrims`, `UnfenceTrims`). So the text that is left has
  the same first opening and last closing brace, and `ExtractsEmbedded` says
  that what is extracted is the span between these two in the reply as it came.
  `ObjectEnds` and `ObjectsEndInBraces` give that an object begins and ends with
  them, which is why the span is the one object of a reply that has no other
  brace outside of it.

### The codec

* A walk over a value has a closed form: it lets a canonical value through and
  adds the number of its entries to the count (`Exact`). `LoopExact` shows, by
  induction over the entries of one collection, that a loop has that form if the
  walk it calls has it; the count grows only, so a limit that was passed within
  the collection is passed at its end. `LevelExact` lifts this from one depth to
  the depth above it, and `DescentExact`, by downward induction from the limit,
  to the first. `ValidatorIsExact` and `EncoderIsExact` apply it to the two
  walks, whose bodies differ; that they agree then needs no comparison of them.
* `NestsUnfolds`, `SizeUnfolds`, `EncodedValueUnfolds`, `DecodedValueUnfolds`,
  `DecoderDescends` show from `IterationExists` that the recursive functions
  satisfy their equations. `FoldAlong` gives a fold its intermediate results.
* `Returns`: at a depth, the decoder does with the message of a value what the
  encoder did with the value, and the decoded message is the value.
  `LoopsAgree` carries the first part, `EntriesReturn` the second through a
  collection; `EveryLevelReturns` is again downward induction. It needs that the
  fields of the message tell the kinds of values apart (`KindsReturn`).
* The answers are finitely many combinations: `StepReceives` goes through the
  guards. It is there that the order of the checks of `ReceiveRun` matters: what
  `open` looks at is a run that the decoder has let through.

### Only model-checked

* All liveness properties (`CallsEnd` of three modules, `RunEventuallyEnds`):
  fairness and ENABLED are beyond the provers.
* `MalformedIsRepaired` and the other two expected violations, which do not
  hold.

What the recursive functions over depths, counts and entries compute is proved by
the inductions above, over numbers. Induction over the values themselves is not
needed, because the limit on the depth bounds every walk.

## 6. Not modelled

* The agent's data models but for the time window: they are declarative, and
  `_normalize_strict_schema` runs once, on constant data.
* The encoders of plain fields, which copy them.
* The text of prompts and feedback; the joining of the text parts of a reply;
  braces inside the JSON strings of a reply.
* The start-up of the command line and its messages.
* The declarative schemas of settings and command line parsing: no state.
* Generated protobuf code; TLS and credentials; texts of errors, logging.
* Time: deadlines and sleeps end, in any order, and durations are only summed in
  `GrpcTransport`.
* A caller that closes a channel it injected itself.
