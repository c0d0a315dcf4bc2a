---- MODULE RemoteSession ----
(***************************************************************************)
(* RemoteBenchmarkSession (remote/session.py): the handle on one leased    *)
(* task.  Several coroutines (Callers) may share it.  Each runs call_tool  *)
(* or abort_task, one at a time under the session's lock, and every        *)
(* request it sends carries an identifier that is never used again.        *)
(*                                                                         *)
(* The transport and the server are the environment.  A request is served  *)
(* at most once, whatever number of attempts the transport makes with the  *)
(* same identifier, and the server answers repeated attempts with the      *)
(* stored reply.  Nothing orders the server with the client's patience: a  *)
(* request may be served after its caller has given up on it.              *)
(*                                                                         *)
(* Between two awaits a coroutine runs alone, so the checks, the building  *)
(* of the command and the start of the RPC are one step.                   *)
(***************************************************************************)
EXTENDS AsyncLock

CONSTANTS
    Callers,    \* coroutines that share the session
    Keys,       \* call ids and idempotency keys (uuid4), each used once
    Results,    \* TaskResult values
    None        \* Python's None, and "nothing yet" in the histories below

VARIABLES
    pc,         \* where each caller is: "idle", "entered" or "waiting" (at the
                \* lock), or "calling" (awaiting an RPC)
    op,         \* the method each caller last entered
    key,        \* identifier of the request a caller awaits
    outcome,    \* how each caller's last method call ended
    lock,       \* RemoteBenchmarkSession._lock
    terminal,   \* RemoteBenchmarkSession._terminal_result
    aborted,    \* RemoteBenchmarkSession._aborted_result
    open,       \* what is_client_open() answers
    fate,       \* what the session knows about each identifier
    method,     \* which RPC each identifier was used for
    reply,      \* the server's stored reply to each identifier
    finished    \* the server's result of the task

callerVars  == <<pc, op, key, outcome, lock>>
sessionVars == <<terminal, aborted>>
serverVars  == <<reply, finished>>
vars == <<callerVars, sessionVars, open, fate, method, serverVars>>

Methods == {"call_tool", "abort_task"}

\* How a method call may end: it returns, or raises one of these.
Endings ==
    {"returned", "RemoteClientStateError", "TaskAlreadyFinishedError",
     "RemoteRequestError", "RemoteProtocolError", "RemoteClientError",
     "CancelledError"}

Outcomes == [ending : Endings, result : Results \cup {None}]

\* A stored reply: a TASK_ALREADY_FINISHED status, or an answer whose result
\* is None as long as the task goes on.
Replies == [rejected : BOOLEAN, result : Results \cup {None}]

ASSUME SessionAssumption == None \notin Keys \cup Results \cup Replies

\* What the checks of call_tool and abort_task can tell about an answer: do its
\* identifiers match the request, is its result a TaskResult of this task, does
\* it flag the task as ended, and the result it carries.
Answers ==
    [ids : BOOLEAN, own : BOOLEAN, ended : BOOLEAN, result : Results \cup {None}]

TypeOK ==
    /\ pc \in [Callers -> {"idle", "calling"} \cup AtLock]
    /\ op \in [Callers -> Methods]
    /\ key \in [Callers -> Keys \cup {None}]
    /\ \A c \in Callers : pc[c] = "calling" <=> key[c] # None
    /\ outcome \in [Callers -> Outcomes]
    /\ lock \in Seq(Callers)
    /\ terminal \in Results \cup {None}
    /\ aborted \in Results \cup {None}
    /\ open \in BOOLEAN
    /\ fate \in [Keys -> {"unused", "open", "answered", "abandoned"}]
    /\ method \in [Keys -> Methods]
    /\ reply \in [Keys -> Replies \cup {None}]
    /\ finished \in Results \cup {None}

Init ==
    /\ pc = [c \in Callers |-> "idle"]
    /\ op = [c \in Callers |-> "call_tool"]
    /\ key = [c \in Callers |-> None]
    /\ outcome = [c \in Callers |-> [ending |-> "returned", result |-> None]]
    /\ lock = << >>
    /\ terminal = None
    /\ aborted = None
    /\ open = TRUE
    /\ fate = [k \in Keys |-> "unused"]
    /\ method = [k \in Keys |-> "call_tool"]
    /\ reply = [k \in Keys |-> None]
    /\ finished = None

----
(* The callers *)

Unused == {k \in Keys : fate[k] = "unused"}

\* The coroutine c calls method m and queues for the lock.  (Bound: Keys.  A
\* caller starts only while an identifier is left for it and for everyone
\* before it in the queue.)
Enter(c, m) ==
    /\ pc[c] = "idle"
    /\ Cardinality(Unused) > Len(lock)
    /\ pc' = [pc EXCEPT ![c] = Arrival(lock)]
    /\ op' = [op EXCEPT ![c] = m]
    /\ lock' = Enqueue(lock, c)
    /\ UNCHANGED <<key, outcome, sessionVars, open, fate, method, serverVars>>

\* Mutant of Proceeds: the body of the method is not under the lock.
ProceedsUnlocked(c) == pc[c] \in AtLock

\* The caller has the lock and has not looked at the session's state yet.
Proceeds(c) == pc[c] \in AtLock /\ Holds(lock, c)

\* Mutant of Ends: a path out of the method keeps the lock.
EndsHoldingLock(c, ending, result) ==
    /\ pc' = [pc EXCEPT ![c] = "idle"]
    /\ key' = [key EXCEPT ![c] = None]
    /\ outcome' = [outcome EXCEPT ![c] = [ending |-> ending, result |-> result]]
    /\ UNCHANGED <<op, lock>>

\* Mutant of Ends: the identifier survives the call it was drawn for.
EndsKeepingKey(c, ending, result) ==
    /\ pc' = [pc EXCEPT ![c] = "idle"]
    /\ outcome' = [outcome EXCEPT ![c] = [ending |-> ending, result |-> result]]
    /\ lock' \in Leave(lock, c)
    /\ UNCHANGED <<op, key>>

\* The method ends: the lock is released on every path out of the block.
Ends(c, ending, result) ==
    /\ pc' = [pc EXCEPT ![c] = "idle"]
    /\ key' = [key EXCEPT ![c] = None]
    /\ outcome' = [outcome EXCEPT ![c] = [ending |-> ending, result |-> result]]
    /\ lock' \in Leave(lock, c)
    /\ UNCHANGED op

\* The method ends before any request is sent.
EndsLocally(c, ending, result) ==
    /\ Ends(c, ending, result)
    /\ UNCHANGED <<sessionVars, open, fate, method, serverVars>>

\* Mutants of the local checks: the client is not asked, the cached abort is not
\* looked up, and only an abort counts as an end.
ClientIgnored == FALSE
NoCachedAbort(c) == FALSE
KnownAborted == aborted # None

\* The local checks, in the order the code makes them.
ClientClosed == ~open
HasCachedAbort(c) == op[c] = "abort_task" /\ aborted # None
KnownFinished == terminal # None

RejectClosed(c) ==
    /\ Proceeds(c)
    /\ ClientClosed
    /\ EndsLocally(c, "RemoteClientStateError", None)

ReturnCachedAbort(c) ==
    /\ Proceeds(c)
    /\ ~ClientClosed
    /\ HasCachedAbort(c)
    /\ EndsLocally(c, "returned", aborted)

RejectFinished(c) ==
    /\ Proceeds(c)
    /\ ~ClientClosed
    /\ ~HasCachedAbort(c)
    /\ KnownFinished
    /\ EndsLocally(c, "TaskAlreadyFinishedError", None)

\* The session may put a request on the wire.
MaySend(c) ==
    /\ Proceeds(c)
    /\ ~ClientClosed
    /\ ~HasCachedAbort(c)
    /\ ~KnownFinished

\* The arguments or the error message are not canonical.
RejectInput(c) ==
    /\ MaySend(c)
    /\ EndsLocally(c, "RemoteRequestError", None)

\* An identifier never used before.  (Which of them does not matter: they carry
\* no meaning beyond their identity.)
Fresh == CHOOSE k \in Keys : fate[k] = "unused"

\* A fresh identifier is drawn and the RPC starts.
Send(c, k) ==
    /\ MaySend(c)
    /\ k \in Unused
    /\ k = Fresh
    /\ pc' = [pc EXCEPT ![c] = "calling"]
    /\ key' = [key EXCEPT ![c] = k]
    /\ fate' = [fate EXCEPT ![k] = "open"]
    /\ method' = [method EXCEPT ![k] = op[c]]
    /\ UNCHANGED <<op, outcome, lock, sessionVars, open, serverVars>>

----
(* The end of an RPC *)

\* The answer of a transport that passes the server's reply on.
Genuine(k) ==
    [ids |-> TRUE, own |-> TRUE, ended |-> reply[k].result # None,
     result |-> reply[k].result]

\* The answers that betray a faulty custom transport: those that an honest
\* transport, which answers the request it was given, never makes.
Malformed(m) ==
    {a \in Answers :
        \/ ~a.ids
        \/ a.result # None /\ ~a.own
        \/ m = "call_tool" /\ a.ended # (a.result # None)
        \/ m = "abort_task" /\ a.result = None}

\* Mutants of the checks on answers: the owner of the result is not compared.
ToolAnswerOfAnyTask(a) ==
    /\ a.ids
    /\ a.ended <=> a.result # None

AbortAnswerOfAnyTask(a) == a.ids /\ a.result # None

\* The checks of call_tool and of abort_task on the transport's answer.
ToolAnswerAccepted(a) ==
    /\ a.ids
    /\ a.result # None => a.own /\ a.ended
    /\ a.result = None => ~a.ended

AbortAnswerAccepted(a) == a.ids /\ a.result # None /\ a.own

\* Mutants of what is learned: the terminal result is not stored, and an abort
\* fills its own cache only.
LearnNothing(a) == UNCHANGED sessionVars

LearnAbortOnly(a) ==
    /\ aborted' = a.result
    /\ UNCHANGED terminal

\* What an accepted answer does to the session's state.
LearnFromTool(a) ==
    /\ terminal' = IF a.result # None THEN a.result ELSE terminal
    /\ UNCHANGED aborted

LearnFromAbort(a) ==
    /\ terminal' = a.result
    /\ aborted' = a.result

\* The RPC ends; the session remembers whether it got an answer it could use.
Settles(c, f, ending, result) ==
    /\ fate' = [fate EXCEPT ![key[c]] = f]
    /\ Ends(c, ending, result)
    /\ UNCHANGED <<open, method, serverVars>>

\* The answers the transport may return to caller c.
AnswersFor(c) ==
    {a \in Answers :
        \/ a \in Malformed(op[c])
        \/ /\ reply[key[c]] # None
           /\ ~reply[key[c]].rejected
           /\ a = Genuine(key[c])}

ReceiveTool(c) ==
    /\ pc[c] = "calling"
    /\ op[c] = "call_tool"
    /\ \E a \in AnswersFor(c) :
        /\ ToolAnswerAccepted(a)
        /\ LearnFromTool(a)
        /\ Settles(c, "answered", "returned", a.result)

ReceiveAbort(c) ==
    /\ pc[c] = "calling"
    /\ op[c] = "abort_task"
    /\ \E a \in AnswersFor(c) :
        /\ AbortAnswerAccepted(a)
        /\ LearnFromAbort(a)
        /\ Settles(c, "answered", "returned", a.result)

\* The answer fails a check.
RefuseAnswer(c) ==
    /\ pc[c] = "calling"
    /\ \E a \in AnswersFor(c) :
        /\ op[c] = "call_tool" => ~ToolAnswerAccepted(a)
        /\ op[c] = "abort_task" => ~AbortAnswerAccepted(a)
    /\ Settles(c, "abandoned", "RemoteProtocolError", None)
    /\ UNCHANGED sessionVars

\* The server's TASK_ALREADY_FINISHED reaches the caller as the same exception
\* the session raises itself.
ReceiveRejection(c) ==
    /\ pc[c] = "calling"
    /\ reply[key[c]] # None
    /\ reply[key[c]].rejected
    /\ Settles(c, "answered", "TaskAlreadyFinishedError", None)
    /\ UNCHANGED sessionVars

\* The transport gives up (deadline, retry budget, closed channel, decoding
\* error).  This says nothing about what the server did or will do.
Fail(c) ==
    /\ pc[c] = "calling"
    /\ Settles(c, "abandoned", "RemoteClientError", None)
    /\ UNCHANGED sessionVars

\* The coroutine is cancelled at its await.
CancelWaiting(c) ==
    /\ pc[c] = "waiting"
    /\ EndsLocally(c, "CancelledError", None)

CancelCalling(c) ==
    /\ pc[c] = "calling"
    /\ Settles(c, "abandoned", "CancelledError", None)
    /\ UNCHANGED sessionVars

----
(* The environment *)

\* The parent client is closed.  It does not take the session's lock.
CloseClient ==
    /\ open
    /\ open' = FALSE
    /\ UNCHANGED <<callerVars, sessionVars, fate, method, serverVars>>

\* The server executes a request, once.
Pending(k) == fate[k] # "unused" /\ reply[k] = None

Stores(k, rejected, result) ==
    /\ reply' = [reply EXCEPT ![k] = [rejected |-> rejected, result |-> result]]
    /\ UNCHANGED <<callerVars, sessionVars, open, fate, method>>

ServeTool(k) ==
    /\ Pending(k)
    /\ method[k] = "call_tool"
    /\ finished = None
    /\ \E r \in Results \cup {None} :
        /\ finished' = r
        /\ Stores(k, FALSE, r)

ServeAbort(k) ==
    /\ Pending(k)
    /\ method[k] = "abort_task"
    /\ finished = None
    /\ \E r \in Results :
        /\ finished' = r
        /\ Stores(k, FALSE, r)

\* A task that is over accepts nothing; whether a second abort is refused or
\* answered with the stored result is the server's choice.
ServeFinished(k) ==
    /\ Pending(k)
    /\ finished # None
    /\ \/ Stores(k, TRUE, None)
       \/ method[k] = "abort_task" /\ Stores(k, FALSE, finished)
    /\ UNCHANGED finished

\* Closing the run ends the task.
ServerEndsTask ==
    /\ ~open
    /\ finished = None
    /\ finished' \in Results
    /\ UNCHANGED <<callerVars, sessionVars, open, fate, method, reply>>

----
Begin(c) ==
    \/ RejectClosed(c)
    \/ ReturnCachedAbort(c)
    \/ RejectFinished(c)
    \/ RejectInput(c)
    \/ \E k \in Keys : Send(c, k)

Settle(c) ==
    \/ ReceiveTool(c)
    \/ ReceiveAbort(c)
    \/ RefuseAnswer(c)
    \/ ReceiveRejection(c)
    \/ Fail(c)

Cancel(c) == CancelWaiting(c) \/ CancelCalling(c)

Serve(k) == ServeTool(k) \/ ServeAbort(k) \/ ServeFinished(k)

Next ==
    \/ \E c \in Callers, m \in Methods : Enter(c, m)
    \/ \E c \in Callers : Begin(c) \/ Settle(c) \/ Cancel(c)
    \/ \E k \in Keys : Serve(k)
    \/ CloseClient
    \/ ServerEndsTask

Spec == Init /\ [][Next]_vars

\* The event loop runs every coroutine that can run, and every RPC ends: each
\* attempt has a deadline and the attempts are counted.  Nothing makes a caller
\* enter, nobody has to cancel anyone, and the server may never answer.
Fairness ==
    /\ \A c \in Callers : WF_vars(Begin(c))
    /\ \A c \in Callers : WF_vars(Settle(c))

FairSpec == Spec /\ Fairness
----
(* Properties *)

\* What the session believes about the end of its task is what the server
\* decided, and an abort result is also the terminal result: no stale, foreign
\* or malformed answer ever gets into _terminal_result or _aborted_result.
TerminalIsServers ==
    /\ terminal # None => terminal = finished
    /\ aborted # None => aborted = terminal

\* At most one request of the session is awaited at a time, by a caller that has
\* its identifier; one that was answered was served before, and any other that
\* was sent is one whose caller got an error or was cancelled.
RequestsInOrder ==
    /\ \A k, l \in Keys : fate[k] = "open" /\ fate[l] = "open" => k = l
    /\ \A k \in Keys : fate[k] = "answered" => reply[k] # None
    /\ \A k \in Keys : fate[k] = "open" => \E c \in Callers : key[c] = k

\* While the client is open, the session misses the end of the task only if
\* the reply that carried it was lost or is still on its way; it never had the
\* terminal result in its hands and dropped it.
EndMissedOnlyIfLost ==
    open /\ finished # None /\ terminal = None =>
        \E k \in Keys :
            /\ fate[k] \in {"open", "abandoned"}
            /\ reply[k] # None
            /\ reply[k].result = finished

\* A caller is told TaskAlreadyFinishedError, by the session or by the server,
\* only about a task that is over, and a result is returned to a caller only if
\* it is the server's.
OutcomesAreTrue ==
    \A c \in Callers :
        /\ outcome[c].ending = "TaskAlreadyFinishedError" => finished # None
        /\ outcome[c].result # None => outcome[c].result = finished

\* "_require_active" at any interleaving: once the session knows the end of the
\* task, or the client is closed, no request about the task is sent any more,
\* not even by a caller that was already queued for the lock.
NoLateRequest ==
    [][terminal # None \/ ~open => Unused' = Unused]_vars

\* After one abort has succeeded, every later call of abort_task that the open
\* client lets through returns the same result ("Original cached abort result
\* on every successful repetition") and is never told that the task had
\* already finished.
AbortIsIdempotent ==
    [][\A c \in Callers :
        /\ aborted # None
        /\ open
        /\ op[c] = "abort_task"
        /\ pc[c] \in AtLock
        /\ pc'[c] = "idle"
        => \/ outcome'[c].ending = "CancelledError"
           \/ outcome'[c] = [ending |-> "returned", result |-> aborted]]_vars

\* The session implements the outcome register of TaskOutcome.
Outcome == INSTANCE TaskOutcome
    WITH result <- finished, known <- terminal, abort <- aborted

ImplementsTaskOutcome == Outcome!Spec

\* Every call of a session method ends, whatever the server and the other
\* callers do: nobody waits for the lock or for a reply for ever.
CallsEnd == \A c \in Callers : pc[c] # "idle" ~> pc[c] = "idle"

====
