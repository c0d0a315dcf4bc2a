---- MODULE RemoteClient ----
(***************************************************************************)
(* RemoteBenchmarkClient (remote/client.py): the owner of one remote run   *)
(* and, if it built it itself, of the transport.  Coroutines (Callers) may *)
(* call open, start_task and aclose at any time; one lock serializes them. *)
(* "aexit" is __aexit__ of a context that ends with an exception, entered  *)
(* by a caller whose open returned; without an exception __aexit__ is      *)
(* aclose, and __aenter__ is open.                                         *)
(*                                                                         *)
(* The server is external: it serves each identifier at most once, perhaps *)
(* after the client has given up on it.  A run is named by the identifier  *)
(* of the CreateRun request that made it.                                  *)
(***************************************************************************)
EXTENDS AsyncLock

CONSTANTS
    Callers,    \* coroutines that share the client
    Keys,       \* idempotency keys (uuid4), each used once
    Tasks,      \* the tasks of the server's queue
    None

VARIABLES
    pc,         \* where each caller is; see Places
    op,         \* the method each caller last entered
    key,        \* identifier of the request a caller awaits
    saved,      \* the exception a cleanup will raise when it is done
    outcome,    \* how each caller's last method call ended
    lock,       \* RemoteBenchmarkClient._lock
    inside,     \* callers whose open returned and that may leave a context
    state,      \* RemoteBenchmarkClient._state
    run,        \* RemoteBenchmarkClient._run
    owned,      \* _owned_transport is not None
    shut,       \* the transport's _closed flag
    fate,       \* what the client knows about each identifier
    method,     \* which RPC each identifier was used for
    reply,      \* the server's stored reply to each identifier
    runs,       \* the server's runs
    leased,     \* tasks the server has leased
    handed      \* tasks for which start_task returned a session

callerVars == <<pc, op, key, saved, outcome, lock, inside>>
clientVars == <<state, run, owned, shut, handed>>
serverVars == <<reply, runs, leased>>
vars == <<callerVars, clientVars, fate, method, serverVars>>

Methods == {"open", "start_task", "aclose", "aexit"}

\* The awaits of the client: for the lock, for CreateRun, LeaseTask and
\* CloseRun, and for the transport's aclose.
Places == {"idle", "creating", "leasing", "closing", "cleaning"} \cup AtLock
InRpc == {"creating", "leasing", "closing"}

Rpcs == {"CreateRun", "LeaseTask", "CloseRun"}

Endings ==
    {"returned", "RemoteClientStateError", "RemoteRequestError",
     "RemoteProtocolError", "RemoteClientError", "CancelledError"}

Replies ==
    [kind : {"task"}, task : Tasks]
        \cup [kind : {"active", "inactive", "exhausted", "closed"}, task : {None}]

ASSUME ClientAssumption == None \notin Keys \cup Tasks \cup Replies

TypeOK ==
    /\ pc \in [Callers -> Places]
    /\ op \in [Callers -> Methods]
    /\ key \in [Callers -> Keys \cup {None}]
    /\ \A c \in Callers : pc[c] \in InRpc <=> key[c] # None
    /\ saved \in [Callers -> Endings]
    /\ outcome \in [Callers -> Endings]
    /\ lock \in Seq(Callers)
    /\ inside \subseteq Callers
    /\ state \in {"new", "open", "closed"}
    /\ run \in Keys \cup {None}
    /\ state = "open" => run # None
    /\ owned \in BOOLEAN
    /\ shut \in BOOLEAN
    /\ fate \in [Keys -> {"unused", "open", "answered", "abandoned"}]
    /\ method \in [Keys -> Rpcs]
    /\ reply \in [Keys -> Replies \cup {None}]
    /\ runs \in [Keys -> {"absent", "active", "closed"}]
    /\ leased \subseteq Tasks
    /\ handed \subseteq Tasks

Init ==
    /\ pc = [c \in Callers |-> "idle"]
    /\ op = [c \in Callers |-> "open"]
    /\ key = [c \in Callers |-> None]
    /\ saved = [c \in Callers |-> "returned"]
    /\ outcome = [c \in Callers |-> "RemoteClientError"]
    /\ lock = << >>
    /\ inside = {}
    /\ state = "new"
    /\ run = None
    /\ owned \in BOOLEAN
    /\ shut = FALSE
    /\ fate = [k \in Keys |-> "unused"]
    /\ method = [k \in Keys |-> "CreateRun"]
    /\ reply = [k \in Keys |-> None]
    /\ runs = [k \in Keys |-> "absent"]
    /\ leased = {}
    /\ handed = {}

----
(* Entering and leaving a method *)

Unused == {k \in Keys : fate[k] = "unused"}

\* __aexit__ is entered once for an open that returned.  (Bound: Keys.  One
\* identifier is kept for the request that closes the run.)
Enter(c, m) ==
    /\ pc[c] = "idle"
    /\ m = "aexit" => c \in inside
    /\ Cardinality(Unused) > Len(lock) + (IF m \in {"aclose", "aexit"} THEN 0 ELSE 1)
    /\ pc' = [pc EXCEPT ![c] = Arrival(lock)]
    /\ op' = [op EXCEPT ![c] = m]
    /\ lock' = Enqueue(lock, c)
    /\ inside' = IF m = "aexit" THEN inside \ {c} ELSE inside
    /\ UNCHANGED <<key, saved, outcome, clientVars, fate, method, serverVars>>

\* Mutant of Proceeds: the body of the method is not under the lock.
ProceedsUnlocked(c, ms) == pc[c] \in AtLock /\ op[c] \in ms

\* The caller of one of the methods ms has the lock.
Proceeds(c, ms) == pc[c] \in AtLock /\ op[c] \in ms /\ Holds(lock, c)

\* __aexit__ drops every exception of the cleanup, a cancellation included, if
\* the context itself ended with one.
Surfaces(c, e) == IF op[c] = "aexit" THEN "returned" ELSE e

\* Mutant of Releases: a path out of the method keeps the lock.
KeepsLock(c) == UNCHANGED lock

Releases(c) == lock' \in Leave(lock, c)

\* The method ends and releases the lock.
Ends(c, e) ==
    /\ pc' = [pc EXCEPT ![c] = "idle"]
    /\ key' = [key EXCEPT ![c] = None]
    /\ saved' = [saved EXCEPT ![c] = "returned"]
    /\ outcome' = [outcome EXCEPT ![c] = Surfaces(c, e)]
    /\ inside' = IF op[c] = "open" /\ e = "returned" THEN inside \cup {c} ELSE inside
    /\ Releases(c)
    /\ UNCHANGED op

EndsLocally(c, e) ==
    /\ Ends(c, e)
    /\ UNCHANGED <<clientVars, fate, method, serverVars>>

\* An identifier never used before.  (Which of them does not matter: they carry
\* no meaning beyond their identity.)
Fresh == CHOOSE k \in Keys : fate[k] = "unused"

\* A fresh identifier is drawn and an RPC starts.
Sends(c, rpc, place) ==
    /\ Unused # {}
    /\ pc' = [pc EXCEPT ![c] = place]
    /\ key' = [key EXCEPT ![c] = Fresh]
    /\ fate' = [fate EXCEPT ![Fresh] = "open"]
    /\ method' = [method EXCEPT ![Fresh] = rpc]
    /\ UNCHANGED <<op, saved, outcome, lock, inside, serverVars>>

\* The RPC of caller c ends.
Settles(c, f) ==
    /\ fate' = [fate EXCEPT ![key[c]] = f]
    /\ UNCHANGED <<method, serverVars>>

\* How an RPC fails, and what the server's reply has to do with it: nothing
\* (deadline, status, closed channel, cancellation), or a check of the client or
\* of the transport on a reply that did arrive.
Failures == {"RemoteClientError", "CancelledError", "RemoteProtocolError"}

\* Mutant of Cleans: a failure skips the transport.
CleansUnlessFailed(c, e) ==
    IF owned /\ e = "returned"
    THEN /\ pc' = [pc EXCEPT ![c] = "cleaning"]
         /\ key' = [key EXCEPT ![c] = None]
         /\ shut' = TRUE
         /\ UNCHANGED <<op, saved, outcome, lock, inside>>
    ELSE Ends(c, e) /\ UNCHANGED shut

\* The last part of a cleanup: an owned transport is closed.  Its aclose sets
\* _closed before its first await.
Cleans(c, e) ==
    IF owned
    THEN /\ pc' = [pc EXCEPT ![c] = "cleaning"]
         /\ key' = [key EXCEPT ![c] = None]
         /\ saved' = [saved EXCEPT ![c] = e]
         /\ shut' = TRUE
         /\ UNCHANGED <<op, outcome, lock, inside>>
    ELSE /\ Ends(c, e)
         /\ UNCHANGED shut

----
(* open *)

ReturnExisting(c) ==
    /\ Proceeds(c, {"open"})
    /\ state = "open"
    /\ run # None
    /\ EndsLocally(c, "returned")

RejectReopen(c) ==
    /\ Proceeds(c, {"open"})
    /\ state = "closed"
    /\ EndsLocally(c, "RemoteClientStateError")

\* The metadata is not canonical: the client stays new.
RejectMetadata(c) ==
    /\ Proceeds(c, {"open"})
    /\ state = "new"
    /\ EndsLocally(c, "RemoteRequestError")

SendCreate(c) ==
    /\ Proceeds(c, {"open"})
    /\ state = "new"
    /\ Sends(c, "CreateRun", "creating")
    /\ UNCHANGED clientVars

\* Mutant of Keeps: the run is returned and not kept.
KeepsNothing(k) == state' = "open" /\ UNCHANGED run

Keeps(k) == state' = "open" /\ run' = k

ReceiveRun(c) ==
    /\ pc[c] = "creating"
    /\ reply[key[c]] # None
    /\ reply[key[c]].kind = "active"
    /\ Keeps(key[c])
    /\ Settles(c, "answered")
    /\ Ends(c, "returned")
    /\ UNCHANGED <<owned, shut, handed>>

\* Mutant of GivesUp: "except Exception", which a cancellation passes by.
GivesUpUnlessCancelled(c, e) ==
    IF e = "CancelledError"
    THEN Ends(c, e) /\ UNCHANGED <<state, shut>>
    ELSE state' = "closed" /\ Cleans(c, e)

\* "except BaseException" in open.
GivesUp(c, e) == state' = "closed" /\ Cleans(c, e)

\* CreateRun fails, is cancelled, or answers a run that is not active (then the
\* server has no active run of this request).
FailCreate(c) ==
    /\ pc[c] = "creating"
    /\ \/ \E e \in Failures : Settles(c, "abandoned") /\ GivesUp(c, e)
       \/ /\ reply[key[c]] # None
          /\ reply[key[c]].kind = "inactive"
          /\ Settles(c, "answered")
          /\ GivesUp(c, "RemoteProtocolError")
    /\ UNCHANGED <<run, owned, handed>>

----
(* start_task *)

\* Mutant of IsOpen: the run alone is looked at, and a closed client has one.
HasRun == run # None

\* _require_open_run
IsOpen == state = "open" /\ run # None

RejectLease(c) ==
    /\ Proceeds(c, {"start_task"})
    /\ ~IsOpen
    /\ EndsLocally(c, "RemoteClientStateError")

SendLease(c) ==
    /\ Proceeds(c, {"start_task"})
    /\ IsOpen
    /\ Sends(c, "LeaseTask", "leasing")
    /\ UNCHANGED clientVars

\* Mutant of HandsOut: the outcome that is not a task is tested the wrong way
\* round.
HandsOutNothing(t) == UNCHANGED handed

\* A session is made for the task.
HandsOut(t) == handed' = handed \cup {t}

ReceiveTask(c) ==
    /\ pc[c] = "leasing"
    /\ reply[key[c]] # None
    /\ reply[key[c]].kind = "task"
    /\ HandsOut(reply[key[c]].task)
    /\ Settles(c, "answered")
    /\ Ends(c, "returned")
    /\ UNCHANGED <<state, run, owned, shut>>

ReceiveExhausted(c) ==
    /\ pc[c] = "leasing"
    /\ reply[key[c]] # None
    /\ reply[key[c]].kind = "exhausted"
    /\ Settles(c, "answered")
    /\ Ends(c, "returned")
    /\ UNCHANGED clientVars

\* The client stays open, and the next start_task draws a new identifier.
FailLease(c) ==
    /\ pc[c] = "leasing"
    /\ \E e \in Failures : Ends(c, e)
    /\ Settles(c, "abandoned")
    /\ UNCHANGED clientVars

----
(* aclose and __aexit__ *)

Closers == {"aclose", "aexit"}

AlreadyClosed(c) ==
    /\ Proceeds(c, Closers)
    /\ state = "closed"
    /\ EndsLocally(c, "returned")

\* Mutant of MarksClosed: the client stays open during its cleanup.
MarksNothing == UNCHANGED state

\* The client is closed from the first moment of its cleanup.
MarksClosed == state' = "closed"

\* A client without a run has nothing to close but its transport.
CloseUnopened(c) ==
    /\ Proceeds(c, Closers)
    /\ state # "closed"
    /\ run = None
    /\ MarksClosed
    /\ Cleans(c, "returned")
    /\ UNCHANGED <<run, owned, handed, fate, method, serverVars>>

SendClose(c) ==
    /\ Proceeds(c, Closers)
    /\ state # "closed"
    /\ run # None
    /\ MarksClosed
    /\ Sends(c, "CloseRun", "closing")
    /\ UNCHANGED <<run, owned, shut, handed>>

\* CloseRun ends; its failure is kept until the transport is closed too.
CloseSettles(c) ==
    /\ pc[c] = "closing"
    /\ \/ /\ reply[key[c]] # None
          /\ Settles(c, "answered")
          /\ Cleans(c, "returned")
       \/ \E e \in Failures : Settles(c, "abandoned") /\ Cleans(c, e)
    /\ UNCHANGED <<state, run, owned, handed>>

\* The transport's aclose ends.  In aclose the first failure wins; in open the
\* failure of the cleanup replaces the one that led to it.
CleanupEnds(c) ==
    /\ pc[c] = "cleaning"
    /\ \/ Ends(c, saved[c])
       \/ \E e \in {"RemoteClientError", "CancelledError"} :
            IF op[c] \in Closers /\ saved[c] # "returned"
            THEN Ends(c, saved[c])
            ELSE Ends(c, e)
    /\ UNCHANGED <<clientVars, fate, method, serverVars>>

\* A caller is cancelled while it queues for the lock.  (Cancellations at the
\* other awaits are among the failures there.)
CancelWaiting(c) ==
    /\ pc[c] = "waiting"
    /\ EndsLocally(c, "CancelledError")

----
(* The server *)

Pending(k) == fate[k] # "unused" /\ reply[k] = None

Stores(k, kind, t) ==
    /\ reply' = [reply EXCEPT ![k] = [kind |-> kind, task |-> t]]
    /\ UNCHANGED <<callerVars, clientVars, fate, method>>

ServeCreate(k) ==
    /\ Pending(k)
    /\ method[k] = "CreateRun"
    /\ \/ /\ Stores(k, "active", None)
          /\ runs' = [runs EXCEPT ![k] = "active"]
       \/ Stores(k, "inactive", None) /\ UNCHANGED runs
    /\ UNCHANGED leased

\* The next task of the server's queue, whose order means nothing to the client.
NextTask == CHOOSE t \in Tasks \ leased : TRUE

\* Requests about a run that is not active are refused (no reply is stored, the
\* client sees a failure).
ServeLease(k) ==
    /\ Pending(k)
    /\ method[k] = "LeaseTask"
    /\ run # None
    /\ runs[run] = "active"
    /\ \/ /\ leased # Tasks
          /\ Stores(k, "task", NextTask)
          /\ leased' = leased \cup {NextTask}
       \/ /\ leased = Tasks
          /\ Stores(k, "exhausted", None)
          /\ UNCHANGED leased
    /\ UNCHANGED runs

ServeClose(k) ==
    /\ Pending(k)
    /\ method[k] = "CloseRun"
    /\ Stores(k, "closed", None)
    /\ runs' = [runs EXCEPT ![run] = "closed"]
    /\ UNCHANGED leased

----
Begin(c) ==
    \/ ReturnExisting(c)
    \/ RejectReopen(c)
    \/ RejectMetadata(c)
    \/ RejectLease(c)
    \/ AlreadyClosed(c)
    \/ CloseUnopened(c)
    \/ SendCreate(c)
    \/ SendLease(c)
    \/ SendClose(c)

Settle(c) ==
    \/ ReceiveRun(c)
    \/ FailCreate(c)
    \/ ReceiveTask(c)
    \/ ReceiveExhausted(c)
    \/ FailLease(c)
    \/ CloseSettles(c)
    \/ CleanupEnds(c)

Serve(k) == ServeCreate(k) \/ ServeLease(k) \/ ServeClose(k)

Next ==
    \/ \E c \in Callers, m \in Methods : Enter(c, m)
    \/ \E c \in Callers : Begin(c) \/ Settle(c) \/ CancelWaiting(c)
    \/ \E k \in Keys : Serve(k)

Spec == Init /\ [][Next]_vars

\* The event loop runs every coroutine that can run; every RPC and the closing
\* of the channel end, for all of them have deadlines.  Nothing makes a caller
\* enter a method and nobody has to cancel anyone.
Fairness ==
    /\ \A c \in Callers : WF_vars(Begin(c))
    /\ \A c \in Callers : WF_vars(Settle(c))

FairSpec == Spec /\ Fairness

----
(* Properties *)

\* "Create one new remote run": however calls of open and aclose interleave and
\* fail, one client sends one CreateRun and one CloseRun at most, so that it
\* never holds two runs ("You may have only one run in flight").
OneRunPerClient ==
    \A k, l \in Keys \ Unused :
        method[k] = method[l] /\ method[k] # "LeaseTask" => k = l

\* A closed and idle client leaves an active run on the server only if CreateRun
\* or CloseRun failed: there is no order of calls in which it forgets the run.
RunLeakedOnlyByFailure ==
    state = "closed" /\ lock = << >> /\ (\E k \in Keys : runs[k] = "active") =>
        \E k \in Keys : fate[k] = "abandoned" /\ method[k] # "LeaseTask"

\* A task the server has leased either has its session, or its LeaseTask reply
\* was lost or is still awaited.
TaskLostOnlyByFailure ==
    \A k \in Keys :
        /\ reply[k] # None
        /\ reply[k].kind = "task"
        /\ reply[k].task \notin handed
        => fate[k] \in {"open", "abandoned"}

\* "Close the remote run and then any owned transport": no request of the client
\* is in flight when it shuts its transport, whatever failed before, and it
\* leaves no transport of its own open when it is closed and idle.
TransportShutLast ==
    /\ shut => state = "closed" /\ owned /\ \A c \in Callers : key[c] = None
    /\ state = "closed" /\ owned /\ lock = << >> => shut

\* A caller whose aclose returned normally, be it the one that did the work or
\* one that came later, finds the cleanup complete.
AcloseReturnsAfterCleanup ==
    \A c \in Callers :
        /\ op[c] = "aclose"
        /\ pc[c] = "idle"
        /\ outcome[c] = "returned"
        => /\ state = "closed"
           /\ \A k \in Keys : fate[k] # "open"
           /\ \A d \in Callers : pc[d] # "cleaning"
           /\ owned => shut

\* A closed client is never reopened and sends nothing new, not even for a
\* caller that was already queued for the lock.
ClosedIsFinal ==
    [][state = "closed" =>
        state' = "closed" /\ run' = run /\ Unused' = Unused]_vars

\* Every call ends.
CallsEnd == \A c \in Callers : pc[c] # "idle" ~> pc[c] = "idle"

\* "Close the run and owned resources on context exit."  (The context was entered:
\* a client that is not closed is then open and its run active.)
ContextExitCloses ==
    \A c \in Callers :
        op[c] = "aexit" /\ pc[c] = "idle" => state = "closed"

====
