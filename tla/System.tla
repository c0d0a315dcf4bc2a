---- MODULE System ----
(***************************************************************************)
(* The client, one of its sessions and the server together.  RemoteSession *)
(* treats its parent client as an environment that may close at any moment *)
(* and the server as one that ends a task on its own only after that; here *)
(* both are the ones of RemoteClient: start_task hands out the session,    *)
(* aclose marks the client closed before it sends CloseRun, and serving    *)
(* that request ends the tasks of the run that are not over.               *)
(*                                                                         *)
(* Client and session have locks, callers and identifiers of their own, so *)
(* that a call of one runs in parallel with a call of the other.           *)
(***************************************************************************)
EXTENDS RemoteClient

CONSTANTS
    Task,           \* the task whose session is looked at
    SessionCallers, \* coroutines that share the session
    SessionKeys,    \* identifiers of its requests
    Results         \* TaskResult values

ASSUME SystemAssumption ==
    /\ Task \in Tasks
    /\ Results # {}

VARIABLES
    sPc, sOp, sKey, sOutcome, sLock,    \* callerVars of the session
    terminal, aborted,                  \* its state
    sFate, sMethod, sReply,             \* its requests
    finished                            \* the server's result of the task

\* The callback is_client_open is RemoteBenchmarkClient._is_open.  A session
\* exists only after its client was open, so that "not open" is "closed".
Session == INSTANCE RemoteSession WITH
    Callers <- SessionCallers, Keys <- SessionKeys,
    pc <- sPc, op <- sOp, key <- sKey, outcome <- sOutcome, lock <- sLock,
    open <- state # "closed", fate <- sFate, method <- sMethod, reply <- sReply

\* What RemoteSession assumes of its constants.
ASSUME SessionFits == None \notin SessionKeys \cup Results \cup Session!Replies

\* What the client and the server's other tasks leave alone.
callsVars ==
    <<sPc, sOp, sKey, sOutcome, sLock, terminal, aborted, sFate, sMethod, sReply>>
sessionVars == <<callsVars, finished>>
systemVars == <<vars, sessionVars>>

SystemInit == Init /\ Session!Init

\* A step of the session's callers, or of the server for the session, once
\* start_task has returned the session.
SessionStep(A) == Task \in handed /\ UNCHANGED vars /\ A

\* Closing the run ends the task if it was leased and is not over.
EndsTask ==
    IF Task \in leased /\ finished = None
    THEN finished' \in Results
    ELSE UNCHANGED finished

ServeCloseOfRun(k) ==
    /\ ServeClose(k)
    /\ EndsTask
    /\ UNCHANGED callsVars

ClientNext ==
    /\ \/ \E c \in Callers, m \in Methods : Enter(c, m)
       \/ \E c \in Callers : Begin(c) \/ Settle(c) \/ CancelWaiting(c)
       \/ \E k \in Keys : ServeCreate(k) \/ ServeLease(k)
    /\ UNCHANGED sessionVars

SessionNext ==
    \/ \E c \in SessionCallers, m \in Session!Methods : SessionStep(Session!Enter(c, m))
    \/ \E c \in SessionCallers :
        SessionStep(Session!Begin(c) \/ Session!Settle(c) \/ Session!Cancel(c))
    \/ \E k \in SessionKeys : SessionStep(Session!Serve(k))

SystemNext == ClientNext \/ SessionNext \/ \E k \in Keys : ServeCloseOfRun(k)

SystemSpec == SystemInit /\ [][SystemNext]_systemVars

----
(* Properties *)

\* Client and server give the session the environment it was specified for, so
\* that what is proved of RemoteSession holds in the system: above all, its task
\* ends only by its own requests as long as is_client_open answers that it is.
ImplementsSession == Session!Spec

\* However the closing of the client, which takes no lock of a session, meets
\* the calls of the session: once the server has closed the run, the session
\* draws no identifier for a new request.
NoRequestToClosedRun ==
    [][(\E k \in Keys : runs[k] = "closed") =>
        Session!Unused' = Session!Unused]_systemVars

====
