---- MODULE GrpcTransport ----
(***************************************************************************)
(* GrpcRemoteTransport._invoke and aclose (remote/transport/grpc.py): the  *)
(* retry loop of one logical call, several calls at a time, on a network   *)
(* that loses and delays, and a server that recognises the identifier of a *)
(* request it has served.                                                  *)
(*                                                                         *)
(* The network and the server are external.  An attempt puts a copy of the *)
(* request on the wire.  The copy may arrive at any time, also after the   *)
(* attempt has failed and the next one was made, or never.  The first copy *)
(* of an identifier the server accepts is executed and its answer stored;  *)
(* a later one is answered from the store.                                 *)
(***************************************************************************)
EXTENDS GrpcErrors

CONSTANTS
    Calls,          \* logical calls, one identifier each
    MaxAttempts,    \* RetryPolicy.max_attempts
    InitialBackoff, \* RetryPolicy, in parts of a second
    MaxBackoff,
    Multiplier,
    OwnsChannel,    \* GrpcRemoteTransport._owns_channel
    ServerErrors    \* raw errors the server answers instead of serving

ASSUME TransportAssumption ==
    /\ MaxAttempts \in Nat \ {0}
    /\ InitialBackoff \in Nat
    /\ MaxBackoff \in Nat
    /\ Multiplier \in Nat \ {0}
    /\ InitialBackoff <= MaxBackoff
    /\ OwnsChannel \in BOOLEAN
    /\ ServerErrors \subseteq RawErrors
    /\ None \notin ServerErrors

VARIABLES
    pc,         \* "idle", "attempting", "sleeping" or "done"
    attempt,    \* the loop variable
    delay,      \* what the loop sleeps now
    slept,      \* what it has slept in all
    outcome,    \* what _invoke returned or raised
    closed,     \* GrpcRemoteTransport._closed
    channel,    \* "open", "due" (still open, a task is to close it), "closing"
                \* (no new calls) or "shut"
    wire,       \* copies of requests: [call, attempt]
    replies,    \* answers on their way: [call, attempt, error]
    heard,      \* the answers that the loop has received
    store,      \* the identifiers the server has served
    effects     \* how often the server has executed each logical call

loopVars == <<pc, attempt, delay, slept, outcome>>
netVars == <<wire, replies, heard>>
serverVars == <<store, effects>>
vars == <<loopVars, closed, channel, netVars, serverVars>>

Copies == [call : Calls, attempt : 1 .. MaxAttempts]

\* error is None in the answer to a request that was served.
Answers ==
    [call : Calls, attempt : 1 .. MaxAttempts, error : ServerErrors \cup {None}]

\* What _invoke may end with.
Outcomes ==
    Exceptions \cup
    {"returned", "RemoteClientStateError", "CancelledError", "cancelled by the channel",
     "refused by the channel"}

ASSUME OutcomesAssumption == None \notin Outcomes

\* The status that gRPC makes up itself carries no details.
LocalError(code) == [code |-> code, readable |-> FALSE, details |-> << >>]

\* What map_grpc_error makes of every error an attempt may meet.  All operations
\* pass idempotent=True.
Mapped ==
    [e \in ServerErrors \cup {LocalError("UNAVAILABLE"), LocalError("DEADLINE_EXCEEDED")}
        |-> MapGrpcError(e, TRUE)]

TypeOK ==
    /\ pc \in [Calls -> {"idle", "attempting", "sleeping", "done"}]
    /\ attempt \in [Calls -> 0 .. MaxAttempts]
    /\ delay \in [Calls -> Nat]
    /\ slept \in [Calls -> Nat]
    /\ outcome \in [Calls -> Outcomes \cup {None}]
    /\ \A c \in Calls : outcome[c] # None <=> pc[c] = "done"
    /\ closed \in BOOLEAN
    /\ channel \in {"open", "due", "closing", "shut"}
    /\ wire \subseteq Copies
    /\ replies \subseteq Answers
    /\ heard \subseteq Answers
    /\ store \subseteq Calls
    /\ effects \in [Calls -> Nat]

Init ==
    /\ pc = [c \in Calls |-> "idle"]
    /\ attempt = [c \in Calls |-> 0]
    /\ delay = [c \in Calls |-> 0]
    /\ slept = [c \in Calls |-> 0]
    /\ outcome = [c \in Calls |-> None]
    /\ closed = FALSE
    /\ channel = "open"
    /\ wire = {}
    /\ replies = {}
    /\ heard = {}
    /\ store = {}
    /\ effects = [c \in Calls |-> 0]

----
(* The retry loop *)

\* Mutant of Identifier: every attempt builds its request anew.
IdentifierOfAttempt(copy) == copy

\* The identifier inside a copy: the request is encoded once, before the loop.
Identifier(copy) == copy.call

\* _invoke ends.
Ends(c, what) ==
    /\ pc' = [pc EXCEPT ![c] = "done"]
    /\ outcome' = [outcome EXCEPT ![c] = what]
    /\ UNCHANGED <<attempt, delay, slept>>

\* The next turn of the loop calls the stub, which puts a copy on the wire.
Attempts(c) ==
    /\ pc' = [pc EXCEPT ![c] = "attempting"]
    /\ attempt' = [attempt EXCEPT ![c] = @ + 1]
    /\ wire' = wire \cup {[call |-> c, attempt |-> attempt[c] + 1]}
    /\ UNCHANGED <<outcome, replies, heard>>

\* Mutant of Refuses: _closed is not looked at.
RefusesNothing == FALSE

\* _closed is looked at once, before the loop.
Refuses == closed

RejectClosed(c) ==
    /\ pc[c] = "idle"
    /\ Refuses
    /\ Ends(c, "RemoteClientStateError")
    /\ UNCHANGED <<closed, channel, netVars, serverVars>>

Begin(c) ==
    /\ pc[c] = "idle"
    /\ ~Refuses
    /\ Attempts(c)
    /\ UNCHANGED <<delay, slept, closed, channel, serverVars>>

\* The powers of the multiplier.
Growth[n \in 0 .. MaxAttempts] == IF n = 0 THEN 1 ELSE Multiplier * Growth[n - 1]

\* Mutant of Backoff: the growth is not capped.
UncappedBackoff(n) == InitialBackoff * Growth[n - 1]

\* The delay after the n-th attempt, when the server asks for none.
Backoff(n) == Min({InitialBackoff * Growth[n - 1], MaxBackoff})

\* Mutants of MayRetry: the attempts are not counted, and whether the error is
\* retryable is not asked.
RetriesForever(c, mapped) == mapped.error \notin DomainErrors /\ mapped.retryable
RetriesEverything(c, mapped) ==
    mapped.error \notin DomainErrors /\ attempt[c] < MaxAttempts

\* The mapped error allows another attempt.
MayRetry(c, mapped) ==
    /\ mapped.error \notin DomainErrors
    /\ mapped.retryable
    /\ attempt[c] < MaxAttempts

\* Mutant of Raised: the loop falls off its end after the last attempt.
NothingRaised(c, mapped) ==
    IF attempt[c] = MaxAttempts THEN "returned" ELSE mapped.error

\* What the loop raises when it does not go on.
Raised(c, mapped) == mapped.error

\* The attempt fails with a gRPC status.
AttemptFails(c, error) ==
    LET mapped == Mapped[error]
    IN  \/ /\ MayRetry(c, mapped)
           /\ pc' = [pc EXCEPT ![c] = "sleeping"]
           /\ delay' = [delay EXCEPT ![c] =
                  IF mapped.retryAfter # None
                  THEN mapped.retryAfter
                  ELSE Backoff(attempt[c])]
           /\ UNCHANGED <<attempt, slept, outcome>>
        \/ /\ ~MayRetry(c, mapped)
           /\ Ends(c, Raised(c, mapped))

\* The answer to the current attempt arrives.
Receive(c) ==
    /\ pc[c] = "attempting"
    /\ \E r \in replies :
        /\ r.call = c
        /\ r.attempt = attempt[c]
        /\ replies' = replies \ {r}
        /\ heard' = heard \cup {r}
        /\ \/ r.error = None /\ Ends(c, "returned")
           \/ r.error # None /\ AttemptFails(c, r.error)
    /\ UNCHANGED <<wire, closed, channel, serverVars>>

\* The attempt fails by itself, whether or not the request has arrived.
LosesAttempt(c, code) ==
    /\ pc[c] = "attempting"
    /\ channel # "shut"
    /\ AttemptFails(c, LocalError(code))
    /\ UNCHANGED <<closed, channel, netVars, serverVars>>

ConnectionFails(c) == LosesAttempt(c, "UNAVAILABLE")

\* Mutant of DeadlinePasses: the stub is called without a timeout.
NoDeadline(c) == pc[c] = "no timeout" /\ UNCHANGED vars

DeadlinePasses(c) == LosesAttempt(c, "DEADLINE_EXCEEDED")

\* The channel was shut under the attempt: the call is cancelled.
AttemptCutOff(c) ==
    /\ pc[c] = "attempting"
    /\ channel = "shut"
    /\ Ends(c, "cancelled by the channel")
    /\ UNCHANGED <<closed, channel, netVars, serverVars>>

\* The sleep ends.
Sleeps(c) ==
    /\ pc[c] = "sleeping"
    /\ slept' = [slept EXCEPT ![c] = @ + delay[c]]
    /\ delay' = [delay EXCEPT ![c] = 0]
    /\ UNCHANGED <<closed, channel, serverVars>>

\* The channel accepts new calls until its closing has begun.
TakesCalls == channel \in {"open", "due"}

\* The loop goes on.  _closed is not looked at again; it is the channel that
\* refuses a new call when it is closing.
WakeAndTry(c) == Sleeps(c) /\ TakesCalls /\ Attempts(c)

WakeRefused(c) ==
    /\ Sleeps(c)
    /\ ~TakesCalls
    /\ pc' = [pc EXCEPT ![c] = "done"]
    /\ outcome' = [outcome EXCEPT ![c] = "refused by the channel"]
    /\ UNCHANGED <<attempt, netVars>>

\* The coroutine is cancelled in an attempt or in a sleep.
Cancel(c) ==
    /\ pc[c] \in {"attempting", "sleeping"}
    /\ Ends(c, "CancelledError")
    /\ UNCHANGED <<closed, channel, netVars, serverVars>>

----
(* aclose *)

\* _closed is set and, if the channel is owned, wait_for makes a task that will
\* close it: up to Python 3.11 that task runs one pass of the event loop later.
\* (Since 3.12 it is no task, and StartsClosing follows at once.)  A later aclose
\* returns without doing anything.
Close ==
    /\ ~closed
    /\ closed' = TRUE
    /\ channel' = IF OwnsChannel THEN "due" ELSE channel
    /\ UNCHANGED <<loopVars, netVars, serverVars>>

StartsClosing ==
    /\ channel = "due"
    /\ channel' = "closing"
    /\ UNCHANGED <<loopVars, closed, netVars, serverVars>>

\* The task is cancelled before it has run: nothing closes the channel any more.
CancelsClosing ==
    /\ channel = "due"
    /\ channel' = "open"
    /\ UNCHANGED <<loopVars, closed, netVars, serverVars>>

\* The grace period is over, and what still runs on the channel is cancelled.
ChannelShuts ==
    /\ channel = "closing"
    /\ channel' = "shut"
    /\ UNCHANGED <<loopVars, closed, netVars, serverVars>>

----
(* The server *)

\* A copy leaves the wire; the server's answer goes back.
Takes(copy, error) ==
    /\ copy \in wire
    /\ wire' = wire \ {copy}
    /\ replies' = replies \cup
            {[call |-> copy.call, attempt |-> copy.attempt, error |-> error]}
    /\ UNCHANGED <<loopVars, heard, closed, channel>>

Execute(copy) ==
    /\ Identifier(copy) \notin store
    /\ Takes(copy, None)
    /\ store' = store \cup {Identifier(copy)}
    /\ effects' = [effects EXCEPT ![copy.call] = @ + 1]

Replay(copy) ==
    /\ Identifier(copy) \in store
    /\ Takes(copy, None)
    /\ UNCHANGED serverVars

\* The server refuses a request it has not served.
Refuse(copy) ==
    /\ Identifier(copy) \notin store
    /\ \E e \in ServerErrors : Takes(copy, e)
    /\ UNCHANGED serverVars

----
Step(c) == Receive(c) \/ DeadlinePasses(c) \/ AttemptCutOff(c) \/ WakeAndTry(c) \/ WakeRefused(c)

Next ==
    \/ \E c \in Calls : RejectClosed(c) \/ Begin(c) \/ Step(c) \/ ConnectionFails(c) \/ Cancel(c)
    \/ Close
    \/ StartsClosing
    \/ CancelsClosing
    \/ ChannelShuts
    \/ \E copy \in Copies : Execute(copy) \/ Replay(copy) \/ Refuse(copy)

Spec == Init /\ [][Next]_vars

\* Every attempt ends, by its deadline at the latest, and every sleep ends.  The
\* network and the server owe nothing.
Fairness == \A c \in Calls : WF_vars(Step(c))

FairSpec == Spec /\ Fairness

----
(* Properties *)

\* Retries never multiply the effect of a call, and a call that returned has had
\* its effect, whatever was lost or late: the attempts of one call share its
\* identifier.
EffectOnce ==
    \A c \in Calls :
        /\ effects[c] <= 1
        /\ outcome[c] = "returned" => effects[c] = 1

\* A verdict is final: when an answer that is not retryable has reached the loop,
\* that attempt was the last, and no copy of a later one exists anywhere.
NoAttemptAfterVerdict ==
    \A r \in heard :
        r.error = None \/ ~Mapped[r.error].retryable =>
            /\ pc[r.call] = "done"
            /\ \A other \in wire \cup replies :
                other.call = r.call => other.attempt <= r.attempt

\* A call makes no more attempts and sleeps no longer than its policy says,
\* whatever delays the server asks for.
LongestDelay == Max({MaxBackoff, MaxRetryAfter})

BoundedWaiting ==
    \A c \in Calls :
        /\ attempt[c] <= MaxAttempts
        /\ delay[c] <= LongestDelay
        /\ slept[c] + delay[c] <= (MaxAttempts - 1) * LongestDelay

\* Closing ends the sending in two steps.  Once aclose has begun, only a call that
\* was in its loop already puts a copy on the wire: it slept between two attempts
\* and wakes before the channel is being closed, or the closing was cancelled.
\* Once the channel is being closed, no call does.
ClosingEndsSending ==
    [][/\ closed => \A copy \in wire' \ wire : copy.attempt > 1
       /\ ~TakesCalls => wire' \subseteq wire]_vars

\* Every call ends, though the server may never answer.
CallsEnd == \A c \in Calls : pc[c] = "attempting" ~> pc[c] = "done"

\* A call of the transport is a logical call as the session and the client see
\* it: the attempts are invisible.
CallFate(c) ==
    IF pc[c] = "idle" \/ outcome[c] = "RemoteClientStateError" THEN "unused"
    ELSE IF pc[c] # "done" THEN "open"
    ELSE IF outcome[c] = "returned" THEN "answered"
    ELSE "abandoned"

Call(c) == INSTANCE LogicalCall WITH fate <- CallFate(c), served <- effects[c]

ImplementsLogicalCall ==
    /\ \A c \in Calls : Call(c)!Init
    /\ [][\A c \in Calls : Call(c)!Next \/ UNCHANGED Call(c)!vars]_vars

====
