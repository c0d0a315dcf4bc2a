---- MODULE RemoteClientProofs ----
(***************************************************************************)
(* Theorems about RemoteClient, for every set of callers, identifiers and  *)
(* tasks, and about System: the client is the environment its session was  *)
(* specified for, and what RemoteSessionProofs states holds in it.         *)
(***************************************************************************)
EXTENDS System, SharedLemmas

\* A caller beyond the lock, in an RPC or in the closing of the transport, owns
\* the lock.
Busy == InRpc \cup {"cleaning"}

BusyHoldsLock == \A c \in Callers : pc[c] \in Busy => Holds(lock, c)

\* The request a caller awaits is its own, for the method it is in, and nobody
\* has settled it.
RpcAt == [creating |-> "CreateRun", leasing |-> "LeaseTask", closing |-> "CloseRun"]

AwaitsOwnRequest ==
    \A c \in Callers : pc[c] \in InRpc =>
        fate[key[c]] = "open" /\ method[key[c]] = RpcAt[pc[c]]

OpenIsAwaited ==
    \A k \in Keys : fate[k] = "open" => \E c \in Callers : key[c] = k

\* What the client is at each of its awaits.
PlaceFitsState ==
    \A c \in Callers :
        /\ pc[c] = "creating" => state = "new" /\ op[c] = "open"
        /\ pc[c] = "leasing" => state = "open" /\ op[c] = "start_task"
        /\ pc[c] = "closing" => state = "closed" /\ ~shut
        /\ pc[c] = "cleaning" => shut

NewIsEmpty == state = "new" => run = None

\* The transport is shut as the last thing a closing client does.
ShutIsQuiet ==
    shut => state = "closed" /\ owned /\ \A c \in Callers : key[c] = None

ClosedGetsShut ==
    state = "closed" /\ owned /\ ~shut => \E c \in Callers : pc[c] = "closing"

Used(k, rpc) == fate[k] # "unused" /\ method[k] = rpc

\* CreateRun comes first and CloseRun last, and the client that is closed with a
\* run has asked for its end.
CreateIsFirst ==
    \A k \in Keys : Used(k, "CreateRun") =>
        state # "new" \/ \E c \in Callers : pc[c] = "creating"

CloseIsLast ==
    \A k \in Keys : Used(k, "CloseRun") => state = "closed" /\ run # None

CloseIsSent ==
    state = "closed" /\ run # None => \E k \in Keys : Used(k, "CloseRun")

\* The run of the client is the one that its CreateRun made.
RunIsAnswered ==
    run # None => fate[run] = "answered" /\ method[run] = "CreateRun" /\ reply[run] # None

ActiveIsKept ==
    \A k \in Keys :
        /\ fate[k] = "answered"
        /\ method[k] = "CreateRun"
        /\ reply[k].kind = "active"
        => run = k

\* What the stored replies say about the requests and the runs.
UnusedIsUnserved == \A k \in Keys : fate[k] = "unused" => reply[k] = None

AnsweredIsServed == \A k \in Keys : fate[k] = "answered" => reply[k] # None

RepliesFit ==
    \A k \in Keys : reply[k] # None =>
        /\ reply[k].kind \in {"active", "inactive"} => method[k] = "CreateRun"
        /\ reply[k].kind \in {"task", "exhausted"} => method[k] = "LeaseTask"
        /\ reply[k].kind = "closed" => method[k] = "CloseRun"

ActiveIsServed ==
    \A k \in Keys : runs[k] = "active" => reply[k] # None /\ reply[k].kind = "active"

CloseCloses ==
    \A k \in Keys :
        reply[k] # None /\ method[k] = "CloseRun" => runs[run] = "closed"

IInv ==
    /\ TypeOK
    /\ BusyHoldsLock
    /\ AwaitsOwnRequest
    /\ OpenIsAwaited
    /\ PlaceFitsState
    /\ NewIsEmpty
    /\ ShutIsQuiet
    /\ ClosedGetsShut
    /\ OneRunPerClient
    /\ CreateIsFirst
    /\ CloseIsLast
    /\ CloseIsSent
    /\ RunIsAnswered
    /\ ActiveIsKept
    /\ UnusedIsUnserved
    /\ AnsweredIsServed
    /\ RepliesFit
    /\ ActiveIsServed
    /\ CloseCloses
    /\ TaskLostOnlyByFailure
    /\ AcloseReturnsAfterCleanup

----
(* Type correctness *)

\* The places of a caller are expanded everywhere below.
USE DEF AtLock, InRpc, Places

\* The part of TypeOK about the callers and their lock.
CallersTyped ==
    /\ pc \in [Callers -> Places]
    /\ op \in [Callers -> Methods]
    /\ key \in [Callers -> Keys \cup {None}]
    /\ \A c \in Callers : pc[c] \in InRpc <=> key[c] # None
    /\ saved \in [Callers -> Endings]
    /\ outcome \in [Callers -> Endings]
    /\ lock \in Seq(Callers)
    /\ inside \subseteq Callers

LEMMA EndsType ==
    ASSUME TypeOK, NEW c \in Callers, NEW e \in Endings, Ends(c, e)
    PROVE  CallersTyped'
<1>1. lock' \in Seq(Callers)
  BY LeaveType DEF TypeOK, Ends, Releases
<1>2. Surfaces(c, e) \in Endings /\ "returned" \in Endings
  BY DEF Surfaces, Endings
<1>3. QED
  BY <1>1, <1>2 DEF TypeOK, Ends, CallersTyped

LEMMA CleansType ==
    ASSUME TypeOK, NEW c \in Callers, NEW e \in Endings, Cleans(c, e)
    PROVE  CallersTyped' /\ shut' \in BOOLEAN
<1>1. CASE owned
  BY <1>1 DEF TypeOK, Cleans, CallersTyped
<1>2. CASE ~owned
  BY <1>2, EndsType DEF TypeOK, Cleans
<1>3. QED
  BY <1>1, <1>2

LEMMA SettlesType ==
    ASSUME TypeOK, NEW c \in Callers, NEW f \in {"answered", "abandoned"},
           Settles(c, f), CallersTyped',
           state' \in {"new", "open", "closed"}, run' \in Keys \cup {None},
           state' = "open" => run' # None,
           owned' \in BOOLEAN, shut' \in BOOLEAN, handed' \subseteq Tasks
    PROVE  TypeOK'
<1>1. fate' \in [Keys -> {"unused", "open", "answered", "abandoned"}]
  BY DEF TypeOK, Settles
<1>2. QED
  BY <1>1 DEF TypeOK, Settles, serverVars, CallersTyped

LEMMA EndsLocallyType ==
    ASSUME TypeOK, NEW c \in Callers, NEW e \in Endings, EndsLocally(c, e)
    PROVE  TypeOK'
<1>1. CallersTyped'
  BY EndsType DEF EndsLocally
<1>2. QED
  BY <1>1 DEF TypeOK, EndsLocally, clientVars, serverVars, CallersTyped

\* A fresh identifier is one that was never used.
LEMMA FreshIsUnused ==
    ASSUME Unused # {}
    PROVE  Fresh \in Keys /\ fate[Fresh] = "unused"
BY DEF Unused, Fresh

LEMMA NextTaskIsNew ==
    ASSUME leased \subseteq Tasks, leased # Tasks
    PROVE  NextTask \in Tasks \ leased
BY DEF NextTask

LEMMA SendsType ==
    ASSUME TypeOK, NEW c \in Callers, NEW rpc \in Rpcs, NEW place \in InRpc,
           Sends(c, rpc, place),
           state' \in {"new", "open", "closed"},
           state' = "open" => run # None,
           UNCHANGED <<run, owned, shut, handed>>
    PROVE  TypeOK'
<1>1. Fresh \in Keys
  BY FreshIsUnused DEF Sends
<1>2. QED
  BY <1>1, ClientAssumption DEF TypeOK, Sends, serverVars

LEMMA StoresType ==
    ASSUME TypeOK, NEW k \in Keys, NEW kind, NEW t, Stores(k, kind, t),
           [kind |-> kind, task |-> t] \in Replies,
           runs' \in [Keys -> {"absent", "active", "closed"}],
           leased' \subseteq Tasks
    PROVE  TypeOK'
<1>1. reply' \in [Keys -> Replies \cup {None}]
  BY DEF TypeOK, Stores
<1>2. QED
  BY <1>1 DEF TypeOK, Stores, callerVars, clientVars

\* The server's replies: four carry no task, and one does.
LEMMA RepliesTyped ==
    /\ \A kind \in {"active", "inactive", "exhausted", "closed"} :
        [kind |-> kind, task |-> None] \in Replies
    /\ \A t \in Tasks : [kind |-> "task", task |-> t] \in Replies
    /\ \A r \in Replies : r.kind = "task" => r.task \in Tasks
BY DEF Replies

LEMMA TypeInit == Init => TypeOK
<1> SUFFICES ASSUME Init
             PROVE  TypeOK
  OBVIOUS
<1>1. CallersTyped
  BY DEF Init, CallersTyped, Methods, Endings
<1>2. QED
  BY <1>1 DEF Init, TypeOK, CallersTyped, Rpcs

\* Every step of the callers and of the server keeps the types.
LEMMA TypeStep ==
    ASSUME TypeOK, [Next]_vars
    PROVE  TypeOK'
<1> USE DEF Endings
<1>1. ASSUME NEW c \in Callers, NEW m \in Methods, Enter(c, m)
      PROVE  TypeOK'
  BY <1>1 DEF TypeOK, Enter, Enqueue, Arrival, clientVars, serverVars
<1>2. ASSUME NEW c \in Callers,
             ReturnExisting(c) \/ RejectReopen(c) \/ RejectMetadata(c)
                \/ RejectLease(c) \/ AlreadyClosed(c) \/ CancelWaiting(c)
      PROVE  TypeOK'
  BY <1>2, EndsLocallyType
     DEF ReturnExisting, RejectReopen, RejectMetadata, RejectLease,
         AlreadyClosed, CancelWaiting
<1>3. ASSUME NEW c \in Callers, CloseUnopened(c)
      PROVE  TypeOK'
  <2>1. CallersTyped' /\ shut' \in BOOLEAN
    BY <1>3, CleansType DEF CloseUnopened
  <2>2. QED
    BY <1>3, <2>1 DEF CloseUnopened, MarksClosed, TypeOK, serverVars, CallersTyped
<1>4. ASSUME NEW c \in Callers, SendCreate(c)
      PROVE  TypeOK'
  BY <1>4, SendsType DEF SendCreate, clientVars, Rpcs, TypeOK
<1>5. ASSUME NEW c \in Callers, SendLease(c)
      PROVE  TypeOK'
  BY <1>5, SendsType DEF SendLease, clientVars, Rpcs, TypeOK
<1>6. ASSUME NEW c \in Callers, SendClose(c)
      PROVE  TypeOK'
  BY <1>6, SendsType DEF SendClose, MarksClosed, Rpcs
<1>7. ASSUME NEW c \in Callers, ReceiveRun(c)
      PROVE  TypeOK'
  <2>1. CallersTyped'
    BY <1>7, EndsType DEF ReceiveRun
  <2>2. key[c] \in Keys
    BY <1>7 DEF ReceiveRun, TypeOK
  <2>3. QED
    BY <1>7, <2>1, <2>2, SettlesType, ClientAssumption DEF ReceiveRun, Keeps, TypeOK
<1>8. ASSUME NEW c \in Callers, FailCreate(c)
      PROVE  TypeOK'
  <2>1. PICK f \in {"answered", "abandoned"}, e \in Failures :
            Settles(c, f) /\ GivesUp(c, e)
    BY <1>8 DEF FailCreate, Failures
  <2>2. CallersTyped' /\ shut' \in BOOLEAN
    BY <2>1, CleansType DEF GivesUp, Failures
  <2>3. QED
    BY <1>8, <2>1, <2>2, SettlesType DEF FailCreate, GivesUp, TypeOK
<1>9. ASSUME NEW c \in Callers, ReceiveTask(c)
      PROVE  TypeOK'
  <2>1. CallersTyped'
    BY <1>9, EndsType DEF ReceiveTask
  <2>2. reply[key[c]] \in Replies
    BY <1>9 DEF ReceiveTask, TypeOK
  <2>3. handed' \subseteq Tasks
    BY <1>9, <2>2, RepliesTyped DEF ReceiveTask, HandsOut, TypeOK
  <2>4. QED
    BY <1>9, <2>1, <2>3, SettlesType DEF ReceiveTask, TypeOK
<1>10. ASSUME NEW c \in Callers, ReceiveExhausted(c) \/ FailLease(c)
       PROVE  TypeOK'
  <2>1. CallersTyped'
    BY <1>10, EndsType DEF ReceiveExhausted, FailLease, Failures
  <2>2. QED
    BY <1>10, <2>1, SettlesType
       DEF ReceiveExhausted, FailLease, clientVars, TypeOK
<1>11. ASSUME NEW c \in Callers, CloseSettles(c)
       PROVE  TypeOK'
  <2>1. CallersTyped' /\ shut' \in BOOLEAN
    BY <1>11, CleansType DEF CloseSettles, Failures
  <2>2. QED
    BY <1>11, <2>1, SettlesType DEF CloseSettles, TypeOK
<1>12. ASSUME NEW c \in Callers, CleanupEnds(c)
       PROVE  TypeOK'
  <2>1. saved[c] \in Endings
    BY DEF TypeOK
  <2>2. CallersTyped'
    BY <1>12, <2>1, EndsType DEF CleanupEnds
  <2>3. QED
    BY <1>12, <2>2 DEF CleanupEnds, clientVars, serverVars, TypeOK, CallersTyped
<1>13. ASSUME NEW k \in Keys, ServeCreate(k)
       PROVE  TypeOK'
  <2>1. CASE Stores(k, "active", None) /\ runs' = [runs EXCEPT ![k] = "active"]
    BY <1>13, <2>1, StoresType, RepliesTyped DEF ServeCreate, TypeOK
  <2>2. CASE Stores(k, "inactive", None) /\ UNCHANGED runs
    BY <1>13, <2>2, StoresType, RepliesTyped DEF ServeCreate, TypeOK
  <2>3. QED
    BY <1>13, <2>1, <2>2 DEF ServeCreate
<1>14. ASSUME NEW k \in Keys, ServeLease(k)
       PROVE  TypeOK'
  <2>1. CASE leased # Tasks
    BY <1>14, <2>1, StoresType, RepliesTyped, NextTaskIsNew DEF ServeLease, TypeOK
  <2>2. CASE leased = Tasks
    BY <1>14, <2>2, StoresType, RepliesTyped DEF ServeLease, TypeOK
  <2>3. QED
    BY <2>1, <2>2
<1>15. ASSUME NEW k \in Keys, ServeClose(k)
       PROVE  TypeOK'
  BY <1>15, StoresType, RepliesTyped DEF ServeClose, TypeOK
<1>16. CASE UNCHANGED vars
  BY <1>16 DEF TypeOK, vars, callerVars, clientVars, serverVars
<1>17. QED
  BY <1>1, <1>2, <1>3, <1>4, <1>5, <1>6, <1>7, <1>8, <1>9, <1>10, <1>11,
     <1>12, <1>13, <1>14, <1>15, <1>16
     DEF Next, Begin, Settle, Serve

\* The variables of the client keep their types for any number of callers,
\* identifiers and tasks, and an open client has a run.
THEOREM TypeCorrect == Spec => []TypeOK
<1>1. TypeOK /\ [Next]_vars => TypeOK'
  BY TypeStep
<1>2. QED
  BY TypeInit, <1>1, PTL DEF Spec

----
(* The inductive invariant *)

LEMMA InvInit == Init => IInv
<1> SUFFICES ASSUME Init
             PROVE  IInv
  OBVIOUS
<1>1. TypeOK
  BY TypeInit
<1>2. QED
  BY <1>1
     DEF Init, IInv, Busy, BusyHoldsLock, AwaitsOwnRequest, OpenIsAwaited,
         PlaceFitsState, NewIsEmpty, ShutIsQuiet, ClosedGetsShut, Used,
         OneRunPerClient, Unused, CreateIsFirst, CloseIsLast, CloseIsSent,
         RunIsAnswered, ActiveIsKept, UnusedIsUnserved, AnsweredIsServed,
         RepliesFit, ActiveIsServed, CloseCloses, TaskLostOnlyByFailure,
         AcloseReturnsAfterCleanup

\* Beside the owner of the lock nobody is in an RPC, nor has an identifier.
LEMMA OthersAreQuiet ==
    ASSUME IInv, NEW c \in Callers, Holds(lock, c), NEW d \in Callers, d # c
    PROVE  pc[d] \notin Busy /\ key[d] = None
BY OneOwner DEF IInv, TypeOK, BusyHoldsLock, Busy

\* Whoever ends leaves the other callers where they are.
LEMMA EndsKeepsOthers ==
    ASSUME IInv, NEW c \in Callers, NEW e, Ends(c, e),
           NEW d \in Callers, d # c
    PROVE  /\ pc'[d] = pc[d] /\ key'[d] = key[d] /\ op'[d] = op[d]
           /\ outcome'[d] = outcome[d]
           /\ Holds(lock, d) => Holds(lock', d)
BY LeaveKeepsOwner DEF IInv, TypeOK, Ends, Releases

\* A method that ends outside of an RPC preserves the invariant, provided that an
\* aclose that returns has found the client closed.
LEMMA EndsLocallyInv ==
    ASSUME IInv, NEW c \in Callers, pc[c] \in AtLock \cup {"cleaning"},
           NEW e \in Endings,
           EndsLocally(c, e),
           op[c] = "aclose" /\ e = "returned" =>
               state = "closed" /\ Holds(lock, c)
    PROVE  IInv'
<1> USE DEF EndsLocally, clientVars, serverVars
<1>1. TypeOK'
  BY EndsLocallyType DEF IInv
<1>2. Ends(c, e) /\ pc'[c] = "idle" /\ key[c] = None
  BY DEF Ends, IInv, TypeOK
<1>3. BusyHoldsLock'
  BY <1>2, EndsKeepsOthers DEF IInv, BusyHoldsLock, Busy
<1>4. AwaitsOwnRequest' /\ PlaceFitsState'
  BY <1>2, EndsKeepsOthers DEF IInv, AwaitsOwnRequest, PlaceFitsState
<1>5. OpenIsAwaited'
  <2> SUFFICES ASSUME NEW k \in Keys, fate[k] = "open"
               PROVE  \E d \in Callers : key'[d] = k
    BY DEF OpenIsAwaited
  <2>1. PICK d \in Callers : key[d] = k
    BY DEF IInv, OpenIsAwaited
  <2>2. d # c
    BY <1>2, <2>1, ClientAssumption
  <2>3. QED
    BY <1>2, <2>1, <2>2, EndsKeepsOthers
<1>6. ShutIsQuiet'
  BY <1>2, EndsKeepsOthers DEF IInv, ShutIsQuiet, Ends, TypeOK
<1>7. ClosedGetsShut' /\ CreateIsFirst'
  BY <1>2, EndsKeepsOthers DEF IInv, ClosedGetsShut, CreateIsFirst, Used
<1>8. AcloseReturnsAfterCleanup'
  <2> SUFFICES ASSUME NEW d \in Callers, op'[d] = "aclose", pc'[d] = "idle",
                      outcome'[d] = "returned"
               PROVE  /\ state = "closed"
                      /\ \A k \in Keys : fate[k] # "open"
                      /\ \A b \in Callers : pc'[b] # "cleaning"
                      /\ owned => shut
    BY DEF AcloseReturnsAfterCleanup
  <2>1. CASE d # c
    BY <1>2, <2>1, EndsKeepsOthers DEF IInv, AcloseReturnsAfterCleanup
  <2>2. CASE d = c
    <3>1. state = "closed" /\ Holds(lock, c)
      BY <1>2, <2>2 DEF Ends, Surfaces, IInv, TypeOK
    <3>2. \A k \in Keys : fate[k] # "open"
      BY <1>2, <3>1, OthersAreQuiet, ClientAssumption DEF IInv, OpenIsAwaited
    <3>3. \A b \in Callers : b # c => pc'[b] = pc[b] /\ pc[b] \notin Busy
      BY <1>2, <3>1, OthersAreQuiet, EndsKeepsOthers
    <3>4. \A b \in Callers : pc[b] # "closing" /\ pc'[b] # "cleaning"
      BY <1>2, <3>3 DEF Busy
    <3>5. QED
      BY <3>1, <3>2, <3>4 DEF IInv, ClosedGetsShut
  <2>3. QED
    BY <2>1, <2>2
<1>9. QED
  BY <1>1, <1>3, <1>4, <1>5, <1>6, <1>7, <1>8
     DEF IInv, NewIsEmpty, OneRunPerClient, Unused, CloseIsLast, CloseIsSent,
         Used, RunIsAnswered, ActiveIsKept, UnusedIsUnserved, AnsweredIsServed,
         RepliesFit, ActiveIsServed, CloseCloses, TaskLostOnlyByFailure

\* The end of an RPC leaves nobody in an RPC, and no request open.
LEMMA SettlesQuiet ==
    ASSUME IInv, NEW c \in Callers, pc[c] \in InRpc,
           NEW f \in {"answered", "abandoned"}, Settles(c, f),
           NEW e \in Endings, Ends(c, e) \/ Cleans(c, e)
    PROVE  /\ key[c] \in Keys /\ fate[key[c]] = "open"
           /\ method[key[c]] = RpcAt[pc[c]] /\ Holds(lock, c)
           /\ \A k \in Keys : fate'[k] = IF k = key[c] THEN f ELSE fate[k]
           /\ \A k \in Keys : fate'[k] # "open"
           /\ \A d \in Callers : key'[d] = None /\ pc'[d] \notin InRpc
           /\ \A d \in Callers : pc'[d] = "cleaning" => shut' /\ Holds(lock', d)
           /\ \A d \in Callers : d # c =>
                 op'[d] = op[d] /\ outcome'[d] = outcome[d] /\ pc'[d] = pc[d]
<1>1. /\ key[c] \in Keys /\ fate[key[c]] = "open"
      /\ method[key[c]] = RpcAt[pc[c]] /\ Holds(lock, c)
  BY DEF IInv, TypeOK, AwaitsOwnRequest, BusyHoldsLock, Busy
<1>2. \A k \in Keys : fate'[k] = IF k = key[c] THEN f ELSE fate[k]
  BY DEF Settles, IInv, TypeOK
<1>3. \A k \in Keys : fate[k] = "open" => k = key[c]
  BY <1>1, OthersAreQuiet, ClientAssumption DEF IInv, OpenIsAwaited
<1>4. /\ key'[c] = None /\ pc'[c] \notin InRpc
      /\ pc'[c] = "cleaning" => shut' /\ Holds(lock', c)
  BY <1>1 DEF Ends, Cleans, IInv, TypeOK
<1>5. ASSUME NEW d \in Callers, d # c
      PROVE  /\ pc'[d] = pc[d] /\ key'[d] = key[d]
             /\ op'[d] = op[d] /\ outcome'[d] = outcome[d]
  BY <1>5, EndsKeepsOthers DEF Cleans, IInv, TypeOK
<1>6. \A d \in Callers : d # c => pc'[d] \notin Busy /\ key'[d] = None
  BY <1>1, <1>5, OthersAreQuiet
<1>7. QED
  BY <1>1, <1>2, <1>3, <1>4, <1>5, <1>6 DEF Busy

\* What the client may make of the end of an RPC: a run is kept only if its
\* CreateRun answered it, a client without a run is closed, the transport is
\* shut with a client that is closed, and an aclose returns only then.
SettlesWell(c, f) ==
    /\ pc[c] = "creating" => state' \in {"open", "closed"}
    /\ pc[c] # "creating" => UNCHANGED <<state, run>>
    /\ run' # run => run' = key[c] /\ f = "answered" /\ state' = "open"
    /\ shut' => state' = "closed" /\ owned
    /\ state' = "closed" /\ owned => shut'
    /\ op[c] = "aclose" /\ pc'[c] = "idle" /\ outcome'[c] = "returned" =>
            state' = "closed"
    /\ handed \subseteq handed'
    /\ f = "answered" =>
        /\ reply[key[c]] # None
        /\ reply[key[c]].kind = "active" => run' = key[c]
        /\ reply[key[c]].kind = "task" => reply[key[c]].task \in handed'

LEMMA SettlesInv ==
    ASSUME IInv, NEW c \in Callers, pc[c] \in InRpc,
           NEW f \in {"answered", "abandoned"}, Settles(c, f),
           NEW e \in Endings, Ends(c, e) \/ Cleans(c, e),
           SettlesWell(c, f), UNCHANGED owned, TypeOK'
    PROVE  IInv'
<1> USE DEF serverVars
<1>0. /\ UNCHANGED <<method, reply, runs, leased, owned>>
      /\ key[c] \in Keys /\ fate[key[c]] = "open"
      /\ method[key[c]] = RpcAt[pc[c]] /\ Holds(lock, c)
  BY SettlesQuiet DEF Settles
<1>1. \A k \in Keys : fate'[k] = IF k = key[c] THEN f ELSE fate[k]
  BY SettlesQuiet
<1>2. \A k \in Keys : fate'[k] = "unused" <=> fate[k] = "unused"
  BY <1>0, <1>1
<1>3. pc[c] = "creating" => run = None
  BY DEF IInv, PlaceFitsState, NewIsEmpty
<1>4. BusyHoldsLock' /\ AwaitsOwnRequest' /\ OpenIsAwaited' /\ PlaceFitsState'
  BY SettlesQuiet
     DEF Busy, BusyHoldsLock, AwaitsOwnRequest, OpenIsAwaited, PlaceFitsState
<1>5. NewIsEmpty' /\ CloseIsLast' /\ CloseIsSent'
  BY <1>0, <1>2, <1>3
     DEF SettlesWell, IInv, PlaceFitsState, NewIsEmpty, CloseIsLast, CloseIsSent,
         Used
<1>6. ShutIsQuiet' /\ ClosedGetsShut'
  BY <1>0, SettlesQuiet DEF SettlesWell, ShutIsQuiet, ClosedGetsShut
<1>7. OneRunPerClient'
  BY <1>0, <1>2 DEF IInv, OneRunPerClient, Unused
<1>8. CreateIsFirst'
  <2>1. CASE pc[c] = "creating"
    BY <2>1 DEF SettlesWell, CreateIsFirst
  <2>2. CASE pc[c] # "creating"
    <3>1. \A d \in Callers : pc[d] # "creating"
      BY <1>0, <2>2, OthersAreQuiet DEF Busy
    <3>2. QED
      BY <1>0, <1>2, <2>2, <3>1 DEF SettlesWell, IInv, CreateIsFirst, Used
  <2>3. QED
    BY <2>1, <2>2
<1>9. RunIsAnswered' /\ ActiveIsKept'
  <2>1. run # None => run' = run
    BY <1>3 DEF SettlesWell
  <2>2. run # None => run # key[c] /\ fate'[run] = "answered"
    BY <1>0, <1>1 DEF IInv, RunIsAnswered, TypeOK
  <2>3. run' # run => method[key[c]] = "CreateRun"
    BY <1>0 DEF SettlesWell, RpcAt
  <2>4. RunIsAnswered'
    BY <1>0, <1>1, <2>1, <2>2, <2>3 DEF SettlesWell, IInv, RunIsAnswered
  <2>5. ActiveIsKept'
    BY <1>0, <1>1, <2>1, ClientAssumption DEF SettlesWell, IInv, ActiveIsKept
  <2>6. QED
    BY <2>4, <2>5
<1>10. UnusedIsUnserved' /\ AnsweredIsServed'
  BY <1>0, <1>1, <1>2
     DEF SettlesWell, IInv, UnusedIsUnserved, AnsweredIsServed
<1>11. RepliesFit' /\ ActiveIsServed'
  BY <1>0 DEF IInv, RepliesFit, ActiveIsServed
<1>12. CloseCloses'
  <2>1. ASSUME NEW k \in Keys, reply[k] # None, method[k] = "CloseRun"
        PROVE  run' = run
    BY <2>1
       DEF SettlesWell, IInv, UnusedIsUnserved, CloseIsLast, Used, PlaceFitsState
  <2>2. QED
    BY <1>0, <2>1 DEF IInv, CloseCloses
<1>13. TaskLostOnlyByFailure'
  BY <1>0, <1>1 DEF SettlesWell, IInv, TaskLostOnlyByFailure
<1>14. AcloseReturnsAfterCleanup'
  <2> SUFFICES ASSUME NEW d \in Callers, op'[d] = "aclose", pc'[d] = "idle",
                      outcome'[d] = "returned"
               PROVE  state' = "closed" /\ \A b \in Callers : pc'[b] # "cleaning"
    BY SettlesQuiet DEF AcloseReturnsAfterCleanup, SettlesWell
  <2>1. CASE d = c
    <3>1. state' = "closed"
      BY <2>1 DEF SettlesWell, Ends, Cleans
    <3>2. \A b \in Callers : b # c => pc'[b] # "cleaning"
      BY <1>0, OthersAreQuiet, SettlesQuiet DEF Busy
    <3>3. QED
      BY <2>1, <3>1, <3>2
  <2>2. CASE d # c
    BY <1>0, <2>2, SettlesQuiet DEF IInv, AcloseReturnsAfterCleanup
  <2>3. QED
    BY <2>1, <2>2
<1>15. QED
  BY <1>4, <1>5, <1>6, <1>7, <1>8, <1>9, <1>10, <1>11, <1>12, <1>13, <1>14
     DEF IInv

\* The states in which a client may start an RPC, and what it is then.
SendsWell(c, place) ==
    /\ place = "creating" => state = "new" /\ state' = "new" /\ op[c] = "open"
    /\ place = "leasing" =>
        state = "open" /\ state' = "open" /\ op[c] = "start_task"
    /\ place = "closing" => state # "closed" /\ state' = "closed" /\ run # None

LEMMA SendsInv ==
    ASSUME IInv, NEW c \in Callers, pc[c] \in AtLock, Holds(lock, c),
           NEW place \in InRpc, Sends(c, RpcAt[place], place),
           SendsWell(c, place), UNCHANGED <<run, owned, shut, handed>>
    PROVE  IInv'
<1> USE DEF serverVars
<1>0. state # "closed" /\ ~shut /\ TypeOK
  BY DEF SendsWell, IInv, ShutIsQuiet
<1>1. TypeOK'
  <2>1. RpcAt[place] \in Rpcs
    BY DEF RpcAt, Rpcs
  <2>2. state' \in {"new", "open", "closed"} /\ (state' = "open" => run # None)
    BY <1>0 DEF SendsWell, TypeOK
  <2>3. QED
    BY <1>0, <2>1, <2>2, SendsType
<1>2. /\ Fresh \in Keys /\ fate[Fresh] = "unused" /\ reply[Fresh] = None
      /\ \A k \in Keys : fate'[k] = IF k = Fresh THEN "open" ELSE fate[k]
      /\ \A k \in Keys :
            method'[k] = IF k = Fresh THEN RpcAt[place] ELSE method[k]
  BY FreshIsUnused DEF Sends, IInv, TypeOK, UnusedIsUnserved
<1>3. /\ pc'[c] = place /\ key'[c] = Fresh /\ key[c] = None
      /\ \A d \in Callers : d # c => pc'[d] = pc[d] /\ key'[d] = key[d]
      /\ \A d \in Callers : d # c => pc[d] \notin Busy /\ key[d] = None
      /\ UNCHANGED <<op, outcome, lock, reply, runs>>
  BY OthersAreQuiet DEF Sends, IInv, TypeOK
<1>4. \A k \in Keys : fate[k] # "open"
  BY <1>3, ClientAssumption DEF IInv, OpenIsAwaited
<1>5. BusyHoldsLock' /\ AwaitsOwnRequest' /\ OpenIsAwaited' /\ PlaceFitsState'
  BY <1>0, <1>2, <1>3, <1>4
     DEF Busy, BusyHoldsLock, AwaitsOwnRequest, OpenIsAwaited, PlaceFitsState,
         SendsWell
<1>6. NewIsEmpty' /\ ShutIsQuiet'
  BY <1>0 DEF IInv, NewIsEmpty, ShutIsQuiet, SendsWell
<1>7. ClosedGetsShut' /\ CreateIsFirst'
  BY <1>0, <1>3 DEF ClosedGetsShut, CreateIsFirst, SendsWell
<1>8. \A k \in Keys : Used(k, "CreateRun") => state # "new"
  BY <1>3 DEF IInv, CreateIsFirst, Busy
<1>9. \A k \in Keys : ~Used(k, "CloseRun")
  BY <1>0 DEF IInv, CloseIsLast
<1>10. OneRunPerClient'
  <2> SUFFICES ASSUME NEW k \in Keys, NEW l \in Keys,
                      fate'[k] # "unused", fate'[l] # "unused", k # l,
                      method'[k] = method'[l]
               PROVE  method'[k] = "LeaseTask"
    BY DEF OneRunPerClient, Unused
  <2>1. CASE k # Fresh /\ l # Fresh
    BY <1>2, <2>1 DEF IInv, OneRunPerClient, Unused
  <2>2. ASSUME NEW m \in Keys, m # Fresh, fate[m] # "unused",
               method[m] = RpcAt[place]
        PROVE  place = "leasing"
    BY <1>8, <1>9, <2>2 DEF Used, SendsWell, RpcAt
  <2>3. CASE k = Fresh \/ l = Fresh
    BY <1>2, <2>2, <2>3 DEF RpcAt
  <2>4. QED
    BY <2>1, <2>3
<1>11. CloseIsLast' /\ CloseIsSent'
  BY <1>0, <1>2, <1>9
     DEF CloseIsLast, CloseIsSent, Used, SendsWell, RpcAt
<1>12. RunIsAnswered' /\ ActiveIsKept'
  BY <1>2, <1>3 DEF IInv, RunIsAnswered, ActiveIsKept, TypeOK
<1>13. /\ UnusedIsUnserved' /\ AnsweredIsServed' /\ RepliesFit'
       /\ ActiveIsServed' /\ CloseCloses' /\ TaskLostOnlyByFailure'
  BY <1>2, <1>3
     DEF IInv, UnusedIsUnserved, AnsweredIsServed, RepliesFit, ActiveIsServed,
         CloseCloses, TaskLostOnlyByFailure
<1>14. AcloseReturnsAfterCleanup'
  BY <1>0, <1>3 DEF IInv, AcloseReturnsAfterCleanup
<1>15. QED
  BY <1>1, <1>5, <1>6, <1>7, <1>10, <1>11, <1>12, <1>13, <1>14 DEF IInv

\* Serving a request preserves the invariant, provided that the reply fits the
\* request and the run becomes what the reply says.
LEMMA StoresInv ==
    ASSUME IInv, NEW k \in Keys, Pending(k), NEW kind, NEW t,
           Stores(k, kind, t), [kind |-> kind, task |-> t] \in Replies, TypeOK',
           kind \in {"active", "inactive"} => method[k] = "CreateRun",
           kind \in {"task", "exhausted"} => method[k] = "LeaseTask",
           kind = "closed" => method[k] = "CloseRun",
           \/ UNCHANGED runs /\ method[k] # "CloseRun"
           \/ kind = "active" /\ runs' = [runs EXCEPT ![k] = "active"]
           \/ kind = "closed" /\ runs' = [runs EXCEPT ![run] = "closed"]
    PROVE  IInv'
<1> USE DEF Stores, callerVars, clientVars
<1>1. /\ UNCHANGED <<pc, op, key, saved, outcome, lock, state, run, owned, shut,
                     handed, fate, method>>
      /\ reply[k] = None /\ reply'[k] = [kind |-> kind, task |-> t]
      /\ \A l \in Keys : l # k => reply'[l] = reply[l]
      /\ fate[k] # "unused" /\ fate[k] # "answered"
  BY DEF Pending, IInv, TypeOK, AnsweredIsServed
<1>2. /\ BusyHoldsLock' /\ AwaitsOwnRequest' /\ OpenIsAwaited'
      /\ PlaceFitsState' /\ NewIsEmpty' /\ ShutIsQuiet' /\ ClosedGetsShut'
  BY <1>1
     DEF IInv, BusyHoldsLock, AwaitsOwnRequest, OpenIsAwaited, PlaceFitsState,
         NewIsEmpty, ShutIsQuiet, ClosedGetsShut
<1>3. /\ OneRunPerClient' /\ CreateIsFirst' /\ CloseIsLast' /\ CloseIsSent'
      /\ AcloseReturnsAfterCleanup'
  BY <1>1
     DEF IInv, OneRunPerClient, Unused, CreateIsFirst, CloseIsLast, CloseIsSent,
         Used, AcloseReturnsAfterCleanup
<1>4. reply'[k] # None
  BY <1>1, ClientAssumption
<1>5. /\ RunIsAnswered' /\ ActiveIsKept' /\ UnusedIsUnserved'
      /\ AnsweredIsServed' /\ TaskLostOnlyByFailure'
  BY <1>1
     DEF IInv, TypeOK, RunIsAnswered, ActiveIsKept, UnusedIsUnserved,
         AnsweredIsServed, TaskLostOnlyByFailure
<1>6. RepliesFit'
  BY <1>1 DEF IInv, RepliesFit
<1>7. ActiveIsServed'
  BY <1>1, <1>4 DEF IInv, TypeOK, ActiveIsServed
<1>8. CloseCloses'
  <2> SUFFICES ASSUME NEW l \in Keys, reply'[l] # None, method[l] = "CloseRun"
               PROVE  runs'[run] = "closed"
    BY <1>1 DEF CloseCloses
  <2>1. run \in Keys /\ (run # k \/ kind = "closed")
    BY <1>1 DEF IInv, TypeOK, CloseIsLast, Used, UnusedIsUnserved, RunIsAnswered
  <2>2. CASE l # k
    BY <1>1, <2>1, <2>2 DEF IInv, TypeOK, CloseCloses
  <2>3. CASE l = k
    BY <2>1, <2>3 DEF IInv, TypeOK
  <2>4. QED
    BY <2>2, <2>3
<1>9. QED
  BY <1>2, <1>3, <1>5, <1>6, <1>7, <1>8 DEF IInv

\* The exceptions of a cleanup that becomes a normal return: none but in aexit.
LEMMA EndsOutcome ==
    ASSUME IInv, NEW c \in Callers, NEW e, Ends(c, e)
    PROVE  /\ pc'[c] = "idle" /\ op'[c] = op[c]
           /\ op[c] = "aclose" => outcome'[c] = e
BY DEF Ends, Surfaces, IInv, TypeOK

LEMMA CleansOutcome ==
    ASSUME IInv, NEW c \in Callers, NEW e, Cleans(c, e)
    PROVE  /\ owned => pc'[c] = "cleaning" /\ shut'
           /\ ~owned => Ends(c, e) /\ shut' = shut
BY DEF Cleans, IInv, TypeOK

\* Every step of the callers and of the server preserves the invariant.
LEMMA InvStep ==
    ASSUME IInv, [Next]_vars
    PROVE  IInv'
<1> USE DEF Endings
<1>0. TypeOK /\ TypeOK'
  BY TypeStep DEF IInv
<1>1. ASSUME NEW c \in Callers, NEW m \in Methods, Enter(c, m)
      PROVE  IInv'
  <2>1. /\ pc[c] = "idle" /\ pc'[c] \in AtLock /\ key[c] = None
        /\ \A d \in Callers : d # c => pc'[d] = pc[d] /\ op'[d] = op[d]
        /\ \A d \in Callers : Holds(lock, d) => Holds(lock', d)
    BY <1>0, <1>1, EnqueueKeepsOwner DEF Enter, Arrival, TypeOK
  <2>2. /\ UNCHANGED <<key, outcome, state, run, owned, shut, handed>>
        /\ UNCHANGED <<fate, method, reply, runs>>
    BY <1>1 DEF Enter, clientVars, serverVars
  <2>3. /\ BusyHoldsLock' /\ AwaitsOwnRequest' /\ OpenIsAwaited'
        /\ PlaceFitsState' /\ ShutIsQuiet' /\ ClosedGetsShut'
        /\ CreateIsFirst' /\ AcloseReturnsAfterCleanup'
    BY <2>1, <2>2
       DEF IInv, Busy, BusyHoldsLock, AwaitsOwnRequest, OpenIsAwaited,
           PlaceFitsState, ShutIsQuiet, ClosedGetsShut, CreateIsFirst, Used,
           AcloseReturnsAfterCleanup
  <2>4. QED
    BY <1>0, <2>2, <2>3
       DEF IInv, NewIsEmpty, OneRunPerClient, Unused, CloseIsLast, CloseIsSent,
           Used, RunIsAnswered, ActiveIsKept, UnusedIsUnserved,
           AnsweredIsServed, RepliesFit, ActiveIsServed, CloseCloses,
           TaskLostOnlyByFailure
<1>2. ASSUME NEW c \in Callers,
             ReturnExisting(c) \/ RejectReopen(c) \/ RejectMetadata(c)
                \/ RejectLease(c) \/ AlreadyClosed(c) \/ CancelWaiting(c)
      PROVE  IInv'
  BY <1>2, EndsLocallyInv
     DEF ReturnExisting, RejectReopen, RejectMetadata, RejectLease,
         AlreadyClosed, CancelWaiting, Proceeds
<1>3. ASSUME NEW c \in Callers, CloseUnopened(c)
      PROVE  IInv'
  <2> USE DEF serverVars
  <2>1. /\ pc[c] \in AtLock /\ Holds(lock, c) /\ key[c] = None
        /\ state # "closed" /\ ~shut /\ state' = "closed" /\ run = None
        /\ Cleans(c, "returned")
        /\ UNCHANGED <<run, owned, handed, fate, method, reply, runs>>
    BY <1>0, <1>3
       DEF CloseUnopened, Proceeds, MarksClosed, TypeOK, IInv, ShutIsQuiet
  <2>2. \A d \in Callers : d # c =>
            /\ pc[d] \notin Busy /\ key[d] = None
            /\ pc'[d] = pc[d] /\ key'[d] = key[d] /\ op'[d] = op[d]
            /\ outcome'[d] = outcome[d]
    BY <1>0, <2>1, OthersAreQuiet, EndsKeepsOthers DEF Cleans, TypeOK
  <2>3. /\ key'[c] = None /\ pc'[c] \in {"idle", "cleaning"}
        /\ pc'[c] = "cleaning" => shut' /\ UNCHANGED lock
        /\ owned <=> shut'
    BY <1>0, <2>1 DEF Cleans, Ends, TypeOK
  <2>4. \A k \in Keys : fate[k] # "open"
    BY <2>1, <2>2, ClientAssumption DEF IInv, OpenIsAwaited
  <2>5. /\ BusyHoldsLock' /\ AwaitsOwnRequest' /\ OpenIsAwaited'
        /\ PlaceFitsState' /\ ShutIsQuiet' /\ ClosedGetsShut'
        /\ AcloseReturnsAfterCleanup'
    BY <2>1, <2>2, <2>3, <2>4
       DEF IInv, Busy, BusyHoldsLock, AwaitsOwnRequest, OpenIsAwaited,
           PlaceFitsState, ShutIsQuiet, ClosedGetsShut,
           AcloseReturnsAfterCleanup
  <2>6. QED
    BY <1>0, <2>1, <2>5
       DEF IInv, NewIsEmpty, OneRunPerClient, Unused, CreateIsFirst,
           CloseIsLast, CloseIsSent, Used, RunIsAnswered, ActiveIsKept,
           UnusedIsUnserved, AnsweredIsServed, RepliesFit, ActiveIsServed,
           CloseCloses, TaskLostOnlyByFailure
<1>4. ASSUME NEW c \in Callers, SendCreate(c) \/ SendLease(c) \/ SendClose(c)
      PROVE  IInv'
  <2> USE DEF Proceeds, SendsWell, RpcAt
  <2>1. CASE SendCreate(c)
    BY <2>1, SendsInv DEF SendCreate, clientVars
  <2>2. CASE SendLease(c)
    BY <2>2, SendsInv DEF SendLease, IsOpen, clientVars
  <2>3. CASE SendClose(c)
    BY <2>3, SendsInv DEF SendClose, MarksClosed
  <2>4. QED
    BY <1>4, <2>1, <2>2, <2>3
<1>5. ASSUME NEW c \in Callers, ReceiveRun(c)
      PROVE  IInv'
  <2>1. /\ pc[c] = "creating" /\ state = "new" /\ op[c] = "open" /\ ~shut
        /\ pc[c] \in InRpc
    BY <1>5 DEF ReceiveRun, IInv, PlaceFitsState, ShutIsQuiet
  <2>2. SettlesWell(c, "answered")
    BY <1>5, <2>1 DEF ReceiveRun, Keeps, SettlesWell
  <2>3. QED
    BY <1>0, <1>5, <2>1, <2>2, SettlesInv DEF ReceiveRun
<1>6. ASSUME NEW c \in Callers, FailCreate(c)
      PROVE  IInv'
  <2>1. PICK f \in {"answered", "abandoned"}, e \in Failures :
            /\ Settles(c, f) /\ GivesUp(c, e)
            /\ f = "answered" =>
                   reply[key[c]] # None /\ reply[key[c]].kind = "inactive"
    BY <1>6 DEF FailCreate, Failures
  <2>2. /\ pc[c] \in InRpc /\ state = "new" /\ op[c] = "open" /\ ~shut
        /\ Cleans(c, e) /\ e \in Endings
        /\ UNCHANGED <<run, owned, handed>>
    BY <1>6, <2>1
       DEF FailCreate, GivesUp, Failures, IInv, PlaceFitsState, ShutIsQuiet
  <2>3. SettlesWell(c, f)
    BY <1>6, <2>1, <2>2, CleansOutcome DEF FailCreate, GivesUp, SettlesWell
  <2>4. QED
    BY <1>0, <2>1, <2>2, <2>3, SettlesInv
<1>7. ASSUME NEW c \in Callers,
             ReceiveTask(c) \/ ReceiveExhausted(c) \/ FailLease(c)
      PROVE  IInv'
  <2>1. /\ pc[c] = "leasing" /\ state = "open" /\ op[c] = "start_task" /\ ~shut
        /\ pc[c] \in InRpc
    BY <1>7
       DEF ReceiveTask, ReceiveExhausted, FailLease, IInv, PlaceFitsState,
           ShutIsQuiet
  <2>2. CASE ReceiveTask(c)
    <3>1. SettlesWell(c, "answered")
      BY <2>1, <2>2 DEF ReceiveTask, HandsOut, SettlesWell
    <3>2. QED
      BY <1>0, <2>1, <2>2, <3>1, SettlesInv DEF ReceiveTask
  <2>3. CASE ReceiveExhausted(c)
    <3>1. SettlesWell(c, "answered")
      BY <2>1, <2>3 DEF ReceiveExhausted, clientVars, SettlesWell
    <3>2. QED
      BY <1>0, <2>1, <2>3, <3>1, SettlesInv DEF ReceiveExhausted, clientVars
  <2>4. CASE FailLease(c)
    <3>1. SettlesWell(c, "abandoned")
      BY <2>1, <2>4 DEF FailLease, clientVars, SettlesWell
    <3>2. QED
      BY <1>0, <2>1, <2>4, <3>1, SettlesInv DEF FailLease, Failures, clientVars
  <2>5. QED
    BY <1>7, <2>2, <2>3, <2>4
<1>8. ASSUME NEW c \in Callers, CloseSettles(c)
      PROVE  IInv'
  <2>1. PICK f \in {"answered", "abandoned"}, e \in Endings :
            /\ Settles(c, f) /\ Cleans(c, e)
            /\ f = "answered" => reply[key[c]] # None
    BY <1>8 DEF CloseSettles, Failures
  <2>2. /\ pc[c] \in InRpc /\ pc[c] # "creating"
        /\ state = "closed" /\ ~shut /\ key[c] \in Keys
        /\ UNCHANGED <<state, run, owned, handed>>
        /\ method[key[c]] = "CloseRun"
    BY <1>0, <1>8
       DEF CloseSettles, IInv, PlaceFitsState, AwaitsOwnRequest, RpcAt, TypeOK
  <2>3. SettlesWell(c, f)
    BY <2>1, <2>2, CleansOutcome DEF SettlesWell, IInv, RepliesFit
  <2>4. QED
    BY <1>0, <2>1, <2>2, <2>3, SettlesInv
<1>9. ASSUME NEW c \in Callers, CleanupEnds(c)
      PROVE  IInv'
  <2>1. PICK e \in Endings : EndsLocally(c, e)
    <3>1. saved[c] \in Endings
      BY <1>0 DEF TypeOK, CallersTyped
    <3>2. \E e \in Endings : Ends(c, e)
      BY <1>9, <3>1 DEF CleanupEnds
    <3>3. UNCHANGED <<clientVars, fate, method, serverVars>>
      BY <1>9 DEF CleanupEnds
    <3>4. QED
      BY <3>2, <3>3 DEF EndsLocally
  <2>2. pc[c] = "cleaning" /\ state = "closed" /\ Holds(lock, c)
    BY <1>9
       DEF CleanupEnds, IInv, PlaceFitsState, ShutIsQuiet, BusyHoldsLock, Busy
  <2>3. QED
    BY <2>1, <2>2, EndsLocallyInv
<1>10. ASSUME NEW k \in Keys, ServeCreate(k)
       PROVE  IInv'
  BY <1>0, <1>10, StoresInv, RepliesTyped DEF ServeCreate
<1>11. ASSUME NEW k \in Keys, ServeLease(k)
       PROVE  IInv'
  <2>1. CASE leased # Tasks
    BY <1>0, <1>11, <2>1, StoresInv, RepliesTyped, NextTaskIsNew
       DEF ServeLease, TypeOK
  <2>2. CASE leased = Tasks
    BY <1>0, <1>11, <2>2, StoresInv, RepliesTyped DEF ServeLease
  <2>3. QED
    BY <2>1, <2>2
<1>12. ASSUME NEW k \in Keys, ServeClose(k)
       PROVE  IInv'
  BY <1>0, <1>12, StoresInv, RepliesTyped DEF ServeClose
<1>13. CASE UNCHANGED vars
  BY <1>0, <1>13
     DEF vars, callerVars, clientVars, serverVars, IInv, BusyHoldsLock,
         AwaitsOwnRequest, OpenIsAwaited, PlaceFitsState, NewIsEmpty,
         ShutIsQuiet, ClosedGetsShut, OneRunPerClient, Unused, CreateIsFirst,
         CloseIsLast, CloseIsSent, Used, RunIsAnswered, ActiveIsKept,
         UnusedIsUnserved, AnsweredIsServed, RepliesFit, ActiveIsServed,
         CloseCloses, TaskLostOnlyByFailure, AcloseReturnsAfterCleanup
<1>14. QED
  BY <1>1, <1>2, <1>3, <1>4, <1>5, <1>6, <1>7, <1>8, <1>9, <1>10, <1>11,
     <1>12, <1>13
     DEF Next, Begin, Settle, Serve

LEMMA Invariant == Spec => []IInv
<1>1. IInv /\ [Next]_vars => IInv'
  BY InvStep
<1>2. QED
  BY InvInit, <1>1, PTL DEF Spec

----
(* The theorems *)

\* However open and aclose interleave and fail, a client sends one CreateRun and
\* one CloseRun at most.
THEOREM ClientOwnsOneRun == Spec => []OneRunPerClient
<1>1. IInv => OneRunPerClient
  BY DEF IInv
<1>2. QED
  BY Invariant, <1>1, PTL

\* While nobody holds the lock, every request of the client is settled.
LEMMA UnlockedIsSettled ==
    ASSUME IInv, lock = << >>
    PROVE  \A k \in Keys : fate[k] # "open"
<1>1. \A c \in Callers : key[c] = None
  BY DEF IInv, TypeOK, BusyHoldsLock, Busy, Holds
<1>2. QED
  BY <1>1, ClientAssumption DEF IInv, OpenIsAwaited

\* A closed and idle client has left a run active only because its CreateRun or
\* its CloseRun was lost.
THEOREM ClientLeaksRunOnlyByFailure == Spec => []RunLeakedOnlyByFailure
<1>1. IInv => RunLeakedOnlyByFailure
  <2> SUFFICES ASSUME IInv, state = "closed", lock = << >>,
                      NEW k \in Keys, runs[k] = "active"
               PROVE  \E l \in Keys : fate[l] = "abandoned" /\ method[l] # "LeaseTask"
    BY DEF RunLeakedOnlyByFailure
  <2>1. /\ reply[k] # None /\ reply[k].kind = "active"
        /\ method[k] = "CreateRun" /\ fate[k] # "unused"
    BY DEF IInv, ActiveIsServed, RepliesFit, UnusedIsUnserved
  <2>2. \A l \in Keys : fate[l] \in {"unused", "answered", "abandoned"}
    BY UnlockedIsSettled DEF IInv, TypeOK
  <2>3. CASE fate[k] = "answered"
    <3>1. run = k /\ run # None
      BY <2>1, <2>3, ClientAssumption DEF IInv, ActiveIsKept
    <3>2. PICK l \in Keys : Used(l, "CloseRun")
      BY <3>1 DEF IInv, CloseIsSent
    <3>3. fate[l] # "answered"
      BY <3>1, <3>2 DEF IInv, AnsweredIsServed, CloseCloses, Used
    <3>4. QED
      BY <2>2, <3>2, <3>3 DEF Used
  <2>4. QED
    BY <2>1, <2>2, <2>3
<1>2. QED
  BY Invariant, <1>1, PTL

\* A leased task without a session is one whose LeaseTask reply was lost or is
\* still awaited.
THEOREM ClientLosesTaskOnlyByFailure == Spec => []TaskLostOnlyByFailure
<1>1. IInv => TaskLostOnlyByFailure
  BY DEF IInv
<1>2. QED
  BY Invariant, <1>1, PTL

\* The transport is shut after the last request, and a closed and idle client
\* has shut it.
THEOREM ClientShutsTransportLast == Spec => []TransportShutLast
<1>1. IInv => TransportShutLast
  <2> SUFFICES ASSUME IInv
               PROVE  state = "closed" /\ owned /\ lock = << >> => shut
    BY DEF TransportShutLast, IInv, ShutIsQuiet
  <2>1. lock = << >> => \A c \in Callers : pc[c] # "closing"
    BY DEF IInv, BusyHoldsLock, Busy, Holds
  <2>2. QED
    BY <2>1 DEF IInv, ClosedGetsShut
<1>2. QED
  BY Invariant, <1>1, PTL

\* An aclose that returns finds the cleanup complete, whoever did it: no caller is
\* in it any more.
THEOREM ClientClosesBeforeReturn == Spec => []AcloseReturnsAfterCleanup
<1>1. IInv => AcloseReturnsAfterCleanup
  BY DEF IInv
<1>2. QED
  BY Invariant, <1>1, PTL

\* No step reopens a closed client, changes its run, or sends a request for it.
LEMMA ClosedStep ==
    ASSUME IInv, Next, state = "closed"
    PROVE  state' = "closed" /\ run' = run /\ Unused' = Unused
<1>1. ASSUME NEW c \in Callers, NEW m \in Methods, Enter(c, m)
      PROVE  UNCHANGED <<state, run, Unused>>
  BY <1>1 DEF Enter, clientVars, Unused
<1>2. ASSUME NEW c \in Callers, Begin(c) \/ CancelWaiting(c) \/ CleanupEnds(c)
      PROVE  UNCHANGED <<state, run, Unused>>
  BY <1>2
     DEF Begin, ReturnExisting, RejectReopen, RejectMetadata, SendCreate,
         RejectLease, SendLease, AlreadyClosed, CloseUnopened, SendClose,
         CancelWaiting, CleanupEnds, EndsLocally, IsOpen, clientVars, Unused
<1>3. ASSUME NEW c \in Callers, CloseSettles(c)
      PROVE  UNCHANGED <<state, run, Unused>>
  <2>1. key[c] \in Keys /\ fate[key[c]] = "open"
    BY <1>3 DEF CloseSettles, IInv, TypeOK, AwaitsOwnRequest
  <2>2. PICK f \in {"answered", "abandoned"} :
            fate' = [fate EXCEPT ![key[c]] = f] /\ UNCHANGED <<state, run>>
    BY <1>3 DEF CloseSettles, Settles
  <2>3. QED
    BY <2>1, <2>2 DEF IInv, TypeOK, Unused
<1>4. ASSUME NEW c \in Callers, Settle(c)
      PROVE  CloseSettles(c) \/ CleanupEnds(c)
  BY <1>4
     DEF Settle, ReceiveRun, FailCreate, ReceiveTask, ReceiveExhausted,
         FailLease, IInv, PlaceFitsState
<1>5. ASSUME NEW k \in Keys, Serve(k)
      PROVE  UNCHANGED <<state, run, Unused>>
  BY <1>5
     DEF Serve, ServeCreate, ServeLease, ServeClose, Stores, clientVars, Unused
<1>6. QED
  BY <1>1, <1>2, <1>3, <1>4, <1>5 DEF Next

\* Nothing reopens a closed client, changes its run, or makes it send a request.
THEOREM ClientStaysClosed == Spec => ClosedIsFinal
<1>1. IInv /\ [Next]_vars =>
        [state = "closed" => state' = "closed" /\ run' = run /\ Unused' = Unused]_vars
  BY ClosedStep
<1>2. QED
  BY Invariant, <1>1, PTL DEF Spec, ClosedIsFinal

----
(* The client in the system is RemoteClient *)

LEMMA ClientStep == [SystemNext]_systemVars => [Next]_vars
<1> SUFFICES ASSUME [SystemNext]_systemVars
             PROVE  [Next]_vars
  OBVIOUS
<1>1. CASE UNCHANGED systemVars
  BY <1>1 DEF systemVars
<1>2. CASE ClientNext
  BY <1>2 DEF ClientNext, Next, Serve
<1>3. CASE SessionNext
  BY <1>3 DEF SessionNext, SessionStep
<1>4. CASE \E k \in Keys : ServeCloseOfRun(k)
  BY <1>4 DEF ServeCloseOfRun, Next, Serve
<1>5. QED
  BY <1>1, <1>2, <1>3, <1>4 DEF SystemNext

\* Every behaviour of the system is one of RemoteClient: what RemoteClientProofs
\* states of the client holds while its session is in use.
THEOREM SystemImplementsClient == SystemSpec => Spec
<1>1. SystemInit => Init
  BY DEF SystemInit
<1>2. QED
  BY <1>1, ClientStep, PTL DEF SystemSpec, Spec

LEMMA ClientInvariant == SystemSpec => []IInv
<1>1. QED
  BY SystemImplementsClient, Invariant, PTL

----
(* The invariant *)

\* Only a closed client asks for the end of its run.
RunClosedByClient == (\E k \in Keys : runs[k] = "closed") => state = "closed"

\* The request that a caller of the session awaits was drawn.
SessionAwaitsItsRequest ==
    /\ sPc \in [SessionCallers -> {"idle", "calling"} \cup Session!AtLock]
    /\ sKey \in [SessionCallers -> SessionKeys \cup {None}]
    /\ sFate \in [SessionKeys -> {"unused", "open", "answered", "abandoned"}]
    /\ \A c \in SessionCallers :
        sPc[c] = "calling" => sKey[c] \in SessionKeys /\ sFate[sKey[c]] # "unused"

\* What a step of the session may do to its identifiers.
DrawsFresh ==
    \E c \in SessionCallers, k \in SessionKeys :
        /\ state # "closed"
        /\ sFate[k] = "unused"
        /\ sPc' = [sPc EXCEPT ![c] = "calling"]
        /\ sKey' = [sKey EXCEPT ![c] = k]
        /\ sFate' = [sFate EXCEPT ![k] = "open"]

DrawsNothing ==
    \/ UNCHANGED <<sPc, sKey, sFate>>
    \/ \E c \in SessionCallers, p \in {"idle"} \cup Session!AtLock :
        /\ sPc' = [sPc EXCEPT ![c] = p]
        /\ sKey' = sKey \/ sKey' = [sKey EXCEPT ![c] = None]
        /\ \/ sFate' = sFate
           \/ /\ sPc[c] = "calling"
              /\ \E f \in {"answered", "abandoned"} : sFate' = [sFate EXCEPT ![sKey[c]] = f]

LEMMA SessionSteps ==
    ASSUME SessionNext
    PROVE  DrawsFresh \/ DrawsNothing
<1>1. ASSUME NEW c \in SessionCallers, NEW m \in Session!Methods, Session!Enter(c, m)
      PROVE  DrawsNothing
  BY <1>1 DEF Session!Enter, Session!Arrival, Session!AtLock, DrawsNothing
<1>2. ASSUME NEW c \in SessionCallers, NEW e, NEW r, Session!EndsLocally(c, e, r)
      PROVE  DrawsNothing
  BY <1>2 DEF Session!EndsLocally, Session!Ends, DrawsNothing
<1>3. ASSUME NEW c \in SessionCallers, NEW k \in SessionKeys, Session!Send(c, k)
      PROVE  DrawsFresh
  BY <1>3 DEF Session!Send, Session!MaySend, Session!ClientClosed, Session!Unused, DrawsFresh
<1>4. ASSUME NEW c \in SessionCallers, Session!Begin(c)
      PROVE  DrawsFresh \/ DrawsNothing
  BY <1>2, <1>3, <1>4
     DEF Session!Begin, Session!RejectClosed, Session!ReturnCachedAbort, Session!RejectFinished,
         Session!RejectInput
<1>5. ASSUME NEW c \in SessionCallers, NEW f \in {"answered", "abandoned"}, NEW e, NEW r,
             Session!Settles(c, f, e, r), sPc[c] = "calling"
      PROVE  DrawsNothing
  BY <1>5 DEF Session!Settles, Session!Ends, DrawsNothing
<1>6. ASSUME NEW c \in SessionCallers, Session!Settle(c) \/ Session!Cancel(c)
      PROVE  DrawsNothing
  BY <1>2, <1>5, <1>6
     DEF Session!Settle, Session!Cancel, Session!ReceiveTool, Session!ReceiveAbort,
         Session!RefuseAnswer, Session!ReceiveRejection, Session!Fail, Session!CancelWaiting,
         Session!CancelCalling
<1>7. ASSUME NEW k \in SessionKeys, Session!Serve(k)
      PROVE  DrawsNothing
  BY <1>7
     DEF Session!Serve, Session!ServeTool, Session!ServeAbort, Session!ServeFinished,
         Session!Stores, Session!callerVars, DrawsNothing
<1>8. QED
  BY <1>1, <1>4, <1>6, <1>7 DEF SessionNext, SessionStep

LEMMA AwaitsInit == SystemInit => SessionAwaitsItsRequest /\ RunClosedByClient
BY DEF SystemInit, Session!Init, Init, SessionAwaitsItsRequest, RunClosedByClient

LEMMA AwaitsStep ==
    ASSUME SessionAwaitsItsRequest, [SystemNext]_systemVars
    PROVE  SessionAwaitsItsRequest'
<1>1. CASE SessionNext
  <2>1. CASE DrawsFresh
    BY <2>1 DEF DrawsFresh, SessionAwaitsItsRequest
  <2>2. CASE DrawsNothing
    BY <2>2 DEF DrawsNothing, SessionAwaitsItsRequest, Session!AtLock
  <2>3. QED
    BY <1>1, <2>1, <2>2, SessionSteps
<1>2. CASE ~SessionNext
  <2>1. UNCHANGED <<sPc, sKey, sFate>>
    BY <1>2 DEF SystemNext, systemVars, ClientNext, ServeCloseOfRun, sessionVars, callsVars
  <2>2. QED
    BY <2>1 DEF SessionAwaitsItsRequest
<1>3. QED
  BY <1>1, <1>2

LEMMA ClosedRunStep ==
    ASSUME IInv, RunClosedByClient, [Next]_vars
    PROVE  RunClosedByClient'
<1>1. CASE state = "closed"
  BY <1>1, ClosedStep DEF RunClosedByClient, vars, clientVars
<1>2. CASE state # "closed"
  <2>1. \A k \in Keys : runs[k] # "closed" /\ runs \in [Keys -> {"absent", "active", "closed"}]
    BY <1>2 DEF RunClosedByClient, IInv, TypeOK
  <2>2. ASSUME NEW k \in Keys, ServeClose(k)
        PROVE  FALSE
    BY <1>2, <2>2 DEF ServeClose, Pending, IInv, CloseIsLast, Used
  <2>3. ASSUME NEW k \in Keys, Serve(k)
        PROVE  runs' = runs \/ runs' = [runs EXCEPT ![k] = "active"]
    BY <2>2, <2>3 DEF Serve, ServeCreate, ServeLease
  <2>4. ASSUME ~\E k \in Keys : Serve(k)
        PROVE  runs' = runs
    BY <2>4
       DEF Next, vars, serverVars, Enter, Begin, Settle, CancelWaiting, ReturnExisting, RejectReopen,
           RejectMetadata, RejectLease, AlreadyClosed, EndsLocally, CloseUnopened, SendCreate,
           SendLease, SendClose, Sends, ReceiveRun, FailCreate, ReceiveTask, ReceiveExhausted,
           FailLease, CloseSettles, Settles, CleanupEnds
  <2>5. QED
    BY <2>1, <2>3, <2>4 DEF RunClosedByClient
<1>3. QED
  BY <1>1, <1>2

LEMMA SystemInvariant == SystemSpec => [](SessionAwaitsItsRequest /\ RunClosedByClient)
<1>1. SessionAwaitsItsRequest /\ RunClosedByClient /\ IInv /\ [SystemNext]_systemVars
        => (SessionAwaitsItsRequest /\ RunClosedByClient)'
  BY AwaitsStep, ClosedRunStep, ClientStep
<1>2. QED
  BY <1>1, AwaitsInit, ClientInvariant, PTL DEF SystemSpec

----
(* The properties *)

\* However start_task, aclose and the calls of a session interleave, the session sees
\* an environment as RemoteSession specifies it: is_client_open turns false once, and
\* the server ends the task by itself only after that.
THEOREM SystemImplementsSession == SystemSpec => ImplementsSession
<1>1. SystemInit => Session!Init
  BY DEF SystemInit
<1>2. ASSUME IInv, [SystemNext]_systemVars
      PROVE  [Session!Next]_(Session!vars)
  <2>1. CASE UNCHANGED systemVars
    BY <2>1
       DEF systemVars, vars, clientVars, sessionVars, callsVars, Session!vars, Session!callerVars,
           Session!sessionVars, Session!serverVars
  <2>2. CASE SessionNext
    BY <2>2 DEF SessionNext, SessionStep, Session!Next
  <2>3. CASE ClientNext
    <3>1. UNCHANGED sessionVars /\ Next
      BY <2>3 DEF ClientNext, Next, Serve
    <3>2. CASE state # "closed" /\ state' = "closed"
      <4>1. Session!CloseClient
        BY <3>1, <3>2
           DEF sessionVars, callsVars, Session!CloseClient, Session!callerVars,
               Session!sessionVars, Session!serverVars
      <4>2. QED
        BY <4>1 DEF Session!Next
    <3>3. CASE (state # "closed") = (state' # "closed")
      BY <3>1, <3>3
         DEF sessionVars, callsVars, Session!vars, Session!callerVars, Session!sessionVars,
             Session!serverVars
    <3>4. QED
      BY <1>2, <3>1, <3>2, <3>3, ClosedStep
  <2>4. ASSUME NEW k \in Keys, ServeCloseOfRun(k)
        PROVE  [Session!Next]_(Session!vars)
    <3>1. state = "closed" /\ state' = state /\ UNCHANGED callsVars
      BY <1>2, <2>4
         DEF ServeCloseOfRun, ServeClose, Pending, Stores, clientVars, IInv, CloseIsLast, Used
    <3>2. CASE UNCHANGED finished
      BY <3>1, <3>2
         DEF callsVars, Session!vars, Session!callerVars, Session!sessionVars, Session!serverVars
    <3>3. CASE finished = None /\ finished' \in Results
      <4>1. Session!ServerEndsTask
        BY <3>1, <3>3
           DEF callsVars, Session!ServerEndsTask, Session!callerVars, Session!sessionVars
      <4>2. QED
        BY <4>1 DEF Session!Next
    <3>4. QED
      BY <2>4, <3>2, <3>3 DEF ServeCloseOfRun, EndsTask
  <2>5. QED
    BY <1>2, <2>1, <2>2, <2>3, <2>4 DEF SystemNext
<1>3. QED
  BY <1>1, <1>2, ClientInvariant, PTL DEF SystemSpec, ImplementsSession, Session!Spec

\* Although aclose takes no lock of the session, call_tool and abort_task draw no
\* identifier for a new request once the server has closed the run.
THEOREM ClosedRunGetsNoRequest == SystemSpec => NoRequestToClosedRun
<1>1. ASSUME SessionAwaitsItsRequest, RunClosedByClient, [SystemNext]_systemVars
      PROVE  [(\E k \in Keys : runs[k] = "closed") => Session!Unused' = Session!Unused]_systemVars
  <2>1. SUFFICES ASSUME SystemNext, \E k \in Keys : runs[k] = "closed"
                 PROVE  Session!Unused' = Session!Unused
    BY <1>1
  <2>2. state = "closed"
    BY <1>1, <2>1 DEF RunClosedByClient
  <2>3. CASE SessionNext
    <3>1. DrawsNothing
      BY <2>2, <2>3, SessionSteps DEF DrawsFresh
    <3>2. QED
      BY <1>1, <3>1 DEF DrawsNothing, SessionAwaitsItsRequest, Session!Unused
  <2>4. CASE ~SessionNext
    <3>1. sFate' = sFate
      BY <2>1, <2>4 DEF SystemNext, ClientNext, ServeCloseOfRun, sessionVars, callsVars
    <3>2. QED
      BY <3>1 DEF Session!Unused
  <2>5. QED
    BY <2>3, <2>4
<1>2. QED
  BY <1>1, SystemInvariant, PTL DEF SystemSpec, NoRequestToClosedRun

----
(* What the session promises, in the system *)

\* RemoteSession and its theorems, with the system's constants and variables.
Shown == INSTANCE RemoteSessionProofs WITH
    Callers <- SessionCallers, Keys <- SessionKeys,
    pc <- sPc, op <- sOp, key <- sKey, outcome <- sOutcome, lock <- sLock,
    open <- state # "closed", fate <- sFate, method <- sMethod, reply <- sReply

\* Two instances of one module: each of their actions is the same.  (What they take from
\* the library counts as different until it is unfolded.)
LEMMA SameLibrary ==
    /\ \A q, c : Session!Leave(q, c) = Shown!Leave(q, c)
    /\ \A S : Session!Cardinality(S) = Shown!Cardinality(S)
<1>1. \A q, i : Session!RemoveAt(q, i) = Shown!RemoveAt(q, i)
  BY DEF Session!RemoveAt, Shown!RemoveAt
<1>2. \A S : Session!Cardinality(S) = Shown!Cardinality(S)
  BY DEF Session!Cardinality, Shown!Cardinality
<1>3. QED
  BY <1>1, <1>2 DEF Session!Leave, Shown!Leave

LEMMA SameParts ==
    ASSUME NEW c \in SessionCallers
    PROVE  /\ \A e, r : Session!EndsLocally(c, e, r) <=> Shown!EndsLocally(c, e, r)
           /\ \A f, e, r : Session!Settles(c, f, e, r) <=> Shown!Settles(c, f, e, r)
           /\ Session!Proceeds(c) <=> Shown!Proceeds(c)
           /\ Session!ClientClosed <=> Shown!ClientClosed
           /\ Session!HasCachedAbort(c) <=> Shown!HasCachedAbort(c)
           /\ Session!KnownFinished <=> Shown!KnownFinished
           /\ Session!AnswersFor(c) = Shown!AnswersFor(c)
<1>1. ASSUME NEW e, NEW r
      PROVE  Session!Ends(c, e, r) <=> Shown!Ends(c, e, r)
  BY SameLibrary DEF Session!Ends, Shown!Ends
<1>2. ASSUME NEW e, NEW r
      PROVE  Session!EndsLocally(c, e, r) <=> Shown!EndsLocally(c, e, r)
  BY <1>1
     DEF Session!EndsLocally, Session!sessionVars, Session!serverVars, Shown!EndsLocally,
         Shown!sessionVars, Shown!serverVars
<1>3. ASSUME NEW f, NEW e, NEW r
      PROVE  Session!Settles(c, f, e, r) <=> Shown!Settles(c, f, e, r)
  BY <1>1 DEF Session!Settles, Session!serverVars, Shown!Settles, Shown!serverVars
<1>4. /\ Session!Proceeds(c) <=> Shown!Proceeds(c)
      /\ Session!ClientClosed <=> Shown!ClientClosed
      /\ Session!HasCachedAbort(c) <=> Shown!HasCachedAbort(c)
      /\ Session!KnownFinished <=> Shown!KnownFinished
  BY DEF Session!Proceeds, Session!Holds, Session!AtLock, Session!ClientClosed,
         Session!HasCachedAbort, Session!KnownFinished, Shown!Proceeds, Shown!Holds,
         Shown!AtLock, Shown!ClientClosed, Shown!HasCachedAbort, Shown!KnownFinished
<1>5. Session!AnswersFor(c) = Shown!AnswersFor(c)
  BY DEF Session!AnswersFor, Session!Answers, Session!Malformed, Session!Genuine,
         Shown!AnswersFor, Shown!Answers, Shown!Malformed, Shown!Genuine
<1>6. QED
  BY <1>2, <1>3, <1>4, <1>5

LEMMA SameBegin ==
    ASSUME NEW c \in SessionCallers
    PROVE  Session!Begin(c) <=> Shown!Begin(c)
<1>1. ASSUME NEW k \in SessionKeys
      PROVE  Session!Send(c, k) <=> Shown!Send(c, k)
  BY SameParts
     DEF Session!Send, Session!MaySend, Session!Unused, Session!Fresh, Session!sessionVars,
         Session!serverVars, Shown!Send, Shown!MaySend, Shown!Unused, Shown!Fresh,
         Shown!sessionVars, Shown!serverVars
<1>2. QED
  BY <1>1, SameParts
     DEF Session!Begin, Session!RejectClosed, Session!ReturnCachedAbort,
         Session!RejectFinished, Session!RejectInput, Session!MaySend, Shown!Begin,
         Shown!RejectClosed, Shown!ReturnCachedAbort, Shown!RejectFinished, Shown!RejectInput,
         Shown!MaySend

LEMMA SameSettle ==
    ASSUME NEW c \in SessionCallers
    PROVE  Session!Settle(c) \/ Session!Cancel(c) <=> Shown!Settle(c) \/ Shown!Cancel(c)
<1>1. /\ Session!ReceiveTool(c) <=> Shown!ReceiveTool(c)
      /\ Session!ReceiveAbort(c) <=> Shown!ReceiveAbort(c)
      /\ Session!RefuseAnswer(c) <=> Shown!RefuseAnswer(c)
  BY SameParts
     DEF Session!ReceiveTool, Session!ReceiveAbort, Session!RefuseAnswer,
         Session!ToolAnswerAccepted, Session!AbortAnswerAccepted, Session!LearnFromTool,
         Session!LearnFromAbort, Session!sessionVars, Shown!ReceiveTool, Shown!ReceiveAbort,
         Shown!RefuseAnswer, Shown!ToolAnswerAccepted, Shown!AbortAnswerAccepted,
         Shown!LearnFromTool, Shown!LearnFromAbort, Shown!sessionVars
<1>2. /\ Session!ReceiveRejection(c) <=> Shown!ReceiveRejection(c)
      /\ Session!Fail(c) <=> Shown!Fail(c)
      /\ Session!Cancel(c) <=> Shown!Cancel(c)
  BY SameParts
     DEF Session!ReceiveRejection, Session!Fail, Session!Cancel, Session!CancelWaiting,
         Session!CancelCalling, Session!sessionVars, Shown!ReceiveRejection, Shown!Fail,
         Shown!Cancel, Shown!CancelWaiting, Shown!CancelCalling, Shown!sessionVars
<1>3. QED
  BY <1>1, <1>2 DEF Session!Settle, Shown!Settle

LEMMA SameServe ==
    ASSUME NEW k \in SessionKeys
    PROVE  Session!Serve(k) <=> Shown!Serve(k)
BY DEF Session!Serve, Session!ServeTool, Session!ServeAbort, Session!ServeFinished,
       Session!Pending, Session!Stores, Session!callerVars, Session!sessionVars, Shown!Serve,
       Shown!ServeTool, Shown!ServeAbort, Shown!ServeFinished, Shown!Pending, Shown!Stores,
       Shown!callerVars, Shown!sessionVars

LEMMA SameSteps == [Session!Next]_(Session!vars) <=> [Shown!Next]_(Shown!vars)
<1>1. ASSUME NEW c \in SessionCallers, NEW m \in Session!Methods
      PROVE  Session!Enter(c, m) <=> Shown!Enter(c, m)
  BY SameLibrary
     DEF Session!Enter, Session!Unused, Session!Arrival, Session!Enqueue, Session!sessionVars,
         Session!serverVars, Shown!Enter, Shown!Unused, Shown!Arrival, Shown!Enqueue,
         Shown!sessionVars, Shown!serverVars
<1>2. /\ Session!CloseClient <=> Shown!CloseClient
      /\ Session!ServerEndsTask <=> Shown!ServerEndsTask
      /\ UNCHANGED Session!vars <=> UNCHANGED Shown!vars
  BY DEF Session!CloseClient, Session!ServerEndsTask, Session!vars, Session!callerVars,
         Session!sessionVars, Session!serverVars, Shown!CloseClient, Shown!ServerEndsTask,
         Shown!vars, Shown!callerVars, Shown!sessionVars, Shown!serverVars
<1>3. Session!Methods = Shown!Methods
  BY DEF Session!Methods, Shown!Methods
<1>4. Session!Next <=> Shown!Next
  BY <1>1, <1>2, <1>3, SameBegin, SameSettle, SameServe DEF Session!Next, Shown!Next
<1>5. QED
  BY <1>2, <1>4

\* The client and the server of the system are the environment that the theorems about
\* RemoteSession assume, and its constants are admissible.
LEMMA SystemShowsSession == SystemSpec => Shown!Spec
<1>1. Session!Init <=> Shown!Init
  BY DEF Session!Init, Shown!Init
<1>2. QED
  BY <1>1, SameSteps, SystemImplementsSession, PTL
     DEF ImplementsSession, Session!Spec, Shown!Spec

LEMMA ShownIsAdmissible == Shown!SessionAssumption
BY SessionFits DEF Shown!SessionAssumption, Shown!Replies, Session!Replies

\* In the whole system, with a client that may be closed at any moment: what the session
\* and its callers believe about the end of the task is what the server decided, it
\* works on one request at a time, and it misses an end only if the reply was lost.
THEOREM SystemSessionIsTrue ==
    SystemSpec => [](/\ Session!TerminalIsServers
                     /\ Session!RequestsInOrder
                     /\ Session!EndMissedOnlyIfLost
                     /\ Session!OutcomesAreTrue)
<1>1. /\ Shown!Spec => []Shown!TerminalIsServers
      /\ Shown!Spec => []Shown!RequestsInOrder
      /\ Shown!Spec => []Shown!EndMissedOnlyIfLost
      /\ Shown!Spec => []Shown!OutcomesAreTrue
  BY ShownIsAdmissible, Shown!SessionAgreesWithServer, Shown!SessionSerializesRequests,
     Shown!SessionMissesOnlyLostEnds, Shown!SessionTellsTheTruth
<1>2. /\ Shown!TerminalIsServers => Session!TerminalIsServers
      /\ Shown!RequestsInOrder => Session!RequestsInOrder
      /\ Shown!EndMissedOnlyIfLost => Session!EndMissedOnlyIfLost
      /\ Shown!OutcomesAreTrue => Session!OutcomesAreTrue
  BY DEF Session!TerminalIsServers, Session!RequestsInOrder, Session!EndMissedOnlyIfLost,
         Session!OutcomesAreTrue, Shown!TerminalIsServers, Shown!RequestsInOrder,
         Shown!EndMissedOnlyIfLost, Shown!OutcomesAreTrue
<1>3. QED
  BY <1>1, <1>2, SystemShowsSession, PTL

\* In the whole system: a session sends nothing once it knows the end of its task or its
\* client is closed, and a successful abort is repeated with the same result.
THEOREM SystemSessionActsInTime ==
    SystemSpec => Session!NoLateRequest /\ Session!AbortIsIdempotent
<1>1. Shown!Spec => Shown!NoLateRequest /\ Shown!AbortIsIdempotent
  BY ShownIsAdmissible, Shown!SessionSendsNothingLate, Shown!SessionAbortIsIdempotent
<1>2. Shown!NoLateRequest => Session!NoLateRequest
  <2> DEFINE ended == terminal # None \/ ~(state # "closed")
  <2>1. [ended => Shown!Unused' = Shown!Unused]_(Shown!vars)
        => [ended => Session!Unused' = Session!Unused]_(Session!vars)
    BY DEF Session!Unused, Session!vars, Session!callerVars, Session!sessionVars,
           Session!serverVars, Shown!Unused, Shown!vars, Shown!callerVars, Shown!sessionVars,
           Shown!serverVars
  <2>2. QED
    BY <2>1, PTL DEF Session!NoLateRequest, Shown!NoLateRequest
<1>3. Shown!AbortIsIdempotent => Session!AbortIsIdempotent
  <2> DEFINE Repeats(c, places) ==
        /\ aborted # None
        /\ state # "closed"
        /\ sOp[c] = "abort_task"
        /\ sPc[c] \in places
        /\ sPc'[c] = "idle"
        => \/ sOutcome'[c].ending = "CancelledError"
           \/ sOutcome'[c] = [ending |-> "returned", result |-> aborted]
  <2>1. [\A c \in SessionCallers : Repeats(c, Shown!AtLock)]_(Shown!vars)
        => [\A c \in SessionCallers : Repeats(c, Session!AtLock)]_(Session!vars)
    BY DEF Session!AtLock, Session!vars, Session!callerVars, Session!sessionVars,
           Session!serverVars, Shown!AtLock, Shown!vars, Shown!callerVars, Shown!sessionVars,
           Shown!serverVars
  <2>2. QED
    BY <2>1, PTL DEF Session!AbortIsIdempotent, Shown!AbortIsIdempotent
<1>4. QED
  BY <1>1, <1>2, <1>3, SystemShowsSession

====
