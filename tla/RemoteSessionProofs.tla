---- MODULE RemoteSessionProofs ----
(***************************************************************************)
(* Theorems about RemoteSession, for every set of callers, identifiers and *)
(* results.                                                                *)
(***************************************************************************)
EXTENDS RemoteSession, SharedLemmas

\* What the server's stored replies say is true, now and later.
RepliesTrue ==
    \A k \in Keys : reply[k] # None =>
        /\ reply[k].rejected => finished # None /\ reply[k].result = None
        /\ reply[k].result # None => reply[k].result = finished

\* A caller that awaits a reply owns the lock, and awaits it for a request of
\* its own that nobody has settled.
CallingHoldsLock ==
    \A c \in Callers : pc[c] = "calling" =>
        /\ Holds(lock, c)
        /\ fate[key[c]] = "open"
        /\ method[key[c]] = op[c]

OpenIsAwaited ==
    \A k \in Keys : fate[k] = "open" => \E c \in Callers : key[c] = k

\* What is known about a request that was never sent, and about one that was
\* answered.
UnusedIsUnserved == \A k \in Keys : fate[k] = "unused" => reply[k] = None

AnsweredIsLearned ==
    \A k \in Keys : fate[k] = "answered" =>
        /\ reply[k] # None
        /\ reply[k].result # None => terminal = reply[k].result

\* As long as the client is open, only a request ends the task.
EndHasCause ==
    open /\ finished # None =>
        \E k \in Keys : reply[k] # None /\ reply[k].result = finished

IInv ==
    /\ TypeOK
    /\ RepliesTrue
    /\ CallingHoldsLock
    /\ OpenIsAwaited
    /\ UnusedIsUnserved
    /\ AnsweredIsLearned
    /\ EndHasCause
    /\ TerminalIsServers
    /\ OutcomesAreTrue

----
(* Type correctness *)

\* The two places at the lock are expanded everywhere below.
USE DEF AtLock

LEMMA EndsType ==
    ASSUME TypeOK, NEW c \in Callers, NEW e \in Endings,
           NEW r \in Results \cup {None}, Ends(c, e, r)
    PROVE  /\ pc' \in [Callers -> {"idle", "calling"} \cup AtLock]
           /\ op' \in [Callers -> Methods]
           /\ key' \in [Callers -> Keys \cup {None}]
           /\ \A d \in Callers : pc'[d] = "calling" <=> key'[d] # None
           /\ outcome' \in [Callers -> Outcomes]
           /\ lock' \in Seq(Callers)
<1>1. lock' \in Seq(Callers)
  BY LeaveType DEF TypeOK, Ends
<1>2. [ending |-> e, result |-> r] \in Outcomes
  BY DEF Outcomes
<1>3. QED
  BY <1>1, <1>2 DEF TypeOK, Ends

\* A caller that ends without a request leaves everything else alone.
LEMMA EndsLocallyType ==
    ASSUME TypeOK, NEW c \in Callers, NEW e \in Endings,
           NEW r \in Results \cup {None}, EndsLocally(c, e, r)
    PROVE  TypeOK'
<1>1. Ends(c, e, r)
  BY DEF EndsLocally
<1>2. QED
  BY <1>1, EndsType DEF TypeOK, EndsLocally, sessionVars, serverVars

LEMMA SettlesType ==
    ASSUME TypeOK, NEW c \in Callers, NEW e \in Endings,
           NEW r \in Results \cup {None}, NEW f \in {"answered", "abandoned"},
           Settles(c, f, e, r),
           terminal' \in Results \cup {None}, aborted' \in Results \cup {None}
    PROVE  TypeOK'
<1>1. Ends(c, e, r)
  BY DEF Settles
<1>2. fate' \in [Keys -> {"unused", "open", "answered", "abandoned"}]
  BY DEF TypeOK, Settles
<1>3. QED
  BY <1>1, <1>2, EndsType DEF TypeOK, Settles, serverVars

LEMMA StoresType ==
    ASSUME TypeOK, NEW k \in Keys, NEW b \in BOOLEAN,
           NEW r \in Results \cup {None}, Stores(k, b, r),
           finished' \in Results \cup {None}
    PROVE  TypeOK'
<1>1. [rejected |-> b, result |-> r] \in Replies
  BY DEF Replies
<1>2. reply' \in [Keys -> Replies \cup {None}]
  BY <1>1 DEF TypeOK, Stores
<1>3. QED
  BY <1>2 DEF TypeOK, Stores, callerVars, sessionVars

LEMMA TypeInit == Init => TypeOK
BY SessionAssumption DEF Init, TypeOK, Methods, Outcomes, Endings

\* Every step of the session, the transport and the server keeps the types.
LEMMA TypeStep ==
    ASSUME TypeOK, [Next]_vars
    PROVE  TypeOK'
<1>1. ASSUME NEW c \in Callers, NEW m \in Methods, Enter(c, m)
      PROVE  TypeOK'
  BY <1>1
     DEF TypeOK, Enter, Enqueue, Arrival, sessionVars, serverVars
<1>2. ASSUME NEW c \in Callers, RejectClosed(c)
      PROVE  TypeOK'
  BY <1>2, EndsLocallyType DEF RejectClosed, Endings
<1>3. ASSUME NEW c \in Callers, ReturnCachedAbort(c)
      PROVE  TypeOK'
  BY <1>3, EndsLocallyType DEF ReturnCachedAbort, Endings, TypeOK
<1>4. ASSUME NEW c \in Callers, RejectFinished(c)
      PROVE  TypeOK'
  BY <1>4, EndsLocallyType DEF RejectFinished, Endings
<1>5. ASSUME NEW c \in Callers, RejectInput(c)
      PROVE  TypeOK'
  BY <1>5, EndsLocallyType DEF RejectInput, Endings
<1>6. ASSUME NEW c \in Callers, NEW k \in Keys, Send(c, k)
      PROVE  TypeOK'
  BY <1>6, SessionAssumption
     DEF TypeOK, Send, Unused, sessionVars, serverVars
<1>7. ASSUME NEW c \in Callers, ReceiveTool(c)
      PROVE  TypeOK'
  <2>1. PICK a \in Answers : /\ LearnFromTool(a)
                             /\ Settles(c, "answered", "returned", a.result)
    BY <1>7 DEF ReceiveTool, AnswersFor
  <2>2. a.result \in Results \cup {None}
    BY DEF Answers
  <2>3. terminal' \in Results \cup {None} /\ aborted' \in Results \cup {None}
    BY <2>1, <2>2 DEF TypeOK, LearnFromTool
  <2>4. QED
    BY <2>1, <2>2, <2>3, SettlesType DEF Endings
<1>8. ASSUME NEW c \in Callers, ReceiveAbort(c)
      PROVE  TypeOK'
  <2>1. PICK a \in Answers : /\ LearnFromAbort(a)
                             /\ Settles(c, "answered", "returned", a.result)
    BY <1>8 DEF ReceiveAbort, AnswersFor
  <2>2. a.result \in Results \cup {None}
    BY DEF Answers
  <2>3. terminal' \in Results \cup {None} /\ aborted' \in Results \cup {None}
    BY <2>1, <2>2 DEF LearnFromAbort
  <2>4. QED
    BY <2>1, <2>2, <2>3, SettlesType DEF Endings
<1>9. ASSUME NEW c \in Callers, RefuseAnswer(c)
      PROVE  TypeOK'
  BY <1>9, SettlesType DEF RefuseAnswer, Endings, TypeOK, sessionVars
<1>10. ASSUME NEW c \in Callers, ReceiveRejection(c)
       PROVE  TypeOK'
  BY <1>10, SettlesType DEF ReceiveRejection, Endings, TypeOK, sessionVars
<1>11. ASSUME NEW c \in Callers, Fail(c)
       PROVE  TypeOK'
  BY <1>11, SettlesType DEF Fail, Endings, TypeOK, sessionVars
<1>12. ASSUME NEW c \in Callers, CancelWaiting(c)
       PROVE  TypeOK'
  BY <1>12, EndsLocallyType DEF CancelWaiting, Endings
<1>13. ASSUME NEW c \in Callers, CancelCalling(c)
       PROVE  TypeOK'
  BY <1>13, SettlesType DEF CancelCalling, Endings, TypeOK, sessionVars
<1>14. CASE CloseClient
  BY <1>14 DEF CloseClient, TypeOK, callerVars, sessionVars, serverVars
<1>15. ASSUME NEW k \in Keys, ServeTool(k)
       PROVE  TypeOK'
  BY <1>15, StoresType DEF ServeTool
<1>16. ASSUME NEW k \in Keys, ServeAbort(k)
       PROVE  TypeOK'
  BY <1>16, StoresType DEF ServeAbort
<1>17. ASSUME NEW k \in Keys, ServeFinished(k)
       PROVE  TypeOK'
  BY <1>17, StoresType DEF ServeFinished, TypeOK
<1>18. CASE ServerEndsTask
  BY <1>18 DEF ServerEndsTask, TypeOK, callerVars, sessionVars
<1>19. CASE UNCHANGED vars
  BY <1>19 DEF TypeOK, vars, callerVars, sessionVars, serverVars
<1>20. QED
  BY <1>1, <1>2, <1>3, <1>4, <1>5, <1>6, <1>7, <1>8, <1>9, <1>10, <1>11,
     <1>12, <1>13, <1>14, <1>15, <1>16, <1>17, <1>18, <1>19
     DEF Next, Begin, Settle, Cancel, Serve

\* The variables of the session keep their types for any number of callers,
\* identifiers and results, and a caller is inside an RPC exactly while it has
\* an identifier of its own.
THEOREM TypeCorrect == Spec => []TypeOK
<1>1. TypeOK /\ [Next]_vars => TypeOK'
  BY TypeStep
<1>2. QED
  BY TypeInit, <1>1, PTL DEF Spec

----
(* The inductive invariant *)

LEMMA InvInit == Init => IInv
BY TypeInit, SessionAssumption
   DEF Init, IInv, RepliesTrue, CallingHoldsLock, OpenIsAwaited,
       UnusedIsUnserved, AnsweredIsLearned, EndHasCause, TerminalIsServers,
       OutcomesAreTrue

\* Whoever ends leaves the other callers their lock, their outcome and their
\* request.
LEMMA EndsKeepsOthers ==
    ASSUME IInv, NEW c \in Callers, NEW e, NEW r, Ends(c, e, r),
           NEW d \in Callers, d # c
    PROVE  /\ pc'[d] = pc[d] /\ key'[d] = key[d] /\ op'[d] = op[d]
           /\ outcome'[d] = outcome[d]
           /\ Holds(lock, d) => Holds(lock', d)
BY LeaveKeepsOwner DEF IInv, TypeOK, Ends

LEMMA EndsKeepsOutcomes ==
    ASSUME IInv, NEW c \in Callers, NEW e, NEW r, Ends(c, e, r),
           UNCHANGED finished,
           e = "TaskAlreadyFinishedError" => finished # None,
           r # None => r = finished
    PROVE  OutcomesAreTrue'
<1> SUFFICES ASSUME NEW d \in Callers
             PROVE  /\ outcome'[d].ending = "TaskAlreadyFinishedError"
                         => finished' # None
                    /\ outcome'[d].result # None
                         => outcome'[d].result = finished'
  BY DEF OutcomesAreTrue
<1>1. CASE d = c
  BY <1>1 DEF IInv, TypeOK, Ends
<1>2. CASE d # c
  BY <1>2, EndsKeepsOthers DEF IInv, OutcomesAreTrue
<1>3. QED
  BY <1>1, <1>2

\* A method that ends before it sent anything preserves the invariant.
LEMMA EndsLocallyInv ==
    ASSUME IInv, NEW c \in Callers, pc[c] \in AtLock,
           NEW e \in Endings, NEW r \in Results \cup {None},
           EndsLocally(c, e, r),
           e = "TaskAlreadyFinishedError" => finished # None,
           r # None => r = finished
    PROVE  IInv'
<1> USE DEF EndsLocally, sessionVars, serverVars
<1>1. TypeOK'
  BY EndsLocallyType DEF IInv
<1>2. CallingHoldsLock'
  <2> SUFFICES ASSUME NEW d \in Callers, pc'[d] = "calling"
               PROVE  /\ Holds(lock', d) /\ fate'[key'[d]] = "open"
                      /\ method'[key'[d]] = op'[d]
    BY DEF CallingHoldsLock
  <2>1. d # c
    BY DEF Ends, IInv, TypeOK
  <2>2. QED
    BY <2>1, EndsKeepsOthers DEF IInv, CallingHoldsLock
<1>3. OpenIsAwaited'
  <2> SUFFICES ASSUME NEW k \in Keys, fate[k] = "open"
               PROVE  \E d \in Callers : key'[d] = k
    BY DEF OpenIsAwaited
  <2>1. PICK d \in Callers : key[d] = k
    BY DEF IInv, OpenIsAwaited
  <2>2. d # c
    BY <2>1, SessionAssumption DEF IInv, TypeOK
  <2>3. QED
    BY <2>1, <2>2, EndsKeepsOthers
<1>4. OutcomesAreTrue'
  BY EndsKeepsOutcomes
<1>5. QED
  BY <1>1, <1>2, <1>3, <1>4
     DEF IInv, RepliesTrue, UnusedIsUnserved, AnsweredIsLearned, EndHasCause,
         TerminalIsServers

\* The end of an RPC preserves the invariant, provided that what the session
\* learned from it is true and, if it counts as an answer, complete.
LEMMA SettlesInv ==
    ASSUME IInv, NEW c \in Callers, pc[c] = "calling",
           NEW e \in Endings, NEW r \in Results \cup {None},
           NEW f \in {"answered", "abandoned"}, Settles(c, f, e, r),
           e = "TaskAlreadyFinishedError" => finished # None,
           r # None => r = finished,
           terminal' \in Results \cup {None}, aborted' \in Results \cup {None},
           terminal # None => terminal' = terminal,
           TerminalIsServers',
           f = "answered" =>
               /\ reply[key[c]] # None
               /\ reply[key[c]].result # None => terminal' = reply[key[c]].result
    PROVE  IInv'
<1> USE DEF Settles, serverVars
<1>1. TypeOK'
  BY SettlesType DEF IInv
<1>2. key[c] \in Keys /\ Holds(lock, c) /\ fate[key[c]] = "open"
  BY DEF IInv, TypeOK, CallingHoldsLock
<1>3. ASSUME NEW d \in Callers, pc[d] = "calling"
      PROVE  d = c
  BY <1>2, <1>3 DEF IInv, CallingHoldsLock, Holds
<1>4. CallingHoldsLock'
  <2>1. ASSUME NEW d \in Callers
        PROVE  pc'[d] # "calling"
    BY <1>3, EndsKeepsOthers DEF Ends, IInv, TypeOK
  <2>2. QED
    BY <2>1 DEF CallingHoldsLock
<1>5. ASSUME NEW k \in Keys, fate'[k] = "open"
      PROVE  FALSE
  <2>1. k # key[c] /\ fate[k] = "open"
    BY <1>2, <1>5 DEF IInv, TypeOK
  <2>2. PICK d \in Callers : key[d] = k
    BY <2>1 DEF IInv, OpenIsAwaited
  <2>3. pc[d] = "calling"
    BY <2>2, SessionAssumption DEF IInv, TypeOK
  <2>4. QED
    BY <1>3, <2>1, <2>2, <2>3
<1>6. OpenIsAwaited'
  BY <1>5 DEF OpenIsAwaited
<1>7. UnusedIsUnserved'
  BY <1>2 DEF UnusedIsUnserved, IInv, TypeOK
<1>8. AnsweredIsLearned'
  <2> SUFFICES ASSUME NEW k \in Keys, fate'[k] = "answered"
               PROVE  /\ reply[k] # None
                      /\ reply[k].result # None => terminal' = reply[k].result
    BY DEF AnsweredIsLearned
  <2>1. CASE k = key[c]
    BY <2>1, <1>2 DEF IInv, TypeOK
  <2>2. CASE k # key[c]
    <3>1. fate[k] = "answered"
      BY <2>2 DEF IInv, TypeOK
    <3>2. QED
      BY <3>1 DEF IInv, AnsweredIsLearned
  <2>3. QED
    BY <2>1, <2>2
<1>9. OutcomesAreTrue'
  BY EndsKeepsOutcomes
<1>10. QED
  BY <1>1, <1>4, <1>6, <1>7, <1>8, <1>9 DEF IInv, RepliesTrue, EndHasCause

\* An RPC that teaches the session nothing preserves the invariant, provided
\* that only a refusal of a finished task counts as an answer.
LEMMA SettlesUnlearned ==
    ASSUME IInv, NEW c \in Callers, pc[c] = "calling", NEW e \in Endings,
           NEW f \in {"answered", "abandoned"}, Settles(c, f, e, None),
           UNCHANGED sessionVars,
           e = "TaskAlreadyFinishedError" => finished # None,
           f = "answered" =>
               reply[key[c]] # None /\ reply[key[c]].result = None
    PROVE  IInv'
<1>1. /\ terminal' = terminal /\ aborted' = aborted /\ finished' = finished
      /\ terminal' \in Results \cup {None} /\ aborted' \in Results \cup {None}
  BY DEF IInv, TypeOK, sessionVars, Settles, serverVars
<1>2. TerminalIsServers'
  BY <1>1 DEF IInv, TerminalIsServers
<1>3. QED
  BY <1>1, <1>2, SettlesInv

\* Serving a request preserves the invariant, provided that the reply tells
\* the truth and that it carries the result if it is what ends the task.
LEMMA StoresInv ==
    ASSUME IInv, NEW k \in Keys, Pending(k), NEW b \in BOOLEAN,
           NEW r \in Results \cup {None}, Stores(k, b, r),
           finished' \in Results \cup {None},
           finished # None => finished' = finished,
           b => finished' # None /\ r = None,
           r # None => r = finished',
           finished' # finished => r = finished'
    PROVE  IInv'
<1> USE DEF Stores, callerVars, sessionVars
<1>1. TypeOK'
  BY StoresType DEF IInv
<1>2. /\ reply'[k] = [rejected |-> b, result |-> r]
      /\ \A l \in Keys : l # k => reply'[l] = reply[l]
      /\ reply[k] = None /\ fate[k] # "unused" /\ reply'[k] # None
  BY SessionAssumption DEF IInv, TypeOK, Pending, Replies
<1>3. RepliesTrue'
  BY <1>2 DEF IInv, RepliesTrue
<1>4. UnusedIsUnserved'
  BY <1>2 DEF IInv, UnusedIsUnserved
<1>5. AnsweredIsLearned'
  BY <1>2 DEF IInv, AnsweredIsLearned
<1>6. EndHasCause'
  BY <1>2 DEF IInv, EndHasCause
<1>7. TerminalIsServers' /\ OutcomesAreTrue'
  BY DEF IInv, TerminalIsServers, OutcomesAreTrue
<1>8. QED
  BY <1>1, <1>3, <1>4, <1>5, <1>6, <1>7
     DEF IInv, CallingHoldsLock, OpenIsAwaited

\* Every step of the session, the transport and the server preserves the
\* invariant.
LEMMA InvStep ==
    ASSUME IInv, [Next]_vars
    PROVE  IInv'
<1> USE DEF sessionVars, serverVars, callerVars
<1>0. TypeOK /\ TypeOK'
  BY TypeStep DEF IInv
<1>1. ASSUME NEW c \in Callers, NEW m \in Methods, Enter(c, m)
      PROVE  IInv'
  <2>1. CallingHoldsLock'
    BY <1>0, <1>1, EnqueueKeepsOwner
       DEF Enter, IInv, CallingHoldsLock, TypeOK
  <2>2. QED
    BY <1>0, <1>1, <2>1
       DEF Enter, IInv, RepliesTrue, OpenIsAwaited, UnusedIsUnserved,
           AnsweredIsLearned, EndHasCause, TerminalIsServers, OutcomesAreTrue
<1>2. ASSUME NEW c \in Callers, RejectClosed(c)
      PROVE  IInv'
  BY <1>2, EndsLocallyInv DEF RejectClosed, Proceeds, Endings
<1>3. ASSUME NEW c \in Callers, ReturnCachedAbort(c)
      PROVE  IInv'
  <2>1. aborted \in Results \cup {None} /\ aborted = finished
    BY <1>0, <1>3
       DEF TypeOK, ReturnCachedAbort, HasCachedAbort, IInv, TerminalIsServers
  <2>2. QED
    BY <1>3, <2>1, EndsLocallyInv DEF ReturnCachedAbort, Proceeds, Endings
<1>4. ASSUME NEW c \in Callers, RejectFinished(c)
      PROVE  IInv'
  <2>1. finished # None
    BY <1>4 DEF RejectFinished, KnownFinished, IInv, TerminalIsServers
  <2>2. QED
    BY <1>4, <2>1, EndsLocallyInv DEF RejectFinished, Proceeds, Endings
<1>5. ASSUME NEW c \in Callers, RejectInput(c)
      PROVE  IInv'
  BY <1>5, EndsLocallyInv DEF RejectInput, MaySend, Proceeds, Endings
<1>6. ASSUME NEW c \in Callers, NEW k \in Keys, Send(c, k)
      PROVE  IInv'
  <2>1. /\ pc[c] \in AtLock /\ Holds(lock, c) /\ fate[k] = "unused"
        /\ key[c] = None
    BY <1>0, <1>6 DEF Send, MaySend, Proceeds, Unused, TypeOK
  <2>2. \A d \in Callers : pc[d] # "calling"
    BY <2>1 DEF IInv, CallingHoldsLock, Holds
  <2>3. CallingHoldsLock'
    BY <1>0, <1>6, <2>1, <2>2 DEF Send, CallingHoldsLock, TypeOK
  <2>4. OpenIsAwaited'
    <3> SUFFICES ASSUME NEW l \in Keys, fate'[l] = "open"
                 PROVE  \E d \in Callers : key'[d] = l
      BY DEF OpenIsAwaited
    <3>1. CASE l = k
      BY <1>0, <1>6, <3>1 DEF Send, TypeOK
    <3>2. CASE l # k
      BY <1>0, <1>6, <2>1, <3>2, SessionAssumption
         DEF Send, TypeOK, IInv, OpenIsAwaited
    <3>3. QED
      BY <3>1, <3>2
  <2>5. UnusedIsUnserved' /\ AnsweredIsLearned'
    BY <1>0, <1>6
       DEF Send, TypeOK, IInv, UnusedIsUnserved, AnsweredIsLearned
  <2>6. QED
    BY <1>0, <1>6, <2>3, <2>4, <2>5
       DEF Send, IInv, RepliesTrue, EndHasCause, TerminalIsServers,
           OutcomesAreTrue
<1>7. ASSUME NEW c \in Callers, ReceiveTool(c)
      PROVE  IInv'
  <2>1. PICK a \in AnswersFor(c) :
              /\ ToolAnswerAccepted(a) /\ LearnFromTool(a)
              /\ Settles(c, "answered", "returned", a.result)
    BY <1>7 DEF ReceiveTool
  <2>2. /\ a \in Answers /\ a.result \in Results \cup {None}
        /\ reply[key[c]] # None /\ a = Genuine(key[c])
    BY <1>7, <2>1
       DEF ReceiveTool, AnswersFor, Malformed, ToolAnswerAccepted, Answers
  <2>3. a.result = reply[key[c]].result /\ key[c] \in Keys
    BY <1>0, <1>7, <2>2 DEF Genuine, TypeOK, ReceiveTool
  <2>4. a.result # None => a.result = finished
    BY <2>2, <2>3 DEF IInv, RepliesTrue
  <2>5. /\ terminal # None => terminal' = terminal
        /\ TerminalIsServers' /\ UNCHANGED finished
    BY <2>1, <2>4
       DEF LearnFromTool, IInv, TerminalIsServers, Settles
  <2>6. terminal' \in Results \cup {None} /\ aborted' \in Results \cup {None}
    BY <1>0 DEF TypeOK
  <2>7. a.result # None => terminal' = a.result
    BY <2>1 DEF LearnFromTool
  <2>8. pc[c] = "calling" /\ "returned" \in Endings
    BY <1>7 DEF ReceiveTool, Endings
  <2>9. QED
    BY <2>1, <2>2, <2>3, <2>4, <2>5, <2>6, <2>7, <2>8, SettlesInv
<1>8. ASSUME NEW c \in Callers, ReceiveAbort(c)
      PROVE  IInv'
  <2>1. PICK a \in AnswersFor(c) :
              /\ AbortAnswerAccepted(a) /\ LearnFromAbort(a)
              /\ Settles(c, "answered", "returned", a.result)
    BY <1>8 DEF ReceiveAbort
  <2>2. /\ a \in Answers /\ a.result \in Results \cup {None}
        /\ reply[key[c]] # None /\ a = Genuine(key[c])
    BY <1>8, <2>1
       DEF ReceiveAbort, AnswersFor, Malformed, AbortAnswerAccepted, Answers
  <2>3. a.result = reply[key[c]].result /\ key[c] \in Keys
    BY <1>0, <1>8, <2>2 DEF Genuine, TypeOK, ReceiveAbort
  <2>4. a.result = finished
    BY <2>1, <2>2, <2>3 DEF IInv, RepliesTrue, AbortAnswerAccepted
  <2>5. /\ terminal # None => terminal' = terminal
        /\ TerminalIsServers' /\ UNCHANGED finished
    BY <2>1, <2>4
       DEF LearnFromAbort, IInv, TerminalIsServers, Settles
  <2>6. terminal' \in Results \cup {None} /\ aborted' \in Results \cup {None}
    BY <1>0 DEF TypeOK
  <2>7. terminal' = a.result
    BY <2>1 DEF LearnFromAbort
  <2>8. pc[c] = "calling" /\ "returned" \in Endings
    BY <1>8 DEF ReceiveAbort, Endings
  <2>9. QED
    BY <2>1, <2>2, <2>3, <2>4, <2>5, <2>6, <2>7, <2>8, SettlesInv
<1>9. ASSUME NEW c \in Callers, RefuseAnswer(c)
      PROVE  IInv'
  BY <1>9, SettlesUnlearned DEF RefuseAnswer, Endings
<1>10. ASSUME NEW c \in Callers, ReceiveRejection(c)
       PROVE  IInv'
  <2>1. key[c] \in Keys
    BY <1>0, <1>10 DEF ReceiveRejection, TypeOK
  <2>2. finished # None /\ reply[key[c]] # None /\ reply[key[c]].result = None
    BY <1>10, <2>1 DEF ReceiveRejection, IInv, RepliesTrue
  <2>3. QED
    BY <1>10, <2>2, SettlesUnlearned DEF ReceiveRejection, Endings
<1>11. ASSUME NEW c \in Callers, Fail(c)
       PROVE  IInv'
  BY <1>11, SettlesUnlearned DEF Fail, Endings
<1>12. ASSUME NEW c \in Callers, CancelWaiting(c)
       PROVE  IInv'
  BY <1>12, EndsLocallyInv DEF CancelWaiting, Endings
<1>13. ASSUME NEW c \in Callers, CancelCalling(c)
       PROVE  IInv'
  BY <1>13, SettlesUnlearned DEF CancelCalling, Endings
<1>14. CASE CloseClient
  BY <1>0, <1>14
     DEF CloseClient, IInv, RepliesTrue, CallingHoldsLock, OpenIsAwaited,
         UnusedIsUnserved, AnsweredIsLearned, EndHasCause, TerminalIsServers,
         OutcomesAreTrue
<1>15. ASSUME NEW k \in Keys, ServeTool(k)
       PROVE  IInv'
  <2>1. PICK r \in Results \cup {None} : finished' = r /\ Stores(k, FALSE, r)
    BY <1>15 DEF ServeTool
  <2>2. QED
    BY <1>15, <2>1, StoresInv DEF ServeTool
<1>16. ASSUME NEW k \in Keys, ServeAbort(k)
       PROVE  IInv'
  <2>1. PICK r \in Results : finished' = r /\ Stores(k, FALSE, r)
    BY <1>16 DEF ServeAbort
  <2>2. QED
    BY <1>16, <2>1, StoresInv DEF ServeAbort
<1>17. ASSUME NEW k \in Keys, ServeFinished(k)
       PROVE  IInv'
  <2>1. finished \in Results \cup {None} /\ finished # None /\ finished' = finished
    BY <1>0, <1>17 DEF ServeFinished, TypeOK
  <2>2. CASE Stores(k, TRUE, None)
    BY <1>17, <2>1, <2>2, StoresInv DEF ServeFinished
  <2>3. CASE Stores(k, FALSE, finished)
    BY <1>17, <2>1, <2>3, StoresInv DEF ServeFinished
  <2>4. QED
    BY <1>17, <2>2, <2>3 DEF ServeFinished
<1>18. CASE ServerEndsTask
  BY <1>0, <1>18
     DEF ServerEndsTask, IInv, RepliesTrue, CallingHoldsLock, OpenIsAwaited,
         UnusedIsUnserved, AnsweredIsLearned, EndHasCause, TerminalIsServers,
         OutcomesAreTrue
<1>19. CASE UNCHANGED vars
  BY <1>0, <1>19
     DEF vars, IInv, RepliesTrue, CallingHoldsLock, OpenIsAwaited, Holds,
         UnusedIsUnserved, AnsweredIsLearned, EndHasCause, TerminalIsServers,
         OutcomesAreTrue
<1>20. QED
  BY <1>1, <1>2, <1>3, <1>4, <1>5, <1>6, <1>7, <1>8, <1>9, <1>10, <1>11,
     <1>12, <1>13, <1>14, <1>15, <1>16, <1>17, <1>18, <1>19
     DEF Next, Begin, Settle, Cancel, Serve

LEMMA Invariant == Spec => []IInv
<1>1. IInv /\ [Next]_vars => IInv'
  BY InvStep
<1>2. QED
  BY InvInit, <1>1, PTL DEF Spec

----
(* The theorems *)

\* Whatever a faulty transport answers and in whatever order requests are
\* served, _terminal_result and _aborted_result only ever hold the server's
\* result of this task.
THEOREM SessionAgreesWithServer == Spec => []TerminalIsServers
<1>1. IInv => TerminalIsServers
  BY DEF IInv
<1>2. QED
  BY Invariant, <1>1, PTL

\* The session's lock serializes the requests about the task: one at most is
\* awaited, and the server can be late only with abandoned ones.
THEOREM SessionSerializesRequests == Spec => []RequestsInOrder
<1>1. IInv => RequestsInOrder
  <2> SUFFICES ASSUME IInv
               PROVE  RequestsInOrder
    OBVIOUS
  <2>1. ASSUME NEW k \in Keys, NEW l \in Keys, fate[k] = "open", fate[l] = "open"
        PROVE  k = l
    <3>1. PICK c \in Callers, d \in Callers : key[c] = k /\ key[d] = l
      BY <2>1 DEF IInv, OpenIsAwaited
    <3>2. pc[c] = "calling" /\ pc[d] = "calling"
      BY <3>1, SessionAssumption DEF IInv, TypeOK
    <3>3. c = d
      BY <3>2 DEF IInv, CallingHoldsLock, Holds
    <3>4. QED
      BY <3>1, <3>3
  <2>2. QED
    BY <2>1 DEF RequestsInOrder, IInv, AnsweredIsLearned, OpenIsAwaited
<1>2. QED
  BY Invariant, <1>1, PTL

\* With an open client the session misses the end of its task only when the
\* reply that carries the result was lost or is still awaited.
THEOREM SessionMissesOnlyLostEnds == Spec => []EndMissedOnlyIfLost
<1>1. IInv => EndMissedOnlyIfLost
  <2> SUFFICES ASSUME IInv, open, finished # None, terminal = None
               PROVE  \E k \in Keys : /\ fate[k] \in {"open", "abandoned"}
                                      /\ reply[k] # None
                                      /\ reply[k].result = finished
    BY DEF EndMissedOnlyIfLost
  <2>1. PICK k \in Keys : reply[k] # None /\ reply[k].result = finished
    BY DEF IInv, EndHasCause
  <2>2. fate[k] # "unused" /\ fate[k] # "answered"
    BY <2>1 DEF IInv, UnusedIsUnserved, AnsweredIsLearned
  <2>3. QED
    BY <2>1, <2>2 DEF IInv, TypeOK
<1>2. QED
  BY Invariant, <1>1, PTL

\* No caller is told a false end of the task.
THEOREM SessionTellsTheTruth == Spec => []OutcomesAreTrue
<1>1. IInv => OutcomesAreTrue
  BY DEF IInv
<1>2. QED
  BY Invariant, <1>1, PTL

\* The end of an RPC frees no identifier for a second use.
LEMMA SettlesKeepsUnused ==
    ASSUME IInv, NEW c \in Callers, pc[c] = "calling", NEW e, NEW r,
           NEW f \in {"answered", "abandoned"}, Settles(c, f, e, r)
    PROVE  Unused' = Unused
<1>1. key[c] \in Keys /\ fate[key[c]] = "open"
  BY DEF IInv, TypeOK, CallingHoldsLock
<1>2. QED
  BY <1>1 DEF IInv, TypeOK, Settles, Unused

\* Once the end of the task is known, or the client is closed, no request
\* about the task leaves the session, whoever was queued for the lock.
THEOREM SessionSendsNothingLate == Spec => NoLateRequest
<1>1. IInv /\ [Next]_vars => [terminal # None \/ ~open => Unused' = Unused]_vars
  <2> SUFFICES ASSUME IInv, Next, terminal # None \/ ~open
               PROVE  Unused' = Unused
    OBVIOUS
  <2>1. ASSUME NEW c \in Callers, NEW k \in Keys, Send(c, k)
        PROVE  FALSE
    BY <2>1 DEF Send, MaySend, ClientClosed, KnownFinished
  <2>2. ASSUME NEW c \in Callers, Begin(c) \/ CancelWaiting(c)
        PROVE  Unused' = Unused
    BY <2>1, <2>2
       DEF Begin, RejectClosed, ReturnCachedAbort, RejectFinished, RejectInput,
           CancelWaiting, EndsLocally, Unused
  <2>3. ASSUME NEW c \in Callers, Settle(c) \/ CancelCalling(c)
        PROVE  Unused' = Unused
    BY <2>3, SettlesKeepsUnused
       DEF Settle, ReceiveTool, ReceiveAbort, RefuseAnswer, ReceiveRejection,
           Fail, CancelCalling
  <2>4. ASSUME NEW c \in Callers, NEW m \in Methods, Enter(c, m)
        PROVE  Unused' = Unused
    BY <2>4 DEF Enter, Unused
  <2>5. ASSUME NEW k \in Keys, Serve(k)
        PROVE  Unused' = Unused
    BY <2>5 DEF Serve, ServeTool, ServeAbort, ServeFinished, Stores, Unused
  <2>6. CASE CloseClient \/ ServerEndsTask
    BY <2>6 DEF CloseClient, ServerEndsTask, Unused
  <2>7. QED
    BY <2>2, <2>3, <2>4, <2>5, <2>6 DEF Next, Cancel
<1>2. QED
  BY Invariant, <1>1, PTL DEF Spec, NoLateRequest

\* After a successful abort every repetition through an open client returns the
\* cached result.
THEOREM SessionAbortIsIdempotent == Spec => AbortIsIdempotent
<1> DEFINE Repeats(c) ==
        \/ outcome'[c].ending = "CancelledError"
        \/ outcome'[c] = [ending |-> "returned", result |-> aborted]
<1>1. ASSUME IInv, [Next]_vars, NEW c \in Callers, aborted # None, open,
             op[c] = "abort_task", pc[c] \in AtLock, pc'[c] = "idle"
      PROVE  Repeats(c)
  <2> USE DEF IInv, TypeOK
  <2>1. ASSUME NEW d \in Callers, RejectClosed(d) \/ RejectFinished(d)
                                     \/ RejectInput(d)
        PROVE  Repeats(c)
    <3>1. d # c
      BY <1>1, <2>1
         DEF RejectClosed, RejectFinished, RejectInput, MaySend, ClientClosed,
             HasCachedAbort
    <3>2. QED
      BY <1>1, <2>1, <3>1, EndsKeepsOthers
         DEF RejectClosed, RejectFinished, RejectInput, EndsLocally
  <2>2. ASSUME NEW d \in Callers, ReturnCachedAbort(d) \/ CancelWaiting(d)
        PROVE  Repeats(c)
    <3>1. CASE d = c
      <4>1. CASE ReturnCachedAbort(c)
        BY <1>1, <4>1 DEF ReturnCachedAbort, EndsLocally, Ends
      <4>2. CASE CancelWaiting(c)
        BY <1>1, <4>2 DEF CancelWaiting, EndsLocally, Ends
      <4>3. QED
        BY <2>2, <3>1, <4>1, <4>2
    <3>2. CASE d # c
      BY <1>1, <2>2, <3>2, EndsKeepsOthers
         DEF ReturnCachedAbort, CancelWaiting, EndsLocally
    <3>3. QED
      BY <3>1, <3>2
  <2>3. ASSUME NEW d \in Callers, Settle(d) \/ CancelCalling(d)
        PROVE  Repeats(c)
    <3>1. d # c
      BY <1>1, <2>3
         DEF Settle, ReceiveTool, ReceiveAbort, RefuseAnswer,
             ReceiveRejection, Fail, CancelCalling
    <3>2. QED
      BY <1>1, <2>3, <3>1, EndsKeepsOthers
         DEF Settle, ReceiveTool, ReceiveAbort, RefuseAnswer,
             ReceiveRejection, Fail, CancelCalling, Settles
  <2>4. ASSUME NEW d \in Callers, NEW k \in Keys, Send(d, k)
        PROVE  Repeats(c)
    BY <1>1, <2>4 DEF Send
  <2>5. ASSUME NEW d \in Callers, NEW m \in Methods, Enter(d, m)
        PROVE  Repeats(c)
    BY <1>1, <2>5 DEF Enter
  <2>6. ASSUME NEW k \in Keys, Serve(k)
        PROVE  Repeats(c)
    BY <1>1, <2>6
       DEF Serve, ServeTool, ServeAbort, ServeFinished, Stores, callerVars
  <2>7. CASE CloseClient \/ ServerEndsTask \/ UNCHANGED vars
    BY <1>1, <2>7 DEF CloseClient, ServerEndsTask, callerVars, vars
  <2>8. QED
    BY <1>1, <2>1, <2>2, <2>3, <2>4, <2>5, <2>6, <2>7
       DEF Next, Begin, Cancel
<1>2. ASSUME IInv, [Next]_vars
      PROVE  [\A c \in Callers :
                 /\ aborted # None
                 /\ open
                 /\ op[c] = "abort_task"
                 /\ pc[c] \in AtLock
                 /\ pc'[c] = "idle"
                 => Repeats(c)]_vars
  BY <1>1, <1>2
<1>3. QED
  BY Invariant, <1>2, PTL DEF Spec, AbortIsIdempotent

\* The session implements the outcome register: for every behaviour of callers,
\* transport and server there is one of TaskOutcome with the same result,
\* terminal and aborted results.
THEOREM SessionImplementsTaskOutcome == Spec => ImplementsTaskOutcome
<1> DEFINE AbstractNext == [Outcome!Next]_(Outcome!vars)
<1>1. Init => Outcome!Init
  BY DEF Init, Outcome!Init
<1>2. IInv /\ [Next]_vars => AbstractNext
  <2> SUFFICES ASSUME IInv, [Next]_vars
               PROVE  AbstractNext
    OBVIOUS
  <2> USE DEF Outcome!Next, Outcome!vars, sessionVars, serverVars
  <2>1. ASSUME NEW c \in Callers, ReceiveTool(c)
        PROVE  AbstractNext
    <3>1. PICK a \in Answers : LearnFromTool(a) /\ UNCHANGED finished
      BY <2>1 DEF ReceiveTool, AnswersFor, Settles
    <3>2. CASE a.result # None
      <4>1. terminal' = finished' /\ finished # None /\ UNCHANGED aborted
        BY <3>1, <3>2, InvStep DEF LearnFromTool, IInv, TerminalIsServers
      <4>2. QED
        BY <3>1, <4>1 DEF Outcome!LearnFromTool
    <3>3. CASE a.result = None
      BY <3>1, <3>3 DEF LearnFromTool
    <3>4. QED
      BY <3>2, <3>3
  <2>2. ASSUME NEW c \in Callers, ReceiveAbort(c)
        PROVE  AbstractNext
    <3>1. PICK a \in Answers : /\ LearnFromAbort(a) /\ UNCHANGED finished
                               /\ AbortAnswerAccepted(a)
      BY <2>2 DEF ReceiveAbort, AnswersFor, Settles
    <3>2. terminal' = finished' /\ aborted' = finished' /\ finished # None
      BY <3>1, InvStep
         DEF LearnFromAbort, AbortAnswerAccepted, IInv, TerminalIsServers
    <3>3. QED
      BY <3>1, <3>2 DEF Outcome!LearnFromAbort
  <2>3. ASSUME NEW k \in Keys, Serve(k)
        PROVE  AbstractNext
    <3>1. /\ UNCHANGED <<terminal, aborted>>
          /\ UNCHANGED finished \/ finished = None
      BY <2>3 DEF Serve, ServeTool, ServeAbort, ServeFinished, Stores
    <3>2. finished' \in Results \cup {None}
      BY InvStep DEF IInv, TypeOK
    <3>3. QED
      BY <3>1, <3>2 DEF Outcome!Finish
  <2>4. CASE ServerEndsTask
    BY <2>4 DEF ServerEndsTask, Outcome!Finish
  <2>5. ASSUME NEW c \in Callers, NEW m \in Methods, Enter(c, m)
        PROVE  AbstractNext
    BY <2>5 DEF Enter
  <2>6. ASSUME NEW c \in Callers, Begin(c) \/ Cancel(c)
        PROVE  AbstractNext
    BY <2>6
       DEF Begin, Cancel, RejectClosed, ReturnCachedAbort, RejectFinished,
           RejectInput, Send, CancelWaiting, CancelCalling, EndsLocally,
           Settles
  <2>7. ASSUME NEW c \in Callers,
               RefuseAnswer(c) \/ ReceiveRejection(c) \/ Fail(c)
        PROVE  AbstractNext
    BY <2>7 DEF RefuseAnswer, ReceiveRejection, Fail, Settles
  <2>8. CASE CloseClient
    BY <2>8 DEF CloseClient
  <2>9. CASE UNCHANGED vars
    BY <2>9 DEF vars
  <2>10. QED
    BY <2>1, <2>2, <2>3, <2>4, <2>5, <2>6, <2>7, <2>8, <2>9
       DEF Next, Settle
<1>3. QED
  BY <1>1, <1>2, Invariant, PTL DEF Spec, ImplementsTaskOutcome, Outcome!Spec

====
