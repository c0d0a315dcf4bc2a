---- MODULE AgentProofs ----
(***************************************************************************)
(* Theorems about Agent, for every finite queue of tasks, every budget of  *)
(* steps and every number of attempts for a step.                          *)
(***************************************************************************)
EXTENDS Agent, SharedLemmas, SequenceTheorems

----
(* The inductive invariant *)

Messages ==
    [role : {"system", "instructed", "user", "assistant", "tool"}, id : Nat]

\* A conversation of n turns: the opening, and each tool call with its answer.
Turns(s, n) ==
    /\ s \in Seq(Messages)
    /\ Len(s) = 2 * n + 2
    /\ s[1] = Message("system", 0)
    /\ s[2] = Message("user", 0)
    /\ \A k \in 1 .. n :
        /\ s[2 * k + 1] = Message("assistant", k)
        /\ s[2 * k + 2] = Message("tool", k)

\* A request shows the conversation s of n turns under the instruction, with one
\* pair of messages for each of m repairs.
Shows(r, s, n, m) ==
    /\ r \in Seq(Messages)
    /\ Len(r) = 2 * n + 2 + 2 * m
    /\ r[1] = Message("instructed", 0)
    /\ \A i \in 2 .. 2 * n + 2 : r[i] = s[i]
    /\ \A k \in 1 .. m :
        /\ r[2 * n + 2 * k + 1] = Message("assistant", 0)
        /\ r[2 * n + 2 * k + 2] = Message("user", 0)

\* The conversation has one turn for every step before the present one.
ConversationIsTurns ==
    /\ pc \in {"thinking", "calling"} => step >= 1
    /\ pc = "thinking" =>
        /\ Turns(messages, step - 1)
        /\ Shows(request, messages, step - 1, attempt - 1)
    /\ pc = "calling" =>
        \E s \in Seq(Messages) :
            Turns(s, step - 1) /\ messages = Append(s, Message("assistant", step))

\* The agent is answered what it asks.
AnswersFit ==
    /\ pc = "leasing" => answer \in [task : Tasks \cup {None}] \cup {None}
    /\ pc \in {"calling", "aborting"} =>
        answer \in [result : Completions \cup {None}] \cup {None}

Collected == {results[i].task : i \in DOMAIN results}

Leased == Tasks \ queue

LeaseRequest == [rpc |-> "LeaseTask", task |-> None]

\* The agent leases when it has a result for all it has leased, and one lease at
\* a time.
OneTaskAtATime ==
    /\ pc = "start" => wire = {} /\ queue = Tasks /\ results = << >>
    /\ pc = "leasing" /\ answer = None => Collected = Leased
    /\ pc = "leasing" /\ answer # None =>
        /\ LeaseRequest \notin wire
        /\ answer.task \in Leased \cup {None}
        /\ answer.task = None => queue = {}
        /\ Collected = Leased \ {answer.task}
    /\ pc \in {"thinking", "calling", "aborting"} =>
        /\ LeaseRequest \notin wire
        /\ task \in Leased
        /\ Collected = Leased \ {task}

ResultsAreDistinct ==
    \A i, j \in DOMAIN results : results[i].task = results[j].task => i = j

\* What the agent is told of a task is what became of it.
ResultsAreFinal ==
    /\ \A i \in DOMAIN results : results[i].reason = finished[results[i].task]
    /\ pc \in {"calling", "aborting"} /\ answer # None /\ answer.result # None =>
        finished[task] = answer.result

\* The report is about the whole queue and about tasks that are over.
ReportIsFinal ==
    /\ ReportComplete
    /\ report # None => \A t \in Tasks : finished[t] # None

IInv ==
    /\ TypeOK
    /\ AnswersFit
    /\ ConversationIsTurns
    /\ OneTaskAtATime
    /\ ResultsAreDistinct
    /\ ResultsAreFinal
    /\ ReportIsFinal

----
(* Types *)

TypeInv == TypeOK /\ AnswersFit

LEMMA TypeStep == TypeInv /\ [Next]_vars => TypeInv'
<1> SUFFICES ASSUME TypeInv, [Next]_vars
             PROVE  TypeInv'
  OBVIOUS
<1> USE AgentAssumption, StepClientAssumption, NoneAssumption DEF TypeInv, TypeOK, AnswersFit
<1>1. CASE UNCHANGED vars
  BY <1>1 DEF vars, taskVars, stepVars, runVars, serverVars, netVars
<1>2. CASE RejectUnopened \/ RejectClosed
  BY <1>2 DEF RejectUnopened, RejectClosed, RunEnds, stepVars, serverVars, netVars, Endings
<1>3. CASE Start
  BY <1>3
     DEF Start, Leases, Sends, taskVars, stepVars, runVars, serverVars
<1>4. CASE LeaseFails \/ AbortRefused \/ AbortFails
  BY <1>4
     DEF LeaseFails, AbortRefused, AbortFails, RunEnds, stepVars, serverVars, netVars, Endings
<1>5. CASE ReceiveExhausted
  BY <1>5 DEF ReceiveExhausted, RunEnds, stepVars, serverVars, netVars, Endings
<1>6. CASE ReceiveTask
  <2>1. answer.task \in Tasks
    BY <1>6 DEF ReceiveTask, Answers
  <2>2. QED
    BY <1>6, <2>1
       DEF ReceiveTask, Asks, Aborts, Sends, stepVars, runVars, serverVars, netVars
<1>7. ASSUME NEW reason \in Completions, Collects(reason), pc \in {"aborting", "calling"}
      PROVE  TypeInv'
  <2>1. [task |-> task, reason |-> reason] \in [task : Tasks, reason : Completions]
    BY <1>7
  <2>2. results' \in Seq([task : Tasks, reason : Completions])
    BY <1>7, <2>1 DEF Collects
  <2>3. QED
    BY <1>7, <2>2 DEF Collects, Leases, Sends, taskVars, stepVars, serverVars
<1>8. CASE ReceiveAborted \/ ReceiveResult
  <2>1. answer.result \in Completions
    BY <1>8 DEF ReceiveAborted, ReceiveResult, Answers
  <2>2. QED
    BY <1>7, <1>8, <2>1 DEF ReceiveAborted, ReceiveResult
<1>9. ASSUME NEW s, NextTurn(s), pc \in {"thinking", "calling"}
      PROVE  TypeInv'
  BY <1>9
     DEF NextTurn, Budget, Asks, HandlesFailure, Aborts, Sends, Ends, runVars, serverVars, netVars
<1>10. CASE RejectTool \/ ReceiveFeedback
  BY <1>9, <1>10 DEF RejectTool, ReceiveFeedback
<1>11. CASE CallTool
  BY <1>11 DEF CallTool, Sends, Ends, runVars, serverVars
<1>12. CASE RepairStep
  BY <1>12 DEF RepairStep, Repairs, runVars, serverVars, netVars
<1>13. CASE ArgumentsInvalid \/ StepFails \/ ToolFails
  BY <1>13
     DEF ArgumentsInvalid, StepFails, ToolFails, TaskFails, HandlesFailure, Aborts, Sends, Ends,
         RaisesInvalid, RaisesUnusable, runVars, serverVars
<1>14. CASE LeaveContexts
  BY <1>14 DEF LeaveContexts, taskVars, stepVars, serverVars, netVars, Endings
<1>15. CASE Cancel
  <2>1. /\ pc' = "leaving" /\ ending' \in Endings /\ attempt' = 0
        /\ UNCHANGED <<task, step, results, report, printed, client, queue, finished, wire, answer>>
    BY <1>15 DEF Cancel, RunEnds, Ends, serverVars, netVars, Endings
  <2>2. QED
    BY <2>1
<1>16. ASSUME NEW rpc, NEW t, NEW reply, Serves(rpc, t, reply),
              \/ rpc = "LeaseTask" /\ reply \in [task : Tasks \cup {None}]
              \/ rpc \in {"CallTool", "AbortTask"} /\ reply \in [result : Completions \cup {None}]
       PROVE  /\ wire' \subseteq wire /\ answer' \in Answers \cup {None} /\ AnswersFit'
              /\ UNCHANGED <<pc, taskVars, runVars>>
  <2>1. /\ wire' \subseteq wire /\ UNCHANGED <<pc, taskVars, runVars>>
        /\ answer' = answer \/ (pc = Awaiting(rpc) /\ answer' = reply)
    BY <1>16 DEF Serves
  <2>2. Awaiting(rpc) = "leasing" <=> rpc = "LeaseTask"
    BY <1>16 DEF Awaiting
  <2>3. QED
    BY <1>16, <2>1, <2>2 DEF Answers
<1>17. CASE ServeLease
  <2>1. PICK u \in Tasks \cup {None} :
            Serves("LeaseTask", None, [task |-> u]) /\ queue' \subseteq queue
    BY <1>17 DEF ServeLease
  <2>2. /\ wire' \subseteq wire /\ answer' \in Answers \cup {None} /\ AnswersFit'
        /\ UNCHANGED <<pc, taskVars, runVars>>
    BY <1>16, <2>1
  <2>3. QED
    BY <1>17, <2>1, <2>2 DEF ServeLease, taskVars, stepVars, runVars
<1>18. ASSUME NEW u \in Tasks, ServeTool(u) \/ ServeAbort(u) \/ ServeLateAbort(u)
       PROVE  TypeInv'
  <2>1. PICK rpc \in {"CallTool", "AbortTask"}, r \in Completions \cup {None} :
            Serves(rpc, u, [result |-> r])
    BY <1>18 DEF ServeTool, ServeAbort, ServeLateAbort, Completions
  <2>2. /\ wire' \subseteq wire /\ answer' \in Answers \cup {None} /\ AnswersFit'
        /\ UNCHANGED <<pc, taskVars, runVars>>
    BY <1>16, <2>1
  <2>3. /\ queue' = queue
        /\ \/ finished' = finished
           \/ \E v \in Completions \cup {None} : finished' = [finished EXCEPT ![u] = v]
    BY <1>18 DEF ServeTool, ServeAbort, ServeLateAbort, serverVars, Completions
  <2>4. QED
    BY <2>2, <2>3 DEF taskVars, stepVars, runVars
<1>19. QED
  BY <1>1, <1>2, <1>3, <1>4, <1>5, <1>6, <1>8, <1>10, <1>11, <1>12, <1>13, <1>14, <1>15, <1>17,
     <1>18 DEF Next, Step, Serve

----
(* The conversation *)

LEMMA MessageType ==
    ASSUME NEW role \in {"system", "instructed", "user", "assistant", "tool"}, NEW id \in Nat
    PROVE  Message(role, id) \in Messages
BY DEF Message, Messages

LEMMA OpeningIsTurns == Turns(Opening, 0)
BY MessageType DEF Turns, Opening

\* What an element more does to a sequence.
LEMMA OneMore ==
    ASSUME NEW S, NEW q \in Seq(S), NEW e \in S, NEW r, r = Append(q, e)
    PROVE  /\ r \in Seq(S) /\ Len(r) = Len(q) + 1
           /\ \A i \in 1 .. Len(q) : r[i] = q[i]
           /\ r[Len(q) + 1] = e
BY AppendProperties

\* A tool call and its answer are one turn more.
LEMMA AnotherTurn ==
    ASSUME NEW n \in Nat, NEW s, Turns(s, n), NEW r,
           \/ r = s \o <<Message("assistant", n + 1), Message("tool", n + 1)>>
           \/ r = Append(Append(s, Message("assistant", n + 1)), Message("tool", n + 1))
    PROVE  Turns(r, n + 1)
<1> DEFINE a == Message("assistant", n + 1)
           b == Message("tool", n + 1)
<1>1. a \in Messages /\ b \in Messages
  BY MessageType
<1>2. s \in Seq(Messages) /\ Len(s) = 2 * n + 2
  BY DEF Turns
<1>3. /\ r \in Seq(Messages) /\ Len(r) = 2 * n + 4
      /\ \A i \in 1 .. 2 * n + 2 : r[i] = s[i]
      /\ r[2 * n + 3] = a /\ r[2 * n + 4] = b
  <2> HIDE DEF a, b
  <2>1. CASE r = s \o <<a, b>>
    <3> DEFINE p == <<a, b>>
    <3>1. p \in Seq(Messages) /\ Len(p) = 2 /\ p[1] = a /\ p[2] = b
      BY <1>1
    <3> HIDE DEF p
    <3>2. r \in Seq(Messages) /\ Len(r) = Len(s) + Len(p)
          /\ \A i \in 1 .. Len(s) + Len(p) : r[i] = IF i <= Len(s) THEN s[i] ELSE p[i - Len(s)]
      BY <1>2, <2>1, <3>1, ConcatProperties DEF p
    <3>3. QED
      BY <1>2, <3>1, <3>2
  <2>2. CASE r = Append(Append(s, a), b)
    <3> DEFINE u == Append(s, a)
    <3>1. u = Append(s, a) /\ r = Append(u, b)
      BY <2>2
    <3> HIDE DEF u
    <3>2. /\ u \in Seq(Messages) /\ Len(u) = Len(s) + 1
          /\ \A i \in 1 .. Len(s) : u[i] = s[i]
          /\ u[Len(s) + 1] = a
      <4>1. s \in Seq(Messages) /\ a \in Messages /\ u = Append(s, a)
        BY <1>1, <1>2, <3>1
      <4>2. QED
        BY <4>1, OneMore
    <3>3. /\ r \in Seq(Messages) /\ Len(r) = Len(u) + 1
          /\ \A i \in 1 .. Len(u) : r[i] = u[i]
          /\ r[Len(u) + 1] = b
      <4>1. u \in Seq(Messages) /\ b \in Messages /\ r = Append(u, b)
        BY <1>1, <3>1, <3>2
      <4>2. QED
        BY <4>1, OneMore
    <3>4. QED
      BY <1>2, <3>2, <3>3
  <2>3. QED
    BY <2>1, <2>2 DEF a, b
<1>4. Turns(r, n + 1)
  <2> SUFFICES ASSUME NEW k \in 1 .. n + 1
               PROVE  r[2 * k + 1] = Message("assistant", k) /\ r[2 * k + 2] = Message("tool", k)
    <3>1. Len(r) = 2 * (n + 1) + 2 /\ r[1] = s[1] /\ r[2] = s[2]
      <4>1. 1 \in 1 .. 2 * n + 2 /\ 2 \in 1 .. 2 * n + 2
        OBVIOUS
      <4>2. QED
        BY <1>3, <4>1
    <3>2. QED
      BY <1>3, <3>1 DEF Turns
  <2>1. CASE k = n + 1
    BY <1>3, <2>1
  <2>2. CASE k \in 1 .. n
    BY <1>3, <2>2 DEF Turns
  <2>3. QED
    BY <2>1, <2>2
<1>5. QED
  BY <1>4

\* The first request for a step shows the conversation under the instruction.
LEMMA AsksShows ==
    ASSUME NEW n \in Nat, NEW s, Turns(s, n)
    PROVE  Shows(Instructed(s), s, n, 0)
<1> DEFINE i == Message("instructed", 0)
<1>1. s \in Seq(Messages) /\ Len(s) = 2 * n + 2 /\ s[1].role = "system"
  BY DEF Turns, Message
<1>2. Instructed(s) = <<i>> \o Tail(s)
  BY <1>1 DEF Instructed
<1>3. i \in Messages
  BY MessageType
<1> HIDE DEF i
<1>4. /\ Tail(s) \in Seq(Messages) /\ Len(Tail(s)) = 2 * n + 1
      /\ \A k \in 1 .. 2 * n + 1 : Tail(s)[k] = s[k + 1]
  BY <1>1
<1> DEFINE p == <<i>>
           q == Tail(s)
<1>5. p \in Seq(Messages) /\ Len(p) = 1 /\ p[1] = i
  BY <1>3
<1> HIDE DEF p, q
<1>6. p \o q \in Seq(Messages) /\ Len(p \o q) = Len(p) + Len(q)
      /\ \A k \in 1 .. Len(p) + Len(q) : (p \o q)[k] = IF k <= Len(p) THEN p[k] ELSE q[k - Len(p)]
  BY <1>4, <1>5, ConcatProperties DEF q
<1> DEFINE r == p \o q
<1> HIDE DEF r
<1>7. /\ r \in Seq(Messages) /\ Len(r) = 2 * n + 2 /\ r[1] = i
      /\ \A k \in 2 .. 2 * n + 2 : r[k] = s[k]
  <2>1. /\ Len(q) = 2 * n + 1 /\ \A k \in 1 .. 2 * n + 1 : q[k] = s[k + 1]
    BY <1>4 DEF q
  <2>2. r \in Seq(Messages) /\ Len(r) = 2 * n + 2 /\ r[1] = i
    BY <1>5, <1>6, <2>1 DEF r
  <2>3. ASSUME NEW k \in 2 .. 2 * n + 2
        PROVE  r[k] = s[k]
    <3>1. r[k] = q[k - 1]
      BY <1>5, <1>6, <2>1 DEF r
    <3>2. k - 1 \in 1 .. 2 * n + 1 /\ (k - 1) + 1 = k
      OBVIOUS
    <3>3. QED
      BY <2>1, <3>1, <3>2
  <2>4. QED
    BY <2>2, <2>3
<1>8. QED
  BY <1>2, <1>7 DEF Shows, r, p, q, i

\* A repair adds its pair of messages to the request.
LEMMA RepairShows ==
    ASSUME NEW n \in Nat, NEW m \in Nat, NEW s, NEW r, Shows(r, s, n, m)
    PROVE  Shows(r \o RepairMessages, s, n, m + 1)
<1> DEFINE a == Message("assistant", 0)
           b == Message("user", 0)
           p == <<a, b>>
           t == r \o p
<1>1. a \in Messages /\ b \in Messages
  BY MessageType
<1> HIDE DEF a, b
<1>2. p \in Seq(Messages) /\ Len(p) = 2 /\ p[1] = a /\ p[2] = b
  BY <1>1
<1> HIDE DEF p
<1>3. r \in Seq(Messages) /\ Len(r) = 2 * n + 2 + 2 * m
  BY DEF Shows
<1>4. t \in Seq(Messages) /\ Len(t) = Len(r) + Len(p)
      /\ \A i \in 1 .. Len(r) + Len(p) : t[i] = IF i <= Len(r) THEN r[i] ELSE p[i - Len(r)]
  BY <1>2, <1>3, ConcatProperties
<1> HIDE DEF t
<1>5. /\ Len(t) = 2 * n + 4 + 2 * m
      /\ \A i \in 1 .. 2 * n + 2 + 2 * m : t[i] = r[i]
      /\ t[2 * n + 2 * m + 3] = a /\ t[2 * n + 2 * m + 4] = b
  BY <1>2, <1>3, <1>4
<1>6. t[1] = Message("instructed", 0) /\ \A i \in 2 .. 2 * n + 2 : t[i] = s[i]
  BY <1>5 DEF Shows
<1>7. ASSUME NEW k \in 1 .. m + 1
      PROVE  t[2 * n + 2 * k + 1] = a /\ t[2 * n + 2 * k + 2] = b
  <2>1. CASE k = m + 1
    BY <1>5, <2>1
  <2>2. CASE k \in 1 .. m
    BY <1>5, <2>2 DEF Shows, a, b
  <2>3. QED
    BY <2>1, <2>2
<1>8. Shows(t, s, n, m + 1)
  <2>1. Len(t) = 2 * n + 2 + 2 * (m + 1)
    BY <1>5
  <2>2. QED
    BY <1>4, <1>6, <1>7, <2>1 DEF Shows, a, b
<1>9. QED
  BY <1>8 DEF t, p, a, b, RepairMessages

LEMMA NextTurnShows ==
    ASSUME TypeInv, NEW s, step >= 1, Turns(s, step), NextTurn(s)
    PROVE  ConversationIsTurns'
<1>1. messages' = s
  BY DEF NextTurn
<1>2. CASE Budget /\ pc' = "thinking" /\ step' = step + 1 /\ Asks(s)
  <2>1. step \in Nat /\ step' - 1 = step /\ attempt' - 1 = 0 /\ request' = Instructed(s)
    BY <1>2 DEF Asks, TypeInv, TypeOK
  <2>2. Shows(request', s, step, 0)
    BY <2>1, AsksShows
  <2>3. QED
    BY <1>1, <1>2, <2>1, <2>2 DEF ConversationIsTurns, Shows, Turns
<1>3. CASE HandlesFailure
  BY <1>3 DEF HandlesFailure, Aborts, ConversationIsTurns
<1>4. QED
  BY <1>2, <1>3 DEF NextTurn

\* The steps that leave the conversation behind.
Drops ==
    \/ RejectUnopened \/ RejectClosed \/ Start \/ LeaseFails \/ ReceiveExhausted
    \/ ReceiveAborted \/ AbortRefused \/ AbortFails \/ ArgumentsInvalid \/ StepFails
    \/ ReceiveResult \/ ToolFails \/ LeaveContexts \/ Cancel

LEMMA ServesKeeps ==
    ASSUME Serve
    PROVE  UNCHANGED <<pc, taskVars, runVars>>
BY DEF Serve, ServeLease, ServeTool, ServeAbort, ServeLateAbort, Serves

LEMMA ConversationStep ==
    ASSUME TypeInv, ConversationIsTurns, [Next]_vars
    PROVE  ConversationIsTurns'
<1>1. CASE UNCHANGED <<pc, attempt, request, step, messages>>
  BY <1>1 DEF ConversationIsTurns, Shows, Turns
<1>2. CASE Drops
  <2>1. pc' \notin {"thinking", "calling"}
    BY <1>2
       DEF Drops, RejectUnopened, RejectClosed, Start, LeaseFails, ReceiveExhausted, RunEnds,
           ReceiveAborted, Collects, Leases, AbortRefused, AbortFails, ArgumentsInvalid, StepFails,
           ReceiveResult, ToolFails, TaskFails, HandlesFailure, Aborts, LeaveContexts, Cancel
  <2>2. QED
    BY <2>1 DEF ConversationIsTurns
<1>3. CASE ReceiveTask
  <2>1. CASE pc' = "thinking" /\ step' = 1 /\ messages' = Opening /\ Asks(Opening)
    <3>1. Shows(request', Opening, 0, 0)
      BY <2>1, AsksShows, OpeningIsTurns DEF Asks
    <3>2. step' - 1 = 0 /\ attempt' - 1 = 0
      BY <2>1 DEF Asks
    <3>3. QED
      BY <2>1, <3>1, <3>2, OpeningIsTurns DEF ConversationIsTurns, Shows, Turns
  <2>2. CASE Aborts(answer.task)
    BY <2>2 DEF Aborts, ConversationIsTurns
  <2>3. QED
    BY <1>3, <2>1, <2>2 DEF ReceiveTask
<1>4. CASE RejectTool
  <2>1. step \in Nat /\ step >= 1 /\ Turns(messages, step - 1)
    BY <1>4 DEF RejectTool, ConversationIsTurns, TypeInv, TypeOK
  <2>2. Turns(messages \o TurnOfRejected, step)
    <3>1. step - 1 \in Nat /\ (step - 1) + 1 = step
      BY <2>1
    <3>2. TurnOfRejected = <<Message("assistant", (step - 1) + 1), Message("tool", (step - 1) + 1)>>
      BY <3>1 DEF TurnOfRejected, ToolCall, ToolAnswer
    <3>3. Turns(messages \o TurnOfRejected, (step - 1) + 1)
      BY <2>1, <3>1, <3>2, AnotherTurn
    <3>4. QED
      BY <3>1, <3>3
  <2>3. QED
    BY <1>4, <2>1, <2>2, NextTurnShows DEF RejectTool
<1>5. CASE CallTool
  <2>1. /\ pc' = "calling" /\ step' = step /\ step >= 1
        /\ Turns(messages, step - 1)
        /\ messages' = Append(messages, Message("assistant", step))
    BY <1>5 DEF CallTool, ToolCall, ConversationIsTurns
  <2>2. messages \in Seq(Messages)
    BY <2>1 DEF Turns
  <2>3. QED
    BY <2>1, <2>2 DEF ConversationIsTurns, Turns
<1>6. CASE ReceiveFeedback
  <2>1. PICK s \in Seq(Messages) :
            Turns(s, step - 1) /\ messages = Append(s, Message("assistant", step))
    BY <1>6 DEF ReceiveFeedback, ConversationIsTurns
  <2>2. step \in Nat /\ step >= 1 /\ step - 1 \in Nat /\ (step - 1) + 1 = step
    BY <1>6 DEF ReceiveFeedback, ConversationIsTurns, TypeInv, TypeOK
  <2>3. Turns(Append(messages, ToolAnswer), step)
    <3>1. Append(messages, ToolAnswer)
            = Append(Append(s, Message("assistant", (step - 1) + 1)), Message("tool", (step - 1) + 1))
      BY <2>1, <2>2 DEF ToolAnswer
    <3>2. Turns(Append(messages, ToolAnswer), (step - 1) + 1)
      BY <2>1, <2>2, <3>1, AnotherTurn
    <3>3. QED
      BY <2>2, <3>2
  <2>4. QED
    BY <1>6, <2>2, <2>3, NextTurnShows DEF ReceiveFeedback
<1>7. CASE RepairStep
  <2>1. /\ pc = "thinking" /\ Repairs /\ UNCHANGED <<pc, step, messages>>
        /\ step - 1 \in Nat /\ attempt - 1 \in Nat
        /\ Turns(messages, step - 1) /\ Shows(request, messages, step - 1, attempt - 1)
    BY <1>7 DEF RepairStep, ConversationIsTurns, TypeInv, TypeOK
  <2>2. request' = request \o RepairMessages /\ attempt' - 1 = (attempt - 1) + 1
    BY <2>1 DEF Repairs
  <2>3. Shows(request', messages, step - 1, (attempt - 1) + 1)
    BY <2>1, <2>2, RepairShows
  <2>4. QED
    BY <2>1, <2>2, <2>3 DEF ConversationIsTurns, Shows, Turns
<1>8. QED
  BY <1>1, <1>2, <1>3, <1>4, <1>5, <1>6, <1>7, ServesKeeps
     DEF Next, Step, Drops, vars, taskVars, stepVars

----
(* The books of the agent and of the server *)

BooksInv == OneTaskAtATime /\ ResultsAreDistinct /\ ResultsAreFinal

LEMMA ResultType ==
    ASSUME TypeInv, NEW i \in DOMAIN results
    PROVE  results[i] \in [task : Tasks, reason : Completions]
<1> DEFINE R == [task : Tasks, reason : Completions]
<1>1. results \in Seq(R)
  BY DEF TypeInv, TypeOK
<1> HIDE DEF R
<1>2. results[i] \in R
  BY <1>1
<1>3. QED
  BY <1>2 DEF R

\* The run is over, or not yet begun and already refused.
Leaves ==
    \/ RejectUnopened \/ RejectClosed \/ LeaseFails \/ ReceiveExhausted \/ AbortRefused
    \/ AbortFails \/ LeaveContexts \/ Cancel

LEMMA LeavesBooks ==
    ASSUME BooksInv, Leaves
    PROVE  BooksInv'
<1>1. pc' \in {"leaving", "done"} /\ UNCHANGED <<results, finished>>
  BY DEF Leaves, RejectUnopened, RejectClosed, LeaseFails, ReceiveExhausted, AbortRefused,
         AbortFails, LeaveContexts, Cancel, RunEnds, serverVars
<1>2. QED
  BY <1>1 DEF BooksInv, OneTaskAtATime, ResultsAreDistinct, ResultsAreFinal

\* The agent works on one task.
Works ==
    \/ RejectTool \/ CallTool \/ ArgumentsInvalid \/ RepairStep \/ StepFails \/ ReceiveFeedback
    \/ ToolFails

LEMMA WorksBooks ==
    ASSUME BooksInv, Works
    PROVE  BooksInv'
<1>1. ASSUME NEW s, NextTurn(s)
      PROVE  /\ pc' \in {"thinking", "aborting"}
             /\ UNCHANGED <<task, results, queue, finished>>
             /\ LeaseRequest \in wire' => LeaseRequest \in wire
             /\ pc' = "aborting" => answer' = None
  BY <1>1 DEF NextTurn, HandlesFailure, Aborts, Sends, LeaseRequest, runVars, serverVars, netVars
<1>2. /\ pc \in {"thinking", "calling"}
      /\ pc' \in {"thinking", "calling", "aborting"}
      /\ UNCHANGED <<task, results, queue, finished>>
      /\ LeaseRequest \in wire' => LeaseRequest \in wire
      /\ pc' \in {"calling", "aborting"} => answer' = None
  <2>1. CASE RejectTool \/ ReceiveFeedback
    BY <1>1, <2>1 DEF RejectTool, ReceiveFeedback
  <2>2. CASE CallTool \/ RepairStep
    BY <2>2 DEF CallTool, RepairStep, Sends, LeaseRequest, runVars, serverVars, netVars
  <2>3. CASE ArgumentsInvalid \/ StepFails \/ ToolFails
    BY <2>3
       DEF ArgumentsInvalid, StepFails, ToolFails, TaskFails, HandlesFailure, Aborts, Sends,
           LeaseRequest, runVars, serverVars
  <2>4. QED
    BY <2>1, <2>2, <2>3 DEF Works
<1>3. QED
  BY <1>2
     DEF BooksInv, OneTaskAtATime, ResultsAreDistinct, ResultsAreFinal, Collected, Leased,
         LeaseRequest

LEMMA StartBooks ==
    ASSUME BooksInv, Start
    PROVE  BooksInv'
<1>1. /\ pc' = "leasing" /\ answer' = None /\ UNCHANGED <<results, queue, finished>>
      /\ queue = Tasks /\ results = << >>
  BY DEF BooksInv, OneTaskAtATime, Start, Leases, Sends, runVars, serverVars
<1>2. Collected' = {} /\ Leased' = {}
  BY <1>1 DEF Collected, Leased
<1>3. QED
  BY <1>1, <1>2 DEF BooksInv, OneTaskAtATime, ResultsAreDistinct, ResultsAreFinal

LEMMA TaskBooks ==
    ASSUME TypeInv, BooksInv, ReceiveTask
    PROVE  BooksInv'
<1>1. /\ pc = "leasing" /\ answer # None /\ answer.task # None /\ task' = answer.task
      /\ UNCHANGED <<results, queue, finished>>
      /\ \/ pc' = "thinking" /\ UNCHANGED <<wire, answer>>
         \/ /\ pc' = "aborting" /\ answer' = None
            /\ wire' = wire \cup {[rpc |-> "AbortTask", task |-> answer.task]}
  BY DEF ReceiveTask, Aborts, Sends, runVars, serverVars, netVars
<1>2. LeaseRequest \notin wire /\ answer.task \in Leased /\ Collected = Leased \ {answer.task}
  BY <1>1 DEF BooksInv, OneTaskAtATime
<1>3. LeaseRequest \notin wire'
  BY <1>1, <1>2 DEF LeaseRequest
<1>4. QED
  BY <1>1, <1>2, <1>3
     DEF BooksInv, OneTaskAtATime, ResultsAreDistinct, ResultsAreFinal, Collected, Leased,
         LeaseRequest

\* A result is collected, the server's.
LEMMA CollectsBooks ==
    ASSUME TypeInv, BooksInv, NEW reason \in Completions, Collects(reason),
           pc \in {"aborting", "calling"}, finished[task] = reason
    PROVE  BooksInv'
<1> DEFINE new == [task |-> task, reason |-> reason]
           n == Len(results)
<1>1. /\ results' = Append(results, new)
      /\ results \in Seq([task : Tasks, reason : Completions])
      /\ new \in [task : Tasks, reason : Completions]
      /\ new.task = task /\ new.reason = reason
      /\ pc' = "leasing" /\ answer' = None /\ UNCHANGED <<task, queue, finished>>
  BY DEF TypeInv, TypeOK, Collects, Leases, Sends, taskVars, serverVars
<1> HIDE DEF new
<1>2. /\ n \in Nat /\ DOMAIN results = 1 .. n /\ DOMAIN results' = 1 .. n + 1
      /\ \A i \in 1 .. n : results'[i] = results[i]
      /\ results'[n + 1] = new
  BY <1>1
<1> HIDE DEF n
<1>3. task \notin Collected /\ Collected \cup {task} = Leased
  BY DEF BooksInv, OneTaskAtATime
<1>4. Collected' = Collected \cup {task}
  BY <1>1, <1>2 DEF Collected
<1>5. OneTaskAtATime'
  BY <1>1, <1>3, <1>4 DEF OneTaskAtATime, Leased
<1>6. ResultsAreDistinct'
  BY <1>1, <1>2, <1>3 DEF BooksInv, ResultsAreDistinct, Collected
<1>7. ResultsAreFinal'
  BY <1>1, <1>2 DEF BooksInv, ResultsAreFinal
<1>8. QED
  BY <1>5, <1>6, <1>7 DEF BooksInv

LEMMA CollectBooks ==
    ASSUME TypeInv, BooksInv, ReceiveAborted \/ ReceiveResult
    PROVE  BooksInv'
<1>1. /\ pc \in {"aborting", "calling"} /\ answer # None /\ answer.result # None
      /\ Collects(answer.result)
  BY DEF ReceiveAborted, ReceiveResult
<1>2. answer.result \in Completions
  BY <1>1 DEF TypeInv, AnswersFit
<1>3. finished[task] = answer.result
  BY <1>1 DEF BooksInv, ResultsAreFinal
<1>4. QED
  BY <1>1, <1>2, <1>3, CollectsBooks

\* The server leases a task, for the agent or for nobody any more.
LEMMA LeaseBooks ==
    ASSUME TypeInv, BooksInv, ServeLease
    PROVE  BooksInv'
<1>1. PICK u \in Tasks \cup {None} :
        /\ Serves("LeaseTask", None, [task |-> u])
        /\ u # None => u \in queue /\ queue' = queue \ {u}
        /\ u = None => queue = {} /\ queue' = queue
  BY NoneAssumption DEF ServeLease, TypeInv, TypeOK
<1>2. /\ LeaseRequest \in wire /\ wire' = wire \ {LeaseRequest}
      /\ answer' = IF pc = "leasing" THEN [task |-> u] ELSE answer
      /\ UNCHANGED <<pc, task, results, finished>>
  BY <1>1 DEF Serves, LeaseRequest, Awaiting, taskVars, runVars, ServeLease
<1>3. pc \notin {"start", "thinking", "calling", "aborting"}
  BY <1>2 DEF BooksInv, OneTaskAtATime
<1>4. CASE pc = "leasing"
  <2>1. answer = None /\ Collected = Leased
    BY <1>2, <1>4 DEF BooksInv, OneTaskAtATime
  <2>2. answer' # None /\ answer'.task = u
    <3>1. [task |-> u] \in Answers
      BY DEF Answers
    <3>2. QED
      BY <1>2, <1>4, <3>1, NoneAssumption
  <2>3. Collected' = Leased
    BY <1>2, <2>1 DEF Collected
  <2>4. u \in Leased' \cup {None} /\ Collected' = Leased' \ {u} /\ (u = None => queue' = {})
    BY <1>1, <2>3, NoneAssumption DEF Leased, TypeInv, TypeOK
  <2>5. LeaseRequest' \notin wire'
    BY <1>2 DEF LeaseRequest
  <2>6. OneTaskAtATime'
    BY <1>2, <1>4, <2>2, <2>4, <2>5 DEF OneTaskAtATime
  <2>7. QED
    BY <1>2, <1>4, <2>6 DEF BooksInv, ResultsAreDistinct, ResultsAreFinal
<1>5. CASE pc # "leasing"
  BY <1>2, <1>3, <1>5 DEF BooksInv, OneTaskAtATime, ResultsAreDistinct, ResultsAreFinal
<1>6. QED
  BY <1>4, <1>5

\* The server ends a task that is not over, or tells what became of it.
LEMMA TaskServedBooks ==
    ASSUME TypeInv, BooksInv, NEW u \in Tasks,
           ServeTool(u) \/ ServeAbort(u) \/ ServeLateAbort(u)
    PROVE  BooksInv'
<1>1. PICK rpc \in {"CallTool", "AbortTask"}, r \in Completions \cup {None} :
        /\ Serves(rpc, u, [result |-> r])
        /\ queue' = queue
        /\ \/ finished[u] = None /\ finished' = [finished EXCEPT ![u] = r]
           \/ finished' = finished /\ r \in {None, finished[u]}
  BY DEF ServeTool, ServeAbort, ServeLateAbort, serverVars, Completions, TypeInv, TypeOK
<1>2. /\ wire' \subseteq wire /\ UNCHANGED <<pc, task, results>>
      /\ answer' = answer
            \/ (pc \in {"calling", "aborting"} /\ u = task /\ answer' = [result |-> r])
  BY <1>1, NoneAssumption DEF Serves, Awaiting, taskVars, runVars
<1>3. /\ r # None => finished'[u] = r
      /\ \A v \in Tasks : finished[v] # None => finished'[v] = finished[v]
      /\ r = None => finished' = finished \/ finished[u] = None
  BY <1>1 DEF TypeInv, TypeOK
<1>4. Collected' = Collected /\ Leased' = Leased
  BY <1>1, <1>2 DEF Collected, Leased
<1>5. pc = "leasing" => answer' = answer
  BY <1>2
<1>6. OneTaskAtATime'
  BY <1>1, <1>2, <1>4, <1>5 DEF BooksInv, OneTaskAtATime, LeaseRequest
<1>7. ResultsAreDistinct'
  BY <1>2 DEF BooksInv, ResultsAreDistinct
<1>8. ResultsAreFinal'
  <2>1. ASSUME NEW i \in DOMAIN results
        PROVE  results[i].reason = finished'[results[i].task]
    <3>1. results[i] \in [task : Tasks, reason : Completions]
      BY ResultType
    <3>2. results[i].reason = finished[results[i].task] /\ results[i].reason # None
      BY <3>1, NoneAssumption DEF BooksInv, ResultsAreFinal
    <3>3. QED
      BY <1>3, <3>1, <3>2
  <2>2. ASSUME pc \in {"calling", "aborting"}, answer' # None, answer'.result # None
        PROVE  finished'[task] = answer'.result
    <3>1. CASE answer' = [result |-> r] /\ u = task
      BY <1>3, <2>2, <3>1
    <3>2. CASE answer' = answer
      <4>1. answer.result \in Completions /\ finished[task] = answer.result /\ task \in Tasks
        BY <2>2, <3>2 DEF TypeInv, TypeOK, AnswersFit, BooksInv, ResultsAreFinal
      <4>2. QED
        BY <1>3, <3>2, <4>1, NoneAssumption
    <3>3. QED
      BY <1>2, <3>1, <3>2
  <2>3. QED
    BY <1>2, <2>1, <2>2 DEF ResultsAreFinal
<1>9. QED
  BY <1>6, <1>7, <1>8 DEF BooksInv

LEMMA BooksStep ==
    ASSUME TypeInv, BooksInv, [Next]_vars
    PROVE  BooksInv'
<1>1. CASE UNCHANGED vars
  BY <1>1
     DEF vars, taskVars, runVars, serverVars, netVars, BooksInv, OneTaskAtATime,
         ResultsAreDistinct, ResultsAreFinal, Collected, Leased, LeaseRequest
<1>2. CASE Leaves \/ Works \/ Start \/ ReceiveTask \/ ReceiveAborted \/ ReceiveResult
  BY <1>2, LeavesBooks, WorksBooks, StartBooks, TaskBooks, CollectBooks
<1>3. CASE Serve
  BY <1>3, LeaseBooks, TaskServedBooks DEF Serve
<1>4. QED
  BY <1>1, <1>2, <1>3 DEF Next, Step, Leaves, Works

\* The report counts each task once: results and tasks correspond.
LEMMA ExhaustedReports ==
    ASSUME TypeInv, BooksInv, ReceiveExhausted
    PROVE  ReportIsFinal'
<1> DEFINE n == Len(results)
           won == {i \in DOMAIN results : Successful(results[i])}
           wins == {t \in Tasks : finished[t] \in {"terminated", "truncated"}}
           f == [i \in 1 .. n |-> results[i].task]
           g == [i \in won |-> results[i].task]
<1>1. /\ results \in Seq([task : Tasks, reason : Completions])
      /\ finished \in [Tasks -> Completions \cup {None}] /\ queue \subseteq Tasks
  BY DEF TypeInv, TypeOK
<1>2. n \in Nat /\ DOMAIN results = 1 .. n
  BY <1>1
<1>3. \A i \in 1 .. n : results[i] \in [task : Tasks, reason : Completions]
  BY <1>2, ResultType
<1> HIDE DEF n
<1>4. /\ report' = [successful |-> Cardinality(won), failed |-> n - Cardinality(won)]
      /\ UNCHANGED <<queue, finished>>
      /\ pc = "leasing" /\ answer # None /\ answer.task = None
  BY DEF ReceiveExhausted, RunEnds, serverVars, n
<1>5. queue = {} /\ Collected = Tasks
  BY <1>1, <1>4, NoneAssumption DEF BooksInv, OneTaskAtATime, Leased
<1>6. /\ \A i, j \in 1 .. n : results[i].task = results[j].task => i = j
      /\ \A t \in Tasks : \E i \in 1 .. n : results[i].task = t
      /\ \A i \in 1 .. n : results[i].reason = finished[results[i].task]
  BY <1>2, <1>5 DEF BooksInv, ResultsAreDistinct, ResultsAreFinal, Collected
<1>7. IsFiniteSet(1 .. n) /\ Cardinality(1 .. n) = n
  BY <1>2, FS_Interval
<1>8. Cardinality(Tasks) = n
  <2>1. /\ f \in [1 .. n -> Tasks]
        /\ \A i, j \in 1 .. n : f[i] = f[j] => i = j
        /\ \A t \in Tasks : \E i \in 1 .. n : f[i] = t
    BY <1>3, <1>6
  <2> HIDE DEF f
  <2>2. QED
    BY <1>7, <2>1, Correspondence
<1>9. IsFiniteSet(won) /\ Cardinality(won) \in Nat
  BY <1>2, <1>7, FS_Subset, FS_CardinalityType
<1>10. Cardinality(wins) = Cardinality(won)
  <2>1. won \subseteq 1 .. n /\ \A i \in won : results[i].task \in wins
    BY <1>2, <1>3, <1>6 DEF Successful
  <2>2. \A t \in wins : \E i \in won : results[i].task = t
    BY <1>2, <1>6 DEF Successful
  <2> HIDE DEF won, wins
  <2>3. /\ g \in [won -> wins]
        /\ \A i, j \in won : g[i] = g[j] => i = j
        /\ \A t \in wins : \E i \in won : g[i] = t
    BY <1>6, <2>1, <2>2
  <2> HIDE DEF g
  <2>4. QED
    BY <1>9, <2>3, Correspondence
<1>11. \A t \in Tasks : finished[t] # None
  BY <1>3, <1>6, NoneAssumption
<1> HIDE DEF won
<1>12. report'.successful = Cardinality(wins) /\ report'.successful + report'.failed = Cardinality(Tasks)
  BY <1>2, <1>4, <1>8, <1>9, <1>10
<1>13. QED
  BY <1>4, <1>5, <1>11, <1>12 DEF ReportIsFinal, ReportComplete

LEMMA ReportStep ==
    ASSUME TypeInv, BooksInv, ReportIsFinal, [Next]_vars
    PROVE  ReportIsFinal'
<1>1. CASE ReceiveExhausted
  BY <1>1, ExhaustedReports
<1>2. CASE ~ReceiveExhausted
  <2>1. SUFFICES ASSUME report' # None
                 PROVE  ReportIsFinal'
    BY DEF ReportIsFinal, ReportComplete
  <2>2. report' = report
    BY <1>2, ServesKeeps
       DEF Next, Step, vars, taskVars, runVars, RejectUnopened, RejectClosed, Start, LeaseFails, RunEnds,
           ReceiveTask, ReceiveAborted, Collects, AbortRefused, AbortFails, RejectTool, NextTurn,
           CallTool, ArgumentsInvalid, RepairStep, StepFails, TaskFails, ReceiveFeedback,
           ReceiveResult, ToolFails, LeaveContexts, Cancel
  <2>3. queue = {} /\ \A t \in Tasks : finished[t] # None
    BY <2>1, <2>2 DEF ReportIsFinal, ReportComplete
  <2>4. UNCHANGED <<queue, finished>>
    BY <2>3
       DEF Next, Step, Serve, vars, serverVars, RejectUnopened, RejectClosed, Start, LeaseFails, RunEnds,
           ReceiveExhausted, ReceiveTask, ReceiveAborted, Collects, AbortRefused, AbortFails,
           RejectTool, NextTurn, CallTool, ArgumentsInvalid, RepairStep, StepFails, TaskFails,
           ReceiveFeedback, ReceiveResult, ToolFails, LeaveContexts, Cancel, ServeLease,
           ServeTool, ServeAbort, ServeLateAbort
  <2>5. QED
    BY <2>2, <2>4 DEF ReportIsFinal, ReportComplete
<1>3. QED
  BY <1>1, <1>2

----
(* The invariant *)

LEMMA InvInit == Init => IInv
<1> SUFFICES ASSUME Init
             PROVE  IInv
  OBVIOUS
<1> USE AgentAssumption, StepClientAssumption, NoneAssumption DEF Init
<1>1. TypeOK
  <2>1. results \in Seq([task : Tasks, reason : Completions])
    OBVIOUS
  <2>2. /\ step \in 0 .. MaxSteps /\ attempt \in 0 .. MaxRetries /\ ~(attempt > 0)
    BY DEF Idle
  <2>3. finished \in [Tasks -> Completions \cup {None}]
    OBVIOUS
  <2>4. /\ pc = "start" /\ client \in {"new", "open", "closed"} /\ ending = None /\ report = None
        /\ printed \in BOOLEAN /\ queue \subseteq Tasks /\ wire = {} /\ answer = None
    OBVIOUS
  <2>5. QED
    BY <2>1, <2>2, <2>3, <2>4, Zenon DEF TypeOK
<1>2. AnswersFit /\ ConversationIsTurns
  BY DEF AnswersFit, ConversationIsTurns
<1>3. OneTaskAtATime /\ ResultsAreDistinct /\ ResultsAreFinal
  BY DEF OneTaskAtATime, ResultsAreDistinct, ResultsAreFinal
<1>4. ReportIsFinal
  BY DEF ReportIsFinal, ReportComplete
<1>5. QED
  BY <1>1, <1>2, <1>3, <1>4 DEF IInv

LEMMA InvStep == IInv /\ [Next]_vars => IInv'
BY TypeStep, ConversationStep, BooksStep, ReportStep DEF IInv, TypeInv, BooksInv

\* Everything below holds in every state of every run.
THEOREM Invariant == Spec => []IInv
<1>1. QED
  BY InvInit, InvStep, PTL DEF Spec

----
(* The properties *)

\* The variables of the agent, of its client and of the step client keep their types.
THEOREM TypeCorrect == Spec => []TypeOK
<1>1. IInv => TypeOK
  BY DEF IInv
<1>2. QED
  BY <1>1, Invariant, PTL

\* Whatever _investigate and next_step did before, a request to the provider shows
\* every tool call with its answer, and the repairs of this step in pairs.
THEOREM CallsArePaired == Spec => []ProviderSeesPairedCalls
<1>1. ASSUME IInv
      PROVE  ProviderSeesPairedCalls
  <2>1. SUFFICES ASSUME pc = "thinking"
                 PROVE  ProviderSeesPairedCalls
    BY DEF ProviderSeesPairedCalls
  <2> DEFINE n == step - 1
             m == attempt - 1
  <2>2. /\ n \in Nat /\ m \in Nat /\ step = n + 1 /\ attempt = m + 1
        /\ Turns(messages, n) /\ Shows(request, messages, n, m)
    BY <1>1, <2>1 DEF IInv, TypeOK, ConversationIsTurns
  <2> HIDE DEF n, m
  <2>3. /\ request \in Seq(Messages) /\ DOMAIN request = 1 .. 2 * n + 2 + 2 * m
        /\ messages \in Seq(Messages) /\ DOMAIN messages = 1 .. 2 * n + 2
        /\ Len(request) = 2 * n + 2 + 2 * m
    BY <2>2 DEF Turns, Shows
  \* An index is that of a call or that of an answer.
  <2>4. \A i \in Nat : \E k \in Nat : i = 2 * k + 1 \/ i = 2 * k
    <3> DEFINE T == {i \in Nat : \E k \in Nat : i = 2 * k + 1 \/ i = 2 * k}
    <3>1. 0 \in T
      OBVIOUS
    <3>2. ASSUME NEW i \in Nat, i \in T
          PROVE  i + 1 \in T
      <4>1. PICK k \in Nat : i = 2 * k + 1 \/ i = 2 * k
        BY <3>2
      <4>2. CASE i = 2 * k + 1
        <5> DEFINE l == k + 1
        <5>1. l \in Nat /\ i + 1 = 2 * l
          BY <4>2
        <5> HIDE DEF l
        <5>2. QED
          BY <5>1
      <4>3. CASE i = 2 * k
        <5>1. i + 1 = 2 * k + 1
          BY <4>3
        <5>2. QED
          BY <5>1
      <4>4. QED
        BY <4>1, <4>2, <4>3
    <3>3. Nat \subseteq T
      <4> HIDE DEF T
      <4>1. QED
        BY <3>1, <3>2, SetInduction
    <3>4. QED
      BY <3>3
  <2>5. ASSUME NEW i \in DOMAIN request, request[i].role = "assistant"
        PROVE  /\ i < Len(request)
               /\ request[i + 1] =
                    Message(IF request[i].id = 0 THEN "user" ELSE "tool", request[i].id)
    <3>1. PICK k \in Nat : i = 2 * k + 1 \/ i = 2 * k
      <4>1. i \in Nat
        BY <2>3
      <4>2. QED
        BY <2>4, <4>1
    <3>2. CASE k \in 1 .. n /\ i = 2 * k + 1
      <4>1. i \in 2 .. 2 * n + 2 /\ i + 1 \in 2 .. 2 * n + 2 /\ i + 1 = 2 * k + 2
        BY <2>2, <3>2
      <4>2. request[i] = messages[i] /\ request[i + 1] = messages[i + 1]
        BY <2>2, <4>1 DEF Shows
      <4>3. messages[i] = Message("assistant", k) /\ messages[i + 1] = Message("tool", k)
        BY <2>2, <3>2, <4>1 DEF Turns
      <4>4. i < Len(request) /\ k # 0
        BY <2>2, <2>3, <3>2
      <4>5. Message("assistant", k).id = k
        BY DEF Message
      <4>6. QED
        BY <4>2, <4>3, <4>4, <4>5
    <3>3. CASE k \in n + 1 .. n + m /\ i = 2 * k + 1
      <4>1. k - n \in 1 .. m /\ i = 2 * n + 2 * (k - n) + 1 /\ i + 1 = 2 * n + 2 * (k - n) + 2
        BY <2>2, <3>3
      <4>2. request[i] = Message("assistant", 0) /\ request[i + 1] = Message("user", 0)
        BY <2>2, <4>1 DEF Shows
      <4>3. i < Len(request)
        BY <2>2, <2>3, <3>3
      <4>4. Message("assistant", 0).id = 0
        BY DEF Message
      <4>5. QED
        BY <4>2, <4>3, <4>4
    <3>4. CASE i = 1
      BY <2>2, <2>5, <3>4 DEF Shows, Message
    <3>5. CASE k \in 1 .. n + 1 /\ i = 2 * k
      <4>1. request[i] = messages[i]
        <5>1. i \in 2 .. 2 * n + 2
          BY <2>2, <3>5
        <5>2. QED
          BY <2>2, <5>1 DEF Shows
      <4>2. messages[i].role \in {"user", "tool"}
        <5>1. CASE k = 1
          <6>1. i = 2
            BY <3>5, <5>1
          <6>2. QED
            BY <2>2, <6>1 DEF Turns, Message
        <5>2. CASE k - 1 \in 1 .. n /\ i = 2 * (k - 1) + 2
          <6>1. messages[i] = Message("tool", k - 1)
            BY <2>2, <5>2 DEF Turns
          <6>2. QED
            BY <6>1 DEF Message
        <5>3. QED
          BY <2>2, <3>5, <5>1, <5>2
      <4>3. QED
        BY <2>5, <4>1, <4>2
    <3>6. CASE k \in n + 2 .. n + m + 1 /\ i = 2 * k
      <4>1. k - n - 1 \in 1 .. m /\ i = 2 * n + 2 * (k - n - 1) + 2
        BY <2>2, <3>6
      <4>2. request[i] = Message("user", 0)
        BY <2>2, <4>1 DEF Shows
      <4>3. QED
        BY <2>5, <4>2 DEF Message
    <3>7. QED
      BY <2>2, <2>3, <3>1, <3>2, <3>3, <3>4, <3>5, <3>6
  <2>6. Len(request) = 2 * step + 2 * (attempt - 1)
    BY <2>2, <2>3
  <2>7. ASSUME NEW i \in DOMAIN messages, NEW j \in DOMAIN messages,
               messages[i].id = messages[j].id, messages[i].role = messages[j].role
        PROVE  i = j
    <3>1. \A h \in DOMAIN messages :
            \/ h = 1 /\ messages[h] = Message("system", 0)
            \/ h = 2 /\ messages[h] = Message("user", 0)
            \/ \E k \in 1 .. n :
                \/ h = 2 * k + 1 /\ messages[h] = Message("assistant", k)
                \/ h = 2 * k + 2 /\ messages[h] = Message("tool", k)
      <4> TAKE h \in DOMAIN messages
      <4>1. PICK k \in Nat : h = 2 * k + 1 \/ h = 2 * k
        <5>1. h \in Nat
          BY <2>3
        <5>2. QED
          BY <2>4, <5>1
      <4>2. CASE h \in {1, 2}
        BY <2>2, <4>2 DEF Turns
      <4>3. CASE k \in 1 .. n /\ h = 2 * k + 1
        BY <2>2, <4>3 DEF Turns
      <4>4. CASE k - 1 \in 1 .. n /\ h = 2 * (k - 1) + 2
        BY <2>2, <4>4 DEF Turns
      <4>5. QED
        BY <2>2, <2>3, <4>1, <4>2, <4>3, <4>4
    <3>2. QED
      BY <2>7, <3>1 DEF Message
  <2>8. QED
    BY <2>5, <2>6, <2>7 DEF ProviderSeesPairedCalls
<1>2. QED
  BY <1>1, Invariant, PTL

\* However run, the failures of _investigate and the server's late answers interleave,
\* the results are the server's, one for every task leased before the present one.
THEOREM BooksAgree == Spec => []ResultsAreServers
<1>1. IInv => ResultsAreServers
  BY DEF IInv, ResultsAreDistinct, ResultsAreFinal, OneTaskAtATime, Collected, Leased,
         ResultsAreServers
<1>2. QED
  BY <1>1, Invariant, PTL

\* The report of a run that returns accounts for the whole queue.
THEOREM ReportIsComplete == Spec => []ReportComplete
<1>1. IInv => ReportComplete
  BY DEF IInv, ReportIsFinal
<1>2. QED
  BY <1>1, Invariant, PTL

\* Only run itself, in a lease or in an abort, can fail; _investigate cannot.
THEOREM FailuresAreLocal == Spec => FailuresStayLocal
<1>1. ASSUME [Next]_vars
      PROVE  [pc # "leaving" /\ pc' = "leaving" /\ ending' # "CancelledError" =>
                pc \in {"start", "leasing", "aborting"}]_vars
  <2>1. SUFFICES ASSUME Next, pc # "leaving", pc' = "leaving", ending' # "CancelledError"
                 PROVE  pc \in {"start", "leasing", "aborting"}
    BY <1>1
  <2>2. CASE Serve
    BY <2>1, <2>2, ServesKeeps
  <2>3. CASE Cancel
    BY <2>1, <2>3 DEF Cancel, RunEnds
  <2>4. CASE Step
    BY <2>1, <2>4
       DEF Step, RejectUnopened, RejectClosed, Start, LeaseFails, ReceiveExhausted, ReceiveTask,
           ReceiveAborted, AbortRefused, AbortFails, RejectTool, NextTurn, HandlesFailure, Aborts,
           CallTool, ArgumentsInvalid, RepairStep, StepFails, TaskFails, ReceiveFeedback,
           ReceiveResult, Collects, Leases, ToolFails, LeaveContexts
  <2>5. QED
    BY <2>1, <2>2, <2>3, <2>4 DEF Next
<1>2. QED
  BY <1>1, PTL DEF Spec, FailuresStayLocal

====
