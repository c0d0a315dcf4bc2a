---- MODULE AsyncLock ----
(***************************************************************************)
(* asyncio.Lock, as the client library uses it ("async with self._lock").  *)
(* The lock is external code.  Its waiters are served first come first     *)
(* served, and a released lock is handed to the oldest waiter before any   *)
(* newcomer may take it, so one sequence is enough to describe it: the     *)
(* tasks that asked for the lock and have not let go of it, in the order   *)
(* they asked.  The head owns the lock, the others wait.                   *)
(*                                                                         *)
(* A free lock is taken without suspending the task, so that the task can  *)
(* be cancelled at the lock only if it had to queue behind another one.    *)
(***************************************************************************)
EXTENDS SequencesExt

\* "async with self._lock" is reached: the task joins the queue.
Enqueue(queue, task) == Append(queue, task)

\* Where the task is then: in the block, or at an await.
Arrival(queue) == IF queue = << >> THEN "entered" ELSE "waiting"
AtLock == {"entered", "waiting"}

\* The task owns the lock: __aenter__ has returned, or may return now.
Holds(queue, task) == queue # << >> /\ Head(queue) = task

\* The block is left, normally, by an exception, or because the task was
\* cancelled while it still waited for the lock.  (The possible queues after
\* that: one, since a task is in the queue once.)
Leave(queue, task) ==
    {RemoveAt(queue, i) : i \in {j \in DOMAIN queue : queue[j] = task}}

====
