---- MODULE LogicalCall ----
(***************************************************************************)
(* What the session and the client assume of one request, and the          *)
(* transport provides: it is sent, the server serves it once at most and   *)
(* perhaps late, and its caller gets the answer of that one service or     *)
(* learns nothing.                                                         *)
(***************************************************************************)
VARIABLES
    fate,       \* "unused", "open", "answered" or "abandoned"
    served      \* how often the server has executed the request

vars == <<fate, served>>

Init == fate = "unused" /\ served = 0

Start == fate = "unused" /\ fate' = "open" /\ UNCHANGED served

Serve == fate # "unused" /\ served = 0 /\ served' = 1 /\ UNCHANGED fate

Answer == fate = "open" /\ served = 1 /\ fate' = "answered" /\ UNCHANGED served

Abandon == fate = "open" /\ fate' = "abandoned" /\ UNCHANGED served

Next == Start \/ Serve \/ Answer \/ Abandon

Spec == Init /\ [][Next]_vars

====
