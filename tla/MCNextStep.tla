---- MODULE MCNextStep ----
(* NextStep with all replies of up to six tokens and a calendar of three days. *)
EXTENDS NextStep

MCTexts == UNION {[1 .. n -> Tokens] : n \in 0 .. 6}
MCPayloads == AllPayloads

====
