---- MODULE MCAgent ----
(* Agent on small instances. *)
EXTENDS Agent
====
