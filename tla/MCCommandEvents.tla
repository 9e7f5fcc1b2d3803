--------------------------- MODULE MCCommandEvents ---------------------------
(* Finite constants for CommandEvents: one command, of any kind.           *)
EXTENDS CommandEvents

CONSTANTS c1, ui

MCKinds == [c \in Commands |-> {"job", "run", "raw"}]

MCEmitters == Commands \X Parts
=============================================================================
