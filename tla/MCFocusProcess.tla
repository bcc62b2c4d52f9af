--------------------------- MODULE MCFocusProcess ---------------------------
(***************************************************************************)
(* Constants for model checking FocusProcess.tla.                          *)
(***************************************************************************)
EXTENDS FocusProcess

CONSTANT Owner  \* the client that starts the process

\* Everybody may stop the process and wait for it, its owner starts it.
OneStarts ==
  [c \in Client |-> IF c = Owner THEN OpNames ELSE {"stop", "wait"}]
=============================================================================
