--------------------------- MODULE MCImageStream ---------------------------
(***************************************************************************)
(* Constants for model checking ImageStream.tla: one client calls every    *)
(* method, the other one starts and stops the stream meanwhile.            *)
(***************************************************************************)
EXTENDS ImageStream

CONSTANTS c1, c2

StreamOps == [c \in Client |-> IF c = c1 THEN OpNames ELSE {"start", "stop"}]
=============================================================================
