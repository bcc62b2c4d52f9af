------------------------ MODULE MCProcessorNetwork ------------------------
(***************************************************************************)
(* Constants for model checking ProcessorNetwork.tla.                      *)
(***************************************************************************)
EXTENDS ProcessorNetwork

AllKinds == {"file", "write", "calib", "plain"}
=============================================================================
