------------------------------ MODULE MCGuider ------------------------------
(***************************************************************************)
(* Instances of Guider for TLC: a dark, which can die without a callback,  *)
(* and a backlash run, which cannot but may fail to start, stand for the   *)
(* four acquisitions.                                                      *)
(***************************************************************************)
EXTENDS Guider

BothDevices == {"GP", "AO"}
GuidePortOnly == {"GP"}
DarkAndBacklash == {"darkacquire", "backlash"}
DarkOnly == {"darkacquire"}
=============================================================================
