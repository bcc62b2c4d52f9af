----------------------------- MODULE MCGuideport -----------------------------
(***************************************************************************)
(* The instance of Guideport that TLC checks.  An action gets two seconds, *)
(* so that stepping makes two pulses; corrections can be longer than that  *)
(* and are clipped; a round can be overtaken by a tick of the clock and    *)
(* still have time left to wait.                                           *)
(***************************************************************************)
EXTENDS Guideport

ASSUME Reach > Allotted /\ 0 < Slack /\ Slack < Interval /\ Allotted >= 2 * Second
=============================================================================
