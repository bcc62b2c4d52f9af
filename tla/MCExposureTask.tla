--------------------------- MODULE MCExposureTask ---------------------------
(***************************************************************************)
(* The instance of ExposureTask that TLC checks.  Times are in halves of a *)
(* second.  A wait may be shorter than the first two seconds, after which  *)
(* there is no second look, or long enough for several looks; an exposure  *)
(* may be over before the wait for it begins.                              *)
(***************************************************************************)
EXTENDS ExposureTask

AllKinds == {"exposure", "sleep", "dither"}
AllDevices == {"wheel", "cooler"}
ShortAndLong == {1, 6}
Exposures == {0, 3}
=============================================================================
