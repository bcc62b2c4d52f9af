---------------------------- MODULE MCTaskQueue ----------------------------
(***************************************************************************)
(* Constants for model checking TaskQueue.tla.                             *)
(***************************************************************************)
EXTENDS TaskQueue, TLC

MkJob(kind, camera, ccd, cooler, filterwheel) ==
  [kind |-> kind, camera |-> camera, ccd |-> ccd, cooler |-> cooler,
   filterwheel |-> filterwheel]

\* Two cameras; the first has a cooler, and they share a filter wheel.
ExposeA == MkJob("exposure", "camA", "ccdA", "coolA", "wheel")
ExposeB == MkJob("exposure", "camB", "ccdB", "none", "wheel")
\* The second camera again, without the wheel: free to run beside ExposeA.
SleepB == MkJob("sleep", "camB", "ccdB", "none", "none")
\* Another task of the first camera's cooler, on a camera of its own.
CoolC == MkJob("dither", "camC", "ccdC", "coolA", "none")
FocusA == MkJob("focus", "camA", "ccdA", "none", "none")

JobsTwo == {ExposeA, SleepB}
JobsShared == {ExposeA, ExposeB, SleepB, CoolC}
JobsOne == {ExposeA}
JobsMixed == {ExposeA, FocusA}

Ids1 == 1..1
Ids2 == 1..2

AllOps == OpNames
ClientSymmetry == Permutations(Client)
=============================================================================
