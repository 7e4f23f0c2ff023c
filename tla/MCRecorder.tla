------------------------------ MODULE MCRecorder ------------------------------
(***************************************************************************)
(* Points further apart than the matching radius: which dart is which is   *)
(* the business of WorldTracker.  The points are interchangeable.          *)
(***************************************************************************)
EXTENDS Recorder, TLC

MCDistance == [p \in Coordinates \X Coordinates |-> IF p[1] = p[2] THEN 0 ELSE 2]

MCSymmetry == Permutations(Coordinates)
=============================================================================
