---------------------------- MODULE MCWorldTracker ----------------------------
(***************************************************************************)
(* Points on a line, one unit apart, matched within one unit: a throw may  *)
(* lie between two darts and equally far from both, which is where the     *)
(* order of the candidates matters.                                        *)
(***************************************************************************)
EXTENDS WorldTracker, Integers

CONSTANT Size \* number of points on the line

MCCoordinates == 1..Size

MCDistance == [p \in MCCoordinates \X MCCoordinates |->
                  IF p[1] < p[2] THEN p[2] - p[1] ELSE p[1] - p[2]]
=============================================================================
