----------------------------- MODULE MCGreedyLoop -----------------------------
EXTENDS GreedyLoop, Integers

CONSTANT Size \* number of points on a line, one unit apart

MCCoordinates == 1..Size

MCDistance == [p \in MCCoordinates \X MCCoordinates |->
                  IF p[1] < p[2] THEN p[2] - p[1] ELSE p[1] - p[2]]
=============================================================================
