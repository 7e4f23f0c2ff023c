------------------------------ MODULE GreedyLoop ------------------------------
(***************************************************************************)
(* The loop of reconcileDarts itself: the candidates are visited in some   *)
(* order that sorts them by distance and each one is taken unless its dart *)
(* or its throw has been used.  WorldTracker uses the set Matchings in its *)
(* place; here the two are shown to agree.                                 *)
(***************************************************************************)
EXTENDS DartMatching

CONSTANT Longest \* bound: the longest list of darts or throws

ASSUME LongestAssumption == Longest \in Nat

VARIABLES
    previous, \* darts of the old world (the fields a matching depends on)
    observed, \* throws of the new board state
    pending,  \* candidates the loop has not reached
    chosen,   \* candidates it has taken
    (***********************************************************************)
    (* Auxiliary: a matching picked beforehand, and whether the order so   *)
    (* far put its members first among the candidates of equal distance.   *)
    (***********************************************************************)
    target,
    guided

loopVars == <<previous, observed, pending, chosen, target, guided>>

Points == UNION {[1..n -> [coordinates : Coordinates]] : n \in 0..Longest}

LoopInit ==
    /\ previous \in Points
    /\ observed \in Points
    /\ pending = Candidates(previous, observed)
    /\ chosen = {}
    /\ target \in Matchings(previous, observed)
    /\ guided = TRUE

(* Mutant: the candidates are visited as they were found. *)
ClosestUnsorted(c) == c \in pending

Closest(c) == \A d \in pending : Sooner(previous, observed, c, d)

(* Mutant: usedObserved is not consulted. *)
UsedPrevious(c) == \E m \in chosen : m[1] = c[1]

Used(c) == \E m \in chosen : Conflict(c, m)

Visit(c) ==
    /\ Closest(c)
    /\ pending' = pending \ {c}
    /\ chosen' = IF Used(c) THEN chosen ELSE chosen \cup {c}
    /\ guided' = (guided /\ (c \in target \/ \A d \in target \cap pending : ~Closest(d)))
    /\ UNCHANGED <<previous, observed, target>>

LoopNext == \E c \in pending : Visit(c)

LoopSpec == LoopInit /\ [][LoopNext]_loopVars

-----------------------------------------------------------------------------

(* Type correctness: the loop works on the candidates of its input. *)
LoopTypeOK ==
    /\ previous \in Points
    /\ observed \in Points
    /\ pending \subseteq Candidates(previous, observed)
    /\ chosen \subseteq Candidates(previous, observed) \ pending
    /\ target \in Matchings(previous, observed)
    /\ guided \in BOOLEAN

(* Whatever order sort.Slice gives to candidates at equal distance, the    *)
(* loop ends with one of the Matchings.                                    *)
OutcomeIsMatching == pending = {} => chosen \in Matchings(previous, observed)

(* And each of the Matchings is the outcome for some order: the one that   *)
(* puts its members first among candidates at equal distance.              *)
MatchingIsOutcome == pending = {} /\ guided => chosen = target
=============================================================================
