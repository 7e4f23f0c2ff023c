----------------------------- MODULE DartMatching -----------------------------
(***************************************************************************)
(* The pure part of the world tracker (dataset/world.go): how the throws   *)
(* of a new board state are matched with the darts already known, and how  *)
(* the difference between two worlds is described.                         *)
(*                                                                         *)
(* Coordinates are abstract points with an integer distance.  sort.Slice   *)
(* is not stable, so candidates at equal distance are processed in an      *)
(* order the code does not determine: the matching is a choice from a set, *)
(* never a function.                                                       *)
(***************************************************************************)
EXTENDS Naturals, FiniteSets, Sequences

CONSTANTS
    Coordinates, \* the points a dart tip can be reported at
    Segments,    \* the segments a throw can be scored as
    Distance,    \* math.Hypot of the difference of two points
    Near         \* the matching radius, 0.15 in the code

(* Two points are at distance zero exactly when they are equal. *)
ASSUME DistanceAssumption ==
    /\ Distance \in [Coordinates \X Coordinates -> Nat]
    /\ \A a, b \in Coordinates : Distance[<<a, b>>] = 0 <=> a = b
    /\ Near \in Nat

-----------------------------------------------------------------------------

Throw == [coordinates : Coordinates, segment : Segments]

PhysicalDart == [id          : Nat \ {0},
                 order       : Nat \ {0},
                 coordinates : Coordinates,
                 segment     : Segments]

(* A candidate <<p, o>> pairs a known dart with an observed throw. *)
coordinateDistance(previous, observed, c) ==
    Distance[<<previous[c[1]].coordinates, observed[c[2]].coordinates>>]

(* Mutant: the boundary of the radius excluded. *)
CandidatesStrictlyNear(previous, observed) ==
    {c \in (DOMAIN previous) \X (DOMAIN observed) :
        coordinateDistance(previous, observed, c) < Near}

Candidates(previous, observed) ==
    {c \in (DOMAIN previous) \X (DOMAIN observed) :
        coordinateDistance(previous, observed, c) <= Near}

(* Mutant: usedPrevious is not consulted. *)
ConflictOnThrow(c, d) == c[2] = d[2]

Conflict(c, d) == c[1] = d[1] \/ c[2] = d[2]

(* The order sort.Slice gives the candidates.  Mutant: they are not sorted. *)
SoonerUnsorted(previous, observed, c, d) == TRUE

Sooner(previous, observed, c, d) ==
    coordinateDistance(previous, observed, c) <= coordinateDistance(previous, observed, d)

(***************************************************************************)
(* The matchings the greedy loop can produce over any order that sorts the *)
(* candidates by distance: no two chosen pairs share a dart or a throw,    *)
(* and a pair is skipped only for a chosen pair at most as far apart.      *)
(* GreedyLoop compares this with the loop itself.                          *)
(***************************************************************************)
Matchings(previous, observed) ==
    {M \in SUBSET Candidates(previous, observed) :
        /\ \A c, d \in M : Conflict(c, d) => c = d
        /\ \A c \in Candidates(previous, observed) \ M :
             \E m \in M : Conflict(c, m) /\ Sooner(previous, observed, m, c)}

Matched(M) == {c[2] : c \in M}

Partner(M, o) == CHOOSE p \in {c[1] : c \in M} : <<p, o>> \in M

(* Throws without a partner take the next free numbers, in board order. *)
Unmatched(observed, M) == DOMAIN observed \ Matched(M)

(* Mutant: the place in the list is used. *)
NewIdFromOrder(observed, M, counter, o) == o

NewId(observed, M, counter, o) ==
    counter + Cardinality({u \in Unmatched(observed, M) : u <= o})

reconcileDarts(previous, observed, M, counter) ==
    [o \in DOMAIN observed |->
        [id          |-> IF o \in Matched(M)
                         THEN previous[Partner(M, o)].id
                         ELSE NewId(observed, M, counter, o),
         order       |-> o,
         coordinates |-> observed[o].coordinates,
         segment     |-> observed[o].segment]]

-----------------------------------------------------------------------------

Darts(world) == {world[i] : i \in DOMAIN world}

Ids(world) == {world[i].id : i \in DOMAIN world}

(* Mutant: a corrected segment is not noticed. *)
MovedOnly(b, d) == b.coordinates # d.coordinates

Corrected(b, d) == b.coordinates # d.coordinates \/ b.segment # d.segment

(* Mutants: departures overlooked, and the case of no change left out. *)
TypeWithoutRemovals(added, removed, updated) ==
    CASE added = {} /\ updated = {}  -> "unchanged"
      [] added # {} /\ updated = {} -> "darts-added"
      [] OTHER                      -> "world-reconciled"

TypeNeverUnchanged(added, removed, updated) ==
    CASE added # {} /\ removed = {} /\ updated = {} -> "darts-added"
      [] added = {} /\ removed # {} /\ updated = {} -> "darts-removed"
      [] OTHER                                      -> "world-reconciled"

TransitionType(added, removed, updated) ==
    CASE added = {} /\ removed = {} /\ updated = {}  -> "unchanged"
      [] added # {} /\ removed = {} /\ updated = {} -> "darts-added"
      [] added = {} /\ removed # {} /\ updated = {} -> "darts-removed"
      [] OTHER                                      -> "world-reconciled"

transitionBetween(before, after) ==
    LET added        == {d \in Darts(after) : d.id \notin Ids(before)}
        stillPresent == Darts(after) \ added
        updated      == {d \in stillPresent :
                            \E b \in Darts(before) : b.id = d.id /\ Corrected(b, d)}
        removed      == {b \in Darts(before) : b.id \notin Ids(after)}
    IN  [type |-> TransitionType(added, removed, updated),
         added |-> added, removed |-> removed,
         updated |-> updated, stillPresent |-> stillPresent]

(* Mutant: only the number of darts is compared. *)
boardStateMatchesCount(throws, world) == Len(throws) = Len(world)

(* Index by index, as the recorder compares a board with its world. *)
boardStateMatchesWorld(throws, world) ==
    /\ Len(throws) = Len(world)
    /\ \A i \in DOMAIN throws :
          /\ throws[i].coordinates = world[i].coordinates
          /\ throws[i].segment = world[i].segment
=============================================================================
