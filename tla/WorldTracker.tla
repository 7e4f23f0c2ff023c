----------------------------- MODULE WorldTracker -----------------------------
(***************************************************************************)
(* The recorder's model of the physical board (dataset/world.go): a list   *)
(* of darts with session-local identities, replaced by every teacher       *)
(* state event that changes it.                                            *)
(***************************************************************************)
EXTENDS DartMatching

CONSTANTS
    MaxThrows,      \* bound: the longest list of throws a board reports
    MaxDartCounter, \* bound: dart identities issued in a session
    MaxStateCounter \* bound: worlds issued in a session

ASSUME BoundsAssumption ==
    MaxThrows \in Nat /\ MaxDartCounter \in Nat /\ MaxStateCounter \in Nat \ {0}

VARIABLES
    stateCounter, \* worlds issued so far
    dartCounter,  \* dart identities issued so far
    stateId,      \* identity of the current world
    darts,        \* darts of the current world
    emitted       \* transition the last call of observe returned

vars == <<stateCounter, dartCounter, stateId, darts, emitted>>

(* The throws a board state carries. *)
BoardThrows == UNION {[1..n -> Throw] : n \in 0..MaxThrows}

NoTransition == transitionBetween(<<>>, <<>>)

-----------------------------------------------------------------------------

(* Every throw of the first board state becomes a dart of its own. *)
initialState(throws) ==
    /\ dartCounter = Len(throws)
    /\ darts = reconcileDarts(<<>>, throws, {}, 0)
    /\ stateCounter = 1
    /\ stateId = 1

Init ==
    /\ \E throws \in BoardThrows :
          Len(throws) <= MaxDartCounter /\ initialState(throws)
    /\ emitted = NoTransition

(* A world that changed is given a new identity; one that did not keeps    *)
(* its identity and its darts, in the order they had.                      *)
observe(throws) ==
    \E M \in Matchings(darts, throws) :
        LET afterDarts == reconcileDarts(darts, throws, M, dartCounter)
            transition == transitionBetween(darts, afterDarts)
        IN  /\ dartCounter + Cardinality(Unmatched(throws, M)) <= MaxDartCounter
            /\ dartCounter' = dartCounter + Cardinality(Unmatched(throws, M))
            /\ emitted' = transition
            /\ IF transition.type = "unchanged"
               THEN UNCHANGED <<stateCounter, stateId, darts>>
               ELSE /\ stateCounter < MaxStateCounter
                    /\ stateCounter' = stateCounter + 1
                    /\ stateId' = stateCounter'
                    /\ darts' = afterDarts

Next == \E throws \in BoardThrows : observe(throws)

Spec == Init /\ [][Next]_vars

-----------------------------------------------------------------------------

(* Type correctness: the current world is a list of darts in board order   *)
(* and the counters stay within the bounds of the model.                   *)
TypeOK ==
    /\ stateCounter \in 1..MaxStateCounter
    /\ dartCounter \in 0..MaxDartCounter
    /\ stateId \in 1..stateCounter
    /\ darts \in Seq(PhysicalDart)
    /\ \A i \in DOMAIN darts : darts[i].order = i
    /\ emitted.type \in {"unchanged", "darts-added", "darts-removed", "world-reconciled"}
    /\ emitted.added \subseteq PhysicalDart
    /\ emitted.removed \subseteq PhysicalDart
    /\ emitted.updated \subseteq PhysicalDart
    /\ emitted.stillPresent \subseteq PhysicalDart

(* No two darts of one world share an identity, and none carries a number  *)
(* the counter has yet to issue: the matching in reconcileDarts is one to  *)
(* one and new numbers are handed out past every old one.                  *)
IdentitiesDistinct ==
    /\ \A i, j \in DOMAIN darts : darts[i].id = darts[j].id => i = j
    /\ \A i \in DOMAIN darts : darts[i].id <= dartCounter

(* What a dart is, apart from the place it has in the list. *)
Content(d) == [id |-> d.id, coordinates |-> d.coordinates, segment |-> d.segment]

World(list) == {Content(d) : d \in Darts(list)}

(* A reader who applies each emitted transition to the previous world      *)
(* obtains the next one: the transition lists of a label leave nothing out *)
(* and report nothing that did not happen.                                 *)
Replay(world, t) ==
    LET gone == {d.id : d \in t.removed \cup t.updated}
    IN  {c \in world : c.id \notin gone} \cup {Content(d) : d \in t.added \cup t.updated}

TransitionsReplay == [][World(darts') = Replay(World(darts), emitted')]_vars

(* The identity of a world changes exactly when its content does: equal    *)
(* state_ids in two labels name the same darts at the same places.         *)
StateIdNamesContent == [][stateId' # stateId <=> World(darts') # World(darts)]_vars

(* A dart the board reports exactly where it was, with no second dart and  *)
(* no second throw at that point, keeps its identity, whatever throws      *)
(* appear near it and in whatever order the board lists them.              *)
Alone(list, p) == Cardinality({i \in DOMAIN list : list[i].coordinates = p}) = 1

IdAt(list, p) == {d.id : d \in {e \in Darts(list) : e.coordinates = p}}

UnmovedDartKeepsIdentity ==
    [][\A p \in Coordinates :
          Alone(darts, p) /\ Alone(darts', p) => IdAt(darts, p) = IdAt(darts', p)]_vars

(* From one world to the next an identity moves at most the matching       *)
(* radius: reconcileDarts never gives a dart's identity to a remote throw. *)
IdentityStaysNear ==
    [][\A d \in Darts(darts), e \in Darts(darts') :
          d.id = e.id => Distance[<<d.coordinates, e.coordinates>>] <= Near]_vars

(* A dart is reported as added, with a new identity, only when every dart  *)
(* that was within reach of it is accounted for by another throw.          *)
AddedOnlyWhenUnclaimed ==
    [][\A e \in emitted'.added, d \in Darts(darts) :
          Distance[<<d.coordinates, e.coordinates>>] <= Near =>
             \E f \in Darts(darts') :
                 /\ f.id = d.id
                 /\ Distance[<<d.coordinates, f.coordinates>>]
                       <= Distance[<<d.coordinates, e.coordinates>>]]_vars

(* Every number issued and no longer on the board is retired. *)
Registry == INSTANCE DartIdentity WITH
                present <- Ids(darts),
                retired <- (1..dartCounter) \ Ids(darts)

(* The tracker implements the identity registry: a dart that leaves the    *)
(* board and one that lands later never share an identity, however many    *)
(* observations lie between them.                                          *)
IdentityRegistry == Registry!Spec
=============================================================================
