-------------------------- MODULE WorldTrackerProofs --------------------------
(***************************************************************************)
(* For any points, any distance, any matching radius and any bounds: the   *)
(* dart identities of the world tracker, and its loop, which produces      *)
(* exactly the members of Matchings.                                       *)
(***************************************************************************)
EXTENDS WorldTracker, GreedyLoop, DartMatchingProofs

(***************************************************************************)
(* The loop.                                                               *)
(***************************************************************************)

(* The distance of two candidates is a number. *)
LEMMA CandidateDistance ==
    ASSUME NEW p \in Points, NEW o \in Points, NEW c \in Candidates(p, o)
    PROVE  coordinateDistance(p, o, c) \in Nat
<1>1. PICK n \in 0..Longest : p \in [1..n -> [coordinates : Coordinates]]
  BY DEF Points
<1>2. PICK m \in 0..Longest : o \in [1..m -> [coordinates : Coordinates]]
  BY DEF Points
<1>3. c \in (DOMAIN p) \X (DOMAIN o)
  BY DEF Candidates
<1>4. p[c[1]].coordinates \in Coordinates /\ o[c[2]].coordinates \in Coordinates
  BY <1>1, <1>2, <1>3
<1>5. QED
  BY <1>4, DistanceAssumption DEF coordinateDistance

(***************************************************************************)
(* The invariant of the loop.  A candidate already visited was either      *)
(* taken or refused for one taken before it, hence at most as far apart;   *)
(* no candidate still to come is closer than one taken.                    *)
(***************************************************************************)
OneToOne == \A c, d \in chosen : Conflict(c, d) => c = d

Refused == Candidates(previous, observed) \ (pending \cup chosen)

RefusedForCloser ==
    \A c \in Refused : \E m \in chosen :
        /\ Conflict(c, m)
        /\ coordinateDistance(previous, observed, m)
             <= coordinateDistance(previous, observed, c)

Sorted ==
    \A c \in pending, d \in Candidates(previous, observed) \ pending :
        coordinateDistance(previous, observed, d)
          <= coordinateDistance(previous, observed, c)

FollowsTarget == guided => chosen = target \ pending

LoopInv == LoopTypeOK /\ OneToOne /\ RefusedForCloser /\ Sorted /\ FollowsTarget

LEMMA LoopInvInit == LoopInit => LoopInv
<1> SUFFICES ASSUME LoopInit PROVE LoopInv
  OBVIOUS
<1>1. LoopTypeOK
  BY DEF LoopInit, LoopTypeOK
<1>2. target \subseteq Candidates(previous, observed)
  BY DEF LoopInit, Matchings
<1>3. OneToOne /\ RefusedForCloser /\ Sorted /\ FollowsTarget
  BY <1>2 DEF LoopInit, OneToOne, RefusedForCloser, Refused, Sorted, FollowsTarget
<1>4. QED
  BY <1>1, <1>3 DEF LoopInv

LEMMA LoopInvStep == LoopInv /\ [LoopNext]_loopVars => LoopInv'
<1> SUFFICES ASSUME LoopInv, [LoopNext]_loopVars PROVE LoopInv'
  OBVIOUS
<1> USE DEF LoopInv
<1>1. CASE UNCHANGED loopVars
  <2>1. UNCHANGED <<previous, observed, pending, chosen, target, guided>>
    BY <1>1 DEF loopVars
  <2>2. LoopTypeOK' /\ OneToOne'
    BY <2>1 DEF LoopTypeOK, OneToOne
  <2>3. RefusedForCloser'
    BY <2>1 DEF RefusedForCloser, Refused
  <2>4. Sorted' /\ FollowsTarget'
    BY <2>1 DEF Sorted, FollowsTarget
  <2>5. QED
    BY <2>2, <2>3, <2>4
<1>2. ASSUME NEW c \in pending, Visit(c) PROVE LoopInv'
  <2> DEFINE C == Candidates(previous, observed)
             dist(d) == coordinateDistance(previous, observed, d)
  <2>0. /\ previous' = previous /\ observed' = observed /\ target' = target
        /\ pending' = pending \ {c}
        /\ chosen' = IF Used(c) THEN chosen ELSE chosen \cup {c}
        /\ guided' = (guided /\ (c \in target \/ \A d \in target \cap pending : ~Closest(d)))
    BY <1>2 DEF Visit
  <2>1. c \in C /\ pending \subseteq C /\ chosen \subseteq C \ pending
    BY DEF LoopTypeOK
  <2>2. \A d \in C : dist(d) \in Nat
    BY CandidateDistance DEF LoopTypeOK
  <2>3. \A d \in pending : dist(c) <= dist(d)
    BY <1>2 DEF Visit, Closest, Sooner
  <2>4. \A d \in chosen : dist(d) <= dist(c)
    BY <2>1 DEF Sorted
  <2>5. LoopTypeOK'
    BY <2>0, <2>1 DEF LoopTypeOK
  <2>6. OneToOne'
    BY <2>0 DEF OneToOne, Used, Conflict
  <2>7. RefusedForCloser'
    <3> SUFFICES ASSUME NEW d \in C \ (pending' \cup chosen')
                 PROVE  \E m \in chosen' : Conflict(d, m) /\ dist(m) <= dist(d)
      BY <2>0 DEF RefusedForCloser, Refused
    <3>1. CASE d = c
      <4>1. Used(c) /\ chosen' = chosen
        BY <3>1, <2>0
      <4>2. PICK m \in chosen : Conflict(c, m)
        BY <4>1 DEF Used
      <4>3. QED
        BY <3>1, <4>1, <4>2, <2>4
    <3>2. CASE d # c
      <4>1. d \in Refused
        BY <3>2, <2>0 DEF Refused
      <4>2. PICK m \in chosen : Conflict(d, m) /\ dist(m) <= dist(d)
        BY <4>1 DEF RefusedForCloser
      <4>3. QED
        BY <4>2, <2>0
    <3>3. QED
      BY <3>1, <3>2
  <2>8. Sorted'
    <3> SUFFICES ASSUME NEW d \in pending \ {c}, NEW e \in C \ (pending \ {c})
                 PROVE  dist(e) <= dist(d)
      BY <2>0 DEF Sorted
    <3>1. CASE e = c
      BY <3>1, <2>3
    <3>2. CASE e # c
      BY <3>2 DEF Sorted
    <3>3. QED
      BY <3>1, <3>2
  <2>9. FollowsTarget'
    <3> SUFFICES ASSUME guided' PROVE chosen' = target \ (pending \ {c})
      BY <2>0 DEF FollowsTarget
    <3>0. /\ guided /\ chosen = target \ pending
          /\ c \in target \/ \A d \in target \cap pending : ~Closest(d)
      BY <2>0 DEF FollowsTarget
    <3>1. /\ target \subseteq C
          /\ \A d, e \in target : Conflict(d, e) => d = e
          /\ \A d \in C \ target : \E m \in target : Conflict(d, m) /\ dist(m) <= dist(d)
      BY DEF LoopTypeOK, Matchings, Sooner
    <3>2. CASE c \in target
      <4>1. ~Used(c)
        BY <3>0, <3>1, <3>2 DEF Used
      <4>2. QED
        BY <4>1, <3>0, <3>2, <2>0
    <3>3. CASE c \notin target
      <4>1. PICK m \in target : Conflict(c, m) /\ dist(m) <= dist(c)
        BY <3>1, <3>3, <2>1
      <4>2. m \notin pending
        <5> SUFFICES ASSUME m \in pending PROVE FALSE
          OBVIOUS
        <5>1. \A d \in pending : dist(m) <= dist(d)
          BY <4>1, <2>1, <2>2, <2>3
        <5>2. QED
          BY <5>1, <3>0, <3>3, <4>1 DEF Closest, Sooner
      <4>3. Used(c)
        BY <4>1, <4>2, <3>0 DEF Used
      <4>4. QED
        BY <4>3, <3>0, <3>3, <2>0
    <3>4. QED
      BY <3>2, <3>3
  <2>10. QED
    BY <2>5, <2>6, <2>7, <2>8, <2>9
<1>3. QED
  BY <1>1, <1>2 DEF LoopNext

LEMMA LoopInvariant == LoopSpec => []LoopInv
BY LoopInvInit, LoopInvStep, PTL DEF LoopSpec

(* Type correctness of the loop, for inputs of any length. *)
THEOREM LoopTypeCorrect == LoopSpec => []LoopTypeOK
<1>1. LoopInv => LoopTypeOK
  BY DEF LoopInv
<1>2. QED
  BY <1>1, LoopInvariant, PTL

(* Soundness: every outcome of the loop in reconcileDarts is in Matchings. *)
THEOREM LoopYieldsMatching == LoopSpec => []OutcomeIsMatching
<1>1. LoopInv => OutcomeIsMatching
  <2> SUFFICES ASSUME LoopInv, pending = {}
               PROVE  chosen \in Matchings(previous, observed)
    BY DEF OutcomeIsMatching
  <2>1. chosen \subseteq Candidates(previous, observed)
    BY DEF LoopInv, LoopTypeOK
  <2>2. QED
    BY <2>1 DEF LoopInv, OneToOne, RefusedForCloser, Refused, Matchings, Sooner
<1>2. QED
  BY <1>1, LoopInvariant, PTL

(* Completeness: each of the Matchings is the outcome of the loop for an   *)
(* order that sort.Slice may produce.                                      *)
THEOREM MatchingYieldedByLoop == LoopSpec => []MatchingIsOutcome
<1>1. LoopInv => MatchingIsOutcome
  BY DEF LoopInv, FollowsTarget, MatchingIsOutcome
<1>2. QED
  BY <1>1, LoopInvariant, PTL

-----------------------------------------------------------------------------
(***************************************************************************)
(* The tracker.                                                            *)
(***************************************************************************)

LEMMA BoardThrowsAreSequences ==
    ASSUME NEW throws \in BoardThrows
    PROVE  /\ Len(throws) \in Nat
           /\ throws \in [1..Len(throws) -> Throw]
           /\ throws \in Seq(Throw)
           /\ DOMAIN throws = 1..Len(throws)
<1>1. PICK n \in 0..MaxThrows : throws \in [1..n -> Throw]
  BY DEF BoardThrows
<1>2. throws \in Seq(Throw) /\ Len(throws) = n
  BY <1>1
<1>3. QED
  BY <1>1, <1>2

-----------------------------------------------------------------------------

(***************************************************************************)
(* The invariant.  Type correctness alone is not inductive for identities: *)
(* a fresh number is new only because every old one is at most the         *)
(* counter.                                                                *)
(***************************************************************************)
Inv == TypeOK /\ IdentitiesDistinct

LEMMA InvInit == Init => Inv
<1> SUFFICES ASSUME NEW throws \in BoardThrows, Len(throws) <= MaxDartCounter,
                    initialState(throws), emitted = NoTransition
             PROVE  Inv
  BY DEF Init
<1>1. /\ Len(throws) \in Nat
      /\ throws \in [1..Len(throws) -> Throw]
      /\ DOMAIN throws = 1..Len(throws)
  BY BoardThrowsAreSequences
<1>2. throws \in Seq(Throw) /\ darts = reconcileDarts(<<>>, throws, {}, 0)
  BY BoardThrowsAreSequences DEF initialState
<1>3. /\ darts \in Seq(PhysicalDart)
      /\ \A i \in DOMAIN darts : darts[i].order = i
      /\ \A i, j \in DOMAIN darts : darts[i].id = darts[j].id => i = j
      /\ \A i \in DOMAIN darts : darts[i].id \in 1..Len(throws)
  BY <1>2, FirstDarts
<1>4. dartCounter = Len(throws) /\ stateCounter = 1 /\ stateId = 1
  BY DEF initialState
<1>5. IdentitiesDistinct
  BY <1>1, <1>3, <1>4 DEF IdentitiesDistinct
<1>6. TypeOK
  <2>1. <<>> \in Seq(PhysicalDart)
    OBVIOUS
  <2>2. /\ emitted.type \in {"unchanged", "darts-added", "darts-removed", "world-reconciled"}
        /\ emitted.added \subseteq PhysicalDart
        /\ emitted.removed \subseteq PhysicalDart
        /\ emitted.updated \subseteq PhysicalDart
        /\ emitted.stillPresent \subseteq PhysicalDart
    BY <2>1, TransitionTyped DEF NoTransition
  <2>3. dartCounter \in 0..MaxDartCounter /\ stateCounter \in 1..MaxStateCounter /\ stateId \in 1..stateCounter
    BY <1>1, <1>4, BoundsAssumption
  <2>4. QED
    BY <1>3, <2>2, <2>3 DEF TypeOK
<1>7. QED
  BY <1>5, <1>6 DEF Inv

(***************************************************************************)
(* What one observation does, with the facts of Reconciled at hand.  The   *)
(* step lemmas below start from here.                                      *)
(***************************************************************************)
ObserveFacts(throws, M, afterDarts, new) ==
    /\ throws \in BoardThrows
    /\ M \in Matchings(darts, throws)
    /\ afterDarts = reconcileDarts(darts, throws, M, dartCounter)
    /\ new = Cardinality(Unmatched(throws, M))
    /\ new \in Nat
    /\ afterDarts \in Seq(PhysicalDart)
    /\ DOMAIN afterDarts = DOMAIN throws
    /\ \A i \in DOMAIN afterDarts : afterDarts[i].order = i
    /\ \A i, j \in DOMAIN afterDarts : afterDarts[i].id = afterDarts[j].id => i = j
    /\ \A i \in DOMAIN afterDarts :
          afterDarts[i].id \in Ids(darts) \cup ((dartCounter + 1)..(dartCounter + new))
    /\ \A k \in (dartCounter + 1)..(dartCounter + new) : k \in Ids(afterDarts)
    /\ dartCounter + new <= MaxDartCounter
    /\ dartCounter' = dartCounter + new
    /\ emitted' = transitionBetween(darts, afterDarts)
    /\ \/ /\ emitted'.type = "unchanged"
          /\ UNCHANGED <<stateCounter, stateId, darts>>
       \/ /\ emitted'.type # "unchanged"
          /\ stateCounter < MaxStateCounter
          /\ stateCounter' = stateCounter + 1
          /\ stateId' = stateCounter'
          /\ darts' = afterDarts

LEMMA Observe ==
    ASSUME Inv, NEW throws \in BoardThrows, observe(throws)
    PROVE  \E M, afterDarts, new : ObserveFacts(throws, M, afterDarts, new)
<1>1. PICK M \in Matchings(darts, throws) :
        LET afterDarts == reconcileDarts(darts, throws, M, dartCounter)
            transition == transitionBetween(darts, afterDarts)
        IN  /\ dartCounter + Cardinality(Unmatched(throws, M)) <= MaxDartCounter
            /\ dartCounter' = dartCounter + Cardinality(Unmatched(throws, M))
            /\ emitted' = transition
            /\ IF transition.type = "unchanged"
               THEN UNCHANGED <<stateCounter, stateId, darts>>
               ELSE /\ stateCounter < MaxStateCounter
                    /\ stateCounter' = stateCounter + 1
                    /\ stateId' = stateCounter'
                    /\ darts' = afterDarts
  BY DEF observe
<1> DEFINE afterDarts == reconcileDarts(darts, throws, M, dartCounter)
           new == Cardinality(Unmatched(throws, M))
<1>2. /\ darts \in Seq(PhysicalDart) /\ dartCounter \in Nat
      /\ \A i, j \in DOMAIN darts : darts[i].id = darts[j].id => i = j
      /\ \A i \in DOMAIN darts : darts[i].id <= dartCounter
  BY DEF Inv, TypeOK, IdentitiesDistinct
<1>3. /\ new \in Nat
      /\ afterDarts \in Seq(PhysicalDart)
      /\ DOMAIN afterDarts = DOMAIN throws
      /\ \A i \in DOMAIN afterDarts : afterDarts[i].order = i
      /\ \A i, j \in DOMAIN afterDarts : afterDarts[i].id = afterDarts[j].id => i = j
      /\ \A i \in DOMAIN afterDarts :
            afterDarts[i].id \in Ids(darts) \cup ((dartCounter + 1)..(dartCounter + new))
      /\ \A k \in (dartCounter + 1)..(dartCounter + new) : k \in Ids(afterDarts)
  <2>1. throws \in Seq(Throw)
    BY BoardThrowsAreSequences
  <2>2. QED
    BY <1>2, <2>1, Reconciled
<1>4. ObserveFacts(throws, M, afterDarts, new)
  BY <1>1, <1>3 DEF ObserveFacts
<1>5. QED
  BY <1>4

LEMMA InvStep == Inv /\ [Next]_vars => Inv'
<1> SUFFICES ASSUME Inv, [Next]_vars PROVE Inv'
  OBVIOUS
<1>1. CASE UNCHANGED vars
  BY <1>1 DEF vars, Inv, TypeOK, IdentitiesDistinct
<1>2. ASSUME NEW throws \in BoardThrows, observe(throws) PROVE Inv'
  <2>1. PICK M, afterDarts, new : ObserveFacts(throws, M, afterDarts, new)
    BY <1>2, Observe
  <2>2. /\ stateCounter \in 1..MaxStateCounter /\ dartCounter \in 0..MaxDartCounter
        /\ stateId \in 1..stateCounter /\ darts \in Seq(PhysicalDart)
        /\ \A i \in DOMAIN darts : darts[i].order = i
    BY DEF Inv, TypeOK
  <2>3. /\ dartCounter' \in 0..MaxDartCounter
        /\ \A i \in DOMAIN darts : darts[i].id <= dartCounter'
        /\ \A i \in DOMAIN afterDarts : afterDarts[i].id <= dartCounter'
    <3>1. dartCounter' \in 0..MaxDartCounter
      BY <2>1, <2>2, BoundsAssumption DEF ObserveFacts
    <3>2. \A i \in DOMAIN darts : darts[i].id <= dartCounter /\ darts[i].id \in Nat
      <4>1. \A i \in DOMAIN darts : darts[i] \in PhysicalDart
        BY <2>2
      <4>2. QED
        BY <4>1 DEF Inv, IdentitiesDistinct, PhysicalDart
    <3>3. dartCounter' = dartCounter + new /\ new \in Nat
      BY <2>1 DEF ObserveFacts
    <3>4. \A i \in DOMAIN darts : darts[i].id <= dartCounter'
      BY <2>2, <3>2, <3>3
    <3>5. \A k \in Ids(darts) : k <= dartCounter'
      BY <3>4 DEF Ids
    <3>6. \A i \in DOMAIN afterDarts : afterDarts[i].id <= dartCounter'
      BY <2>1, <2>2, <3>3, <3>5 DEF ObserveFacts
    <3>7. QED
      BY <3>1, <3>4, <3>6
  <2>4. IdentitiesDistinct'
    <3>1. \A i, j \in DOMAIN darts : darts[i].id = darts[j].id => i = j
      BY DEF Inv, IdentitiesDistinct
    <3>2. QED
      BY <2>1, <2>3, <3>1 DEF ObserveFacts, IdentitiesDistinct
  <2>5. /\ emitted'.type \in {"unchanged", "darts-added", "darts-removed", "world-reconciled"}
        /\ emitted'.added \subseteq PhysicalDart
        /\ emitted'.removed \subseteq PhysicalDart
        /\ emitted'.updated \subseteq PhysicalDart
        /\ emitted'.stillPresent \subseteq PhysicalDart
    BY <2>1, <2>2, TransitionTyped DEF ObserveFacts
  <2>6. stateCounter' \in 1..MaxStateCounter /\ stateId' \in 1..stateCounter'
    BY <2>1, <2>2, BoundsAssumption, SMTT(30) DEF ObserveFacts
  <2>7. darts' \in Seq(PhysicalDart) /\ \A i \in DOMAIN darts' : darts'[i].order = i
    BY <2>1, <2>2 DEF ObserveFacts
  <2>8. QED
    BY <2>3, <2>4, <2>5, <2>6, <2>7 DEF Inv, TypeOK
<1>3. QED
  BY <1>1, <1>2 DEF Next

LEMMA Invariant == Spec => []Inv
BY InvInit, InvStep, PTL DEF Spec

(* The state of the tracker is well formed whatever the teacher reports.   *)
THEOREM TypeCorrect == Spec => []TypeOK
<1>1. Inv => TypeOK
  BY DEF Inv
<1>2. QED
  BY <1>1, Invariant, PTL

(* Darts of one world have distinct identities, all of them issued.        *)
THEOREM DartsDistinct == Spec => []IdentitiesDistinct
<1>1. Inv => IdentitiesDistinct
  BY DEF Inv
<1>2. QED
  BY <1>1, Invariant, PTL

-----------------------------------------------------------------------------

LEMMA RegistryInit == Init => Registry!Init
<1> SUFFICES ASSUME Init PROVE Registry!Init
  OBVIOUS
<1>1. PICK throws \in BoardThrows : initialState(throws)
  BY DEF Init
<1>2. Inv
  BY InvInit
<1>3. Ids(darts) \subseteq Nat \ {0}
  <2>1. \A i \in DOMAIN darts : darts[i] \in PhysicalDart
    BY <1>2 DEF Inv, TypeOK
  <2>2. QED
    BY <2>1 DEF Ids, PhysicalDart
<1>4. /\ dartCounter = Len(throws)
      /\ darts = reconcileDarts(<<>>, throws, {}, 0)
  BY <1>1 DEF initialState
<1>5. \A o \in 1..Len(throws) : o \in Ids(darts)
  <2>1. throws \in Seq(Throw)
    BY BoardThrowsAreSequences
  <2> QED
    BY <1>4, <2>1, FirstDarts
<1>6. (1..dartCounter) \ Ids(darts) = {}
  BY <1>4, <1>5
<1>7. QED
  BY <1>3, <1>6 DEF Registry!Init, Registry!Identity

LEMMA RegistryStep ==
    ASSUME Inv, Inv', [Next]_vars
    PROVE  [Registry!Next]_<<Ids(darts), (1..dartCounter) \ Ids(darts)>>
<1>1. CASE UNCHANGED vars
  BY <1>1 DEF vars
<1>2. ASSUME NEW throws \in BoardThrows, observe(throws)
      PROVE  Registry!Next
  <2>1. PICK M, afterDarts, new : ObserveFacts(throws, M, afterDarts, new)
    BY <1>2, Observe
  <2>2. /\ dartCounter \in Nat /\ new \in Nat /\ dartCounter' = dartCounter + new
    BY <2>1 DEF ObserveFacts, Inv, TypeOK
  <2>3. /\ Ids(darts) \subseteq 1..dartCounter
        /\ Ids(darts') \subseteq 1..dartCounter'
    <3>1. \A i \in DOMAIN darts : darts[i] \in PhysicalDart
      BY DEF Inv, TypeOK
    <3>2. \A i \in DOMAIN darts' : darts'[i] \in PhysicalDart
      BY DEF Inv, TypeOK
    <3>3. QED
      BY <2>2, <3>1, <3>2 DEF Ids, PhysicalDart, Inv, IdentitiesDistinct
  <2>4. /\ Ids(darts') \subseteq Ids(darts) \cup ((dartCounter + 1)..dartCounter')
        /\ (dartCounter + 1)..dartCounter' \subseteq Ids(darts')
    <3>1. CASE emitted'.type = "unchanged"
      <4>1. new = 0
        <5>1. /\ darts \in Seq(PhysicalDart) /\ dartCounter \in Nat
              /\ \A i, j \in DOMAIN darts : darts[i].id = darts[j].id => i = j
              /\ \A i \in DOMAIN darts : darts[i].id <= dartCounter
          BY DEF Inv, TypeOK, IdentitiesDistinct
        <5>2. /\ throws \in Seq(Throw)
              /\ M \in Matchings(darts, throws)
              /\ afterDarts = reconcileDarts(darts, throws, M, dartCounter)
              /\ new = Cardinality(Unmatched(throws, M))
              /\ transitionBetween(darts, afterDarts).type = "unchanged"
          BY <2>1, <3>1, BoardThrowsAreSequences DEF ObserveFacts
        <5> QED
          BY <5>1, <5>2, UnchangedIssuesNone
      <4>2. darts' = darts
        BY <2>1, <3>1 DEF ObserveFacts
      <4>3. QED
        BY <2>2, <4>1, <4>2
    <3>2. CASE emitted'.type # "unchanged"
      <4>1. darts' = afterDarts
        BY <2>1, <3>2 DEF ObserveFacts
      <4>2. Ids(darts') \subseteq Ids(darts) \cup ((dartCounter + 1)..dartCounter')
        <5>1. \A i \in DOMAIN afterDarts :
                 afterDarts[i].id \in Ids(darts) \cup ((dartCounter + 1)..(dartCounter + new))
          BY <2>1 DEF ObserveFacts
        <5>2. \A k \in Ids(darts') : \E i \in DOMAIN afterDarts : k = afterDarts[i].id
          BY <4>1 DEF Ids
        <5>3. QED
          BY <2>2, <5>1, <5>2
      <4>3. (dartCounter + 1)..dartCounter' \subseteq Ids(darts')
        BY <2>1, <2>2, <4>1 DEF ObserveFacts
      <4>4. QED
        BY <4>2, <4>3
    <3>3. QED
      BY <3>1, <3>2
  <2> DEFINE gone == Ids(darts) \ Ids(darts')
             fresh == Ids(darts') \ Ids(darts)
  <2>5. fresh \subseteq Nat \ {0}
    BY <2>2, <2>3
  <2>6. fresh \cap (Ids(darts) \cup ((1..dartCounter) \ Ids(darts))) = {}
    BY <2>2, <2>4
  <2>7. (1..dartCounter') \ Ids(darts') = ((1..dartCounter) \ Ids(darts)) \cup gone
    <3>1. 1..dartCounter' = (1..dartCounter) \cup ((dartCounter + 1)..dartCounter')
      BY <2>2
    <3>2. (1..dartCounter) \cap ((dartCounter + 1)..dartCounter') = {}
      BY <2>2
    <3>3. QED
      BY <2>3, <2>4, <3>1, <3>2
  <2>8. QED
    BY <2>5, <2>6, <2>7 DEF Registry!Next, Registry!Change, Registry!Identity
<1>3. QED
  BY <1>1, <1>2 DEF Next

(***************************************************************************)
(* The tracker implements the identity registry of DartIdentity: for every *)
(* sequence of teacher states an identity is issued once and never comes   *)
(* back after its dart has left.                                           *)
(***************************************************************************)
THEOREM ImplementsRegistry == Spec => IdentityRegistry
BY RegistryInit, RegistryStep, Invariant, PTL DEF Spec, IdentityRegistry, Registry!Spec

-----------------------------------------------------------------------------

(* No observation moves an identity further than the matching radius. *)
THEOREM StaysNear == Spec => IdentityStaysNear
<1>1. ASSUME Inv, [Next]_vars, ~UNCHANGED vars,
             NEW d \in Darts(darts), NEW e \in Darts(darts'), d.id = e.id
      PROVE  Distance[<<d.coordinates, e.coordinates>>] <= Near
  <2>1. PICK throws \in BoardThrows : observe(throws)
    BY <1>1 DEF Next
  <2>2. PICK M, afterDarts, new : ObserveFacts(throws, M, afterDarts, new)
    BY <1>1, <2>1, Observe
  <2>3. PICK i \in DOMAIN darts : d = darts[i]
    BY DEF Darts
  <2>4. PICK j \in DOMAIN darts' : e = darts'[j]
    BY DEF Darts
  <2>5. /\ darts \in Seq(PhysicalDart) /\ dartCounter \in Nat
        /\ \A k, l \in DOMAIN darts : darts[k].id = darts[l].id => k = l
        /\ \A k \in DOMAIN darts : darts[k].id <= dartCounter
    BY <1>1 DEF Inv, TypeOK, IdentitiesDistinct
  <2>6. d \in PhysicalDart /\ d.coordinates \in Coordinates
    <3>1. d \in PhysicalDart
      BY <2>3, <2>5
    <3>2. QED
      BY <3>1 DEF PhysicalDart
  <2>7. CASE UNCHANGED darts
    <3>1. d = e
      BY <1>1, <2>3, <2>4, <2>5, <2>7
    <3>2. Distance[<<d.coordinates, e.coordinates>>] = 0
      BY <3>1, <2>6, DistanceAssumption
    <3>3. QED
      BY <3>2, DistanceAssumption
  <2>8. CASE darts' = afterDarts
    <3>1. j \in DOMAIN throws
      BY <2>2, <2>4, <2>8 DEF ObserveFacts
    <3>2. CASE j \in Matched(M)
      <4>1. /\ <<Partner(M, j), j>> \in M /\ Partner(M, j) \in DOMAIN darts
        BY <2>2, <3>2, Partners DEF ObserveFacts
      <4>2. e.id = darts[Partner(M, j)].id /\ e.coordinates = throws[j].coordinates
        BY <2>2, <2>4, <2>8, <3>1, <3>2 DEF ObserveFacts, reconcileDarts
      <4>3. Partner(M, j) = i
        BY <1>1, <2>3, <2>5, <4>1, <4>2
      <4>4. <<i, j>> \in Candidates(darts, throws)
        BY <2>2, <4>1, <4>3 DEF ObserveFacts, Matchings
      <4>5. QED
        BY <2>3, <4>2, <4>4 DEF Candidates, coordinateDistance
    <3>3. CASE j \notin Matched(M)
      <4>1. j \in Unmatched(throws, M)
        BY <3>1, <3>3 DEF Unmatched
      <4>2. e.id = dartCounter + Rank(Unmatched(throws, M), j)
        BY <2>2, <2>4, <2>8, <3>1, <3>3 DEF ObserveFacts, reconcileDarts, NewId, Rank
      <4>3. Rank(Unmatched(throws, M), j) \in Nat \ {0}
        <5>1. Len(throws) \in Nat /\ Unmatched(throws, M) \in SUBSET (1..Len(throws))
          BY BoardThrowsAreSequences DEF Unmatched
        <5>2. /\ Rank(Unmatched(throws, M), j) \in 1..Cardinality(Unmatched(throws, M))
              /\ Cardinality(Unmatched(throws, M)) \in Nat
          BY <4>1, <5>1, RankFacts
        <5>3. QED
          BY <5>2
      <4>4. d.id <= dartCounter /\ d.id \in Nat
        BY <2>3, <2>5, <2>6 DEF PhysicalDart
      <4>5. d.id # e.id
        BY <2>5, <4>2, <4>3, <4>4
      <4>6. QED
        BY <1>1, <4>5
    <3>4. QED
      BY <3>2, <3>3
  <2>9. QED
    BY <2>2, <2>7, <2>8 DEF ObserveFacts
<1>2. Inv /\ [Next]_vars =>
        [\A d \in Darts(darts), e \in Darts(darts') :
            d.id = e.id => Distance[<<d.coordinates, e.coordinates>>] <= Near]_vars
  BY <1>1
<1>3. QED
  BY <1>2, Invariant, PTL DEF Spec, IdentityStaysNear

-----------------------------------------------------------------------------
(***************************************************************************)
(* Transitions.  Two lists of darts with distinct identities differ by     *)
(* exactly what transitionBetween says of them.                            *)
(***************************************************************************)
DistinctIds(list) == \A d, e \in Darts(list) : d.id = e.id => d = e

LEMMA WorldsAreLists ==
    ASSUME NEW list
    PROVE  /\ \A c : c \in World(list) <=> \E d \in Darts(list) : c = Content(d)
           /\ \A k : k \in Ids(list) <=> \E d \in Darts(list) : d.id = k
<1>1. \A k : k \in Ids(list) <=> \E d \in Darts(list) : d.id = k
  BY DEF Ids, Darts
<1>2. QED
  BY <1>1 DEF World

(* A dart that is neither added nor corrected is an old one, as it was. *)
LEMMA StillThere ==
    ASSUME NEW before, NEW after, NEW t, t = transitionBetween(before, after),
           NEW d \in Darts(after), d \notin t.added, d \notin t.updated
    PROVE  \E b \in Darts(before) : b.id = d.id /\ Content(b) = Content(d)
<1>1. d.id \in Ids(before)
  BY DEF transitionBetween
<1>2. PICK b \in Darts(before) : b.id = d.id
  BY <1>1, WorldsAreLists
<1>3. ~Corrected(b, d)
  BY <1>2 DEF transitionBetween
<1>4. QED
  BY <1>2, <1>3 DEF Corrected, Content

LEMMA TransitionReplays ==
    ASSUME NEW before, NEW after, NEW t, t = transitionBetween(before, after),
           DistinctIds(before), DistinctIds(after)
    PROVE  World(after) = Replay(World(before), t)
<1> DEFINE gone == {d.id : d \in t.removed \cup t.updated}
<1>1. /\ t.added \subseteq Darts(after) /\ t.updated \subseteq Darts(after)
      /\ \A b : b \in t.removed <=> b \in Darts(before) /\ b.id \notin Ids(after)
      /\ \A d : d \in t.added <=> d \in Darts(after) /\ d.id \notin Ids(before)
  BY DEF transitionBetween
<1>2. ASSUME NEW d \in Darts(after)
      PROVE  Content(d) \in Replay(World(before), t)
  <2>1. CASE d \in t.added \cup t.updated
    BY <2>1 DEF Replay
  <2>2. CASE d \notin t.added \cup t.updated
    <3>1. PICK b \in Darts(before) : b.id = d.id /\ Content(b) = Content(d)
      BY <2>2, StillThere
    <3>2. d.id \in Ids(after)
      BY WorldsAreLists
    <3>3. d.id \notin gone
      BY <1>1, <2>2, <3>2 DEF DistinctIds
    <3>4. Content(d) \in World(before) /\ Content(d).id = d.id
      BY <3>1 DEF World, Content
    <3>5. QED
      BY <3>3, <3>4 DEF Replay
  <2>3. QED
    BY <2>1, <2>2
<1>3. ASSUME NEW b \in Darts(before), b.id \notin gone
      PROVE  Content(b) \in World(after)
  <2>1. PICK d \in Darts(after) : d.id = b.id
    BY <1>1, <1>3, WorldsAreLists
  <2>2. d \notin t.updated
    BY <1>3, <2>1
  <2>3. d.id \in Ids(before)
    BY <2>1, WorldsAreLists
  <2>4. PICK c \in Darts(before) : c.id = d.id /\ Content(c) = Content(d)
    BY <1>1, <2>2, <2>3, StillThere
  <2>5. c = b
    BY <2>1, <2>4 DEF DistinctIds
  <2>6. QED
    BY <2>4, <2>5 DEF World
<1>4. ASSUME NEW c \in Replay(World(before), t) PROVE c \in World(after)
  <2>1. CASE c \in World(before) /\ c.id \notin gone
    <3>1. PICK b \in Darts(before) : c = Content(b)
      BY <2>1 DEF World
    <3>2. b.id = c.id
      BY <3>1 DEF Content
    <3>3. QED
      BY <1>3, <2>1, <3>1, <3>2
  <2>2. CASE \E d \in t.added \cup t.updated : c = Content(d)
    BY <1>1, <2>2 DEF World
  <2>3. QED
    BY <2>1, <2>2 DEF Replay
<1>5. \A c \in World(after) : c \in Replay(World(before), t)
  BY <1>2 DEF World
<1>6. QED
  BY <1>4, <1>5

(* A transition of no change is one between equal worlds, and only that. *)
LEMMA UnchangedMeansEqual ==
    ASSUME NEW before, NEW after, NEW t, t = transitionBetween(before, after),
           DistinctIds(before), DistinctIds(after)
    PROVE  t.type = "unchanged" <=> World(before) = World(after)
<1>1. /\ \A d : d \in t.added <=> d \in Darts(after) /\ d.id \notin Ids(before)
      /\ \A b : b \in t.removed <=> b \in Darts(before) /\ b.id \notin Ids(after)
      /\ \A d \in t.updated : /\ d \in Darts(after)
                              /\ \E b \in Darts(before) : b.id = d.id /\ Corrected(b, d)
  BY DEF transitionBetween
<1>2. t.type = "unchanged" <=> t.added = {} /\ t.removed = {} /\ t.updated = {}
  BY DEF transitionBetween, TransitionType
<1>3. ASSUME t.added = {}, t.removed = {}, t.updated = {}
      PROVE  World(before) = World(after)
  <2>1. World(after) = Replay(World(before), t)
    BY TransitionReplays
  <2>2. QED
    BY <1>3, <2>1 DEF Replay
<1>4. ASSUME World(before) = World(after)
      PROVE  t.added = {} /\ t.removed = {} /\ t.updated = {}
  <2>1. ASSUME NEW d \in Darts(after)
        PROVE  \E b \in Darts(before) : Content(b) = Content(d)
    BY <1>4 DEF World
  <2>2. ASSUME NEW b \in Darts(before)
        PROVE  \E d \in Darts(after) : Content(b) = Content(d)
    BY <1>4 DEF World
  <2>3. \A b, d : Content(b) = Content(d) => b.id = d.id /\ ~Corrected(b, d)
    BY DEF Content, Corrected
  <2>4. t.added = {}
    <3>1. SUFFICES ASSUME NEW d \in t.added PROVE FALSE
      OBVIOUS
    <3>2. PICK b \in Darts(before) : Content(b) = Content(d)
      BY <1>1, <2>1
    <3>3. d.id \in Ids(before)
      BY <2>3, <3>2, WorldsAreLists
    <3>4. QED
      BY <1>1, <3>3
  <2>5. t.removed = {}
    <3>1. SUFFICES ASSUME NEW b \in t.removed PROVE FALSE
      OBVIOUS
    <3>2. PICK d \in Darts(after) : Content(b) = Content(d)
      BY <1>1, <2>2
    <3>3. b.id \in Ids(after)
      BY <2>3, <3>2, WorldsAreLists
    <3>4. QED
      BY <1>1, <3>3
  <2>6. t.updated = {}
    <3>1. SUFFICES ASSUME NEW d \in t.updated PROVE FALSE
      OBVIOUS
    <3>2. PICK b \in Darts(before) : b.id = d.id /\ Corrected(b, d)
      BY <1>1
    <3>3. PICK c \in Darts(before) : Content(c) = Content(d)
      BY <1>1, <2>1
    <3>4. c = b
      BY <2>3, <3>2, <3>3 DEF DistinctIds
    <3>5. QED
      BY <2>3, <3>2, <3>3, <3>4
  <2>7. QED
    BY <2>4, <2>5, <2>6
<1>5. QED
  BY <1>2, <1>3, <1>4

(* What one call of observe means for the worlds before and after it. *)
LEMMA WorldStep ==
    ASSUME Inv, [Next]_vars, ~UNCHANGED vars
    PROVE  /\ World(darts') = Replay(World(darts), emitted')
           /\ stateId' # stateId <=> World(darts') # World(darts)
<1>1. PICK throws \in BoardThrows : observe(throws)
  BY DEF Next
<1>2. PICK M, afterDarts, new : ObserveFacts(throws, M, afterDarts, new)
  BY <1>1, Observe
<1>3. DistinctIds(darts) /\ DistinctIds(afterDarts)
  BY <1>2 DEF DistinctIds, Darts, Inv, IdentitiesDistinct, ObserveFacts
<1>4. emitted' = transitionBetween(darts, afterDarts)
  BY <1>2 DEF ObserveFacts
<1>5. /\ World(afterDarts) = Replay(World(darts), emitted')
      /\ emitted'.type = "unchanged" <=> World(darts) = World(afterDarts)
  BY <1>3, <1>4, TransitionReplays, UnchangedMeansEqual
<1>6. CASE emitted'.type = "unchanged"
  <2>1. darts' = darts /\ stateId' = stateId
    BY <1>2, <1>6 DEF ObserveFacts
  <2>2. World(darts') = World(darts)
    BY <2>1
  <2>3. QED
    BY <1>5, <1>6, <2>1, <2>2
<1>7. CASE emitted'.type # "unchanged"
  <2>1. darts' = afterDarts /\ stateId' = stateCounter + 1
    BY <1>2, <1>7 DEF ObserveFacts
  <2>2. stateId' # stateId
    BY <2>1 DEF Inv, TypeOK
  <2>3. World(darts') = World(afterDarts)
    BY <2>1
  <2>4. QED
    BY <1>5, <1>7, <2>2, <2>3
<1>8. QED
  BY <1>6, <1>7

(* Applying the transition of a label to the world before it gives the     *)
(* world after it (transitionBetween): nothing is left out or made up.     *)
THEOREM TransitionsAreExact == Spec => TransitionsReplay
<1>1. Inv /\ [Next]_vars => [World(darts') = Replay(World(darts), emitted')]_vars
  BY WorldStep
<1>2. QED
  BY <1>1, Invariant, PTL DEF Spec, TransitionsReplay

(* A world is given a new identity exactly when its content changes        *)
(* (observe), so equal state_ids name equal worlds.                        *)
THEOREM StateIdsNameContent == Spec => StateIdNamesContent
<1>1. Inv /\ [Next]_vars => [stateId' # stateId <=> World(darts') # World(darts)]_vars
  BY WorldStep
<1>2. QED
  BY <1>1, Invariant, PTL DEF Spec, StateIdNamesContent

-----------------------------------------------------------------------------
(***************************************************************************)
(* What the greedy choice means for a dart.                                *)
(***************************************************************************)

(* A throw is reported as added, with a new identity, only when each dart  *)
(* within reach of it went to a throw at most as far away                  *)
(* (AddedOnlyWhenUnclaimed).                                               *)
THEOREM AddedOnlyBeyondReach == Spec => AddedOnlyWhenUnclaimed
<1>1. ASSUME Inv, [Next]_vars, ~UNCHANGED vars,
             NEW e \in emitted'.added, NEW d \in Darts(darts),
             Distance[<<d.coordinates, e.coordinates>>] <= Near
      PROVE  \E f \in Darts(darts') :
                /\ f.id = d.id
                /\ Distance[<<d.coordinates, f.coordinates>>]
                      <= Distance[<<d.coordinates, e.coordinates>>]
  <2>1. PICK throws \in BoardThrows : observe(throws)
    BY <1>1 DEF Next
  <2>2. PICK M, afterDarts, new : ObserveFacts(throws, M, afterDarts, new)
    BY <1>1, <2>1, Observe
  <2>3. /\ emitted' = transitionBetween(darts, afterDarts)
        /\ M \in Matchings(darts, throws)
        /\ afterDarts = reconcileDarts(darts, throws, M, dartCounter)
    BY <2>2 DEF ObserveFacts
  <2>4. PICK o \in DOMAIN afterDarts : e = afterDarts[o] /\ e.id \notin Ids(darts)
    BY <2>3 DEF transitionBetween, Darts
  <2>5. PICK i \in DOMAIN darts : d = darts[i]
    BY DEF Darts
  <2>6. darts' = afterDarts
    <3>1. emitted'.type # "unchanged"
      BY <2>3 DEF transitionBetween, TransitionType
    <3>2. QED
      BY <2>2, <3>1 DEF ObserveFacts
  <2>7. /\ o \in DOMAIN throws /\ afterDarts[o].coordinates = throws[o].coordinates
        /\ o \in Matched(M) => afterDarts[o].id = darts[Partner(M, o)].id
    BY <2>3 DEF reconcileDarts
  <2>8. o \notin Matched(M)
    BY <2>3, <2>4, <2>7, Partners DEF Ids
  <2>9. <<i, o>> \in Candidates(darts, throws) \ M
    BY <1>1, <2>4, <2>5, <2>7, <2>8 DEF Candidates, coordinateDistance, Matched
  <2>10. PICK m \in M : /\ m[1] = i \/ m[2] = o
                        /\ coordinateDistance(darts, throws, m)
                              <= coordinateDistance(darts, throws, <<i, o>>)
    BY <2>3, <2>9, RefusedForNearer
  <2>11. m[1] = i
    BY <2>8, <2>10 DEF Matched
  <2>12. /\ m[2] \in DOMAIN throws /\ m[2] \in Matched(M) /\ Partner(M, m[2]) = i
    BY <2>3, <2>11, PartnerOf
  <2>13. /\ m[2] \in DOMAIN afterDarts
         /\ afterDarts[m[2]].id = darts[i].id
         /\ afterDarts[m[2]].coordinates = throws[m[2]].coordinates
    BY <2>3, <2>12 DEF reconcileDarts
  <2>14. Distance[<<d.coordinates, afterDarts[m[2]].coordinates>>]
            <= Distance[<<d.coordinates, e.coordinates>>]
    BY <2>4, <2>5, <2>7, <2>10, <2>11, <2>13 DEF coordinateDistance
  <2>15. QED
    BY <2>5, <2>6, <2>13, <2>14 DEF Darts
<1>2. Inv /\ [Next]_vars =>
        [\A e \in emitted'.added, d \in Darts(darts) :
            Distance[<<d.coordinates, e.coordinates>>] <= Near =>
               \E f \in Darts(darts') :
                   /\ f.id = d.id
                   /\ Distance[<<d.coordinates, f.coordinates>>]
                         <= Distance[<<d.coordinates, e.coordinates>>]]_vars
  BY <1>1
<1>3. QED
  BY <1>2, Invariant, PTL DEF Spec, AddedOnlyWhenUnclaimed

(* The only dart at a point. *)
LEMMA AloneAt ==
    ASSUME NEW list \in Seq(PhysicalDart), NEW p, Alone(list, p)
    PROVE  \E i \in DOMAIN list :
              /\ list[i].coordinates = p
              /\ \A j \in DOMAIN list : list[j].coordinates = p => j = i
              /\ IdAt(list, p) = {list[i].id}
<1> DEFINE S == {i \in DOMAIN list : list[i].coordinates = p}
<1>1. PICK i : S = {i}
  <2>1. Len(list) \in Nat /\ DOMAIN list = 1..Len(list)
    OBVIOUS
  <2>2. IsFiniteSet(1..Len(list))
    BY <2>1, FS_Interval
  <2>3. IsFiniteSet(S)
    BY <2>1, <2>2, FS_Subset
  <2>4. QED
    BY <2>3, FS_Singleton DEF Alone
<1>2. i \in S /\ \A j \in S : j = i
  BY <1>1
<1>3. IdAt(list, p) = {list[i].id}
  BY <1>2 DEF IdAt, Darts
<1>4. QED
  BY <1>2, <1>3

(* A dart reported exactly where it was, alone at that point before and    *)
(* after, keeps its identity (UnmovedDartKeepsIdentity): its distance is   *)
(* zero, so nothing else comes first for the dart or for the throw.        *)
THEOREM UnmovedKeepsIdentity == Spec => UnmovedDartKeepsIdentity
<1>1. ASSUME Inv, [Next]_vars, ~UNCHANGED vars,
             NEW p \in Coordinates, Alone(darts, p), Alone(darts', p)
      PROVE  IdAt(darts, p) = IdAt(darts', p)
  <2>1. PICK throws \in BoardThrows : observe(throws)
    BY <1>1 DEF Next
  <2>2. PICK M, afterDarts, new : ObserveFacts(throws, M, afterDarts, new)
    BY <1>1, <2>1, Observe
  <2>3. CASE darts' = darts
    BY <2>3
  <2>4. CASE darts' = afterDarts
    <3>1. PICK i \in DOMAIN darts :
              /\ darts[i].coordinates = p
              /\ \A j \in DOMAIN darts : darts[j].coordinates = p => j = i
              /\ IdAt(darts, p) = {darts[i].id}
      BY <1>1, AloneAt DEF Inv, TypeOK
    <3>2. PICK o \in DOMAIN afterDarts :
              /\ afterDarts[o].coordinates = p
              /\ \A q \in DOMAIN afterDarts : afterDarts[q].coordinates = p => q = o
              /\ IdAt(afterDarts, p) = {afterDarts[o].id}
      <4>1. Alone(afterDarts, p) /\ afterDarts \in Seq(PhysicalDart)
        BY <1>1, <2>2, <2>4 DEF ObserveFacts
      <4>2. QED
        BY <4>1, AloneAt
    <3>3. /\ M \in Matchings(darts, throws)
          /\ afterDarts = reconcileDarts(darts, throws, M, dartCounter)
      BY <2>2 DEF ObserveFacts
    <3>4. /\ DOMAIN afterDarts = DOMAIN throws
          /\ \A q \in DOMAIN throws : afterDarts[q].coordinates = throws[q].coordinates
          /\ \A q \in DOMAIN throws : q \in Matched(M) => afterDarts[q].id = darts[Partner(M, q)].id
      BY <3>3 DEF reconcileDarts
    <3>5. coordinateDistance(darts, throws, <<i, o>>) = 0
      BY <3>1, <3>2, <3>4, DistanceAssumption DEF coordinateDistance
    <3>6. <<i, o>> \in Candidates(darts, throws)
      BY <3>4, <3>5, DistanceAssumption DEF Candidates
    <3>7. <<i, o>> \in M
      <4>1. SUFFICES ASSUME <<i, o>> \notin M PROVE FALSE
        OBVIOUS
      <4>2. PICK m \in M : /\ m[1] = i \/ m[2] = o
                           /\ m \in Candidates(darts, throws)
                           /\ coordinateDistance(darts, throws, m) <= 0
        BY <3>3, <3>5, <3>6, <4>1, RefusedForNearer
      <4>3. /\ m[1] \in DOMAIN darts /\ m[2] \in DOMAIN throws /\ m = <<m[1], m[2]>>
        BY <3>3, PartnerOf
      <4>4. /\ darts[m[1]].coordinates \in Coordinates
            /\ throws[m[2]].coordinates \in Coordinates
        <5>1. darts[m[1]] \in PhysicalDart
          BY <1>1, <4>3 DEF Inv, TypeOK
        <5>2. throws[m[2]] \in Throw
          BY <4>3, BoardThrowsAreSequences
        <5>3. QED
          BY <5>1, <5>2 DEF PhysicalDart, Throw
      <4>5. darts[m[1]].coordinates = throws[m[2]].coordinates
        BY <4>2, <4>4, DistanceAssumption DEF coordinateDistance
      <4>6. m[1] = i /\ m[2] = o
        BY <3>1, <3>2, <3>4, <4>2, <4>3, <4>5
      <4>7. QED
        BY <4>1, <4>3, <4>6
    <3>8. afterDarts[o].id = darts[i].id
      BY <3>3, <3>4, <3>7, PartnerOf
    <3>9. QED
      BY <2>4, <3>1, <3>2, <3>8
  <2>5. QED
    BY <2>2, <2>3, <2>4 DEF ObserveFacts
<1>2. Inv /\ [Next]_vars =>
        [\A p \in Coordinates :
            Alone(darts, p) /\ Alone(darts', p) => IdAt(darts, p) = IdAt(darts', p)]_vars
  BY <1>1
<1>3. QED
  BY <1>2, Invariant, PTL DEF Spec, UnmovedDartKeepsIdentity
=============================================================================
