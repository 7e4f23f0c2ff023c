--------------------------- MODULE DartMatchingProofs ---------------------------
(***************************************************************************)
(* What the pure part of the world tracker does, for any points, distance, *)
(* radius and lists: the identities reconcileDarts gives to darts, and     *)
(* what transitionBetween says of two worlds.                              *)
(***************************************************************************)
EXTENDS DartMatching, FiniteSetTheorems, TLAPS

(***************************************************************************)
(* Numbering.  Counting the members of U up to u numbers U from 1 to its   *)
(* size, each number once.                                                 *)
(***************************************************************************)
Rank(U, u) == Cardinality({v \in U : v <= u})

LEMMA RankFacts ==
    ASSUME NEW n \in Nat, NEW U \in SUBSET (1..n)
    PROVE  /\ Cardinality(U) \in Nat
           /\ \A u \in U : Rank(U, u) \in 1..Cardinality(U)
           /\ \A u, w \in U : Rank(U, u) = Rank(U, w) => u = w
           /\ \A k \in 1..Cardinality(U) : \E u \in U : Rank(U, u) = k
<1>1. IsFiniteSet(U) /\ Cardinality(U) \in Nat
  <2>1. IsFiniteSet(1..n)
    BY FS_Interval
  <2>2. IsFiniteSet(U)
    BY <2>1, FS_Subset
  <2>3. QED
    BY <2>2, FS_CardinalityType
<1>2. ASSUME NEW u \in U
      PROVE  /\ IsFiniteSet({v \in U : v <= u})
             /\ Rank(U, u) \in 1..Cardinality(U)
  <2> DEFINE S == {v \in U : v <= u}
  <2>1. IsFiniteSet(S) /\ Cardinality(S) <= Cardinality(U)
    BY <1>1, FS_Subset
  <2>2. Cardinality(S) \in Nat
    BY <2>1, FS_CardinalityType
  <2>3. u \in S
    OBVIOUS
  <2>4. Cardinality(S) # 0
    BY <2>1, <2>3, FS_EmptySet
  <2>5. Cardinality(S) \in 1..Cardinality(U)
    BY <2>1, <2>2, <2>4, <1>1
  <2>6. QED
    BY <2>1, <2>5 DEF Rank
<1>3. ASSUME NEW u \in U, NEW w \in U, u < w
      PROVE  Rank(U, u) # Rank(U, w)
  <2> DEFINE S == {v \in U : v <= u}
             T == {v \in U : v <= w}
  <2>1. S \subseteq T /\ w \in T /\ w \notin S
    <3>1. u \in Int /\ w \in Int /\ \A v \in U : v \in Int
      OBVIOUS
    <3>2. w <= w /\ ~(w <= u) /\ \A v \in U : v <= u => v <= w
      BY <1>3, <3>1
    <3>3. QED
      BY <3>2
  <2>2. IsFiniteSet(T)
    BY <1>2
  <2>3. Cardinality(T) # Cardinality(S)
    BY <2>1, <2>2, FS_Subset
  <2>4. QED
    BY <2>3 DEF Rank
<1>4. \A u, w \in U : Rank(U, u) = Rank(U, w) => u = w
  <2> SUFFICES ASSUME NEW u \in U, NEW w \in U, u # w PROVE Rank(U, u) # Rank(U, w)
    OBVIOUS
  <2>1. u < w \/ w < u
    OBVIOUS
  <2>2. QED
    BY <2>1, <1>3
<1>5. \A k \in 1..Cardinality(U) : \E u \in U : Rank(U, u) = k
  <2> DEFINE T == 1..Cardinality(U)
             f == [u \in U |-> Rank(U, u)]
  <2>1. f \in Injection(U, T)
    BY <1>2, <1>4 DEF Injection, IsInjective
  <2>2. IsFiniteSet(T) /\ Cardinality(T) = Cardinality(U)
    BY <1>1, FS_Interval
  <2>3. f \in Surjection(U, T)
    BY <2>1, <2>2, FS_Injection
  <2>4. QED
    BY <2>3 DEF Surjection
<1>6. QED
  BY <1>1, <1>2, <1>4, <1>5

-----------------------------------------------------------------------------

(* A matched throw has one partner, and no partner serves two throws. *)
LEMMA Partners ==
    ASSUME NEW list, NEW throws, NEW M \in Matchings(list, throws)
    PROVE  /\ \A o \in Matched(M) : /\ <<Partner(M, o), o>> \in M
                                    /\ Partner(M, o) \in DOMAIN list
                                    /\ o \in DOMAIN throws
           /\ \A o, q \in Matched(M) : Partner(M, o) = Partner(M, q) => o = q
<1>1. /\ M \subseteq (DOMAIN list) \X (DOMAIN throws)
      /\ \A c, d \in M : Conflict(c, d) => c = d
  BY DEF Matchings, Candidates
<1>2. ASSUME NEW o \in Matched(M) PROVE <<Partner(M, o), o>> \in M
  <2>1. PICK c \in M : c[2] = o
    BY DEF Matched
  <2>2. c[1] \in {d[1] : d \in M} /\ <<c[1], o>> \in M
    BY <1>1, <2>1
  <2>3. QED
    BY <2>2 DEF Partner
<1>3. QED
  BY <1>1, <1>2 DEF Conflict

(* What identities the next world has. *)
LEMMA Reconciled ==
    ASSUME NEW list \in Seq(PhysicalDart), NEW counter \in Nat,
           \A i, j \in DOMAIN list : list[i].id = list[j].id => i = j,
           \A i \in DOMAIN list : list[i].id <= counter,
           NEW throws \in Seq(Throw),
           NEW M \in Matchings(list, throws),
           NEW after, after = reconcileDarts(list, throws, M, counter),
           NEW new, new = Cardinality(Unmatched(throws, M))
    PROVE  /\ new \in Nat
           /\ after \in Seq(PhysicalDart)
           /\ DOMAIN after = DOMAIN throws
           /\ \A i \in DOMAIN after : after[i].order = i
           /\ \A i, j \in DOMAIN after : after[i].id = after[j].id => i = j
           /\ \A i \in DOMAIN after : after[i].id \in Ids(list) \cup ((counter + 1)..(counter + new))
           /\ \A k \in (counter + 1)..(counter + new) : k \in Ids(after)
<1> DEFINE U == Unmatched(throws, M)
           n == Len(throws)
<1>1. n \in Nat /\ throws \in [1..n -> Throw] /\ DOMAIN throws = 1..n
  OBVIOUS
<1>2. U \in SUBSET (1..n)
  BY <1>1 DEF Unmatched
<1>3. /\ new \in Nat
      /\ \A u \in U : Rank(U, u) \in 1..new
      /\ \A u, w \in U : Rank(U, u) = Rank(U, w) => u = w
      /\ \A k \in 1..new : \E u \in U : Rank(U, u) = k
  BY <1>1, <1>2, RankFacts
<1>4. /\ DOMAIN after = 1..n
      /\ \A o \in 1..n : /\ after[o].order = o
                         /\ after[o].coordinates = throws[o].coordinates
                         /\ after[o].segment = throws[o].segment
      /\ \A o \in Matched(M) \cap (1..n) : after[o].id = list[Partner(M, o)].id
      /\ \A o \in U : after[o].id = counter + Rank(U, o)
  BY <1>1 DEF reconcileDarts, NewId, Rank, Unmatched
<1>5. /\ \A o \in Matched(M) : Partner(M, o) \in DOMAIN list /\ o \in DOMAIN throws
      /\ \A o, q \in Matched(M) : Partner(M, o) = Partner(M, q) => o = q
  BY Partners
<1>6. \A o \in 1..n : o \in Matched(M) \/ o \in U
  BY <1>1 DEF Unmatched
<1>7. \A o \in Matched(M) : after[o].id \in Ids(list) /\ after[o].id \in Nat \ {0} /\ after[o].id <= counter
  <2> SUFFICES ASSUME NEW o \in Matched(M)
               PROVE  after[o].id \in Ids(list) /\ after[o].id \in Nat \ {0} /\ after[o].id <= counter
    OBVIOUS
  <2>1. PICK p \in DOMAIN list : after[o].id = list[p].id
    BY <1>1, <1>4, <1>5
  <2>2. list[p] \in PhysicalDart
    OBVIOUS
  <2>3. QED
    BY <2>1, <2>2 DEF Ids, PhysicalDart
<1>8. \A o \in U : after[o].id \in (counter + 1)..(counter + new)
  BY <1>3, <1>4
<1>9. after \in Seq(PhysicalDart)
  <2>1. ASSUME NEW o \in 1..n PROVE after[o] \in PhysicalDart
    <3>1. after[o].id \in Nat \ {0}
      BY <1>3, <1>6, <1>7, <1>8
    <3>2. after[o] = [id |-> after[o].id, order |-> o,
                      coordinates |-> throws[o].coordinates, segment |-> throws[o].segment]
      BY <1>1 DEF reconcileDarts
    <3>3. throws[o].coordinates \in Coordinates /\ throws[o].segment \in Segments
      BY <1>1 DEF Throw
    <3>4. QED
      BY <3>1, <3>2, <3>3 DEF PhysicalDart
  <2>2. after = [o \in 1..n |-> after[o]]
    BY <1>1 DEF reconcileDarts
  <2>3. QED
    BY <1>1, <2>1, <2>2
<1>10. \A i, j \in 1..n : after[i].id = after[j].id => i = j
  <2> SUFFICES ASSUME NEW i \in 1..n, NEW j \in 1..n, after[i].id = after[j].id
               PROVE  i = j
    OBVIOUS
  <2>1. CASE i \in Matched(M) /\ j \in Matched(M)
    BY <2>1, <1>4, <1>5
  <2>2. CASE i \in U /\ j \in U
    <3>1. Rank(U, i) = Rank(U, j)
      BY <2>2, <1>3, <1>4
    <3>2. QED
      BY <3>1, <2>2, <1>3
  <2>3. CASE (i \in U /\ j \in Matched(M)) \/ (i \in Matched(M) /\ j \in U)
    BY <2>3, <1>3, <1>7, <1>8
  <2>4. QED
    BY <1>6, <2>1, <2>2, <2>3
<1>11. ASSUME NEW k \in (counter + 1)..(counter + new) PROVE k \in Ids(after)
  <2>1. k - counter \in 1..new
    BY <1>3
  <2>2. PICK u \in U : Rank(U, u) = k - counter
    BY <2>1, <1>3
  <2>3. after[u].id = k
    BY <2>2, <1>4
  <2>4. QED
    BY <2>3, <1>2, <1>4 DEF Ids
<1>12. QED
  BY <1>1, <1>3, <1>4, <1>6, <1>7, <1>8, <1>9, <1>10, <1>11

(* Nothing was known before: every throw becomes a dart of its own. *)
LEMMA FirstDarts ==
    ASSUME NEW throws \in Seq(Throw),
           NEW darts, darts = reconcileDarts(<<>>, throws, {}, 0)
    PROVE  /\ darts \in Seq(PhysicalDart)
           /\ DOMAIN darts = DOMAIN throws
           /\ \A i \in DOMAIN darts : darts[i].order = i
           /\ \A i, j \in DOMAIN darts : darts[i].id = darts[j].id => i = j
           /\ \A i \in DOMAIN darts : darts[i].id \in 1..Len(throws)
           /\ \A k \in 1..Len(throws) : k \in Ids(darts)
<1> DEFINE none == <<>>
           zero == 0
           M == {}
           new == Cardinality(Unmatched(throws, {}))
<1>1. DOMAIN none = {} /\ Ids(none) = {}
  BY DEF Ids
<1>2. /\ none \in Seq(PhysicalDart) /\ zero \in Nat
      /\ \A i, j \in DOMAIN none : none[i].id = none[j].id => i = j
      /\ \A i \in DOMAIN none : none[i].id <= zero
  BY <1>1
<1>3. new = Len(throws)
  <2>1. Unmatched(throws, {}) = 1..Len(throws) /\ Len(throws) \in Nat
    BY DEF Unmatched, Matched
  <2>2. Cardinality(1..Len(throws)) = IF 1 > Len(throws) THEN 0 ELSE Len(throws) - 1 + 1
    BY <2>1, FS_Interval, SMTT(30)
  <2> QED
    BY <2>1, <2>2
<1>4. darts = reconcileDarts(none, throws, M, zero)
  OBVIOUS
<1>5. M \in Matchings(none, throws)
  BY <1>1 DEF Matchings, Candidates
<1>6. new = Cardinality(Unmatched(throws, M))
  OBVIOUS
<1> HIDE DEF none, zero, new, M
<1>7. /\ darts \in Seq(PhysicalDart)
      /\ DOMAIN darts = DOMAIN throws
      /\ \A i \in DOMAIN darts : darts[i].order = i
      /\ \A i, j \in DOMAIN darts : darts[i].id = darts[j].id => i = j
      /\ \A i \in DOMAIN darts : darts[i].id \in Ids(none) \cup ((zero + 1)..(zero + new))
      /\ \A k \in (zero + 1)..(zero + new) : k \in Ids(darts)
  BY <1>2, <1>4, <1>5, <1>6, Reconciled
<1> QED
  BY <1>1, <1>3, <1>7 DEF zero

(* A candidate that was not chosen lost to one at most as far apart. *)
LEMMA RefusedForNearer ==
    ASSUME NEW list, NEW throws, NEW M \in Matchings(list, throws),
           NEW c \in Candidates(list, throws), c \notin M
    PROVE  \E m \in M : /\ m[1] = c[1] \/ m[2] = c[2]
                        /\ m \in Candidates(list, throws)
                        /\ coordinateDistance(list, throws, m)
                              <= coordinateDistance(list, throws, c)
  BY DEF Matchings, Conflict, Sooner

(* A chosen pair is a dart and the partner of its throw. *)
LEMMA PartnerOf ==
    ASSUME NEW list, NEW throws, NEW M \in Matchings(list, throws), NEW c \in M
    PROVE  /\ c[1] \in DOMAIN list /\ c[2] \in DOMAIN throws /\ c = <<c[1], c[2]>>
           /\ c[2] \in Matched(M) /\ Partner(M, c[2]) = c[1]
<1>1. /\ c[1] \in DOMAIN list /\ c[2] \in DOMAIN throws /\ c = <<c[1], c[2]>>
      /\ \A d, e \in M : Conflict(d, e) => d = e
  BY DEF Matchings, Candidates
<1>2. c[2] \in Matched(M)
  BY DEF Matched
<1>3. <<Partner(M, c[2]), c[2]>> \in M
  BY <1>2, Partners
<1>4. QED
  BY <1>1, <1>2, <1>3 DEF Conflict

(* A list in which no dart is new issued no number. *)
LEMMA UnchangedIssuesNone ==
    ASSUME NEW list \in Seq(PhysicalDart), NEW counter \in Nat,
           \A i, j \in DOMAIN list : list[i].id = list[j].id => i = j,
           \A i \in DOMAIN list : list[i].id <= counter,
           NEW throws \in Seq(Throw),
           NEW M \in Matchings(list, throws),
           NEW after, after = reconcileDarts(list, throws, M, counter),
           NEW new, new = Cardinality(Unmatched(throws, M)),
           transitionBetween(list, after).type = "unchanged"
    PROVE  new = 0
<1>1. new \in Nat /\ \A k \in (counter + 1)..(counter + new) : k \in Ids(after)
  BY Reconciled, SMTT(30)
<1>2. \A d \in Darts(after) : d.id \in Ids(list)
  BY DEF transitionBetween, TransitionType
<1>3. counter + 1 \notin Ids(list)
  BY DEF Ids
<1>4. counter + 1 \notin Ids(after)
  BY <1>2, <1>3 DEF Darts, Ids
<1> QED
  BY <1>1, <1>4

-----------------------------------------------------------------------------

LEMMA TransitionTyped ==
    ASSUME NEW b \in Seq(PhysicalDart), NEW a \in Seq(PhysicalDart),
           NEW t, t = transitionBetween(b, a)
    PROVE  /\ t.type \in {"unchanged", "darts-added", "darts-removed", "world-reconciled"}
           /\ t.added \subseteq PhysicalDart
           /\ t.removed \subseteq PhysicalDart
           /\ t.updated \subseteq PhysicalDart
           /\ t.stillPresent \subseteq PhysicalDart
<1>1. Darts(a) \subseteq PhysicalDart /\ Darts(b) \subseteq PhysicalDart
  BY DEF Darts
<1>2. QED
  BY <1>1 DEF transitionBetween, TransitionType

(* A list has as many indices as its length says. *)
LEMMA IndexCount ==
    ASSUME NEW S, NEW list \in Seq(S)
    PROVE  IsFiniteSet(DOMAIN list) /\ Cardinality(DOMAIN list) = Len(list)
<1> DEFINE n == Len(list)
<1>1. DOMAIN list = 1..n /\ n \in Nat
  OBVIOUS
<1> HIDE DEF n
<1>2. /\ IsFiniteSet(1..n)
      /\ Cardinality(1..n) = IF 1 > n THEN 0 ELSE n - 1 + 1
  BY <1>1, FS_Interval
<1>3. Cardinality(1..n) = n
  BY <1>1, <1>2
<1> QED
  BY <1>1, <1>2, <1>3 DEF n

(* Parts that a bijection carries into each other have the same size. *)
LEMMA CarriedCount ==
    ASSUME NEW S, NEW T, IsFiniteSet(S), NEW f \in Bijection(S, T),
           NEW A \in SUBSET S, NEW B \in SUBSET T,
           \A i \in S : i \in A <=> f[i] \in B
    PROVE  Cardinality(A) = Cardinality(B)
<1> DEFINE g == [i \in A |-> f[i]]
<1>1. /\ \A i \in S : f[i] \in T
      /\ \A i, j \in S : f[i] = f[j] => i = j
      /\ \A t \in T : \E i \in S : f[i] = t
  BY DEF Bijection, Injection, Surjection, IsInjective
<1>2. g \in Injection(A, B)
  BY <1>1 DEF Injection, IsInjective
<1>3. g \in Surjection(A, B)
  <2>1. ASSUME NEW t \in B PROVE \E i \in A : g[i] = t
    BY <1>1
  <2> QED
    BY <1>2, <2>1 DEF Surjection, Injection
<1>4. ExistsBijection(A, B)
  BY <1>2, <1>3 DEF ExistsBijection, Bijection
<1>5. IsFiniteSet(A)
  BY FS_Subset
<1> QED
  BY <1>4, <1>5, FS_Bijection

(* A transition of no change: each dart of one list is, but for its place, *)
(* a dart of the other.                                                    *)
LEMMA UnchangedPairs ==
    ASSUME NEW before \in Seq(PhysicalDart), NEW after \in Seq(PhysicalDart),
           \A i, j \in DOMAIN before : before[i].id = before[j].id => i = j,
           \A i, j \in DOMAIN after : after[i].id = after[j].id => i = j,
           transitionBetween(before, after).type = "unchanged"
    PROVE  \E f \in Bijection(DOMAIN after, DOMAIN before) :
              \A i \in DOMAIN after : /\ before[f[i]].coordinates = after[i].coordinates
                                      /\ before[f[i]].segment = after[i].segment
<1> DEFINE t == transitionBetween(before, after)
           f == [i \in DOMAIN after |-> CHOOSE j \in DOMAIN before : before[j].id = after[i].id]
<1>1. t.added = {} /\ t.removed = {} /\ t.updated = {}
  BY DEF transitionBetween, TransitionType
<1>2. /\ \A i \in DOMAIN after : after[i].id \in Ids(before)
      /\ \A j \in DOMAIN before : before[j].id \in Ids(after)
      /\ \A i \in DOMAIN after, j \in DOMAIN before :
            before[j].id = after[i].id => ~Corrected(before[j], after[i])
  BY <1>1 DEF transitionBetween, Darts
<1>3. \A i \in DOMAIN after : f[i] \in DOMAIN before /\ before[f[i]].id = after[i].id
  BY <1>2 DEF Ids
<1> HIDE DEF f
<1>4. f \in Injection(DOMAIN after, DOMAIN before)
  <2>1. f \in [DOMAIN after -> DOMAIN before]
    BY <1>3 DEF f
  <2> QED
    BY <1>3, <2>1 DEF Injection, IsInjective
<1>5. f \in Surjection(DOMAIN after, DOMAIN before)
  <2>1. ASSUME NEW j \in DOMAIN before PROVE \E i \in DOMAIN after : f[i] = j
    <3>1. PICK i \in DOMAIN after : after[i].id = before[j].id
      BY <1>2 DEF Ids
    <3> QED
      BY <1>3, <3>1
  <2> QED
    BY <1>4, <2>1 DEF Surjection, Injection
<1> QED
  BY <1>2, <1>3, <1>4, <1>5 DEF Bijection, Corrected
=================================================================================
