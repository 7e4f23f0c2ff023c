---------------------------- MODULE EvidenceProofs ----------------------------
(***************************************************************************)
(* What a sample is evidence of, for any values that satisfy the two       *)
(* assumptions.  Its frames (CameraFrames): the manifest of a burst is in  *)
(* order, no frame shows the wrong side of a change, and what a buffer     *)
(* forgets is nothing a change would have used.  Its setup (SetupSnapshot, *)
(* Snapshot in MCEvidence): the setup a label names is stored, and         *)
(* refreshes that do not overlap leave the setup of the board.             *)
(***************************************************************************)
EXTENDS MCEvidence, FiniteSetTheorems, SequenceTheorems, TLAPS

-----------------------------------------------------------------------------
(***************************************************************************)
(* Least and greatest elements.                                            *)
(***************************************************************************)

(* A finite set has an element of least key: the one with the fewest below. *)
LEMMA LeastKey ==
    ASSUME NEW S, IsFiniteSet(S), S # {}, NEW key \in [S -> Int]
    PROVE  \E m \in S : \A t \in S : key[m] <= key[t]
<1> DEFINE Below(s) == {t \in S : key[t] < key[s]}
           T == {Below(s) : s \in S}
           R == StrictSubsetOrdering(S)
<1>1. IsWellFoundedOn(R, SUBSET S)
  BY FS_StrictSubsetOrderingWellFounded, FS_FiniteSubsetsOfFinite
<1>2. T \subseteq SUBSET S /\ T # {}
  <2>1. \A s \in S : Below(s) \in SUBSET S /\ Below(s) \in T
    OBVIOUS
  <2>2. QED
    BY <2>1
<1>3. PICK X \in T : \A Y \in T : <<Y, X>> \notin R
  <2> HIDE DEF R, T
  <2> QED
    BY <1>1, <1>2, WFMin
<1>4. PICK m \in S : X = Below(m)
  BY <1>3
<1>5. ASSUME NEW y \in S, key[y] < key[m] PROVE FALSE
  <2>1. Below(y) \subseteq Below(m)
    BY <1>5
  <2>2. y \in Below(m) /\ y \notin Below(y)
    BY <1>5
  <2>3. <<Below(y), Below(m)>> \in R
    <3>1. Below(y) \in SUBSET S /\ Below(m) \in SUBSET S
      OBVIOUS
    <3>2. QED
      BY <2>1, <2>2, <3>1 DEF StrictSubsetOrdering
  <2>4. QED
    BY <2>3, <1>3, <1>4
<1> QED
  BY <1>5

LEMMA MinOf ==
    ASSUME NEW S \in SUBSET Int, IsFiniteSet(S), S # {}
    PROVE  Min(S) \in S /\ \A t \in S : Min(S) <= t
<1> DEFINE key == [s \in S |-> s]
<1>1. key \in [S -> Int]
  OBVIOUS
<1>2. PICK m \in S : \A t \in S : key[m] <= key[t]
  <2> HIDE DEF key
  <2> QED
    BY <1>1, LeastKey
<1>3. \A t \in S : m <= t
  BY <1>2
<1> QED
  BY <1>3 DEF Min

LEMMA MaxOf ==
    ASSUME NEW S \in SUBSET Int, IsFiniteSet(S), S # {}
    PROVE  Max(S) \in S /\ \A t \in S : Max(S) >= t
<1> DEFINE key == [s \in S |-> -s]
<1>1. key \in [S -> Int]
  OBVIOUS
<1>2. PICK m \in S : \A t \in S : key[m] <= key[t]
  <2> HIDE DEF key
  <2> QED
    BY <1>1, LeastKey
<1>3. \A t \in S : m >= t
  BY <1>2
<1> QED
  BY <1>3 DEF Max

LEMMA BurstSpan ==
    /\ BurstOffsets \subseteq Int /\ IsFiniteSet(BurstOffsets)
    /\ Latest \in Nat /\ \A o \in BurstOffsets : o <= Latest
    /\ Oldest \in Int /\ \A o \in BurstOffsets : Oldest <= o
<1>1. PreDelay \in Nat /\ PostDelay \in Nat /\ Offsets \subseteq Int /\ IsFiniteSet(Offsets)
  BY CameraFramesAssumption
<1>2. IsFiniteSet(BurstOffsets)
  <2>1. IsFiniteSet(Offsets \cup {-PreDelay})
    BY <1>1, FS_AddElement
  <2>2. IsFiniteSet((Offsets \cup {-PreDelay}) \cup {PostDelay})
    BY <2>1, FS_AddElement
  <2>3. BurstOffsets = (Offsets \cup {-PreDelay}) \cup {PostDelay}
    BY DEF BurstOffsets
  <2>4. QED
    BY <2>2, <2>3
<1>3. BurstOffsets \subseteq Int /\ PostDelay \in BurstOffsets
  BY <1>1 DEF BurstOffsets
<1>4. Latest \in BurstOffsets /\ \A o \in BurstOffsets : Latest >= o
  BY <1>2, <1>3, MaxOf DEF Latest
<1>5. Oldest \in BurstOffsets /\ \A o \in BurstOffsets : Oldest <= o
  BY <1>2, <1>3, MinOf DEF Oldest, Soonest
<1>6. Latest \in Nat
  BY <1>1, <1>3, <1>4
<1> QED
  BY <1>2, <1>3, <1>4, <1>5, <1>6

-----------------------------------------------------------------------------
(***************************************************************************)
(* Buffers.                                                                *)
(***************************************************************************)

(* What add keeps is the end of the buffer, and what it drops is old. *)
LEMMA KeptIsEnd ==
    ASSUME NEW list \in Seq(Nat), now \in Nat
    PROVE  \E k \in 0..Len(list) :
              /\ Kept(list) \in Seq(Nat) /\ Len(Kept(list)) = Len(list) - k
              /\ \A i \in 1..(Len(list) - k) : Kept(list)[i] = list[k + i]
              /\ \A i \in 1..k : list[i] < now - History
<1> DEFINE recent == {i \in DOMAIN list : list[i] >= now - History}
           from == Min(recent \cup {Len(list) + 1})
<1>1. Len(list) \in Nat /\ DOMAIN list = 1..Len(list) /\ History \in Nat
  BY CameraFramesAssumption
<1>2. recent \cup {Len(list) + 1} \subseteq 1..(Len(list) + 1)
  BY <1>1
<1>3. IsFiniteSet(recent \cup {Len(list) + 1})
  <2>1. IsFiniteSet(1..(Len(list) + 1))
    BY <1>1, FS_Interval
  <2>2. QED
    BY <1>2, <2>1, FS_Subset
<1>4. from \in recent \cup {Len(list) + 1} /\ \A t \in recent \cup {Len(list) + 1} : from <= t
  <2>1. recent \cup {Len(list) + 1} \in SUBSET Int
    BY <1>1
  <2> HIDE DEF recent
  <2>2. QED
    BY <1>3, <2>1, MinOf
<1>5. from \in 1..(Len(list) + 1)
  BY <1>2, <1>4
<1>6. \A i \in 1..(from - 1) : list[i] < now - History
  <2> SUFFICES ASSUME NEW i \in 1..(from - 1) PROVE list[i] < now - History
    OBVIOUS
  <2> HIDE DEF from
  <2>1. i \notin recent /\ i \in 1..Len(list)
    BY <1>1, <1>4, <1>5
  <2>2. list[i] \in Nat
    BY <2>1
  <2>3. QED
    BY <1>1, <2>1, <2>2
<1>7. Kept(list) = SubSeq(list, from, Len(list))
  BY DEF Kept
<1> HIDE DEF from
<1>8. \A i \in from..Len(list) : list[i] \in Nat
  BY <1>5
<1>9. /\ Kept(list) \in Seq(Nat)
      /\ Len(Kept(list)) = IF from <= Len(list) THEN Len(list) - from + 1 ELSE 0
      /\ \A i \in 1..(Len(list) - from + 1) : Kept(list)[i] = list[from + i - 1]
  BY <1>1, <1>5, <1>7, <1>8, SubSeqProperties, SMTT(30)
<1> DEFINE k == from - 1
<1>10. k \in 0..Len(list) /\ Len(Kept(list)) = Len(list) - k
  BY <1>1, <1>5, <1>9
<1>11. \A i \in 1..(Len(list) - k) : Kept(list)[i] = list[k + i]
  BY <1>1, <1>5, <1>9
<1> QED
  BY <1>6, <1>9, <1>10, <1>11

(* add, for a buffer in the order of its times. *)
LEMMA Added ==
    ASSUME NEW list \in Seq(Nat), now \in Nat,
           \A i, j \in 1..Len(list) : i < j => list[i] < list[j],
           \A i \in 1..Len(list) : list[i] < now
    PROVE  LET new == Append(Kept(list), now) IN
           /\ new \in Seq(Nat)
           /\ \A i, j \in 1..Len(new) : i < j => new[i] < new[j]
           /\ \A i \in 1..Len(new) : new[i] = now \/ \E j \in 1..Len(list) : new[i] = list[j]
           /\ \E i \in 1..Len(new) : new[i] = now
           /\ \A j \in 1..Len(list) :
                 \/ \E i \in 1..Len(new) : new[i] = list[j]
                 \/ list[j] < now - History /\ \A i \in 1..Len(new) : list[j] < new[i]
<1> PICK new : new = Append(Kept(list), now)
  OBVIOUS
<1>1. PICK k \in 0..Len(list) :
         /\ Kept(list) \in Seq(Nat) /\ Len(Kept(list)) = Len(list) - k
         /\ \A i \in 1..(Len(list) - k) : Kept(list)[i] = list[k + i]
         /\ \A i \in 1..k : list[i] < now - History
  BY KeptIsEnd
<1>2. PICK n \in Nat : n = Len(list)
  OBVIOUS
<1>3. k \in Nat /\ k <= n /\ n - k \in Nat
  BY <1>1, <1>2
<1>4. /\ new \in Seq(Nat) /\ Len(new) = n - k + 1
      /\ \A i \in 1..(n - k) : new[i] = list[k + i]
      /\ new[n - k + 1] = now
  <2>1. PICK kept \in Seq(Nat) : kept = Kept(list)
    BY <1>1
  <2>2. /\ Append(kept, now) \in Seq(Nat)
        /\ Len(Append(kept, now)) = Len(kept) + 1
        /\ \A i \in 1..Len(kept) : Append(kept, now)[i] = kept[i]
        /\ Append(kept, now)[Len(kept) + 1] = now
    BY <2>1, AppendProperties
  <2>3. new = Append(kept, now)
    BY <2>1
  <2>4. Len(kept) = n - k /\ \A i \in 1..(n - k) : kept[i] = list[k + i]
    BY <1>1, <1>2, <2>1
  <2>5. QED
    BY <1>3, <2>2, <2>3, <2>4
<1>5. \A i \in 1..(n - k) : k + i \in 1..n /\ new[i] = list[k + i]
  BY <1>3, <1>4
<1>6. \A i \in 1..n : list[i] \in Nat /\ list[i] < now
  BY <1>2
<1>7. \A i, j \in 1..Len(new) : i < j => new[i] < new[j]
  <2> SUFFICES ASSUME NEW i \in 1..(n - k + 1), NEW j \in 1..(n - k + 1), i < j
               PROVE  new[i] < new[j]
    BY <1>4
  <2>1. i \in 1..(n - k) /\ k + i \in 1..n /\ new[i] = list[k + i]
    <3>1. i \in 1..(n - k)
      BY <1>3
    <3>2. QED
      BY <1>5, <3>1
  <2>2. CASE j = n - k + 1
    BY <1>4, <1>6, <2>1, <2>2
  <2>3. CASE j # n - k + 1
    <3>1. j \in 1..(n - k)
      BY <1>3, <2>3
    <3>2. k + j \in 1..n /\ new[j] = list[k + j]
      BY <1>5, <3>1
    <3>3. k + i < k + j
      BY <1>3
    <3>4. QED
      BY <1>2, <2>1, <3>2, <3>3
  <2>4. QED
    BY <2>2, <2>3
<1>8. \A i \in 1..Len(new) : new[i] = now \/ \E j \in 1..Len(list) : new[i] = list[j]
  <2> SUFFICES ASSUME NEW i \in 1..(n - k + 1), i # n - k + 1
               PROVE  \E j \in 1..n : new[i] = list[j]
    BY <1>2, <1>4
  <2>1. i \in 1..(n - k)
    BY <1>3
  <2>2. QED
    BY <1>5, <2>1
<1>9. \E i \in 1..Len(new) : new[i] = now
  BY <1>3, <1>4
<1>10. ASSUME NEW j \in 1..Len(list)
       PROVE  \/ \E i \in 1..Len(new) : new[i] = list[j]
              \/ list[j] < now - History /\ \A i \in 1..Len(new) : list[j] < new[i]
  <2>1. CASE k < j
    <3>1. j - k \in 1..(n - k) /\ k + (j - k) = j /\ j - k \in 1..(n - k + 1)
      BY <1>2, <1>3, <2>1
    <3>2. QED
      BY <1>4, <3>1
  <2>2. CASE j <= k
    <3>1. list[j] < now - History
      BY <1>1, <1>2, <1>3, <2>2
    <3>2. ASSUME NEW i \in 1..(n - k + 1) PROVE list[j] < new[i]
      <4>1. CASE i = n - k + 1
        BY <1>2, <1>4, <1>6, <4>1
      <4>2. CASE i # n - k + 1
        <5>1. i \in 1..(n - k)
          BY <1>3, <4>2
        <5>2. k + i \in 1..n /\ new[i] = list[k + i]
          BY <1>5, <5>1
        <5>3. j \in 1..n /\ j < k + i
          BY <1>2, <1>3, <2>2, <5>1
        <5>4. QED
          BY <1>2, <5>2, <5>3
      <4>3. QED
        BY <4>1, <4>2
    <3>3. QED
      BY <1>4, <3>1, <3>2
  <2>3. j \in Nat /\ (k < j \/ j <= k)
    BY <1>2, <1>3
  <2>4. QED
    BY <2>1, <2>2, <2>3
<1> QED
  BY <1>4, <1>7, <1>8, <1>9, <1>10

LEMMA ClosestExists ==
    ASSUME NEW list \in Seq(Nat), list # <<>>, NEW target \in Int
    PROVE  /\ \E i \in 1..Len(list) : closest(list, target) = list[i]
           /\ \A i \in 1..Len(list) :
                 \/ Distance(closest(list, target), target) < Distance(list[i], target)
                 \/ /\ Distance(closest(list, target), target) = Distance(list[i], target)
                    /\ closest(list, target) <= list[i]
<1> DEFINE I == 1..Len(list)
           far == [i \in I |-> Distance(list[i], target)]
<1>1. I # {} /\ IsFiniteSet(I) /\ DOMAIN list = I
  <2>1. Len(list) \in Nat /\ Len(list) # 0
    OBVIOUS
  <2>2. IsFiniteSet(1..Len(list))
    BY <2>1, FS_Interval
  <2>3. 1 \in 1..Len(list)
    BY <2>1
  <2>4. QED
    BY <2>2, <2>3
<1>2. far \in [I -> Int]
  BY DEF Distance
<1>3. PICK m \in I : \A i \in I : far[m] <= far[i]
  <2> HIDE DEF far, I
  <2> QED
    BY <1>1, <1>2, LeastKey
<1> DEFINE N == {i \in I : far[i] = far[m]}
           value == [i \in N |-> list[i]]
<1>4. IsFiniteSet(N) /\ N # {} /\ N \subseteq I
  <2>1. N \in SUBSET I
    OBVIOUS
  <2> HIDE DEF I, far
  <2>2. QED
    BY <1>1, <1>3, <2>1, FS_Subset
<1>5. value \in [N -> Int]
  OBVIOUS
<1>6. PICK n \in N : \A i \in N : value[n] <= value[i]
  <2> HIDE DEF value, N
  <2> QED
    BY <1>4, <1>5, LeastKey
<1>7. /\ n \in I
      /\ \A i \in I : \/ Distance(list[n], target) < Distance(list[i], target)
                      \/ /\ Distance(list[n], target) = Distance(list[i], target)
                         /\ list[n] <= list[i]
  <2>1. n \in I /\ far[n] = far[m]
    BY <1>6
  <2>2. ASSUME NEW i \in I
        PROVE  \/ far[n] < far[i]
               \/ far[n] = far[i] /\ list[n] <= list[i]
    <3>1. far[n] \in Int /\ far[i] \in Int /\ far[n] <= far[i]
      BY <1>2, <1>3, <2>1, <2>2
    <3>2. CASE far[n] = far[i]
      BY <1>6, <2>1, <2>2, <3>2
    <3>3. QED
      BY <3>1, <3>2
  <2>3. QED
    BY <2>1, <2>2
<1>8. list[n] \in {list[i] : i \in DOMAIN list}
  BY <1>1, <1>7
<1>9. \E f \in {list[i] : i \in DOMAIN list} : \A i \in DOMAIN list :
          \/ Distance(f, target) < Distance(list[i], target)
          \/ Distance(f, target) = Distance(list[i], target) /\ f <= list[i]
  BY <1>1, <1>7, <1>8
<1>10. /\ closest(list, target) \in {list[i] : i \in DOMAIN list}
       /\ \A i \in DOMAIN list :
             \/ Distance(closest(list, target), target) < Distance(list[i], target)
             \/ /\ Distance(closest(list, target), target) = Distance(list[i], target)
                /\ closest(list, target) <= list[i]
  <2> HIDE DEF I
  <2> QED
    BY <1>9 DEF closest
<1> QED
  BY <1>1, <1>10

-----------------------------------------------------------------------------
(***************************************************************************)
(* The invariant.                                                          *)
(***************************************************************************)

Items == [camera : Camera, offset : BurstOffsets, frame : Nat]

CaptureSteps == {"timer", "asking", "select", "written", "missed", "frozen", "refused"}

CaptureRecords ==
    [number : Nat, kind : {"observation", "change"}, at : Nat, due : Nat,
     step : CaptureSteps, camera : Camera, burst : Seq(Items)]

Tickers == [next : Nat, fired : Seq(Nat)]

TypeOK ==
    /\ now \in Nat /\ ticker \in Tickers /\ receivedAt \in Nat /\ outstanding \in Nat
    /\ frames \in [Camera -> Seq(Nat)]
    /\ delivered \in [Camera -> SUBSET Nat]
    /\ captures \subseteq CaptureRecords

Buffered(camera) == {frames[camera][i] : i \in 1..Len(frames[camera])}

(* A buffer is in the order of its times and is the end of what was        *)
(* delivered: what is missing from it is old, and older than all it has.   *)
BufferOf(camera) ==
    /\ \A i, j \in 1..Len(frames[camera]) : i < j => frames[camera][i] < frames[camera][j]
    /\ Buffered(camera) \subseteq delivered[camera]
    /\ \A f \in delivered[camera] : f <= now
    /\ \A f \in delivered[camera] \ Buffered(camera) :
          /\ f < now - History
          /\ \A g \in Buffered(camera) : f < g

Buffers == \A camera \in Camera : BufferOf(camera)

Target(c, i) == c.at + c.burst[i].offset

(* What is known of a frame once it has been looked up. *)
ItemGood(c, i) ==
    LET item == c.burst[i]
    IN  /\ item.frame \in delivered[item.camera]
        /\ Distance(item.frame, Target(c, i)) <= Skew
        /\ \A f \in Buffered(item.camera) : f < item.frame =>
              Distance(item.frame, Target(c, i)) < Distance(f, Target(c, i))

(* The lookups go through the cameras, and through the offsets in order. *)
BurstGood(c) ==
    /\ \A i \in 1..Len(c.burst) : ItemGood(c, i) /\ c.burst[i].camera <= c.camera
    /\ \A i \in 1..Len(c.burst) : c.burst[i].camera = c.camera =>
          \A o \in Remaining(c) : c.burst[i].offset < o
    /\ \A i, j \in 1..Len(c.burst) : i < j /\ c.burst[i].camera = c.burst[j].camera =>
          c.burst[i].frame <= c.burst[j].frame

(* The lookups of a change come soon enough. *)
Timely(c) ==
    c.kind = "change" =>
        /\ c.due <= c.at + ArtifactTimeout + Latest
        /\ ~Ended(c) => now <= c.due + Lag

EvidenceTimely ==
    outstanding > 0 => receivedAt <= now /\ now <= receivedAt + ArtifactTimeout

Numbered ==
    /\ IsFiniteSet(captures)
    /\ \A c \in captures : c.number \in 1..Cardinality(captures)
    /\ \A c, d \in captures : c.number = d.number => c = d

IInv ==
    /\ TypeOK /\ Buffers /\ EvidenceTimely /\ Numbered
    /\ \A c \in captures : BurstGood(c) /\ Timely(c)

LEMMA Sizes ==
    /\ PreDelay \in Nat /\ PostDelay \in Nat /\ History \in Nat /\ Skew \in Nat
    /\ ArtifactTimeout \in Nat /\ Lag \in Nat /\ 1 \in Camera /\ Requests \in Nat
    /\ Cameras \in Nat /\ ReferenceInterval \in Nat
  BY CameraFramesAssumption DEF Camera

LEMMA FramesInit == Init => IInv
<1> SUFFICES ASSUME Init PROVE IInv
  OBVIOUS
<1>1. TypeOK
  BY DEF Init, TypeOK, Tickers
<1>2. Buffers
  BY DEF Init, Buffers, BufferOf, Buffered
<1>3. EvidenceTimely /\ Numbered
  BY FS_EmptySet DEF Init, EvidenceTimely, Numbered
<1> QED
  BY <1>1, <1>2, <1>3 DEF Init, IInv

-----------------------------------------------------------------------------

(* A frame arrives: nothing that was looked up is put in question. *)
LEMMA FrameStep ==
    ASSUME IInv, NEW camera \in Camera, FrameArrives(camera)
    PROVE  IInv'
<1>1. /\ TypeOK /\ Buffers /\ EvidenceTimely /\ Numbered
      /\ \A c \in captures : BurstGood(c) /\ Timely(c)
  BY DEF IInv
<1>2. /\ now \notin delivered[camera]
      /\ frames' = [frames EXCEPT ![camera] = Append(Kept(frames[camera]), now)]
      /\ delivered' = [delivered EXCEPT ![camera] = delivered[camera] \cup {now}]
      /\ UNCHANGED <<now, ticker, receivedAt, outstanding, captures>>
  BY DEF FrameArrives, loop
<1>3. now \in Nat /\ History \in Nat /\ frames[camera] \in Seq(Nat)
  BY <1>1, Sizes DEF TypeOK
<1>4. BufferOf(camera) /\ \A f \in delivered[camera] : f < now /\ f \in Nat
  <2>1. BufferOf(camera) /\ delivered[camera] \subseteq Nat
    BY <1>1 DEF Buffers, TypeOK
  <2>2. \A f \in delivered[camera] : f <= now /\ f # now /\ f \in Nat
    BY <1>2, <2>1 DEF BufferOf
  <2>3. QED
    BY <1>3, <2>1, <2>2
<1>5. PICK list \in Seq(Nat) : list = frames[camera]
  BY <1>3
<1> DEFINE new == Append(Kept(list), now)
<1>6. /\ \A i, j \in 1..Len(list) : i < j => list[i] < list[j]
      /\ \A i \in 1..Len(list) : list[i] < now
  BY <1>4, <1>5 DEF BufferOf, Buffered
<1>7. /\ new \in Seq(Nat)
      /\ \A i, j \in 1..Len(new) : i < j => new[i] < new[j]
      /\ \A i \in 1..Len(new) : new[i] = now \/ \E j \in 1..Len(list) : new[i] = list[j]
      /\ \E i \in 1..Len(new) : new[i] = now
      /\ \A j \in 1..Len(list) :
            \/ \E i \in 1..Len(new) : new[i] = list[j]
            \/ list[j] < now - History /\ \A i \in 1..Len(new) : list[j] < new[i]
  BY <1>3, <1>6, Added
<1> HIDE DEF new
<1>8. /\ frames' \in [Camera -> Seq(Nat)] /\ frames'[camera] = new
      /\ \A other \in Camera \ {camera} : frames'[other] = frames[other]
  <2>1. frames' = [frames EXCEPT ![camera] = new]
    BY <1>2, <1>5 DEF new
  <2>2. QED
    BY <1>1, <1>7, <2>1 DEF TypeOK
<1>9. /\ delivered' \in [Camera -> SUBSET Nat]
      /\ delivered'[camera] = delivered[camera] \cup {now}
      /\ \A other \in Camera \ {camera} : delivered'[other] = delivered[other]
  BY <1>1, <1>2, <1>3 DEF TypeOK
<1>10. /\ Buffered(camera)' \subseteq Buffered(camera) \cup {now} /\ now \in Buffered(camera)'
       /\ \A f \in Buffered(camera) \ Buffered(camera)' :
             f < now - History /\ \A g \in Buffered(camera)' : f < g
  <2>1. Buffered(camera) = {list[i] : i \in 1..Len(list)}
    BY <1>5 DEF Buffered
  <2>2. Buffered(camera)' = {new[i] : i \in 1..Len(new)}
    BY <1>8 DEF Buffered
  <2>3. Buffered(camera)' \subseteq Buffered(camera) \cup {now} /\ now \in Buffered(camera)'
    BY <1>7, <2>1, <2>2
  <2>4. ASSUME NEW f \in Buffered(camera) \ Buffered(camera)'
        PROVE  f < now - History /\ \A g \in Buffered(camera)' : f < g
    <3>1. PICK j \in 1..Len(list) : f = list[j]
      BY <2>1, <2>4
    <3>2. ~ \E i \in 1..Len(new) : new[i] = list[j]
      BY <2>2, <2>4, <3>1
    <3>3. f < now - History /\ \A i \in 1..Len(new) : f < new[i]
      BY <1>7, <3>1, <3>2
    <3>4. QED
      BY <2>2, <3>3
  <2>5. QED
    BY <2>3, <2>4
<1>11. BufferOf(camera)'
  <2>1. Buffered(camera)' \subseteq delivered'[camera] /\ \A f \in delivered'[camera] : f <= now'
    BY <1>2, <1>3, <1>4, <1>9, <1>10 DEF BufferOf
  <2>2. ASSUME NEW f \in delivered'[camera] \ Buffered(camera)'
        PROVE  f < now' - History /\ \A g \in Buffered(camera)' : f < g
    <3>1. f \in delivered[camera] /\ f < now
      BY <1>4, <1>9, <1>10, <2>2
    <3>2. CASE f \in Buffered(camera)
      BY <1>2, <1>10, <2>2, <3>2
    <3>3. CASE f \notin Buffered(camera)
      BY <1>2, <1>4, <1>10, <3>1, <3>3 DEF BufferOf
    <3>4. QED
      BY <3>2, <3>3
  <2>3. QED
    BY <1>7, <1>8, <2>1, <2>2 DEF BufferOf
<1>12. Buffers'
  <2>1. ASSUME NEW other \in Camera \ {camera} PROVE BufferOf(other)'
    <3>1. frames'[other] = frames[other] /\ delivered'[other] = delivered[other] /\ now' = now
      BY <1>2, <1>8, <1>9
    <3>2. BufferOf(other)
      BY <1>1 DEF Buffers
    <3>3. QED
      BY <3>1, <3>2 DEF BufferOf, Buffered
  <2>2. QED
    BY <1>11, <2>1 DEF Buffers
<1>13. ASSUME NEW c \in captures PROVE BurstGood(c)' /\ Timely(c)'
  <2>1. c \in CaptureRecords /\ BurstGood(c) /\ Timely(c)
    BY <1>1 DEF TypeOK
  <2>2. ASSUME NEW i \in 1..Len(c.burst) PROVE ItemGood(c, i)'
    <3>1. c.burst[i] \in Items /\ ItemGood(c, i)
      BY <2>1 DEF CaptureRecords, BurstGood
    <3>2. CASE c.burst[i].camera # camera
      BY <1>8, <1>9, <3>1, <3>2 DEF ItemGood, Buffered, Target, Items
    <3>3. CASE c.burst[i].camera = camera
      <4>1. c.burst[i].frame \in delivered[camera] /\ c.burst[i].frame < now
        BY <1>4, <3>1, <3>3 DEF ItemGood
      <4>2. ~(now < c.burst[i].frame)
        BY <1>3, <1>4, <4>1
      <4>3. QED
        BY <1>9, <1>10, <3>1, <3>3, <4>1, <4>2 DEF ItemGood, Target
    <3>4. QED
      BY <3>2, <3>3
  <2>3. BurstGood(c)'
    BY <2>1, <2>2 DEF BurstGood, Remaining
  <2>4. QED
    BY <1>2, <2>1, <2>3 DEF Timely, Ended
<1>14. TypeOK' /\ EvidenceTimely' /\ Numbered'
  BY <1>1, <1>2, <1>8, <1>9 DEF TypeOK, EvidenceTimely, Numbered
<1> QED
  BY <1>2, <1>12, <1>13, <1>14 DEF IInv

-----------------------------------------------------------------------------
(***************************************************************************)
(* Captures.                                                               *)
(***************************************************************************)

Still == UNCHANGED <<now, frames, delivered>>

(* What is known of a capture depends on buffers and clock only. *)
LEMMA CaptureStays ==
    ASSUME NEW c, Still
    PROVE  /\ BurstGood(c) => BurstGood(c)'
           /\ Timely(c) => Timely(c)'
  BY DEF Still, BurstGood, ItemGood, Buffered, Target, Remaining, Timely, Ended

LEMMA BuffersStay ==
    ASSUME TypeOK, Buffers, Still,
           ticker' \in Tickers, receivedAt' \in Nat, outstanding' \in Nat, captures' \subseteq CaptureRecords
    PROVE  TypeOK' /\ Buffers'
<1>1. TypeOK'
  BY DEF Still, TypeOK
<1>2. Buffers'
  BY DEF Still, Buffers, BufferOf, Buffered
<1> QED
  BY <1>1, <1>2

LEMMA CaptureBecomes ==
    ASSUME IInv, NEW c \in captures, NEW d \in CaptureRecords, Becomes(c, d),
           d.number = c.number, BurstGood(d), Timely(d)
    PROVE  IInv'
<1>1. TypeOK /\ Buffers /\ EvidenceTimely /\ Numbered
  BY DEF IInv
<1>2. /\ captures' = (captures \ {c}) \cup {d} /\ Still
      /\ UNCHANGED <<ticker, receivedAt, outstanding>>
  BY DEF Becomes, Still, loop
<1>3. captures' \subseteq CaptureRecords /\ ticker' \in Tickers /\ receivedAt' \in Nat /\ outstanding' \in Nat
  BY <1>1, <1>2 DEF TypeOK
<1>4. TypeOK' /\ Buffers'
  BY <1>1, <1>2, <1>3, BuffersStay
<1>5. EvidenceTimely'
  BY <1>1, <1>2 DEF EvidenceTimely, Still
<1>6. \A e \in captures' : BurstGood(e)' /\ Timely(e)'
  <2> SUFFICES ASSUME NEW e \in captures' PROVE BurstGood(e)' /\ Timely(e)'
    OBVIOUS
  <2>1. BurstGood(e) /\ Timely(e)
    BY <1>2 DEF IInv
  <2>2. QED
    BY <1>2, <2>1, CaptureStays
<1>7. Numbered'
  <2>1. IsFiniteSet(captures) /\ Cardinality(captures) \in Nat
    BY <1>1, FS_CardinalityType DEF Numbered
  <2>2. /\ IsFiniteSet(captures \ {c}) /\ Cardinality(captures \ {c}) = Cardinality(captures) - 1
    BY <2>1, FS_RemoveElement
  <2>3. d \notin captures \ {c}
    BY <1>1 DEF Numbered
  <2>4. PICK rest : rest = captures \ {c}
    OBVIOUS
  <2>5. /\ IsFiniteSet(rest \cup {d})
        /\ Cardinality(rest \cup {d}) = Cardinality(rest) + 1
    BY <2>2, <2>3, <2>4, FS_AddElement
  <2>6. IsFiniteSet(captures') /\ Cardinality(captures') = Cardinality(captures)
    BY <1>2, <2>1, <2>2, <2>4, <2>5
  <2>7. QED
    BY <1>1, <1>2, <2>6 DEF Numbered
<1> QED
  BY <1>4, <1>5, <1>6, <1>7 DEF IInv

LEMMA CaptureAdded ==
    ASSUME IInv, NEW kind \in {"observation", "change"}, NEW at \in Nat, Schedule(kind, at),
           kind = "change" => now <= at + ArtifactTimeout,
           Still, ticker' \in Tickers, receivedAt' \in Nat, outstanding' \in Nat, EvidenceTimely'
    PROVE  IInv'
<1>1. TypeOK /\ Buffers /\ EvidenceTimely /\ Numbered
  BY DEF IInv
<1>2. IsFiniteSet(captures) /\ Cardinality(captures) \in Nat /\ now \in Nat
  BY <1>1, FS_CardinalityType DEF Numbered, TypeOK
<1> DEFINE new == [number |-> Cardinality(captures) + 1, kind |-> kind, at |-> at,
                   due |-> now + (IF Latest < 0 THEN 0 ELSE Latest),
                   step |-> "timer", camera |-> 1, burst |-> <<>>]
<1>3. captures' = captures \cup {new}
  BY DEF Schedule
<1>4. new \in CaptureRecords
  <2>1. now + (IF Latest < 0 THEN 0 ELSE Latest) \in Nat
    BY <1>2, BurstSpan
  <2>2. <<>> \in Seq(Items)
    OBVIOUS
  <2>3. QED
    BY <1>2, <2>1, <2>2, Sizes DEF CaptureRecords, CaptureSteps
<1>5. /\ new.number = Cardinality(captures) + 1 /\ new.burst = <<>> /\ new.kind = kind
      /\ new.at = at /\ new.due = now + Latest
  BY <1>2, BurstSpan
<1> HIDE DEF new
<1>6. BurstGood(new)
  BY <1>5 DEF BurstGood
<1>7. Timely(new)
  BY <1>2, <1>5, BurstSpan, Sizes DEF Timely
<1>8. captures' \subseteq CaptureRecords
  BY <1>1, <1>3, <1>4 DEF TypeOK
<1>9. TypeOK' /\ Buffers'
  BY <1>1, <1>8, BuffersStay
<1>10. \A e \in captures' : BurstGood(e)' /\ Timely(e)'
  <2> SUFFICES ASSUME NEW e \in captures' PROVE BurstGood(e)' /\ Timely(e)'
    OBVIOUS
  <2>1. BurstGood(e) /\ Timely(e)
    BY <1>3, <1>6, <1>7 DEF IInv
  <2>2. QED
    BY <2>1, CaptureStays
<1>11. Numbered'
  <2>1. \A e \in captures : e.number \in 1..Cardinality(captures)
    BY <1>1 DEF Numbered
  <2>2. new \notin captures
    BY <1>2, <1>5, <2>1
  <2>3. /\ IsFiniteSet(captures')
        /\ Cardinality(captures') = Cardinality(captures) + 1
    BY <1>2, <1>3, <2>2, FS_AddElement
  <2>4. \A e \in captures' : e.number \in 1..Cardinality(captures')
    BY <1>2, <1>3, <1>5, <2>1, <2>3
  <2>5. \A e, f \in captures' : e.number = f.number => e = f
    <3>1. \A e \in captures : e.number # new.number
      BY <1>2, <1>5, <2>1
    <3>2. QED
      BY <1>1, <1>3, <3>1 DEF Numbered
  <2>6. QED
    BY <2>3, <2>4, <2>5 DEF Numbered
<1> QED
  BY <1>9, <1>10, <1>11 DEF IInv

(* A capture that only goes on, or ends. *)
LEMMA StepChanged ==
    ASSUME IInv, NEW c \in captures, ~Ended(c), NEW s \in CaptureSteps,
           Becomes(c, [c EXCEPT !.step = s])
    PROVE  IInv'
<1>1. c \in CaptureRecords /\ BurstGood(c) /\ Timely(c)
  BY DEF IInv, TypeOK
<1> DEFINE d == [c EXCEPT !.step = s]
<1>2. d \in CaptureRecords
  BY <1>1 DEF CaptureRecords
<1>3. /\ d.number = c.number /\ d.kind = c.kind /\ d.at = c.at /\ d.due = c.due
      /\ d.camera = c.camera /\ d.burst = c.burst
  BY <1>1 DEF CaptureRecords
<1>4. Becomes(c, d)
  OBVIOUS
<1> HIDE DEF d
<1>5. BurstGood(d)
  BY <1>1, <1>3 DEF BurstGood, ItemGood, Target, Remaining
<1>6. Timely(d)
  BY <1>1, <1>3 DEF Timely
<1> QED
  BY <1>2, <1>3, <1>4, <1>5, <1>6, CaptureBecomes

(* The frame that a lookup takes. *)
LEMMA Lookup ==
    ASSUME IInv, NEW camera \in Camera, NEW target \in Int, frames[camera] # <<>>
    PROVE  LET frame == closest(frames[camera], target) IN
           /\ frame \in Buffered(camera) /\ frame \in Nat
           /\ frame \in delivered[camera]
           /\ \A f \in Buffered(camera) :
                 /\ f \in Nat
                 /\ Distance(frame, target) <= Distance(f, target)
                 /\ f < frame => Distance(frame, target) < Distance(f, target)
<1>1. PICK list \in Seq(Nat) : list = frames[camera]
  BY DEF IInv, TypeOK
<1> DEFINE frame == closest(list, target)
<1>2. /\ \E i \in 1..Len(list) : frame = list[i]
      /\ \A i \in 1..Len(list) :
            \/ Distance(frame, target) < Distance(list[i], target)
            \/ Distance(frame, target) = Distance(list[i], target) /\ frame <= list[i]
  BY <1>1, ClosestExists
<1> HIDE DEF frame
<1>3. frame \in Buffered(camera) /\ frame \in Nat
  BY <1>1, <1>2 DEF Buffered
<1>4. Buffered(camera) \subseteq delivered[camera]
  BY DEF IInv, Buffers, BufferOf
<1>5. ASSUME NEW f \in Buffered(camera)
      PROVE  /\ f \in Nat
             /\ Distance(frame, target) <= Distance(f, target)
             /\ f < frame => Distance(frame, target) < Distance(f, target)
  <2>1. PICK i \in 1..Len(list) : f = list[i]
    BY <1>1 DEF Buffered
  <2>2. f \in Nat
    BY <2>1
  <2>3. Distance(frame, target) \in Int /\ Distance(f, target) \in Int
    BY <1>3, <2>2 DEF Distance
  <2>4. \/ Distance(frame, target) < Distance(f, target)
        \/ Distance(frame, target) = Distance(f, target) /\ frame <= f
    BY <1>2, <2>1
  <2>5. QED
    BY <1>3, <2>2, <2>3, <2>4
<1> QED
  BY <1>1, <1>3, <1>4, <1>5 DEF frame

(* The offsets of a capture in progress that have no frame yet. *)
LEMMA NextOffset ==
    ASSUME NEW c \in CaptureRecords, Remaining(c) # {}
    PROVE  /\ Soonest(Remaining(c)) \in Remaining(c)
           /\ \A o \in Remaining(c) : Soonest(Remaining(c)) <= o
           /\ Remaining(c) \subseteq BurstOffsets
<1>1. Remaining(c) \subseteq BurstOffsets
  BY DEF Remaining
<1>2. Remaining(c) \subseteq Int /\ IsFiniteSet(Remaining(c))
  BY <1>1, BurstSpan, FS_Subset
<1> HIDE DEF Remaining
<1> QED
  BY <1>1, <1>2, MinOf DEF Soonest

(* Of two frames the later is closer to the later target if it was closer  *)
(* to the earlier one.                                                     *)
LEMMA CloserLater ==
    ASSUME NEW early \in Int, NEW late \in Int, early < late,
           NEW t \in Int, NEW u \in Int, t < u, Distance(late, t) < Distance(early, t)
    PROVE  Distance(late, u) < Distance(early, u)
  BY DEF Distance

(* A lookup that finds its frame keeps the manifest in order: a frame      *)
(* before one that was taken earlier would have been closer to what was    *)
(* asked for then.                                                         *)
LEMMA FrameTaken ==
    ASSUME IInv, NEW c \in captures, c.step = "select", NEW offset \in Remaining(c),
           offset = Soonest(Remaining(c)), frames[c.camera] # <<>>,
           WithinSkew(closest(frames[c.camera], c.at + offset), c.at + offset),
           Becomes(c, [c EXCEPT !.burst = Append(c.burst,
                 [camera |-> c.camera, offset |-> offset,
                  frame |-> closest(frames[c.camera], c.at + offset)])])
    PROVE  IInv'
<1>1. c \in CaptureRecords /\ BurstGood(c) /\ Timely(c) /\ Buffers /\ TypeOK
  BY DEF IInv, TypeOK
<1>2. /\ c.camera \in Camera /\ c.at \in Nat /\ c.burst \in Seq(Items)
      /\ offset \in BurstOffsets /\ offset \in Int /\ \A o \in Remaining(c) : offset <= o
      /\ \A o \in Remaining(c) : o \in Int
  BY <1>1, NextOffset, BurstSpan DEF CaptureRecords
<1> DEFINE found == closest(frames[c.camera], c.at + offset)
<1>3. /\ found \in Buffered(c.camera) /\ found \in Nat /\ found \in delivered[c.camera]
      /\ \A f \in Buffered(c.camera) :
            /\ f \in Nat
            /\ Distance(found, c.at + offset) <= Distance(f, c.at + offset)
            /\ f < found => Distance(found, c.at + offset) < Distance(f, c.at + offset)
      /\ Distance(found, c.at + offset) <= Skew
  <2>1. c.at + offset \in Int
    BY <1>2
  <2>2. Distance(found, c.at + offset) <= Skew
    BY DEF WithinSkew
  <2> HIDE DEF found
  <2>3. QED
    BY <1>2, <2>1, <2>2, Lookup DEF found
<1> HIDE DEF found
<1>4. PICK frame : frame = found
  OBVIOUS
<1>5. /\ frame \in Nat
      /\ frame \in Buffered(c.camera) /\ frame \in delivered[c.camera]
      /\ \A f \in Buffered(c.camera) :
            /\ f \in Nat
            /\ Distance(frame, c.at + offset) <= Distance(f, c.at + offset)
            /\ f < frame => Distance(frame, c.at + offset) < Distance(f, c.at + offset)
      /\ Distance(frame, c.at + offset) <= Skew
  BY <1>3, <1>4
<1>6. PICK item \in Items : item = [camera |-> c.camera, offset |-> offset, frame |-> frame]
  BY <1>2, <1>5 DEF Items
<1>7. PICK n \in Nat : n = Len(c.burst)
  BY <1>2
<1> DEFINE longer == Append(c.burst, item)
<1>8. /\ longer \in Seq(Items)
      /\ Len(longer) = n + 1 /\ longer[n + 1] = item
      /\ \A i \in 1..n : longer[i] = c.burst[i]
  <2>1. /\ Append(c.burst, item) \in Seq(Items)
        /\ Len(Append(c.burst, item)) = Len(c.burst) + 1
        /\ \A i \in 1..Len(c.burst) : Append(c.burst, item)[i] = c.burst[i]
        /\ Append(c.burst, item)[Len(c.burst) + 1] = item
    BY <1>2, AppendProperties
  <2>2. QED
    BY <1>7, <2>1
<1> HIDE DEF longer
<1>9. PICK d \in CaptureRecords : d = [c EXCEPT !.burst = longer]
  BY <1>1, <1>8 DEF CaptureRecords
<1>10. /\ d.number = c.number /\ d.kind = c.kind /\ d.at = c.at /\ d.due = c.due
      /\ d.camera = c.camera /\ d.step = c.step /\ d.burst = longer
  BY <1>1, <1>9 DEF CaptureRecords
<1>11. Becomes(c, d)
  BY <1>4, <1>6, <1>9 DEF longer, found
<1>12. ASSUME NEW i \in 1..n
       PROVE  /\ longer[i] = c.burst[i] /\ longer[i] \in Items
              /\ ItemGood(c, i) /\ c.burst[i].camera <= c.camera
              /\ c.burst[i].camera = c.camera => c.burst[i].offset < offset
  BY <1>1, <1>2, <1>7, <1>8 DEF BurstGood
<1>13. \A i \in 1..(n + 1) : i \in 1..n \/ i = n + 1
  OBVIOUS
<1>14. ASSUME NEW i \in 1..n PROVE ItemGood(d, i)
  BY <1>10, <1>12 DEF ItemGood, Target
<1>15. ItemGood(d, n + 1)
  BY <1>5, <1>6, <1>8, <1>10 DEF ItemGood, Target
<1>16. \A o \in Remaining(d) : o \in Remaining(c) /\ o # offset
  <2>1. DOMAIN c.burst = 1..n /\ DOMAIN longer = 1..(n + 1) /\ n + 1 \in 1..(n + 1)
    BY <1>2, <1>7, <1>8
  <2>2. item.camera = c.camera /\ item.offset = offset
    BY <1>6
  <2>3. \A i \in 1..n : i \in 1..(n + 1) /\ longer[i] = c.burst[i]
    BY <1>8
  <2>4. QED
    BY <1>8, <1>10, <2>1, <2>2, <2>3 DEF Remaining
<1>17. \A i \in 1..n : longer[i].camera = c.camera => longer[i].frame <= frame
  <2> SUFFICES ASSUME NEW i \in 1..n, longer[i].camera = c.camera, frame < longer[i].frame
               PROVE  FALSE
    BY <1>5, <1>12 DEF Items
  <2>1. PICK old \in Nat : old = longer[i].frame
    BY <1>12 DEF Items
  <2>2. PICK asked \in Int : asked = longer[i].offset
    BY <1>12, BurstSpan DEF Items
  <2>3. /\ old \in delivered[c.camera] /\ asked < offset
        /\ \A f \in Buffered(c.camera) : f < old =>
              Distance(old, c.at + asked) < Distance(f, c.at + asked)
    BY <1>12, <2>1, <2>2 DEF ItemGood, Target
  <2>4. Distance(old, c.at + asked) < Distance(frame, c.at + asked)
    BY <1>5, <2>1, <2>3
  <2>5. old \in Buffered(c.camera)
    <3>1. BufferOf(c.camera)
      BY <1>1, <1>2 DEF Buffers
    <3>2. QED
      BY <1>5, <2>1, <2>3, <3>1 DEF BufferOf
  <2>6. Distance(frame, c.at + offset) <= Distance(old, c.at + offset)
    BY <1>5, <2>5
  <2>7. frame < old
    BY <2>1
  <2>8. c.at + asked \in Int /\ c.at + offset \in Int /\ c.at + asked < c.at + offset
    BY <1>2, <2>3
  <2>9. Distance(old, c.at + offset) < Distance(frame, c.at + offset)
    BY <1>5, <2>4, <2>7, <2>8, CloserLater, SMTT(30)
  <2>10. Distance(old, c.at + offset) \in Int /\ Distance(frame, c.at + offset) \in Int
    BY <1>5, <2>8, SMTT(30) DEF Distance
  <2>11. QED
    BY <2>6, <2>9, <2>10
<1>18. BurstGood(d)
  <2>1. \A i \in 1..(n + 1) : ItemGood(d, i) /\ longer[i].camera <= d.camera
    <3>1. \A i \in 1..n : ItemGood(d, i) /\ longer[i].camera <= d.camera
      BY <1>10, <1>12, <1>14
    <3>2. ItemGood(d, n + 1) /\ longer[n + 1].camera <= d.camera
      BY <1>2, <1>6, <1>8, <1>10, <1>15 DEF Camera
    <3>3. QED
      BY <1>13, <3>1, <3>2
  <2>2. ASSUME NEW i \in 1..(n + 1), longer[i].camera = d.camera, NEW o \in Remaining(d)
        PROVE  longer[i].offset < o
    <3>1. o \in Int /\ offset < o
      BY <1>2, <1>16
    <3>2. CASE i \in 1..n
      <4>1. longer[i].offset \in Int /\ longer[i].offset < offset
        BY <1>10, <1>12, <2>2, <3>2, BurstSpan DEF Items
      <4>2. QED
        BY <1>2, <3>1, <4>1
    <3>3. CASE i = n + 1
      BY <1>6, <1>8, <3>1, <3>3
    <3>4. QED
      BY <1>13, <3>2, <3>3
  <2>3. ASSUME NEW i \in 1..(n + 1), NEW j \in 1..(n + 1), i < j,
               longer[i].camera = longer[j].camera
        PROVE  longer[i].frame <= longer[j].frame
    <3>1. i \in 1..n
      BY <2>3
    <3>2. CASE j \in 1..n
      BY <1>1, <1>7, <1>12, <2>3, <3>1, <3>2 DEF BurstGood
    <3>3. CASE j = n + 1
      BY <1>6, <1>8, <1>17, <2>3, <3>1, <3>3
    <3>4. QED
      BY <1>13, <3>2, <3>3
  <2>4. QED
    BY <1>8, <1>10, <2>1, <2>2, <2>3 DEF BurstGood
<1>19. Timely(d)
  BY <1>1, <1>10 DEF Timely, Ended
<1> QED
  BY <1>10, <1>11, <1>18, <1>19, CaptureBecomes

(* The next camera: nothing has been looked up for it yet. *)
LEMMA CameraChanged ==
    ASSUME IInv, NEW c \in captures, c.step = "select", c.camera < Cameras,
           Becomes(c, [c EXCEPT !.camera = c.camera + 1])
    PROVE  IInv'
<1>1. c \in CaptureRecords /\ BurstGood(c) /\ Timely(c)
  BY DEF IInv, TypeOK
<1>2. c.camera + 1 \in Camera /\ c.camera \in Nat
  BY <1>1, Sizes DEF CaptureRecords, Camera
<1>3. PICK d \in CaptureRecords : d = [c EXCEPT !.camera = c.camera + 1]
  BY <1>1, <1>2 DEF CaptureRecords
<1>4. /\ d.number = c.number /\ d.kind = c.kind /\ d.at = c.at /\ d.due = c.due
      /\ d.camera = c.camera + 1 /\ d.step = c.step /\ d.burst = c.burst
  BY <1>1, <1>3 DEF CaptureRecords
<1>5. \A i \in 1..Len(c.burst) : c.burst[i].camera \in Nat /\ c.burst[i].camera <= c.camera
  <2>1. \A i \in 1..Len(c.burst) : c.burst[i] \in Items
    BY <1>1 DEF CaptureRecords
  <2>2. QED
    BY <1>1, <2>1, Sizes, SMTT(30) DEF BurstGood, Items, Camera
<1>6. \A i \in 1..Len(c.burst) : c.burst[i].camera <= d.camera /\ c.burst[i].camera # d.camera
  <2>1. PICK k \in Nat : k = c.camera /\ d.camera = k + 1
    BY <1>2, <1>4
  <2> SUFFICES ASSUME NEW i \in 1..Len(c.burst)
               PROVE  c.burst[i].camera <= k + 1 /\ c.burst[i].camera # k + 1
    BY <2>1
  <2>2. c.burst[i].camera \in Nat /\ c.burst[i].camera <= k
    BY <1>5, <2>1
  <2>3. QED
    BY <2>2
<1>7. \A i \in 1..Len(c.burst) : ItemGood(d, i)
  BY <1>1, <1>4 DEF BurstGood, ItemGood, Target
<1>8. BurstGood(d)
  BY <1>1, <1>4, <1>6, <1>7 DEF BurstGood
<1>9. Timely(d)
  BY <1>1, <1>4 DEF Timely, Ended
<1> QED
  BY <1>3, <1>4, <1>8, <1>9, CaptureBecomes

LEMMA CaptureStep ==
    ASSUME IInv, NEW c \in captures,
           Proceed(c)
    PROVE  IInv'
<1>1. CASE TimerFires(c)
  BY <1>1, StepChanged DEF TimerFires, Ended, CaptureSteps
<1>2. CASE BoardAnswers(c)
  BY <1>2, StepChanged DEF BoardAnswers, Ended, CaptureSteps
<1>3. CASE SelectFrame(c)
  <2>1. PICK offset \in Remaining(c) :
           LET frame == closest(frames[c.camera], c.at + offset)
               item  == [camera |-> c.camera, offset |-> offset, frame |-> frame]
           IN  /\ offset = Soonest(Remaining(c))
               /\ Becomes(c, IF frames[c.camera] # <<>> /\ WithinSkew(frame, c.at + offset)
                             THEN [c EXCEPT !.burst = Append(c.burst, item)]
                             ELSE [c EXCEPT !.step = "missed"])
    BY <1>3 DEF SelectFrame
  <2>2. c.step = "select"
    BY <1>3 DEF SelectFrame
  <2>3. CASE frames[c.camera] # <<>>
             /\ WithinSkew(closest(frames[c.camera], c.at + offset), c.at + offset)
    BY <2>1, <2>2, <2>3, FrameTaken
  <2>4. CASE ~(frames[c.camera] # <<>>
               /\ WithinSkew(closest(frames[c.camera], c.at + offset), c.at + offset))
    <3>1. Becomes(c, [c EXCEPT !.step = "missed"])
      BY <2>1, <2>4
    <3>2. QED
      BY <2>2, <3>1, StepChanged DEF Ended, CaptureSteps
  <2>5. QED
    BY <2>3, <2>4
<1>4. CASE CameraDone(c)
  <2>1. /\ c.step = "select"
        /\ \/ Becomes(c, [c EXCEPT !.step = "frozen"])
           \/ Becomes(c, [c EXCEPT !.step = "written"])
           \/ c.camera < Cameras /\ Becomes(c, [c EXCEPT !.camera = c.camera + 1])
    BY <1>4 DEF CameraDone
  <2>2. QED
    BY <2>1, StepChanged, CameraChanged DEF Ended, CaptureSteps
<1> QED
  BY <1>1, <1>2, <1>3, <1>4 DEF Proceed

-----------------------------------------------------------------------------
(***************************************************************************)
(* Loop and clock.                                                         *)
(***************************************************************************)

(* A step of the loop that leaves clock, buffers and captures alone. *)
LEMMA LoopIdles ==
    ASSUME IInv, Still, captures' = captures,
           ticker' \in Tickers, receivedAt' \in Nat, outstanding' \in Nat, EvidenceTimely'
    PROVE  IInv'
<1>1. TypeOK' /\ Buffers'
  BY BuffersStay DEF IInv, TypeOK
<1>2. \A c \in captures' : BurstGood(c)' /\ Timely(c)'
  BY CaptureStays DEF IInv
<1>3. Numbered'
  BY DEF IInv, Numbered
<1> QED
  BY <1>1, <1>2, <1>3 DEF IInv

LEMMA LoopStep ==
    ASSUME IInv, Start \/ TakeReconciled \/ RequestEnds \/ TickAnswered
    PROVE  IInv'
<1>1. /\ TypeOK /\ EvidenceTimely /\ now \in Nat /\ receivedAt \in Nat /\ outstanding \in Nat
      /\ ticker \in Tickers
  BY DEF IInv, TypeOK
<1>2. now <= now + ArtifactTimeout
  BY <1>1, Sizes
<1>3. CASE Start \/ TakeReconciled
  <2>1. Still /\ UNCHANGED <<receivedAt, outstanding>>
    BY <1>3 DEF Still, Start, TakeReconciled
  <2>2. \/ Schedule("observation", now)
        \/ Schedule("change", now)
    BY <1>3 DEF Start, TakeReconciled
  <2>3. EvidenceTimely'
    BY <1>1, <2>1 DEF EvidenceTimely, Still
  <2>4. ticker' \in Tickers
    <3>1. CASE Start
      <4>1. ticker' = [next |-> now + ReferenceInterval, fired |-> <<>>]
        BY <3>1 DEF Start
      <4>2. now + ReferenceInterval \in Nat /\ <<>> \in Seq(Nat)
        BY <1>1, Sizes
      <4>3. QED
        BY <4>1, <4>2 DEF Tickers
    <3>2. CASE TakeReconciled
      BY <1>1, <3>2 DEF TakeReconciled
    <3>3. QED
      BY <1>3, <3>1, <3>2
  <2>5. QED
    BY <1>1, <1>2, <2>1, <2>2, <2>3, <2>4, CaptureAdded
<1>4. CASE RequestEnds
  <2>1. /\ Still /\ UNCHANGED <<ticker, receivedAt>> /\ outstanding > 0
        /\ outstanding' = outstanding - 1
        /\ IF outstanding = 1 THEN Schedule("change", receivedAt) ELSE UNCHANGED captures
    BY <1>4 DEF RequestEnds, Still
  <2>2. outstanding' \in Nat /\ EvidenceTimely' /\ receivedAt' \in Nat
    BY <1>1, <2>1 DEF EvidenceTimely, Still
  <2>3. now <= receivedAt + ArtifactTimeout
    BY <1>1, <2>1 DEF EvidenceTimely
  <2>4. CASE outstanding = 1
    BY <1>1, <2>1, <2>2, <2>3, <2>4, CaptureAdded
  <2>5. CASE outstanding # 1
    BY <1>1, <2>1, <2>2, <2>5, LoopIdles
  <2>6. QED
    BY <2>4, <2>5
<1>5. CASE TickAnswered
  <2>1. /\ Still /\ UNCHANGED <<ticker, receivedAt, outstanding>>
        /\ Schedule("observation", receivedAt) \/ UNCHANGED captures
    BY <1>5 DEF TickAnswered, Still
  <2>2. EvidenceTimely'
    BY <1>1, <2>1 DEF EvidenceTimely, Still
  <2>3. QED
    BY <1>1, <2>1, <2>2, CaptureAdded, LoopIdles
<1> QED
  BY <1>3, <1>4, <1>5

LEMMA QuietStep ==
    ASSUME IInv,
           \/ waitForCameraHistory \/ Report \/ TakeDart
           \/ TickerFires \/ TakeTick \/ UNCHANGED vars
    PROVE  IInv'
<1>1. /\ TypeOK /\ EvidenceTimely /\ now \in Nat /\ receivedAt \in Nat /\ outstanding \in Nat
      /\ ticker \in Tickers
  BY DEF IInv, TypeOK
<1>2. Still /\ captures' = captures
  BY DEF Still, vars, waitForCameraHistory, Report, TakeDart, TickerFires, TakeTick
<1>3. CASE waitForCameraHistory \/ Report \/ TakeDart \/ UNCHANGED vars
  <2>1. /\ ticker' = ticker
        /\ \/ UNCHANGED <<receivedAt, outstanding>>
           \/ receivedAt' = now /\ outstanding' = Requests
    BY <1>3 DEF vars, loop, waitForCameraHistory, Report, TakeDart
  <2>2. receivedAt' \in Nat /\ outstanding' \in Nat /\ EvidenceTimely'
    BY <1>1, <1>2, <2>1, Sizes DEF EvidenceTimely, Still
  <2>3. QED
    BY <1>1, <1>2, <2>1, <2>2, LoopIdles
<1>4. CASE TickerFires
  <2>1. /\ UNCHANGED <<receivedAt, outstanding>>
        /\ \E fired \in {<<now>>, ticker.fired} :
              ticker' = [next |-> ticker.next + ReferenceInterval, fired |-> fired]
    BY <1>4 DEF TickerFires
  <2>2. <<now>> \in Seq(Nat) /\ ticker.fired \in Seq(Nat) /\ ticker.next + ReferenceInterval \in Nat
    BY <1>1, Sizes DEF Tickers
  <2>3. PICK fired \in Seq(Nat) : ticker' = [next |-> ticker.next + ReferenceInterval, fired |-> fired]
    BY <2>1, <2>2
  <2>4. ticker' \in Tickers
    BY <2>2, <2>3 DEF Tickers
  <2>5. EvidenceTimely'
    BY <1>1, <1>2, <2>1 DEF EvidenceTimely, Still
  <2>6. QED
    BY <1>1, <1>2, <2>1, <2>4, <2>5, LoopIdles
<1>5. CASE TakeTick
  <2>1. /\ ticker.fired # <<>> /\ ticker' = [ticker EXCEPT !.fired = <<>>]
        /\ outstanding' = outstanding /\ outstanding = 0
        /\ receivedAt' \in {receivedAt, ticker.fired[1]}
    BY <1>5 DEF TakeTick, Idle
  <2>2. ticker.fired[1] \in Nat
    <3>1. ticker.fired \in Seq(Nat) /\ ticker.fired # <<>>
      BY <1>1, <2>1 DEF Tickers
    <3>2. QED
      BY <3>1
  <2>3. ticker' \in Tickers
    <3>1. <<>> \in Seq(Nat)
      OBVIOUS
    <3>2. QED
      BY <1>1, <2>1, <3>1 DEF Tickers
  <2>4. EvidenceTimely'
    BY <2>1 DEF EvidenceTimely
  <2>5. QED
    BY <1>1, <1>2, <2>1, <2>2, <2>3, <2>4, LoopIdles
<1> QED
  BY <1>3, <1>4, <1>5

LEMMA TickStep ==
    ASSUME IInv, Tick
    PROVE  IInv'
<1>1. /\ TypeOK /\ Buffers /\ EvidenceTimely /\ Numbered
      /\ \A c \in captures : BurstGood(c) /\ Timely(c)
  BY DEF IInv
<1>2. /\ now' = now + 1
      /\ UNCHANGED <<frames, delivered, ticker, receivedAt, outstanding, captures>>
      /\ outstanding > 0 => now < receivedAt + ArtifactTimeout
      /\ \A c \in captures : c.kind = "change" /\ ~Ended(c) => now < c.due + Lag
  BY DEF Tick, loop
<1>3. now \in Nat /\ receivedAt \in Nat /\ outstanding \in Nat /\ delivered \in [Camera -> SUBSET Nat]
  BY <1>1 DEF TypeOK
<1>4. TypeOK'
  BY <1>1, <1>2 DEF TypeOK
<1>5. Buffers'
  <2> SUFFICES ASSUME NEW camera \in Camera PROVE BufferOf(camera)'
    BY DEF Buffers
  <2>1. BufferOf(camera) /\ delivered[camera] \subseteq Nat
    BY <1>1, <1>3 DEF Buffers
  <2>2. Buffered(camera)' = Buffered(camera)
    BY <1>2 DEF Buffered
  <2>3. \A f \in delivered[camera] : f <= now + 1
    BY <1>3, <2>1 DEF BufferOf
  <2>4. \A f \in delivered[camera] \ Buffered(camera) : f < (now + 1) - History
    <3>1. \A f \in delivered[camera] \ Buffered(camera) : f \in Nat /\ f < now - History
      BY <2>1 DEF BufferOf
    <3>2. QED
      BY <1>3, <3>1, Sizes
  <2>5. \A i, j \in 1..Len(frames'[camera]) : i < j => frames'[camera][i] < frames'[camera][j]
    BY <1>2, <2>1 DEF BufferOf
  <2>6. Buffered(camera)' \subseteq delivered'[camera] /\ \A f \in delivered'[camera] : f <= now'
    BY <1>2, <2>1, <2>2, <2>3 DEF BufferOf
  <2>7. \A f \in delivered'[camera] \ Buffered(camera)' :
           f < now' - History /\ \A g \in Buffered(camera)' : f < g
    BY <1>2, <2>1, <2>2, <2>4 DEF BufferOf
  <2>8. QED
    BY <2>5, <2>6, <2>7 DEF BufferOf
<1>6. EvidenceTimely'
  BY <1>1, <1>2, <1>3, Sizes DEF EvidenceTimely
<1>7. ASSUME NEW c \in captures PROVE BurstGood(c)' /\ Timely(c)'
  <2>1. BurstGood(c)'
    BY <1>1, <1>2 DEF BurstGood, ItemGood, Buffered, Target, Remaining
  <2>2. c.due \in Nat
    BY <1>1 DEF TypeOK, CaptureRecords
  <2>3. Timely(c)'
    BY <1>1, <1>2, <1>3, <2>2, Sizes DEF Timely, Ended
  <2>4. QED
    BY <2>1, <2>3
<1>8. Numbered'
  BY <1>1, <1>2 DEF Numbered
<1> QED
  BY <1>2, <1>4, <1>5, <1>6, <1>7, <1>8 DEF IInv

LEMMA FramesNext ==
    ASSUME IInv, [Next]_vars
    PROVE  IInv'
<1>1. CASE \E camera \in Camera : FrameArrives(camera)
  BY <1>1, FrameStep
<1>2. CASE Start \/ TakeReconciled \/ RequestEnds \/ TickAnswered
  BY <1>2, LoopStep
<1>3. CASE waitForCameraHistory \/ Report \/ TakeDart \/ TickerFires \/ TakeTick \/ UNCHANGED vars
  BY <1>3, QuietStep
<1>4. CASE \E c \in captures : Proceed(c)
  BY <1>4, CaptureStep
<1>5. CASE Tick
  BY <1>5, TickStep
<1> QED
  BY <1>1, <1>2, <1>3, <1>4, <1>5 DEF Next, TakeChange

-----------------------------------------------------------------------------
(***************************************************************************)
(* What follows.                                                           *)
(***************************************************************************)

LEMMA Always == Spec => []IInv
  BY FramesInit, FramesNext, PTL DEF Spec

(* The frames of every camera are in the order of their times in the       *)
(* manifest of every burst (capture, recorder.go).                         *)
THEOREM ManifestIsInOrder == Spec => []ManifestInOrder
<1>1. IInv => ManifestInOrder
  <2> SUFFICES ASSUME IInv, NEW c \in captures, NEW i \in DOMAIN c.burst, NEW j \in DOMAIN c.burst,
                      i < j, c.burst[i].camera = c.burst[j].camera
               PROVE  c.burst[i].frame <= c.burst[j].frame
    BY DEF ManifestInOrder
  <2>1. DOMAIN c.burst = 1..Len(c.burst) /\ BurstGood(c)
    BY DEF IInv, TypeOK, CaptureRecords
  <2>2. QED
    BY <2>1 DEF BurstGood
<1> QED
  BY <1>1, Always, PTL

(* No frame labelled with the world before a change was taken at or after  *)
(* one labelled with the world after it (frameWorldState, recorder.go).    *)
THEOREM BeforeFramesAreBefore == Spec => []BeforeIsNotAfter
<1>1. IInv => BeforeIsNotAfter
  <2> SUFFICES ASSUME IInv, NEW c \in captures, NEW i \in DOMAIN c.burst, NEW j \in DOMAIN c.burst,
                      c.burst[i].camera = c.burst[j].camera,
                      WorldState(c, c.burst[i].offset) = "before",
                      WorldState(c, c.burst[j].offset) = "after"
               PROVE  c.burst[i].frame < c.burst[j].frame
    BY DEF BeforeIsNotAfter
  <2>1. c \in CaptureRecords /\ DOMAIN c.burst = 1..Len(c.burst) /\ BurstGood(c)
    BY DEF IInv, TypeOK, CaptureRecords
  <2>2. c.burst[i] \in Items /\ c.burst[j] \in Items /\ c.at \in Nat
    BY <2>1 DEF CaptureRecords
  <2>3. PICK first \in Int, second \in Int :
           first = c.burst[i].offset /\ second = c.burst[j].offset
    BY <2>2, BurstSpan DEF Items
  <2>4. c.kind = "change" /\ first <= -PreDelay
    BY <2>1, <2>3 DEF WorldState, CaptureRecords
  <2>5. second >= PostDelay
    BY <2>1, <2>3, <2>4, Sizes DEF WorldState
  <2>6. PICK f \in Nat, g \in Nat : f = c.burst[i].frame /\ g = c.burst[j].frame
    BY <2>2 DEF Items
  <2>7. Distance(f, c.at + first) <= Skew /\ Distance(g, c.at + second) <= Skew
    BY <2>1, <2>3, <2>6 DEF BurstGood, ItemGood, Target
  <2>8. f < g
    BY <2>2, <2>4, <2>5, <2>7, Sizes, CameraFramesAssumption DEF Distance
  <2>9. QED
    BY <2>6, <2>8
<1> QED
  BY <1>1, Always, PTL

(* What a buffer has dropped is too old for any lookup of a change. *)
LEMMA DroppedIsTooOld ==
    ASSUME IInv, NEW c \in captures, c.kind = "change", c.step = "select",
           NEW offset \in BurstOffsets,
           NEW f \in delivered[c.camera] \ Buffered(c.camera)
    PROVE  f \in Nat /\ ~(Distance(f, c.at + offset) <= Skew)
<1>1. c \in CaptureRecords /\ Timely(c) /\ now \in Nat
  BY DEF IInv, TypeOK
<1>2. c.camera \in Camera /\ c.at \in Nat /\ c.due \in Nat
  BY <1>1 DEF CaptureRecords
<1>3. BufferOf(c.camera) /\ f \in Nat
  BY <1>2 DEF IInv, TypeOK, Buffers
<1>4. f < now - History
  BY <1>3 DEF BufferOf
<1>5. c.due <= c.at + ArtifactTimeout + Latest /\ now <= c.due + Lag
  BY <1>1 DEF Timely, Ended
<1>6. History >= ArtifactTimeout + Lag + Latest - Oldest + Skew
  BY CameraFramesAssumption
<1>7. offset \in Int /\ Oldest \in Int /\ Latest \in Int /\ Oldest <= offset
  BY BurstSpan
<1>8. f < c.at + offset - Skew
  BY <1>1, <1>2, <1>3, <1>4, <1>5, <1>6, <1>7, Sizes
<1> QED
  BY <1>2, <1>3, <1>7, <1>8, Sizes DEF Distance

(* What NothingForgotten says of a capture and what becomes of it. *)
Best(c, d) ==
    /\ d.step = "missed" =>
          \A f \in delivered[c.camera] :
             ~(Distance(f, c.at + Soonest(Remaining(c))) <= Skew)
    /\ Len(d.burst) > Len(c.burst) =>
          LET item == d.burst[Len(d.burst)]
          IN  \A f \in delivered[c.camera] :
                 Distance(item.frame, c.at + item.offset) <= Distance(f, c.at + item.offset)

LEMMA LookupIsBest ==
    ASSUME IInv, NEW c \in captures, c.kind = "change", SelectFrame(c)
    PROVE  \E d : Becomes(c, d) /\ Best(c, d)
<1>1. c \in CaptureRecords /\ c.step = "select"
  BY DEF IInv, TypeOK, SelectFrame
<1>2. c.camera \in Camera /\ c.at \in Nat /\ c.burst \in Seq(Items)
  BY <1>1 DEF CaptureRecords
<1>3. PICK offset \in Remaining(c) :
         LET frame == closest(frames[c.camera], c.at + offset)
             item  == [camera |-> c.camera, offset |-> offset, frame |-> frame]
         IN  /\ offset = Soonest(Remaining(c))
             /\ Becomes(c, IF frames[c.camera] # <<>> /\ WithinSkew(frame, c.at + offset)
                           THEN [c EXCEPT !.burst = Append(c.burst, item)]
                           ELSE [c EXCEPT !.step = "missed"])
  BY DEF SelectFrame
<1>4. offset \in BurstOffsets /\ c.at + offset \in Int
  BY <1>1, <1>2, <1>3, NextOffset, BurstSpan
<1>5. \A f \in delivered[c.camera] :
         \/ f \in Buffered(c.camera)
         \/ f \in Nat /\ ~(Distance(f, c.at + offset) <= Skew)
  <2> TAKE f \in delivered[c.camera]
  <2>1. CASE f \notin Buffered(c.camera)
    BY <1>1, <1>4, <2>1, DroppedIsTooOld
  <2> QED
    BY <2>1
<1> DEFINE found == closest(frames[c.camera], c.at + offset)
           hit == frames[c.camera] # <<>> /\ WithinSkew(found, c.at + offset)
<1>6. ASSUME frames[c.camera] # <<>>
      PROVE  /\ found \in Nat
             /\ \A f \in Buffered(c.camera) :
                   f \in Nat /\ Distance(found, c.at + offset) <= Distance(f, c.at + offset)
  <2> HIDE DEF found
  <2> QED
    BY <1>2, <1>4, <1>6, Lookup DEF found
<1>7. CASE hit
  <2> DEFINE item == [camera |-> c.camera, offset |-> offset, frame |-> found]
             d == [c EXCEPT !.burst = Append(c.burst, item)]
  <2>1. Becomes(c, d)
    BY <1>3, <1>7
  <2>2. item \in Items
    BY <1>2, <1>4, <1>6, <1>7 DEF Items
  <2>3. item.offset = offset /\ item.frame = found
    OBVIOUS
  <2>4. d.burst = Append(c.burst, item) /\ d.step = "select"
    BY <1>1 DEF CaptureRecords
  <2> HIDE DEF d, item
  <2>5. d.burst[Len(d.burst)] = item
    <3>1. /\ Len(Append(c.burst, item)) = Len(c.burst) + 1
          /\ Append(c.burst, item)[Len(c.burst) + 1] = item
      BY <1>2, <2>2, AppendProperties
    <3>2. QED
      BY <2>4, <3>1
  <2>6. ASSUME NEW f \in delivered[c.camera]
        PROVE  Distance(found, c.at + offset) <= Distance(f, c.at + offset)
    <3>1. found \in Nat /\ Distance(found, c.at + offset) <= Skew
      BY <1>6, <1>7 DEF WithinSkew
    <3> HIDE DEF found, hit
    <3>2. CASE f \in Buffered(c.camera)
      BY <1>6, <1>7, <3>2 DEF hit
    <3>3. CASE f \in Nat /\ ~(Distance(f, c.at + offset) <= Skew)
      <4>1. Distance(f, c.at + offset) \in Int /\ Distance(found, c.at + offset) \in Int
        BY <1>4, <3>1, <3>3 DEF Distance
      <4>2. QED
        BY <3>1, <3>3, <4>1, Sizes
    <3>4. QED
      BY <1>5, <3>2, <3>3
  <2> HIDE DEF found
  <2>7. Best(c, d)
    BY <2>3, <2>4, <2>5, <2>6 DEF Best
  <2>8. QED
    BY <2>1, <2>7
<1>8. CASE ~hit
  <2> DEFINE d == [c EXCEPT !.step = "missed"]
  <2>1. Becomes(c, d)
    BY <1>3, <1>8
  <2>2. d.burst = c.burst
    BY <1>1 DEF CaptureRecords
  <2>3. ASSUME NEW f \in delivered[c.camera]
        PROVE  ~(Distance(f, c.at + offset) <= Skew)
    <3>1. CASE f \in Buffered(c.camera)
      <4>1. frames[c.camera] # <<>>
        <5>1. frames[c.camera] \in Seq(Nat)
          BY <1>2 DEF IInv, TypeOK
        <5>2. QED
          BY <3>1, <5>1 DEF Buffered
      <4>2. ~(Distance(found, c.at + offset) <= Skew)
        BY <1>8, <4>1 DEF WithinSkew
      <4>3. /\ found \in Nat /\ f \in Nat
            /\ Distance(found, c.at + offset) <= Distance(f, c.at + offset)
        BY <1>6, <3>1, <4>1
      <4> HIDE DEF found
      <4>4. Distance(f, c.at + offset) \in Int /\ Distance(found, c.at + offset) \in Int
        BY <1>4, <4>3 DEF Distance
      <4>5. QED
        BY <4>2, <4>3, <4>4, Sizes
    <3>2. QED
      BY <1>5, <3>1
  <2> HIDE DEF d
  <2>4. Len(c.burst) \in Nat
    BY <1>2
  <2>5. Best(c, d)
    BY <1>3, <2>2, <2>3, <2>4 DEF Best
  <2>6. QED
    BY <2>1, <2>5
<1> QED
  BY <1>7, <1>8

(* The capture that c becomes is the only new one, and it has c's number. *)
LEMMA OneBecomes ==
    ASSUME IInv, NEW c \in captures, NEW e, Becomes(c, e), NEW d \in captures' \ captures
    PROVE  d = e
  BY DEF Becomes

(* Each lookup of a change finds the best of all frames its camera has     *)
(* ever delivered, or none of them was near enough (cameraBuffer,          *)
(* captureTeacherArtifacts and capture, recorder.go).                      *)
THEOREM NothingIsForgotten == Spec => NothingForgotten
<1>1. ASSUME IInv, [Next]_vars, NEW c \in captures, c.kind = "change", c.step = "select",
             NEW d \in captures' \ captures, d.number = c.number
      PROVE  Best(c, d)
  <2>1. c \in CaptureRecords /\ c.number \in 1..Cardinality(captures)
    BY <1>1 DEF IInv, TypeOK, Numbered
  <2>2. Cardinality(captures) \in Nat
    BY FS_CardinalityType, <1>1 DEF IInv, Numbered
  <2>3. ASSUME NEW kind, NEW at, Schedule(kind, at) PROVE FALSE
    <3>1. d.number = Cardinality(captures) + 1
      BY <1>1, <2>3 DEF Schedule
    <3>2. QED
      BY <1>1, <2>1, <2>2, <3>1
  <2>4. ASSUME NEW e \in captures, NEW s, Becomes(e, s), s.number = e.number
        PROVE  e = c /\ d = s
    <3>1. d = s
      BY <1>1, <2>4, OneBecomes
    <3>2. QED
      BY <1>1, <2>4, <3>1 DEF IInv, Numbered
  <2>5. CASE \E camera \in Camera : FrameArrives(camera)
    BY <1>1, <2>5 DEF FrameArrives
  <2>6. CASE Start \/ TakeReconciled \/ RequestEnds \/ TickAnswered
    BY <1>1, <2>3, <2>6 DEF Start, TakeReconciled, RequestEnds, TickAnswered
  <2>7. CASE waitForCameraHistory \/ Report \/ TakeDart \/ TickerFires \/ TakeTick \/ Tick \/ UNCHANGED vars
    BY <1>1, <2>7 DEF waitForCameraHistory, Report, TakeDart, TickerFires, TakeTick, Tick, vars
  <2>8. CASE \E e \in captures : Proceed(e)
    <3>1. PICK e \in captures : TimerFires(e) \/ BoardAnswers(e) \/ SelectFrame(e) \/ CameraDone(e)
      BY <2>8 DEF Proceed
    <3>2. e \in CaptureRecords
      BY <1>1 DEF IInv, TypeOK
    <3>3. ASSUME NEW s \in CaptureSteps, Becomes(e, [e EXCEPT !.step = s]), s # "missed"
          PROVE  Best(c, d)
      <4> DEFINE next == [e EXCEPT !.step = s]
      <4>1. next.number = e.number /\ next.burst = e.burst /\ next.step = s
        BY <3>2 DEF CaptureRecords
      <4>2. Becomes(e, next)
        BY <3>3
      <4> HIDE DEF next
      <4>3. e = c /\ d = next
        BY <2>4, <4>1, <4>2
      <4>4. Len(c.burst) \in Nat
        BY <2>1 DEF CaptureRecords
      <4>5. QED
        BY <3>3, <4>1, <4>3, <4>4 DEF Best
    <3>4. CASE TimerFires(e) \/ BoardAnswers(e)
      BY <3>3, <3>4 DEF TimerFires, BoardAnswers, CaptureSteps
    <3>5. CASE SelectFrame(e)
      <4>1. PICK s : Becomes(e, s) /\ s.number = e.number
        BY <3>2, <3>5 DEF SelectFrame, CaptureRecords
      <4>2. e = c /\ d = s
        BY <2>4, <4>1
      <4>3. PICK t : Becomes(c, t) /\ Best(c, t)
        BY <1>1, <3>5, <4>2, LookupIsBest
      <4>4. QED
        BY <1>1, <4>3, OneBecomes
    <3>6. CASE CameraDone(e)
      <4>1. \/ Becomes(e, [e EXCEPT !.step = "frozen"])
            \/ Becomes(e, [e EXCEPT !.step = "written"])
            \/ Becomes(e, [e EXCEPT !.camera = e.camera + 1])
        BY <3>6 DEF CameraDone
      <4>2. CASE Becomes(e, [e EXCEPT !.camera = e.camera + 1])
        <5> DEFINE next == [e EXCEPT !.camera = e.camera + 1]
        <5>1. next.number = e.number /\ next.burst = e.burst /\ next.step = e.step
          BY <3>2 DEF CaptureRecords
        <5>2. Becomes(e, next)
          BY <4>2
        <5> HIDE DEF next
        <5>3. e = c /\ d = next
          BY <2>4, <5>1, <5>2
        <5>4. Len(c.burst) \in Nat
          BY <2>1 DEF CaptureRecords
        <5>5. QED
          BY <1>1, <5>1, <5>3, <5>4 DEF Best
      <4>3. QED
        BY <3>3, <4>1, <4>2 DEF CaptureSteps
    <3>7. QED
      BY <3>1, <3>4, <3>5, <3>6
  <2>9. QED
    BY <1>1, <2>5, <2>6, <2>7, <2>8 DEF Next, TakeChange
<1>2. IInv /\ [Next]_vars =>
      [\A c \in captures : c.kind = "change" /\ c.step = "select" =>
          \A d \in captures' \ captures : d.number = c.number =>
             /\ d.step = "missed" =>
                   \A f \in delivered[c.camera] :
                      ~(Distance(f, c.at + Soonest(Remaining(c))) <= Skew)
             /\ Len(d.burst) > Len(c.burst) =>
                   LET item == d.burst[Len(d.burst)]
                   IN  \A f \in delivered[c.camera] :
                          Distance(item.frame, c.at + item.offset)
                             <= Distance(f, c.at + item.offset)]_vars
  BY <1>1 DEF Best
<1> QED
  BY <1>2, Always, PTL DEF Spec, NothingForgotten

-----------------------------------------------------------------------------

RefreshSteps == {"idle", "fetching", "create", "rename", "publish"}

Contents == UNION {[D -> Values \cup {Missing}] : D \in SUBSET Inputs}

SetupTypeOK ==
    /\ refreshes \in [Snapshot!Refresh -> [step : RefreshSteps, content : Contents]]
    /\ board \in [Inputs -> Values]
    /\ setup = Snapshot!NoSetup \/ setup \in [Inputs -> Values \cup {Missing}]
    /\ stage \in {"starting", "subscribing", "waiting", "running"}
    /\ failures \in Nat /\ pending \in Nat /\ session \in Nat

(* A file is complete when it has its name, and is named after what it     *)
(* holds.                                                                  *)
FilesWhole == \A f \in files : f.whole = TRUE /\ f.id = Snapshot!SetupID(f.content)

StoredFor(s, id) == \E f \in files : f.session = s /\ f.id = id

(* A refresh that publishes has its file, and so has what was published.   *)
PublishesStored ==
    /\ \A r \in Snapshot!Refresh :
          /\ refreshes[r].step \in {"create", "rename", "publish"} =>
                refreshes[r].content \in [Inputs -> Values \cup {Missing}]
          /\ refreshes[r].step = "publish" =>
                StoredFor(session, Snapshot!SetupID(refreshes[r].content))
    /\ setup # Snapshot!NoSetup => StoredFor(session, Snapshot!SetupID(setup))

(* After the startup refresh there is a setup, or something has failed. *)
PrimedOrFailed ==
    (stage = "starting" => refreshes[Snapshot!Startup].step = "idle") =>
        setup # Snapshot!NoSetup \/ failures > 0

LabelStored ==
    sample.session > 0 =>
        /\ sample.setup = Snapshot!NoSetup => failures > 0
        /\ sample.setup # Snapshot!NoSetup => StoredFor(sample.session, Snapshot!SetupID(sample.setup))

StoreInv == SetupTypeOK /\ FilesWhole /\ PublishesStored /\ PrimedOrFailed /\ LabelStored

LEMMA EmptyContent == <<>> \in Contents
<1>1. <<>> \in [{} -> Values \cup {Missing}]
  OBVIOUS
<1>2. {} \in SUBSET Inputs
  OBVIOUS
<1> QED
  BY <1>1, <1>2 DEF Contents

LEMMA NoSetupIsNone ==
    ASSUME Snapshot!SetupSnapshotAssumption, NEW c \in [Inputs -> Values \cup {Missing}]
    PROVE  c # Snapshot!NoSetup
<1>1. DOMAIN c = Inputs /\ Inputs # {} /\ DOMAIN <<>> = {}
  BY DEF Snapshot!SetupSnapshotAssumption
<1> QED
  BY <1>1 DEF Snapshot!NoSetup

LEMMA StoreInit == Snapshot!SetupSnapshotAssumption /\ Snapshot!Init => StoreInv
<1> SUFFICES ASSUME Snapshot!SetupSnapshotAssumption, Snapshot!Init PROVE StoreInv
  OBVIOUS
<1>1. SetupTypeOK
  <2>1. Snapshot!Begun \in [step : RefreshSteps, content : Contents] /\ Snapshot!Idle \in [step : RefreshSteps, content : Contents]
    BY EmptyContent DEF Snapshot!Begun, Snapshot!Idle, RefreshSteps
  <2>2. refreshes \in [Snapshot!Refresh -> [step : RefreshSteps, content : Contents]]
    BY <2>1 DEF Snapshot!Init
  <2>3. board \in [Inputs -> Values]
    BY DEF Snapshot!Init, Snapshot!SetupSnapshotAssumption
  <2>4. QED
    BY <2>2, <2>3 DEF Snapshot!Init, SetupTypeOK
<1>2. refreshes[Snapshot!Startup].step = "fetching"
  BY DEF Snapshot!Init, Snapshot!SetupSnapshotAssumption, Snapshot!Startup, Snapshot!Refresh, Snapshot!Begun
<1>3. \A r \in Snapshot!Refresh : refreshes[r].step \in {"idle", "fetching"}
  BY DEF Snapshot!Init, Snapshot!Begun, Snapshot!Idle
<1> QED
  BY <1>1, <1>2, <1>3 DEF Snapshot!Init, StoreInv, FilesWhole, PublishesStored, PrimedOrFailed, LabelStored

(* What a refresh may do to the step and content of one entry. *)
LEMMA Advanced ==
    ASSUME SetupTypeOK, NEW r \in Snapshot!Refresh, NEW step \in RefreshSteps, Snapshot!Advance(r, step)
    PROVE  /\ refreshes' \in [Snapshot!Refresh -> [step : RefreshSteps, content : Contents]]
           /\ refreshes'[r].step = step /\ refreshes'[r].content = refreshes[r].content
           /\ \A s \in Snapshot!Refresh \ {r} : refreshes'[s] = refreshes[s]
<1>1. refreshes' = [refreshes EXCEPT ![r] = [refreshes[r] EXCEPT !.step = step]]
  BY DEF Snapshot!Advance
<1>2. refreshes[r] \in [step : RefreshSteps, content : Contents]
  BY DEF SetupTypeOK
<1>3. /\ [refreshes[r] EXCEPT !.step = step] \in [step : RefreshSteps, content : Contents]
      /\ [refreshes[r] EXCEPT !.step = step].step = step
      /\ [refreshes[r] EXCEPT !.step = step].content = refreshes[r].content
  BY <1>2
<1> QED
  BY <1>1, <1>3 DEF SetupTypeOK

LEMMA Fetched ==
    ASSUME SetupTypeOK, NEW r \in Snapshot!Refresh, NEW input \in Inputs, NEW value \in Values \cup {Missing},
           refreshes' = Snapshot!With(r, input, value)
    PROVE  /\ refreshes' \in [Snapshot!Refresh -> [step : RefreshSteps, content : Contents]]
           /\ refreshes'[r].step = refreshes[r].step
           /\ DOMAIN refreshes'[r].content = DOMAIN refreshes[r].content \cup {input}
           /\ \A i \in DOMAIN refreshes'[r].content :
                 refreshes'[r].content[i] =
                     IF i = input THEN value ELSE refreshes[r].content[i]
           /\ \A s \in Snapshot!Refresh \ {r} : refreshes'[s] = refreshes[s]
<1> DEFINE content == refreshes[r].content
           new == [i \in DOMAIN content \cup {input} |-> IF i = input THEN value ELSE content[i]]
<1>1. refreshes[r] \in [step : RefreshSteps, content : Contents]
  BY DEF SetupTypeOK
<1>2. PICK D \in SUBSET Inputs : content \in [D -> Values \cup {Missing}]
  BY <1>1 DEF Contents
<1>3. new \in [D \cup {input} -> Values \cup {Missing}]
  BY <1>2
<1>4. new \in Contents
  <2>1. D \cup {input} \in SUBSET Inputs
    OBVIOUS
  <2> HIDE DEF new
  <2>2. QED
    BY <1>3, <2>1 DEF Contents
<1>5. refreshes' = [refreshes EXCEPT ![r] = [refreshes[r] EXCEPT !.content = new]]
  BY DEF Snapshot!With
<1> HIDE DEF new
<1>6. /\ [refreshes[r] EXCEPT !.content = new] \in [step : RefreshSteps, content : Contents]
      /\ [refreshes[r] EXCEPT !.content = new].step = refreshes[r].step
      /\ [refreshes[r] EXCEPT !.content = new].content = new
  BY <1>1, <1>4
<1>7. refreshes'[r].content = new /\ refreshes'[r].step = refreshes[r].step
      /\ refreshes' \in [Snapshot!Refresh -> [step : RefreshSteps, content : Contents]]
      /\ \A s \in Snapshot!Refresh \ {r} : refreshes'[s] = refreshes[s]
  BY <1>5, <1>6 DEF SetupTypeOK
<1> QED
  BY <1>7 DEF new

(* The steps that fetch and look for the file. *)
LEMMA StoreFetch ==
    ASSUME Snapshot!SetupSnapshotAssumption, StoreInv, NEW r \in Snapshot!Refresh, Snapshot!Fetch(r)
    PROVE  StoreInv'
<1>1. /\ SetupTypeOK /\ FilesWhole /\ PublishesStored /\ PrimedOrFailed /\ LabelStored
      /\ refreshes[r].step = "fetching"
      /\ UNCHANGED <<board, pending, stage, session, setup, files, sample>>
  BY DEF StoreInv, Snapshot!Fetch
<1>2. failures' \in {failures, failures + 1}
  BY DEF Snapshot!Fetch, Snapshot!Fail, Snapshot!auxiliary
<1>3. PICK input \in Inputs, value \in Values \cup {Missing} : refreshes' = Snapshot!With(r, input, value)
  BY <1>1 DEF Snapshot!Fetch, SetupTypeOK
<1>4. /\ refreshes' \in [Snapshot!Refresh -> [step : RefreshSteps, content : Contents]]
      /\ refreshes'[r].step = "fetching"
      /\ \A s \in Snapshot!Refresh \ {r} : refreshes'[s] = refreshes[s]
  BY <1>1, <1>3, Fetched
<1>5. SetupTypeOK'
  BY <1>1, <1>2, <1>4 DEF SetupTypeOK
<1>6. PublishesStored' /\ FilesWhole'
  BY <1>1, <1>4 DEF PublishesStored, FilesWhole, StoredFor
<1>7. PrimedOrFailed' /\ LabelStored'
  <2>1. \A s \in Snapshot!Refresh : refreshes'[s].step = refreshes[s].step
    BY <1>1, <1>4
  <2>2. Snapshot!Startup \in Snapshot!Refresh
    BY DEF Snapshot!Startup, Snapshot!Refresh, Snapshot!SetupSnapshotAssumption
  <2>3. QED
    BY <1>1, <1>2, <2>1, <2>2 DEF PrimedOrFailed, LabelStored, StoredFor, SetupTypeOK
<1> QED
  BY <1>5, <1>6, <1>7 DEF StoreInv

LEMMA StoreStep ==
    ASSUME Snapshot!SetupSnapshotAssumption, StoreInv, NEW r \in Snapshot!Refresh, Snapshot!RefreshStep(r)
    PROVE  StoreInv'
<1>1. SetupTypeOK /\ FilesWhole /\ PublishesStored /\ PrimedOrFailed /\ LabelStored
  BY DEF StoreInv
<1>2. Snapshot!Startup \in Snapshot!Refresh
  BY DEF Snapshot!Startup, Snapshot!Refresh, Snapshot!SetupSnapshotAssumption
<1>3. CASE Snapshot!Fetch(r)
  BY <1>3, StoreFetch
<1>4. CASE Snapshot!Stat(r)
  <2> DEFINE id == Snapshot!SetupID(refreshes[r].content)
             next == IF Snapshot!Named(id) # {} THEN "publish" ELSE "create"
  <2>1. /\ refreshes[r].step = "fetching" /\ DOMAIN refreshes[r].content = Inputs
        /\ Snapshot!Advance(r, next)
        /\ UNCHANGED <<board, pending, stage, session, setup, files, sample, failures>>
    BY <1>4 DEF Snapshot!Stat, Snapshot!auxiliary
  <2>2. next = "publish" => StoredFor(session, id)
    BY DEF Snapshot!Named, StoredFor
  <2> HIDE DEF id
  <2>3. next \in {"publish", "create"}
    OBVIOUS
  <2> HIDE DEF next
  <2>4. /\ refreshes' \in [Snapshot!Refresh -> [step : RefreshSteps, content : Contents]]
        /\ refreshes'[r].step = next /\ refreshes'[r].content = refreshes[r].content
        /\ \A s \in Snapshot!Refresh \ {r} : refreshes'[s] = refreshes[s]
    BY <1>1, <2>1, <2>3, Advanced DEF RefreshSteps
  <2>5. refreshes[r].content \in [Inputs -> Values \cup {Missing}]
    <3>1. refreshes[r].content \in Contents
      BY <1>1 DEF SetupTypeOK
    <3>2. QED
      BY <2>1, <3>1 DEF Contents
  <2>6. SetupTypeOK' /\ FilesWhole' /\ LabelStored'
    BY <1>1, <2>1, <2>4 DEF SetupTypeOK, FilesWhole, LabelStored, StoredFor
  <2>7. PublishesStored'
    BY <1>1, <2>1, <2>2, <2>4, <2>5 DEF PublishesStored, StoredFor, id
  <2>8. PrimedOrFailed'
    BY <1>1, <1>2, <2>1, <2>3, <2>4 DEF PrimedOrFailed
  <2>9. QED
    BY <2>6, <2>7, <2>8 DEF StoreInv
<1>5. CASE Snapshot!Create(r)
  <2>1. /\ refreshes[r].step = "create" /\ Snapshot!Advance(r, "rename")
        /\ UNCHANGED <<board, pending, stage, session, setup, files, sample, failures>>
    BY <1>5 DEF Snapshot!Create, Snapshot!auxiliary
  <2>2. /\ refreshes' \in [Snapshot!Refresh -> [step : RefreshSteps, content : Contents]]
        /\ refreshes'[r].step = "rename" /\ refreshes'[r].content = refreshes[r].content
        /\ \A s \in Snapshot!Refresh \ {r} : refreshes'[s] = refreshes[s]
    BY <1>1, <2>1, Advanced DEF RefreshSteps
  <2>3. QED
    BY <1>1, <1>2, <2>1, <2>2, SMTT(30)
       DEF StoreInv, SetupTypeOK, FilesWhole, PublishesStored, PrimedOrFailed, LabelStored, StoredFor
<1>6. CASE Snapshot!Rename(r)
  <2> DEFINE id == Snapshot!SetupID(refreshes[r].content)
  <2>1. /\ refreshes[r].step = "rename" /\ Snapshot!Advance(r, "publish")
        /\ files' = (files \ Snapshot!Named(id)) \cup {Snapshot!File(r, TRUE)}
        /\ UNCHANGED <<board, pending, stage, session, setup, sample, failures>>
    BY <1>6 DEF Snapshot!Rename, Snapshot!auxiliary
  <2>2. /\ refreshes' \in [Snapshot!Refresh -> [step : RefreshSteps, content : Contents]]
        /\ refreshes'[r].step = "publish" /\ refreshes'[r].content = refreshes[r].content
        /\ \A s \in Snapshot!Refresh \ {r} : refreshes'[s] = refreshes[s]
    BY <1>1, <2>1, Advanced DEF RefreshSteps
  <2>3. /\ Snapshot!File(r, TRUE).session = session /\ Snapshot!File(r, TRUE).id = id
        /\ Snapshot!File(r, TRUE).whole = TRUE /\ Snapshot!File(r, TRUE).content = refreshes[r].content
    BY DEF Snapshot!File
  <2>4. FilesWhole'
    BY <1>1, <2>1, <2>3 DEF FilesWhole, Snapshot!SetupID
  <2>5. ASSUME NEW s, NEW i, StoredFor(s, i) PROVE StoredFor(s, i)'
    <3>1. PICK f \in files : f.session = s /\ f.id = i
      BY <2>5 DEF StoredFor
    <3>2. CASE f \in Snapshot!Named(id)
      BY <2>1, <2>3, <3>1, <3>2 DEF StoredFor, Snapshot!Named
    <3>3. CASE f \notin Snapshot!Named(id)
      BY <2>1, <3>1, <3>3 DEF StoredFor
    <3>4. QED
      BY <3>2, <3>3
  <2>6. StoredFor(session, id)'
    BY <2>1, <2>2, <2>3 DEF StoredFor, Snapshot!SetupID
  <2> HIDE DEF id
  <2>7. PublishesStored'
    <3>1. \A s \in Snapshot!Refresh : refreshes'[s].content = refreshes[s].content
      BY <2>2
    <3>2. \A s \in Snapshot!Refresh : refreshes'[s].step = "publish" =>
              StoredFor(session, Snapshot!SetupID(refreshes[s].content))'
      BY <1>1, <2>1, <2>2, <2>5, <2>6 DEF PublishesStored, id
    <3>3. \A s \in Snapshot!Refresh : refreshes'[s].step \in {"create", "rename", "publish"} =>
              refreshes[s].step \in {"create", "rename", "publish"}
      BY <2>1, <2>2
    <3>4. setup # Snapshot!NoSetup => StoredFor(session, Snapshot!SetupID(setup))'
      BY <1>1, <2>1, <2>5 DEF PublishesStored
    <3>5. QED
      BY <1>1, <2>1, <3>1, <3>2, <3>3, <3>4 DEF PublishesStored
  <2>8. LabelStored'
    BY <1>1, <2>1, <2>5 DEF LabelStored
  <2>9. SetupTypeOK' /\ PrimedOrFailed'
    BY <1>1, <1>2, <2>1, <2>2 DEF SetupTypeOK, PrimedOrFailed
  <2>10. QED
    BY <2>4, <2>7, <2>8, <2>9 DEF StoreInv
<1>7. CASE Snapshot!WriteFails(r)
  <2>1. /\ refreshes' = [refreshes EXCEPT ![r] = Snapshot!Idle] /\ failures' = failures + 1
        /\ UNCHANGED <<board, pending, stage, session, setup, files, sample>>
    BY <1>7 DEF Snapshot!WriteFails, Snapshot!Fail
  <2>2. Snapshot!Idle \in [step : RefreshSteps, content : Contents] /\ Snapshot!Idle.step = "idle"
    BY EmptyContent DEF Snapshot!Idle, RefreshSteps
  <2>3. /\ refreshes' \in [Snapshot!Refresh -> [step : RefreshSteps, content : Contents]]
        /\ refreshes'[r].step = "idle"
        /\ \A s \in Snapshot!Refresh \ {r} : refreshes'[s] = refreshes[s]
    BY <1>1, <2>1, <2>2 DEF SetupTypeOK
  <2>4. QED
    BY <1>1, <2>1, <2>3
       DEF StoreInv, SetupTypeOK, FilesWhole, PublishesStored, PrimedOrFailed, LabelStored, StoredFor
<1>8. CASE Snapshot!Publish(r)
  <2>1. /\ refreshes' = [refreshes EXCEPT ![r] = Snapshot!Idle] /\ setup' = refreshes[r].content
        /\ refreshes[r].step = "publish"
        /\ UNCHANGED <<board, pending, stage, session, files, sample, failures>>
    BY <1>8 DEF Snapshot!Publish, Snapshot!auxiliary
  <2>2. Snapshot!Idle \in [step : RefreshSteps, content : Contents] /\ Snapshot!Idle.step = "idle"
    BY EmptyContent DEF Snapshot!Idle, RefreshSteps
  <2>3. /\ refreshes' \in [Snapshot!Refresh -> [step : RefreshSteps, content : Contents]]
        /\ refreshes'[r].step = "idle"
        /\ \A s \in Snapshot!Refresh \ {r} : refreshes'[s] = refreshes[s]
    BY <1>1, <2>1, <2>2 DEF SetupTypeOK
  <2>4. setup' \in [Inputs -> Values \cup {Missing}] /\ StoredFor(session, Snapshot!SetupID(setup'))
    BY <1>1, <2>1 DEF PublishesStored
  <2>5. setup' # Snapshot!NoSetup
    BY <2>4, NoSetupIsNone
  <2>6. PublishesStored'
    <3>1. ASSUME NEW s \in Snapshot!Refresh, refreshes'[s].step \in {"create", "rename", "publish"}
          PROVE  s # r /\ refreshes'[s] = refreshes[s]
      BY <2>3, <3>1
    <3>2. \A id : StoredFor(session, id)' <=> StoredFor(session, id)
      BY <2>1 DEF StoredFor
    <3>3. QED
      BY <1>1, <2>1, <2>4, <3>1, <3>2 DEF PublishesStored, Snapshot!SetupID
  <2>7. SetupTypeOK' /\ FilesWhole' /\ PrimedOrFailed' /\ LabelStored'
    BY <1>1, <2>1, <2>3, <2>4, <2>5
       DEF SetupTypeOK, FilesWhole, PrimedOrFailed, LabelStored, StoredFor
  <2>8. QED
    BY <2>6, <2>7 DEF StoreInv
<1> QED
  BY <1>3, <1>4, <1>5, <1>6, <1>7, <1>8 DEF Snapshot!RefreshStep

LEMMA StoreNext == Snapshot!SetupSnapshotAssumption /\ StoreInv /\ [Snapshot!Next]_(Snapshot!vars) => StoreInv'
<1> SUFFICES ASSUME Snapshot!SetupSnapshotAssumption, StoreInv, [Snapshot!Next]_(Snapshot!vars) PROVE StoreInv'
  OBVIOUS
<1>1. SetupTypeOK /\ FilesWhole /\ PublishesStored /\ PrimedOrFailed /\ LabelStored
  BY DEF StoreInv
<1>2. Snapshot!Startup \in Snapshot!Refresh
  BY DEF Snapshot!Startup, Snapshot!Refresh, Snapshot!SetupSnapshotAssumption
<1>3. Snapshot!Begun \in [step : RefreshSteps, content : Contents] /\ Snapshot!Idle \in [step : RefreshSteps, content : Contents]
      /\ Snapshot!Begun.step = "fetching" /\ Snapshot!Idle.step = "idle"
  BY EmptyContent DEF Snapshot!Begun, Snapshot!Idle, RefreshSteps
<1>4. CASE \E r \in Snapshot!Refresh : Snapshot!RefreshStep(r)
  BY <1>4, StoreStep
<1>5. CASE Snapshot!Calibrate
  <2>1. /\ board' \in [Inputs -> Values] /\ pending' \in {pending, pending + 1}
        /\ UNCHANGED <<stage, session, refreshes, setup, files, sample, failures>>
    BY <1>5 DEF Snapshot!Calibrate
  <2>2. QED
    BY <1>1, <2>1
       DEF StoreInv, SetupTypeOK, FilesWhole, PublishesStored, PrimedOrFailed, LabelStored, StoredFor
<1>6. CASE Snapshot!Primed \/ Snapshot!Subscribe \/ Snapshot!WaitTakesEvent \/ Snapshot!Start
  <2>1. /\ stage = "starting" => refreshes[Snapshot!Startup].step = "idle"
        /\ stage' \in {"subscribing", "waiting", "running"}
        /\ pending' \in {pending, pending - 1} /\ (pending > 0 \/ pending' = pending)
        /\ UNCHANGED <<board, session, refreshes, setup, files, sample, failures>>
    BY <1>6 DEF Snapshot!Primed, Snapshot!Subscribe, Snapshot!WaitTakesEvent, Snapshot!Start, Snapshot!auxiliary
  <2>2. pending' \in Nat
    BY <1>1, <2>1 DEF SetupTypeOK
  <2>3. QED
    BY <1>1, <2>1, <2>2
       DEF StoreInv, SetupTypeOK, FilesWhole, PublishesStored, PrimedOrFailed, LabelStored, StoredFor
<1>7. CASE Snapshot!TakeCalibration
  <2>1. /\ refreshes' = [refreshes EXCEPT ![Snapshot!NextRefresh] = Snapshot!Begun]
        /\ pending > 0 /\ pending' = pending - 1 /\ stage = "running"
        /\ UNCHANGED <<board, stage, session, setup, files, sample, failures>>
    BY <1>7 DEF Snapshot!TakeCalibration, Snapshot!TakesEvent
  <2>2. /\ refreshes' \in [Snapshot!Refresh -> [step : RefreshSteps, content : Contents]]
        /\ \A r \in Snapshot!Refresh : refreshes'[r] \in {refreshes[r], Snapshot!Begun}
    BY <1>1, <1>3, <2>1 DEF SetupTypeOK
  <2>3. SetupTypeOK' /\ FilesWhole' /\ PrimedOrFailed' /\ LabelStored'
    BY <1>1, <2>1, <2>2
       DEF SetupTypeOK, FilesWhole, PrimedOrFailed, LabelStored, StoredFor
  <2>4. PublishesStored'
    BY <1>1, <1>3, <2>1, <2>2 DEF PublishesStored, StoredFor
  <2>5. QED
    BY <2>3, <2>4 DEF StoreInv
<1>8. CASE Snapshot!WriteLabel
  <2>1. /\ stage = "running" /\ sample' = [session |-> session, setup |-> setup]
        /\ UNCHANGED <<board, pending, stage, session, refreshes, setup, files, failures>>
    BY <1>8 DEF Snapshot!WriteLabel, Snapshot!auxiliary
  <2>2. LabelStored'
    BY <1>1, <2>1 DEF PublishesStored, PrimedOrFailed, LabelStored, StoredFor
  <2>3. QED
    BY <1>1, <2>1, <2>2 DEF StoreInv, SetupTypeOK, FilesWhole, PublishesStored, PrimedOrFailed, StoredFor
<1>9. CASE Snapshot!CrashAndRestart
  <2>1. /\ refreshes' = [r \in Snapshot!Refresh |-> IF r = Snapshot!Startup THEN Snapshot!Begun ELSE Snapshot!Idle]
        /\ stage' = "starting" /\ pending' = 0 /\ setup' = Snapshot!NoSetup /\ session' = session + 1
        /\ UNCHANGED <<board, files, sample, failures>>
    BY <1>9 DEF Snapshot!CrashAndRestart
  <2>2. /\ refreshes' \in [Snapshot!Refresh -> [step : RefreshSteps, content : Contents]]
        /\ \A r \in Snapshot!Refresh : refreshes'[r].step \in {"idle", "fetching"}
        /\ refreshes'[Snapshot!Startup].step = "fetching"
    BY <1>2, <1>3, <2>1
  <2>3. QED
    BY <1>1, <2>1, <2>2
       DEF StoreInv, SetupTypeOK, FilesWhole, PublishesStored, PrimedOrFailed, LabelStored, StoredFor
<1>10. CASE UNCHANGED Snapshot!vars
  BY <1>1, <1>10
     DEF StoreInv, SetupTypeOK, FilesWhole, PublishesStored, PrimedOrFailed, LabelStored, StoredFor,
         Snapshot!vars, Snapshot!auxiliary
<1> QED
  BY <1>4, <1>5, <1>6, <1>7, <1>8, <1>9, <1>10 DEF Snapshot!Next

(* A behaviour of the composition that runs the setup is one of            *)
(* SetupSnapshot, and one that runs the frames leaves the setup alone.     *)
LEMMA SetupRuns == EvidenceSpec => Snapshot!Spec
<1>1. EvidenceInit => Snapshot!Init
  BY DEF EvidenceInit
<1>2. [EvidenceNext]_allVars => [Snapshot!Next]_(Snapshot!vars)
  BY DEF EvidenceNext, Frames, Setup, allVars, setupVars, Snapshot!vars, Snapshot!auxiliary
<1> QED
  BY <1>1, <1>2, PTL DEF EvidenceSpec, Snapshot!Spec

(* The setup a label names is a complete file of that name, wherever the   *)
(* recorder is ended and however its refreshes overlap, and a label names  *)
(* none only after a failure (SampleSetupStored).                          *)
THEOREM LabelledSetupIsStored == EvidenceSpec => []SampleSetupStored
<1>1. Snapshot!Init => StoreInv
  BY SetupAssumption, StoreInit
<1>2. StoreInv /\ [Snapshot!Next]_(Snapshot!vars) => StoreInv'
  BY SetupAssumption, StoreNext
<1>3. StoreInv => SampleSetupStored
  <2> SUFFICES ASSUME StoreInv, sample.session > 0, sample.setup # Snapshot!NoSetup
               PROVE  \E f \in files :
                         /\ f.session = sample.session /\ f.id = Snapshot!SetupID(sample.setup)
                         /\ f.whole /\ Snapshot!SetupID(f.content) = Snapshot!SetupID(sample.setup)
    BY DEF SampleSetupStored, Snapshot!SampleSetupStored, StoreInv, LabelStored
  <2>1. PICK f \in files : f.session = sample.session /\ f.id = Snapshot!SetupID(sample.setup)
    BY DEF StoreInv, LabelStored, StoredFor
  <2>2. f.whole = TRUE /\ f.id = Snapshot!SetupID(f.content)
    BY DEF StoreInv, FilesWhole
  <2>3. QED
    BY <2>1, <2>2
<1> QED
  BY <1>1, <1>2, <1>3, SetupRuns, PTL DEF Snapshot!Spec

-----------------------------------------------------------------------------

(* Until an event is under way, what the only refresh has fetched is what  *)
(* the board has, and so is what it leaves behind.                         *)
UpToDate ==
    pending = 0 /\ ~missed /\ ~overlapped /\ failures = 0 =>
        \/ Snapshot!Active = {} /\ setup # Snapshot!NoSetup /\ Snapshot!SetupID(setup) = Snapshot!SetupID(board)
        \/ \E r \in Snapshot!Refresh :
              /\ Snapshot!Active = {r}
              /\ \A i \in DOMAIN refreshes[r].content : refreshes[r].content[i] = board[i]

CurrentInv == StoreInv /\ UpToDate

LEMMA CurrentInit == Snapshot!SetupSnapshotAssumption /\ Snapshot!Init => CurrentInv
<1> SUFFICES ASSUME Snapshot!SetupSnapshotAssumption, Snapshot!Init PROVE CurrentInv
  OBVIOUS
<1>1. StoreInv
  BY StoreInit
<1>2. Snapshot!Startup \in Snapshot!Refresh
  BY DEF Snapshot!Startup, Snapshot!Refresh, Snapshot!SetupSnapshotAssumption
<1>3. Snapshot!Active = {Snapshot!Startup} /\ refreshes[Snapshot!Startup].content = <<>>
  BY <1>2 DEF Snapshot!Init, Snapshot!Active, Snapshot!Begun, Snapshot!Idle
<1> QED
  BY <1>1, <1>2, <1>3 DEF CurrentInv, UpToDate

(* A step that leaves refreshes and setup alone and hides no change. *)
LEMMA CurrentFrame ==
    ASSUME UpToDate, UNCHANGED <<refreshes, setup>>,
           \/ pending' # 0 \/ missed' \/ failures' # 0 \/ overlapped'
           \/ UNCHANGED <<board, pending, missed, overlapped, failures>>
    PROVE  UpToDate'
<1>1. Snapshot!Active' = Snapshot!Active
  BY DEF Snapshot!Active
<1>2. CASE pending' # 0 \/ missed' \/ failures' # 0 \/ overlapped'
  BY <1>2 DEF UpToDate
<1>3. CASE UNCHANGED <<board, pending, missed, overlapped, failures>>
  BY <1>1, <1>3 DEF UpToDate, Snapshot!SetupID
<1> QED
  BY <1>2, <1>3

(* The step of a refresh, which is the only one there is. *)
LEMMA CurrentRefresh ==
    ASSUME Snapshot!SetupSnapshotAssumption, StoreInv, StoreInv', UpToDate,
           NEW r \in Snapshot!Refresh, Snapshot!RefreshStep(r)
    PROVE  UpToDate'
<1>1. SetupTypeOK /\ PublishesStored
  BY DEF StoreInv
<1>2. refreshes[r].step # "idle"
  BY DEF Snapshot!RefreshStep, Snapshot!Fetch, Snapshot!Stat, Snapshot!Create, Snapshot!Rename, Snapshot!WriteFails, Snapshot!Publish
<1>3. SUFFICES ASSUME pending' = 0, ~missed', ~overlapped', failures' = 0
               PROVE  \/ Snapshot!Active' = {} /\ setup' # Snapshot!NoSetup /\ Snapshot!SetupID(setup') = Snapshot!SetupID(board')
                      \/ \E s \in Snapshot!Refresh :
                            /\ Snapshot!Active' = {s}
                            /\ \A i \in DOMAIN refreshes'[s].content :
                                  refreshes'[s].content[i] = board'[i]
  BY DEF UpToDate, Snapshot!SetupID
<1>4. UNCHANGED <<board, pending, missed, overlapped>> /\ failures' \in {failures, failures + 1}
  BY DEF Snapshot!RefreshStep, Snapshot!Fetch, Snapshot!Stat, Snapshot!Create, Snapshot!Rename, Snapshot!WriteFails, Snapshot!Publish, Snapshot!Fail, Snapshot!auxiliary
<1>5. failures' = failures /\ failures = 0
  BY <1>1, <1>3, <1>4 DEF SetupTypeOK
<1>6. /\ Snapshot!Active = {r}
      /\ \A i \in DOMAIN refreshes[r].content : refreshes[r].content[i] = board[i]
  BY <1>2, <1>3, <1>4, <1>5 DEF UpToDate, Snapshot!Active
<1>7. CASE Snapshot!Fetch(r)
  <2>1. PICK input \in Inputs \ DOMAIN refreshes[r].content :
              refreshes' = Snapshot!With(r, input, board[input])
    BY <1>1, <1>5, <1>7 DEF Snapshot!Fetch, Snapshot!Fail, SetupTypeOK
  <2>2. board[input] \in Values \cup {Missing}
    BY <1>1 DEF SetupTypeOK
  <2>3. /\ refreshes'[r].step = refreshes[r].step
        /\ DOMAIN refreshes'[r].content = DOMAIN refreshes[r].content \cup {input}
        /\ \A i \in DOMAIN refreshes'[r].content :
              refreshes'[r].content[i] = IF i = input THEN board[input] ELSE refreshes[r].content[i]
        /\ \A s \in Snapshot!Refresh \ {r} : refreshes'[s] = refreshes[s]
    BY <1>1, <2>1, <2>2, Fetched
  <2>4. Snapshot!Active' = {r}
    BY <1>6, <2>3 DEF Snapshot!Active
  <2>5. \A i \in DOMAIN refreshes'[r].content : refreshes'[r].content[i] = board'[i]
    BY <1>4, <1>6, <2>3
  <2>6. QED
    BY <2>4, <2>5
<1>8. CASE Snapshot!Stat(r) \/ Snapshot!Create(r) \/ Snapshot!Rename(r)
  <2>1. PICK step \in {"create", "rename", "publish"} : Snapshot!Advance(r, step)
    BY <1>8 DEF Snapshot!Stat, Snapshot!Create, Snapshot!Rename
  <2>2. /\ refreshes'[r].step = step /\ refreshes'[r].content = refreshes[r].content
        /\ \A s \in Snapshot!Refresh \ {r} : refreshes'[s] = refreshes[s]
    BY <1>1, <2>1, Advanced DEF RefreshSteps
  <2>3. Snapshot!Active' = {r}
    BY <1>6, <2>2 DEF Snapshot!Active
  <2>4. QED
    BY <1>4, <1>6, <2>2, <2>3
<1>9. CASE Snapshot!WriteFails(r)
  BY <1>1, <1>5, <1>9 DEF Snapshot!WriteFails, Snapshot!Fail, SetupTypeOK
<1>10. CASE Snapshot!Publish(r)
  <2>1. /\ refreshes' = [refreshes EXCEPT ![r] = Snapshot!Idle] /\ setup' = refreshes[r].content
        /\ refreshes[r].step = "publish"
    BY <1>10 DEF Snapshot!Publish
  <2>2. setup' \in [Inputs -> Values \cup {Missing}]
    BY <1>1, <2>1 DEF PublishesStored
  <2>3. setup' # Snapshot!NoSetup
    BY <2>2, NoSetupIsNone
  <2>4. Snapshot!Active' = {}
    BY <1>1, <1>6, <2>1 DEF Snapshot!Active, Snapshot!Idle, SetupTypeOK
  <2>5. \A i \in Identifying : setup'[i] = board'[i]
    BY <1>4, <1>6, <2>1, <2>2 DEF Snapshot!SetupSnapshotAssumption
  <2>6. Snapshot!SetupID(setup') = Snapshot!SetupID(board')
    BY <2>5 DEF Snapshot!SetupID
  <2>7. QED
    BY <2>3, <2>4, <2>6
<1> QED
  BY <1>7, <1>8, <1>9, <1>10 DEF Snapshot!RefreshStep

LEMMA CurrentNext == Snapshot!SetupSnapshotAssumption /\ CurrentInv /\ [Snapshot!Next]_(Snapshot!vars) => CurrentInv'
<1> SUFFICES ASSUME Snapshot!SetupSnapshotAssumption, CurrentInv, [Snapshot!Next]_(Snapshot!vars) PROVE CurrentInv'
  OBVIOUS
<1>1. StoreInv /\ StoreInv' /\ UpToDate /\ SetupTypeOK
  BY StoreNext DEF CurrentInv, StoreInv
<1>2. Snapshot!Startup \in Snapshot!Refresh
  BY DEF Snapshot!Startup, Snapshot!Refresh, Snapshot!SetupSnapshotAssumption
<1>3. CASE \E r \in Snapshot!Refresh : Snapshot!RefreshStep(r)
  BY <1>1, <1>3, CurrentRefresh DEF CurrentInv
<1>4. CASE Snapshot!Calibrate
  <2>1. UNCHANGED <<refreshes, setup>> /\ (missed' \/ pending' = pending + 1)
    BY <1>4 DEF Snapshot!Calibrate
  <2>2. QED
    BY <1>1, <2>1, CurrentFrame DEF CurrentInv, SetupTypeOK
<1>5. CASE Snapshot!WaitTakesEvent
  <2>1. /\ UNCHANGED <<refreshes, setup>> /\ pending > 0 /\ pending' = pending - 1
        /\ (pending = 1 => missed')
    BY <1>5 DEF Snapshot!WaitTakesEvent
  <2>2. QED
    BY <1>1, <2>1, CurrentFrame DEF CurrentInv, SetupTypeOK
<1>6. CASE Snapshot!Primed \/ Snapshot!Subscribe \/ Snapshot!Start \/ Snapshot!WriteLabel \/ UNCHANGED Snapshot!vars
  <2>1. UNCHANGED <<refreshes, setup, board, pending, missed, overlapped, failures>>
    BY <1>6 DEF Snapshot!Primed, Snapshot!Subscribe, Snapshot!Start, Snapshot!WriteLabel, Snapshot!vars, Snapshot!auxiliary
  <2>2. QED
    BY <1>1, <2>1, CurrentFrame DEF CurrentInv
<1>7. CASE Snapshot!TakeCalibration
  <2>1. /\ refreshes' = [refreshes EXCEPT ![Snapshot!NextRefresh] = Snapshot!Begun]
        /\ overlapped' = (Snapshot!Active # {})
    BY <1>7 DEF Snapshot!TakeCalibration
  <2>2. CASE Snapshot!Active # {}
    BY <1>1, <2>1, <2>2 DEF CurrentInv, UpToDate
  <2>3. CASE Snapshot!Active = {}
    <3>1. Snapshot!Refresh \ Snapshot!Active = Snapshot!Refresh /\ \A s \in Snapshot!Refresh : Snapshot!Startup <= s
      BY <2>3, Snapshot!SetupSnapshotAssumption DEF Snapshot!Refresh, Snapshot!Startup, Snapshot!SetupSnapshotAssumption
    <3>2. Snapshot!NextRefresh \in Snapshot!Refresh
      BY <1>2, <3>1 DEF Snapshot!NextRefresh
    <3>3. Snapshot!Active' = {Snapshot!NextRefresh} /\ refreshes'[Snapshot!NextRefresh].content = <<>>
      BY <1>1, <2>1, <2>3, <3>2 DEF Snapshot!Active, Snapshot!Begun, SetupTypeOK
    <3>4. QED
      BY <1>1, <3>2, <3>3 DEF CurrentInv, UpToDate
  <2>4. QED
    BY <2>2, <2>3
<1>8. CASE Snapshot!CrashAndRestart
  <2>1. refreshes' = [r \in Snapshot!Refresh |-> IF r = Snapshot!Startup THEN Snapshot!Begun ELSE Snapshot!Idle]
    BY <1>8 DEF Snapshot!CrashAndRestart
  <2>2. Snapshot!Active' = {Snapshot!Startup} /\ refreshes'[Snapshot!Startup].content = <<>>
    BY <1>2, <2>1 DEF Snapshot!Active, Snapshot!Begun, Snapshot!Idle
  <2>3. QED
    BY <1>1, <1>2, <2>2 DEF CurrentInv, UpToDate
<1> QED
  BY <1>3, <1>4, <1>5, <1>6, <1>7, <1>8 DEF Snapshot!Next

(* Once no event is under way and no refresh is, the captures are given    *)
(* the setup of the board, unless a calibration was not heard of, refreshes *)
(* overlapped or something failed (SetupFollowsBoard).                     *)
THEOREM SetupIsOfBoard == EvidenceSpec => []SetupFollowsBoard
<1>1. Snapshot!Init => CurrentInv
  BY SetupAssumption, CurrentInit
<1>2. CurrentInv /\ [Snapshot!Next]_(Snapshot!vars) => CurrentInv'
  BY SetupAssumption, CurrentNext
<1>3. CurrentInv => SetupFollowsBoard
  BY DEF CurrentInv, UpToDate, SetupFollowsBoard, Snapshot!SetupFollowsBoard
<1> QED
  BY <1>1, <1>2, <1>3, SetupRuns, PTL DEF Snapshot!Spec
==============================================================================
