--------------------------- MODULE RecorderProofs ---------------------------
(***************************************************************************)
(* The recorder's event loop and its captures, for any points, offsets,    *)
(* lags, numbers of darts and lengths of history.                          *)
(***************************************************************************)
EXTENDS Recorder, DartMatchingProofs, NaturalsInduction, SequenceTheorems

-----------------------------------------------------------------------------
(***************************************************************************)
(* Types.                                                                  *)
(***************************************************************************)

Entries == [at : Nat, type : {"state", "motion_state"}, board : Board, active : BOOLEAN]

Worlds == [state : Nat, darts : Seq(PhysicalDart)]

LabelRecords ==
    [reason : {"startup", "periodic", "added", "reconciled"}, at : Nat,
     before : Worlds \cup {None}, after : Worlds, dart : Nat, cause : Nat]

CaptureRecords == [label : LabelRecords, due : Nat, step : {"timer", "checked"}]

LogTyped ==
    /\ now \in Nat
    /\ log \in Seq(Entries) /\ Len(log) >= 1
    /\ taken \in 1..Len(log)
    /\ receivedAt \in Seq(Nat) /\ Len(receivedAt) = taken
    /\ motionActive \in BOOLEAN

LoopTyped ==
    /\ phase \in {"waiting", "running", "failed", "cancelled"}
    /\ pc \in {"get", "select", "artifacts"}
    /\ candidate = None \/ candidate \in [board : Board, since : Nat]
    /\ reference = None \/ reference \in [at : Nat]
    /\ startedAt \in Nat /\ startedWith \in 0..Len(log)
    /\ phase = "waiting" => pc # "artifacts"

(* Identities are distinct in a world, and none is above the counter. *)
Identified(darts) ==
    /\ \A i, j \in DOMAIN darts : darts[i].id = darts[j].id => i = j
    /\ \A i \in DOMAIN darts : darts[i].id <= dartCounter

TrackerTyped ==
    /\ world \in Worlds /\ stateCounter \in Nat /\ dartCounter \in Nat
    /\ Identified(world.darts)

(* Nothing is captured before the loop starts. *)
StoreTyped ==
    /\ added \subseteq LabelRecords
    /\ captures \subseteq CaptureRecords
    /\ samples \subseteq LabelRecords
    /\ phase = "waiting" => Labels = {} /\ stateCounter = 0 /\ dartCounter = 0

TypeOK == LogTyped /\ LoopTyped /\ TrackerTyped /\ StoreTyped

LEMMA Sizes ==
    /\ OldestOffset \in Nat /\ LatestOffset \in Nat /\ PreDelay \in Nat
    /\ StableFor \in Nat /\ ArtifactTimeout \in Nat /\ EventAge \in Nat
    /\ EventCap \in Nat /\ StreamLag \in Nat /\ CaptureLag \in Nat
    /\ MaxRate \in Nat /\ MaxThrows \in Nat /\ MaxLog \in Nat /\ MaxTime \in Nat
    /\ ReferenceInterval \in Nat \ {0}
  BY RecorderAssumption

LEMMA BoardsCarryThrows ==
    ASSUME NEW board \in Board
    PROVE  /\ board.throws \in Seq(Throw)
           /\ Len(board.throws) \in 0..MaxThrows
           /\ DOMAIN board.throws = 1..Len(board.throws)
           /\ board.status \in {"throw", "takeout"}
<1>1. PICK n \in 0..MaxThrows : board.throws \in [1..n -> Throw]
  BY DEF Board
<1>2. n \in Nat
  BY Sizes
<1> QED
  BY <1>1, <1>2 DEF Board

LEMMA BoardMade ==
    ASSUME NEW status \in {"throw", "takeout"}, NEW throws \in Seq(Throw),
           Len(throws) <= MaxThrows
    PROVE  [status |-> status, throws |-> throws] \in Board
<1>1. Len(throws) \in 0..MaxThrows /\ throws \in [1..Len(throws) -> Throw]
  BY Sizes
<1> QED
  BY <1>1 DEF Board

LEMMA BoardExtended ==
    ASSUME NEW board \in Board, NEW throw
    PROVE  [board EXCEPT !.throws = Append(@, throw)]
              = [status |-> board.status, throws |-> Append(board.throws, throw)]
<1> DEFINE longer == Append(board.throws, throw)
<1>1. board = [status |-> board.status, throws |-> board.throws]
  BY DEF Board
<1> HIDE DEF longer
<1>2. [board EXCEPT !.throws = longer] = [status |-> board.status, throws |-> longer]
  BY <1>1
<1> QED
  BY <1>2 DEF longer

-----------------------------------------------------------------------------
(***************************************************************************)
(* What a step does to the log.                                            *)
(***************************************************************************)

Grown(throws, throw) ==
    /\ throws = Append(Teacher.board.throws, throw)
    /\ \A i \in DOMAIN log : ~OnBoard(throw.coordinates, i)

Reported(e) ==
    /\ e \in Entries /\ e.at = now
    /\ log' = Append(log, e)
    /\ Cardinality({i \in DOMAIN log : log[i].at = now}) < MaxRate
    /\ e.type = "motion_state" => e.board = Teacher.board
    /\ \/ e.board.throws = Teacher.board.throws
       \/ e.board.throws = <<>>
       \/ \E throw \in Throw : Grown(e.board.throws, throw)

LEMMA TeacherTyped ==
    ASSUME LogTyped
    PROVE  /\ Len(log) \in Nat /\ Len(log) \in DOMAIN log /\ DOMAIN log = 1..Len(log)
           /\ Teacher \in Entries
           /\ Teacher.board \in Board
           /\ \A i \in DOMAIN log : log[i] \in Entries /\ log[i].board \in Board
<1>1. /\ Len(log) \in Nat /\ Len(log) \in DOMAIN log /\ DOMAIN log = 1..Len(log)
      /\ \A i \in DOMAIN log : log[i] \in Entries
  BY DEF LogTyped
<1> QED
  BY <1>1 DEF Teacher, Entries

LEMMA Manager ==
    ASSUME TypeOK, BoardManager
    PROVE  /\ \E e \in Entries : Reported(e)
           /\ UNCHANGED <<now, memory, loop, tracker, store>>
<1>1. LogTyped
  BY DEF TypeOK
<1>2. /\ Teacher.board \in Board /\ Teacher \in Entries
      /\ Teacher.board.throws \in Seq(Throw) /\ Teacher.active \in BOOLEAN
      /\ Teacher.board.status \in {"throw", "takeout"}
      /\ Len(Teacher.board.throws) <= MaxThrows /\ Len(Teacher.board.throws) \in Nat
      /\ Teacher.board = [status |-> Teacher.board.status, throws |-> Teacher.board.throws]
  BY <1>1, TeacherTyped, BoardsCarryThrows, Sizes DEF Entries, Board
<1>3. ASSUME NEW type \in {"state", "motion_state"}, NEW board \in Board,
             NEW active \in BOOLEAN, Report(type, board, active),
             type = "motion_state" => board = Teacher.board,
             \/ board.throws = Teacher.board.throws
             \/ board.throws = <<>>
             \/ \E throw \in Throw : Grown(board.throws, throw)
      PROVE  /\ \E e \in Entries : Reported(e)
             /\ UNCHANGED <<now, memory, loop, tracker, store>>
  <2> DEFINE e == [at |-> now, type |-> type, board |-> board, active |-> active]
  <2>1. e \in Entries
    BY <1>1 DEF Entries, LogTyped
  <2>2. Reported(e)
    BY <1>3, <2>1 DEF Reported, Report
  <2> QED
    BY <1>3, <2>1, <2>2 DEF Report
<1>4. ASSUME NEW throw \in Throw, DartLands(throw)
      PROVE  /\ \E e \in Entries : Reported(e)
             /\ UNCHANGED <<now, memory, loop, tracker, store>>
  <2> DEFINE throws == Append(Teacher.board.throws, throw)
             board == [status |-> Teacher.board.status, throws |-> throws]
  <2>1. throws \in Seq(Throw) /\ Len(throws) <= MaxThrows
    <3>1. Len(Teacher.board.throws) < MaxThrows
      BY <1>4 DEF DartLands
    <3>2. throws \in Seq(Throw) /\ Len(throws) = Len(Teacher.board.throws) + 1
      BY <1>2
    <3> QED
      BY <1>2, <3>1, <3>2, Sizes
  <2>2. board \in Board
    BY <1>2, <2>1, BoardMade
  <2>3. [Teacher.board EXCEPT !.throws = Append(@, throw)] = board
    BY <1>2, BoardExtended
  <2>4. Report("state", board, Teacher.active)
    BY <1>4, <2>3 DEF DartLands
  <2>5. Grown(board.throws, throw)
    BY <1>4 DEF DartLands, Grown, OnBoard
  <2> HIDE DEF board
  <2> QED
    BY <1>2, <1>3, <2>2, <2>4, <2>5
<1>5. ASSUME TakeoutStarted
      PROVE  /\ \E e \in Entries : Reported(e)
             /\ UNCHANGED <<now, memory, loop, tracker, store>>
  <2> DEFINE board == [status |-> "takeout", throws |-> Teacher.board.throws]
  <2>1. board \in Board
    BY <1>2, BoardMade
  <2>2. [Teacher.board EXCEPT !.status = "takeout"] = board
    BY <1>2
  <2>3. Report("state", board, Teacher.active) /\ board.throws = Teacher.board.throws
    BY <1>5, <2>2 DEF TakeoutStarted
  <2> HIDE DEF board
  <2> QED
    BY <1>2, <1>3, <2>1, <2>3
<1>6. ASSUME BoardCleared
      PROVE  /\ \E e \in Entries : Reported(e)
             /\ UNCHANGED <<now, memory, loop, tracker, store>>
  <2> DEFINE board == [status |-> "throw", throws |-> <<>>]
  <2>1. <<>> \in Seq(Throw) /\ Len(<<>>) <= MaxThrows
    BY Sizes
  <2>2. board \in Board
    BY <2>1, BoardMade
  <2>3. Report("state", board, Teacher.active) /\ board.throws = <<>>
    BY <1>6 DEF BoardCleared
  <2> HIDE DEF board
  <2> QED
    BY <1>2, <1>3, <2>2, <2>3
<1>7. ASSUME NEW active \in BOOLEAN, MotionReported(active)
      PROVE  /\ \E e \in Entries : Reported(e)
             /\ UNCHANGED <<now, memory, loop, tracker, store>>
  BY <1>2, <1>3, <1>7 DEF MotionReported
<1> QED
  BY <1>4, <1>5, <1>6, <1>7 DEF BoardManager

-----------------------------------------------------------------------------
(***************************************************************************)
(* What a step does to the tracker and to the labels.                      *)
(***************************************************************************)

(* A board read for the first time, every throw a dart of its own. *)
LEMMA InitialWorld ==
    ASSUME NEW board \in Board
    PROVE  /\ initialWorld(board) \in Worlds
           /\ initialWorld(board).state = 1
           /\ DOMAIN initialWorld(board).darts = DOMAIN board.throws
           /\ \A i, j \in DOMAIN initialWorld(board).darts :
                 initialWorld(board).darts[i].id = initialWorld(board).darts[j].id => i = j
           /\ \A i \in DOMAIN initialWorld(board).darts :
                 initialWorld(board).darts[i].id \in 1..Len(board.throws)
<1> DEFINE throws == board.throws
           darts == reconcileDarts(<<>>, throws, {}, 0)
<1>1. throws \in Seq(Throw)
  BY BoardsCarryThrows
<1> HIDE DEF throws
<1>2. /\ darts \in Seq(PhysicalDart)
      /\ DOMAIN darts = DOMAIN throws
      /\ \A i, j \in DOMAIN darts : darts[i].id = darts[j].id => i = j
      /\ \A i \in DOMAIN darts : darts[i].id \in 1..Len(throws)
  BY <1>1, FirstDarts
<1>3. initialWorld(board) = [state |-> 1, darts |-> darts]
  BY DEF initialWorld, throws
<1> QED
  BY <1>2, <1>3 DEF Worlds, throws

(* A state event that changed the world, and the labels made for it. *)
Changed(after, cause, new) ==
    /\ world' = after /\ stateCounter' = stateCounter + 1
    /\ after.state = stateCounter + 1
    /\ \/ /\ pc' = "artifacts" /\ added' = new /\ new # {}
          /\ UNCHANGED captures
          /\ \A l \in new : /\ l \in LabelRecords /\ l.reason = "added"
                            /\ l.at = now /\ l.before = world /\ l.after = after
                            /\ l.cause = cause
                            /\ l.dart > dartCounter /\ l.dart <= dartCounter'
          /\ \A l, m \in new : l.dart = m.dart => l = m
       \/ /\ new = {Label("reconciled", now, world, after, 0, cause)}
          /\ scheduleCapture(new)
          /\ UNCHANGED <<pc, added>>

LEMMA Observed ==
    ASSUME TrackerTyped, now \in Nat,
           NEW throws \in Seq(Throw), NEW M \in Matchings(world.darts, throws),
           NEW cause \in Nat, observe(throws, M, cause)
    PROVE  LET darts == reconcileDarts(world.darts, throws, M, dartCounter)
               after == newState(darts)
           IN  /\ after \in Worlds /\ DOMAIN darts = DOMAIN throws
               /\ dartCounter' \in Nat /\ dartCounter' >= dartCounter
               /\ \A i, j \in DOMAIN darts : darts[i].id = darts[j].id => i = j
               /\ \A i \in DOMAIN darts : darts[i].id <= dartCounter'
               /\ \/ /\ transitionBetween(world.darts, darts).type = "unchanged"
                     /\ UNCHANGED <<world, stateCounter, pc, added, captures>>
                  \/ \E new \in SUBSET LabelRecords : Changed(after, cause, new)
<1> DEFINE list == world.darts
           darts == reconcileDarts(list, throws, M, dartCounter)
           new == Cardinality(Unmatched(throws, M))
           after == newState(darts)
           A == transitionBetween(list, darts).added
           labels == {Label("added", now, world, after, d.id, cause) : d \in A}
<1>1. /\ list \in Seq(PhysicalDart) /\ dartCounter \in Nat /\ stateCounter \in Nat
      /\ world \in Worlds
      /\ \A i, j \in DOMAIN list : list[i].id = list[j].id => i = j
      /\ \A i \in DOMAIN list : list[i].id <= dartCounter
  BY DEF TrackerTyped, Identified, Worlds
<1> HIDE DEF list, new, darts
<1>2. /\ new \in Nat
      /\ darts \in Seq(PhysicalDart)
      /\ DOMAIN darts = DOMAIN throws
      /\ \A i, j \in DOMAIN darts : darts[i].id = darts[j].id => i = j
      /\ \A i \in DOMAIN darts : darts[i].id \in Ids(list) \cup ((dartCounter + 1)..(dartCounter + new))
  BY <1>1, Reconciled DEF darts, new, list
<1>3. dartCounter' = dartCounter + new
  BY DEF observe, new
<1>4. \A i \in DOMAIN darts : darts[i].id \in Nat /\ darts[i].id <= dartCounter'
  <2> SUFFICES ASSUME NEW i \in DOMAIN darts
               PROVE  darts[i].id \in Nat /\ darts[i].id <= dartCounter'
    OBVIOUS
  <2>1. \A k \in Ids(list) : k \in Nat /\ k <= dartCounter
    <3>1. \A j \in DOMAIN list : list[j] \in PhysicalDart
      BY <1>1
    <3> QED
      BY <1>1, <3>1 DEF Ids, PhysicalDart
  <2> QED
    BY <1>1, <1>2, <1>3, <2>1
<1>5. after \in Worlds /\ after.state = stateCounter + 1 /\ after.darts = darts
  BY <1>1, <1>2 DEF newState, Worlds
<1>6. \A d \in A : d.id \in Nat /\ d.id > dartCounter /\ d.id <= dartCounter'
  <2> SUFFICES ASSUME NEW d \in A
               PROVE  d.id \in Nat /\ d.id > dartCounter /\ d.id <= dartCounter'
    OBVIOUS
  <2>1. d \in Darts(darts) /\ d.id \notin Ids(list)
    BY DEF transitionBetween
  <2>2. PICK i \in DOMAIN darts : d = darts[i]
    BY <2>1 DEF Darts
  <2>3. d.id \in (dartCounter + 1)..(dartCounter + new)
    BY <1>2, <2>1, <2>2
  <2> QED
    BY <1>1, <1>2, <1>3, <2>3
<1>7. CASE transitionBetween(list, darts).type = "unchanged"
  <2>1. UNCHANGED <<world, stateCounter, pc, added, captures>>
    BY <1>7 DEF observe, list, darts
  <2> QED
    BY <1>1, <1>2, <1>3, <1>4, <1>5, <1>7, <2>1 DEF list, darts
<1>8. CASE transitionBetween(list, darts).type # "unchanged"
  <2>1. world' = after /\ stateCounter' = after.state
    BY <1>8 DEF observe, list, darts
  <2>2. CASE A # {}
    <3>1. pc' = "artifacts" /\ added' = labels /\ UNCHANGED captures
      BY <1>8, <2>2 DEF observe, list, darts
    <3>2. \A l \in labels : /\ l \in LabelRecords /\ l.reason = "added"
                            /\ l.at = now /\ l.before = world /\ l.after = after
                            /\ l.cause = cause
                            /\ l.dart > dartCounter /\ l.dart <= dartCounter'
      BY <1>1, <1>5, <1>6 DEF Label, LabelRecords
    <3>3. \A l, m \in labels : l.dart = m.dart => l = m
      BY DEF Label
    <3>4. labels # {}
      BY <2>2
    <3> HIDE DEF labels, A, after
    <3>5. Changed(after, cause, labels)
      BY <1>5, <2>1, <3>1, <3>2, <3>3, <3>4 DEF Changed
    <3>6. labels \in SUBSET LabelRecords
      BY <3>2
    <3> QED
      BY <1>1, <1>2, <1>3, <1>4, <1>5, <3>5, <3>6 DEF list, darts, after
  <2>3. CASE A = {}
    <3> DEFINE one == {Label("reconciled", now, world, after, 0, cause)}
    <3>1. scheduleCapture(one) /\ UNCHANGED <<pc, added>>
      BY <1>8, <2>3 DEF observe, list, darts
    <3>2. one \in SUBSET LabelRecords
      BY <1>1, <1>5 DEF Label, LabelRecords
    <3> HIDE DEF after
    <3>3. Changed(after, cause, one)
      BY <1>5, <2>1, <3>1 DEF Changed
    <3> QED
      BY <1>1, <1>2, <1>3, <1>4, <1>5, <3>2, <3>3 DEF list, darts, after
  <2> QED
    BY <2>2, <2>3
<1> QED
  BY <1>7, <1>8

-----------------------------------------------------------------------------
(***************************************************************************)
(* The types, step by step.                                                *)
(***************************************************************************)

LEMMA TypesInit == Init => TypeOK
<1> SUFFICES ASSUME Init PROVE TypeOK
  OBVIOUS
<1>1. PICK board \in Board, active \in BOOLEAN :
         log = <<[at |-> 0, type |-> "state", board |-> board, active |-> active]>>
  BY DEF Init
<1>2. LogTyped
  <2> DEFINE e == [at |-> 0, type |-> "state", board |-> board, active |-> active]
  <2>1. e \in Entries
    BY DEF Entries
  <2> HIDE DEF e
  <2>2. <<e>> \in Seq(Entries) /\ Len(<<e>>) = 1
    BY <2>1
  <2>3. log = <<e>>
    BY <1>1 DEF e
  <2>4. <<0>> \in Seq(Nat) /\ Len(<<0>>) = 1
    OBVIOUS
  <2>5. now = 0 /\ taken = 1 /\ receivedAt = <<0>> /\ motionActive \in BOOLEAN
    BY DEF Init
  <2>6. log \in Seq(Entries) /\ Len(log) = 1
    BY <2>2, <2>3
  <2>7. receivedAt \in Seq(Nat) /\ Len(receivedAt) = 1
    BY <2>4, <2>5
  <2> QED
    BY <2>5, <2>6, <2>7 DEF LogTyped
<1>3. LoopTyped
  BY <1>1 DEF Init, LoopTyped
<1>4. TrackerTyped
  BY DEF Init, TrackerTyped, Identified, Worlds
<1>5. StoreTyped
  BY DEF Init, StoreTyped, Labels
<1> QED
  BY <1>2, <1>3, <1>4, <1>5 DEF TypeOK

LEMMA ManagerTyped == TypeOK /\ BoardManager => TypeOK'
<1> SUFFICES ASSUME TypeOK, BoardManager PROVE TypeOK'
  OBVIOUS
<1>1. PICK e \in Entries : Reported(e)
  BY Manager
<1>2. UNCHANGED <<now, memory, loop, tracker, store>>
  BY Manager
<1>3. log' = Append(log, e)
  BY <1>1 DEF Reported
<1>4. LogTyped'
  <2>1. log \in Seq(Entries) /\ LogTyped
    BY DEF TypeOK, LogTyped
  <2>2. log' \in Seq(Entries) /\ Len(log') = Len(log) + 1 /\ Len(log) \in Nat
    BY <1>3, <2>1
  <2> QED
    BY <1>2, <2>1, <2>2 DEF LogTyped, memory
<1>5. LoopTyped'
  BY <1>2, <1>3 DEF TypeOK, LogTyped, LoopTyped, loop
<1>6. TrackerTyped' /\ StoreTyped'
  BY <1>2 DEF TypeOK, TrackerTyped, StoreTyped, Identified, Labels, loop, tracker, store
<1> QED
  BY <1>4, <1>5, <1>6 DEF TypeOK

(* A capture that moves on keeps its label, and leaves it in the end, in   *)
(* the sample or nowhere.                                                  *)
LEMMA CaptureMoves ==
    ASSUME NEW c \in captures,
           \/ CaptureReadsBoard(c) \/ CaptureAdmitted(c) \/ CaptureChange(c)
           \/ CaptureFails(c) \/ CaptureCancelled(c)
    PROVE  /\ \/ captures' = captures \ {c}
              \/ captures' = (captures \ {c}) \cup {[c EXCEPT !.step = "checked"]}
           /\ samples' = samples \/ samples' = samples \cup {c.label}
           /\ UNCHANGED <<now, log, memory, loop, tracker>>
  BY DEF CaptureReadsBoard, CaptureAdmitted, CaptureChange, CaptureFails,
         CaptureCancelled, Written, Dropped

LEMMA CaptureStep ==
    ASSUME TypeOK, Capture
    PROVE  /\ captures' \subseteq CaptureRecords /\ samples' \subseteq LabelRecords
           /\ Labels' \subseteq Labels
           /\ phase # "waiting"
           /\ UNCHANGED <<now, log, memory, loop, tracker>>
<1>1. PICK c \in captures : \/ CaptureReadsBoard(c) \/ CaptureAdmitted(c) \/ CaptureChange(c)
                            \/ CaptureFails(c) \/ CaptureCancelled(c)
  BY DEF Capture
<1> DEFINE d == [c EXCEPT !.step = "checked"]
<1>2. captures \subseteq CaptureRecords /\ samples \subseteq LabelRecords
  BY DEF TypeOK, StoreTyped
<1>3. c \in CaptureRecords
  BY <1>2
<1>4. d \in CaptureRecords /\ d.label = c.label /\ c.label \in LabelRecords
  BY <1>3 DEF CaptureRecords
<1> HIDE DEF d
<1>5. captures' \subseteq captures \cup {d} /\ samples' \subseteq samples \cup {c.label}
  BY <1>1, CaptureMoves DEF d
<1>6. UNCHANGED <<now, log, memory, loop, tracker>>
  BY <1>1, CaptureMoves
<1>7. added' = added
  BY <1>6 DEF loop
<1>8. Labels' \subseteq Labels
  BY <1>4, <1>5, <1>7 DEF Labels
<1>9. c.label \in Labels
  BY DEF Labels
<1> QED
  BY <1>2, <1>4, <1>5, <1>6, <1>8, <1>9 DEF TypeOK, StoreTyped

LEMMA CaptureTyped == TypeOK /\ Capture => TypeOK'
<1> SUFFICES ASSUME TypeOK, Capture PROVE TypeOK'
  OBVIOUS
<1>1. /\ captures' \subseteq CaptureRecords /\ samples' \subseteq LabelRecords
      /\ phase # "waiting"
      /\ UNCHANGED <<now, log, memory, loop, tracker>>
  BY CaptureStep
<1>2. LogTyped' /\ LoopTyped' /\ TrackerTyped'
  BY <1>1 DEF TypeOK, LogTyped, LoopTyped, TrackerTyped, Identified, memory, loop, tracker
<1>3. StoreTyped'
  BY <1>1 DEF TypeOK, StoreTyped, loop
<1> QED
  BY <1>2, <1>3 DEF TypeOK

(* Waiting for a stable board: what the loop does until it starts. *)
Waits ==
    /\ phase = "waiting" /\ pc' \in {"get", "select"}
    /\ \/ candidate' = None
       \/ candidate' = candidate
       \/ /\ candidate' = [board |-> Teacher.board, since |-> now]
          /\ stableBoardState(Teacher.board)
    /\ UNCHANGED <<now, log, phase, reference, startedAt, startedWith, added, tracker, store>>
    /\ \/ UNCHANGED memory
       \/ Pending /\ pc = "select" /\ rememberEvent(log[taken + 1])

Starts ==
    /\ phase = "waiting"
    /\ candidate # None /\ candidate.board = Teacher.board
    /\ HeldStill
    /\ StartRunning(Teacher.board)
    /\ UNCHANGED <<now, log, memory>>

LEMMA Waiting ==
    ASSUME AwaitGet \/ AwaitGetFails \/ AwaitEvent \/ AwaitTimer
    PROVE  Waits \/ Starts
<1>1. CASE AwaitGet
  <2>1. phase = "waiting" /\ UNCHANGED <<now, log, memory>>
    BY <1>1 DEF AwaitGet
  <2>2. ASSUME NEW next \in {None, candidate, [board |-> Teacher.board, since |-> now]},
               Keep(next),
               next = [board |-> Teacher.board, since |-> now] => stableBoardState(Teacher.board)
        PROVE  Waits
    BY <2>1, <2>2 DEF Waits, Keep, tracker, store
  <2>3. CASE ~stableBoardState(Teacher.board) \/ motionActive
    <3>1. Keep(None)
      BY <1>1, <2>3 DEF AwaitGet
    <3>2. None # [board |-> Teacher.board, since |-> now]
      BY DEF None
    <3> QED
      BY <2>2, <3>1, <3>2
  <2>4. CASE /\ stableBoardState(Teacher.board) /\ ~motionActive
             /\ candidate = None \/ candidate.board # Teacher.board
    <3>1. Keep([board |-> Teacher.board, since |-> now])
      BY <1>1, <2>4 DEF AwaitGet
    <3> QED
      BY <2>2, <2>4, <3>1
  <2>5. CASE /\ stableBoardState(Teacher.board) /\ ~motionActive
             /\ candidate # None /\ candidate.board = Teacher.board
    <3>1. CASE HeldStill
      BY <1>1, <2>1, <2>5, <3>1 DEF AwaitGet, Starts
    <3>2. CASE ~HeldStill
      <4>1. Keep(candidate)
        BY <1>1, <2>5, <3>2 DEF AwaitGet
      <4> QED
        BY <2>2, <2>5, <4>1
    <3> QED
      BY <3>1, <3>2
  <2> QED
    BY <2>3, <2>4, <2>5
<1>2. CASE AwaitGetFails
  BY <1>2 DEF AwaitGetFails, Waits, Keep, tracker, store
<1>3. CASE AwaitEvent
  BY <1>3 DEF AwaitEvent, Waits, tracker, store
<1>4. CASE AwaitTimer
  BY <1>4 DEF AwaitTimer, Waits, tracker, store
<1> QED
  BY <1>1, <1>2, <1>3, <1>4

LEMMA LogKept == ASSUME LogTyped, UNCHANGED <<now, log, memory>> PROVE LogTyped'
  BY DEF LogTyped, memory

LEMMA Remembers ==
    ASSUME LogTyped, Pending, rememberEvent(log[taken + 1]), UNCHANGED <<now, log>>
    PROVE  LogTyped' /\ taken' = taken + 1 /\ taken + 1 \in DOMAIN log
<1>1. /\ taken \in Nat /\ taken + 1 \in 1..Len(log) /\ DOMAIN log = 1..Len(log)
      /\ log[taken + 1] \in Entries
  BY DEF LogTyped, Pending
<1>2. /\ taken' = taken + 1 /\ receivedAt' = Append(receivedAt, now)
      /\ \/ motionActive' = log[taken + 1].active
         \/ motionActive' = motionActive
  BY DEF rememberEvent
<1>3. motionActive' \in BOOLEAN
  BY <1>1, <1>2 DEF LogTyped, Entries
<1>4. receivedAt' \in Seq(Nat) /\ Len(receivedAt') = taken + 1
  BY <1>2 DEF LogTyped
<1> QED
  BY <1>1, <1>2, <1>3, <1>4 DEF LogTyped

LEMMA WaitsTyped == TypeOK /\ Waits => TypeOK'
<1> SUFFICES ASSUME TypeOK, Waits PROVE TypeOK'
  OBVIOUS
<1>1. LogTyped'
  BY LogKept, Remembers DEF Waits, TypeOK
<1>2. Teacher.board \in Board /\ now \in Nat
  BY TeacherTyped DEF TypeOK, LogTyped
<1>3. candidate' = None \/ candidate' \in [board : Board, since : Nat]
  BY <1>2 DEF Waits, TypeOK, LoopTyped
<1>4. LoopTyped'
  BY <1>3 DEF Waits, TypeOK, LoopTyped
<1>5. TrackerTyped' /\ StoreTyped'
  BY DEF Waits, TypeOK, TrackerTyped, Identified, StoreTyped, Labels, tracker, store
<1> QED
  BY <1>1, <1>4, <1>5 DEF TypeOK

(* The label of a capture just scheduled. *)
LEMMA Scheduled ==
    ASSUME StoreTyped, now \in Nat, NEW new \in SUBSET LabelRecords, scheduleCapture(new)
    PROVE  /\ captures' \subseteq CaptureRecords
           /\ {c.label : c \in captures'} = {c.label : c \in captures} \cup new
<1> DEFINE fresh == {[label |-> l, due |-> now + LatestOffset, step |-> "timer"] : l \in new}
<1>1. captures' = captures \cup fresh
  BY DEF scheduleCapture
<1>2. fresh \subseteq CaptureRecords
  BY Sizes DEF CaptureRecords
<1>3. {c.label : c \in fresh} = new
  <2>1. ASSUME NEW l \in new PROVE \E c \in fresh : c.label = l
    <3> DEFINE d == [label |-> l, due |-> now + LatestOffset, step |-> "timer"]
    <3>1. d \in fresh /\ d.label = l
      OBVIOUS
    <3> QED
      BY <3>1
  <2>2. \A c \in fresh : c.label \in new
    OBVIOUS
  <2> HIDE DEF fresh
  <2> QED
    BY <2>1, <2>2
<1> QED
  BY <1>1, <1>2, <1>3 DEF StoreTyped

LEMMA StartsTyped ==
    ASSUME TypeOK, Starts
    PROVE  /\ TypeOK'
           /\ Labels' = {Label("startup", now, None, initialWorld(Teacher.board), 0, 0)}
<1> DEFINE board == Teacher.board
           first == initialWorld(board)
           new == {Label("startup", now, None, first, 0, 0)}
<1>1. board \in Board /\ now \in Nat /\ Len(board.throws) \in Nat
  BY TeacherTyped, BoardsCarryThrows, Sizes DEF TypeOK, LogTyped
<1>2. /\ first \in Worlds
      /\ \A i, j \in DOMAIN first.darts : first.darts[i].id = first.darts[j].id => i = j
      /\ \A i \in DOMAIN first.darts : first.darts[i].id \in 1..Len(board.throws)
  BY <1>1, InitialWorld
<1> HIDE DEF first
<1>3. new \in SUBSET LabelRecords
  BY <1>1, <1>2 DEF Label, LabelRecords
<1>4. scheduleCapture(new) /\ UNCHANGED <<added, samples>>
  BY DEF Starts, StartRunning, first
<1> HIDE DEF new, board
<1>5. captures = {} /\ added = {} /\ samples = {}
  BY DEF Starts, TypeOK, StoreTyped, Labels
<1>6. /\ captures' \subseteq CaptureRecords
      /\ {c.label : c \in captures'} = new
  BY <1>1, <1>3, <1>4, <1>5, Scheduled DEF TypeOK
<1>7. /\ phase' = "running" /\ pc' = "select" /\ candidate' = None
      /\ startedAt' = now /\ startedWith' = Len(log) /\ world' = first
      /\ stateCounter' = 1 /\ dartCounter' = Len(board.throws) /\ reference' = reference
      /\ UNCHANGED <<now, log, memory>>
  BY DEF Starts, StartRunning, first, board
<1>8. Labels' = new
  BY <1>4, <1>5, <1>6 DEF Labels
<1>9. StoreTyped'
  BY <1>3, <1>4, <1>5, <1>6, <1>7 DEF StoreTyped
<1>10. TrackerTyped'
  BY <1>1, <1>2, <1>7 DEF TrackerTyped, Identified
<1>11. LogTyped'
  BY <1>7, LogKept DEF TypeOK
<1>12. Len(log) \in Nat
  BY TeacherTyped DEF TypeOK
<1>13. LoopTyped'
  BY <1>1, <1>7, <1>12 DEF LoopTyped, TypeOK
<1> QED
  BY <1>8, <1>9, <1>10, <1>11, <1>13 DEF TypeOK, new, first, board

(* One state event: the world stays, or a new one is made with new labels. *)
LEMMA StateTaken ==
    ASSUME TypeOK, TakeState
    PROVE  /\ TypeOK'
           /\ dartCounter' >= dartCounter
           /\ \/ /\ UNCHANGED <<world, stateCounter, pc, added, captures>>
                 /\ Labels' \subseteq Labels
              \/ \E after \in Worlds : \E new \in SUBSET LabelRecords :
                    /\ Changed(after, taken + 1, new)
                    /\ Labels' \subseteq Labels \cup new
<1> DEFINE throws == log[taken + 1].board.throws
           cause == taken + 1
<1>1. /\ LogTyped /\ TrackerTyped /\ StoreTyped /\ LoopTyped
      /\ now \in Nat /\ cause \in Nat /\ cause \in DOMAIN log
  BY DEF TypeOK, TakeState, LogTyped, Pending
<1>2. throws \in Seq(Throw)
  BY <1>1, TeacherTyped, BoardsCarryThrows
<1>3. PICK M \in Matchings(world.darts, throws) : observe(throws, M, cause)
  BY DEF TakeState
<1> DEFINE darts == reconcileDarts(world.darts, throws, M, dartCounter)
           after == newState(darts)
<1>4. phase = "running" /\ UNCHANGED <<now, log, phase, candidate, reference, startedAt, startedWith, samples>>
  BY DEF TakeState
<1>5. LogTyped'
  BY <1>1, Remembers DEF TakeState
<1> HIDE DEF throws, cause
<1>6. /\ after \in Worlds /\ DOMAIN darts = DOMAIN throws
      /\ dartCounter' \in Nat /\ dartCounter' >= dartCounter
      /\ \A i, j \in DOMAIN darts : darts[i].id = darts[j].id => i = j
      /\ \A i \in DOMAIN darts : darts[i].id <= dartCounter'
      /\ \/ UNCHANGED <<world, stateCounter, pc, added, captures>>
         \/ \E new \in SUBSET LabelRecords : Changed(after, cause, new)
  BY <1>1, <1>2, <1>3, Observed
<1>7. after.darts = darts
  BY DEF newState
<1> HIDE DEF after, darts
<1>8. CASE UNCHANGED <<world, stateCounter, pc, added, captures>>
  <2>1. StoreTyped' /\ Labels' = Labels
    BY <1>1, <1>4, <1>8 DEF StoreTyped, Labels
  <2>2. LoopTyped'
    BY <1>1, <1>4, <1>8 DEF LoopTyped
  <2>3. TrackerTyped'
    <3>1. \A i \in DOMAIN world.darts : world.darts[i].id \in Nat
      <4>1. world.darts \in Seq(PhysicalDart)
        BY <1>1 DEF TrackerTyped, Worlds
      <4>2. \A i \in DOMAIN world.darts : world.darts[i] \in PhysicalDart
        BY <4>1
      <4> QED
        BY <4>2 DEF PhysicalDart
    <3>2. dartCounter \in Nat /\ world' = world /\ stateCounter' = stateCounter
      BY <1>1, <1>8 DEF TrackerTyped
    <3> QED
      BY <1>1, <1>6, <3>1, <3>2 DEF TrackerTyped, Identified
  <2> QED
    BY <1>5, <1>6, <1>8, <2>1, <2>2, <2>3 DEF TypeOK
<1>9. CASE \E new \in SUBSET LabelRecords : Changed(after, cause, new)
  <2>1. PICK new \in SUBSET LabelRecords : Changed(after, cause, new)
    BY <1>9
  <2>2. world' = after /\ stateCounter' = stateCounter + 1
    BY <2>1 DEF Changed
  <2>3. TrackerTyped'
    BY <1>1, <1>6, <1>7, <2>2 DEF TrackerTyped, Identified
  <2>4. /\ captures' \subseteq CaptureRecords /\ added' \subseteq LabelRecords
        /\ Labels' \subseteq Labels \cup new
        /\ pc' \in {pc, "artifacts"}
    <3>1. CASE added' = new /\ pc' = "artifacts" /\ UNCHANGED captures
      BY <1>1, <1>4, <3>1 DEF StoreTyped, Labels
    <3>2. CASE scheduleCapture(new) /\ UNCHANGED <<pc, added>>
      <4>1. /\ captures' \subseteq CaptureRecords
            /\ {c.label : c \in captures'} = {c.label : c \in captures} \cup new
        BY <1>1, <3>2, Scheduled
      <4> QED
        BY <1>1, <1>4, <3>2, <4>1 DEF StoreTyped, Labels
    <3> QED
      BY <2>1, <3>1, <3>2 DEF Changed
  <2>5. StoreTyped'
    BY <1>1, <1>4, <2>4 DEF StoreTyped
  <2>6. LoopTyped'
    BY <1>1, <1>4, <2>4 DEF LoopTyped
  <2> QED
    BY <1>5, <1>6, <2>1, <2>3, <2>4, <2>5, <2>6 DEF TypeOK, cause
<1> QED
  BY <1>6, <1>8, <1>9

LEMMA MotionTyped == TypeOK /\ TakeMotion => TypeOK'
<1> SUFFICES ASSUME TypeOK, TakeMotion PROVE TypeOK'
  OBVIOUS
<1>1. LogTyped'
  BY Remembers DEF TakeMotion, TypeOK
<1>2. LoopTyped' /\ TrackerTyped' /\ StoreTyped'
  BY DEF TakeMotion, TypeOK, LoopTyped, TrackerTyped, Identified, StoreTyped, Labels, loop, tracker, store
<1> QED
  BY <1>1, <1>2 DEF TypeOK

LEMMA ArtifactsTaken ==
    ASSUME TypeOK, ArtifactsFetched
    PROVE  TypeOK' /\ Labels' \subseteq Labels
<1>1. /\ scheduleCapture(added) /\ added' = {} /\ phase = "running" /\ pc' = "select"
      /\ UNCHANGED <<now, log, memory, phase, candidate, reference, startedAt, startedWith, tracker, samples>>
  BY DEF ArtifactsFetched
<1>2. StoreTyped /\ LoopTyped /\ LogTyped /\ TrackerTyped /\ now \in Nat
  BY DEF TypeOK, LogTyped
<1>3. added \in SUBSET LabelRecords
  BY <1>2 DEF StoreTyped
<1>4. /\ captures' \subseteq CaptureRecords
      /\ {c.label : c \in captures'} = {c.label : c \in captures} \cup added
  BY <1>1, <1>2, <1>3, Scheduled
<1>5. Labels' \subseteq Labels
  BY <1>1, <1>4 DEF Labels
<1>6. LogTyped'
  BY <1>1, <1>2, LogKept
<1>7. LoopTyped' /\ TrackerTyped' /\ StoreTyped'
  BY <1>1, <1>2, <1>4 DEF LoopTyped, TrackerTyped, Identified, StoreTyped, tracker
<1> QED
  BY <1>5, <1>6, <1>7 DEF TypeOK

LEMMA ReferenceTaken ==
    ASSUME TypeOK, TakeReference \/ ReferenceFails
    PROVE  /\ TypeOK'
           /\ Labels' \subseteq Labels \cup {Label("periodic", reference.at, None, world, 0, 0)}
<1> DEFINE new == {Label("periodic", reference.at, None, world, 0, 0)}
<1>1. /\ phase = "running" /\ reference # None /\ reference' = None
      /\ scheduleCapture(new) \/ UNCHANGED captures
      /\ UNCHANGED <<now, log, memory, phase, pc, candidate, startedAt, startedWith, added, tracker, samples>>
  BY DEF TakeReference, ReferenceFails, store
<1>2. StoreTyped /\ LoopTyped /\ LogTyped /\ TrackerTyped /\ now \in Nat
  BY DEF TypeOK, LogTyped
<1>3. new \in SUBSET LabelRecords
  BY <1>1, <1>2 DEF Label, LabelRecords, LoopTyped, TrackerTyped
<1> HIDE DEF new
<1>4. /\ captures' \subseteq CaptureRecords
      /\ {c.label : c \in captures'} \subseteq {c.label : c \in captures} \cup new
  <2>1. CASE scheduleCapture(new)
    BY <1>2, <1>3, <2>1, Scheduled
  <2>2. CASE UNCHANGED captures
    BY <1>2, <2>2 DEF StoreTyped
  <2> QED
    BY <1>1, <2>1, <2>2
<1>5. Labels' \subseteq Labels \cup new
  BY <1>1, <1>4 DEF Labels
<1>6. LogTyped'
  BY <1>1, <1>2, LogKept
<1>7. LoopTyped' /\ TrackerTyped' /\ StoreTyped'
  BY <1>1, <1>2, <1>4 DEF LoopTyped, TrackerTyped, Identified, StoreTyped, tracker
<1> QED
  BY <1>5, <1>6, <1>7 DEF TypeOK, new

LEMMA StopTyped ==
    ASSUME TypeOK, NEW how \in {"failed", "cancelled"}, Stop(how)
    PROVE  TypeOK'
<1>1. LogTyped'
  BY LogKept DEF TypeOK, Stop
<1>2. LoopTyped' /\ TrackerTyped' /\ StoreTyped'
  BY DEF Stop, TypeOK, LoopTyped, TrackerTyped, Identified, StoreTyped, Labels, tracker, store
<1> QED
  BY <1>1, <1>2 DEF TypeOK

LEMMA TickTyped == TypeOK /\ Tick => TypeOK'
<1> SUFFICES ASSUME TypeOK, Tick PROVE TypeOK'
  OBVIOUS
<1>1. /\ now \in Nat /\ now' = now + 1
      /\ reference' = reference \/ reference' = [at |-> now + 1]
      /\ UNCHANGED <<log, memory, phase, pc, candidate, startedAt, startedWith, added, tracker, store>>
  BY DEF Tick, TypeOK, LogTyped
<1>2. LogTyped'
  BY <1>1 DEF TypeOK, LogTyped, memory
<1>3. LoopTyped'
  BY <1>1 DEF TypeOK, LoopTyped
<1>4. TrackerTyped' /\ StoreTyped'
  BY <1>1 DEF TypeOK, TrackerTyped, Identified, StoreTyped, Labels, tracker, store
<1> QED
  BY <1>2, <1>3, <1>4 DEF TypeOK

(* The steps of a running recorder, as the proofs below take them apart. *)
Steps ==
    \/ BoardManager \/ Capture \/ Waits \/ Starts
    \/ TakeState \/ TakeMotion \/ ArtifactsFetched
    \/ TakeReference \/ ReferenceFails
    \/ \E how \in {"failed", "cancelled"} : Stop(how)
    \/ Tick

LEMMA NextIsStep == Next => Steps
  BY Waiting DEF Next, Loop, Steps

LEMMA TypesStep == TypeOK /\ [Next]_vars => TypeOK'
<1> SUFFICES ASSUME TypeOK, Steps \/ UNCHANGED vars PROVE TypeOK'
  BY NextIsStep
<1>1. CASE UNCHANGED vars
  BY <1>1 DEF vars, memory, loop, tracker, store, TypeOK, LogTyped, LoopTyped,
              TrackerTyped, Identified, StoreTyped, Labels
<1>2. CASE Steps
  BY <1>2, ManagerTyped, CaptureTyped, WaitsTyped, StartsTyped, StateTaken, MotionTyped,
     ArtifactsTaken, ReferenceTaken, StopTyped, TickTyped DEF Steps
<1> QED
  BY <1>1, <1>2

(* Types, the distinctness of the darts of a world, and that nothing is    *)
(* captured before the loop has started.                                   *)
THEOREM TypeCorrect == Spec => []TypeOK
  BY TypesInit, TypesStep, PTL DEF Spec

-----------------------------------------------------------------------------
(***************************************************************************)
(* The tracker inside the recorder and the registry of identities.         *)
(***************************************************************************)

(* Every number issued and no longer on the board is retired. *)
Registry == INSTANCE DartIdentity WITH
                present <- Ids(world.darts),
                retired <- (1..dartCounter) \ Ids(world.darts)

(* Numbers move one way: new ones follow the last, and all are in use. *)
Issues ==
    /\ dartCounter' \in Nat /\ dartCounter' >= dartCounter
    /\ Ids(world'.darts) \subseteq Ids(world.darts) \cup ((dartCounter + 1)..dartCounter')
    /\ (dartCounter + 1)..dartCounter' \subseteq Ids(world'.darts)

LEMMA IssuedIds == TypeOK => dartCounter \in Nat /\ Ids(world.darts) \subseteq 1..dartCounter
<1> SUFFICES ASSUME TypeOK
             PROVE  dartCounter \in Nat /\ Ids(world.darts) \subseteq 1..dartCounter
  OBVIOUS
<1>1. /\ world.darts \in Seq(PhysicalDart) /\ dartCounter \in Nat
      /\ \A i \in DOMAIN world.darts : world.darts[i].id <= dartCounter
  BY DEF TypeOK, TrackerTyped, Identified, Worlds
<1>2. \A i \in DOMAIN world.darts : world.darts[i] \in PhysicalDart
  BY <1>1
<1> QED
  BY <1>1, <1>2 DEF Ids, PhysicalDart

(* Nothing was issued before the start, which numbers the darts it finds. *)
LEMMA StartIssues == ASSUME TypeOK, Starts PROVE Issues
<1> DEFINE throws == Teacher.board.throws
           darts == reconcileDarts(<<>>, throws, {}, 0)
<1>1. throws \in Seq(Throw) /\ Len(throws) \in Nat
  BY TeacherTyped, BoardsCarryThrows, Sizes DEF TypeOK
<1>2. /\ dartCounter = 0 /\ dartCounter' = Len(throws)
      /\ world' = [state |-> 1, darts |-> darts]
  BY DEF TypeOK, StoreTyped, Starts, StartRunning, initialWorld
<1> HIDE DEF throws
<1>3. /\ \A i \in DOMAIN darts : darts[i].id \in 1..Len(throws)
      /\ \A k \in 1..Len(throws) : k \in Ids(darts)
  BY <1>1, FirstDarts
<1>4. world'.darts = darts
  BY <1>2
<1> HIDE DEF darts
<1>5. Ids(world'.darts) \subseteq 1..Len(throws) /\ 1..Len(throws) \subseteq Ids(world'.darts)
  BY <1>3, <1>4 DEF Ids
<1> QED
  BY <1>1, <1>2, <1>5 DEF Issues

LEMMA StateIssues == ASSUME TypeOK, TakeState PROVE Issues
<1> DEFINE throws == log[taken + 1].board.throws
<1>1. throws \in Seq(Throw)
  BY TeacherTyped, BoardsCarryThrows DEF TypeOK, TakeState, Pending, LogTyped
<1>2. PICK M \in Matchings(world.darts, throws) : observe(throws, M, taken + 1)
  BY DEF TakeState
<1> HIDE DEF throws
<1> DEFINE list == world.darts
           darts == reconcileDarts(list, throws, M, dartCounter)
           new == Cardinality(Unmatched(throws, M))
<1>3. /\ list \in Seq(PhysicalDart) /\ dartCounter \in Nat
      /\ \A i, j \in DOMAIN list : list[i].id = list[j].id => i = j
      /\ \A i \in DOMAIN list : list[i].id <= dartCounter
  BY DEF TypeOK, TrackerTyped, Identified, Worlds
<1>4. dartCounter' = dartCounter + new
  BY <1>2 DEF observe
<1>5. \/ transitionBetween(list, darts).type = "unchanged" /\ world' = world
      \/ world'.darts = darts
  BY <1>2 DEF observe, newState
<1>6. ASSUME transitionBetween(list, darts).type = "unchanged" PROVE new = 0
  <2>1. /\ M \in Matchings(list, throws)
        /\ darts = reconcileDarts(list, throws, M, dartCounter)
        /\ new = Cardinality(Unmatched(throws, M))
    BY <1>2
  <2> HIDE DEF list, darts, new
  <2> QED
    BY <1>1, <1>3, <1>6, <2>1, UnchangedIssuesNone
<1>7. /\ new \in Nat
      /\ \A i \in DOMAIN darts : darts[i].id \in Ids(list) \cup ((dartCounter + 1)..(dartCounter + new))
      /\ \A k \in (dartCounter + 1)..(dartCounter + new) : k \in Ids(darts)
  <2> HIDE DEF list, darts, new
  <2> QED
    BY <1>1, <1>2, <1>3, Reconciled, SMTT(30) DEF list, darts, new
<1> HIDE DEF darts, new
<1>8. CASE transitionBetween(list, darts).type = "unchanged" /\ world' = world
  BY <1>3, <1>4, <1>6, <1>8 DEF Issues
<1>9. CASE world'.darts = darts
  <2>1. Ids(world'.darts) \subseteq Ids(list) \cup ((dartCounter + 1)..(dartCounter + new))
    BY <1>7, <1>9 DEF Ids
  <2> QED
    BY <1>3, <1>4, <1>7, <1>9, <2>1 DEF Issues
<1> QED
  BY <1>5, <1>8, <1>9

LEMMA RegistryStep ==
    ASSUME TypeOK, TypeOK', [Next]_vars
    PROVE  [Registry!Next]_<<Ids(world.darts), (1..dartCounter) \ Ids(world.darts)>>
<1>1. Issues \/ UNCHANGED tracker
  <2>1. CASE Steps
    <3>1. CASE BoardManager \/ Capture \/ Waits
      BY <3>1, Manager, CaptureStep DEF Waits
    <3>2. CASE Starts
      BY <3>2, StartIssues
    <3>3. CASE TakeState
      BY <3>3, StateIssues
    <3>4. CASE TakeMotion \/ ArtifactsFetched \/ TakeReference \/ ReferenceFails \/ Tick
      BY <3>4 DEF TakeMotion, ArtifactsFetched, TakeReference, ReferenceFails, Tick
    <3>5. CASE \E how \in {"failed", "cancelled"} : Stop(how)
      BY <3>5 DEF Stop
    <3> QED
      BY <2>1, <3>1, <3>2, <3>3, <3>4, <3>5 DEF Steps
  <2>2. CASE UNCHANGED vars
    BY <2>2 DEF vars
  <2> QED
    BY <2>1, <2>2, NextIsStep
<1>2. CASE UNCHANGED tracker
  BY <1>2 DEF tracker
<1>3. CASE Issues
  <2> DEFINE before == Ids(world.darts)
             after == Ids(world'.darts)
  <2>1. /\ dartCounter \in Nat /\ dartCounter' \in Nat /\ dartCounter' >= dartCounter
        /\ before \subseteq 1..dartCounter
        /\ after \subseteq before \cup ((dartCounter + 1)..dartCounter')
        /\ (dartCounter + 1)..dartCounter' \subseteq after
    BY <1>3, IssuedIds DEF Issues
  <2>2. /\ 1..dartCounter' = (1..dartCounter) \cup ((dartCounter + 1)..dartCounter')
        /\ (1..dartCounter) \cap ((dartCounter + 1)..dartCounter') = {}
    BY <2>1
  <2>3. after \ before \subseteq Nat \ {0}
    BY <2>1
  <2>4. (after \ before) \cap (before \cup ((1..dartCounter) \ before)) = {}
    BY <2>1, <2>2
  <2>5. (1..dartCounter') \ after = ((1..dartCounter) \ before) \cup (before \ after)
    BY <2>1, <2>2
  <2> QED
    BY <2>3, <2>4, <2>5 DEF Registry!Next, Registry!Change, Registry!Identity
<1> QED
  BY <1>1, <1>2, <1>3

(* The recorder keeps the promise of DartIdentity from before its start:   *)
(* the darts found on the board, those that land while it waits for the    *)
(* teacher's evidence and those of any later event share one sequence of   *)
(* identities, and none of a dart that has left is issued again.           *)
THEOREM ImplementsRegistry == Spec => Registry!Spec
<1>1. Init => Registry!Init
  <2> SUFFICES ASSUME Init PROVE Registry!Init
    OBVIOUS
  <2>1. Ids(world.darts) = {} /\ (1..dartCounter) = {}
    BY DEF Init, Ids
  <2> QED
    BY <2>1 DEF Registry!Init, Registry!Identity
<1>2. QED
  BY <1>1, RegistryStep, TypeCorrect, PTL DEF Spec, Registry!Spec

-----------------------------------------------------------------------------
(***************************************************************************)
(* Identities of worlds and of darts in the labels.                        *)
(***************************************************************************)

(* Where labels come from: a step makes none, the first one, an            *)
(* observation of the world as it is, or those of one change of it.        *)
LEMMA LabelsStep ==
    ASSUME TypeOK, [Next]_vars
    PROVE  /\ dartCounter' >= dartCounter
           /\ \/ /\ Labels' \subseteq Labels
                 /\ UNCHANGED <<world, stateCounter>>
              \/ /\ Starts
                 /\ Labels' = {Label("startup", now, None, initialWorld(Teacher.board), 0, 0)}
              \/ /\ Labels' \subseteq Labels \cup {Label("periodic", reference.at, None, world, 0, 0)}
                 /\ UNCHANGED tracker
              \/ /\ TakeState
                 /\ \E after \in Worlds : \E new \in SUBSET LabelRecords :
                       /\ Changed(after, taken + 1, new)
                       /\ Labels' \subseteq Labels \cup new
<1> DEFINE Still == Labels' \subseteq Labels /\ UNCHANGED tracker
<1>1. Still => /\ dartCounter' >= dartCounter
               /\ Labels' \subseteq Labels
               /\ UNCHANGED <<world, stateCounter>>
  BY DEF TypeOK, TrackerTyped, tracker
<1>2. CASE UNCHANGED vars
  BY <1>1, <1>2 DEF vars, loop, store, Labels
<1>3. CASE BoardManager
  <2>1. UNCHANGED <<loop, tracker, store>>
    BY <1>3, Manager
  <2> QED
    BY <1>1, <2>1 DEF loop, store, Labels
<1>4. CASE Capture
  BY <1>1, <1>4, CaptureStep
<1>5. CASE Waits \/ TakeMotion \/ \E how \in {"failed", "cancelled"} : Stop(how)
  BY <1>1, <1>5 DEF Waits, TakeMotion, Stop, loop, store, Labels
<1>6. CASE Tick
  BY <1>1, <1>6 DEF Tick, store, Labels
<1>7. CASE Starts
  <2>1. dartCounter = 0 /\ dartCounter' = Len(Teacher.board.throws)
    BY <1>7 DEF Starts, StartRunning, TypeOK, StoreTyped
  <2>2. Len(Teacher.board.throws) \in Nat
    BY TeacherTyped, BoardsCarryThrows, Sizes DEF TypeOK
  <2> QED
    BY <1>7, <2>1, <2>2, StartsTyped
<1>8. CASE TakeState
  BY <1>8, StateTaken
<1>9. CASE ArtifactsFetched
  BY <1>1, <1>9, ArtifactsTaken DEF ArtifactsFetched
<1>10. CASE TakeReference \/ ReferenceFails
  <2>1. UNCHANGED tracker
    BY <1>10 DEF TakeReference, ReferenceFails
  <2> QED
    BY <1>10, <2>1, ReferenceTaken DEF TypeOK, TrackerTyped, tracker
<1> QED
  BY <1>2, <1>3, <1>4, <1>5, <1>6, <1>7, <1>8, <1>9, <1>10, NextIsStep DEF Steps

Mentioned == ({world} \cup {l.after : l \in Labels} \cup {l.before : l \in Labels}) \ {None}

(* Worlds are numbered as they are made. *)
NumberedWorlds ==
    /\ \A v \in Mentioned : v.state <= stateCounter
    /\ \A v, w \in Mentioned : v.state = w.state => v = w

LEMMA MentionedTyped == TypeOK => Mentioned \subseteq Worlds /\ world \in Mentioned
<1> SUFFICES ASSUME TypeOK PROVE Mentioned \subseteq Worlds /\ world \in Mentioned
  OBVIOUS
<1>1. world \in Worlds /\ Labels \subseteq LabelRecords
  BY DEF TypeOK, TrackerTyped, StoreTyped, Labels, CaptureRecords
<1>2. \A l \in LabelRecords : l.after \in Worlds /\ l.before \in Worlds \cup {None}
  BY DEF LabelRecords
<1>3. world # None
  BY <1>1 DEF Worlds, None
<1> QED
  BY <1>1, <1>2, <1>3 DEF Mentioned

LEMMA NumberedStep == TypeOK /\ NumberedWorlds /\ [Next]_vars => NumberedWorlds'
<1> SUFFICES ASSUME TypeOK, NumberedWorlds, [Next]_vars PROVE NumberedWorlds'
  OBVIOUS
<1>1. /\ Mentioned \subseteq Worlds /\ world \in Mentioned /\ stateCounter \in Nat
      /\ \A v \in Worlds : v.state \in Nat
  BY MentionedTyped DEF TypeOK, TrackerTyped, Worlds
<1>2. CASE /\ Labels' \subseteq Labels
           /\ UNCHANGED <<world, stateCounter>>
  <2>1. Mentioned' \subseteq Mentioned
    BY <1>2 DEF Mentioned
  <2> QED
    BY <1>2, <2>1 DEF NumberedWorlds
<1>3. CASE /\ Labels' \subseteq Labels \cup {Label("periodic", reference.at, None, world, 0, 0)}
           /\ UNCHANGED tracker
  <2> DEFINE new == Label("periodic", reference.at, None, world, 0, 0)
  <2>1. new.after = world /\ new.before = None
    BY DEF Label
  <2> HIDE DEF new
  <2>2. Labels' \subseteq Labels \cup {new} /\ world' = world
    BY <1>3 DEF new, tracker
  <2>3. Mentioned' \subseteq Mentioned
    BY <2>1, <2>2 DEF Mentioned
  <2> QED
    BY <1>3, <2>3 DEF NumberedWorlds, tracker
<1>4. CASE /\ Starts
           /\ Labels' = {Label("startup", now, None, initialWorld(Teacher.board), 0, 0)}
  <2> DEFINE first == initialWorld(Teacher.board)
             new == Label("startup", now, None, first, 0, 0)
  <2>1. new.after = first /\ new.before = None /\ first.state = 1
    BY DEF Label, initialWorld
  <2>2. world' = first /\ stateCounter' = 1
    BY <1>4 DEF Starts, StartRunning
  <2> HIDE DEF new, first
  <2>3. Mentioned' \subseteq {first}
    BY <1>4, <2>1, <2>2 DEF Mentioned, new, first
  <2> QED
    BY <2>1, <2>2, <2>3 DEF NumberedWorlds
<1>5. CASE \E after \in Worlds : \E new \in SUBSET LabelRecords :
              /\ Changed(after, taken + 1, new)
              /\ Labels' \subseteq Labels \cup new
  <2>1. PICK after \in Worlds, new \in SUBSET LabelRecords :
           /\ Changed(after, taken + 1, new)
           /\ Labels' \subseteq Labels \cup new
    BY <1>5
  <2>2. /\ world' = after /\ stateCounter' = stateCounter + 1
        /\ after.state = stateCounter + 1
    BY <2>1 DEF Changed
  <2>3. \A l \in new : l.after = after /\ l.before = world
    BY <2>1 DEF Changed, Label
  <2>4. Mentioned' \subseteq Mentioned \cup {after}
    BY <1>1, <2>1, <2>2, <2>3 DEF Mentioned
  <2>5. \A v \in Mentioned : v.state <= stateCounter /\ v.state \in Nat
    BY <1>1 DEF NumberedWorlds
  <2>6. \A v \in Mentioned' : v.state <= stateCounter'
    BY <1>1, <2>2, <2>4, <2>5
  <2>7. \A v, w \in Mentioned' : v.state = w.state => v = w
    BY <1>1, <2>2, <2>4, <2>5 DEF NumberedWorlds
  <2> QED
    BY <2>6, <2>7 DEF NumberedWorlds
<1> QED
  BY <1>2, <1>3, <1>4, <1>5, LabelsStep

(* A world identity names one list of darts, in every label of a session.  *)
THEOREM StatesNameDarts == Spec => []SameStateSameDarts
<1>1. Init => NumberedWorlds
  <2> SUFFICES ASSUME Init PROVE NumberedWorlds
    OBVIOUS
  <2>1. Labels = {} /\ world = [state |-> 0, darts |-> <<>>] /\ stateCounter = 0
    BY DEF Init, Labels
  <2>2. Mentioned \subseteq {world} /\ world.state = 0
    BY <2>1 DEF Mentioned
  <2> QED
    BY <2>1, <2>2 DEF NumberedWorlds
<1>2. NumberedWorlds => SameStateSameDarts
  BY DEF NumberedWorlds, SameStateSameDarts, Mentioned
<1> QED
  BY <1>1, <1>2, TypesInit, TypesStep, NumberedStep, PTL DEF Spec

AddedIds == {l \in Labels : l.reason = "added"}

NumberedDarts ==
    /\ \A l \in AddedIds : l.dart <= dartCounter
    /\ AddedOnce

LEMMA AddedStep == TypeOK /\ NumberedDarts /\ [Next]_vars => NumberedDarts'
<1> SUFFICES ASSUME TypeOK, NumberedDarts, [Next]_vars PROVE NumberedDarts'
  OBVIOUS
<1>1. /\ \A l \in Labels : l.dart \in Nat
      /\ dartCounter \in Nat /\ dartCounter' \in Nat /\ dartCounter' >= dartCounter
  <2>1. Labels \subseteq LabelRecords
    BY DEF TypeOK, StoreTyped, Labels, CaptureRecords
  <2>2. dartCounter \in Nat /\ dartCounter' \in Nat
    BY TypesStep DEF TypeOK, TrackerTyped
  <2> QED
    BY <2>1, <2>2, LabelsStep DEF LabelRecords
<1>2. ASSUME AddedIds' \subseteq AddedIds PROVE NumberedDarts'
  BY <1>1, <1>2 DEF NumberedDarts, AddedOnce, AddedIds
<1>3. CASE Labels' \subseteq Labels
  BY <1>2, <1>3 DEF AddedIds
<1>4. CASE Labels' \subseteq Labels \cup {Label("periodic", reference.at, None, world, 0, 0)}
  <2>1. Label("periodic", reference.at, None, world, 0, 0).reason # "added"
    BY DEF Label
  <2> QED
    BY <1>2, <1>4, <2>1 DEF AddedIds
<1>5. CASE Labels' = {Label("startup", now, None, initialWorld(Teacher.board), 0, 0)}
  <2>1. Label("startup", now, None, initialWorld(Teacher.board), 0, 0).reason # "added"
    BY DEF Label
  <2> QED
    BY <1>2, <1>5, <2>1 DEF AddedIds
<1>6. CASE \E after \in Worlds : \E new \in SUBSET LabelRecords :
              /\ Changed(after, taken + 1, new)
              /\ Labels' \subseteq Labels \cup new
  <2>1. PICK after \in Worlds, new \in SUBSET LabelRecords :
           /\ Changed(after, taken + 1, new)
           /\ Labels' \subseteq Labels \cup new
    BY <1>6
  <2>2. CASE /\ \A l \in new : l.dart > dartCounter /\ l.dart <= dartCounter'
             /\ \A l, m \in new : l.dart = m.dart => l = m
    <3>1. \A l \in new : l.dart \in Nat
      BY DEF LabelRecords
    <3>2. \A l \in AddedIds' : \/ l \in AddedIds /\ l.dart <= dartCounter
                               \/ l \in new
      BY <2>1 DEF AddedIds, NumberedDarts
    <3>3. \A l \in AddedIds' : l.dart <= dartCounter'
      BY <1>1, <2>2, <3>1, <3>2 DEF AddedIds
    <3>4. \A l, m \in AddedIds' : l.dart = m.dart => l = m
      BY <1>1, <2>2, <3>1, <3>2 DEF AddedIds, NumberedDarts, AddedOnce
    <3> QED
      BY <3>3, <3>4 DEF NumberedDarts, AddedOnce, AddedIds
  <2>3. CASE new = {Label("reconciled", now, world, after, 0, taken + 1)}
    <3>1. Label("reconciled", now, world, after, 0, taken + 1).reason # "added"
      BY DEF Label
    <3> QED
      BY <1>2, <2>1, <2>3, <3>1 DEF AddedIds
  <2> QED
    BY <2>1, <2>2, <2>3 DEF Changed
<1> QED
  BY <1>3, <1>4, <1>5, <1>6, LabelsStep

(* A dart is captured as newly added at most once. *)
THEOREM DartsAddedOnce == Spec => []AddedOnce
<1>1. Init => NumberedDarts
  BY DEF Init, NumberedDarts, AddedOnce, AddedIds, Labels
<1>2. NumberedDarts => AddedOnce
  BY DEF NumberedDarts
<1> QED
  BY <1>1, <1>2, TypesInit, TypesStep, AddedStep, PTL DEF Spec

-----------------------------------------------------------------------------
(***************************************************************************)
(* What an observation that is written was checked against.                *)
(***************************************************************************)

LEMMA LogStep ==
    ASSUME TypeOK, [Next]_vars
    PROVE  \/ log' = log /\ (now' = now \/ Tick)
           \/ /\ \E e \in Entries : Reported(e)
              /\ UNCHANGED <<now, memory, loop, tracker, store>>
<1>1. CASE UNCHANGED vars
  BY <1>1 DEF vars
<1>2. CASE BoardManager
  BY <1>2, Manager
<1>3. CASE Capture
  BY <1>3, CaptureStep
<1>4. CASE Waits \/ Starts \/ TakeState \/ TakeMotion \/ ArtifactsFetched \/ TakeReference
           \/ ReferenceFails \/ \E how \in {"failed", "cancelled"} : Stop(how)
  BY <1>4 DEF Waits, Starts, TakeState, TakeMotion, ArtifactsFetched, TakeReference,
              ReferenceFails, Stop
<1>5. CASE Tick
  BY <1>5 DEF Tick
<1> QED
  BY <1>1, <1>2, <1>3, <1>4, <1>5, NextIsStep DEF Steps

(* A board that matches a world index by index carries its throws. *)
LEMMA MatchCarries ==
    ASSUME NEW throws \in Seq(Throw), NEW darts \in Seq(PhysicalDart),
           boardStateMatchesWorld(throws, darts)
    PROVE  SameThrows(throws, darts)
<1>1. /\ Len(throws) = Len(darts) /\ DOMAIN throws = DOMAIN darts
      /\ \A i \in DOMAIN throws : /\ throws[i].coordinates = darts[i].coordinates
                                  /\ throws[i].segment = darts[i].segment
  BY DEF boardStateMatchesWorld
<1>2. ASSUME NEW t \in Throw
      PROVE  {i \in DOMAIN throws : throws[i] = t}
               = {i \in DOMAIN darts : darts[i].coordinates = t.coordinates
                                       /\ darts[i].segment = t.segment}
  <2>1. \A i \in DOMAIN throws : throws[i] \in Throw
    OBVIOUS
  <2>2. \A u \in Throw : u = t <=> u.coordinates = t.coordinates /\ u.segment = t.segment
    BY DEF Throw
  <2> QED
    BY <1>1, <2>1, <2>2
<1> QED
  BY <1>1, <1>2 DEF SameThrows

(* The Board Manager was detecting and showed the world of the label at    *)
(* some moment after its last frame.                                       *)
Seen(l) ==
    /\ l.at + LatestOffset <= now
    /\ \E i \in InForce(l.at + LatestOffset, now) :
          /\ stableBoardState(log[i].board)
          /\ SameThrows(log[i].board.throws, l.after.darts)

TimesOrdered ==
    /\ \A i \in DOMAIN log : log[i].at <= now
    /\ \A l \in added : l.at <= now
    /\ reference # None => reference.at <= now
    /\ \A c \in captures : c.label.at + LatestOffset <= c.due

Observations ==
    /\ \A c \in captures : c.step = "checked" => Seen(c.label)
    /\ \A s \in samples : Observation(s) => Seen(s)

LEMMA SeenStays ==
    ASSUME TypeOK, [Next]_vars, NEW l \in LabelRecords, Seen(l)
    PROVE  Seen(l)'
<1> DEFINE from == l.at + LatestOffset
<1>1. from \in Nat /\ now \in Nat /\ from <= now
  BY Sizes DEF LabelRecords, TypeOK, LogTyped, Seen
<1>2. PICK i \in InForce(from, now) :
         /\ stableBoardState(log[i].board)
         /\ SameThrows(log[i].board.throws, l.after.darts)
  BY DEF Seen
<1>3. /\ i \in DOMAIN log /\ log[i].at <= now
      /\ i = Len(log) \/ log[i + 1].at >= from
  BY <1>2 DEF InForce
<1>4. /\ Len(log) \in Nat /\ DOMAIN log = 1..Len(log) /\ log \in Seq(Entries)
      /\ log[i].at \in Nat
  BY <1>3, TeacherTyped DEF TypeOK, LogTyped, Entries
<1> SUFFICES /\ from <= now' /\ i \in DOMAIN log' /\ log'[i] = log[i] /\ log[i].at <= now'
             /\ i = Len(log') \/ log'[i + 1].at >= from
  BY <1>2 DEF Seen, InForce
<1>5. CASE log' = log /\ (now' = now \/ Tick)
  <2>1. now' = now \/ now' = now + 1
    BY <1>5 DEF Tick
  <2> QED
    BY <1>1, <1>3, <1>4, <1>5, <2>1
<1>6. CASE now' = now /\ \E e \in Entries : Reported(e)
  <2>1. PICK e \in Entries : log' = Append(log, e) /\ e.at = now
    BY <1>6 DEF Reported
  <2>2. /\ Len(log') = Len(log) + 1 /\ DOMAIN log' = 1..(Len(log) + 1)
        /\ \A j \in 1..Len(log) : log'[j] = log[j]
        /\ log'[Len(log) + 1] = e
    BY <1>4, <2>1
  <2> QED
    BY <1>1, <1>3, <1>4, <1>6, <2>1, <2>2
<1> QED
  BY <1>5, <1>6, LogStep

(* A label keeps its time; only the ticker and the loop make new ones. *)
LEMMA TimesStep == TypeOK /\ TimesOrdered /\ [Next]_vars => TimesOrdered'
<1> SUFFICES ASSUME TypeOK, TimesOrdered, [Next]_vars PROVE TimesOrdered'
  OBVIOUS
<1>1. /\ now \in Nat /\ log \in Seq(Entries) /\ Len(log) \in Nat /\ DOMAIN log = 1..Len(log)
      /\ \A i \in DOMAIN log : log[i].at \in Nat
      /\ \A l \in added : l.at \in Nat
      /\ reference # None => reference.at \in Nat
  BY TeacherTyped DEF TypeOK, LogTyped, Entries, LoopTyped, StoreTyped, LabelRecords
<1>2. \A i \in DOMAIN log' : log'[i].at <= now'
  <2>1. CASE log' = log /\ (now' = now \/ Tick)
    <3>1. now' = now \/ now' = now + 1
      BY <2>1 DEF Tick
    <3> QED
      BY <1>1, <2>1, <3>1 DEF TimesOrdered
  <2>2. CASE now' = now /\ \E e \in Entries : Reported(e)
    <3>1. PICK e \in Entries : log' = Append(log, e) /\ e.at = now
      BY <2>2 DEF Reported
    <3> QED
      BY <1>1, <2>2, <3>1 DEF TimesOrdered
  <2> QED
    BY <2>1, <2>2, LogStep
<1> DEFINE Kept == \A c \in captures' : c.label.at + LatestOffset <= c.due
<1>3. ASSUME NEW new, \A l \in new : l.at \in Nat /\ l.at <= now, scheduleCapture(new)
      PROVE  Kept
  <2> SUFFICES ASSUME NEW c \in captures', c \notin captures
               PROVE  c.label.at + LatestOffset <= c.due
    BY DEF TimesOrdered
  <2>1. PICK l \in new : c = [label |-> l, due |-> now + LatestOffset, step |-> "timer"]
    BY <1>3 DEF scheduleCapture
  <2>2. c.label = l /\ c.due = now + LatestOffset
    BY <2>1
  <2> QED
    BY <1>1, <1>3, <2>2, Sizes
<1>4. ASSUME UNCHANGED captures PROVE Kept
  BY <1>4 DEF TimesOrdered
<1>5. ASSUME UNCHANGED <<added, reference, now>>, Kept PROVE TimesOrdered'
  BY <1>2, <1>5 DEF TimesOrdered
<1>6. CASE UNCHANGED vars \/ BoardManager
  <2>1. UNCHANGED <<now, loop, store>>
    BY <1>6, Manager DEF vars
  <2> QED
    BY <1>4, <1>5, <2>1 DEF loop, store
<1>7. CASE Capture
  <2>1. PICK c \in captures : \/ CaptureReadsBoard(c) \/ CaptureAdmitted(c) \/ CaptureChange(c)
                              \/ CaptureFails(c) \/ CaptureCancelled(c)
    BY <1>7 DEF Capture
  <2> DEFINE d == [c EXCEPT !.step = "checked"]
  <2>2. c \in CaptureRecords
    BY DEF TypeOK, StoreTyped
  <2>3. d.label = c.label /\ d.due = c.due
    BY <2>2 DEF CaptureRecords
  <2> HIDE DEF d
  <2>4. captures' \subseteq captures \cup {d} /\ UNCHANGED <<now, loop>>
    BY <2>1, CaptureMoves DEF d
  <2>5. Kept
    BY <2>3, <2>4 DEF TimesOrdered
  <2> QED
    BY <1>5, <2>4, <2>5 DEF loop
<1>8. CASE Waits \/ TakeMotion \/ \E how \in {"failed", "cancelled"} : Stop(how)
  BY <1>4, <1>5, <1>8 DEF Waits, TakeMotion, Stop, loop, store
<1>9. CASE Starts
  <2> DEFINE new == {Label("startup", now, None, initialWorld(Teacher.board), 0, 0)}
  <2>1. \A l \in new : l.at \in Nat /\ l.at <= now
    BY <1>1 DEF Label
  <2>2. scheduleCapture(new) /\ UNCHANGED <<added, reference, now>>
    BY <1>9 DEF Starts, StartRunning
  <2> HIDE DEF new
  <2> QED
    BY <1>3, <1>5, <2>1, <2>2
<1>10. CASE TakeState
  <2>1. UNCHANGED <<now, reference>>
    BY <1>10 DEF TakeState
  <2>2. CASE UNCHANGED <<added, captures>>
    BY <1>4, <1>5, <2>1, <2>2
  <2>3. CASE \E after \in Worlds : \E new \in SUBSET LabelRecords : Changed(after, taken + 1, new)
    <3>1. PICK after \in Worlds, new \in SUBSET LabelRecords : Changed(after, taken + 1, new)
      BY <2>3
    <3>2. CASE added' = new /\ UNCHANGED captures /\ \A l \in new : l.at = now
      BY <1>1, <1>2, <1>4, <2>1, <3>2 DEF TimesOrdered
    <3>3. CASE /\ new = {Label("reconciled", now, world, after, 0, taken + 1)}
               /\ scheduleCapture(new) /\ UNCHANGED added
      <4>1. \A l \in new : l.at \in Nat /\ l.at <= now
        BY <1>1, <3>3 DEF Label
      <4> QED
        BY <1>3, <1>5, <2>1, <3>3, <4>1
    <3> QED
      BY <3>1, <3>2, <3>3 DEF Changed
  <2> QED
    BY <1>10, <2>2, <2>3, StateTaken
<1>11. CASE ArtifactsFetched
  <2>1. scheduleCapture(added) /\ added' = {} /\ UNCHANGED <<now, reference>>
    BY <1>11 DEF ArtifactsFetched
  <2>2. Kept
    BY <1>1, <1>3, <2>1 DEF TimesOrdered
  <2> QED
    BY <1>2, <2>1, <2>2 DEF TimesOrdered
<1>12. CASE TakeReference \/ ReferenceFails
  <2> DEFINE new == {Label("periodic", reference.at, None, world, 0, 0)}
  <2>1. /\ reference # None /\ reference' = None /\ UNCHANGED <<now, added>>
        /\ scheduleCapture(new) \/ UNCHANGED captures
    BY <1>12 DEF TakeReference, ReferenceFails, store
  <2>2. \A l \in new : l.at \in Nat /\ l.at <= now
    BY <1>1, <2>1 DEF Label, TimesOrdered
  <2> HIDE DEF new
  <2>3. Kept
    BY <1>3, <1>4, <2>1, <2>2
  <2> QED
    BY <1>2, <2>1, <2>3 DEF TimesOrdered
<1>13. CASE Tick
  <2>1. /\ now' = now + 1 /\ UNCHANGED <<added, captures>>
        /\ reference' = reference \/ reference' = [at |-> now + 1]
    BY <1>13 DEF Tick, store
  <2>2. Kept
    BY <1>4, <2>1
  <2>3. \A l \in added' : l.at <= now'
    BY <1>1, <2>1 DEF TimesOrdered
  <2>4. reference' # None => reference'.at <= now'
    BY <1>1, <2>1 DEF TimesOrdered
  <2> QED
    BY <1>2, <2>2, <2>3, <2>4 DEF TimesOrdered
<1> QED
  BY <1>6, <1>7, <1>8, <1>9, <1>10, <1>11, <1>12, <1>13, StateTaken, NextIsStep DEF Steps

(* Only the captures themselves move on or write. *)
LEMMA OthersSchedule ==
    ASSUME TypeOK, [Next]_vars, ~Capture
    PROVE  /\ samples' = samples
           /\ \A c \in captures' : c \in captures \/ c.step = "timer"
<1>1. ASSUME NEW new, scheduleCapture(new)
      PROVE  \A c \in captures' : c \in captures \/ c.step = "timer"
  BY <1>1 DEF scheduleCapture
<1>2. CASE UNCHANGED vars \/ BoardManager
  BY <1>2, Manager DEF vars, store
<1>3. CASE Waits \/ TakeMotion \/ \E how \in {"failed", "cancelled"} : Stop(how)
  BY <1>3 DEF Waits, TakeMotion, Stop, store
<1>4. CASE Starts
  BY <1>1, <1>4 DEF Starts, StartRunning
<1>5. CASE TakeState
  <2>1. samples' = samples
    BY <1>5 DEF TakeState
  <2>2. captures' = captures \/ \E new : scheduleCapture(new)
    BY <1>5, StateTaken DEF Changed
  <2> QED
    BY <1>1, <2>1, <2>2
<1>6. CASE ArtifactsFetched
  BY <1>1, <1>6 DEF ArtifactsFetched
<1>7. CASE TakeReference \/ ReferenceFails
  BY <1>1, <1>7 DEF TakeReference, ReferenceFails, store
<1>8. CASE Tick
  BY <1>8 DEF Tick, store
<1> QED
  BY <1>2, <1>3, <1>4, <1>5, <1>6, <1>7, <1>8, NextIsStep DEF Steps

LEMMA BoardSeen ==
    ASSUME TypeOK, TimesOrdered, NEW c \in captures, now >= c.due,
           stableBoardState(Teacher.board),
           boardStateMatchesWorld(Teacher.board.throws, c.label.after.darts)
    PROVE  Seen(c.label)
<1>1. c \in CaptureRecords /\ c.label \in LabelRecords
  BY DEF TypeOK, StoreTyped, CaptureRecords
<1>2. c.due \in Nat /\ c.label.at \in Nat /\ c.label.after.darts \in Seq(PhysicalDart)
  BY <1>1 DEF CaptureRecords, LabelRecords, Worlds
<1>3. /\ now \in Nat /\ Len(log) \in DOMAIN log /\ Teacher.board.throws \in Seq(Throw)
  BY TeacherTyped, BoardsCarryThrows DEF TypeOK, LogTyped
<1>4. c.label.at + LatestOffset <= now
  BY <1>2, <1>3, Sizes DEF TimesOrdered
<1>5. Len(log) \in InForce(c.label.at + LatestOffset, now)
  BY <1>3 DEF InForce, TimesOrdered
<1>6. SameThrows(Teacher.board.throws, c.label.after.darts)
  BY <1>2, <1>3, MatchCarries
<1> QED
  BY <1>4, <1>5, <1>6 DEF Seen, Teacher

LEMMA ObservationsStep ==
    TypeOK /\ TimesOrdered /\ Observations /\ [Next]_vars => Observations'
<1> SUFFICES ASSUME TypeOK, TimesOrdered, Observations, [Next]_vars PROVE Observations'
  OBVIOUS
<1>1. captures' \subseteq CaptureRecords /\ samples' \subseteq LabelRecords
  BY TypesStep DEF TypeOK, StoreTyped
<1> SUFFICES /\ \A c \in captures' : c.step = "checked" => Seen(c.label)
             /\ \A s \in samples' : Observation(s) => Seen(s)
  <2>1. \A c \in captures' : c.label \in LabelRecords
    BY <1>1 DEF CaptureRecords
  <2> QED
    BY <1>1, <2>1, SeenStays DEF Observations
<1>2. CASE ~Capture
  BY <1>2, OthersSchedule DEF Observations
<1>3. CASE Capture
  <2>1. PICK c \in captures : \/ CaptureReadsBoard(c) \/ CaptureAdmitted(c) \/ CaptureChange(c)
                              \/ CaptureFails(c) \/ CaptureCancelled(c)
    BY <1>3 DEF Capture
  <2> DEFINE d == [c EXCEPT !.step = "checked"]
  <2>2. c \in CaptureRecords
    BY DEF TypeOK, StoreTyped
  <2>3. d.label = c.label
    BY <2>2 DEF CaptureRecords
  <2> HIDE DEF d
  <2>4. ASSUME Dropped(c) PROVE captures' \subseteq captures /\ samples' = samples
    BY <2>4 DEF Dropped
  <2>5. ASSUME Written(c) PROVE captures' \subseteq captures /\ samples' = samples \cup {c.label}
    BY <2>5 DEF Written
  <2>6. CASE CaptureReadsBoard(c)
    <3>1. CASE Dropped(c)
      BY <2>4, <3>1 DEF Observations
    <3>2. CASE ~Dropped(c)
      <4>1. /\ captures' = (captures \ {c}) \cup {d} /\ samples' = samples
            /\ now >= c.due
            /\ stableBoardState(Teacher.board)
            /\ boardStateMatchesWorld(Teacher.board.throws, c.label.after.darts)
        BY <2>6, <3>2 DEF CaptureReadsBoard, d
      <4>2. Seen(c.label)
        BY <4>1, BoardSeen
      <4> QED
        BY <2>3, <4>1, <4>2 DEF Observations
    <3> QED
      BY <3>1, <3>2
  <2>7. CASE CaptureAdmitted(c)
    <3>1. c.step = "checked" /\ (Dropped(c) \/ Written(c))
      BY <2>7 DEF CaptureAdmitted
    <3>2. Seen(c.label)
      BY <3>1 DEF Observations
    <3> QED
      BY <2>4, <2>5, <3>1, <3>2 DEF Observations
  <2>8. CASE CaptureChange(c)
    <3>1. ~Observation(c.label) /\ Written(c)
      BY <2>8 DEF CaptureChange
    <3> QED
      BY <2>5, <3>1 DEF Observations
  <2>9. CASE CaptureFails(c) \/ CaptureCancelled(c)
    BY <2>4, <2>9 DEF CaptureFails, CaptureCancelled, Observations
  <2> QED
    BY <2>1, <2>6, <2>7, <2>8, <2>9
<1> QED
  BY <1>2, <1>3

LEMMA TimesInvariant == Spec => [](TypeOK /\ TimesOrdered)
<1>1. Init => TimesOrdered
  <2> SUFFICES ASSUME Init PROVE TimesOrdered
    OBVIOUS
  <2>1. PICK board \in Board, active \in BOOLEAN :
           log = <<[at |-> 0, type |-> "state", board |-> board, active |-> active]>>
    BY DEF Init
  <2>2. \A i \in DOMAIN log : log[i].at = 0
    BY <2>1
  <2> QED
    BY <2>2 DEF Init, TimesOrdered
<1> QED
  BY <1>1, TypesInit, TypesStep, TimesStep, PTL DEF Spec

(* An observation of a stable world is written only if, at some time after *)
(* its last frame, the Board Manager was detecting and showed that world.  *)
THEOREM ObservationsWereReported == Spec => []ObservedWorldWasReported
<1>1. Init => Observations
  BY DEF Init, Observations
<1>2. Observations => ObservedWorldWasReported
  BY DEF Observations, ObservedWorldWasReported, Seen
<1> QED
  BY <1>1, <1>2, TimesInvariant, ObservationsStep, PTL DEF Spec

-----------------------------------------------------------------------------
(***************************************************************************)
(* The recorder's world and the board.                                     *)
(***************************************************************************)

(* The darts a board is turned into carry its throws, in its order. *)
LEMMA ReconciledMatches ==
    ASSUME NEW list, NEW throws \in Seq(Throw), NEW M, NEW counter,
           NEW darts \in Seq(PhysicalDart),
           darts = reconcileDarts(list, throws, M, counter)
    PROVE  boardStateMatchesWorld(throws, darts)
<1>1. /\ DOMAIN darts = DOMAIN throws
      /\ \A o \in DOMAIN throws : /\ darts[o].coordinates = throws[o].coordinates
                                  /\ darts[o].segment = throws[o].segment
  BY DEF reconcileDarts
<1>2. Len(darts) = Len(throws)
  <2>1. /\ Cardinality(DOMAIN darts) = Len(darts)
        /\ Cardinality(DOMAIN throws) = Len(throws)
    BY IndexCount
  <2> QED
    BY <1>1, <2>1
<1> QED
  BY <1>1, <1>2 DEF boardStateMatchesWorld

(* A world left as it was by a board carries the throws of that board. *)
LEMMA UnchangedCarries ==
    ASSUME NEW throws \in Seq(Throw),
           NEW before \in Seq(PhysicalDart), NEW after \in Seq(PhysicalDart),
           \A i, j \in DOMAIN before : before[i].id = before[j].id => i = j,
           \A i, j \in DOMAIN after : after[i].id = after[j].id => i = j,
           transitionBetween(before, after).type = "unchanged",
           SameThrows(throws, after)
    PROVE  SameThrows(throws, before)
<1>1. PICK f \in Bijection(DOMAIN after, DOMAIN before) :
         \A i \in DOMAIN after : /\ before[f[i]].coordinates = after[i].coordinates
                                 /\ before[f[i]].segment = after[i].segment
  BY UnchangedPairs
<1>2. IsFiniteSet(DOMAIN after) /\ Cardinality(DOMAIN after) = Len(after)
  BY IndexCount
<1>3. Cardinality(DOMAIN before) = Len(before)
  BY IndexCount
<1>4. \A i \in DOMAIN after : f[i] \in DOMAIN before
  BY <1>1 DEF Bijection, Injection
<1>5. Len(before) = Len(after)
  BY <1>1, <1>2, <1>3, <1>4, CarriedCount
<1>6. ASSUME NEW t \in Throw
      PROVE  Cardinality({i \in DOMAIN after : after[i].coordinates = t.coordinates
                                              /\ after[i].segment = t.segment})
               = Cardinality({j \in DOMAIN before : before[j].coordinates = t.coordinates
                                                    /\ before[j].segment = t.segment})
  <2> DEFINE A == {i \in DOMAIN after : after[i].coordinates = t.coordinates
                                        /\ after[i].segment = t.segment}
             B == {j \in DOMAIN before : before[j].coordinates = t.coordinates
                                         /\ before[j].segment = t.segment}
  <2>1. \A i \in DOMAIN after : i \in A <=> f[i] \in B
    BY <1>1, <1>4
  <2>2. A \in SUBSET DOMAIN after /\ B \in SUBSET DOMAIN before
    OBVIOUS
  <2> HIDE DEF A, B
  <2>3. Cardinality(A) = Cardinality(B)
    BY <1>1, <1>2, <2>1, <2>2, CarriedCount
  <2> QED
    BY <2>3 DEF A, B
<1> QED
  BY <1>5, <1>6 DEF SameThrows

(* A motion event carries the board of the entry before it. *)
MotionCarriesBoard ==
    \A i \in 2..Len(log) : log[i].type = "motion_state" => log[i].board = log[i - 1].board

Carries(i) == SameThrows(log[i].board.throws, world.darts)

(* What the loop's world shows: the last board it was told of, or, until   *)
(* the events under way at the start have been taken, the board it         *)
(* started with.                                                           *)
Follows ==
    phase = "running" => Carries(taken) \/ (taken < startedWith /\ Carries(startedWith))

FollowInv == MotionCarriesBoard /\ Follows

LEMMA MotionCarriesStep == TypeOK /\ MotionCarriesBoard /\ [Next]_vars => MotionCarriesBoard'
<1> SUFFICES ASSUME TypeOK, MotionCarriesBoard, [Next]_vars PROVE MotionCarriesBoard'
  OBVIOUS
<1>1. /\ log \in Seq(Entries) /\ Len(log) \in Nat /\ DOMAIN log = 1..Len(log)
      /\ Len(log) >= 1
  BY TeacherTyped DEF TypeOK, LogTyped
<1>2. CASE log' = log
  BY <1>2 DEF MotionCarriesBoard
<1>3. CASE \E e \in Entries : Reported(e)
  <2>1. PICK e \in Entries : /\ log' = Append(log, e)
                             /\ e.type = "motion_state" => e.board = Teacher.board
    BY <1>3 DEF Reported
  <2>2. /\ Len(log') = Len(log) + 1 /\ log'[Len(log) + 1] = e
        /\ \A i \in 1..Len(log) : log'[i] = log[i]
    BY <1>1, <2>1
  <2>3. SUFFICES ASSUME NEW i \in 2..Len(log'), log'[i].type = "motion_state"
                 PROVE  log'[i].board = log'[i - 1].board
    BY DEF MotionCarriesBoard
  <2>4. CASE i = Len(log) + 1
    <3>1. log'[i - 1] = log[Len(log)]
      BY <1>1, <2>2, <2>4
    <3> QED
      BY <2>1, <2>2, <2>3, <2>4, <3>1 DEF Teacher
  <2>5. CASE i # Len(log) + 1
    <3>1. i \in 2..Len(log) /\ i - 1 \in 1..Len(log) /\ i \in 1..Len(log)
      BY <1>1, <2>2, <2>5
    <3> QED
      BY <2>2, <2>3, <3>1 DEF MotionCarriesBoard
  <2> QED
    BY <2>4, <2>5
<1> QED
  BY <1>2, <1>3, LogStep

(* After a state event has been taken, the world carries its board. *)
LEMMA StateCarries ==
    ASSUME TypeOK, TakeState
    PROVE  SameThrows(log[taken + 1].board.throws, world'.darts)
<1> DEFINE throws == log[taken + 1].board.throws
           cause == taken + 1
<1>1. TrackerTyped /\ now \in Nat /\ cause \in Nat /\ cause \in DOMAIN log
  BY DEF TypeOK, TakeState, LogTyped, Pending
<1>2. throws \in Seq(Throw)
  BY <1>1, TeacherTyped, BoardsCarryThrows DEF TypeOK
<1>3. PICK M \in Matchings(world.darts, throws) : observe(throws, M, cause)
  BY DEF TakeState
<1> DEFINE darts == reconcileDarts(world.darts, throws, M, dartCounter)
           after == newState(darts)
<1> HIDE DEF throws, cause
<1>4. /\ after \in Worlds
      /\ \A i, j \in DOMAIN darts : darts[i].id = darts[j].id => i = j
      /\ \/ /\ transitionBetween(world.darts, darts).type = "unchanged"
            /\ world' = world
         \/ world' = after
  BY <1>1, <1>2, <1>3, Observed DEF Changed
<1>5. after.darts = darts /\ darts \in Seq(PhysicalDart)
  BY <1>4 DEF newState, Worlds
<1>6. SameThrows(throws, darts)
  BY <1>2, <1>5, ReconciledMatches, MatchCarries
<1>7. /\ world.darts \in Seq(PhysicalDart)
      /\ \A i, j \in DOMAIN world.darts : world.darts[i].id = world.darts[j].id => i = j
  BY <1>1 DEF TrackerTyped, Worlds, Identified
<1> HIDE DEF darts, after
<1>8. CASE world' = after
  BY <1>5, <1>6, <1>8 DEF throws
<1>9. CASE world' = world /\ transitionBetween(world.darts, darts).type = "unchanged"
  BY <1>2, <1>4, <1>5, <1>6, <1>7, <1>9, UnchangedCarries DEF throws
<1> QED
  BY <1>4, <1>8, <1>9

LEMMA FollowsStep == TypeOK /\ FollowInv /\ [Next]_vars => FollowInv'
<1> SUFFICES ASSUME TypeOK, FollowInv, [Next]_vars PROVE Follows'
  BY MotionCarriesStep DEF FollowInv
<1>1. /\ log \in Seq(Entries) /\ Len(log) \in Nat /\ DOMAIN log = 1..Len(log)
      /\ taken \in 1..Len(log) /\ startedWith \in 0..Len(log)
  BY TeacherTyped DEF TypeOK, LogTyped, LoopTyped
<1>2. Follows /\ MotionCarriesBoard
  BY DEF FollowInv
<1>3. ASSUME UNCHANGED <<log, taken, startedWith, world>>, phase' = "running" => phase = "running"
      PROVE  Follows'
  BY <1>2, <1>3 DEF Follows, Carries
<1>4. CASE BoardManager
  <2>1. PICK e \in Entries : log' = Append(log, e)
    BY <1>4, Manager DEF Reported
  <2>2. UNCHANGED <<taken, startedWith, world, phase>>
    BY <1>4, Manager DEF memory, loop, tracker
  <2>3. \A i \in DOMAIN log : log'[i] = log[i]
    BY <1>1, <2>1
  <2>4. phase = "running" /\ taken < startedWith => startedWith \in DOMAIN log
    BY <1>1
  <2> QED
    BY <1>1, <1>2, <2>2, <2>3, <2>4 DEF Follows, Carries
<1>5. CASE UNCHANGED vars \/ Capture
  BY <1>3, <1>5, CaptureStep DEF vars, memory, loop, tracker
<1>6. CASE Waits
  BY <1>6 DEF Waits, Follows
<1>7. CASE Starts
  <2> DEFINE board == Teacher.board
             first == initialWorld(board)
  <2>1. board.throws \in Seq(Throw) /\ first.darts \in Seq(PhysicalDart)
    BY TeacherTyped, BoardsCarryThrows, InitialWorld DEF TypeOK, Worlds
  <2>2. first.darts = reconcileDarts(<<>>, board.throws, {}, 0)
    BY DEF initialWorld
  <2>3. world' = first /\ startedWith' = Len(log) /\ UNCHANGED <<log, taken>>
    BY <1>7 DEF Starts, StartRunning, memory
  <2> HIDE DEF first
  <2>4. SameThrows(board.throws, first.darts)
    BY <2>1, <2>2, ReconciledMatches, MatchCarries
  <2>5. Carries(Len(log))'
    <3>1. log'[Len(log')].board = board
      BY <2>3 DEF Teacher
    <3> QED
      BY <2>3, <2>4, <3>1 DEF Carries
  <2>6. taken' = startedWith' \/ taken' < startedWith'
    <3>1. taken' = taken /\ startedWith' = Len(log)
      BY <2>3
    <3>2. taken = Len(log) \/ taken < Len(log)
      <4>1. \A n \in Nat : \A k \in 1..n : k = n \/ k < n
        OBVIOUS
      <4> QED
        BY <1>1, <4>1, Zenon
    <3> QED
      BY <3>1, <3>2
  <2> QED
    BY <2>3, <2>5, <2>6 DEF Follows
<1>8. CASE TakeState
  <2>1. taken' = taken + 1 /\ log' = log
    BY <1>8 DEF TakeState, rememberEvent
  <2>2. Carries(taken)'
    BY <1>8, <2>1, StateCarries DEF Carries
  <2> QED
    BY <2>2 DEF Follows
<1>9. CASE TakeMotion
  <2>1. /\ taken' = taken + 1 /\ UNCHANGED <<log, startedWith, world, phase>>
        /\ log[taken + 1].type = "motion_state" /\ taken < Len(log) /\ phase = "running"
    BY <1>9 DEF TakeMotion, rememberEvent, loop, tracker, Pending
  <2>2. log[taken + 1].board = log[taken].board
    <3>1. taken + 1 \in 2..Len(log) /\ (taken + 1) - 1 = taken
      BY <1>1, <2>1
    <3> QED
      BY <1>2, <2>1, <3>1 DEF MotionCarriesBoard
  <2>3. CASE Carries(taken)
    BY <2>1, <2>2, <2>3 DEF Follows, Carries
  <2>4. CASE taken < startedWith /\ Carries(startedWith)
    <3>1. taken + 1 = startedWith \/ taken + 1 < startedWith
      BY <1>1, <2>4
    <3> QED
      BY <2>1, <2>4, <3>1 DEF Follows, Carries
  <2> QED
    BY <1>2, <2>1, <2>3, <2>4 DEF Follows
<1>10. CASE ArtifactsFetched \/ TakeReference \/ ReferenceFails
            \/ \E how \in {"failed", "cancelled"} : Stop(how)
  BY <1>3, <1>10 DEF ArtifactsFetched, TakeReference, ReferenceFails, Stop, memory, tracker
<1>11. CASE Tick
  BY <1>3, <1>11 DEF Tick, memory, tracker
<1> QED
  BY <1>4, <1>5, <1>6, <1>7, <1>8, <1>9, <1>10, <1>11, NextIsStep DEF Steps

(* Once every event has been taken the recorder's world holds exactly the  *)
(* throws of the Board Manager: neither the state read over HTTP at the    *)
(* start nor the events under way then leave it behind.                    *)
THEOREM WorldIsBoard == Spec => []WorldFollowsTeacher
<1>1. Init => FollowInv
  <2> SUFFICES ASSUME Init PROVE FollowInv
    OBVIOUS
  <2>1. Len(log) = 1 /\ phase = "waiting"
    BY DEF Init
  <2> QED
    BY <2>1 DEF FollowInv, MotionCarriesBoard, Follows
<1>2. TypeOK /\ FollowInv => WorldFollowsTeacher
  <2> SUFFICES ASSUME TypeOK, FollowInv, phase = "running", ~Pending
               PROVE  SameThrows(Teacher.board.throws, world.darts)
    BY DEF WorldFollowsTeacher
  <2>1. taken = Len(log) /\ ~(taken < startedWith)
    BY TeacherTyped DEF TypeOK, LogTyped, LoopTyped, Pending
  <2> QED
    BY <2>1 DEF FollowInv, Follows, Carries, Teacher
<1> QED
  BY <1>1, <1>2, TypesInit, TypesStep, FollowsStep, PTL DEF Spec

-----------------------------------------------------------------------------
(***************************************************************************)
(* The darts of the start.                                                 *)
(***************************************************************************)

Throws(i) == log[i].board.throws

Extends(longer, throws) ==
    Len(throws) <= Len(longer) /\ \A n \in DOMAIN throws : longer[n] = throws[n]

(* The history of the board: times do not decrease, and a dart that has    *)
(* left the board does not come back, so a board that still has one of the *)
(* darts of an earlier one has kept all of them in between.                *)
LogOrdered == \A i, j \in DOMAIN log : i <= j => log[i].at <= log[j].at

DartsStay ==
    \A i, k \in DOMAIN log :
        i <= k /\ (\E point \in Coordinates : OnBoard(point, i) /\ OnBoard(point, k)) =>
           \A j \in i..k : Extends(Throws(j), Throws(i)) /\ Extends(Throws(k), Throws(j))

(* The candidate has been on the board since it was first read. *)
CandidateWasThere ==
    candidate # None =>
        \E i \in DOMAIN log : log[i].board = candidate.board /\ log[i].at <= candidate.since

(* While the loop is free it takes events within the lag of the stream. *)
Prompt ==
    phase = "waiting" /\ Pending => now <= log[taken + 1].at + StreamLag

(* What is still under way after the start shows the board of the start,   *)
(* on which the world has its darts, or that board is empty.               *)
Aligned(darts, throws) ==
    /\ DOMAIN darts = DOMAIN throws
    /\ \A n \in DOMAIN throws : darts[n].coordinates = throws[n].coordinates

Settled ==
    phase = "running" /\ taken < startedWith /\ Throws(startedWith) # <<>> =>
        /\ \A j \in (taken + 1)..startedWith : Throws(j) = Throws(startedWith)
        /\ Aligned(world.darts, Throws(startedWith))

StartupUnlabelled ==
    \A l \in Labels : l.reason = "added" /\ l.cause <= startedWith =>
        startedWith \in DOMAIN log /\ Throws(startedWith) = <<>>

StartInv ==
    /\ LogOrdered /\ DartsStay
    /\ CandidateWasThere /\ Prompt /\ Settled /\ StartupUnlabelled

LEMMA ExtendsTwice ==
    ASSUME NEW a \in Seq(Throw), NEW b \in Seq(Throw), NEW c \in Seq(Throw),
           Extends(b, a), Extends(c, b)
    PROVE  Extends(c, a)
  BY DEF Extends

LEMMA LogIndices ==
    ASSUME LogTyped
    PROVE  /\ log \in Seq(Entries) /\ Len(log) \in Nat \ {0} /\ DOMAIN log = 1..Len(log)
           /\ \A i \in DOMAIN log : /\ log[i] \in Entries /\ log[i].at \in Nat
                                    /\ Throws(i) \in Seq(Throw)
<1>1. \A i \in DOMAIN log : log[i].board \in Board /\ log[i] \in Entries
  BY TeacherTyped
<1> QED
  BY <1>1, BoardsCarryThrows DEF LogTyped, Throws, Entries

LEMMA HistoryStep ==
    ASSUME TypeOK, TimesOrdered, LogOrdered, DartsStay, [Next]_vars
    PROVE  LogOrdered' /\ DartsStay'
<1>1. LogTyped /\ now \in Nat
  BY DEF TypeOK, LogTyped
<1>2. CASE log' = log
  BY <1>2 DEF LogOrdered, DartsStay, OnBoard, Throws
<1>3. CASE \E e \in Entries : Reported(e)
  <2>1. PICK e \in Entries : Reported(e)
    BY <1>3
  <2>2. PICK n \in Nat \ {0} : n = Len(log) /\ DOMAIN log = 1..n /\ n \in DOMAIN log
    <3>1. \A m \in Nat \ {0} : m \in 1..m
      OBVIOUS
    <3> QED
      BY <1>1, <3>1, LogIndices
  <2> DEFINE T == Throws(n)
             U == e.board.throws
  <2>3. /\ DOMAIN log' = 1..(n + 1)
        /\ log'[n + 1] = e /\ e.at = now
        /\ \A i \in 1..n : log'[i] = log[i]
    BY <1>1, <2>1, <2>2, LogIndices DEF Reported
  <2>4. \A i \in 1..n : /\ log[i].at \in Nat /\ log[i].at <= now
                        /\ Throws(i) \in Seq(Throw) /\ Throws(i)' = Throws(i)
                        /\ \A point : OnBoard(point, i)' <=> OnBoard(point, i)
    BY <1>1, <2>2, <2>3, LogIndices DEF TimesOrdered, Throws, OnBoard
  <2>5. T \in Seq(Throw) /\ U \in Seq(Throw) /\ Throws(n + 1)' = U
    BY <2>2, <2>3, <2>4, BoardsCarryThrows DEF Entries, Throws
  <2>6. T = Teacher.board.throws
    BY <2>2 DEF Teacher, Throws
  <2> HIDE DEF T, U
  <2>7. LogOrdered'
    <3> SUFFICES ASSUME NEW i \in 1..(n + 1), NEW j \in 1..(n + 1), i <= j
                 PROVE  log'[i].at <= log'[j].at
      BY <2>3 DEF LogOrdered
    <3>1. CASE j = n + 1
      <4>1. i = n + 1 \/ i \in 1..n
        BY <2>2
      <4> QED
        BY <1>1, <2>3, <2>4, <3>1, <4>1
    <3>2. CASE j # n + 1
      <4>1. i \in 1..n /\ j \in 1..n
        BY <2>2, <3>2
      <4> QED
        BY <2>2, <2>3, <4>1 DEF LogOrdered
    <3> QED
      BY <3>1, <3>2
  <2>8. ASSUME NEW point \in Coordinates, NEW i \in 1..n, OnBoard(point, i), OnBoard(point, n + 1)'
        PROVE  OnBoard(point, n) /\ Extends(U, T)
    <3>1. PICK j \in DOMAIN U : U[j].coordinates = point
      BY <2>3, <2>8 DEF OnBoard, U
    <3>2. ASSUME U = T PROVE OnBoard(point, n) /\ Extends(U, T)
      BY <2>5, <3>1, <3>2 DEF OnBoard, Extends, T, Throws
    <3>3. ASSUME NEW throw \in Throw, Grown(U, throw)
          PROVE  OnBoard(point, n) /\ Extends(U, T)
      <4>1. U = Append(T, throw)
        BY <2>6, <3>3 DEF Grown
      <4>2. /\ Len(U) = Len(T) + 1 /\ DOMAIN U = 1..(Len(T) + 1) /\ U[Len(T) + 1] = throw
            /\ \A k \in 1..Len(T) : U[k] = T[k]
            /\ DOMAIN T = 1..Len(T) /\ Len(T) \in Nat
        BY <2>5, <4>1
      <4>3. throw.coordinates # point
        BY <2>2, <2>8, <3>3 DEF Grown
      <4>4. j \in DOMAIN T /\ T[j].coordinates = point
        BY <3>1, <4>2, <4>3
      <4>5. Extends(U, T)
        BY <4>2 DEF Extends
      <4> QED
        BY <4>4, <4>5 DEF OnBoard, T, Throws
    <3>4. U # <<>>
      BY <3>1
    <3> QED
      BY <2>1, <2>6, <3>2, <3>3, <3>4 DEF Reported, U
  <2>9. \A s \in Seq(Throw) : Extends(s, s)
    BY DEF Extends
  <2>10. DartsStay'
    <3> SUFFICES ASSUME NEW i \in 1..(n + 1), NEW k \in 1..(n + 1), i <= k,
                        NEW point \in Coordinates, OnBoard(point, i)', OnBoard(point, k)',
                        NEW j \in i..k
                 PROVE  Extends(Throws(j)', Throws(i)') /\ Extends(Throws(k)', Throws(j)')
      BY <2>3 DEF DartsStay, Extends
    <3>1. CASE k # n + 1
      <4>1. i \in 1..n /\ k \in 1..n /\ j \in 1..n
        BY <2>2, <3>1
      <4>2. OnBoard(point, i) /\ OnBoard(point, k)
        BY <2>4, <4>1
      <4>3. Extends(Throws(j), Throws(i)) /\ Extends(Throws(k), Throws(j))
        BY <2>2, <4>1, <4>2 DEF DartsStay
      <4> QED
        BY <2>4, <4>1, <4>3
    <3>2. CASE k = n + 1 /\ i = n + 1
      <4>1. j = n + 1
        BY <2>2, <3>2
      <4> QED
        BY <2>5, <2>9, <3>2, <4>1
    <3>3. CASE k = n + 1 /\ i \in 1..n
      <4>1. OnBoard(point, i)
        BY <2>4, <3>3
      <4>2. OnBoard(point, n) /\ Extends(U, T)
        BY <2>8, <3>3, <4>1
      <4>3. \A m \in i..n : Extends(Throws(m), Throws(i)) /\ Extends(T, Throws(m))
        BY <2>2, <3>3, <4>1, <4>2 DEF DartsStay, T
      <4>4. i \in i..n /\ n \in i..n
        BY <2>2, <3>3
      <4>5. CASE j = n + 1
        <5>1. Extends(U, Throws(i))
          BY <2>4, <2>5, <3>3, <4>2, <4>3, <4>4, ExtendsTwice
        <5> QED
          BY <2>4, <2>5, <2>9, <3>3, <4>5, <5>1
      <4>6. CASE j # n + 1
        <5>1. j \in i..n /\ j \in 1..n
          BY <2>2, <3>3, <4>6
        <5>2. Extends(U, Throws(j))
          BY <2>4, <2>5, <4>2, <4>3, <5>1, ExtendsTwice
        <5> QED
          BY <2>4, <2>5, <3>3, <4>3, <5>1, <5>2
      <4> QED
        BY <4>5, <4>6
    <3>4. i = n + 1 \/ i \in 1..n
      BY <2>2
    <3> QED
      BY <3>1, <3>2, <3>3, <3>4
  <2> QED
    BY <2>7, <2>10
<1> QED
  BY <1>2, <1>3, LogStep

(* Throws at the points of the darts, each in the place of its dart, are   *)
(* all matched, however many of them share a point.                        *)
LEMMA AlignedIsMatched ==
    ASSUME NEW throws \in Seq(Throw), NEW list \in Seq(PhysicalDart),
           Aligned(list, throws), NEW M \in Matchings(list, throws)
    PROVE  Unmatched(throws, M) = {}
<1> SUFFICES ASSUME NEW o \in DOMAIN throws, o \notin Matched(M) PROVE FALSE
  BY DEF Unmatched
<1> DEFINE D == DOMAIN throws
           P == {i \in D : throws[i].coordinates = throws[o].coordinates}
           Q == P \ {o}
           f == [i \in P |-> CHOOSE q \in Q : <<i, q>> \in M]
<1>1. /\ DOMAIN list = D
      /\ \A i \in D : /\ list[i].coordinates = throws[i].coordinates
                      /\ throws[i].coordinates \in Coordinates
  <2>1. \A i \in D : throws[i] \in Throw
    OBVIOUS
  <2> QED
    BY <2>1 DEF Aligned, Throw
<1>2. ASSUME NEW i \in D, NEW j \in D
      PROVE  /\ coordinateDistance(list, throws, <<i, j>>) \in Nat
             /\ coordinateDistance(list, throws, <<i, j>>) = 0
                   <=> throws[i].coordinates = throws[j].coordinates
  <2> DEFINE a == throws[i].coordinates
             b == throws[j].coordinates
  <2>1. coordinateDistance(list, throws, <<i, j>>) = Distance[<<a, b>>]
    BY <1>1 DEF coordinateDistance
  <2>2. a \in Coordinates /\ b \in Coordinates
    BY <1>1
  <2> HIDE DEF a, b
  <2>3. Distance[<<a, b>>] \in Nat /\ (Distance[<<a, b>>] = 0 <=> a = b)
    BY <2>2, DistanceAssumption
  <2> QED
    BY <2>1, <2>3 DEF a, b
<1>3. ASSUME NEW i \in P PROVE \E q \in Q : <<i, q>> \in M
  <2>1. /\ <<i, o>> \in Candidates(list, throws)
        /\ coordinateDistance(list, throws, <<i, o>>) = 0
    BY <1>1, <1>2, DistanceAssumption DEF Candidates
  <2>2. <<i, o>> \notin M
    BY DEF Matched
  <2>3. PICK m \in M : /\ m[1] = i \/ m[2] = o
                       /\ coordinateDistance(list, throws, m) <= 0
    BY <2>1, <2>2, RefusedForNearer
  <2>4. m[1] \in D /\ m[2] \in D /\ m = <<m[1], m[2]>> /\ m[2] \in Matched(M)
    BY <1>1, PartnerOf
  <2>5. m[1] = i /\ m[2] # o
    BY <2>3, <2>4
  <2>6. throws[i].coordinates = throws[m[2]].coordinates
    BY <1>2, <2>3, <2>4, <2>5
  <2> QED
    BY <2>4, <2>5, <2>6
<1>4. IsFiniteSet(P) /\ IsFiniteSet(Q) /\ Cardinality(Q) < Cardinality(P)
  <2>1. IsFiniteSet(D)
    BY IndexCount
  <2>2. IsFiniteSet(P)
    BY <2>1, FS_Subset
  <2>3. o \in P /\ Q \in SUBSET P /\ Q # P
    OBVIOUS
  <2> HIDE DEF P, Q
  <2>4. IsFiniteSet(Q) /\ Cardinality(Q) <= Cardinality(P) /\ Cardinality(Q) # Cardinality(P)
    BY <2>2, <2>3, FS_Subset
  <2>5. Cardinality(P) \in Nat /\ Cardinality(Q) \in Nat
    BY <2>2, <2>4, FS_CardinalityType
  <2> QED
    BY <2>2, <2>4, <2>5
<1>5. \A i \in P : f[i] \in Q /\ <<i, f[i]>> \in M
  BY <1>3
<1>6. f \in [P -> Q]
  BY <1>5
<1> HIDE DEF P, Q, f
<1>7. PICK x, y \in P : x # y /\ f[x] = f[y]
  BY <1>4, <1>6, FS_PigeonHole
<1>8. \A c, d \in M : Conflict(c, d) => c = d
  BY DEF Matchings
<1> QED
  BY <1>5, <1>7, <1>8 DEF Conflict

LEMMA AlignedStateTaken ==
    ASSUME TypeOK, TakeState, Aligned(world.darts, Throws(taken + 1))
    PROVE  dartCounter' = dartCounter /\ Aligned(world'.darts, Throws(taken + 1))
<1> DEFINE throws == log[taken + 1].board.throws
           cause == taken + 1
<1>1. TrackerTyped /\ now \in Nat /\ cause \in Nat /\ cause \in DOMAIN log
  BY DEF TypeOK, TakeState, LogTyped, Pending
<1>2. throws \in Seq(Throw) /\ throws = Throws(taken + 1)
  BY <1>1, LogIndices DEF TypeOK, Throws
<1>3. PICK M \in Matchings(world.darts, throws) : observe(throws, M, cause)
  BY DEF TakeState
<1> DEFINE darts == reconcileDarts(world.darts, throws, M, dartCounter)
           after == newState(darts)
<1> HIDE DEF throws, cause
<1>4. Unmatched(throws, M) = {}
  BY <1>1, <1>2, AlignedIsMatched DEF TrackerTyped, Worlds
<1>5. dartCounter' = dartCounter
  <2>1. Cardinality({}) = 0
    BY FS_EmptySet
  <2>2. dartCounter' = dartCounter + Cardinality(Unmatched(throws, M))
    BY <1>3 DEF observe
  <2> QED
    BY <1>1, <1>4, <2>1, <2>2 DEF TrackerTyped
<1>6. world' = world \/ world' = after
  BY <1>1, <1>2, <1>3, Observed DEF Changed
<1>7. after.darts = darts
  BY DEF newState
<1>8. Aligned(darts, throws)
  BY DEF Aligned, reconcileDarts
<1> HIDE DEF darts, after
<1> QED
  BY <1>2, <1>5, <1>6, <1>7, <1>8

LEMMA LogPrefix ==
    ASSUME TypeOK, [Next]_vars
    PROVE  DOMAIN log \subseteq DOMAIN log' /\ \A i \in DOMAIN log : log'[i] = log[i]
<1>1. CASE log' = log
  BY <1>1
<1>2. CASE \E e \in Entries : Reported(e)
  BY <1>2, LogIndices DEF TypeOK, Reported
<1> QED
  BY <1>1, <1>2, LogStep

LEMMA StartedStays ==
    ASSUME TypeOK, [Next]_vars, ~Starts
    PROVE  /\ startedWith' = startedWith
           /\ phase' = "running" => phase = "running"
           /\ phase' = "waiting" => phase = "waiting"
           /\ candidate' = candidate \/ Waits
<1>1. CASE UNCHANGED vars \/ BoardManager \/ Capture
  BY <1>1, Manager, CaptureStep DEF vars, loop
<1>2. CASE Waits \/ TakeState \/ TakeMotion \/ ArtifactsFetched
           \/ TakeReference \/ ReferenceFails
  BY <1>2 DEF Waits, TakeState, TakeMotion, ArtifactsFetched, TakeReference,
              ReferenceFails, loop
<1>3. CASE Tick \/ \E how \in {"failed", "cancelled"} : Stop(how)
  BY <1>3 DEF Stop, Tick
<1> QED
  BY <1>1, <1>2, <1>3, NextIsStep DEF Steps

LEMMA CandidateStep ==
    ASSUME TypeOK, TimesOrdered, CandidateWasThere, [Next]_vars
    PROVE  CandidateWasThere'
<1>1. CASE Starts
  BY <1>1 DEF Starts, StartRunning, CandidateWasThere
<1>2. CASE candidate' = candidate
  BY <1>2, LogPrefix DEF CandidateWasThere
<1>3. CASE candidate' = [board |-> Teacher.board, since |-> now] /\ log' = log
  <2>1. Len(log) \in DOMAIN log /\ log[Len(log)].at <= now
    BY TeacherTyped DEF TypeOK, TimesOrdered
  <2> QED
    BY <1>3, <2>1 DEF CandidateWasThere, Teacher
<1>4. CASE candidate' = None
  BY <1>4 DEF CandidateWasThere
<1> QED
  BY <1>1, <1>2, <1>3, <1>4, StartedStays DEF Waits

LEMMA PromptStep ==
    ASSUME TypeOK, LogOrdered, Prompt, [Next]_vars
    PROVE  Prompt'
<1> SUFFICES ASSUME phase' = "waiting", Pending' PROVE now' <= log'[taken' + 1].at + StreamLag
  BY DEF Prompt
<1>1. /\ phase = "waiting" /\ pc # "artifacts"
  BY StartedStays DEF Starts, StartRunning, TypeOK, LoopTyped
<1>2. /\ taken \in Nat \ {0} /\ now \in Nat /\ Len(log) \in Nat /\ DOMAIN log = 1..Len(log)
      /\ \A i \in DOMAIN log : log[i].at \in Nat
      /\ taken <= Len(log)
  BY LogIndices DEF TypeOK, LogTyped
<1>3. Pending => taken + 1 \in DOMAIN log
  BY <1>2 DEF Pending
<1>4. CASE UNCHANGED <<now, log, taken>>
  BY <1>1, <1>4 DEF Prompt, Pending
<1>5. CASE BoardManager
  <2>1. PICK e \in Entries : log' = Append(log, e) /\ e.at = now
    BY <1>5, Manager DEF Reported
  <2>2. UNCHANGED <<now, taken>>
    BY <1>5, Manager DEF memory
  <2>3. CASE Pending
    <3>1. log'[taken + 1] = log[taken + 1]
      BY <1>3, <2>3, LogPrefix
    <3>2. now <= log[taken + 1].at + StreamLag
      BY <1>1, <2>3 DEF Prompt
    <3>3. log'[taken' + 1] = log[taken + 1] /\ now' = now
      BY <2>2, <3>1
    <3> QED
      BY <3>2, <3>3
  <2>4. CASE ~Pending
    <3>1. taken = Len(log)
      BY <2>4 DEF Pending, TypeOK, LogTyped
    <3>2. log \in Seq(Entries)
      BY DEF TypeOK, LogTyped
    <3>3. log'[taken + 1] = e
      BY <2>1, <3>1, <3>2
    <3>4. log'[taken' + 1].at = now /\ now' = now
      BY <2>1, <2>2, <3>3
    <3> QED
      BY <1>2, <3>4, Sizes
  <2> QED
    BY <2>3, <2>4
<1>6. CASE Waits /\ ~UNCHANGED memory
  <2>1. taken' = taken + 1 /\ Pending /\ UNCHANGED <<now, log>>
    BY <1>6 DEF Waits, rememberEvent
  <2>2. taken + 1 \in DOMAIN log /\ taken' + 1 \in DOMAIN log /\ taken + 1 <= taken' + 1
    BY <1>2, <1>3, <2>1 DEF Pending
  <2>3. log[taken + 1].at <= log[taken' + 1].at
    BY <2>2 DEF LogOrdered
  <2>4. now <= log[taken + 1].at + StreamLag
    BY <1>1, <2>1 DEF Prompt
  <2>5. log[taken + 1].at \in Nat /\ log[taken' + 1].at \in Nat
    BY <1>2, <2>2
  <2>6. log'[taken' + 1] = log[taken' + 1] /\ now' = now
    BY <2>1
  <2> HIDE DEF Prompt
  <2> QED
    BY <1>2, <2>3, <2>4, <2>5, <2>6, Sizes, SMTT(30)
<1>7. CASE Tick
  <2>1. UNCHANGED <<log, taken>> /\ now' = now + 1
    BY <1>7 DEF Tick, memory
  <2>2. Pending
    BY <2>1 DEF Pending
  <2>3. now < log[taken + 1].at + StreamLag
    BY <1>1, <1>7, <2>2 DEF Tick, Working
  <2>4. log[taken + 1].at \in Nat
    BY <1>2, <1>3, <2>2
  <2> QED
    BY <1>2, <2>1, <2>3, <2>4, Sizes
<1>8. CASE UNCHANGED vars \/ Capture
  BY <1>4, <1>8, CaptureStep DEF vars, memory
<1>9. CASE Waits /\ UNCHANGED memory
  BY <1>4, <1>9 DEF Waits, memory
<1> QED
  BY <1>1, <1>5, <1>6, <1>7, <1>8, <1>9, NextIsStep
     DEF Steps, Starts, StartRunning, TakeState, TakeMotion, ArtifactsFetched,
         TakeReference, ReferenceFails, Stop

LEMMA SettledAtStart ==
    ASSUME StreamLag < StableFor, TypeOK, TimesOrdered, StartInv, Starts
    PROVE  Settled'
<1> DEFINE B == Throws(startedWith)'
           first == initialWorld(Teacher.board)
<1>1. /\ startedWith' = Len(log) /\ world' = first
      /\ UNCHANGED <<now, log, taken>>
      /\ phase = "waiting" /\ candidate # None /\ candidate.board = Teacher.board
      /\ now - candidate.since >= StableFor
  BY DEF Starts, StartRunning, HeldStill, memory
<1>2. PICK n \in Nat \ {0} : n = Len(log) /\ DOMAIN log = 1..n /\ taken \in 1..n
  BY DEF TypeOK, LogTyped
<1>3. /\ \A i \in 1..n : log[i].at \in Nat /\ Throws(i) \in Seq(Throw)
      /\ candidate.since \in Nat /\ now \in Nat
  BY <1>1, <1>2, LogIndices DEF TypeOK, LogTyped, LoopTyped
<1>4. \A i : Throws(i)' = Throws(i)
  BY <1>1 DEF Throws
<1>5. SUFFICES ASSUME taken < n, Throws(n) # <<>>
               PROVE  /\ \A j \in (taken + 1)..n : Throws(j) = Throws(n)
                      /\ Aligned(first.darts, Throws(n))
  BY <1>1, <1>2, <1>4 DEF Settled
<1>6. Throws(n) = Teacher.board.throws
  BY <1>2 DEF Throws, Teacher
<1>7. Aligned(first.darts, Throws(n))
  BY <1>6 DEF initialWorld, reconcileDarts, Aligned
<1>8. PICK i \in 1..n : log[i].board = Teacher.board /\ log[i].at <= candidate.since
  BY <1>1, <1>2 DEF StartInv, CandidateWasThere
<1>9. i <= taken
  <2>1. Pending
    BY <1>2, <1>5 DEF Pending
  <2>2. now <= log[taken + 1].at + StreamLag
    BY <1>1, <2>1 DEF StartInv, Prompt
  <2>3. taken + 1 \in 1..n
    BY <1>2, <1>5
  <2>4. log[i].at < log[taken + 1].at
    <3>1. log[i].at \in Nat /\ log[taken + 1].at \in Nat
      BY <1>3, <2>3
    <3>2. PICK a, b, since, moment \in Nat :
              /\ a = log[i].at /\ b = log[taken + 1].at
              /\ since = candidate.since /\ moment = now
      BY <1>3, <3>1
    <3>3. a <= since /\ moment - since >= StableFor /\ moment <= b + StreamLag
      BY <1>1, <1>8, <2>2, <3>2
    <3>4. a < b
      BY <3>3, Sizes
    <3> QED
      BY <3>2, <3>4
  <2>5. ~(taken + 1 <= i)
    <3>1. taken + 1 \in DOMAIN log /\ i \in DOMAIN log
      BY <1>2, <1>8, <2>3
    <3>2. taken + 1 <= i => log[taken + 1].at <= log[i].at
      BY <3>1 DEF StartInv, LogOrdered
    <3>3. log[i].at \in Nat /\ log[taken + 1].at \in Nat
      BY <1>3, <2>3
    <3> QED
      BY <2>4, <3>2, <3>3
  <2> QED
    BY <1>2, <2>5
<1>10. PICK point \in Coordinates : OnBoard(point, i) /\ OnBoard(point, n)
  <2>1. Throws(i) = Throws(n)
    BY <1>6, <1>8 DEF Throws
  <2>2. /\ 1 \in DOMAIN Throws(n) /\ Throws(n)[1] \in Throw
    <3>1. Throws(n) \in Seq(Throw)
      BY <1>3
    <3> QED
      BY <1>5, <3>1
  <2>3. Throws(n)[1].coordinates \in Coordinates
    BY <2>2 DEF Throw
  <2>4. OnBoard(Throws(n)[1].coordinates, i) /\ OnBoard(Throws(n)[1].coordinates, n)
    BY <2>1, <2>2 DEF OnBoard, Throws
  <2> QED
    BY <2>3, <2>4
<1>11. ASSUME NEW j \in (taken + 1)..n PROVE Throws(j) = Throws(n)
  <2>1. j \in i..n /\ j \in 1..n /\ i <= n /\ n \in 1..n
    BY <1>2, <1>8, <1>9
  <2>2. Extends(Throws(j), Throws(i)) /\ Extends(Throws(n), Throws(j))
    BY <1>2, <1>8, <1>10, <2>1 DEF StartInv, DartsStay
  <2>3. Throws(i) = Throws(n)
    BY <1>6, <1>8 DEF Throws
  <2>4. Throws(j) \in Seq(Throw) /\ Throws(n) \in Seq(Throw)
    BY <1>3, <2>1
  <2> QED
    BY <2>2, <2>3, <2>4 DEF Extends
<1> QED
  BY <1>7, <1>11

LEMMA SettledStep ==
    ASSUME StreamLag < StableFor, TypeOK, TimesOrdered, StartInv, [Next]_vars
    PROVE  Settled'
<1>1. CASE Starts
  BY <1>1, SettledAtStart
<1>2. CASE ~Starts
  <2>1. SUFFICES ASSUME phase' = "running", taken' < startedWith', Throws(startedWith)' # <<>>
                 PROVE  /\ \A j \in (taken' + 1)..startedWith' : Throws(j)' = Throws(startedWith)'
                        /\ Aligned(world'.darts, Throws(startedWith)')
    BY DEF Settled, Aligned
  <2>2. /\ startedWith' = startedWith /\ phase = "running"
    BY <1>2, <2>1, StartedStays
  <2>3. PICK m \in Nat : m = startedWith /\ m <= Len(log)
    BY DEF TypeOK, LoopTyped, LogTyped
  <2>4. taken \in Nat \ {0} /\ taken <= Len(log) /\ Len(log) \in Nat
    BY DEF TypeOK, LogTyped
  <2>5. ASSUME NEW j \in 1..m PROVE Throws(j)' = Throws(j)
    <3>1. j \in DOMAIN log
      BY <2>3, <2>4, LogIndices DEF TypeOK
    <3> QED
      BY <3>1, LogPrefix DEF Throws
  <2>6. taken' \in {taken, taken + 1} /\ taken < m /\ m \in 1..m
    <3>1. taken' \in {taken, taken + 1}
      <4>1. CASE UNCHANGED vars \/ BoardManager \/ Capture
        BY <4>1, Manager, CaptureStep DEF vars, memory
      <4>2. CASE Waits \/ TakeState \/ TakeMotion
        BY <4>2 DEF Waits, TakeState, TakeMotion, memory, rememberEvent
      <4>3. CASE ArtifactsFetched \/ TakeReference \/ ReferenceFails \/ Tick
                 \/ \E how \in {"failed", "cancelled"} : Stop(how)
        BY <4>3 DEF ArtifactsFetched, TakeReference, ReferenceFails, Stop, Tick, memory
      <4> QED
        BY <1>2, <4>1, <4>2, <4>3, NextIsStep DEF Steps
    <3> QED
      BY <2>1, <2>2, <2>3, <2>4, <3>1
  <2>7. Throws(startedWith)' = Throws(m) /\ Throws(startedWith) = Throws(m)
    BY <2>2, <2>3, <2>5, <2>6 DEF Throws
  <2>8. /\ \A j \in (taken + 1)..m : Throws(j) = Throws(m)
        /\ Aligned(world.darts, Throws(m))
    BY <2>1, <2>2, <2>3, <2>6, <2>7 DEF StartInv, Settled
  <2>9. \A j \in (taken' + 1)..m : Throws(j)' = Throws(m)
    <3> SUFFICES ASSUME NEW j \in (taken' + 1)..m PROVE Throws(j)' = Throws(m)
      OBVIOUS
    <3>1. j \in (taken + 1)..m /\ j \in 1..m
      <4>1. CASE taken' = taken
        BY <2>4, <4>1
      <4>2. CASE taken' = taken + 1
        BY <2>4, <4>2
      <4> QED
        BY <2>6, <4>1, <4>2
    <3> QED
      BY <2>5, <2>8, <3>1
  <2>10. Aligned(world'.darts, Throws(m))
    <3>1. CASE TakeState
      <4>1. Throws(taken + 1) = Throws(m)
        BY <2>4, <2>6, <2>8
      <4> QED
        BY <2>8, <3>1, <4>1, AlignedStateTaken
    <3>2. CASE world' = world
      BY <2>8, <3>2
    <3>3. TakeState \/ world' = world
      BY <1>2, LabelsStep DEF tracker
    <3> QED
      BY <3>1, <3>2, <3>3
  <2> QED
    BY <2>2, <2>3, <2>7, <2>9, <2>10
<1> QED
  BY <1>1, <1>2

LEMMA StartLabelsStep ==
    ASSUME TypeOK, StartInv, [Next]_vars
    PROVE  StartupUnlabelled'
<1>1. CASE Starts
  <2>1. Labels' = {Label("startup", now, None, initialWorld(Teacher.board), 0, 0)}
    BY <1>1, StartsTyped
  <2>2. Label("startup", now, None, initialWorld(Teacher.board), 0, 0).reason # "added"
    BY DEF Label
  <2> QED
    BY <2>1, <2>2 DEF StartupUnlabelled
<1>2. CASE ~Starts
  <2>1. startedWith' = startedWith
    BY <1>2, StartedStays
  <2>2. ASSUME startedWith \in DOMAIN log, Throws(startedWith) = <<>>
        PROVE  startedWith' \in DOMAIN log' /\ Throws(startedWith)' = <<>>
    BY <2>1, <2>2, LogPrefix DEF Throws
  <2>3. SUFFICES ASSUME NEW l \in Labels', l.reason = "added", l.cause <= startedWith
                 PROVE  startedWith \in DOMAIN log /\ Throws(startedWith) = <<>>
    BY <2>1, <2>2 DEF StartupUnlabelled
  <2>4. CASE l \in Labels
    BY <2>3, <2>4 DEF StartInv, StartupUnlabelled
  <2>5. CASE l = Label("periodic", reference.at, None, world, 0, 0)
    BY <2>3, <2>5 DEF Label
  <2>6. CASE /\ TakeState
             /\ \E after \in Worlds : \E new \in SUBSET LabelRecords :
                   Changed(after, taken + 1, new) /\ l \in new
    <3>1. PICK after \in Worlds, new \in SUBSET LabelRecords :
             Changed(after, taken + 1, new) /\ l \in new
      BY <2>6
    <3>2. l.cause = taken + 1 /\ l.dart > dartCounter /\ l.dart <= dartCounter' /\ l.dart \in Nat
      BY <2>3, <3>1 DEF Changed, Label, LabelRecords
    <3>3. /\ taken \in Nat \ {0} /\ startedWith \in 0..Len(log) /\ Len(log) \in Nat
          /\ dartCounter \in Nat
      BY DEF TypeOK, LogTyped, LoopTyped, TrackerTyped
    <3>4. phase = "running" /\ taken < startedWith /\ taken + 1 \in (taken + 1)..startedWith
      BY <2>3, <2>6, <3>2, <3>3 DEF TakeState
    <3>5. startedWith \in DOMAIN log
      BY <3>3, <3>4, LogIndices DEF TypeOK
    <3>6. CASE Throws(startedWith) # <<>>
      <4>1. Throws(taken + 1) = Throws(startedWith) /\ Aligned(world.darts, Throws(startedWith))
        BY <3>4, <3>6 DEF StartInv, Settled
      <4>2. dartCounter' = dartCounter
        BY <2>6, <4>1, AlignedStateTaken
      <4> QED
        BY <3>2, <3>3, <4>2
    <3> QED
      BY <3>5, <3>6
  <2> QED
    BY <1>2, <2>3, <2>4, <2>5, <2>6, LabelsStep
<1> QED
  BY <1>1, <1>2

LEMMA StartStep ==
    ASSUME StreamLag < StableFor
    PROVE  TypeOK /\ TimesOrdered /\ StartInv /\ [Next]_vars => StartInv'
BY HistoryStep, CandidateStep, PromptStep, SettledStep, StartLabelsStep DEF StartInv

LEMMA StartInit == Init => StartInv
<1> SUFFICES ASSUME Init PROVE StartInv
  OBVIOUS
<1>1. PICK board \in Board, active \in BOOLEAN :
         log = <<[at |-> 0, type |-> "state", board |-> board, active |-> active]>>
  BY DEF Init
<1>2. DOMAIN log = {1} /\ Len(log) = 1 /\ log[1].at = 0
  BY <1>1
<1>3. LogOrdered
  BY <1>2 DEF LogOrdered
<1>4. DartsStay
  <2>1. \A j \in 1..1 : j = 1
    OBVIOUS
  <2>2. Extends(Throws(1), Throws(1))
    BY TypesInit, <1>2, LogIndices DEF TypeOK, Extends
  <2> QED
    BY <1>2, <2>1, <2>2 DEF DartsStay
<1>5. CandidateWasThere /\ Prompt /\ Settled /\ StartupUnlabelled
  BY <1>2 DEF Init, CandidateWasThere, Prompt, Pending, Settled, StartupUnlabelled, Labels
<1> QED
  BY <1>3, <1>4, <1>5 DEF StartInv

(* Darts present when the recorder starts are not emitted as newly         *)
(* accepted, although the board is read past the events still under way:   *)
(* while an event takes less time than the board must hold still, those    *)
(* events all show the board the recorder starts with.                     *)
THEOREM StartupDartsKept ==
    ASSUME StreamLag < StableFor
    PROVE  Spec => []StartupDartsNotEmitted
<1>1. TypeOK /\ TimesOrdered /\ StartInv /\ [Next]_vars => StartInv'
  BY StartStep
<1>2. StartInv => StartupDartsNotEmitted
  BY DEF StartInv, StartupUnlabelled, StartupDartsNotEmitted, OnBoard, Throws
<1> QED
  BY <1>1, <1>2, TimesInvariant, StartInit, PTL DEF Spec

-----------------------------------------------------------------------------
(***************************************************************************)
(* What is forgotten.                                                      *)
(*                                                                         *)
(* rememberEvent forgets by age and by number, so that an event is still   *)
(* there when a capture looks for it depends on how late the loop takes    *)
(* what waits for it.  The loop is blocked while it fetches the teacher's  *)
(* evidence, and several boards in a row can make it wait several times:   *)
(* how late it gets is a premise, Timely, and not a constant.              *)
(***************************************************************************)
Timely(lag) ==
    /\ Pending /\ Working => now <= log[taken + 1].at + lag
    /\ reference # None /\ Working => now <= reference.at + lag

Memories == [at : Nat, type : {"state", "motion_state"}, active : BOOLEAN]

(* The events remembered are the last ones taken. *)
Forgotten == taken - Len(recentEvents)

Remembered ==
    /\ recentEvents \in Seq(Memories)
    /\ Forgotten >= 1
    /\ \A k \in (Forgotten + 1)..taken :
          /\ recentEvents[k - Forgotten].at = receivedAt[k]
          /\ recentEvents[k - Forgotten].type = log[k].type
          /\ recentEvents[k - Forgotten].active = log[k].active
    /\ \A k \in 2..Forgotten : receivedAt[k] < now - EventAge \/ k + EventCap <= taken

(* Who reports how many changes in a tick bounds any part of the history. *)
Rated ==
    \A i \in 2..Len(log), j \in DOMAIN log :
        i <= j => j - i + 1 <= MaxRate * (log[j].at - log[i].at + 1)

ReceivedInTime(lag) == \A k \in 1..taken : receivedAt[k] <= log[k].at + lag

(* An observation is admitted soon after its frames. *)
AdmittedSoon(lag) ==
    /\ \A l \in added : ~Observation(l)
    /\ \A c \in captures :
          /\ now <= c.due + CaptureLag
          /\ Observation(c.label) => c.due <= c.label.at + lag + LatestOffset

(* No motion was received while the frames of the label were taken, and    *)
(* what is received from now on is later than they are.                    *)
Quiet(l) ==
    /\ l.at + LatestOffset <= now
    /\ \A k \in 2..taken :
          log[k].type = "motion_state" /\ log[k].active =>
             receivedAt[k] \notin (l.at - OldestOffset)..(l.at + LatestOffset - 1)

QuietSamples == \A s \in samples : Observation(s) => Quiet(s)

LEMMA LeastNat ==
    ASSUME NEW S \in SUBSET Nat, S # {}
    PROVE  \E m \in S : \A x \in S : m <= x
<1>1. PICK m \in S : \A x \in S : <<x, m>> \notin OpToRel(<, Nat)
  BY NatLessThanWellFounded, WFMin
<1>2. \A x \in S : x \in Nat /\ ~(x < m)
  BY <1>1, Zenon DEF OpToRel
<1> QED
  BY <1>2

LEMMA Products ==
    ASSUME NEW rate \in Nat, NEW a \in Nat, NEW b \in Nat, a <= b
    PROVE  rate * a <= rate * b /\ rate * (b + 1) = rate * b + rate
  OBVIOUS

(* Of entries in order, those at the present tick come last, and there are *)
(* fewer of them than the rate: one more keeps to it.                      *)
LEMMA RatedReport ==
    ASSUME TypeOK, TimesOrdered, LogOrdered, Rated,
           Cardinality({i \in DOMAIN log : log[i].at = now}) < MaxRate,
           NEW i \in 2..Len(log)
    PROVE  Len(log) + 1 - i + 1 <= MaxRate * (now - log[i].at + 1)
<1> DEFINE n == Len(log)
           Present == {k \in DOMAIN log : log[k].at = now}
<1>1. /\ n \in Nat /\ DOMAIN log = 1..n /\ now \in Nat /\ MaxRate \in Nat
      /\ \A k \in 1..n : log[k].at \in Nat /\ log[k].at <= now
  BY LogIndices, Sizes DEF TypeOK, LogTyped, TimesOrdered
<1>2. ASSUME NEW m \in 1..n, log[m].at = now
      PROVE  n - m + 2 <= MaxRate
  <2>1. \A k \in m..n : log[k].at = now
    BY <1>1, <1>2 DEF LogOrdered
  <2>2. m..n \subseteq Present /\ Present \subseteq 1..n
    BY <1>1, <2>1
  <2> HIDE DEF Present
  <2>3. IsFiniteSet(Present)
    <3>1. IsFiniteSet(1..n)
      BY <1>1, FS_Interval
    <3> QED
      BY <2>2, <3>1, FS_Subset
  <2>4. Cardinality(m..n) <= Cardinality(Present)
    BY <2>2, <2>3, FS_Subset
  <2>5. Cardinality(m..n) = n - m + 1
    BY <1>1, FS_Interval
  <2>6. Cardinality(Present) \in Nat
    BY <2>3, FS_CardinalityType
  <2> QED
    BY <1>1, <2>4, <2>5, <2>6 DEF Present
<1> HIDE DEF Present
<1>3. ASSUME NEW m \in 1..n, i <= m, log[m].at < now
      PROVE  m - i + 1 + MaxRate <= MaxRate * (now - log[i].at + 1)
  <2>1. m - i + 1 <= MaxRate * (log[m].at - log[i].at + 1)
    BY <1>1, <1>3 DEF Rated
  <2>2. log[i].at <= log[m].at
    BY <1>1, <1>3 DEF LogOrdered
  <2> DEFINE a == log[m].at - log[i].at
             b == now - log[i].at
  <2>3. a \in Nat /\ b \in Nat /\ a + 1 \in Nat /\ a + 1 <= b
    BY <1>1, <1>3, <2>2
  <2>4. m - i + 1 <= MaxRate * (a + 1)
    BY <2>1
  <2> HIDE DEF a, b
  <2>5. MaxRate * (a + 1) <= MaxRate * b /\ MaxRate * (b + 1) = MaxRate * b + MaxRate
    BY <1>1, <2>3, Products
  <2>6. MaxRate * (a + 1) \in Nat /\ MaxRate * b \in Nat
    BY <1>1, <2>3
  <2>7. m - i + 1 + MaxRate <= MaxRate * (b + 1)
    BY <1>1, <2>4, <2>5, <2>6
  <2> QED
    BY <2>7 DEF b
<1>4. CASE log[i].at = now
  BY <1>1, <1>2, <1>4
<1>5. CASE log[i].at < now
  <2> DEFINE Now == {k \in 1..n : log[k].at = now}
  <2>1. CASE Now = {}
    <3>1. log[n].at < now
      BY <1>1, <2>1
    <3>2. n - i + 1 + MaxRate <= MaxRate * (now - log[i].at + 1)
      BY <1>1, <1>3, <3>1
    <3>3. MaxRate >= 1
      <4>1. Present = {}
        BY <1>1, <2>1 DEF Present
      <4>2. Cardinality(Present) = 0
        BY <4>1, FS_EmptySet
      <4> QED
        BY <1>1, <4>2 DEF Present
    <3> QED
      BY <1>1, <3>2, <3>3
  <2>2. CASE Now # {}
    <3>1. PICK m \in Now : \A k \in Now : m <= k
      <4>1. Now \in SUBSET Nat
        BY <1>1
      <4> HIDE DEF Now
      <4> QED
        BY <2>2, <4>1, LeastNat
    <3>2. m \in 1..n /\ log[m].at = now
      BY <3>1
    <3>3. i <= m - 1 /\ m - 1 \in 1..n
      <4>1. ~(m <= i)
        BY <1>1, <1>5, <3>2 DEF LogOrdered
      <4> QED
        BY <1>1, <3>2, <4>1
    <3>4. log[m - 1].at < now
      BY <1>1, <3>1, <3>3
    <3>5. (m - 1) - i + 1 + MaxRate <= MaxRate * (now - log[i].at + 1)
      BY <1>3, <3>3, <3>4
    <3>6. n - m + 2 <= MaxRate
      BY <1>2, <3>2
    <3> QED
      BY <1>1, <3>2, <3>5, <3>6, SMTT(30)
  <2> QED
    BY <2>1, <2>2
<1> QED
  BY <1>1, <1>4, <1>5

(* The log is only the Board Manager's to extend, at the rate it keeps. *)
LEMMA OnlyBoardManagerReports ==
    ASSUME TypeOK, [Next]_vars, ~BoardManager
    PROVE  log' = log
<1>1. CASE UNCHANGED vars
  BY <1>1 DEF vars
<1>2. CASE Capture
  BY <1>2, CaptureStep
<1>3. CASE Waits \/ Starts \/ TakeState \/ TakeMotion \/ ArtifactsFetched \/ TakeReference
           \/ ReferenceFails \/ (\E how \in {"failed", "cancelled"} : Stop(how)) \/ Tick
  BY <1>3 DEF Waits, Starts, TakeState, TakeMotion, ArtifactsFetched, TakeReference,
              ReferenceFails, Stop, Tick
<1> QED
  BY <1>1, <1>2, <1>3, NextIsStep DEF Steps

LEMMA ReportsKeepRate ==
    ASSUME BoardManager
    PROVE  Cardinality({i \in DOMAIN log : log[i].at = now}) < MaxRate
  BY DEF BoardManager, DartLands, TakeoutStarted, BoardCleared, MotionReported, Report

LEMMA RatedStep ==
    ASSUME TypeOK, TimesOrdered, LogOrdered, Rated, [Next]_vars
    PROVE  Rated'
<1>1. CASE log' = log
  BY <1>1 DEF Rated
<1>2. CASE BoardManager
  <2>1. PICK e \in Entries : log' = Append(log, e) /\ e.at = now
    BY <1>2, Manager DEF Reported
  <2>2. PICK n \in Nat \ {0} : n = Len(log)
    BY LogIndices DEF TypeOK
  <2>3. /\ log \in Seq(Entries) /\ DOMAIN log = 1..n /\ now \in Nat /\ MaxRate \in Nat
        /\ \A i \in 1..n : log[i].at \in Nat
    BY <2>2, LogIndices, Sizes DEF TypeOK, LogTyped
  <2>4. /\ Len(log') = n + 1 /\ DOMAIN log' = 1..(n + 1)
        /\ \A i \in 1..n : log'[i] = log[i]
        /\ log'[n + 1] = e
    BY <2>1, <2>2, <2>3
  <2>5. Cardinality({i \in DOMAIN log : log[i].at = now}) < MaxRate
    BY <1>2, ReportsKeepRate
  <2>6. ASSUME NEW i \in 2..n PROVE n + 1 - i + 1 <= MaxRate * (now - log[i].at + 1)
    BY <2>2, <2>5, RatedReport
  <2>7. 1 <= MaxRate * (now - now + 1)
    <3>1. IsFiniteSet(1..n)
      BY <2>3, FS_Interval
    <3>2. IsFiniteSet({i \in DOMAIN log : log[i].at = now})
      BY <2>3, <3>1, FS_Subset
    <3>3. Cardinality({i \in DOMAIN log : log[i].at = now}) \in Nat
      BY <3>2, FS_CardinalityType
    <3>4. MaxRate >= 1
      BY <2>3, <2>5, <3>3
    <3> QED
      BY <2>3, <3>4
  <2>8. ASSUME NEW i \in 2..(n + 1), NEW j \in 1..(n + 1), i <= j
        PROVE  j - i + 1 <= MaxRate * (log'[j].at - log'[i].at + 1)
    <3>1. CASE j \in 1..n
      <4>1. i \in 2..n /\ log'[i] = log[i] /\ log'[j] = log[j]
        BY <2>4, <2>8, <3>1
      <4> QED
        BY <2>2, <2>3, <2>8, <3>1, <4>1 DEF Rated
    <3>2. CASE j = n + 1 /\ i \in 2..n
      <4>1. log'[i] = log[i] /\ log'[j].at = now
        BY <2>1, <2>4, <3>2
      <4> QED
        BY <2>6, <3>2, <4>1
    <3>3. CASE j = n + 1 /\ i = n + 1
      <4>1. log'[i].at = now /\ log'[j].at = now /\ j - i + 1 = 1
        BY <2>1, <2>4, <3>3
      <4> QED
        BY <2>7, <4>1
    <3> QED
      BY <2>8, <3>1, <3>2, <3>3
  <2> QED
    BY <2>4, <2>8 DEF Rated
<1> QED
  BY <1>1, <1>2, OnlyBoardManagerReports

(* Everything before the first event kept is too old. *)
LEMMA FirstKept ==
    ASSUME NEW n \in Nat \ {0}, NEW events, DOMAIN events = 1..n,
           now \in Nat, \A i \in 1..n : events[i].at \in Nat,
           events[n].at = now
    PROVE  /\ firstKept(events) \in 1..n
           /\ \A j \in 1..(firstKept(events) - 1) : events[j].at < now - EventAge
<1> DEFINE Young == {i \in 1..n : events[i].at >= now - EventAge}
           P(i) == /\ events[i].at >= now - EventAge
                   /\ \A j \in 1..(i - 1) : events[j].at < now - EventAge
<1>1. Young \in SUBSET Nat /\ n \in Young
  BY Sizes
<1>2. PICK m \in Young : \A i \in Young : m <= i
  <2> HIDE DEF Young
  <2> QED
    BY <1>1, LeastNat
<1>3. \A j \in 1..(m - 1) : j \in 1..n /\ ~(m <= j)
  BY <1>2
<1>4. P(m)
  BY <1>2, <1>3, Sizes
<1>5. firstKept(events) = CHOOSE i \in 1..n : P(i)
  BY DEF firstKept
<1> HIDE DEF P
<1>6. firstKept(events) \in 1..n /\ P(firstKept(events))
  BY <1>2, <1>4, <1>5
<1> QED
  BY <1>6 DEF P

LEMMA RememberedTaken ==
    ASSUME TypeOK, Remembered, Pending, rememberEvent(log[taken + 1]), UNCHANGED <<now, log>>
    PROVE  Remembered'
<1> DEFINE e == [at |-> now, type |-> log[taken + 1].type, active |-> log[taken + 1].active]
           all == Append(recentEvents, e)
<1>1. /\ now \in Nat /\ taken \in Nat /\ taken + 1 \in DOMAIN log /\ EventCap \in Nat
      /\ EventAge \in Nat /\ log[taken + 1] \in Entries
  BY Remembers, LogIndices, Sizes DEF TypeOK, LogTyped
<1>2. e \in Memories /\ e.at = now /\ e.type = log[taken + 1].type
      /\ e.active = log[taken + 1].active
  BY <1>1 DEF Entries, Memories
<1>3. PICK n \in Nat : n = Len(recentEvents)
  BY DEF Remembered
<1>4. /\ all \in Seq(Memories) /\ Len(all) = n + 1 /\ DOMAIN all = 1..(n + 1)
      /\ \A q \in 1..n : all[q] = recentEvents[q]
      /\ all[n + 1] = e
  <2>1. recentEvents \in Seq(Memories)
    BY DEF Remembered
  <2> HIDE DEF e
  <2> QED
    BY <1>2, <1>3, <2>1
<1> DEFINE start == IF firstKept(all) > Len(all) - EventCap THEN firstKept(all)
                    ELSE Len(all) - EventCap + 1
<1>5. /\ taken' = taken + 1 /\ receivedAt' = Append(receivedAt, now)
      /\ recentEvents' = SubSeq(all, start, Len(all))
  BY DEF rememberEvent
<1> HIDE DEF e, all
<1>6. PICK first \in 1..(n + 1) :
         /\ first = firstKept(all)
         /\ \A j \in 1..(first - 1) : all[j].at < now - EventAge
  <2>1. \A i \in 1..(n + 1) : all[i].at \in Nat
    <3>1. \A i \in 1..(n + 1) : all[i] \in Memories
      BY <1>4
    <3> QED
      BY <3>1 DEF Memories
  <2>2. n + 1 \in Nat \ {0} /\ all[n + 1].at = now
    BY <1>2, <1>4
  <2> QED
    BY <1>1, <1>4, <2>1, <2>2, FirstKept
<1>7. PICK from \in 1..(n + 2) :
         /\ from = start
         /\ from = first \/ (from = n + 1 - EventCap + 1 /\ first <= n + 1 - EventCap)
  <2> DEFINE crowd == n + 1 - EventCap
  <2>1. crowd \in Int /\ crowd <= n + 1 /\ Len(all) - EventCap = crowd
    BY <1>1, <1>3, <1>4
  <2> HIDE DEF crowd
  <2>2. CASE first > crowd
    <3>1. start = first
      BY <1>6, <2>1, <2>2
    <3> QED
      BY <1>3, <1>6, <3>1
  <2>3. CASE ~(first > crowd)
    <3>1. start = crowd + 1 /\ first <= crowd
      BY <1>6, <2>1, <2>3
    <3> QED
      BY <1>3, <1>6, <2>1, <3>1 DEF crowd
  <2> QED
    BY <2>2, <2>3
<1>8. recentEvents' = SubSeq(all, from, n + 1)
  BY <1>4, <1>5, <1>7
<1> HIDE DEF start
<1>10. /\ recentEvents' \in Seq(Memories) /\ Len(recentEvents') = n + 2 - from
       /\ \A q \in 1..(n + 2 - from) : recentEvents'[q] = all[from + q - 1]
  <2>1. from \in Nat /\ from >= 1 /\ from <= n + 2
    BY <1>3, <1>7
  <2> QED
    BY <1>3, <1>4, <1>8, <2>1
<1>11. /\ \A k \in 1..taken : receivedAt'[k] = receivedAt[k]
       /\ receivedAt'[taken + 1] = now
  BY <1>1, <1>5 DEF TypeOK, LogTyped
<1>12. PICK f \in Nat : f = Forgotten /\ f >= 1 /\ f + n = taken
  <2>1. Forgotten >= 1 /\ Forgotten = taken - n
    BY <1>3 DEF Remembered, Forgotten
  <2> QED
    BY <1>1, <1>3, <2>1
<1>13. Forgotten' = f + from - 1
  BY <1>1, <1>3, <1>5, <1>7, <1>10, <1>12 DEF Forgotten
<1>14. ASSUME NEW k \in (f + 1)..(taken + 1)
       PROVE  /\ all[k - f].at = receivedAt'[k]
              /\ all[k - f].type = log[k].type
              /\ all[k - f].active = log[k].active
  <2>1. CASE k <= taken
    <3>1. k - f \in 1..n /\ k \in 1..taken /\ k \in (f + 1)..taken
      BY <1>1, <1>12, <2>1
    <3>2. all[k - f] = recentEvents[k - f] /\ receivedAt'[k] = receivedAt[k]
      BY <1>4, <1>11, <3>1
    <3> QED
      BY <1>12, <3>1, <3>2 DEF Remembered
  <2>2. CASE k = taken + 1
    <3>1. k - f = n + 1
      BY <1>1, <1>12, <2>2
    <3> QED
      BY <1>2, <1>4, <1>11, <2>2, <3>1
  <2>3. k <= taken \/ k = taken + 1
    BY <1>1, <1>12
  <2> QED
    BY <2>1, <2>2, <2>3
<1>15. ASSUME NEW k \in (f + from)..(taken + 1)
       PROVE  /\ recentEvents'[k - (f + from - 1)].at = receivedAt'[k]
              /\ recentEvents'[k - (f + from - 1)].type = log[k].type
              /\ recentEvents'[k - (f + from - 1)].active = log[k].active
  <2> DEFINE q == k - (f + from - 1)
  <2>1. q \in 1..(n + 2 - from) /\ from + q - 1 = k - f /\ k \in (f + 1)..(taken + 1)
    BY <1>1, <1>7, <1>12
  <2>2. recentEvents'[q] = all[k - f]
    BY <1>10, <2>1
  <2> QED
    BY <1>14, <2>1, <2>2
<1>16. ASSUME NEW k \in 2..(f + from - 1)
       PROVE  receivedAt'[k] < now - EventAge \/ k + EventCap <= taken + 1
  <2>1. CASE k <= f
    <3>1. k \in 2..Forgotten /\ k \in 1..taken
      BY <1>1, <1>12, <2>1
    <3>2. receivedAt[k] < now - EventAge \/ k + EventCap <= taken
      BY <3>1 DEF Remembered
    <3>3. receivedAt'[k] = receivedAt[k]
      BY <1>11, <3>1
    <3> QED
      BY <1>1, <3>1, <3>2, <3>3
  <2>2. CASE k > f /\ k - f < first
    <3>1. k \in (f + 1)..(taken + 1) /\ k - f \in 1..(first - 1)
      BY <1>1, <1>6, <1>12, <2>2
    <3> QED
      BY <1>6, <1>14, <3>1
  <2>3. CASE k > f /\ k - f >= first
    <3>1. k - f <= n + 1 - EventCap
      BY <1>1, <1>6, <1>7, <1>12, <2>3
    <3> QED
      BY <1>1, <1>12, <3>1
  <2> QED
    BY <1>6, <1>12, <2>1, <2>2, <2>3
<1>17. (\A k \in (Forgotten + 1)..taken :
           /\ recentEvents[k - Forgotten].at = receivedAt[k]
           /\ recentEvents[k - Forgotten].type = log[k].type
           /\ recentEvents[k - Forgotten].active = log[k].active)'
  <2>1. f + from - 1 + 1 = f + from
    BY <1>7, <1>12
  <2> QED
    BY <1>5, <1>13, <1>15, <2>1
<1>18. (\A k \in 2..Forgotten : receivedAt[k] < now - EventAge \/ k + EventCap <= taken)'
  BY <1>5, <1>13, <1>16
<1>19. Forgotten' >= 1
  BY <1>7, <1>12, <1>13
<1> QED
  BY <1>10, <1>17, <1>18, <1>19 DEF Remembered

(* The memory changes when an event is taken, at one moment of a loop that *)
(* is free.                                                                *)
Takes ==
    /\ Pending /\ Working /\ rememberEvent(log[taken + 1])
    /\ UNCHANGED <<now, log, samples>>

LEMMA MemoryStep ==
    ASSUME TypeOK, [Next]_vars
    PROVE  \/ Takes
           \/ UNCHANGED memory /\ (now' = now \/ now' = now + 1)
<1>1. CASE UNCHANGED vars \/ BoardManager \/ Capture
  BY <1>1, Manager, CaptureStep DEF vars
<1>2. CASE Waits
  BY <1>2 DEF Waits, Takes, Working, store
<1>3. CASE Starts \/ ArtifactsFetched \/ TakeReference \/ ReferenceFails
           \/ \E how \in {"failed", "cancelled"} : Stop(how)
  BY <1>3 DEF Starts, ArtifactsFetched, TakeReference, ReferenceFails, Stop
<1>4. CASE TakeState \/ TakeMotion
  BY <1>4 DEF TakeState, TakeMotion, Takes, Working, store
<1>5. CASE Tick
  BY <1>5 DEF Tick
<1> QED
  BY <1>1, <1>2, <1>3, <1>4, <1>5, NextIsStep DEF Steps

LEMMA RememberedStep ==
    ASSUME TypeOK, Remembered, [Next]_vars
    PROVE  Remembered'
<1>1. CASE Takes
  BY <1>1, RememberedTaken DEF Takes
<1>2. CASE UNCHANGED memory /\ (now' = now \/ now' = now + 1)
  <2>1. UNCHANGED <<taken, receivedAt, recentEvents>> /\ now' \in Nat /\ now' >= now
    BY <1>2 DEF memory, TypeOK, LogTyped
  <2>2. /\ taken \in Nat /\ Forgotten \in Nat \ {0} /\ now \in Nat /\ EventAge \in Nat
        /\ \A k \in 1..taken : k \in DOMAIN log /\ receivedAt[k] \in Nat
    <3>1. Len(recentEvents) \in Nat /\ Forgotten >= 1
      BY DEF Remembered
    <3> QED
      BY <3>1, LogIndices, Sizes DEF TypeOK, LogTyped, Forgotten
  <2>3. \A k \in 1..taken : log'[k] = log[k]
    BY <2>2, LogPrefix
  <2>4. Forgotten' = Forgotten /\ Forgotten <= taken
    BY <2>1, <2>2 DEF Forgotten, Remembered
  <2>5. \A k \in (Forgotten + 1)..taken :
           /\ recentEvents'[k - Forgotten].at = receivedAt'[k]
           /\ recentEvents'[k - Forgotten].type = log'[k].type
           /\ recentEvents'[k - Forgotten].active = log'[k].active
    <3> SUFFICES ASSUME NEW k \in (Forgotten + 1)..taken
                 PROVE  /\ recentEvents[k - Forgotten].at = receivedAt[k]
                        /\ recentEvents[k - Forgotten].type = log'[k].type
                        /\ recentEvents[k - Forgotten].active = log'[k].active
      BY <2>1
    <3>1. log'[k] = log[k]
      BY <2>2, <2>3
    <3> QED
      BY <3>1 DEF Remembered
  <2>6. \A k \in 2..Forgotten : receivedAt'[k] < now' - EventAge \/ k + EventCap <= taken'
    <3> SUFFICES ASSUME NEW k \in 2..Forgotten
                 PROVE  receivedAt[k] < now' - EventAge \/ k + EventCap <= taken
      BY <2>1
    <3>1. receivedAt[k] < now - EventAge \/ k + EventCap <= taken
      BY DEF Remembered
    <3>2. receivedAt[k] \in Nat
      BY <2>2, <2>4
    <3> QED
      BY <2>1, <2>2, <3>1, <3>2
  <2> QED
    BY <2>1, <2>2, <2>4, <2>5, <2>6 DEF Remembered
<1> QED
  BY <1>1, <1>2, MemoryStep

LEMMA ReceivedStep ==
    ASSUME NEW lag \in Nat, TypeOK, ReceivedInTime(lag), Timely(lag), [Next]_vars
    PROVE  ReceivedInTime(lag)'
<1>1. /\ taken \in Nat /\ \A k \in 1..taken : k \in DOMAIN log
      /\ receivedAt \in Seq(Nat) /\ Len(receivedAt) = taken
  BY LogIndices DEF TypeOK, LogTyped
<1>2. \A k \in 1..taken : log'[k] = log[k]
  BY <1>1, LogPrefix
<1>3. CASE Takes
  <2>1. /\ taken' = taken + 1 /\ receivedAt' = Append(receivedAt, now)
        /\ UNCHANGED <<now, log>>
    BY <1>3 DEF Takes, rememberEvent
  <2>2. now <= log[taken + 1].at + lag
    BY <1>3 DEF Takes, Timely
  <2>3. /\ \A k \in 1..taken : receivedAt'[k] = receivedAt[k]
        /\ receivedAt'[taken + 1] = now
    BY <1>1, <2>1
  <2>4. \A k \in 1..(taken + 1) : k \in 1..taken \/ k = taken + 1
    BY <1>1
  <2>5. \A k \in 1..(taken + 1) : receivedAt'[k] <= log[k].at + lag
    BY <2>2, <2>3, <2>4 DEF ReceivedInTime
  <2> QED
    BY <2>1, <2>5 DEF ReceivedInTime
<1>4. CASE UNCHANGED memory
  BY <1>2, <1>4 DEF memory, ReceivedInTime
<1> QED
  BY <1>3, <1>4, MemoryStep

(* New captures are due LatestOffset from now, and an observation is of    *)
(* now or of a tick that has not waited longer than the loop is late.      *)
LEMMA SoonStep ==
    ASSUME NEW lag \in Nat, TypeOK, TimesOrdered, AdmittedSoon(lag), Timely(lag), [Next]_vars
    PROVE  AdmittedSoon(lag)'
<1>1. /\ now \in Nat /\ CaptureLag \in Nat /\ LatestOffset \in Nat
      /\ \A c \in captures : c \in CaptureRecords /\ c.due \in Nat /\ c.label.at \in Nat
      /\ reference # None => reference.at \in Nat
  BY Sizes DEF TypeOK, LogTyped, StoreTyped, CaptureRecords, LabelRecords, LoopTyped
<1> DEFINE Soon(c) == /\ now <= c.due + CaptureLag
                      /\ Observation(c.label) => c.due <= c.label.at + lag + LatestOffset
           Loud == \A l \in added' : ~Observation(l)
           Kept == \A c \in captures' : Soon(c)
<1>2. ASSUME NEW new, scheduleCapture(new),
             \A l \in new : Observation(l) => l.at \in Nat /\ now <= l.at + lag
      PROVE  Kept
  <2> SUFFICES ASSUME NEW c \in captures', c \notin captures
               PROVE  Soon(c)
    BY DEF AdmittedSoon
  <2>1. PICK l \in new : c = [label |-> l, due |-> now + LatestOffset, step |-> "timer"]
    BY <1>2 DEF scheduleCapture
  <2>2. c.label = l /\ c.due = now + LatestOffset
    BY <2>1
  <2> QED
    BY <1>1, <1>2, <2>2
<1>3. ASSUME UNCHANGED captures PROVE Kept
  BY <1>3 DEF AdmittedSoon
<1>4. ASSUME UNCHANGED added PROVE Loud
  BY <1>4 DEF AdmittedSoon
<1>5. ASSUME now' = now, Loud, Kept PROVE AdmittedSoon(lag)'
  BY <1>5 DEF AdmittedSoon, Observation
<1>6. CASE UNCHANGED vars \/ BoardManager
  <2>1. UNCHANGED <<now, loop, store>>
    BY <1>6, Manager DEF vars
  <2> QED
    BY <1>3, <1>4, <1>5, <2>1 DEF loop, store
<1>7. CASE Capture
  <2>1. PICK c \in captures : \/ CaptureReadsBoard(c) \/ CaptureAdmitted(c) \/ CaptureChange(c)
                              \/ CaptureFails(c) \/ CaptureCancelled(c)
    BY <1>7 DEF Capture
  <2> DEFINE d == [c EXCEPT !.step = "checked"]
  <2>2. d.label = c.label /\ d.due = c.due
    BY <1>1 DEF CaptureRecords
  <2> HIDE DEF d
  <2>3. captures' \subseteq captures \cup {d} /\ UNCHANGED <<now, loop>>
    BY <2>1, CaptureMoves DEF d
  <2>4. Kept
    BY <2>2, <2>3 DEF AdmittedSoon
  <2> QED
    BY <1>4, <1>5, <2>3, <2>4 DEF loop
<1>8. CASE Waits \/ TakeMotion \/ ReferenceFails \/ \E how \in {"failed", "cancelled"} : Stop(how)
  BY <1>3, <1>4, <1>5, <1>8 DEF Waits, TakeMotion, ReferenceFails, Stop, loop, store
<1>9. CASE Starts
  <2> DEFINE new == {Label("startup", now, None, initialWorld(Teacher.board), 0, 0)}
  <2>1. \A l \in new : Observation(l) => l.at \in Nat /\ now <= l.at + lag
    BY <1>1 DEF Label
  <2>2. scheduleCapture(new) /\ UNCHANGED <<added, now>>
    BY <1>9 DEF Starts, StartRunning
  <2> HIDE DEF new
  <2> QED
    BY <1>2, <1>4, <1>5, <2>1, <2>2
<1>10. CASE TakeState
  <2>1. now' = now
    BY <1>10 DEF TakeState
  <2>2. CASE UNCHANGED <<added, captures>>
    BY <1>3, <1>4, <1>5, <2>1, <2>2
  <2>3. CASE \E after \in Worlds : \E new \in SUBSET LabelRecords : Changed(after, taken + 1, new)
    <3>1. PICK after \in Worlds, new \in SUBSET LabelRecords : Changed(after, taken + 1, new)
      BY <2>3
    <3>2. CASE added' = new /\ UNCHANGED captures /\ \A l \in new : l.reason = "added"
      BY <1>3, <1>5, <2>1, <3>2 DEF Observation
    <3>3. CASE /\ new = {Label("reconciled", now, world, after, 0, taken + 1)}
               /\ scheduleCapture(new) /\ UNCHANGED added
      <4>1. \A l \in new : ~Observation(l)
        BY <3>3 DEF Label, Observation
      <4> QED
        BY <1>2, <1>4, <1>5, <2>1, <3>3, <4>1
    <3> QED
      BY <3>1, <3>2, <3>3 DEF Changed
  <2> QED
    BY <1>10, <2>2, <2>3, StateTaken
<1>11. CASE ArtifactsFetched
  <2>1. scheduleCapture(added) /\ added' = {} /\ now' = now
    BY <1>11 DEF ArtifactsFetched
  <2>2. Kept
    BY <1>2, <2>1 DEF AdmittedSoon
  <2> QED
    BY <1>5, <2>1, <2>2
<1>12. CASE TakeReference
  <2> DEFINE new == {Label("periodic", reference.at, None, world, 0, 0)}
  <2>1. /\ reference # None /\ phase = "running" /\ UNCHANGED <<now, added>>
        /\ scheduleCapture(new) \/ UNCHANGED captures
    BY <1>12 DEF TakeReference
  <2>2. now <= reference.at + lag
    BY <2>1 DEF Timely, Working
  <2>3. \A l \in new : l.at \in Nat /\ now <= l.at + lag
    BY <1>1, <2>1, <2>2 DEF Label
  <2> HIDE DEF new
  <2>4. Kept
    BY <1>2, <1>3, <2>1, <2>3
  <2> QED
    BY <1>4, <1>5, <2>1, <2>4
<1>13. CASE Tick
  <2>1. now' = now + 1 /\ UNCHANGED <<added, captures>>
    BY <1>13 DEF Tick, store
  <2>2. \A c \in captures : now < c.due + CaptureLag
    BY <1>13 DEF Tick
  <2>3. \A c \in captures : now + 1 <= c.due + CaptureLag
    BY <1>1, <2>2
  <2> QED
    BY <2>1, <2>3 DEF AdmittedSoon, Observation
<1> QED
  BY <1>6, <1>7, <1>8, <1>9, <1>10, <1>11, <1>12, <1>13, NextIsStep DEF Steps

LEMMA QuietStays ==
    ASSUME TypeOK, [Next]_vars, NEW l \in LabelRecords, Quiet(l)
    PROVE  Quiet(l)'
<1>1. /\ taken \in Nat /\ \A k \in 1..taken : k \in DOMAIN log
      /\ receivedAt \in Seq(Nat) /\ Len(receivedAt) = taken
      /\ now \in Nat /\ l.at \in Nat /\ LatestOffset \in Nat /\ OldestOffset \in Nat
      /\ l.at + LatestOffset <= now
  BY LogIndices, Sizes DEF TypeOK, LogTyped, LabelRecords, Quiet
<1>2. \A k \in 1..taken : log'[k] = log[k]
  BY <1>1, LogPrefix
<1> DEFINE window == (l.at - OldestOffset)..(l.at + LatestOffset - 1)
<1>3. \A k \in 2..taken :
         log'[k].type = "motion_state" /\ log'[k].active => receivedAt[k] \notin window
  BY <1>1, <1>2 DEF Quiet
<1> HIDE DEF window
<1>4. CASE Takes
  <2>1. /\ taken' = taken + 1 /\ receivedAt' = Append(receivedAt, now)
        /\ UNCHANGED <<now, log>>
    BY <1>4 DEF Takes, rememberEvent
  <2>2. /\ \A k \in 1..taken : receivedAt'[k] = receivedAt[k]
        /\ receivedAt'[taken + 1] = now
    BY <1>1, <2>1
  <2>3. now \notin window
    BY <1>1 DEF window
  <2>4. \A k \in 2..(taken + 1) : (k \in 2..taken /\ k \in 1..taken) \/ k = taken + 1
    BY <1>1
  <2>5. \A k \in 2..(taken + 1) :
           log'[k].type = "motion_state" /\ log'[k].active => receivedAt'[k] \notin window
    BY <1>3, <2>2, <2>3, <2>4
  <2> QED
    BY <1>1, <2>1, <2>5 DEF Quiet, window
<1>5. CASE UNCHANGED memory /\ (now' = now \/ now' = now + 1)
  <2>1. UNCHANGED <<taken, receivedAt>> /\ l.at + LatestOffset <= now'
    BY <1>1, <1>5 DEF memory
  <2> QED
    BY <1>3, <2>1 DEF Quiet, window
<1> QED
  BY <1>4, <1>5, MemoryStep

(***************************************************************************)
(* What is forgotten by the time an observation is admitted is older than  *)
(* its first frame, or older than more events than can have been sent      *)
(* since: the 10 seconds and the 256 events of rememberEvent against the   *)
(* length of the window, the lags and the rate of the events.              *)
(***************************************************************************)
RemembersLong(lag) ==
    /\ OldestOffset + LatestOffset + CaptureLag + lag <= EventAge
    /\ MaxRate * (OldestOffset + LatestOffset + CaptureLag + lag + lag + 1) <= EventCap

LEMMA AdmittedQuiet ==
    ASSUME NEW lag \in Nat, RemembersLong(lag), TypeOK, TimesOrdered, LogOrdered, Observations,
           Rated, Remembered, ReceivedInTime(lag), AdmittedSoon(lag),
           NEW c \in captures, c.step = "checked", Observation(c.label),
           ~MotionInWindow(c.label.at)
    PROVE  Quiet(c.label)
<1> DEFINE at == c.label.at
<1>1. c \in CaptureRecords
  BY DEF TypeOK, StoreTyped
<1>2. /\ now \in Nat /\ taken \in Nat /\ Len(log) \in Nat /\ taken <= Len(log)
      /\ DOMAIN log = 1..Len(log) /\ \A k \in DOMAIN log : log[k].at \in Nat
      /\ \A k \in 1..taken : receivedAt[k] \in Nat
  BY LogIndices DEF TypeOK, LogTyped
<1>3. at \in Nat /\ c.due \in Nat
  BY <1>1 DEF CaptureRecords, LabelRecords
<1>4. at + LatestOffset <= now
  BY DEF Observations, Seen
<1>5. now <= c.due + CaptureLag /\ c.due <= at + lag + LatestOffset
  BY DEF AdmittedSoon
<1> HIDE DEF at
<1>6. now <= at + lag + LatestOffset + CaptureLag
  BY <1>2, <1>3, <1>5, Sizes
<1> SUFFICES ASSUME NEW k \in 2..taken, log[k].type = "motion_state", log[k].active,
                    receivedAt[k] \in (at - OldestOffset)..(at + LatestOffset - 1)
             PROVE  FALSE
  BY <1>4 DEF Quiet, at
<1>7. PICK r \in Nat : r = receivedAt[k] /\ at - OldestOffset <= r /\ r <= at + LatestOffset
  BY <1>2, <1>3, Sizes
<1>8. PICK n \in Nat : n = Len(recentEvents)
  BY DEF Remembered
<1>9. PICK f \in Nat : f = Forgotten /\ f >= 1 /\ f + n = taken
  <2>1. Forgotten >= 1 /\ Forgotten = taken - n
    BY <1>8 DEF Remembered, Forgotten
  <2>2. taken \in Nat
    BY <1>2
  <2>3. taken - n \in Nat /\ taken - n + n = taken
    BY <2>1, <2>2
  <2> QED
    BY <2>1, <2>3
<1>10. CASE k > f
  <2>1. k - f \in 1..n /\ k \in (f + 1)..taken
    BY <1>2, <1>8, <1>9, <1>10
  <2>2. /\ recentEvents[k - f].at = r /\ recentEvents[k - f].type = "motion_state"
        /\ recentEvents[k - f].active
    <3>1. /\ recentEvents[k - f].at = receivedAt[k]
          /\ recentEvents[k - f].type = log[k].type
          /\ recentEvents[k - f].active = log[k].active
      BY <1>8, <1>9, <2>1 DEF Remembered
    <3> QED
      BY <1>7, <3>1
  <2>3. k - f \in DOMAIN recentEvents
    BY <1>8, <1>9, <2>1 DEF Remembered
  <2>4. r \in (at - OldestOffset)..(at + LatestOffset)
    BY <1>3, <1>7, Sizes
  <2> QED
    BY <2>2, <2>3, <2>4 DEF MotionInWindow, at
<1>11. CASE k <= f
  <2>1. receivedAt[k] < now - EventAge \/ k + EventCap <= taken
    BY <1>8, <1>9, <1>11 DEF Remembered
  <2>2. ~(r < now - EventAge)
    BY <1>2, <1>3, <1>6, <1>7, Sizes DEF RemembersLong
  <2>3. k + EventCap <= taken
    BY <1>7, <2>1, <2>2
  <2>4. k \in 2..Len(log) /\ taken \in DOMAIN log /\ k <= taken /\ k \in DOMAIN log /\ k \in 1..taken
    BY <1>2, <1>8, <1>9
  <2> DEFINE span == log[taken].at - log[k].at
             bound == OldestOffset + LatestOffset + CaptureLag + lag + lag
  <2>5. taken - k + 1 <= MaxRate * (span + 1)
    BY <2>4 DEF Rated
  <2>6. span \in Nat /\ bound \in Nat
    BY <1>2, <2>4, Sizes DEF LogOrdered
  <2>7. span <= bound
    <3>1. log[taken].at <= now /\ r <= log[k].at + lag
      BY <1>7, <2>4 DEF TimesOrdered, ReceivedInTime
    <3>2. PICK s \in Nat, t \in Nat : s = log[k].at /\ t = log[taken].at
      BY <1>2, <2>4
    <3>3. t <= now /\ r <= s + lag
      BY <3>1, <3>2
    <3>4. t - s <= bound
      BY <1>2, <1>3, <1>6, <1>7, <3>3, Sizes
    <3> QED
      BY <3>2, <3>4
  <2>8. MaxRate * (bound + 1) <= EventCap
    BY DEF RemembersLong
  <2> HIDE DEF span, bound
  <2>9. MaxRate * (span + 1) <= MaxRate * (bound + 1)
    BY <2>6, <2>7, Sizes, Products
  <2>10. MaxRate * (span + 1) \in Nat /\ MaxRate * (bound + 1) \in Nat
    BY <2>6, Sizes
  <2> QED
    BY <1>2, <2>3, <2>5, <2>8, <2>9, <2>10, Sizes
<1> QED
  BY <1>2, <1>9, <1>10, <1>11

LEMMA QuietStep ==
    ASSUME NEW lag \in Nat, RemembersLong(lag), TypeOK, TimesOrdered, LogOrdered, Observations,
           Rated, Remembered, ReceivedInTime(lag), AdmittedSoon(lag), QuietSamples, [Next]_vars
    PROVE  QuietSamples'
<1>1. samples \subseteq LabelRecords /\ \A c \in captures : c.label \in LabelRecords
  BY DEF TypeOK, StoreTyped, CaptureRecords
<1>2. \A l \in LabelRecords : Quiet(l) => Quiet(l)'
  BY QuietStays
<1>3. ASSUME NEW c \in captures, Observation(c.label) => Quiet(c.label),
             samples' \subseteq samples \cup {c.label}
      PROVE  QuietSamples'
  BY <1>1, <1>2, <1>3 DEF QuietSamples, Observation
<1>4. ASSUME samples' \subseteq samples PROVE QuietSamples'
  BY <1>1, <1>2, <1>4 DEF QuietSamples, Observation
<1>5. CASE ~Capture
  BY <1>4, <1>5, OthersSchedule
<1>6. CASE Capture
  <2>1. PICK c \in captures : \/ CaptureReadsBoard(c) \/ CaptureAdmitted(c) \/ CaptureChange(c)
                              \/ CaptureFails(c) \/ CaptureCancelled(c)
    BY <1>6 DEF Capture
  <2>2. CASE CaptureReadsBoard(c) \/ CaptureFails(c) \/ CaptureCancelled(c)
    BY <1>4, <2>2 DEF CaptureReadsBoard, CaptureFails, CaptureCancelled, Dropped
  <2>3. CASE CaptureChange(c)
    BY <1>3, <2>3 DEF CaptureChange, Written
  <2>4. CASE CaptureAdmitted(c)
    <3>1. CASE motionActive \/ MotionInWindow(c.label.at)
      BY <1>4, <2>4, <3>1 DEF CaptureAdmitted, Dropped
    <3>2. CASE ~MotionInWindow(c.label.at)
      <4>1. c.step = "checked" /\ samples' \subseteq samples \cup {c.label}
        BY <2>4 DEF CaptureAdmitted, Dropped, Written
      <4>2. Observation(c.label) => Quiet(c.label)
        BY <3>2, <4>1, AdmittedQuiet
      <4> QED
        BY <1>3, <4>1, <4>2
    <3> QED
      BY <3>1, <3>2
  <2> QED
    BY <2>1, <2>2, <2>3, <2>4
<1> QED
  BY <1>5, <1>6

QuietInv(lag) ==
    /\ LogOrdered /\ DartsStay /\ Observations
    /\ Rated /\ Remembered /\ ReceivedInTime(lag) /\ AdmittedSoon(lag) /\ QuietSamples

LEMMA QuietInit == ASSUME NEW lag \in Nat, Init PROVE QuietInv(lag)
<1>1. LogOrdered /\ DartsStay
  BY StartInit DEF StartInv
<1>2. /\ captures = {} /\ added = {} /\ samples = {} /\ taken = 1 /\ now = 0
      /\ recentEvents = <<>> /\ receivedAt = <<0>>
  BY DEF Init
<1>3. Len(log) = 1 /\ DOMAIN log = 1..1 /\ log[1].at \in Nat
  <2>1. PICK board \in Board, active \in BOOLEAN :
           log = <<[at |-> 0, type |-> "state", board |-> board, active |-> active]>>
    BY DEF Init
  <2> QED
    BY <2>1
<1>4. Observations /\ QuietSamples /\ AdmittedSoon(lag)
  BY <1>2 DEF Observations, QuietSamples, AdmittedSoon
<1>5. Rated
  BY <1>3 DEF Rated
<1>6. ReceivedInTime(lag)
  BY <1>2, <1>3 DEF ReceivedInTime
<1>7. Remembered
  <2>1. Len(recentEvents) = 0 /\ recentEvents \in Seq(Memories)
    BY <1>2, EmptySeq
  <2>2. Forgotten = 1
    BY <1>2, <2>1 DEF Forgotten
  <2> QED
    BY <1>2, <2>1, <2>2 DEF Remembered
<1> QED
  BY <1>1, <1>4, <1>5, <1>6, <1>7 DEF QuietInv

(* No event reporting motion was received during the frames of an          *)
(* observation that is written, although events are forgotten by age and   *)
(* by number (rememberEvent) and an observation can be admitted long after *)
(* its frames (stableCaptureAllowed): as long as the loop is never later   *)
(* than lag, and remembers for longer than lag and the window together.    *)
THEOREM WindowsAreQuiet ==
    ASSUME NEW lag \in Nat, RemembersLong(lag)
    PROVE  Spec /\ []Timely(lag) => []NoMotionReceivedInWindow
<1>1. Init => QuietInv(lag)
  BY QuietInit
<1>2. TypeOK /\ TimesOrdered /\ QuietInv(lag) /\ Timely(lag) /\ [Next]_vars => QuietInv(lag)'
  <2> SUFFICES ASSUME TypeOK, TimesOrdered, QuietInv(lag), Timely(lag), [Next]_vars
               PROVE  QuietInv(lag)'
    OBVIOUS
  <2>1. /\ LogOrdered /\ DartsStay /\ Observations
        /\ Rated /\ Remembered /\ ReceivedInTime(lag) /\ AdmittedSoon(lag) /\ QuietSamples
    BY DEF QuietInv
  <2>2. LogOrdered' /\ DartsStay' /\ Observations' /\ Rated' /\ Remembered'
    BY <2>1, HistoryStep, ObservationsStep, RatedStep, RememberedStep
  <2>3. ReceivedInTime(lag)' /\ AdmittedSoon(lag)' /\ QuietSamples'
    BY <2>1, ReceivedStep, SoonStep, QuietStep
  <2> QED
    BY <2>2, <2>3 DEF QuietInv
<1>3. QuietInv(lag) => NoMotionReceivedInWindow
  BY DEF QuietInv, QuietSamples, Quiet, NoMotionReceivedInWindow
<1> QED
  BY <1>1, <1>2, <1>3, TimesInvariant, PTL DEF Spec
=============================================================================
