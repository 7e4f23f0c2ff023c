------------------------------- MODULE Recorder -------------------------------
(***************************************************************************)
(* The recorder's event loop (dataset/recorder.go, Run) and the capture    *)
(* goroutines it starts, against a Board Manager that changes its state    *)
(* and reports every change on the event stream.                           *)
(*                                                                         *)
(* Time is counted in ticks.  The Board Manager is external: its history   *)
(* is the sequence log, whose entries are also the events of the stream in *)
(* the order they were sent; the recorder has taken the first few.         *)
(* Cameras and disk appear only as the chance of a capture failing.        *)
(***************************************************************************)
EXTENDS DartMatching, Integers

CONSTANTS
    OldestOffset,      \* first burst offset is -OldestOffset, in ticks
    LatestOffset,      \* last burst offset
    PreDelay,          \* frames at or before -PreDelay show the old world
    StableFor,         \* how long the first board state must not change
    ArtifactTimeout,   \* longest time captureTeacherArtifacts takes
    ReferenceInterval, \* time between periodic observations
    EventAge,          \* how long rememberEvent keeps an event
    EventCap,          \* how many events rememberEvent keeps
    StreamLag,         \* longest time an event is under way, or it or a tick
                       \* queued, while the loop is free to take it
    CaptureLag,        \* longest time a capture takes after its last frame
    MaxRate,           \* changes the Board Manager reports in one tick
    MaxThrows,         \* bound: darts on the board
    MaxLog,            \* bound: entries of the log
    MaxTime            \* bound: the clock

ASSUME RecorderAssumption ==
    /\ {OldestOffset, LatestOffset, PreDelay, StableFor, ArtifactTimeout, EventAge,
        EventCap, StreamLag, CaptureLag, MaxRate, MaxThrows, MaxLog, MaxTime} \subseteq Nat
    /\ ReferenceInterval \in Nat \ {0}
    /\ PreDelay <= OldestOffset

VARIABLES
    now,
    log,          \* what the Board Manager has been and sent, oldest first
    taken,        \* log entries known to the recorder
    phase,        \* waiting (for a stable board) | running | failed | cancelled
    pc,           \* get | select | artifacts: where the loop is
    candidate,    \* board seen by waitForStableBoardState, and since when
    motionActive,
    recentEvents, \* motion events remembered
    world,        \* worldTracker.current
    stateCounter,
    dartCounter,
    added,        \* captures held back while artifacts are fetched
    reference,    \* tick waiting in the channel of the reference ticker
    startedAt,    \* when the event loop started (the ticker's origin)
    captures,     \* capture goroutines
    samples,      \* labels of the samples written
    (***********************************************************************)
    (* Auxiliary: when each entry of the log was taken, and the length of  *)
    (* the log when the initial world was read.                            *)
    (***********************************************************************)
    receivedAt,
    startedWith

tracker == <<world, stateCounter, dartCounter>>
loop    == <<phase, pc, candidate, reference, startedAt, startedWith, added>>
memory  == <<taken, motionActive, recentEvents, receivedAt>>
store   == <<captures, samples>>
vars    == <<now, log, memory, loop, tracker, store>>

None == [none |-> TRUE]

Board == [status : {"throw", "takeout"},
          throws : UNION {[1..n -> Throw] : n \in 0..MaxThrows}]

Teacher == log[Len(log)]

-----------------------------------------------------------------------------
(***************************************************************************)
(* The Board Manager.                                                      *)
(***************************************************************************)

Report(type, board, active) ==
    /\ Len(log) < MaxLog
    /\ Cardinality({i \in DOMAIN log : log[i].at = now}) < MaxRate
    /\ log' = Append(log, [at |-> now, type |-> type, board |-> board, active |-> active])
    /\ UNCHANGED <<now, memory, loop, tracker, store>>

(* Coordinates have full precision: no two darts land on the same point. *)
DartLands(throw) ==
    /\ Teacher.board.status = "throw"
    /\ Len(Teacher.board.throws) < MaxThrows
    /\ \A i \in DOMAIN log : \A j \in DOMAIN log[i].board.throws :
          log[i].board.throws[j].coordinates # throw.coordinates
    /\ Report("state", [Teacher.board EXCEPT !.throws = Append(@, throw)], Teacher.active)

TakeoutStarted ==
    /\ Teacher.board.status = "throw"
    /\ Teacher.board.throws # <<>>
    /\ Report("state", [Teacher.board EXCEPT !.status = "takeout"], Teacher.active)

(* Takeout finished, or a manual reset. *)
BoardCleared ==
    /\ Teacher.board.throws # <<>>
    /\ Report("state", [status |-> "throw", throws |-> <<>>], Teacher.active)

(* Motion events repeat while there is motion. *)
MotionReported(active) ==
    /\ active \/ Teacher.active
    /\ Report("motion_state", Teacher.board, active)

BoardManager ==
    \/ \E throw \in Throw : DartLands(throw)
    \/ TakeoutStarted
    \/ BoardCleared
    \/ \E active \in BOOLEAN : MotionReported(active)

-----------------------------------------------------------------------------
(***************************************************************************)
(* Events and captures.                                                    *)
(***************************************************************************)

Working == phase \in {"waiting", "running"}

stableBoardState(board) == board.status = "throw"

Pending == taken < Len(log)

(* The first event that is not too old: those before it are forgotten. *)
firstKept(events) ==
    CHOOSE i \in DOMAIN events :
        /\ events[i].at >= now - EventAge
        /\ \A j \in 1..(i - 1) : events[j].at < now - EventAge

(* Only motion events are read back from the remembered ones. *)
rememberEvent(event) ==
    LET all   == Append(recentEvents, [at |-> now, type |-> event.type, active |-> event.active])
        first == firstKept(all)
        crowd == Len(all) - EventCap
    IN  /\ taken' = taken + 1
        /\ receivedAt' = Append(receivedAt, now)
        /\ motionActive' = IF event.type = "motion_state" THEN event.active ELSE motionActive
        /\ recentEvents' = SubSeq(all, IF first > crowd THEN first ELSE crowd + 1, Len(all))

Label(reason, at, before, after, dart, cause) ==
    [reason |-> reason, at |-> at, before |-> before, after |-> after,
     dart |-> dart, cause |-> cause]

(* A capture sleeps until the last frame of its burst has been taken,      *)
(* counting from when it is scheduled.                                     *)
scheduleCapture(labels) ==
    captures' = captures \cup
        {[label |-> l, due |-> now + LatestOffset, step |-> "timer"] : l \in labels}

Observation(label) == label.reason \in {"startup", "periodic"}

Written(c) ==
    /\ captures' = captures \ {c}
    /\ samples' = samples \cup {c.label}

Dropped(c) ==
    /\ captures' = captures \ {c}
    /\ UNCHANGED samples

(* stableCaptureAllowed, first half: the board as it is now. *)
CaptureReadsBoard(c) ==
    /\ c.step = "timer" /\ now >= c.due
    /\ Observation(c.label)
    /\ IF /\ stableBoardState(Teacher.board)
          /\ boardStateMatchesWorld(Teacher.board.throws, c.label.after.darts)
       THEN /\ captures' = (captures \ {c}) \cup {[c EXCEPT !.step = "checked"]}
            /\ UNCHANGED samples
       ELSE Dropped(c)
    /\ UNCHANGED <<now, log, memory, loop, tracker>>

(* Mutant: only the frames after the moment of the capture are covered. *)
MotionAfter(at) ==
    \E i \in DOMAIN recentEvents :
        /\ recentEvents[i].type = "motion_state"
        /\ recentEvents[i].active
        /\ recentEvents[i].at \in at..(at + LatestOffset)

(* Second half, under the lock: the motion events taken so far. *)
MotionInWindow(at) ==
    \E i \in DOMAIN recentEvents :
        /\ recentEvents[i].type = "motion_state"
        /\ recentEvents[i].active
        /\ recentEvents[i].at \in (at - OldestOffset)..(at + LatestOffset)

CaptureAdmitted(c) ==
    /\ c.step = "checked"
    /\ IF motionActive \/ MotionInWindow(c.label.at) THEN Dropped(c) ELSE Written(c)
    /\ UNCHANGED <<now, log, memory, loop, tracker>>

CaptureChange(c) ==
    /\ c.step = "timer" /\ now >= c.due
    /\ ~Observation(c.label)
    /\ Written(c)
    /\ UNCHANGED <<now, log, memory, loop, tracker>>

(* No frame near an offset, a frozen camera, a request or a write failed. *)
CaptureFails(c) ==
    /\ now >= c.due
    /\ Dropped(c)
    /\ UNCHANGED <<now, log, memory, loop, tracker>>

(* The context of Run ends: sleeping captures return. *)
CaptureCancelled(c) ==
    /\ phase = "cancelled" /\ c.step = "timer"
    /\ Dropped(c)
    /\ UNCHANGED <<now, log, memory, loop, tracker>>

Capture == \E c \in captures :
    \/ CaptureReadsBoard(c) \/ CaptureAdmitted(c) \/ CaptureChange(c)
    \/ CaptureFails(c) \/ CaptureCancelled(c)

-----------------------------------------------------------------------------
(***************************************************************************)
(* waitForStableBoardState: a request, then one event or one timer.        *)
(***************************************************************************)

initialWorld(board) ==
    [state |-> 1, darts |-> reconcileDarts(<<>>, board.throws, {}, 0)]

StartRunning(board) ==
    /\ phase' = "running" /\ pc' = "select"
    /\ candidate' = None
    /\ startedAt' = now /\ startedWith' = Len(log)
    /\ world' = initialWorld(board)
    /\ stateCounter' = 1
    /\ dartCounter' = Len(board.throws)
    /\ scheduleCapture({Label("startup", now, None, initialWorld(board), 0, 0)})
    /\ UNCHANGED <<reference, added, samples>>

(* Mutant: two equal readings are enough. *)
HeldStillTwice == TRUE

HeldStill == now - candidate.since >= StableFor

Keep(board) ==
    /\ pc' = "select" /\ candidate' = board
    /\ UNCHANGED <<phase, reference, startedAt, startedWith, added, tracker, store>>

AwaitGet ==
    /\ phase = "waiting" /\ pc = "get"
    /\ LET board == Teacher.board
       IN  IF ~stableBoardState(board) \/ motionActive        THEN Keep(None)
           ELSE IF candidate = None \/ candidate.board # board THEN Keep([board |-> board, since |-> now])
           ELSE IF HeldStill                                  THEN StartRunning(board)
           ELSE Keep(candidate)
    /\ UNCHANGED <<now, log, memory>>

(* The request for the board state fails. *)
AwaitGetFails ==
    /\ phase = "waiting" /\ pc = "get"
    /\ Keep(None)
    /\ UNCHANGED <<now, log, memory>>

AwaitEvent ==
    /\ phase = "waiting" /\ pc = "select" /\ Pending
    /\ rememberEvent(log[taken + 1])
    /\ candidate' = IF log[taken + 1].type = "motion_state" THEN None ELSE candidate
    /\ pc' = "get"
    /\ UNCHANGED <<now, log, phase, reference, startedAt, startedWith, added, tracker, store>>

AwaitTimer ==
    /\ phase = "waiting" /\ pc = "select"
    /\ pc' = "get"
    /\ UNCHANGED <<now, log, memory, phase, candidate, reference, startedAt, startedWith, added, tracker, store>>

-----------------------------------------------------------------------------
(***************************************************************************)
(* The event loop.                                                         *)
(***************************************************************************)

(* Mutant: the counter is not advanced. *)
newStateSameNumber(darts) == [state |-> stateCounter, darts |-> darts]

newState(darts) == [state |-> stateCounter + 1, darts |-> darts]

(* worldTracker.observe for a state event, and what the loop does with the *)
(* change: darts that were added wait for the teacher's evidence, any      *)
(* other change is captured at once.                                       *)
observe(throws, M, cause) ==
    LET afterDarts == reconcileDarts(world.darts, throws, M, dartCounter)
        transition == transitionBetween(world.darts, afterDarts)
        after      == newState(afterDarts)
    IN  /\ dartCounter' = dartCounter + Cardinality(Unmatched(throws, M))
        /\ IF transition.type = "unchanged"
           THEN UNCHANGED <<world, stateCounter, pc, added, captures>>
           ELSE /\ world' = after
                /\ stateCounter' = after.state
                /\ IF transition.added # {}
                   THEN /\ pc' = "artifacts"
                        /\ added' = {Label("added", now, world, after, d.id, cause) :
                                        d \in transition.added}
                        /\ UNCHANGED captures
                   ELSE /\ scheduleCapture({Label("reconciled", now, world, after, 0, cause)})
                        /\ UNCHANGED <<pc, added>>

TakeState ==
    /\ phase = "running" /\ pc = "select" /\ Pending
    /\ log[taken + 1].type = "state"
    /\ rememberEvent(log[taken + 1])
    /\ LET throws == log[taken + 1].board.throws
       IN  \E M \in Matchings(world.darts, throws) : observe(throws, M, taken + 1)
    /\ UNCHANGED <<now, log, phase, candidate, reference, startedAt, startedWith, samples>>

TakeMotion ==
    /\ phase = "running" /\ pc = "select" /\ Pending
    /\ log[taken + 1].type = "motion_state"
    /\ rememberEvent(log[taken + 1])
    /\ UNCHANGED <<now, log, loop, tracker, store>>

(* The loop is blocked until the teacher's evidence is in or timed out. *)
ArtifactsFetched ==
    /\ phase = "running" /\ pc = "artifacts"
    /\ scheduleCapture(added)
    /\ added' = {}
    /\ pc' = "select"
    /\ UNCHANGED <<now, log, memory, phase, candidate, reference, startedAt, startedWith, tracker, samples>>

TakeReference ==
    /\ phase = "running" /\ pc = "select"
    /\ reference # None
    /\ reference' = None
    /\ IF /\ ~motionActive
          /\ stableBoardState(Teacher.board)
          /\ boardStateMatchesWorld(Teacher.board.throws, world.darts)
       THEN scheduleCapture({Label("periodic", reference.at, None, world, 0, 0)})
       ELSE UNCHANGED captures
    /\ UNCHANGED <<now, log, memory, phase, pc, candidate, startedAt, startedWith, added, tracker, samples>>

(* The request for the board state fails. *)
ReferenceFails ==
    /\ phase = "running" /\ pc = "select"
    /\ reference # None /\ ~motionActive
    /\ reference' = None
    /\ UNCHANGED <<now, log, memory, phase, pc, candidate, startedAt, startedWith, added, tracker, store>>

(* The stream breaks or Run is cancelled: what was not taken is lost, and  *)
(* Run returns once the captures it has scheduled are done.                *)
Stop(how) ==
    /\ Working /\ pc = "select"
    /\ phase' = how
    /\ UNCHANGED <<now, log, memory, pc, candidate, reference, startedAt, startedWith, added, tracker, store>>

Loop == \/ AwaitGet \/ AwaitEvent \/ AwaitTimer
        \/ AwaitGetFails
        \/ TakeState \/ TakeMotion \/ ArtifactsFetched \/ TakeReference
        \/ ReferenceFails
        \/ \E how \in {"failed", "cancelled"} : Stop(how)

-----------------------------------------------------------------------------

(* Time passes no further than the lag of the stream, the timeout of the   *)
(* artifact requests and the lag of the captures allow.  The reference     *)
(* ticker drops its tick when the last one has not been taken.             *)
Tick ==
    /\ now < MaxTime
    /\ Pending /\ Working /\ pc # "artifacts" => now < log[taken + 1].at + StreamLag
    /\ reference # None /\ Working /\ pc # "artifacts" => now < reference.at + StreamLag
    /\ pc = "artifacts" => \A l \in added : now < l.at + ArtifactTimeout
    /\ \A c \in captures : now < c.due + CaptureLag
    /\ now' = now + 1
    /\ reference' = IF /\ phase = "running" /\ reference = None
                       /\ (now + 1 - startedAt) % ReferenceInterval = 0
                    THEN [at |-> now + 1]
                    ELSE reference
    /\ UNCHANGED <<log, memory, phase, pc, candidate, startedAt, startedWith, added, tracker, store>>

(* The stream has just been opened, on a board in any state. *)
Init ==
    /\ now = 0
    /\ \E board \in Board, active \in BOOLEAN :
          log = <<[at |-> 0, type |-> "state", board |-> board, active |-> active]>>
    /\ taken = 1 /\ receivedAt = <<0>>
    /\ phase = "waiting" /\ pc = "get"
    /\ candidate = None /\ reference = None
    /\ startedAt = 0 /\ startedWith = 0
    /\ motionActive = FALSE /\ recentEvents = <<>>
    /\ world = [state |-> 0, darts |-> <<>>]
    /\ stateCounter = 0 /\ dartCounter = 0
    /\ added = {} /\ captures = {} /\ samples = {}

Next == BoardManager \/ Loop \/ Capture \/ Tick

Spec == Init /\ [][Next]_vars

-----------------------------------------------------------------------------

Labels == {c.label : c \in captures} \cup added \cup samples

(***************************************************************************)
(* The recorder and the Board Manager.                                     *)
(***************************************************************************)

SameThrows(throws, darts) ==
    /\ Len(throws) = Len(darts)
    /\ \A t \in Throw :
          Cardinality({i \in DOMAIN throws : throws[i] = t})
            = Cardinality({i \in DOMAIN darts : darts[i].coordinates = t.coordinates
                                              /\ darts[i].segment = t.segment})

(* Once every event has been taken the recorder's world holds exactly the  *)
(* throws of the Board Manager: the state read over HTTP at the start and  *)
(* the events that were already under way then do not leave it behind.     *)
WorldFollowsTeacher ==
    phase = "running" /\ ~Pending => SameThrows(Teacher.board.throws, world.darts)

(* A world identity names one list of darts in every label of a session,   *)
(* whether the label was made by an event, at startup or periodically.     *)
SameStateSameDarts ==
    LET mentioned == ({world} \cup {l.after : l \in Labels} \cup {l.before : l \in Labels}) \ {None}
    IN  \A v, w \in mentioned : v.state = w.state => v = w

(* A dart is captured as newly added at most once, although one board      *)
(* state may add several and the loop stops for evidence in between.       *)
AddedOnce ==
    \A l, m \in {k \in Labels : k.reason = "added"} : l.dart = m.dart => l = m

(* dataset/README.md: darts present when the recorder starts are not       *)
(* emitted as newly accepted.  The board read over HTTP is newer than the  *)
(* events still under way, and what keeps those from being replayed onto   *)
(* it is that it must not change for longer than an event can take.        *)
OnBoard(point, i) == \E j \in DOMAIN log[i].board.throws : log[i].board.throws[j].coordinates = point

StartupDartsNotEmitted ==
    \A l \in Labels : l.reason = "added" /\ l.cause <= startedWith =>
        \A i \in DOMAIN l.after.darts :
            l.after.darts[i].id = l.dart => ~OnBoard(l.after.darts[i].coordinates, startedWith)

(***************************************************************************)
(* What a written sample means.                                            *)
(***************************************************************************)

(* The entries of the log in force at some moment from a to b. *)
InForce(a, b) ==
    {i \in DOMAIN log : log[i].at <= b /\ (i = Len(log) \/ log[i + 1].at >= a)}

(* An observation of a stable world is written only if, at some time after *)
(* its last frame, the Board Manager was detecting and showed that world.  *)
ObservedWorldWasReported ==
    \A s \in samples : Observation(s) =>
        \E i \in InForce(s.at + LatestOffset, now) :
            /\ stableBoardState(log[i].board)
            /\ SameThrows(log[i].board.throws, s.after.darts)

(* No event reporting motion was received during the frames of an          *)
(* observation that is written, although events are forgotten by age and   *)
(* by number, and an observation can be admitted long after its frames.    *)
NoMotionReceivedInWindow ==
    \A s \in samples : Observation(s) =>
        ~\E k \in 2..taken :
            /\ log[k].type = "motion_state" /\ log[k].active
            /\ receivedAt[k] \in (s.at - OldestOffset)..(s.at + LatestOffset - 1)

(* dataset/README.md: "A capture is admitted only while Detection is       *)
(* running in `Throw`, the Board Manager state has remained unchanged, and *)
(* no motion crosses the complete frame window."  This is its second part: *)
(* one board is in force strictly inside the window.                       *)
ObservationWindowUnchanged ==
    \A s \in samples : Observation(s) =>
        \A i, j \in InForce(s.at - OldestOffset + 1, s.at + LatestOffset - 1) :
            log[i].board = log[j].board

(* dataset/README.md: every image records "which labeled world state it    *)
(* belongs to".  The frames labelled with the world before a change were   *)
(* taken before the Board Manager made that change.                        *)
BeforeFramesPrecedeChange ==
    \A s \in samples : ~Observation(s) => s.at - PreDelay <= log[s.cause].at

=============================================================================
