----------------------------- MODULE CameraFrames -----------------------------
(***************************************************************************)
(* The frames of a capture (dataset/recorder.go): every camera fills a     *)
(* buffer that forgets what is older than History, the event loop stops to *)
(* fetch the teacher's evidence for a dart or to ask for the board of a    *)
(* reference tick, and the capture then looks up, one locked access after  *)
(* the other, the frames around a moment that may by then be past.         *)
(*                                                                         *)
(* A frame is the tick it arrived at; a camera delivers at most one a      *)
(* tick, and one that is silent or reconnecting delivers none.             *)
(***************************************************************************)
EXTENDS Integers, FiniteSets, Sequences, FiniteSetsExt

CONSTANTS
    Cameras,         \* number of cameras
    Offsets,         \* frame offsets asked for in the options
    PreDelay,        \* frames at or before -PreDelay show the old world
    PostDelay,       \* frames at or after PostDelay show the new one
    History,         \* how long a buffer keeps a frame
    Skew,            \* maxFrameSkew
    ArtifactTimeout, \* longest time captureTeacherArtifacts takes
    Requests,        \* requests captureTeacherArtifacts makes at once
    Lag,             \* longest time the lookups of a change take
    ReferenceInterval, \* time between two ticks of references
    MaxChanges,      \* bound: changes the Board Manager reports
    MaxTime          \* bound: the clock

(* Mutant: the offsets in the order they were given, Options first.        *)
FirstGiven(rest) ==
    CHOOSE o \in rest : o \in Offsets \/ rest \cap Offsets = {}

(* normalizedOffsets adds the delays and sorts; the lookups follow it.     *)
BurstOffsets == Offsets \cup {-PreDelay, PostDelay}

Soonest(rest) == Min(rest)

Oldest == Soonest(BurstOffsets)

Latest == Max(BurstOffsets)

(* The sizes the program is built with: five seconds of frames outlast the *)
(* three seconds of evidence and the burst, and the delays are far enough  *)
(* apart for no frame to be near both.                                     *)
ASSUME CameraFramesAssumption ==
    /\ {PreDelay, PostDelay, History, Skew, ArtifactTimeout, Lag, MaxChanges,
        MaxTime} \subseteq Nat
    /\ {Cameras, Requests, ReferenceInterval} \subseteq Nat \ {0}
    /\ Offsets \subseteq Int /\ IsFiniteSet(Offsets)
    /\ History >= ArtifactTimeout + Lag + Latest - Oldest + Skew
    /\ PreDelay + PostDelay > 2 * Skew

VARIABLES
    now,
    frames,      \* cameraBuffer.frames of each camera
    phase,       \* priming (waitForCameraHistory) | waiting | running
    changes,     \* changes reported and not taken by the loop
    ticker,      \* references: when it fires next, and the tick in its channel
    asking,      \* the loop waits for BoardState, which has no timeout
    receivedAt,  \* when the loop took the change it fetches evidence for,
                 \* or the ticker fired of the tick it asks about
    outstanding, \* requests for evidence not answered; 0 when there is none
    captures,    \* capture goroutines, with those that have ended
    (***********************************************************************)
    (* Auxiliary: every frame each camera has delivered.                   *)
    (***********************************************************************)
    delivered

loop == <<phase, changes, ticker, asking, receivedAt, outstanding>>
vars == <<now, frames, loop, captures, delivered>>

Camera == 1..Cameras

-----------------------------------------------------------------------------
(***************************************************************************)
(* cameraBuffer.                                                           *)
(***************************************************************************)

(* Mutant: a buffer shorter than the wait for evidence and the burst. *)
KeptTooShort(list) == SelectSeq(list, LAMBDA f : f >= now - Latest)

(* add drops from the front until it finds a frame that is recent enough. *)
Kept(list) ==
    LET recent == {i \in DOMAIN list : list[i] >= now - History}
    IN  SubSeq(list, Min(recent \cup {Len(list) + 1}), Len(list))

FrameArrives(camera) ==
    /\ now \notin delivered[camera]
    /\ frames' = [frames EXCEPT ![camera] = Append(Kept(@), now)]
    /\ delivered' = [delivered EXCEPT ![camera] = @ \cup {now}]
    /\ UNCHANGED <<now, loop, captures>>

Distance(a, b) == IF a < b THEN b - a ELSE a - b

(* The first of the frames that are closest. *)
closest(list, target) ==
    CHOOSE f \in {list[i] : i \in DOMAIN list} :
        \A i \in DOMAIN list :
            \/ Distance(f, target) < Distance(list[i], target)
            \/ Distance(f, target) = Distance(list[i], target) /\ f <= list[i]

covers(list, start, end) ==
    Len(list) >= 2 /\ list[1] <= start /\ list[Len(list)] >= end

-----------------------------------------------------------------------------
(***************************************************************************)
(* The event loop.                                                         *)
(***************************************************************************)

Schedule(kind, at) ==
    captures' = captures \cup
        {[number |-> Cardinality(captures) + 1, kind |-> kind, at |-> at,
          due |-> now + (IF Latest < 0 THEN 0 ELSE Latest),
          step |-> "timer", camera |-> 1, burst |-> <<>>]}

waitForCameraHistory ==
    /\ phase = "priming"
    /\ \A camera \in Camera :
          covers(frames[camera], now + (IF Oldest > 0 THEN 0 ELSE Oldest), now - Skew)
    /\ phase' = "waiting"
    /\ UNCHANGED <<now, frames, changes, ticker, asking, receivedAt, outstanding, captures, delivered>>

(* The board is stable at last: the loop starts with an observation, and   *)
(* the ticker starts.                                                      *)
Start ==
    /\ phase = "waiting"
    /\ phase' = "running"
    /\ ticker' = [next |-> now + ReferenceInterval, fired |-> <<>>]
    /\ Schedule("observation", now)
    /\ UNCHANGED <<now, frames, changes, asking, receivedAt, outstanding, delivered>>

Idle == phase = "running" /\ outstanding = 0 /\ ~asking

Report ==
    /\ phase = "running"
    /\ changes + (IF outstanding > 0 THEN 1 ELSE 0)
         + Cardinality({c \in captures : c.kind = "change"}) < MaxChanges
    /\ changes' = changes + 1
    /\ UNCHANGED <<now, frames, phase, ticker, asking, receivedAt, outstanding, captures, delivered>>

(* A change that adds no dart is captured at once. *)
TakeReconciled ==
    /\ Idle /\ changes > 0
    /\ changes' = changes - 1
    /\ Schedule("change", now)
    /\ UNCHANGED <<now, frames, phase, ticker, asking, receivedAt, outstanding, delivered>>

TakeDart ==
    /\ Idle /\ changes > 0
    /\ changes' = changes - 1
    /\ receivedAt' = now
    /\ outstanding' = Requests
    /\ UNCHANGED <<now, frames, phase, ticker, asking, captures, delivered>>

(* Mutant: a request that fails sends no result. *)
RequestAnswered ==
    /\ outstanding > 0 /\ now < receivedAt + ArtifactTimeout
    /\ outstanding' = outstanding - 1
    /\ IF outstanding = 1 THEN Schedule("change", receivedAt) ELSE UNCHANGED captures
    /\ UNCHANGED <<now, frames, phase, changes, ticker, asking, receivedAt, delivered>>

(* One request of captureTeacherArtifacts ends, with an answer, an error   *)
(* or the end of its context; the loop collects as many results.           *)
RequestEnds ==
    /\ outstanding > 0
    /\ outstanding' = outstanding - 1
    /\ IF outstanding = 1 THEN Schedule("change", receivedAt) ELSE UNCHANGED captures
    /\ UNCHANGED <<now, frames, phase, changes, ticker, asking, receivedAt, delivered>>

(* The ticker drops a tick while one waits for the loop.                   *)
TickerFires ==
    /\ phase = "running" /\ now >= ticker.next
    /\ ticker' = [next  |-> ticker.next + ReferenceInterval,
                  fired |-> IF ticker.fired = <<>> THEN <<now>> ELSE ticker.fired]
    /\ UNCHANGED <<now, frames, phase, changes, asking, receivedAt, outstanding, captures, delivered>>

(* Nothing is asked while there is motion.                                 *)
TakeTick ==
    /\ Idle /\ ticker.fired # <<>>
    /\ ticker' = [ticker EXCEPT !.fired = <<>>]
    /\ \/ UNCHANGED <<asking, receivedAt>>
       \/ asking' = TRUE /\ receivedAt' = ticker.fired[1]
    /\ UNCHANGED <<now, frames, phase, changes, outstanding, captures, delivered>>

(* The board is stable and the one the tracker knows, or it is not, or the *)
(* request fails.                                                          *)
TickAnswered ==
    /\ asking
    /\ asking' = FALSE
    /\ \/ Schedule("observation", receivedAt)
       \/ UNCHANGED captures
    /\ UNCHANGED <<now, frames, phase, changes, ticker, receivedAt, outstanding, delivered>>

TakeChange == TakeReconciled \/ TakeDart

-----------------------------------------------------------------------------
(***************************************************************************)
(* capture.                                                                *)
(***************************************************************************)

Ended(c) == c.step \in {"written", "missed", "frozen", "refused"}

Becomes(c, d) ==
    /\ captures' = (captures \ {c}) \cup {d}
    /\ UNCHANGED <<now, frames, loop, delivered>>

(* An observation asks the Board Manager first, with no timeout.           *)
TimerFires(c) ==
    /\ c.step = "timer" /\ now >= c.due
    /\ Becomes(c, [c EXCEPT !.step = IF c.kind = "observation" THEN "asking" ELSE "select"])

(* stableCaptureAllowed says yes, or it says no or fails. *)
BoardAnswers(c) ==
    /\ c.step = "asking"
    /\ \E step \in {"select", "refused"} : Becomes(c, [c EXCEPT !.step = step])

Remaining(c) ==
    BurstOffsets \ {c.burst[i].offset : i \in {j \in DOMAIN c.burst : c.burst[j].camera = c.camera}}

(* Mutant: a frame is taken however far it is from its target. *)
AnyDistance(frame, target) == TRUE

WithinSkew(frame, target) == Distance(frame, target) <= Skew

(* One lookup, under the lock of the buffer for just as long. *)
SelectFrame(c) ==
    /\ c.step = "select"
    /\ \E offset \in Remaining(c) :
          LET list  == frames[c.camera]
              frame == closest(list, c.at + offset)
              item  == [camera |-> c.camera, offset |-> offset, frame |-> frame]
          IN  /\ offset = Soonest(Remaining(c))
              /\ Becomes(c, IF list # <<>> /\ WithinSkew(frame, c.at + offset)
                            THEN [c EXCEPT !.burst = Append(@, item)]
                            ELSE [c EXCEPT !.step = "missed"])

(* The burst of a camera is complete.  Frames that are one frame have one  *)
(* digest, and those of a camera that has frozen may have one too.         *)
CameraDone(c) ==
    LET shots == {c.burst[i].frame : i \in {j \in DOMAIN c.burst : c.burst[j].camera = c.camera}}
    IN  /\ c.step = "select"
        /\ Remaining(c) = {}
        /\ \/ Becomes(c, [c EXCEPT !.step = "frozen"])
           \/ /\ Cardinality(shots) >= 2
              /\ Becomes(c, IF c.camera < Cameras
                            THEN [c EXCEPT !.camera = @ + 1]
                            ELSE [c EXCEPT !.step = "written"])

(* frameWorldState: the world a frame of the burst is labelled with. *)
WorldState(c, offset) ==
    CASE c.kind = "observation" -> "after"
      [] c.kind = "change" /\ offset <= -PreDelay -> "before"
      [] c.kind = "change" /\ offset > -PreDelay /\ offset >= PostDelay -> "after"
      [] OTHER -> "none"

Proceed(c) == TimerFires(c) \/ BoardAnswers(c) \/ SelectFrame(c) \/ CameraDone(c)

ChangeCaptured == \E c \in captures : c.kind = "change" /\ Proceed(c)

-----------------------------------------------------------------------------

(* Time passes no further than the timeout of the evidence and the lag of  *)
(* the lookups allow.  What waits for BoardState may wait for ever: the    *)
(* loop on a tick, and an observation before its lookups.                  *)
Tick ==
    /\ now < MaxTime
    /\ outstanding > 0 => now < receivedAt + ArtifactTimeout
    /\ \A c \in captures : c.kind = "change" /\ ~Ended(c) => now < c.due + Lag
    /\ now' = now + 1
    /\ UNCHANGED <<frames, loop, captures, delivered>>

Init ==
    /\ now = 0
    /\ frames = [camera \in Camera |-> <<>>]
    /\ delivered = [camera \in Camera |-> {}]
    /\ phase = "priming"
    /\ changes = 0 /\ receivedAt = 0 /\ outstanding = 0
    /\ ticker = [next |-> 0, fired |-> <<>>] /\ asking = FALSE
    /\ captures = {}

Next ==
    \/ \E camera \in Camera : FrameArrives(camera)
    \/ waitForCameraHistory \/ Start
    \/ Report \/ TakeChange \/ RequestEnds
    \/ TickerFires \/ TakeTick \/ TickAnswered
    \/ \E c \in captures : Proceed(c)
    \/ Tick

Spec == Init /\ [][Next]_vars

(* Goroutines run, requests for evidence end with their context, and time  *)
(* passes.  Select chooses at random among what is ready, so a loop that   *)
(* comes back again and again takes a change in the end.  Cameras and      *)
(* Board Manager owe nothing, and so neither does what waits for           *)
(* BoardState without a timeout: TickAnswered, and every observation.      *)
Fairness ==
    SF_vars(TakeChange) /\ WF_vars(RequestEnds) /\ WF_vars(ChangeCaptured) /\ WF_vars(Tick)

FairSpec == Spec /\ Fairness

-----------------------------------------------------------------------------

(* dataset/README.md: frame_sequence is the authoritative manifest of the  *)
(* burst.  It is in order of time for each camera, although every lookup   *)
(* finds another buffer: frames have arrived and been dropped in between.  *)
ManifestInOrder ==
    \A c \in captures : \A i, j \in DOMAIN c.burst :
        i < j /\ c.burst[i].camera = c.burst[j].camera => c.burst[i].frame <= c.burst[j].frame

(* No frame of a change shows both worlds: what is labelled with the world *)
(* before was taken before anything that is labelled with the world after, *)
(* although either may be Skew away from where it was asked for.           *)
BeforeIsNotAfter ==
    \A c \in captures : \A i, j \in DOMAIN c.burst :
        /\ c.burst[i].camera = c.burst[j].camera
        /\ WorldState(c, c.burst[i].offset) = "before"
        /\ WorldState(c, c.burst[j].offset) = "after"
        => c.burst[i].frame < c.burst[j].frame

(* That a buffer forgets costs a change nothing: each of its lookups finds *)
(* the best of all frames the camera has ever delivered, and it is given   *)
(* up only if none of those was near enough.                               *)
NothingForgotten ==
    [][\A c \in captures : c.kind = "change" /\ c.step = "select" =>
          \A d \in captures' \ captures : d.number = c.number =>
             /\ d.step = "missed" =>
                   \A f \in delivered[c.camera] :
                      ~(Distance(f, c.at + Soonest(Remaining(c))) <= Skew)
             /\ Len(d.burst) > Len(c.burst) =>
                   LET item == d.burst[Len(d.burst)]
                   IN  \A f \in delivered[c.camera] :
                          Distance(item.frame, c.at + item.offset)
                             <= Distance(f, c.at + item.offset)]_vars

(* The evidence of every dart is complete or given up, and the capture of  *)
(* every change taken is written or given up, although the Board Manager   *)
(* may answer none of the requests for evidence and no observation.  All   *)
(* reported changes are taken only if the loop is not held for ever by the *)
(* request of a reference tick, which has no timeout.  Run itself promises *)
(* less: it waits for the observations too, which may be held as well.     *)
ChangesSettle ==
    /\ <>[](/\ outstanding = 0
            /\ \A c \in captures : c.kind = "change" => Ended(c) \/ c.due > MaxTime)
    /\ []<>~asking => <>[](changes = 0)
=============================================================================
