---------------------------- MODULE SetupSnapshot ----------------------------
(***************************************************************************)
(* The setup a sample was taken with (dataset/recorder.go): the recorder   *)
(* asks the Board Manager for the parts of the setup one by one, names the *)
(* snapshot after its content, writes it to a file unless there is one of  *)
(* that name, and then publishes it to the captures.  It does so at the    *)
(* start and in a goroutine for every calibration the event loop hears of. *)
(***************************************************************************)
EXTENDS Integers, FiniteSets

CONSTANTS
    Inputs,          \* the requests of a refresh
    Identifying,     \* those the setup's name is made of
    Values,          \* what a request may return
    Missing,         \* what one that failed leaves in the snapshot
    MaxCalibrations, \* bound: calibrations of the board
    MaxFailures,     \* bound: requests and writes that fail
    MaxSessions      \* bound: runs of the recorder

SetupSnapshotAssumption ==
    /\ Identifying \subseteq Inputs /\ Inputs # {}
    /\ Values # {} /\ Missing \notin Values
    /\ {MaxCalibrations, MaxFailures, MaxSessions} \subseteq Nat

(* No setup was published yet. *)
NoSetup == <<>>

VARIABLES
    board,     \* Board Manager: what each request returns now
    pending,   \* events "calibration finished" under way to the recorder
    stage,     \* starting (startup refresh) | subscribing | waiting | running
    session,   \* number of the session
    refreshes, \* each refresh: its step and what it has fetched
    setup,     \* r.setup
    files,     \* .sessions/<session>/<setup>.json
    sample,    \* the label written last
    (***********************************************************************)
    (* Auxiliary: the calibrations and failures so far; a calibration the  *)
    (* running loop did not hear of; a refresh that began before another   *)
    (* had ended.                                                          *)
    (***********************************************************************)
    calibrations, failures, missed, overlapped

auxiliary == <<calibrations, failures, missed, overlapped>>
vars == <<board, pending, stage, session, refreshes, setup, files, sample, auxiliary>>

Refresh == 0..MaxCalibrations
Startup == 0

Idle == [step |-> "idle", content |-> <<>>]
Begun == [step |-> "fetching", content |-> <<>>]

Active == {r \in Refresh : refreshes[r].step # "idle"}

Advance(r, step) == refreshes' = [refreshes EXCEPT ![r].step = step]

Fail ==
    /\ failures < MaxFailures
    /\ failures' = failures + 1
    /\ UNCHANGED <<calibrations, missed, overlapped>>

-----------------------------------------------------------------------------
(***************************************************************************)
(* The Board Manager.                                                      *)
(***************************************************************************)

(* A calibration changes what is served, and then sends its event to those *)
(* who have subscribed.                                                    *)
Calibrate ==
    /\ calibrations < MaxCalibrations
    /\ calibrations' = calibrations + 1
    /\ board' \in [Inputs -> Values]
    /\ LET subscribed == stage \in {"waiting", "running"}
       IN  /\ pending' = IF subscribed THEN pending + 1 ELSE pending
           /\ missed' = ~subscribed
    /\ UNCHANGED <<stage, session, refreshes, setup, files, sample, failures, overlapped>>

-----------------------------------------------------------------------------
(***************************************************************************)
(* refreshSetup.                                                           *)
(***************************************************************************)

With(r, input, value) ==
    LET content == refreshes[r].content
    IN  [refreshes EXCEPT ![r].content =
            [i \in DOMAIN content \cup {input} |-> IF i = input THEN value ELSE content[i]]]

(* The requests run at the same time and are answered in any order. *)
Fetch(r) ==
    /\ refreshes[r].step = "fetching"
    /\ \E input \in Inputs \ DOMAIN refreshes[r].content :
          \/ /\ refreshes' = With(r, input, board[input])
             /\ UNCHANGED auxiliary
          \/ /\ refreshes' = With(r, input, Missing)
             /\ Fail
    /\ UNCHANGED <<board, pending, stage, session, setup, files, sample>>

SetupID(content) == [i \in Identifying |-> content[i]]

Named(id) == {f \in files : f.session = session /\ f.id = id}

File(r, whole) ==
    [session |-> session, id |-> SetupID(refreshes[r].content),
     content |-> refreshes[r].content, whole |-> whole]

(* Mutant: a snapshot that is stored already is not published either. *)
StatAndReturn(r) ==
    /\ refreshes[r].step = "fetching" /\ DOMAIN refreshes[r].content = Inputs
    /\ Advance(r, IF Named(SetupID(refreshes[r].content)) # {} THEN "idle" ELSE "create")
    /\ UNCHANGED <<board, pending, stage, session, setup, files, sample, auxiliary>>

(* All have answered; a file of that name is not written again. *)
Stat(r) ==
    /\ refreshes[r].step = "fetching" /\ DOMAIN refreshes[r].content = Inputs
    /\ Advance(r, IF Named(SetupID(refreshes[r].content)) # {} THEN "publish" ELSE "create")
    /\ UNCHANGED <<board, pending, stage, session, setup, files, sample, auxiliary>>

(* Mutant: the snapshot is written under its own name. *)
CreateInPlace(r) ==
    /\ refreshes[r].step = "create"
    /\ Advance(r, "rename")
    /\ files' = files \cup {File(r, FALSE)}
    /\ UNCHANGED <<board, pending, stage, session, setup, sample, auxiliary>>

(* The temporary file, whose name nobody else reads. *)
Create(r) ==
    /\ refreshes[r].step = "create"
    /\ Advance(r, "rename")
    /\ UNCHANGED <<board, pending, stage, session, setup, files, sample, auxiliary>>

Rename(r) ==
    /\ refreshes[r].step = "rename"
    /\ Advance(r, "publish")
    /\ files' = (files \ Named(SetupID(refreshes[r].content))) \cup {File(r, TRUE)}
    /\ UNCHANGED <<board, pending, stage, session, setup, sample, auxiliary>>

(* The folder, the temporary file or its renaming: nothing is published. *)
WriteFails(r) ==
    /\ refreshes[r].step \in {"create", "rename"}
    /\ refreshes' = [refreshes EXCEPT ![r] = Idle]
    /\ Fail
    /\ UNCHANGED <<board, pending, stage, session, setup, files, sample>>

Publish(r) ==
    /\ refreshes[r].step = "publish"
    /\ setup' = refreshes[r].content
    /\ refreshes' = [refreshes EXCEPT ![r] = Idle]
    /\ UNCHANGED <<board, pending, stage, session, files, sample, auxiliary>>

RefreshStep(r) ==
    Fetch(r) \/ Stat(r) \/ Create(r) \/ Rename(r) \/ WriteFails(r) \/ Publish(r)

-----------------------------------------------------------------------------
(***************************************************************************)
(* Run.                                                                    *)
(***************************************************************************)

(* The startup refresh has returned, with an error or not. *)
Primed ==
    /\ stage = "starting" /\ refreshes[Startup].step = "idle"
    /\ stage' = "subscribing"
    /\ UNCHANGED <<board, pending, session, refreshes, setup, files, sample, auxiliary>>

Subscribe ==
    /\ stage = "subscribing"
    /\ stage' = "waiting"
    /\ UNCHANGED <<board, pending, session, refreshes, setup, files, sample, auxiliary>>

(* waitForStableBoardState remembers events and looks for motion only. *)
WaitTakesEvent ==
    /\ stage = "waiting" /\ pending > 0
    /\ pending' = pending - 1
    /\ missed' = (missed \/ pending = 1)
    /\ UNCHANGED <<board, stage, session, refreshes, setup, files, sample,
                   calibrations, failures, overlapped>>

Start ==
    /\ stage = "waiting"
    /\ stage' = "running"
    /\ UNCHANGED <<board, pending, session, refreshes, setup, files, sample, auxiliary>>

TakesEvent ==
    /\ stage = "running" /\ pending > 0
    /\ pending' = pending - 1

NextRefresh == CHOOSE r \in Refresh \ Active : \A s \in Refresh \ Active : r <= s

(* Mutant: a calibration that is heard of during a refresh starts none. *)
TakeUnlessRefreshing ==
    /\ TakesEvent
    /\ refreshes' = IF Active = {} THEN [refreshes EXCEPT ![NextRefresh] = Begun] ELSE refreshes
    /\ overlapped' = (Active # {})
    /\ UNCHANGED <<board, stage, session, setup, files, sample, calibrations, failures, missed>>

TakeCalibration ==
    /\ TakesEvent
    /\ refreshes' = [refreshes EXCEPT ![NextRefresh] = Begun]
    /\ overlapped' = (Active # {})
    /\ UNCHANGED <<board, stage, session, setup, files, sample, calibrations, failures, missed>>

(* captureMetadata copies the setup when the label is written. *)
WriteLabel ==
    /\ stage = "running"
    /\ sample' = [session |-> session, setup |-> setup]
    /\ UNCHANGED <<board, pending, stage, session, refreshes, setup, files, auxiliary>>

(* systemd ends the process and starts another one. *)
CrashAndRestart ==
    /\ session < MaxSessions
    /\ session' = session + 1
    /\ stage' = "starting" /\ pending' = 0 /\ setup' = NoSetup
    /\ refreshes' = [r \in Refresh |-> IF r = Startup THEN Begun ELSE Idle]
    /\ missed' = FALSE /\ overlapped' = FALSE
    /\ UNCHANGED <<board, files, sample, calibrations, failures>>

(* The values of an input have no meaning: it starts with any of them.     *)
Init ==
    /\ board = [i \in Inputs |-> CHOOSE v \in Values : TRUE]
    /\ pending = 0 /\ stage = "starting" /\ session = 1
    /\ refreshes = [r \in Refresh |-> IF r = Startup THEN Begun ELSE Idle]
    /\ setup = NoSetup /\ files = {} /\ sample = [session |-> 0, setup |-> NoSetup]
    /\ calibrations = 0 /\ failures = 0 /\ missed = FALSE /\ overlapped = FALSE

Next ==
    \/ Calibrate
    \/ \E r \in Refresh : RefreshStep(r)
    \/ Primed \/ Subscribe \/ WaitTakesEvent \/ Start \/ TakeCalibration \/ WriteLabel
    \/ CrashAndRestart

Spec == Init /\ [][Next]_vars

Refreshing == \E r \in Refresh : RefreshStep(r)

(* Goroutines run and requests end with the context of their refresh.  The *)
(* loop takes its events: this assumes that the Board Manager answers the  *)
(* request of a reference tick or refuses it, since that request has no    *)
(* timeout and holds the loop (TickAnswered of CameraFrames).              *)
Fairness == WF_vars(Refreshing) /\ WF_vars(TakeCalibration)

FairSpec == Spec /\ Fairness

-----------------------------------------------------------------------------

(* dataset/README.md: every sample names its setup, and the export refuses *)
(* one whose setup is not a file.  Whatever refreshes overlap, and if the  *)
(* process ends in the middle of one, the file a label names is whole and  *)
(* holds what the captures were given; a label without a setup is written  *)
(* only when something could not be.                                       *)
SampleSetupStored ==
    sample.session > 0 =>
        IF sample.setup = NoSetup
        THEN failures > 0
        ELSE \E f \in files :
                /\ f.session = sample.session /\ f.id = SetupID(sample.setup)
                /\ f.whole /\ SetupID(f.content) = SetupID(sample.setup)

(* The setup the captures are given is that of the board when the refresh  *)
(* of its last calibration has ended, unless refreshes overlapped, when    *)
(* the last to end is kept.                                                *)
SetupFollowsBoard ==
    stage = "running" /\ pending = 0 /\ Active = {} /\ ~missed /\ ~overlapped /\ failures = 0
    => setup # NoSetup /\ SetupID(setup) = SetupID(board)

(* dataset/README.md: after calibration the recorder writes a snapshot.    *)
(* The setup of the last calibration the running loop heard of is stored,  *)
(* even if the calibration ended in the middle of an older refresh, unless *)
(* a reference tick holds the loop for ever (Fairness).                    *)
CalibrationRecorded ==
    <>[](stage = "running" /\ ~missed /\ failures = 0 =>
            \E f \in files : f.session = session /\ f.whole /\ f.id = SetupID(board))
=============================================================================
