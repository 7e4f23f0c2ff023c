# TLA+ models of the Autodarts appliance

The repository turns a small computer into an Autodarts board: a NixOS image,
a kiosk browser, and a set of Go programs around the vendor's *Board Manager*,
which detects darts and publishes what it sees on an HTTP API and a WebSocket.
This directory holds TLA+ models of the Go programs' core logic, the TLC runs
that check them on small instances, and TLAPS proofs of what holds for every
instance. Paths in this file are relative to the repository unless they name a
module.

    tlc -workers 2 -config Recorder.cfg MCRecorder
    tlapm WorldTrackerProofs.tla

`PROJECT.json` lists the components, the runs, the source lines of every
definition, the hazards and, for each property, a mutation of the model that
breaks it. The mutated operators stand in the modules next to what they
mutate, marked *Mutant*.

## 1. The system

### Parts and their state

| Part | Source | State | Operations |
|---|---|---|---|
| World tracker | `dataset/world.go` | current world (numbered state, list of darts with identities), counters of states and darts | `initialState`, `observe` (match the board's throws with the known darts, issue identities, describe the transition) |
| Recorder | `dataset/recorder.go` | motion flag, remembered events, latest setup, the tracker, capture goroutines | `Run` = wait for cameras, wait for a stable board, loop over events, failures, reference ticks; `capture` |
| Camera buffers | `dataset/recorder.go:138-175,807-840` | last five seconds of frames per camera | `add`, `closest`, `covers`, reconnect |
| Setup snapshots | `dataset/recorder.go:519-685` | current setup, files in `.sessions` | `refreshSetup` at start and after a calibration |
| Sample store and catalog | `dataset/catalog.go`, tail of `capture` | folders on disk, index of samples, used bytes | scan, `AddPath`, `EnforceQuota`, `Inventory` |
| Dashboard, export | `dataset/web.go` | none of its own | pages, frames, WebDataset export |
| Geometry | `dataset/projection.go` | none | projection, reconstruction |
| Board client | `autodarts/client.go`, `types.go` | merged board and Play state | HTTP requests, `Events`, `ApplyBoardEvent`, `ApplyPlayEvent`, `Snapshot` |
| Watch command | `cmd/autodarts-watch` | its place in the loop | request, subscribe, merge, print |
| Play state | `playstate/state.go` | match, scores, guide | `Apply`, `NextTarget` |
| Onboarding service | `cmd/autodarts-onboarding` | pairing token, calibration status, Play capture | QR code, setup, status, ingestion of Play messages |
| noVNC proxy | `cmd/autodarts-novnc` | one session per viewer | copy in both directions |
| Kiosk extension | `kiosk/extension` | queue of captured messages | capture, forward |
| Launcher, NixOS modules, installer, protocol capture | `nixos`, `install.sh`, `scripts`, `cmd/protocol-capture` | files, units | sequential |

### How they interact

The recorder and the watch command read the Board Manager twice: the board
state **by request** and its changes **by subscription**. These two are not
synchronised, and most of the difficulty of the code is there. Inside the
recorder one goroutine (the event loop) owns the tracker and writes the motion
memory; capture goroutines read that memory under a lock, sleep until their
last frame has been taken, ask the Board Manager again, select frames from the
camera buffers and write a sample. Captures, the dashboard and the export share
the catalog through one `RWMutex`, and the sample folders without any lock.
The onboarding service gets Play messages from the kiosk browser and talks to
the same Board Manager.

### What is hard, and what makes each part correct

* **World tracker.** Matching is greedy over pairs sorted by distance with an
  unstable sort. Correct means: identities are distinct, never reissued, stay
  with a dart that did not move, and every transition says exactly what
  changed.
* **Recorder.** It must end up with the board's darts whatever was under way
  when it started, must not report a dart twice or one that was there before,
  must not be confused by events queued while it is blocked for up to three
  seconds, and must write an observation only of a world that was stable.
* **Catalog.** Accounts, quota, a process that is killed at any moment
  (SIGTERM is not handled), removals that fail halfway, samples that cannot be
  measured, an export that reads folders while captures remove them, and a lock
  every capture needs.
* **Board client and watch.** A bounded channel between a goroutine and a loop
  that may stop reading it; partial messages merged into the state held.
* **Camera buffers.** Five seconds of frames against up to three seconds of
  waiting for evidence, requests for the board state that have no timeout, and a burst whose frames are looked up one locked access
  after the other. Correct means: the manifest is in order, no frame stands on
  the wrong side of a change, and what was forgotten was not needed.
* **Setup snapshots.** Requests answered in any order, several refreshes in
  flight of which the last to end is kept, a process that ends in between.
  The setup a sample names must be a whole file, and the right one.
* **Play messages.** They overtake each other on their way in; one lock is held
  over reading a body and writing two files; one file is read by the display
  without it.
* **noVNC.** Two goroutines reporting into one channel of which only one report
  is received; both must end, and both connections be closed.
* **Onboarding.** A token file that requests read, create and remove without a
  lock; a setup of several calls whose answers may be lost in a restart; a
  calibration that outlives its request.

The complete list, with the line where each hazard bites, is in
`PROJECT.json`.

## 2. Modules

| Module | Models | Depends on |
|---|---|---|
| `DartMatching` | the pure part of the tracker: `reconcileDarts` as the set of matchings the greedy loop can produce, `transitionBetween`, `boardStateMatchesWorld` | |
| `GreedyLoop` | the loop of `reconcileDarts` itself, step by step | `DartMatching` |
| `WorldTracker` | the tracker as a state machine over boards | `DartMatching`, `DartIdentity` |
| `DartIdentity` | abstract: a registry that issues identities once and retires them for good | |
| `Recorder` | startup, event loop, motion memory, captures; the Board Manager | `DartMatching` |
| `Catalog` | tail of `capture`, catalog, export, crash and restart | `SampleStore` |
| `SampleStore` | abstract: samples appear whole, enter the inventory, are removed oldest first and stay away | |
| `BoardWatch` | `Events`, `ApplyBoardEvent`, the watch command; the Board Manager | |
| `Onboarding` | pairing token, QR code, setup requests, calibration; the Board Manager and crashes | |
| `CameraFrames` | camera buffers, waiting for their history, the loop's stop for evidence, selection and labelling of the frames of a capture | |
| `SetupSnapshot` | `refreshSetup` and its requests, setup files, the refreshes calibrations start, the setup in a label; crashes | |
| `PlayCapture` | the extension posting Play messages, their ingestion, start, stop and status of a capture; failing writes, crashes | |
| `NoVNCProxy` | a session: `proxy`, its two copying goroutines and their channel, both connections, both ends | |
| `WorldTrackerProofs` | theorems about the tracker and the matching loop | `WorldTracker`, `GreedyLoop`, `DartMatchingProofs` |
| `DartMatchingProofs` | lemmas about matchings, for both users of `DartMatching` | `DartMatching` |
| `RecorderProofs` | theorems about startup, event loop, memory and captures | `Recorder`, `DartMatchingProofs`, `DartIdentity` |
| `EvidenceProofs` | theorems about frames and setups | `MCEvidence` |
| `CatalogProofs`, `BoardWatchProofs`, `OnboardingProofs`, `PlayCaptureProofs` | theorems | the module each is named after |
| `MCGreedyLoop`, `MCRecorder`, `MCWorldTracker` | values for TLC | |
| `MCEvidence`, `MCServices` | two modules each in one run | `CameraFrames` and `SetupSnapshot`; `PlayCapture` and `NoVNCProxy` |

### DartMatching, GreedyLoop, WorldTracker

Points are elements of `Coordinates` with a given `Distance`; `Near` is the
matching radius of `reconcileDarts` (world.go:112). Only comparisons of
distances are ever used, so small integers stand for the floats.

`Matchings(darts, throws)` is the set of one-to-one relations in which every
candidate pair that was refused was refused for a pair at most as far apart.
That this is what the code's loop computes is not assumed: `GreedyLoop` runs the loop with every order
`sort.Slice` may produce for equal distances, and the two inclusions
(`OutcomeIsMatching`, `MatchingIsOutcome`) are checked and proved.

In `WorldTracker` a step is one board given to `observe`, and `emitted` is the
transition it returns. Confidence
and observation times are left out because no decision reads them.

`DartIdentity` is the promise: an identity is *fresh*, then *on the board*,
then *retired*. `WorldTracker` implements it (`IdentityRegistry`, an INSTANCE
with a refinement mapping from the counter and the current world), and so does
the tracker inside `Recorder`, through startup and the stops for evidence
(theorem `ImplementsRegistry` of both proof modules).

### Recorder

`log` is the history of the Board Manager: its entries are its states and at
the same time the events in the order they were sent. The recorder has taken
the first `taken` of them; requests for the board read the last entry. This is
the whole of the race between request and subscription.

| Model | Code |
|---|---|
| `AwaitGet`, `AwaitGetFails`, `AwaitEvent`, `AwaitTimer` | the request and the `select` of `waitForStableBoardState` |
| `StartRunning` | world 1, the startup capture and the reference ticker |
| `TakeState`, `TakeMotion` | the case of the loop for an event, with `rememberEvent` and `observe` |
| `pc = "artifacts"`, `ArtifactsFetched` | the loop waits for `captureTeacherArtifacts`, then schedules one capture for each added dart |
| `TakeReference`, `ReferenceFails` | the case for a tick; the channel holds one tick and the ticker drops others |
| `Stop` | failure, end of the channel, end of the context |
| `CaptureReadsBoard`, `CaptureAdmitted` | the two halves of `stableCaptureAllowed`: the request, then the lock |
| `CaptureChange`, `CaptureFails`, `CaptureCancelled` | the other ways through `capture` |
| `Tick` | the clock |

Time is an integer. `Tick` is disabled when something would be later than its
bound: `StreamLag` for an event or a tick the loop is free to take,
`ArtifactTimeout` for the evidence, `CaptureLag` for a capture. These are assumptions
about the environment and part of what is shown:

* `StartupDartsNotEmitted` needs `StreamLag < StableFor`: the 500 ms for which
  the first board must not change have to be longer than an event is under
  way.
* `NoMotionReceivedInWindow` needs a memory that reaches back over
  `OldestOffset + LatestOffset + CaptureLag` and what the loop is late by
  (`RemembersLong` in `RecorderProofs`). In the code that is 10 s against
  offsets of a second or two; but the request of `stableCaptureAllowed` (recorder.go:781) has
  no timeout (the recorder passes its own `http.Client` without one,
  recorder.go:225), and a capture held up there for longer would be judged by a memory that has forgotten its window.
* In `recorder_frames` no event is late, and the labels are wrong all the
  same, because the loop is blocked.

Cameras and disk are the chance of a capture failing. The darts land on points
further apart than the matching radius: which dart is which is `WorldTracker`'s
business.

### Catalog

A sample is a number in the order of its name; its folder is the set of its
files, the label last. Every file that is written or removed is a step, so a
crash finds any prefix. `CrashAndRestart` ends every capture and export and runs
the scan of `NewCatalog`. The lock is held from `EnforceQuota`'s first removal
to its end; `AddPath` measures the folder before it takes the lock
(`Measure`, then `AddPath`). What the file system may refuse is modelled with what
the code makes of it: `RemoveFails` keeps the entry; `WriteFailsAndStays` leaves any part of a
temporary folder (place *littered*), because the error of the deferred
`RemoveAll` is ignored (recorder.go:927); `MeasureFails` is `AddPath` returning an error, after which
`capture` returns without an entry and without a look at the quota
(recorder.go:989-991); and a scan may skip a labelled folder it cannot read
(`scanStoredSamples`, catalog.go:121-133). `unread` is history: the samples that the last
attempt to measure them has missed. The export reads the inventory under the lock and
the files without it. Sizes are numbers of files, and a sum of sizes is defined
as the number of the units they are made of: the fold of the community modules
would say the same to TLC and nothing to the provers.

Simplified: the filter for training-ready samples (an export here covers all
of them), the check of the export as one step (every file is read again when it
is sent, so what the check saw is not relied upon), previews.

`SampleStore` is the promise: it knows no files, sizes or locks. `Catalog`
implements it (`SampleStoreKept`); `unseen` and `Miss` say there what `unread` says of the catalog. The refinement mapping, `Appearance`, reads off a
folder and its capture whether a sample is *absent*, *whole*, *torn* (a
removal is under way or has failed) or *gone*; the inventory is `listed`.

What may be broken or in excess is said exactly, since failures do happen. A sample
with a file missing that an inventory lists has a refused removal or a crash of its own
behind it (`DamageBounded`): retrying a removal tears nothing else. Without a
crash, what the folders hold above the quota is a littered temporary folder or a sample that
could not be measured (`FoldersWithinQuota`).

### BoardWatch

One process is the goroutine of `Events` (read, send or give up, fail, close
`failures`, close `events`), the other the command (request, subscribe, loop,
return). `ApplyBoardEvent` is `json.Unmarshal` into the state already held: a
list of throws the message leaves out keeps its value. The goroutine is
modelled as still running after the command has returned, although the process
ends then, so that `WatchEnds` speaks about the client too and not only about this
one user of it. A lost connection is assumed to be noticed: the code sets no read
deadline, so a peer that vanishes without a reset is only noticed by TCP.

### Onboarding

Every setup request is a process whose place is `pc`; the display's request for
its QR code is one more, because it runs the same `token()`. Each call to the
Board Manager is an action, with the ways it can end: applied and answered,
applied and the answer lost, not applied. `Reconcile` and `ReconcileGivesUp` are
`waitForBoardID`. The token file is what matters: `os.WriteFile` is two steps
(`CreateFile` truncates, `WriteToken` writes), `open` are the requests that hold
the file open, and `Consume` (`os.Remove`) empties that set, because what they
write afterwards is lost. `ConsumeFails` is the removal that does not happen: main.go:371
ignores its error and the setup is answered as a success all the same. `late`, `consumed` and
`kept` are history.

A token is a name; drawing one gives one that was never drawn. The two GETs
whose results are only passed on are one step. The forms of the identity and of
the key are one way of being refused. The API key is not in the model, since no
decision reads it.

Three things the code permits are therefore in the model and excluded from the
properties by their wording. A code whose file could not be removed stays valid after a
success (`kept`), although README.md:117 says that the service consumes it; it is spent
once a later setup has removed the file. Setups that overlap may both succeed with one code:
"one-time" (README.md:111) holds for a code that has been answered for, which is what
`ConsumedTokenRefused` says. And `waitForBoardID` compares the identity only:
when the board already had it, a refused PATCH counts as applied.

### CameraFrames

A frame is the tick it arrived at; a camera delivers at most one a tick, and one
that is silent, slow or reconnecting delivers none for a while. That is all
`readCamera` shows of itself to the rest.

| Model | Code |
|---|---|
| `FrameArrives`, `Kept` | `cameraBuffer.add`, which drops from the front while frames are too old |
| `closest`, `covers` | the methods of that name |
| `waitForCameraHistory`, `Start` | the wait for cameras; the first observation |
| `TakeReconciled`, `TakeDart`, `RequestEnds` | a change without and with new darts; `captureTeacherArtifacts`, whose requests end with an answer, an error or their context |
| `TickerFires`, `TakeTick`, `TickAnswered` | the reference ticker; the case for its tick, which asks for the board unless there is motion; the answer, after which an observation is scheduled at the time of the tick or not |
| `TimerFires`, `BoardAnswers` | `capture` waits for its last frame; `stableCaptureAllowed` of an observation, whose request may stay unanswered |
| `SelectFrame`, `CameraDone` | one lookup of the burst; the comparison of digests when a camera's burst is complete |
| `WorldState` | `frameWorldState` |

What a label says is fixed by `at`, the time the loop took the change. The clock
cannot pass the end of the evidence (`ArtifactTimeout`, three seconds in the
code, recorder.go:414) nor the end of a lookup that is under way (`Lag`). The
assumption that five seconds of frames are enough is stated:
`History >= ArtifactTimeout + Lag + Latest - Oldest + Skew`, and the delays of
the labels are more than two skews apart. Nothing in the code checks either
when the options are read; both hold for its defaults.

Two requests of the recorder have no timeout (its client is built without one,
recorder.go:225) and end only with its context: the one of a reference tick, which
holds the loop (recorder.go:378), and the one of an *observation*, which holds that
capture (recorder.go:781). In the model both may be held for ever (`asking`).
`NothingForgotten` therefore speaks of changes, and `ChangesSettle` says what is left of
progress: evidence and captures of the changes taken come to an end whatever is
held, and all reported changes are taken if the loop is not held for ever. That `Run`
returns is not claimed: on its way out it waits for the observations as well
(recorder.go:312), so after a lost event stream a request that stays unanswered keeps
the process from ending and from being restarted.

`delivered` is history: every frame a camera ever delivered.

Whether two frames look the same is a choice of the model (`CameraDone` may
refuse a burst whose frames differ, a frozen camera), except that one frame
looks like itself. The clock does not go back.

### SetupSnapshot

A refresh is a slot with a step and a partial function from `Inputs` to what was
answered; `Fetch` enlarges it for one input, in any order. `SetupID` is the part
of the content the name is made of. `Stat`, `Create`, `Rename`, `Publish` are the
steps of `writeSetupSnapshot` and of the assignment under the lock, `WriteLabel`
reads the setup as `captureMetadata` does. A calibration changes any of the
board's values and becomes an event that the running loop answers with a refresh
of its own; before that it is only remembered (`WaitTakesEvent`).
`missed` and `overlapped` say which case a behaviour has met. They are what the properties
exclude: a calibration that ends before the loop runs is not looked at by the code, and of
two refreshes under way the last to end is kept, which may be the older one.
`CalibrationRecorded` holds for overlapping refreshes all the same: the
right file is there, even if the captures are given another. It assumes that the loop comes
back to its events, which a reference tick without an answer would prevent
(see `CameraFrames`).

### PlayCapture

A message is its number; its handler goes through `Lock`, `Decode`, `Truncate`,
`WriteState`, `AppendLine`, `Count`, each of which may fail where the code has an
error path, and a crash may come between any two. `os.WriteFile` is two steps, so
`playState` may be `Empty`; a line may be `Torn`, and what is appended to a torn
line is `Spoiled`. The last is what the code does after a failed write
and no document speaks of it, hence `failures = 0` in
`CountedLinesAreStored`. `StateIsRegular` is what a reader gets of a
register written by overtaking writers: something old, but not older than what had been answered
before a newer, answered message was sent.

### NoVNCProxy

One session, because sessions share nothing. Bytes are counted in chunks:
`inbound` is what a side sent and the proxy has not read, `window` what was
written to a side and not taken, with room for one, so that a write blocks. The
channel has room for two reports (`fail`) and `Select` takes one.

### MCEvidence, MCServices

Each puts two modules that share no state into one run: `part` is chosen in the
initial state, and only the chosen machine moves, so the states of the run are
the sum of the two machines' and not their product.

## 3. Runs

| Run | Shows | Bounds |
|---|---|---|
| `greedy_loop` | loop and `Matchings` agree | up to 3 darts, 3 throws, 3 points in a line: ties, chains of conflicts, a dart between two throws |
| `world_tracker` | the tracker's identities, transitions and refinement | 4 points, 2 throws, 2 segments, 4 identities: enough for a swap, a correction with a landing, and an identity that could be reused |
| `recorder` | startup, event loop, memory, captures | 3 events after the first board, 2 darts, clock 4, one event a tick; with a memory of fewer events or one tick it fails |
| `catalog` | accounts, quota, export, end of captures, refinement of `SampleStore` | 3 captures, room for 2, one crash, one failure (of a removal, of cleaning up, or of measuring in `AddPath` or in a scan) |
| `board_watch` | nothing lost, view correct, everything ends | channel of 1, visits of 2 throws, 4 messages |
| `onboarding` | a code whose file was removed is refused, the calibration meets a configured board, its status settles | 2 setups and the display, 2 identities, 2 tokens, one outage, one crash |
| `evidence` | frames: manifest in order, labels on the right side, nothing needed is forgotten, every change ends; setup: the named file exists, is the board's, is recorded | one camera, a burst of three, `History` exactly at the bound of the assumption, evidence of up to a tick from two requests, one change, the startup observation and a reference tick that may hold the loop, clock 6; two inputs of two values, two calibrations, one failure, one restart |
| `services` | Play: count and lines agree, superseded state stays away, the operator is answered; noVNC: the session ends as a whole | 3 messages, 3 orders, one failure, one crash; 2 chunks from each side |
| `recorder_window`, `recorder_frames`, `catalog_crash`, `board_watch_throws` | a document is contradicted | see below |

Why the bounds are enough: the properties relate at most two darts, two
captures, or an event and a capture. Two darts and two throws give every case of `reconcileDarts`'
conflict, a third sample is needed for the one that does not fit, a channel of
one event is full as soon as it is used. A burst of three frames has one before,
one at and one after the change, and with `History` at its bound a buffer
shorter by a tick fails. Two overlapping refreshes need two calibrations;
three messages are needed for one that is overtaken, one that overtakes it and one that
follows. What more of anything would do is the business of the proofs. Symmetry is used only for safety, over
interchangeable points that are all equally far apart.

Runs allow a stop (`CHECK_DEADLOCK FALSE`) because every model does stop: its
history is bounded, and the recorder, captures and the command end.

### Disagreements between documents and code

* `recorder_window`: dataset/README.md:72-74 promises that the board *has
  remained unchanged* through the frame window. The code compares once, after
  the last frame, with the world of the tick, and knows the rest of the window only through motion
  events. A board that changed in the window without one, or changed and
  changed back, is written.
* `recorder_frames`: dataset/README.md:49-51 promises that an image records
  which world it belongs to. A change is dated when the loop takes its event;
  blocked on evidence, it takes it late, and frames that show the new dart are
  labelled with the world before it.
* `catalog_crash`: nixos/dataset.nix:28 calls the quota the maximum storage. A
  temporary folder left by a stop in the middle of a capture is neither counted nor removed. (Nor
  are the setup files under `.sessions` counted; the run shows it without them.)
* `board_watch_throws`: protocol/EVIDENCE.md:76 warns that `throws` is optional.
  The client decodes into the state it holds, and after a takeout shows the
  old throws next to a count of zero.

### Fairness

* `Catalog`: a capture that has begun runs (weak fairness). `AddPath` and
  `EnforceQuota` wait for a lock others keep taking; Go's `RWMutex` queues its
  waiters, hence strong fairness. A crash and the export owe nothing.
* `BoardWatch`: the goroutine and the command run (weak fairness). Their cases
  need no choice to be fair: each property holds whichever case is picked.
* `Onboarding`: the calibration call ends (weak fairness), because its client has a timeout of
  180 seconds. Nothing is assumed of phones, display and Board Manager.
* `CameraFrames`: the captures of changes run, each request for evidence ends because its
  context does, time passes (weak fairness). The loop takes a change if it comes back
  again and again (strong fairness of `TakeChange`): `select` chooses at random among
  what is ready. Cameras and Board Manager owe nothing, so there is no fairness for
  `TickAnswered` nor for any step of an observation.
* `SetupSnapshot`: a refresh runs and its requests end with its context, the
  loop takes its events (weak fairness). The last is an assumption about the Board Manager: the
  request of a reference tick, which has no timeout, is answered or refused.
* `PlayCapture`: handlers run, and the body of a request from this machine arrives. That
  is an assumption about the browser: the server limits how long a header may take and
  not a body (cmd/autodarts-onboarding/main.go:55), and the body is read under the lock.
  Weak fairness of `Operate` is enough, since the bounded messages end.
* `NoVNCProxy`: goroutines run, and a side that is there takes what it is sent. There is no
  write deadline, so a side that neither takes nor leaves keeps its session until
  TCP gives it up.
* `Recorder` is checked for safety only. How far captures end and changes are taken
  is `ChangesSettle` of `CameraFrames`.

## 4. Proofs

All theorems hold for every value of the constants that satisfies the named
assumptions of the modules.

Each module's theorems are proved from an inductive invariant, which TLC has
checked on the module's run before it was proved. Every safety property that a
passing run checks, invariant or action property, is stated by one of them.

* `WorldTrackerProofs`, the loop: `LoopTypeCorrect`, `LoopYieldsMatching`,
  `MatchingYieldedByLoop`. The invariant says of the pairs visited so far that
  those kept are one-to-one (`OneToOne`), that a refused one was refused for one
  at most as far apart (`RefusedForCloser`), and that whatever is still to come
  is no closer than what was visited (`Sorted`). When nothing is left this is
  the definition of a matching. For the converse, a target matching is fixed
  and the loop is restricted to the orders that visit its pairs first among
  equals (`FollowsTarget`).
* `WorldTrackerProofs`, the tracker: `TypeCorrect`, `DartsDistinct`, `StaysNear`,
  `ImplementsRegistry`, `TransitionsAreExact`, `StateIdsNameContent`,
  `AddedOnlyBeyondReach`, `UnmovedKeepsIdentity`. The inductive invariant is
  `TypeOK /\ IdentitiesDistinct`, where `TypeOK` bounds the identities on the
  board by the counter. It rests on the lemmas of `DartMatchingProofs`: a throw
  has at most one partner, a dart serves at most one throw, and
  `NewId`, the counter plus the rank of the throw among the unmatched ones,
  is injective by a counting argument over finite sets
  (`FiniteSetTheorems`). Refinement then is: an identity on the next board is either
  one of this board or above the counter. For the transitions, a dart of the
  next world is an addition, a correction or an old one as it was
  (`StillThere`), and a transition of no change is one between equal worlds
  (`UnchangedMeansEqual`), which is where distinct identities are needed once more.
  The last two say what greedy means for a dart: a candidate that was refused lost to
  one at most as far apart, and nothing is closer than a dart that did not move.
* `RecorderProofs`: `TypeCorrect`, and one theorem for each invariant of the run
  `recorder`, for any points, lags, offsets, numbers of darts and histories.
  `ImplementsRegistry` says that the world the recorder starts with and those its events
  lead to draw on one sequence of identities: a step issues the numbers after the
  counter and all of them are in use (`Issues`), since a board that changes nothing issues none.
  `StatesNameDarts` and `DartsAddedOnce` follow the counters: no world and no dart
  in any label, waiting, captured or written, is numbered above them
  (`NumberedWorlds`, `NumberedDarts`). `WorldIsBoard` rests on `Follows`: the world shows the
  board of the last event taken or, until the events under way at the start are
  through, the board it started with; a motion event changes nothing because it
  carries the board before it. `ObservationsWereReported` needs `TimesOrdered`
  (a capture reads the board after its last frame) and that whoever has passed the
  first half of `stableCaptureAllowed` has `Seen` the world of its label.
  `StartupDartsKept` takes `StreamLag < StableFor` as its hypothesis, which the model
  cannot do without: with it, the candidate the recorder starts with has been on
  the board for longer than any event still under way (`CandidateWasThere`, `Prompt`);
  since a dart that has left does not come back (`DartsStay`), all those events
  show that very board, and matching it with itself adds nothing (`Settled`).
  `WindowsAreQuiet` is the one with a premise on behaviours, `[]Timely(lag)`:
  an event or a tick never waits longer than `lag` for a loop that works.
  No constant bounds this in the code, because the loop is blocked for up to
  three seconds by each dart's evidence and several can follow each other. Given
  it, `RemembersLong(lag)` says what the ten seconds and 256 events of
  `rememberEvent` have to exceed: the window, the lag of a capture and of the
  loop, and the number of events that can be sent meanwhile. What has been
  forgotten is then too old, or older than too many events, to have been
  received in the window (`Remembered`, `Rated`, `ReceivedInTime`,
  `AdmittedSoon`). The run itself keeps three events for three ticks, less
  than the theorem asks for, so that short histories forget.
* `CatalogProofs`: `OldestGoFirst`, `WholeSamplesAreListed`,
  `DamageIsBounded`, `ExportsAreComplete`, `AccountsAreRight`, `OverrunIsHandled`,
  `FoldersKeepToQuota`, `ImplementsStore`, under any number of crashes and of failed removals,
  cleanups and measurements.
  `StoreInv` says that until its capture has entered it, a sample is not listed and its
  folder is absent or whole, which needs that the victim of a removal is one of the listed samples
  (`OldestExists`: a finite set of names has an oldest one).
  `ImplementsStore` maps each step to a step of `SampleStore` or to a stutter by the same
  invariant: a folder that is created was never in the inventory, and a file removed is the victim's.
  `DamageInv` counts: the folders that are broken and not the victim of a removal in progress
  (`Abandoned`) are no more than the captures that were refused a removal and the crashes, because
  a step adds at most one and then one of those; `SentSoFar` that what the export has left behind has been sent
  in full. `AccountInv` adds that what was measured outside the lock is still the size of the folder
  when it is entered (`MeasuredWhole`); sums are counted, so that entering and removing a
  sample add and subtract its size (`SumAdd`, `SumRemove`) and larger sizes of more
  samples make a larger sum (`SumBounded`). `OverrunHandled` needs no more: whoever
  turns away from an overrun has found nothing listed, hence nothing used.
  For the disk, `DiskInv` says that without a crash a temporary folder is that of a capture
  that is writing or has left it behind, and a folder outside the catalog is unread or that of a
  capture about to enter it.
* `BoardWatchProofs`: `EventsStayInOrder`, `ViewFollowsBoard`, for a channel of any
  capacity. `QueueInv` says that nothing is read before the goroutine starts, and then, position by
  position, that the channel and the message in the goroutine's hand are what was read
  and not yet applied. `ViewInv` relates both ends of that queue: the last state sent
  shows the board (`SentShowsBoard`), the last state applied is the view's
  (`ViewShowsApplied`), so that when all has been applied the two agree, also
  when messages that carry no board came in between.
* `OnboardingProofs`: `TypeCorrect`, `SpentCodesAreRefused`,
  `CalibrationHasBaseline`, for any number of requests, tokens, outages and crashes. `TokenInv` follows a
  token from being drawn to being removed: until it is written only its request
  knows it (`Unwritten`), a phone presents only what was shown (`Sent`), so what
  was consumed cannot be written again (`Spent`), and a request sent later
  cannot have read it (`TooLate`). `Configured` says which calls a request has behind
  it at each place.
* `EvidenceProofs`, frames: `ManifestIsInOrder`, `BeforeFramesAreBefore`,
  `NothingIsForgotten`, for any cameras, offsets and times within the assumption. The invariant says of a
  buffer that it is in order and the end of what was delivered (`BufferOf`), and
  of a frame once taken that every older frame still in the buffer is further from its target
  (`ItemGood`), which later arrivals and removals cannot disturb. A later lookup that
  found an older frame would contradict that (`CloserLater`). `Timely` and `EvidenceTimely` bound
  the moment of a lookup, and so make what was dropped too old for it
  (`DroppedIsTooOld`). That `Min`, `Max` and `closest`, which are CHOOSEs, return something is
  `LeastKey`: a finite set has an element of least key, by the well-founded order of its subsets.
* `EvidenceProofs`, setups: `LabelledSetupIsStored`, `SetupIsOfBoard`. `StoreInv` says that files
  are whole and named after their content, that what is about to be published or in use
  is stored, and that a recorder without a setup has had a failure.
  `UpToDate` follows the one refresh that does not overlap: what it has
  fetched is still the board's, or a calibration is pending. Both groups are proved about
  `MCEvidence`, which instantiates `SetupSnapshot`, so that what the run checks is what the theorems say;
  a step of the other machine is a stutter.
* `PlayCaptureProofs`: `SupersededStaysAway`, `CountIsOfStoredLines`. Both rest
  on `Exclusive` (a handler at the files holds the lock). `Settled` says that what was answered
  is over, so that only a message that was on its way can still be written;
  `LinesCounted` relates lines, count and the one handler between the two.

Only model-checked: liveness (`CapturesEnd`, `WatchEnds`, `CalibrationSettles`,
`ChangesSettle`, `CalibrationRecorded`, `OperatorAnswered`, `SessionEnds`), because
fairness and ENABLED are out of TLAPS' reach, and with it `NoVNCProxy`, whose
one property is liveness. That `closest`, `reconcileDarts` and the rest compute
what the code's loops compute is shown where the loop is modelled (`GreedyLoop`,
`SelectFrame`) and by translation elsewhere.

## 5. Not modelled

* Play state (`playstate/state.go`) and `ApplyPlayEvent`: each message is folded
  under one mutex in one step and stores what the message says, so a
  model would repeat the assignments. What is doubtful there (a match
  without scores keeps the remaining score of the last one, a snapshot shares the slice of throws)
  is in the hazards; no document says what should happen.
* The buttons of the kiosk extension (`controls.js`) and how it wraps `WebSocket`
  and `fetch`; the salt of the aliases, drawn once and then only read.
* Geometry (`projection.go`): floating-point functions without state.
* Pages and handlers of the dashboard other than the export: formatting.
* Previews, the filter for training-ready samples, the normalisation of old labels.
* NixOS modules, launcher, installer, protocol capture: declarative or sequential, with
  effects in external tools.
* What `.sessions` holds in bytes: setup files are in `SetupSnapshot`, but no account of the catalog
  includes them, so neither do the properties about the quota.
* A store without a catalog (`Recorder.enforceQuota`): the command always
  passes one.
* A clock that is stepped back: the recorder strips the monotonic reading
  (recorder.go:852), and the models' clocks do not go back.

## 6. Plan

Modelled so far: everything above. What is left, in this order:

1. The aliasing of the slices `Snapshot` hands out, composed with a reader that keeps one.
2. The launcher's choice of the page shown while services come up.
