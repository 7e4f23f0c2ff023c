------------------------------ MODULE Onboarding ------------------------------
(***************************************************************************)
(* The phone setup of cmd/autodarts-onboarding/main.go: the pairing token  *)
(* in its file, the QR code of the display, setup requests that configure  *)
(* the Board Manager over several calls, and the automatic calibration     *)
(* that goes on after the answer.  Each HTTP request has a goroutine of    *)
(* its own; the mutex of the service guards the calibration status only,   *)
(* so the token file is shared without a lock.                             *)
(*                                                                         *)
(* The Board Manager is external: it keeps its configuration when it       *)
(* restarts, may apply a call whose answer is lost, and calibrates only    *)
(* with a baseline.  A phone presents a token that was shown to it.        *)
(***************************************************************************)
EXTENDS Naturals, FiniteSets

CONSTANTS
    Requests,   \* setup requests
    Display,    \* the request of the display for its QR code
    BoardIds,   \* identities entered on phones
    NoId,       \* the Board Manager is not configured
    Tokens,     \* what rand.Read may return: no token is drawn twice
    NoFile,     \* pairing-token does not exist
    Blank,      \* pairing-token is empty
    MaxOutages, \* bound: times the Board Manager goes away
    MaxCrashes  \* bound: times the service ends

ASSUME NamesAssumption ==
    /\ Display \notin Requests
    /\ NoId \notin BoardIds
    /\ {NoFile, Blank} \cap Tokens = {} /\ NoFile # Blank

ASSUME BoundsAssumption == {MaxOutages, MaxCrashes} \subseteq Nat

VARIABLES
    pc,          \* where each request is
    token,       \* the local variable token of each request
    given,       \* the token a setup request presents
    id,          \* the identity it carries
    file,        \* content of pairing-token
    open,        \* requests holding pairing-token open for writing
    generated,   \* tokens drawn
    shown,       \* tokens the display has shown
    board,       \* the Board Manager: up, id, baseline
    calibration, \* service.calibration
    lastError,   \* service.lastError, with one text for every error
    calibrating, \* goroutines waiting for the automatic calibration
    outages, crashes,
    \* History:
    consumed,    \* tokens of setups that were answered with success
    kept,        \* tokens whose file could not be removed, and was not removed since
    late,        \* requests sent with a token of such a setup that is not kept
    stored       \* identities the Board Manager has held

request == <<pc, token, given, id>>
disk    == <<file, open, generated>>
status  == <<calibration, lastError, calibrating>>
history == <<consumed, kept, late, stored>>
vars    == <<request, disk, shown, board, status, outages, crashes, history>>

Callers == Requests \cup {Display}

(* Past the check of the token. *)
Admitted == {"cameras", "baseline", "patch", "reconcile", "consume", "start", "ok"}
Ended    == {"ok", "refused", "cut"}
Places   == {"idle", "token", "create", "write", "checking"} \cup Admitted \cup Ended

Goto(c, place) == pc' = [pc EXCEPT ![c] = place]

-----------------------------------------------------------------------------
(***************************************************************************)
(* token(): read the file, or draw a token and write it.                   *)
(***************************************************************************)

ReadToken(c) ==
    /\ pc[c] = "token"
    /\ file # NoFile
    /\ token' = [token EXCEPT ![c] = file]
    /\ Goto(c, "checking")
    /\ UNCHANGED <<given, id, disk>>

DrawToken(c) ==
    /\ pc[c] = "token"
    /\ file = NoFile
    /\ \E t \in Tokens \ generated :
          /\ token' = [token EXCEPT ![c] = t]
          /\ generated' = generated \cup {t}
    /\ Goto(c, "create")
    /\ UNCHANGED <<given, id, file, open>>

(* os.WriteFile truncates an existing file when it opens it ... *)
CreateFile(c) ==
    /\ pc[c] = "create"
    /\ file' = Blank
    /\ open' = open \cup {c}
    /\ Goto(c, "write")
    /\ UNCHANGED <<token, given, id, generated>>

(* ... and writes to a file that has been removed without an error, which  *)
(* Chmod then reports.  setupURL ignores it.                               *)
WriteToken(c) ==
    /\ pc[c] = "write"
    /\ file' = IF c \in open THEN token[c] ELSE file
    /\ open' = open \ {c}
    /\ Goto(c, IF file' = NoFile /\ c # Display THEN "refused" ELSE "checking")
    /\ UNCHANGED <<token, given, id, generated>>

(* The file cannot be opened, or not be written once it is empty. *)
WriteTokenFails(c) ==
    /\ pc[c] \in {"create", "write"}
    /\ open' = open \ {c}
    /\ Goto(c, IF c # Display THEN "refused" ELSE "checking")
    /\ UNCHANGED <<token, given, id, file, generated>>

TokenCall(c) ==
    /\ ReadToken(c) \/ DrawToken(c) \/ CreateFile(c) \/ WriteToken(c) \/ WriteTokenFails(c)
    /\ UNCHANGED <<shown, board, status, outages, crashes, history>>

-----------------------------------------------------------------------------
(***************************************************************************)
(* The display loads its QR code, again whenever its page is opened.       *)
(***************************************************************************)

DisplayAsks ==
    /\ pc[Display] = "idle"
    /\ Goto(Display, "token")
    /\ UNCHANGED <<token, given, id, disk, shown, board, status, outages, crashes, history>>

DisplayShows ==
    /\ pc[Display] = "checking"
    /\ shown' = shown \cup {token[Display]}
    /\ Goto(Display, "idle")
    /\ UNCHANGED <<token, given, id, disk, board, status, outages, crashes, history>>

-----------------------------------------------------------------------------
(***************************************************************************)
(* setup(): one action for each of its calls.                              *)
(***************************************************************************)

Post(r) ==
    /\ pc[r] = "idle"
    /\ \E t \in shown, b \in BoardIds :
          /\ given' = [given EXCEPT ![r] = t]
          /\ id' = [id EXCEPT ![r] = b]
          /\ late' = IF t \in consumed \ kept THEN late \cup {r} ELSE late
    /\ Goto(r, "token")
    /\ UNCHANGED <<token, disk, shown, board, status, outages, crashes, consumed, kept, stored>>

Matches(r) == file # NoFile /\ token[r] = given[r]

Check(r) ==
    /\ pc[r] = "checking"
    /\ Goto(r, IF Matches(r) THEN "cameras" ELSE "refused")
    /\ UNCHANGED <<token, given, id, disk, shown, board, status, outages, crashes, history>>

(* The devices and the calibration are read; both are passed on only. *)
ReadCameras(r) ==
    /\ pc[r] = "cameras" /\ board.up
    /\ Goto(r, "baseline")
    /\ UNCHANGED <<token, given, id, disk, shown, board, status, outages, crashes, history>>

(* The answer may be lost, which counts as a failure. *)
PutBaseline(r) ==
    /\ pc[r] = "baseline" /\ board.up
    /\ board' = [board EXCEPT !.baseline = TRUE]
    /\ \E place \in {"patch", "refused"} : Goto(r, place)
    /\ UNCHANGED <<token, given, id, disk, shown, status, outages, crashes, history>>

(* Data of a wrong form, fewer than three cameras, a call that fails. *)
Refuse(r) ==
    /\ pc[r] \in {"cameras", "baseline"}
    /\ Goto(r, "refused")
    /\ UNCHANGED <<token, given, id, disk, shown, board, status, outages, crashes, history>>

PatchApplied(r) ==
    /\ pc[r] = "patch" /\ board.up
    /\ board' = [board EXCEPT !.id = id[r]]
    /\ stored' = stored \cup {id[r]}
    /\ \E place \in {"consume", "reconcile"} : Goto(r, place)
    /\ UNCHANGED <<token, given, id, disk, shown, status, outages, crashes, consumed, kept, late>>

(* Mutant: an error of the PATCH is taken for a restart after success. *)
PatchFailsUnnoticed(r) ==
    /\ pc[r] = "patch"
    /\ Goto(r, "consume")
    /\ UNCHANGED <<token, given, id, disk, shown, board, status, outages, crashes, history>>

PatchFails(r) ==
    /\ pc[r] = "patch"
    /\ Goto(r, "reconcile")
    /\ UNCHANGED <<token, given, id, disk, shown, board, status, outages, crashes, history>>

(* An answer with the identity the Board Manager has kept. *)
PatchNotRetained(r) ==
    /\ pc[r] = "patch" /\ board.up
    /\ Goto(r, IF board.id = id[r] THEN "consume" ELSE "refused")
    /\ UNCHANGED <<token, given, id, disk, shown, board, status, outages, crashes, history>>

(* Mutant: the reconciled setup leaves the token active. *)
ReconcileKeepingToken(r) ==
    /\ pc[r] = "reconcile"
    /\ board.up /\ board.id = id[r]
    /\ Goto(r, "start")
    /\ UNCHANGED <<token, given, id, disk, shown, board, status, outages, crashes, history>>

(* waitForBoardID asks until it sees the identity or is out of time; a     *)
(* last call may fail whatever the Board Manager holds.                    *)
Reconcile(r) ==
    /\ pc[r] = "reconcile"
    /\ board.up /\ board.id = id[r]
    /\ Goto(r, "consume")
    /\ UNCHANGED <<token, given, id, disk, shown, board, status, outages, crashes, history>>

ReconcileGivesUp(r) ==
    /\ pc[r] = "reconcile"
    /\ Goto(r, "refused")
    /\ UNCHANGED <<token, given, id, disk, shown, board, status, outages, crashes, history>>

(* os.Remove: a request that holds the file open writes to nothing. *)
Consume(r) ==
    /\ pc[r] = "consume"
    /\ file' = NoFile
    /\ open' = {}
    /\ kept' = kept \ {file}
    /\ Goto(r, "start")
    /\ UNCHANGED <<token, given, id, generated, shown, board, status, outages, crashes,
                   consumed, late, stored>>

(* Its error is dropped: the setup goes on with the file in place. *)
ConsumeFails(r) ==
    /\ pc[r] = "consume"
    /\ kept' = kept \cup ({file} \cap Tokens)
    /\ Goto(r, "start")
    /\ UNCHANGED <<token, given, id, disk, shown, board, status, outages, crashes,
                   consumed, late, stored>>

StartCalibration(r) ==
    /\ pc[r] = "start"
    /\ calibration' = "running"
    /\ lastError' = "none"
    /\ calibrating' = calibrating \cup {r}
    /\ consumed' = consumed \cup {given[r]}
    /\ Goto(r, "ok")
    /\ UNCHANGED <<token, given, id, disk, shown, board, outages, crashes, kept, late, stored>>

Setup(r) ==
    \/ Post(r) \/ Check(r) \/ ReadCameras(r) \/ PutBaseline(r) \/ Refuse(r)
    \/ PatchApplied(r) \/ PatchFails(r) \/ PatchNotRetained(r)
    \/ Reconcile(r) \/ ReconcileGivesUp(r) \/ Consume(r) \/ ConsumeFails(r)
    \/ StartCalibration(r)

-----------------------------------------------------------------------------
(***************************************************************************)
(* The goroutine of the calibration.                                       *)
(***************************************************************************)

CalibrationComplete(r) ==
    /\ r \in calibrating /\ board.up /\ board.baseline
    /\ calibration' = "complete"
    /\ calibrating' = calibrating \ {r}
    /\ UNCHANGED <<request, disk, shown, board, lastError, outages, crashes, history>>

(* Mutant: the goroutine returns on an error without a word. *)
CalibrationFailsSilently(r) ==
    /\ r \in calibrating
    /\ calibrating' = calibrating \ {r}
    /\ UNCHANGED <<request, disk, shown, board, calibration, lastError, outages, crashes, history>>

CalibrationFails(r) ==
    /\ r \in calibrating
    /\ calibration' = "failed"
    /\ lastError' = "error"
    /\ calibrating' = calibrating \ {r}
    /\ UNCHANGED <<request, disk, shown, board, outages, crashes, history>>

Calibrate(r) == CalibrationComplete(r) \/ CalibrationFails(r)

-----------------------------------------------------------------------------
BoardGoesDown ==
    /\ board.up /\ outages < MaxOutages
    /\ board' = [board EXCEPT !.up = FALSE]
    /\ outages' = outages + 1
    /\ UNCHANGED <<request, disk, shown, status, crashes, history>>

BoardComesUp ==
    /\ ~board.up
    /\ board' = [board EXCEPT !.up = TRUE]
    /\ UNCHANGED <<request, disk, shown, status, outages, crashes, history>>

(* The process ends and is started again: the files stay. *)
CutOff(c) == IF c = Display THEN "idle" ELSE IF pc[c] \in {"idle"} \cup Ended THEN pc[c] ELSE "cut"

CrashAndRestart ==
    /\ crashes < MaxCrashes
    /\ crashes' = crashes + 1
    /\ pc' = [c \in Callers |-> CutOff(c)]
    /\ open' = {}
    /\ calibration' = "idle"
    /\ lastError' = "none"
    /\ calibrating' = {}
    /\ UNCHANGED <<token, given, id, file, generated, shown, board, outages, history>>

Init ==
    /\ pc = [c \in Callers |-> "idle"]
    /\ token = [c \in Callers |-> Blank]
    /\ given = [r \in Requests |-> Blank]
    /\ id = [r \in Requests |-> NoId]
    /\ file = NoFile /\ open = {} /\ generated = {} /\ shown = {}
    /\ board = [up |-> TRUE, id |-> NoId, baseline |-> FALSE]
    /\ calibration = "idle" /\ lastError = "none" /\ calibrating = {}
    /\ outages = 0 /\ crashes = 0
    /\ consumed = {} /\ kept = {} /\ late = {} /\ stored = {}

Next ==
    \/ DisplayAsks \/ DisplayShows
    \/ \E c \in Callers : TokenCall(c)
    \/ \E r \in Requests : Setup(r) \/ Calibrate(r)
    \/ BoardGoesDown \/ BoardComesUp \/ CrashAndRestart

Spec == Init /\ [][Next]_vars

(* The call for the calibration has a timeout of its own. *)
FairSpec == Spec /\ \A r \in Requests : WF_vars(Calibrate(r))

-----------------------------------------------------------------------------
(***************************************************************************)
(* Properties.                                                             *)
(***************************************************************************)

(* The types, and that a file is open only where it is being written. *)
TypeOK ==
    /\ pc \in [Callers -> Places]
    /\ token \in [Callers -> Tokens \cup {Blank}]
    /\ given \in [Requests -> Tokens \cup {Blank}]
    /\ id \in [Requests -> BoardIds \cup {NoId}]
    /\ file \in Tokens \cup {NoFile, Blank}
    /\ open \subseteq {c \in Callers : pc[c] = "write"}
    /\ open # {} => file # NoFile
    /\ generated \subseteq Tokens
    /\ shown \subseteq Tokens \cup {Blank}
    /\ board \in [up : BOOLEAN, id : BoardIds \cup {NoId}, baseline : BOOLEAN]
    /\ calibration \in {"idle", "running", "complete", "failed"}
    /\ lastError \in {"none", "error"}
    /\ calibrating \subseteq Requests
    /\ outages \in 0..MaxOutages /\ crashes \in 0..MaxCrashes
    /\ consumed \subseteq Tokens \cup {Blank}
    /\ kept \subseteq Tokens
    /\ late \subseteq Requests
    /\ stored \subseteq BoardIds

(* A pairing code is spent by the setup that succeeds with it: whoever     *)
(* sends it after that answer is refused, although display and requests    *)
(* write the file without a lock, unless the file system did not let go of *)
(* the file: such a code is spent once a later setup has removed it.       *)
(* Setups that overlap are not excluded by the code: they may both succeed *)
(* with one code.                                                          *)
ConsumedTokenRefused ==
    \A r \in late : given[r] \in Tokens => pc[r] \notin Admitted

(* The automatic calibration is asked for only when the Board Manager has  *)
(* a calibration to start from, without which Detection panics, and has    *)
(* stored the identity this request carries.                               *)
CalibratesConfiguredBoard ==
    \A r \in calibrating : board.baseline /\ id[r] \in stored

(* The status does not stay "running", on which the pages would wait. *)
CalibrationSettles == calibration = "running" ~> calibration # "running"

=============================================================================
