------------------------------ MODULE MCEvidence ------------------------------
(***************************************************************************)
(* What a sample of the recorder is evidence of: its frames (CameraFrames) *)
(* and its setup (SetupSnapshot).  The two share no state, so a behaviour  *)
(* runs one of them and leaves the other where it began.                   *)
(***************************************************************************)
EXTENDS CameraFrames

CONSTANTS Inputs, Identifying, Values, Missing, MaxCalibrations, MaxFailures, MaxSessions

VARIABLES
    part,
    board, pending, stage, session, refreshes, setup, files, sample,
    calibrations, failures, missed, overlapped

Snapshot == INSTANCE SetupSnapshot

ASSUME SetupAssumption == Snapshot!SetupSnapshotAssumption

setupVars == <<board, pending, stage, session, refreshes, setup, files, sample,
               calibrations, failures, missed, overlapped>>
allVars == <<part, vars, setupVars>>

Frames(A) == part = "frames" /\ A /\ UNCHANGED <<part, setupVars>>
Setup(A) == part = "setup" /\ A /\ UNCHANGED <<part, vars>>

EvidenceInit == part \in {"frames", "setup"} /\ Init /\ Snapshot!Init

EvidenceNext == Frames(Next) \/ Setup(Snapshot!Next)

(* The fairness of each machine, for the behaviours that run it. *)
EvidenceSpec ==
    /\ EvidenceInit /\ [][EvidenceNext]_allVars
    /\ SF_allVars(Frames(TakeChange)) /\ WF_allVars(Frames(RequestEnds))
    /\ WF_allVars(Frames(ChangeCaptured)) /\ WF_allVars(Frames(Tick))
    /\ WF_allVars(Setup(Snapshot!Refreshing)) /\ WF_allVars(Setup(Snapshot!TakeCalibration))

SampleSetupStored == Snapshot!SampleSetupStored
SetupFollowsBoard == Snapshot!SetupFollowsBoard
CalibrationRecorded == Snapshot!CalibrationRecorded
=============================================================================
