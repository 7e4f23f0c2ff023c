--------------------------- MODULE OnboardingProofs ---------------------------
(***************************************************************************)
(* For any number of setup requests, restarts and outages: a pairing code  *)
(* that was spent is refused, and a calibration runs only on a board that  *)
(* was configured for it.                                                  *)
(***************************************************************************)
EXTENDS Onboarding, TLAPS

Writing == {"create", "write"}

(* Whatever is read, shown or stored was drawn before, or is empty. *)
Issued ==
    /\ \A c \in Callers : token[c] \in generated \cup {Blank}
    /\ file \in generated \cup {NoFile, Blank}
    /\ shown \subseteq generated \cup {Blank}

(* A token that is still to be written is known to its request alone. *)
Unwritten ==
    \A c \in Callers : pc[c] \in Writing =>
        /\ token[c] \in Tokens \ shown
        /\ token[c] # file
        /\ \A d \in Callers \ {c} :
              pc[d] \in Writing \cup {"checking"} => token[d] # token[c]

(* What a request was sent with. *)
Sent ==
    \A r \in Requests : pc[r] # "idle" => given[r] \in shown /\ id[r] \in BoardIds

(* A token that was consumed does not come back, and stays only when its   *)
(* removal was refused.                                                    *)
Spent ==
    /\ consumed \subseteq shown
    /\ file \in Tokens => file \notin consumed \ kept
    /\ \A r \in Requests :
          pc[r] = "start" /\ given[r] \in Tokens => file # given[r] \/ given[r] \in kept

(* A request that came late has not read the token it presents. *)
TooLate ==
    \A r \in late :
        /\ pc[r] # "idle" /\ given[r] \in consumed \ kept
        /\ given[r] \in Tokens => /\ pc[r] \notin Admitted
                                  /\ pc[r] = "checking" => token[r] # given[r]

TokenInv == TypeOK /\ Issued /\ Unwritten /\ Sent /\ Spent /\ TooLate

(* The requests of a process that ends are cut off; the files stay. *)
LEMMA CrashKeepsTokens == TokenInv /\ CrashAndRestart => TokenInv'
<1> SUFFICES ASSUME TokenInv, CrashAndRestart PROVE TokenInv'
  OBVIOUS
<1>1. TypeOK /\ Issued /\ Unwritten /\ Sent /\ Spent /\ TooLate
  BY DEF TokenInv
<1>2. UNCHANGED <<token, given, id, file, generated, shown, board, outages,
                  consumed, kept, late, stored>>
  BY DEF CrashAndRestart, history
<1>3. ASSUME NEW c \in Callers
      PROVE  /\ pc'[c] \in {"idle"} \cup Ended
             /\ c # Display => /\ pc[c] = "idle" => pc'[c] = "idle"
                               /\ pc'[c] = "idle" => pc[c] = "idle"
                               /\ pc'[c] = "ok" => pc[c] = "ok"
  BY <1>1 DEF CrashAndRestart, CutOff, Ended, TypeOK
<1>4. Requests \subseteq Callers /\ Display \notin Requests
  BY NamesAssumption DEF Callers
<1>5. TypeOK'
  <2>1. pc' \in [Callers -> Places]
    BY <1>3 DEF CrashAndRestart, Places, Ended
  <2>2. crashes' \in 0..MaxCrashes
    BY <1>1, BoundsAssumption DEF CrashAndRestart, TypeOK
  <2>3. QED
    BY <1>1, <1>2, <2>1, <2>2 DEF CrashAndRestart, TypeOK
<1>6. Issued' /\ Unwritten'
  BY <1>1, <1>2, <1>3 DEF Issued, Unwritten, Writing, Ended
<1>7. Sent'
  <2>1. ASSUME NEW r \in Requests, pc'[r] # "idle" PROVE pc[r] # "idle"
    BY <1>3, <1>4, <2>1
  <2>2. QED
    BY <1>1, <1>2, <2>1 DEF Sent
<1>8. Spent'
  BY <1>1, <1>2, <1>3, <1>4 DEF Spent, Ended
<1>9. TooLate'
  <2>1. late \subseteq Requests
    BY <1>1 DEF TypeOK
  <2>2. ASSUME NEW r \in late PROVE /\ pc'[r] # "idle" /\ pc'[r] # "checking"
                                    /\ pc'[r] \in Admitted => pc[r] \in Admitted
    <3>1. pc[r] # "idle"
      BY <1>1 DEF TooLate
    <3>2. QED
      BY <1>3, <1>4, <2>1, <3>1 DEF Ended, Admitted
  <2>3. QED
    BY <1>1, <1>2, <2>2 DEF TooLate
<1>10. QED
  BY <1>5, <1>6, <1>7, <1>8, <1>9 DEF TokenInv

(* One step for each call: no token is lost sight of. *)
LEMMA TokenStep == TokenInv /\ [Next]_vars => TokenInv'
<1> SUFFICES ASSUME TokenInv, [Next]_vars PROVE TokenInv'
  OBVIOUS
<1> USE NamesAssumption, BoundsAssumption
        DEF TokenInv, TypeOK, Issued, Unwritten, Sent, Spent, TooLate, Writing, Callers,
            Admitted, Ended, Places, Goto, request, disk, status, history
<1>1. CASE DisplayAsks
  BY <1>1 DEF DisplayAsks
<1>2. CASE DisplayShows
  BY <1>2 DEF DisplayShows
<1>3. CASE BoardGoesDown
  <2>1. board' \in [up : BOOLEAN, id : BoardIds \cup {NoId}, baseline : BOOLEAN]
    BY <1>3 DEF BoardGoesDown
  <2>2. TypeOK'
    BY <1>3, <2>1 DEF BoardGoesDown
  <2>3. QED
    BY <1>3, <2>2 DEF BoardGoesDown
<1>4. CASE BoardComesUp
  <2>1. board' \in [up : BOOLEAN, id : BoardIds \cup {NoId}, baseline : BOOLEAN]
    BY <1>4 DEF BoardComesUp
  <2>2. TypeOK'
    BY <1>4, <2>1 DEF BoardComesUp
  <2>3. QED
    BY <1>4, <2>2 DEF BoardComesUp
<1>5. CASE CrashAndRestart
  BY <1>5, CrashKeepsTokens
<1>6. ASSUME NEW c \in Callers, ReadToken(c), TokenCall(c) PROVE TokenInv'
  BY <1>6 DEF ReadToken, TokenCall
<1>7. ASSUME NEW c \in Callers, DrawToken(c), TokenCall(c) PROVE TokenInv'
  BY <1>7 DEF DrawToken, TokenCall
<1>8. ASSUME NEW c \in Callers, CreateFile(c), TokenCall(c) PROVE TokenInv'
  BY <1>8 DEF CreateFile, TokenCall
<1>9. ASSUME NEW c \in Callers, WriteToken(c), TokenCall(c) PROVE TokenInv'
  BY <1>9 DEF WriteToken, TokenCall
<1>10. ASSUME NEW c \in Callers, WriteTokenFails(c), TokenCall(c) PROVE TokenInv'
  BY <1>10 DEF WriteTokenFails, TokenCall
<1>11. ASSUME NEW r \in Requests, Post(r) PROVE TokenInv'
  BY <1>11 DEF Post
<1>12. ASSUME NEW r \in Requests, Check(r) PROVE TokenInv'
  BY <1>12 DEF Check, Matches
<1>13. ASSUME NEW r \in Requests, ReadCameras(r) PROVE TokenInv'
  BY <1>13 DEF ReadCameras
<1>14. ASSUME NEW r \in Requests, PutBaseline(r) PROVE TokenInv'
  <2>1. board' \in [up : BOOLEAN, id : BoardIds \cup {NoId}, baseline : BOOLEAN]
    BY <1>14 DEF PutBaseline
  <2>2. TypeOK'
    BY <1>14, <2>1 DEF PutBaseline
  <2>3. QED
    BY <1>14, <2>2 DEF PutBaseline
<1>15. ASSUME NEW r \in Requests, Refuse(r) PROVE TokenInv'
  BY <1>15 DEF Refuse
<1>16. ASSUME NEW r \in Requests, PatchApplied(r) PROVE TokenInv'
  <2>1. board' \in [up : BOOLEAN, id : BoardIds \cup {NoId}, baseline : BOOLEAN]
    BY <1>16 DEF PatchApplied
  <2>2. TypeOK'
    BY <1>16, <2>1 DEF PatchApplied
  <2>3. QED
    BY <1>16, <2>2 DEF PatchApplied
<1>17. ASSUME NEW r \in Requests, PatchFails(r) PROVE TokenInv'
  BY <1>17 DEF PatchFails
<1>18. ASSUME NEW r \in Requests, PatchNotRetained(r) PROVE TokenInv'
  BY <1>18 DEF PatchNotRetained
<1>19. ASSUME NEW r \in Requests, Reconcile(r) PROVE TokenInv'
  BY <1>19 DEF Reconcile
<1>20. ASSUME NEW r \in Requests, ReconcileGivesUp(r) PROVE TokenInv'
  BY <1>20 DEF ReconcileGivesUp
<1>21. ASSUME NEW r \in Requests, Consume(r) PROVE TokenInv'
  BY <1>21 DEF Consume
<1>21a. ASSUME NEW r \in Requests, ConsumeFails(r) PROVE TokenInv'
  BY <1>21a DEF ConsumeFails
<1>22. ASSUME NEW r \in Requests, StartCalibration(r) PROVE TokenInv'
  <2>1. TypeOK'
    BY <1>22 DEF StartCalibration
  <2>2. Issued'
    BY <1>22 DEF StartCalibration
  <2>3. Unwritten'
    BY <1>22 DEF StartCalibration
  <2>4. Sent'
    BY <1>22 DEF StartCalibration
  <2>5. Spent'
    BY <1>22 DEF StartCalibration
  <2>6. TooLate'
    BY <1>22 DEF StartCalibration
  <2>7. QED
    BY <2>1, <2>2, <2>3, <2>4, <2>5, <2>6
<1>23. ASSUME NEW r \in Requests, CalibrationComplete(r) PROVE TokenInv'
  BY <1>23 DEF CalibrationComplete
<1>24. ASSUME NEW r \in Requests, CalibrationFails(r) PROVE TokenInv'
  BY <1>24 DEF CalibrationFails
<1>25. CASE UNCHANGED vars
  BY <1>25 DEF vars
<1>26. QED
  BY <1>1, <1>2, <1>3, <1>4, <1>5, <1>6, <1>7, <1>8, <1>9, <1>10, <1>11,
     <1>12, <1>13, <1>14, <1>15, <1>16, <1>17, <1>18, <1>19, <1>20, <1>21,
     <1>21a, <1>22, <1>23, <1>24, <1>25
  DEF Next, TokenCall, Setup, Calibrate

(***************************************************************************)
(* What a request has done to the Board Manager by the time it is where    *)
(* it is.                                                                  *)
(***************************************************************************)
Configured ==
    /\ board.id \in stored \cup {NoId}
    /\ \A r \in Requests :
          /\ pc[r] \in {"patch", "reconcile", "consume", "start", "ok"} => board.baseline
          /\ pc[r] \in {"consume", "start", "ok"} => id[r] \in stored
    /\ \A r \in calibrating : pc[r] = "ok"

LEMMA ConfiguredStep == TypeOK /\ Sent /\ Configured /\ [Next]_vars => Configured'
<1> SUFFICES ASSUME TypeOK, Sent, Configured, [Next]_vars PROVE Configured'
  OBVIOUS
<1> USE NamesAssumption DEF TypeOK, Sent, Configured, Callers, Goto, request, status, history
<1>1. CASE DisplayAsks
  BY <1>1 DEF DisplayAsks
<1>2. CASE DisplayShows
  BY <1>2 DEF DisplayShows
<1>3. CASE BoardGoesDown
  BY <1>3 DEF BoardGoesDown
<1>4. CASE BoardComesUp
  BY <1>4 DEF BoardComesUp
<1>5. CASE CrashAndRestart
  BY <1>5 DEF CrashAndRestart, CutOff, Ended
<1>6. ASSUME NEW c \in Callers, TokenCall(c) PROVE Configured'
  <2>1. UNCHANGED <<id, board, stored, calibrating>> /\ pc[c] \notin Admitted
    BY <1>6 DEF TokenCall, ReadToken, DrawToken, CreateFile, WriteToken,
       WriteTokenFails, Admitted
  <2>2. \E place \in {"checking", "create", "write", "refused"} : Goto(c, place)
    BY <1>6 DEF TokenCall, ReadToken, DrawToken, CreateFile, WriteToken,
       WriteTokenFails
  <2>3. QED
    BY <2>1, <2>2 DEF Admitted
<1>7. ASSUME NEW r \in Requests, Post(r) PROVE Configured'
  BY <1>7 DEF Post
<1>8. ASSUME NEW r \in Requests, Check(r) PROVE Configured'
  BY <1>8 DEF Check, Matches
<1>9. ASSUME NEW r \in Requests, ReadCameras(r) PROVE Configured'
  BY <1>9 DEF ReadCameras
<1>10. ASSUME NEW r \in Requests, PutBaseline(r) PROVE Configured'
  BY <1>10 DEF PutBaseline
<1>11. ASSUME NEW r \in Requests, Refuse(r) PROVE Configured'
  BY <1>11 DEF Refuse
<1>12. ASSUME NEW r \in Requests, PatchApplied(r) PROVE Configured'
  BY <1>12 DEF PatchApplied
<1>13. ASSUME NEW r \in Requests, PatchFails(r) PROVE Configured'
  BY <1>13 DEF PatchFails
<1>14. ASSUME NEW r \in Requests, PatchNotRetained(r) PROVE Configured'
  BY <1>14 DEF PatchNotRetained
<1>15. ASSUME NEW r \in Requests, Reconcile(r) PROVE Configured'
  BY <1>15 DEF Reconcile
<1>16. ASSUME NEW r \in Requests, ReconcileGivesUp(r) PROVE Configured'
  BY <1>16 DEF ReconcileGivesUp
<1>17. ASSUME NEW r \in Requests, Consume(r) PROVE Configured'
  BY <1>17 DEF Consume
<1>17a. ASSUME NEW r \in Requests, ConsumeFails(r) PROVE Configured'
  BY <1>17a DEF ConsumeFails
<1>18. ASSUME NEW r \in Requests, StartCalibration(r) PROVE Configured'
  BY <1>18 DEF StartCalibration
<1>19. ASSUME NEW r \in Requests, CalibrationComplete(r) PROVE Configured'
  BY <1>19 DEF CalibrationComplete
<1>20. ASSUME NEW r \in Requests, CalibrationFails(r) PROVE Configured'
  BY <1>20 DEF CalibrationFails
<1>21. CASE UNCHANGED vars
  BY <1>21 DEF vars
<1>22. QED
  BY <1>1, <1>2, <1>3, <1>4, <1>5, <1>6, <1>7, <1>8, <1>9, <1>10, <1>11,
     <1>12, <1>13, <1>14, <1>15, <1>16, <1>17, <1>17a, <1>18, <1>19, <1>20, <1>21
  DEF Next, Setup, Calibrate

LEMMA Invariant == Spec => [](TokenInv /\ Configured)
<1>1. Init => TokenInv /\ Configured
  BY NamesAssumption, BoundsAssumption
     DEF Init, TokenInv, TypeOK, Issued, Unwritten, Sent, Spent, TooLate, Configured, Writing,
         Callers, Places
<1>2. TokenInv /\ Configured /\ [Next]_vars => (TokenInv /\ Configured)'
  BY TokenStep, ConfiguredStep DEF TokenInv
<1>3. QED
  BY <1>1, <1>2, PTL DEF Spec

(* The variables have their types, and the token file is open only where   *)
(* it is being written (token, write).                                     *)
THEOREM TypeCorrect == Spec => []TypeOK
<1>1. TokenInv => TypeOK
  BY DEF TokenInv
<1>2. QED
  BY <1>1, Invariant, PTL

(* A pairing code that a setup has succeeded with is refused from then on, *)
(* however many requests write the token file without a lock, and wherever *)
(* the file could not be removed, from the moment a later setup removed it *)
(* (setup, token).                                                         *)
THEOREM SpentCodesAreRefused == Spec => []ConsumedTokenRefused
<1>1. TokenInv => ConsumedTokenRefused
  BY DEF TokenInv, TooLate, ConsumedTokenRefused
<1>2. QED
  BY <1>1, Invariant, PTL

(* The calibration is asked for only of a board that has a baseline and    *)
(* has stored the identity of the request (setup, waitForBoardID).         *)
THEOREM CalibrationHasBaseline == Spec => []CalibratesConfiguredBoard
<1>1. TokenInv /\ Configured => CalibratesConfiguredBoard
  BY DEF TokenInv, TypeOK, Configured, CalibratesConfiguredBoard
<1>2. QED
  BY <1>1, Invariant, PTL
===============================================================================
