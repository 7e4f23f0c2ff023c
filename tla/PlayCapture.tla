----------------------------- MODULE PlayCapture -----------------------------
(***************************************************************************)
(* Play messages on their way into the onboarding service: the extension   *)
(* posts each message of the page without waiting for the one before       *)
(* (kiosk/extension), and cmd/autodarts-onboarding/main.go takes them in   *)
(* under its one lock, which it holds while it reads the body of a request *)
(* and writes the files.  The display reads play-state.json without it.    *)
(***************************************************************************)
EXTENDS Integers, Sequences, FiniteSets, SequencesExt

CONSTANTS
    MaxMessages, \* bound: messages of the page
    MaxOrders,   \* bound: captures started or stopped and status requests
    MaxFailures, \* bound: requests that are invalid and writes that fail
    MaxCrashes   \* bound: ends of the service

ASSUME PlayCaptureAssumption ==
    {MaxMessages, MaxOrders, MaxFailures, MaxCrashes} \subseteq Nat

VARIABLES
    sent,         \* messages the extension has posted: 1..sent
    post,         \* the handler of each message
    order,        \* the request of the operator: none | start | stop | status
    lock,         \* the message whose handler holds s.mu, or Free
    playCapture, playMessages, playEvents,
    playState,    \* play-state.json: Absent, Empty or a message
    lines,        \* play-events.jsonl: each line a message, Torn or Spoiled
    answered,     \* messages stored and answered with 204
    (***********************************************************************)
    (* Auxiliary: the messages answered before each was sent, and the      *)
    (* bounded counters.                                                   *)
    (***********************************************************************)
    preceding, orders, failures, crashes

memory == <<playCapture, playMessages, playEvents>>
disk == <<playState, lines>>
bounds == <<orders, failures, crashes>>
vars == <<sent, post, order, lock, memory, disk, answered, preceding, bounds>>

Message == 1..MaxMessages
Free == 0
Absent == 0
Empty == -1
Torn == 0      \* a part of a line, without its end
Spoiled == -1  \* a line that begins with such a part

Advance(m, step) == post' = [post EXCEPT ![m] = step]

(* The handler returns and its deferred Unlock runs. *)
Return(m) ==
    /\ post' = [post EXCEPT ![m] = "done"]
    /\ lock' = Free

Failing ==
    /\ failures < MaxFailures
    /\ failures' = failures + 1
    /\ UNCHANGED <<orders, crashes>>

-----------------------------------------------------------------------------
(***************************************************************************)
(* The extension and the operator.                                         *)
(***************************************************************************)

(* background.js does not wait for the answer of a message. *)
PostMessage ==
    /\ sent < MaxMessages
    /\ sent' = sent + 1
    /\ Advance(sent + 1, "sent")
    /\ preceding' = [preceding EXCEPT ![sent + 1] = answered]
    /\ UNCHANGED <<order, lock, memory, disk, answered, bounds>>

Ask ==
    /\ order = "none" /\ orders < MaxOrders
    /\ order' \in {"start", "stop", "status"}
    /\ orders' = orders + 1
    /\ UNCHANGED <<sent, post, lock, memory, disk, answered, preceding, failures, crashes>>

-----------------------------------------------------------------------------
(***************************************************************************)
(* playPost and the status.                                                *)
(***************************************************************************)

(* Mutant: the handler of start does not take the lock. *)
StartUnlocked ==
    /\ order = "start"
    /\ order' = "none"
    /\ lines' = <<>> /\ playCapture' = TRUE /\ playEvents' = 0
    /\ UNCHANGED <<sent, post, lock, playMessages, playState, answered, preceding, bounds>>

Start ==
    /\ order = "start" /\ lock = Free
    /\ order' = "none"
    /\ lines' = <<>> /\ playCapture' = TRUE /\ playEvents' = 0
    /\ UNCHANGED <<sent, post, lock, playMessages, playState, answered, preceding, bounds>>

(* Nobody looks at the error of os.Remove. *)
StartKeepsFile ==
    /\ order = "start" /\ lock = Free
    /\ order' = "none"
    /\ playCapture' = TRUE /\ playEvents' = 0
    /\ Failing
    /\ UNCHANGED <<sent, post, lock, playMessages, disk, answered, preceding>>

Stop ==
    /\ order = "stop" /\ lock = Free
    /\ order' = "none"
    /\ playCapture' = FALSE
    /\ UNCHANGED <<sent, post, lock, playMessages, playEvents, disk, answered, preceding, bounds>>

(* Both /api/status and /api/play-capture/status take the lock. *)
Status ==
    /\ order = "status" /\ lock = Free
    /\ order' = "none"
    /\ UNCHANGED <<sent, post, lock, memory, disk, answered, preceding, bounds>>

(* The requests are handled in any order. *)
Lock(m) ==
    /\ post[m] = "sent" /\ lock = Free
    /\ lock' = m
    /\ Advance(m, "decode")
    /\ UNCHANGED <<sent, order, memory, disk, answered, preceding, bounds>>

(* Mutant: a message is answered as soon as it has been read. *)
DecodeAndAnswer(m) ==
    /\ post[m] = "decode"
    /\ Advance(m, "truncate")
    /\ answered' = answered \cup {m}
    /\ lock' = Free
    /\ UNCHANGED <<sent, order, memory, disk, preceding, bounds>>

(* The body has arrived. *)
Decode(m) ==
    /\ post[m] = "decode"
    /\ Advance(m, "truncate")
    /\ UNCHANGED <<sent, order, lock, memory, disk, answered, preceding, bounds>>

(* Mutant: the answer to a message that is refused leaves the lock taken. *)
RefusedLocked(m) ==
    /\ post[m] = "decode"
    /\ Failing
    /\ post' = [post EXCEPT ![m] = "done"]
    /\ UNCHANGED <<sent, order, lock, memory, disk, answered, preceding>>

(* The body, its size or its URL is not accepted, or the folder cannot be  *)
(* written to.                                                             *)
Refused(m) ==
    /\ post[m] = "decode"
    /\ Failing
    /\ Return(m)
    /\ UNCHANGED <<sent, order, memory, disk, answered, preceding>>

(* os.WriteFile opens the file and empties it. *)
Truncate(m) ==
    /\ post[m] = "truncate"
    /\ playState' = Empty
    /\ Advance(m, "write")
    /\ UNCHANGED <<sent, order, lock, memory, lines, answered, preceding, bounds>>

WriteState(m) ==
    /\ post[m] = "write"
    /\ playState' = m
    /\ playMessages' = playMessages + 1
    /\ IF playCapture
       THEN Advance(m, "append") /\ UNCHANGED <<lock, answered>>
       ELSE Return(m) /\ answered' = answered \cup {m}
    /\ UNCHANGED <<sent, order, playCapture, playEvents, lines, preceding, bounds>>

(* Nothing reaches the file, or only the Chmod fails. *)
WriteStateFails(m) ==
    /\ post[m] = "write"
    /\ playState' \in {Empty, m}
    /\ Failing
    /\ Return(m)
    /\ UNCHANGED <<sent, order, memory, lines, answered, preceding>>

PartlyWritten ==
    {IF lines # <<>> /\ Last(lines) = Torn THEN lines ELSE Append(lines, Torn)}

(* The file is opened to append: what follows a part of a line joins it.   *)
AppendLine(m) ==
    /\ post[m] = "append"
    /\ lines' = IF lines # <<>> /\ Last(lines) = Torn
                THEN Append(Front(lines), Spoiled)
                ELSE Append(lines, m)
    /\ Advance(m, "count")
    /\ UNCHANGED <<sent, order, lock, memory, playState, answered, preceding, bounds>>

AppendFails(m) ==
    /\ post[m] = "append"
    /\ lines' \in {lines} \cup PartlyWritten
    /\ Failing
    /\ Return(m)
    /\ UNCHANGED <<sent, order, memory, playState, answered, preceding>>

Count(m) ==
    /\ post[m] = "count"
    /\ playEvents' = playEvents + 1
    /\ Return(m)
    /\ answered' = answered \cup {m}
    /\ UNCHANGED <<sent, order, playCapture, playMessages, disk, preceding, bounds>>

Handle(m) ==
    \/ Lock(m) \/ Decode(m) \/ Refused(m) \/ Truncate(m)
    \/ WriteState(m) \/ WriteStateFails(m) \/ AppendLine(m) \/ AppendFails(m) \/ Count(m)

Operate == Start \/ StartKeepsFile \/ Stop \/ Status

-----------------------------------------------------------------------------

(* The service ends and is started again; the files stay as they are. *)
CrashAndRestart ==
    /\ crashes < MaxCrashes
    /\ crashes' = crashes + 1
    /\ post' = [m \in Message |-> IF m <= sent THEN "done" ELSE post[m]]
    /\ lock' = Free /\ order' = "none"
    /\ playCapture' = FALSE /\ playMessages' = 0 /\ playEvents' = 0
    /\ lines' \in {lines} \cup (IF "append" \in ToSet(post) THEN PartlyWritten ELSE {})
    /\ UNCHANGED <<sent, playState, answered, preceding, orders, failures>>

Init ==
    /\ sent = 0 /\ post = [m \in Message |-> "none"]
    /\ order = "none" /\ lock = Free
    /\ playCapture = FALSE /\ playMessages = 0 /\ playEvents = 0
    /\ playState = Absent /\ lines = <<>>
    /\ answered = {} /\ preceding = [m \in Message |-> {}]
    /\ orders = 0 /\ failures = 0 /\ crashes = 0

Handling == \E m \in Message : Handle(m)

Next == PostMessage \/ Ask \/ Handling \/ Operate \/ CrashAndRestart

Spec == Init /\ [][Next]_vars

(* Handlers run, the body of a local request arrives, and sync.Mutex lets  *)
(* nobody wait for ever: the bounded messages come to an end.              *)
Fairness == WF_vars(Handling) /\ WF_vars(Operate)

FairSpec == Spec /\ Fairness

-----------------------------------------------------------------------------

(* The number of events the service reports is the number of lines it has  *)
(* stored since the capture was started, one for each message, as long as  *)
(* no write has failed: start empties the file and the count together,     *)
(* although messages are on their way in.                                  *)
CountedLinesAreStored ==
    (playCapture \/ playEvents > 0) /\ failures = 0 =>
        /\ IsInjective(lines) /\ Torn \notin ToSet(lines)
        /\ Len(lines) = playEvents + Cardinality({m \in Message : post[m] = "count"})

(* Requests overtake each other, so an older message may be the last to be *)
(* stored, but only one that was on its way together with the newer: once  *)
(* a message is stored and answered, none that was answered before it was  *)
(* sent comes back.                                                        *)
StateIsRegular ==
    \A n \in answered : playState \notin preceding[n]

(* The operator is answered, whatever the handlers that hold the lock meet. *)
OperatorAnswered == order # "none" ~> order = "none"
=============================================================================
