--------------------------- MODULE PlayCaptureProofs ---------------------------
(***************************************************************************)
(* For any number of messages, orders, failures and crashes: a message     *)
(* that has been superseded does not come back as the state, and the       *)
(* events that are counted are the lines that are stored.                  *)
(***************************************************************************)
EXTENDS PlayCapture, FiniteSetTheorems, TLAPS

Holding == {"decode", "truncate", "write", "append", "count"}

TypeOK ==
    /\ sent \in 0..MaxMessages
    /\ post \in [Message -> {"none", "sent", "done"} \cup Holding]
    /\ playState \in {Absent, Empty} \cup Message
    /\ answered \subseteq Message
    /\ preceding \in [Message -> SUBSET Message]
    /\ playEvents \in Nat /\ failures \in Nat

(* A handler that works on the files holds the lock. *)
Exclusive == \A m \in Message : post[m] \in Holding => lock = m

(* What has been answered is over, and was answered before what was sent   *)
(* after it.                                                               *)
Settled ==
    /\ \A m \in Message : m > sent => post[m] = "none"
    /\ \A m \in answered : post[m] = "done"
    /\ \A m \in Message : preceding[m] \subseteq answered

(* A handler that has stored its state is the last that did. *)
Stored == \A m \in Message : post[m] \in {"append", "count"} => playState = m

RegularInv == TypeOK /\ Exclusive /\ Settled /\ Stored /\ StateIsRegular


LEMMA RegularInit == Init => RegularInv
<1> USE PlayCaptureAssumption
<1> QED
  BY DEF Init, RegularInv, TypeOK, Exclusive, Settled, Stored, StateIsRegular,
         Holding, Message, Absent, Empty, Free

(* A step that leaves the messages alone. *)
LEMMA RegularFrame ==
    ASSUME RegularInv, UNCHANGED <<sent, post, lock, playState, answered, preceding>>,
           playEvents' \in Nat, failures' \in Nat
    PROVE  RegularInv'
  BY DEF RegularInv, TypeOK, Exclusive, Settled, Stored, StateIsRegular

(* The handler of a message takes a step. *)
LEMMA RegularHandle ==
    ASSUME RegularInv, NEW m \in Message, Handle(m)
    PROVE  RegularInv'
<1> USE PlayCaptureAssumption
        DEF RegularInv, TypeOK, Exclusive, Settled, Stored, StateIsRegular, Holding,
            Message, Absent, Empty, Free, Advance, Return, Failing, memory, disk, bounds
<1>1. CASE Lock(m)
  BY <1>1 DEF Lock
<1>2. CASE Decode(m)
  BY <1>2 DEF Decode
<1>3. CASE Refused(m)
  BY <1>3 DEF Refused
<1>4. CASE Truncate(m)
  BY <1>4, SMTT(30) DEF Truncate
<1>5. CASE WriteState(m)
  <2>1. /\ post[m] = "write" /\ lock = m /\ m \notin answered
        /\ playState' = m
        /\ UNCHANGED <<sent, playEvents, preceding, failures>>
    BY <1>5 DEF WriteState
  <2>2. CASE post' = [post EXCEPT ![m] = "append"] /\ UNCHANGED <<lock, answered>>
    BY <2>1, <2>2
  <2>3. CASE post' = [post EXCEPT ![m] = "done"] /\ lock' = Free
                /\ answered' = answered \cup {m}
    BY <2>1, <2>3
  <2>4. QED
    BY <1>5, <2>2, <2>3 DEF WriteState
<1>6. CASE WriteStateFails(m)
  BY <1>6, SMTT(30) DEF WriteStateFails
<1>7. CASE AppendLine(m)
  BY <1>7, SMTT(30) DEF AppendLine
<1>8. CASE AppendFails(m)
  BY <1>8 DEF AppendFails
<1>9. CASE Count(m)
  BY <1>9 DEF Count
<1> QED
  BY <1>1, <1>2, <1>3, <1>4, <1>5, <1>6, <1>7, <1>8, <1>9 DEF Handle

LEMMA RegularStep == RegularInv /\ [Next]_vars => RegularInv'
<1> SUFFICES ASSUME RegularInv, [Next]_vars PROVE RegularInv'
  OBVIOUS
<1>1. CASE Handling
  BY <1>1, RegularHandle DEF Handling
<1>2. playEvents \in Nat /\ failures \in Nat
  BY DEF RegularInv, TypeOK
<1>3. CASE Ask
  <2>1. UNCHANGED <<sent, post, lock, playState, answered, preceding, playEvents, failures>>
    BY <1>3 DEF Ask, memory, disk
  <2>2. QED
    BY <2>1, <1>2, RegularFrame
<1>4. CASE Operate
  <2>1. /\ UNCHANGED <<sent, post, lock, playState, answered, preceding>>
        /\ playEvents' \in {0, playEvents} /\ failures' \in {failures, failures + 1}
    BY <1>4 DEF Operate, Start, StartKeepsFile, Stop, Status, Failing, memory, disk, bounds
  <2>2. QED
    BY <2>1, <1>2, RegularFrame
<1>5. CASE UNCHANGED vars
  <2>1. UNCHANGED <<sent, post, lock, playState, answered, preceding, playEvents, failures>>
    BY <1>5 DEF vars, memory, disk, bounds
  <2>2. QED
    BY <2>1, <1>2, RegularFrame
<1>6. CASE PostMessage
  BY <1>6, PlayCaptureAssumption, SMTT(30)
     DEF PostMessage, RegularInv, TypeOK, Exclusive, Settled, Stored, StateIsRegular, Holding,
         Message, Absent, Empty, Advance, memory, disk, bounds
<1>7. CASE CrashAndRestart
  BY <1>7, PlayCaptureAssumption
     DEF CrashAndRestart, RegularInv, TypeOK, Exclusive, Settled, Stored, StateIsRegular, Holding,
         Message, Absent, Empty, Free
<1> QED
  BY <1>1, <1>3, <1>4, <1>5, <1>6, <1>7 DEF Next

(* No message that was answered before another was sent is the state after *)
(* that one has been answered (StateIsRegular), whatever order the         *)
(* requests are handled in and wherever the service ends.                  *)
THEOREM SupersededStaysAway == Spec => []StateIsRegular
<1>1. RegularInv => StateIsRegular
  BY DEF RegularInv
<1> QED
  BY RegularInit, RegularStep, <1>1, PTL DEF Spec

-----------------------------------------------------------------------------

Capturing == (playCapture \/ playEvents > 0) /\ failures = 0

Counting == {m \in Message : post[m] = "count"}

(* Only an event that is to be recorded is appended. *)
Recording == \A m \in Message : post[m] \in {"append", "count"} => playCapture

(* The lines are those of the messages that have been through, and the     *)
(* last of them may still have to be counted.                              *)
LinesCounted ==
    Capturing =>
        /\ lines \in Seq(Message)
        /\ \A i, j \in 1..Len(lines) : lines[i] = lines[j] => i = j
        /\ \A i \in 1..Len(lines) : post[lines[i]] \in {"count", "done"}
        /\ Counting = {} => Len(lines) = playEvents
        /\ Counting # {} => Len(lines) = playEvents + 1

LinesInv == RegularInv /\ Recording /\ LinesCounted

LEMMA LinesInit == Init => LinesInv
<1> SUFFICES ASSUME Init PROVE LinesInv
  OBVIOUS
<1>1. RegularInv
  BY RegularInit
<1>2. Recording /\ LinesCounted
  BY DEF Init, Recording, LinesCounted, Capturing
<1> QED
  BY <1>1, <1>2 DEF LinesInv

(* A step after which the capture has failed, or that does not touch it. *)
LEMMA LinesFrame ==
    ASSUME LinesInv, RegularInv',
           \/ failures' = failures + 1
           \/ UNCHANGED <<lines, playCapture, playEvents, failures>>,
           playCapture' = playCapture,
           \A m \in Message :
              /\ post'[m] \in {"append", "count"} => post[m] = post'[m]
              /\ post[m] = "count" => post'[m] = "count" \/ failures' = failures + 1
              /\ post[m] = "done" => post'[m] = "done"
    PROVE  Recording' /\ LinesCounted'
<1>1. failures \in Nat
  BY DEF LinesInv, RegularInv, TypeOK
<1>2. Recording'
  BY DEF LinesInv, Recording
<1>3. CASE failures' = failures + 1
  BY <1>1, <1>2, <1>3 DEF LinesCounted, Capturing
<1>4. CASE failures' # failures + 1
  <2>1. Capturing' = Capturing /\ lines' = lines /\ playEvents' = playEvents
    BY <1>4 DEF Capturing
  <2>2. Counting' = Counting
    BY <1>4 DEF Counting
  <2>3. ASSUME Capturing, NEW i \in 1..Len(lines) PROVE post'[lines[i]] \in {"count", "done"}
    <3>1. lines[i] \in Message /\ post[lines[i]] \in {"count", "done"}
      BY <2>3 DEF LinesInv, LinesCounted
    <3>2. QED
      BY <3>1, <1>4
  <2>4. QED
    BY <1>2, <2>1, <2>2, <2>3 DEF LinesInv, LinesCounted
<1> QED
  BY <1>3, <1>4

LEMMA LinesHandle ==
    ASSUME LinesInv, RegularInv', NEW m \in Message, Handle(m)
    PROVE  Recording' /\ LinesCounted'
<1>1. /\ post \in [Message -> {"none", "sent", "done"} \cup Holding]
      /\ playEvents \in Nat /\ failures \in Nat /\ Exclusive /\ Recording /\ LinesCounted
  BY DEF LinesInv, RegularInv, TypeOK
<1>2. CASE Lock(m) \/ Decode(m) \/ Truncate(m)
  BY <1>1, <1>2, LinesFrame DEF Lock, Decode, Truncate, Advance, memory, disk, bounds
<1>3. CASE Refused(m) \/ WriteStateFails(m) \/ AppendFails(m)
  BY <1>1, <1>3, LinesFrame
     DEF Refused, WriteStateFails, AppendFails, Failing, Return, memory, disk, bounds
<1>4. CASE WriteState(m)
  <2>1. /\ post[m] = "write" /\ UNCHANGED <<lines, playCapture, playEvents, failures>>
        /\ \/ playCapture /\ post' = [post EXCEPT ![m] = "append"]
           \/ post' = [post EXCEPT ![m] = "done"]
    BY <1>4 DEF WriteState, Advance, Return, bounds
  <2>2. Recording'
    BY <1>1, <2>1 DEF Recording
  <2>3. Counting' = Counting
    BY <1>1, <2>1 DEF Counting
  <2>4. ASSUME Capturing, NEW i \in 1..Len(lines) PROVE post'[lines[i]] \in {"count", "done"}
    <3>1. lines[i] \in Message /\ post[lines[i]] \in {"count", "done"}
      BY <1>1, <2>4 DEF LinesCounted
    <3>2. QED
      BY <1>1, <2>1, <3>1
  <2>5. Capturing' = Capturing
    BY <2>1 DEF Capturing
  <2>6. QED
    BY <1>1, <2>1, <2>2, <2>3, <2>4, <2>5 DEF LinesCounted
<1>5. CASE AppendLine(m)
  <2>1. /\ post[m] = "append" /\ post' = [post EXCEPT ![m] = "count"]
        /\ UNCHANGED <<playCapture, playEvents, failures>>
        /\ lines' = IF lines # <<>> /\ Last(lines) = Torn
                    THEN Append(Front(lines), Spoiled) ELSE Append(lines, m)
    BY <1>5 DEF AppendLine, Advance, memory, bounds
  <2>2. Recording'
    BY <1>1, <2>1 DEF Recording
  <2>3. Counting = {} /\ m \in Counting'
    BY <1>1, <2>1 DEF Counting, Exclusive, Holding
  <2>4. Capturing' = Capturing
    BY <2>1 DEF Capturing
  <2>5. CASE Capturing
    <3>1. /\ lines \in Seq(Message) /\ Len(lines) = playEvents
          /\ \A i, j \in 1..Len(lines) : lines[i] = lines[j] => i = j
          /\ \A i \in 1..Len(lines) : post[lines[i]] \in {"count", "done"}
      BY <1>1, <2>3, <2>5 DEF LinesCounted
    <3>2. lines # <<>> => Last(lines) # Torn
      <4>1. lines # <<>> => Last(lines) \in Message
        BY <3>1 DEF Last
      <4>2. Torn \notin Message
        BY PlayCaptureAssumption DEF Torn, Message
      <4>3. QED
        BY <4>1, <4>2
    <3>3. lines' = Append(lines, m)
      BY <2>1, <3>2
    <3>4. \A i \in 1..Len(lines) : lines[i] # m /\ lines[i] \in Message
      BY <2>1, <3>1
    <3>5. /\ lines' \in Seq(Message) /\ Len(lines') = Len(lines) + 1
          /\ \A i \in 1..Len(lines) : lines'[i] = lines[i]
          /\ lines'[Len(lines) + 1] = m
      BY <3>1, <3>3
    <3>6. \A i, j \in 1..Len(lines') : lines'[i] = lines'[j] => i = j
      BY <3>1, <3>4, <3>5
    <3>7. \A i \in 1..Len(lines') : post'[lines'[i]] \in {"count", "done"}
      BY <1>1, <2>1, <3>1, <3>4, <3>5
    <3>8. QED
      BY <2>1, <2>2, <2>3, <3>1, <3>5, <3>6, <3>7 DEF LinesCounted
  <2>6. QED
    BY <2>2, <2>4, <2>5 DEF LinesCounted
<1>6. CASE Count(m)
  <2>1. /\ post[m] = "count" /\ post' = [post EXCEPT ![m] = "done"]
        /\ playEvents' = playEvents + 1 /\ UNCHANGED <<lines, playCapture, failures>>
    BY <1>6 DEF Count, Return, disk, bounds
  <2>2. playCapture
    BY <1>1, <2>1 DEF Recording
  <2>3. Recording'
    BY <1>1, <2>1 DEF Recording
  <2>4. m \in Counting /\ Counting' = {}
    BY <1>1, <2>1 DEF Counting, Exclusive, Holding
  <2>5. CASE failures = 0
    <3>1. /\ lines \in Seq(Message) /\ Len(lines) = playEvents + 1
          /\ \A i, j \in 1..Len(lines) : lines[i] = lines[j] => i = j
          /\ \A i \in 1..Len(lines) : post[lines[i]] \in {"count", "done"}
      BY <1>1, <2>2, <2>4, <2>5 DEF LinesCounted, Capturing
    <3>2. \A i \in 1..Len(lines) : post'[lines[i]] \in {"count", "done"}
      <4>1. \A i \in 1..Len(lines) : lines[i] \in Message
        BY <3>1
      <4>2. QED
        BY <1>1, <2>1, <3>1, <4>1
    <3>3. QED
      BY <2>1, <2>3, <2>4, <3>1, <3>2 DEF LinesCounted
  <2>6. QED
    BY <2>1, <2>3, <2>5 DEF LinesCounted, Capturing
<1> QED
  BY <1>2, <1>3, <1>4, <1>5, <1>6 DEF Handle

LEMMA LinesStep == LinesInv /\ [Next]_vars => LinesInv'
<1> SUFFICES ASSUME LinesInv, [Next]_vars PROVE LinesInv'
  OBVIOUS
<1>1. RegularInv'
  BY RegularStep DEF LinesInv
<1>2. /\ TypeOK /\ Exclusive /\ Settled /\ Recording /\ LinesCounted
  BY DEF LinesInv, RegularInv
<1>3. CASE Handling
  BY <1>1, <1>3, LinesHandle DEF Handling, LinesInv
<1>4. CASE PostMessage
  <2>1. /\ sent' = sent + 1 /\ sent + 1 \in Message
        /\ post[sent + 1] = "none" /\ post' = [post EXCEPT ![sent + 1] = "sent"]
        /\ UNCHANGED <<lines, playCapture, playEvents, failures>>
    BY <1>2, <1>4, PlayCaptureAssumption
       DEF PostMessage, Advance, TypeOK, Settled, Message, memory, disk, bounds
  <2>2. Recording' /\ LinesCounted'
    BY <1>1, <1>2, <2>1, LinesFrame DEF TypeOK
  <2>3. QED
    BY <1>1, <2>2 DEF LinesInv
<1>5. CASE Ask \/ UNCHANGED vars
  <2>1. UNCHANGED <<post, lines, playCapture, playEvents, failures>>
    BY <1>5 DEF Ask, vars, memory, disk, bounds
  <2>2. Recording' /\ LinesCounted'
    BY <1>1, <2>1, LinesFrame
  <2>3. QED
    BY <1>1, <2>2 DEF LinesInv
<1>6. CASE Status
  <2>1. UNCHANGED <<post, lines, playCapture, playEvents, failures>>
    BY <1>6 DEF Status, memory, disk, bounds
  <2>2. Recording' /\ LinesCounted'
    BY <1>1, <2>1, LinesFrame
  <2>3. QED
    BY <1>1, <2>2 DEF LinesInv
<1>7. CASE Start \/ StartKeepsFile \/ Stop
  <2>1. lock = Free /\ UNCHANGED post
    BY <1>7 DEF Start, StartKeepsFile, Stop
  <2>2. \A m \in Message : post[m] \notin {"append", "count"}
    BY <1>2, <2>1, PlayCaptureAssumption DEF Exclusive, Holding, Message, Free
  <2>3. Recording' /\ Counting = {} /\ Counting' = {}
    BY <2>1, <2>2 DEF Recording, Counting
  <2>4. CASE Start
    <3>1. lines' = <<>> /\ playEvents' = 0
      BY <2>4 DEF Start
    <3>2. QED
      BY <1>1, <2>3, <3>1 DEF LinesInv, LinesCounted
  <2>5. CASE StartKeepsFile
    <3>1. failures' = failures + 1 /\ failures \in Nat
      BY <1>2, <2>5 DEF StartKeepsFile, Failing, TypeOK
    <3>2. QED
      BY <1>1, <2>3, <3>1 DEF LinesInv, LinesCounted, Capturing
  <2>6. CASE Stop
    <3>1. ~playCapture' /\ UNCHANGED <<lines, playEvents, failures>>
      BY <2>6 DEF Stop, disk, bounds
    <3>2. Capturing' => Capturing
      BY <3>1 DEF Capturing
    <3>3. QED
      BY <1>1, <1>2, <2>1, <2>3, <3>1, <3>2 DEF LinesInv, LinesCounted
  <2>7. QED
    BY <1>7, <2>4, <2>5, <2>6
<1>8. CASE CrashAndRestart
  <2>1. /\ ~playCapture' /\ playEvents' = 0
        /\ \A m \in Message : post'[m] \notin {"append", "count"}
    BY <1>2, <1>8, PlayCaptureAssumption DEF CrashAndRestart, TypeOK, Settled, Message
  <2>2. QED
    BY <1>1, <2>1 DEF LinesInv, Recording, LinesCounted, Capturing
<1> QED
  BY <1>3, <1>4, <1>5, <1>6, <1>7, <1>8 DEF Next, Operate

(* The events the service reports are the lines stored since the capture   *)
(* was started, each message once (CountedLinesAreStored), for any number  *)
(* of messages that overtake each other and of starts and stops in between. *)
THEOREM CountIsOfStoredLines == Spec => []CountedLinesAreStored
<1>1. LinesInv => CountedLinesAreStored
  <2> SUFFICES ASSUME LinesInv, Capturing
               PROVE  /\ IsInjective(lines) /\ Torn \notin ToSet(lines)
                      /\ Len(lines) = playEvents + Cardinality(Counting)
    BY DEF CountedLinesAreStored, Capturing, Counting
  <2>1. /\ lines \in Seq(Message) /\ playEvents \in Nat
        /\ \A i, j \in 1..Len(lines) : lines[i] = lines[j] => i = j
        /\ Counting = {} => Len(lines) = playEvents
        /\ Counting # {} => Len(lines) = playEvents + 1
    BY DEF LinesInv, LinesCounted, RegularInv, TypeOK
  <2>2. IsInjective(lines)
    BY <2>1 DEF IsInjective
  <2>3. Torn \notin ToSet(lines)
    <3>1. Torn \notin Message
      BY PlayCaptureAssumption DEF Torn, Message
    <3>2. QED
      BY <2>1, <3>1 DEF ToSet
  <2>4. CASE Counting = {}
    BY <2>1, <2>2, <2>3, <2>4, FS_EmptySet
  <2>5. CASE Counting # {}
    <3>1. PICK m \in Counting : TRUE
      BY <2>5
    <3>2. Counting = {m}
      BY <3>1 DEF Counting, LinesInv, RegularInv, Exclusive, Holding
    <3>3. Cardinality(Counting) = 1
      BY <3>2, FS_Singleton
    <3>4. QED
      BY <2>1, <2>2, <2>3, <2>5, <3>3
  <2>6. QED
    BY <2>4, <2>5
<1> QED
  BY LinesInit, LinesStep, <1>1, PTL DEF Spec
================================================================================
