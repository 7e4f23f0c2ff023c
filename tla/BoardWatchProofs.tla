--------------------------- MODULE BoardWatchProofs ---------------------------
(***************************************************************************)
(* For any capacity of the channel, any number of messages and any moment  *)
(* at which the connection or the context ends: the subscription neither   *)
(* loses, duplicates nor reorders what it has read.                        *)
(***************************************************************************)
EXTENDS BoardWatch, SequenceTheorems, TLAPS

(***************************************************************************)
(* Position by position: the channel and what the goroutine holds are the  *)
(* messages read and not yet applied.  The counts agree only because the   *)
(* goroutine starts from an empty channel, once.                           *)
(***************************************************************************)
HeldCount == IF reader = "sending" THEN 1 ELSE 0

QueueTyped == read \in Nat /\ applied \in Nat /\ events \in Seq(Nat)

NotStarted ==
    /\ watch \in {"request", "subscribe"} => reader = "none"
    /\ reader = "none" => read = 0 /\ applied = 0 /\ events = <<>>

InStep ==
    reader \in {"reading", "sending"} =>
        /\ applied + Len(events) + HeldCount = read
        /\ \A i \in 1..Len(events) : events[i] = applied + i

QueueInv == QueueTyped /\ NotStarted /\ InStep

LEMMA QueueInit == Init => QueueInv
<1> SUFFICES ASSUME Init PROVE QueueInv
  OBVIOUS
<1>1. reader = "none" /\ read = 0 /\ applied = 0 /\ events = <<>>
  BY DEF Init
<1>2. QueueTyped
  BY <1>1, EmptySeq DEF QueueTyped
<1>3. QED
  BY <1>1, <1>2 DEF QueueInv, NotStarted, InStep

LEMMA QueueStep == QueueInv /\ [Next]_vars => QueueInv'
<1> SUFFICES ASSUME QueueInv, [Next]_vars PROVE QueueInv'
  OBVIOUS
<1> USE DEF QueueInv, QueueTyped, NotStarted, InStep, HeldCount, Goto
<1>1. CASE UNCHANGED <<read, reader, events, watch, applied>>
  BY <1>1
<1>2. CASE BoardManager
  BY <1>2 DEF BoardManager, DartDetected, TakeoutStarted, TakeoutFinished, OtherMessage,
              ConnectionLost, Change, Send, client
<1>3. CASE ReaderReads
  BY <1>3 DEF ReaderReads, client
<1>4. CASE ReaderSends
  <2>1. /\ reader = "sending" /\ reader' = "reading" /\ events' = Append(events, read)
        /\ UNCHANGED <<read, applied, watch>>
    BY <1>4 DEF ReaderSends, client
  <2>2. /\ events' \in Seq(Nat) /\ Len(events') = Len(events) + 1
        /\ \A i \in 1..Len(events) : events'[i] = events[i]
        /\ events'[Len(events) + 1] = read
    BY <2>1
  <2>3. Len(events) \in Nat /\ applied + Len(events) + 1 = read
    BY <2>1
  <2>4. \A i \in 1..Len(events') : events'[i] = applied + i
    <3>1. \A i \in 1..Len(events') : i \in 1..Len(events) \/ i = Len(events) + 1
      BY <2>2, <2>3
    <3>2. \A i \in 1..Len(events) : events'[i] = applied + i
      BY <2>1, <2>2
    <3>3. events'[Len(events) + 1] = applied + (Len(events) + 1)
      BY <2>2, <2>3
    <3>4. QED
      BY <3>1, <3>2, <3>3
  <2>5. applied' + Len(events') + HeldCount' = read'
    BY <2>1, <2>2, <2>3
  <2>6. watch' \notin {"request", "subscribe"} /\ reader' # "none"
    BY <2>1
  <2>7. QED
    BY <2>1, <2>2, <2>4, <2>5, <2>6
<1>5. CASE ReaderGivesUp \/ ReaderFails \/ ReaderCloses
  BY <1>5 DEF ReaderGivesUp, ReaderFails, ReaderCloses, client
<1>6. CASE WatchRequests
  BY <1>6 DEF WatchRequests, stream
<1>7. CASE WatchSubscribes
  BY <1>7 DEF WatchSubscribes
<1>8. CASE WatchEvent
  <2>1. /\ events # <<>> /\ events' = Tail(events) /\ applied' = applied + 1
        /\ UNCHANGED <<read, reader, watch>>
    BY <1>8 DEF WatchEvent
  <2>2. /\ events' \in Seq(Nat) /\ Len(events') = Len(events) - 1
        /\ \A i \in 1..Len(events') : events'[i] = events[i + 1]
    BY <2>1
  <2>3. reader # "none"
    BY <2>1
  <2>4. watch \notin {"request", "subscribe"}
    BY <2>3
  <2>5. ASSUME reader \in {"reading", "sending"}
        PROVE  /\ applied' + Len(events') + HeldCount' = read'
               /\ \A i \in 1..Len(events') : events'[i] = applied' + i
    BY <2>1, <2>2, <2>5, SMTT(30)
  <2>6. QED
    BY <2>1, <2>2, <2>3, <2>4, <2>5
<1>9. CASE WatchEventsClosed \/ WatchFailure \/ WatchFailuresClosed \/ WatchDone
  BY <1>9 DEF WatchEventsClosed, WatchFailure, WatchFailuresClosed, WatchDone, Return, stream
<1>10. CASE Interrupt
  BY <1>10 DEF Interrupt, stream
<1>11. CASE UNCHANGED vars
  BY <1>11 DEF vars, stream, client
<1>12. QED
  BY <1>2, <1>3, <1>4, <1>5, <1>6, <1>7, <1>8, <1>9, <1>10, <1>11 DEF Next, Reader, Watch

(* What the loop of autodarts-watch takes next is what the Board Manager   *)
(* sent next (Client.Events), however full the channel has been.           *)
THEOREM EventsStayInOrder == Spec => []EventsInOrder
<1>1. QueueInv => EventsInOrder
  <2> SUFFICES ASSUME QueueInv, reader \in {"reading", "sending"}
               PROVE  events \o Held = [i \in 1..(read - applied) |-> applied + i]
    BY DEF EventsInOrder
  <2>1. Held \in Seq(Nat) /\ Len(Held) = HeldCount
    BY DEF Held, HeldCount, QueueInv, QueueTyped
  <2>2. Len(events) + HeldCount = read - applied
    BY DEF QueueInv, QueueTyped, InStep, HeldCount
  <2>3. ASSUME NEW i \in 1..(Len(events) + HeldCount) PROVE (events \o Held)[i] = applied + i
    <3>1. CASE i <= Len(events)
      BY <2>1, <3>1, ConcatProperties DEF QueueInv, QueueTyped, InStep, HeldCount
    <3>2. CASE i > Len(events)
      <4>1. reader = "sending" /\ i = Len(events) + 1
        BY <3>2 DEF HeldCount, QueueInv, QueueTyped
      <4>2. (events \o Held)[i] = Held[1]
        BY <2>1, <4>1, ConcatProperties, SMTT(30) DEF QueueInv, QueueTyped, HeldCount
      <4>3. Held[1] = read
        BY <4>1 DEF Held
      <4>4. read = applied + i
        BY <2>2, <4>1 DEF HeldCount, QueueInv, QueueTyped
      <4>5. QED
        BY <4>2, <4>3, <4>4
    <3>3. i \in Int /\ Len(events) \in Int
      BY DEF QueueInv, QueueTyped, HeldCount
    <3>4. i <= Len(events) \/ i > Len(events)
      BY <3>3
    <3>5. QED
      BY <3>1, <3>2, <3>4, Zenon
  <2>4. events \o Held \in Seq(Nat) /\ Len(events \o Held) = read - applied
    BY <2>1, <2>2, ConcatProperties DEF QueueInv, QueueTyped
  <2>5. events \o Held \in [1..(read - applied) -> Nat]
    BY <2>4, LenProperties
  <2>6. \A i \in 1..(read - applied) : (events \o Held)[i] = applied + i
    BY <2>2, <2>3
  <2>7. QED
    BY <2>5, <2>6
<1>2. QED
  BY <1>1, QueueInit, QueueStep, PTL DEF Spec

-----------------------------------------------------------------------------
(***************************************************************************)
(* The view.  Two facts meet when every message has been taken: the last   *)
(* state sent is the board's while the connection lives, because every     *)
(* change is sent; and the client shows the last state among the messages  *)
(* it has taken, because messages of other types change nothing.           *)
(***************************************************************************)
Boards   == [status : {"throw", "takeout"}, throws : Seq(Throws)]
Messages == {Encode(b) : b \in Boards} \cup {[type |-> "other"]}

(* Position k holds the last state among the first n of the messages. *)
LastState(messages, k, n) ==
    /\ k \in 1..n /\ messages[k].type = "state"
    /\ \A j \in 1..n : messages[j].type = "state" => j <= k

AnyState(messages, n) == \E k \in 1..n : messages[k].type = "state"

ViewTyped == board \in Boards /\ sent \in Seq(Messages)

(* The channel holds what follows the messages applied, also while the     *)
(* goroutine ends, and nothing that was not sent; nothing is sent before   *)
(* the subscription.                                                       *)
Consecutive ==
    /\ reader = "none" => Len(sent) = 0
    /\ \A i \in 1..Len(events) : events[i] = applied + i
    /\ applied + Len(events) + HeldCount <= read
    /\ read <= Len(sent)

SentShowsBoard ==
    ~broken /\ AnyState(sent, Len(sent)) =>
        \E k \in 1..Len(sent) :
            /\ LastState(sent, k, Len(sent))
            /\ sent[k].status = board.status /\ sent[k].count = Len(board.throws)

ViewShowsApplied ==
    AnyState(sent, applied) =>
        \E k \in 1..applied :
            /\ LastState(sent, k, applied)
            /\ sent[k].status = state.status /\ sent[k].count = state.count

ViewInv == ViewTyped /\ Consecutive /\ SentShowsBoard /\ ViewShowsApplied

LEMMA MessageTyped ==
    /\ \A b \in Boards : Encode(b) \in Messages
    /\ [type |-> "other"] \in Messages
BY DEF Messages

(* What a message adds to those already sent. *)
LEMMA SentMore ==
    ASSUME ViewTyped, NEW m \in Messages, Send(m)
    PROVE  /\ sent' \in Seq(Messages)
           /\ \/ sent' = sent /\ ~Subscribed
              \/ /\ Subscribed
                 /\ Len(sent') = Len(sent) + 1 /\ sent'[Len(sent) + 1] = m
                 /\ \A i \in 1..Len(sent) : sent'[i] = sent[i]
           /\ Len(sent) \in Nat
           /\ UNCHANGED <<read, broken, reader, events, applied, state>>
BY DEF ViewTyped, Send, client

LEMMA TypesOfView == ViewTyped /\ [Next]_vars => ViewTyped'
<1> SUFFICES ASSUME ViewTyped, [Next]_vars PROVE ViewTyped'
  OBVIOUS
<1>1. ASSUME NEW b \in Boards, Change(b) PROVE ViewTyped'
  BY <1>1, SentMore, MessageTyped DEF Change, ViewTyped
<1>2. CASE \E t \in Throws : DartDetected(t)
  <2>1. PICK t \in Throws : DartDetected(t)
    BY <1>2
  <2>2. [board EXCEPT !.throws = Append(@, t)] \in Boards
    <3>1. board \in Boards /\ board.throws \in Seq(Throws)
      BY DEF ViewTyped, Boards
    <3>2. Append(board.throws, t) \in Seq(Throws)
      BY <3>1
    <3>3. QED
      BY <3>1, <3>2 DEF Boards
  <2>3. QED
    BY <1>1, <2>1, <2>2 DEF DartDetected
<1>3. CASE TakeoutStarted
  <2>1. [board EXCEPT !.status = "takeout"] \in Boards
    BY DEF ViewTyped, Boards
  <2>2. QED
    BY <1>1, <1>3, <2>1 DEF TakeoutStarted
<1>4. CASE TakeoutFinished
  <2>1. [status |-> "throw", throws |-> <<>>] \in Boards
    BY DEF Boards
  <2>2. QED
    BY <1>1, <1>4, <2>1 DEF TakeoutFinished
<1>5. CASE OtherMessage
  BY <1>5, SentMore, MessageTyped DEF OtherMessage, ViewTyped
<1>6. CASE ConnectionLost
  BY <1>6 DEF ConnectionLost, ViewTyped
<1>7. CASE UNCHANGED <<board, sent>>
  BY <1>7 DEF ViewTyped
<1>8. Reader => UNCHANGED <<board, sent>>
  BY DEF Reader, ReaderReads, ReaderSends, ReaderGivesUp, ReaderFails, ReaderCloses
<1>9. Watch => UNCHANGED <<board, sent>>
  BY DEF Watch, WatchRequests, WatchSubscribes, WatchEvent, WatchEventsClosed, WatchFailure,
         WatchFailuresClosed, WatchDone, Return, stream
<1>10. Interrupt \/ UNCHANGED vars => UNCHANGED <<board, sent>>
  BY DEF Interrupt, vars, stream
<1>11. QED
  BY <1>2, <1>3, <1>4, <1>5, <1>6, <1>7, <1>8, <1>9, <1>10 DEF Next, BoardManager

(* A change of the board is a state appended to what was sent, or nothing  *)
(* once there is nobody to send it to.                                     *)
LEMMA ChangeIsSent ==
    ASSUME QueueInv, ViewInv, NEW b \in Boards, Change(b)
    PROVE  SentShowsBoard'
<1>1. Encode(b) \in Messages /\ Send(Encode(b)) /\ board' = b
  BY MessageTyped DEF Change
<1>2. Len(sent) \in Nat /\ broken' = broken
  BY <1>1, SentMore DEF ViewInv
<1>3. CASE sent' = sent /\ ~Subscribed
  BY <1>2, <1>3 DEF Subscribed, SentShowsBoard, AnyState, ViewInv, Consecutive
<1>4. CASE sent' # sent \/ Subscribed
  <2>1. /\ Len(sent') = Len(sent) + 1 /\ sent'[Len(sent) + 1] = Encode(b)
        /\ \A i \in 1..Len(sent) : sent'[i] = sent[i]
    BY <1>1, <1>4, SentMore DEF ViewInv
  <2>2. LastState(sent', Len(sent) + 1, Len(sent'))
    BY <1>2, <2>1 DEF LastState, Encode
  <2>3. sent'[Len(sent) + 1].status = board'.status
        /\ sent'[Len(sent) + 1].count = Len(board'.throws)
    BY <1>1, <2>1 DEF Encode
  <2>4. QED
    BY <1>2, <2>1, <2>2, <2>3 DEF SentShowsBoard
<1>5. QED
  BY <1>3, <1>4

LEMMA OtherIsSent == QueueInv /\ ViewInv /\ OtherMessage => SentShowsBoard'
<1> SUFFICES ASSUME QueueInv, ViewInv, OtherMessage, SentShowsBoard PROVE SentShowsBoard'
  BY DEF ViewInv
<1> DEFINE other == [type |-> "other"]
<1>1. other \in Messages /\ Send(other) /\ board' = board
  BY MessageTyped DEF OtherMessage
<1>2. /\ Len(sent) \in Nat /\ broken' = broken /\ Len(sent') = Len(sent) + 1
      /\ sent'[Len(sent) + 1] = other
      /\ \A i \in 1..Len(sent) : sent'[i] = sent[i]
  BY <1>1, SentMore DEF ViewInv, OtherMessage
<1>3. sent'[Len(sent) + 1].type # "state"
  BY <1>2
<1> HIDE DEF other
<1>4. AnyState(sent', Len(sent')) => AnyState(sent, Len(sent))
  BY <1>2, <1>3 DEF AnyState
<1>5. \A k \in 1..Len(sent) : LastState(sent, k, Len(sent)) => LastState(sent', k, Len(sent'))
  BY <1>2, <1>3 DEF LastState
<1>6. QED
  BY <1>1, <1>2, <1>4, <1>5 DEF SentShowsBoard

(* What the client has taken stays what it was when more is sent. *)
LEMMA SendKeepsView ==
    ASSUME QueueInv, ViewInv, NEW m \in Messages, Send(m)
    PROVE  Consecutive' /\ ViewShowsApplied'
<1>1. /\ read \in Nat /\ applied \in Nat /\ Len(events) \in Nat /\ Len(sent) \in Nat
      /\ HeldCount \in Nat
  BY SentMore DEF QueueInv, QueueTyped, ViewInv, HeldCount
<1>2. /\ Len(sent') = Len(sent) \/ (Len(sent') = Len(sent) + 1 /\ Subscribed)
      /\ \A i \in 1..Len(sent) : sent'[i] = sent[i]
      /\ UNCHANGED <<read, reader, events, applied, state>>
  <2>1. ViewTyped
    BY DEF ViewInv
  <2>2. QED
    BY <2>1, SentMore
<1>3. applied <= Len(sent)
  BY <1>1 DEF ViewInv, Consecutive
<1>4. \A i \in 1..applied : sent'[i] = sent[i]
  BY <1>1, <1>2, <1>3
<1>5. Consecutive'
  BY <1>1, <1>2 DEF Consecutive, HeldCount, ViewInv, Subscribed
<1>6. ViewShowsApplied'
  BY <1>2, <1>4 DEF ViewShowsApplied, ViewInv, AnyState, LastState
<1>7. QED
  BY <1>5, <1>6

LEMMA BoardStep == QueueInv /\ ViewInv /\ BoardManager => ViewInv'
<1> SUFFICES ASSUME QueueInv, ViewInv, BoardManager
             PROVE  Consecutive' /\ SentShowsBoard' /\ ViewShowsApplied'
  BY TypesOfView DEF ViewInv, Next
<1>1. ASSUME NEW b \in Boards, Change(b)
      PROVE  Consecutive' /\ SentShowsBoard' /\ ViewShowsApplied'
  BY <1>1, ChangeIsSent, SendKeepsView, MessageTyped DEF Change
<1>2. CASE \E t \in Throws : DartDetected(t)
  <2>1. PICK t \in Throws : DartDetected(t)
    BY <1>2
  <2>2. [board EXCEPT !.throws = Append(@, t)] \in Boards
    <3>1. board \in Boards /\ board.throws \in Seq(Throws)
      BY DEF ViewInv, ViewTyped, Boards
    <3>2. Append(board.throws, t) \in Seq(Throws)
      BY <3>1
    <3>3. QED
      BY <3>1, <3>2 DEF Boards
  <2>3. QED
    BY <1>1, <2>1, <2>2 DEF DartDetected
<1>3. CASE TakeoutStarted
  <2>1. [board EXCEPT !.status = "takeout"] \in Boards
    BY DEF ViewInv, ViewTyped, Boards
  <2>2. QED
    BY <1>1, <1>3, <2>1 DEF TakeoutStarted
<1>4. CASE TakeoutFinished
  <2>1. [status |-> "throw", throws |-> <<>>] \in Boards
    BY DEF Boards
  <2>2. QED
    BY <1>1, <1>4, <2>1 DEF TakeoutFinished
<1>5. CASE OtherMessage
  BY <1>5, OtherIsSent, SendKeepsView, MessageTyped DEF OtherMessage
<1>6. CASE ConnectionLost
  BY <1>6 DEF ConnectionLost, client, ViewInv, Consecutive, HeldCount, SentShowsBoard,
              ViewShowsApplied, AnyState, LastState
<1>7. QED
  BY <1>2, <1>3, <1>4, <1>5, <1>6 DEF BoardManager

(* The goroutine moves positions, the command takes them. *)
LEMMA ReaderStep == QueueInv /\ ViewInv /\ Reader => ViewInv'
<1> SUFFICES ASSUME QueueInv, ViewInv, Reader PROVE Consecutive' /\ UNCHANGED <<sent, broken, board, applied, state>>
  BY TypesOfView DEF ViewInv, Next, SentShowsBoard, ViewShowsApplied, AnyState, LastState
<1>1. UNCHANGED <<sent, broken, board, applied, state>>
  BY DEF Reader, ReaderReads, ReaderSends, ReaderGivesUp, ReaderFails, ReaderCloses, client
<1>2. /\ read \in Nat /\ applied \in Nat /\ Len(events) \in Nat /\ Len(sent) \in Nat
  BY DEF QueueInv, QueueTyped, ViewInv, ViewTyped
<1>3. CASE ReaderReads
  BY <1>1, <1>2, <1>3 DEF ReaderReads, Consecutive, HeldCount, ViewInv
<1>4. CASE ReaderSends
  <2>1. /\ reader = "sending" /\ reader' = "reading" /\ events' = Append(events, read)
        /\ read' = read
    BY <1>4 DEF ReaderSends
  <2>2. /\ Len(events') = Len(events) + 1 /\ events'[Len(events) + 1] = read
        /\ \A i \in 1..Len(events) : events'[i] = events[i]
    BY <2>1 DEF QueueInv, QueueTyped
  <2>3. read = applied + (Len(events) + 1)
    BY <1>2, <2>1 DEF QueueInv, InStep, HeldCount
  <2>4. \A i \in 1..Len(events') : events'[i] = applied + i
    <3>1. \A i \in 1..Len(events) : events'[i] = applied + i
      BY <2>2 DEF ViewInv, Consecutive
    <3>2. \A i \in 1..Len(events') : i \in 1..Len(events) \/ i = Len(events) + 1
      BY <1>2, <2>2
    <3>3. QED
      BY <2>2, <2>3, <3>1, <3>2
  <2>5. applied + Len(events') <= read /\ read <= Len(sent)
    BY <1>2, <2>2, <2>3 DEF ViewInv, Consecutive
  <2>6. HeldCount' = 0
    BY <2>1 DEF HeldCount
  <2>7. QED
    <3>1. reader # "none" /\ reader' # "none"
      BY <2>1
    <3>2. applied' + Len(events') + HeldCount' <= read'
      BY <1>1, <1>2, <2>1, <2>2, <2>5, <2>6
    <3>3. \A i \in 1..Len(events') : events'[i] = applied' + i
      BY <1>1, <2>4
    <3>4. QED
      BY <1>1, <2>1, <2>5, <3>1, <3>2, <3>3 DEF Consecutive
<1>5. CASE ReaderGivesUp \/ ReaderFails \/ ReaderCloses
  BY <1>1, <1>2, <1>5 DEF ReaderGivesUp, ReaderFails, ReaderCloses, Consecutive, HeldCount, ViewInv
<1>6. QED
  BY <1>1, <1>3, <1>4, <1>5 DEF Reader

LEMMA TakenStep == QueueInv /\ ViewInv /\ WatchEvent => ViewInv'
<1> SUFFICES ASSUME QueueInv, ViewInv, WatchEvent
             PROVE  Consecutive' /\ SentShowsBoard' /\ ViewShowsApplied'
  BY TypesOfView DEF ViewInv, Next, Watch
<1>1. /\ events # <<>> /\ events' = Tail(events) /\ applied' = applied + 1
      /\ state' = ApplyBoardEvent(sent[Head(events)])
      /\ UNCHANGED <<board, sent, read, broken, reader>>
  BY DEF WatchEvent
<1>2. /\ read \in Nat /\ applied \in Nat /\ Len(events) \in Nat /\ Len(sent) \in Nat
  BY DEF QueueInv, QueueTyped, ViewInv, ViewTyped
<1>3. /\ Len(events) >= 1 /\ Head(events) = applied + 1 /\ Len(events') = Len(events) - 1
      /\ \A i \in 1..Len(events') : events'[i] = events[i + 1]
  BY <1>1 DEF QueueInv, QueueTyped, ViewInv, Consecutive
<1>4. Consecutive'
  <2>1. \A i \in 1..Len(events') : events'[i] = applied' + i
    BY <1>1, <1>2, <1>3 DEF ViewInv, Consecutive
  <2>2. QED
    BY <1>1, <1>2, <1>3, <2>1 DEF ViewInv, Consecutive, HeldCount
<1>5. SentShowsBoard'
  BY <1>1 DEF ViewInv, SentShowsBoard, AnyState, LastState
<1>6. state' = ApplyBoardEvent(sent[applied + 1])
  BY <1>1, <1>3
<1>7. CASE sent[applied + 1].type = "state"
  <2>1. state'.status = sent[applied + 1].status /\ state'.count = sent[applied + 1].count
    BY <1>6, <1>7 DEF ApplyBoardEvent
  <2>2. LastState(sent, applied + 1, applied + 1)
    BY <1>2, <1>7 DEF LastState
  <2>3. QED
    BY <1>1, <1>2, <1>4, <1>5, <2>1, <2>2 DEF ViewShowsApplied, LastState
<1>8. CASE sent[applied + 1].type # "state"
  <2>1. state' = state
    BY <1>6, <1>8 DEF ApplyBoardEvent
  <2>2. AnyState(sent, applied + 1) => AnyState(sent, applied)
    BY <1>2, <1>8 DEF AnyState
  <2>3. \A k \in 1..applied : LastState(sent, k, applied) => LastState(sent, k, applied + 1)
    BY <1>2, <1>8 DEF LastState
  <2>4. QED
    BY <1>1, <1>2, <1>4, <1>5, <2>1, <2>2, <2>3 DEF ViewShowsApplied, ViewInv, AnyState, LastState
<1>9. QED
  BY <1>7, <1>8

LEMMA ViewStep == QueueInv /\ ViewInv /\ [Next]_vars => ViewInv'
<1> SUFFICES ASSUME QueueInv, ViewInv, [Next]_vars PROVE ViewInv'
  OBVIOUS
<1>1. ASSUME UNCHANGED <<board, sent, read, broken, events, applied, state>>,
             reader' = reader \/ (reader = "none" /\ reader' = "reading")
      PROVE  ViewInv'
  <2>1. Consecutive'
    BY <1>1 DEF ViewInv, Consecutive, HeldCount
  <2>2. QED
    BY <1>1, <2>1 DEF ViewInv, ViewTyped, SentShowsBoard, ViewShowsApplied, AnyState, LastState
<1>2. CASE WatchSubscribes
  BY <1>1, <1>2 DEF WatchSubscribes, QueueInv, NotStarted
<1>3. CASE WatchRequests \/ WatchEventsClosed \/ WatchFailure \/ WatchFailuresClosed \/ WatchDone
  BY <1>1, <1>3 DEF WatchRequests, WatchEventsClosed, WatchFailure, WatchFailuresClosed, WatchDone,
                    Return, stream
<1>4. CASE Interrupt \/ UNCHANGED vars
  BY <1>1, <1>4 DEF Interrupt, vars, stream, client
<1>5. QED
  BY <1>2, <1>3, <1>4, BoardStep, ReaderStep, TakenStep DEF Next, Watch

(* Once every message has been taken, the client's view (ApplyBoardEvent,  *)
(* Snapshot) has the status of the board and the number of its throws,     *)
(* whatever changed between the request and the subscription, and however  *)
(* long the goroutine waited for the channel.                              *)
THEOREM ViewFollowsBoard == Spec => []StatusFollowsBoard
<1>1. Init => QueueInv /\ ViewInv
  <2> SUFFICES ASSUME Init PROVE ViewInv
    BY QueueInit
  <2>1. sent = <<>> /\ read = 0 /\ reader = "none" /\ events = <<>> /\ applied = 0
    BY DEF Init
  <2>2. Len(sent) = 0 /\ Len(events) = 0
    BY <2>1
  <2>3. board \in Boards
    <3>1. PICK visit \in Visits, status \in {"throw", "takeout"} :
             board = [status |-> status, throws |-> visit]
      BY DEF Init
    <3>2. PICK n \in 0..MaxThrows : visit \in [1..n -> Throws]
      BY <3>1 DEF Visits
    <3>3. n \in Nat
      BY <3>2, WatchAssumption DEF WatchAssumption
    <3>4. visit \in Seq(Throws)
      BY <3>2, <3>3, IsASeq
    <3>5. QED
      BY <3>1, <3>4 DEF Boards
  <2>4. ViewTyped
    BY <2>1, <2>3, EmptySeq DEF ViewTyped
  <2>5. Consecutive
    BY <2>1, <2>2 DEF Consecutive, HeldCount
  <2>6. SentShowsBoard /\ ViewShowsApplied
    <3>1. ~AnyState(sent, Len(sent)) /\ ~AnyState(sent, applied)
      BY <2>1, <2>2 DEF AnyState
    <3>2. QED
      BY <3>1 DEF SentShowsBoard, ViewShowsApplied
  <2>7. QED
    BY <2>4, <2>5, <2>6 DEF ViewInv
<1>2. ViewInv => StatusFollowsBoard
  <2> SUFFICES ASSUME ViewInv, CaughtUp
               PROVE  state.status = board.status /\ state.count = Len(board.throws)
    BY DEF StatusFollowsBoard
  <2>1. ~broken /\ applied = Len(sent) /\ AnyState(sent, applied)
    BY DEF CaughtUp, AnyState
  <2>2. PICK k \in 1..Len(sent) : LastState(sent, k, Len(sent)) /\ sent[k].status = board.status
                                 /\ sent[k].count = Len(board.throws)
    BY <2>1 DEF ViewInv, SentShowsBoard
  <2>3. PICK l \in 1..Len(sent) : LastState(sent, l, Len(sent)) /\ sent[l].status = state.status
                                 /\ sent[l].count = state.count
    BY <2>1 DEF ViewInv, ViewShowsApplied
  <2>4. k = l
    BY <2>2, <2>3 DEF LastState
  <2>5. QED
    BY <2>2, <2>3, <2>4
<1>3. QED
  BY <1>1, <1>2, QueueStep, ViewStep, PTL DEF Spec
=============================================================================
