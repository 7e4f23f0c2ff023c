------------------------------ MODULE BoardWatch ------------------------------
(***************************************************************************)
(* The Go client's live view of the board (autodarts/client.go, Events,    *)
(* ApplyBoardEvent, Snapshot) as cmd/autodarts-watch uses it: one request  *)
(* for the board state, then a subscription whose messages a goroutine     *)
(* moves into a bounded channel, then a loop that merges them into the     *)
(* state it prints.                                                        *)
(*                                                                         *)
(* The Board Manager is external: it sends the complete visit with every   *)
(* change and leaves the list of throws out when it is empty.              *)
(***************************************************************************)
EXTENDS Naturals, Sequences, FiniteSets

CONSTANTS
    Throws,      \* the throws the Board Manager detects
    EventBuffer, \* capacity of the channel of events, 32 in the code
    MaxThrows,   \* bound: throws of a visit
    MaxSent      \* bound: messages of the Board Manager

ASSUME WatchAssumption == {EventBuffer, MaxThrows, MaxSent} \subseteq Nat

VARIABLES
    board,     \* status and throws of the Board Manager
    sent,      \* messages sent on the connection, oldest first
    read,      \* how many of them the goroutine has read
    broken,    \* the connection is lost
    reader,    \* none | reading | sending | closing | closed: the goroutine
    events,    \* channel of events: positions in sent
    failures,  \* channel of failures
    cancelled, \* the context of the subscription is done
    watch,     \* request | subscribe | loop | returned | fatal: the command
    applied,   \* how many events the loop has taken
    state      \* Client.state.Board

stream == <<sent, read, broken, reader, events, failures>>
client == <<watch, applied, state, cancelled>>
vars   == <<board, stream, client>>

Visits == UNION {[1..n -> Throws] : n \in 0..MaxThrows}

Exited == watch = "fatal"

-----------------------------------------------------------------------------
(***************************************************************************)
(* The Board Manager.                                                      *)
(***************************************************************************)

(* A member that is empty is not in the message. *)
Absent(message) == message.throws = <<>>

Encode(b) == [type   |-> "state",
              status |-> b.status,
              count  |-> Len(b.throws),
              throws |-> b.throws]

Subscribed == reader # "none" /\ ~broken

Send(message) ==
    /\ Len(sent) < MaxSent
    /\ sent' = IF Subscribed THEN Append(sent, message) ELSE sent
    /\ UNCHANGED <<read, broken, reader, events, failures, client>>

Change(b) == board' = b /\ Send(Encode(b))

DartDetected(t) ==
    /\ board.status = "throw" /\ Len(board.throws) < MaxThrows
    /\ Change([board EXCEPT !.throws = Append(@, t)])

TakeoutStarted ==
    /\ board.status = "throw"
    /\ Change([board EXCEPT !.status = "takeout"])

TakeoutFinished ==
    /\ board.status = "takeout"
    /\ Change([status |-> "throw", throws |-> <<>>])

(* motion_state, stats and camera messages. *)
OtherMessage ==
    /\ Subscribed
    /\ Send([type |-> "other"])
    /\ UNCHANGED board

ConnectionLost ==
    /\ Subscribed
    /\ broken' = TRUE
    /\ UNCHANGED <<board, sent, read, reader, events, failures, client>>

BoardManager ==
    \/ \E t \in Throws : DartDetected(t)
    \/ TakeoutStarted \/ TakeoutFinished \/ OtherMessage \/ ConnectionLost

-----------------------------------------------------------------------------
(***************************************************************************)
(* The goroutine of Events.                                                *)
(***************************************************************************)

ReaderReads ==
    /\ ~Exited /\ reader = "reading"
    /\ read < Len(sent)
    /\ read' = read + 1
    /\ reader' = "sending"
    /\ UNCHANGED <<board, sent, broken, events, failures, client>>

(* Mutant: an event that finds the channel full is dropped. *)
ReaderSendsOrDrops ==
    /\ ~Exited /\ reader = "sending"
    /\ events' = IF Len(events) < EventBuffer THEN Append(events, read) ELSE events
    /\ reader' = "reading"
    /\ UNCHANGED <<board, sent, read, broken, failures, client>>

ReaderSends ==
    /\ ~Exited /\ reader = "sending"
    /\ Len(events) < EventBuffer
    /\ events' = Append(events, read)
    /\ reader' = "reading"
    /\ UNCHANGED <<board, sent, read, broken, failures, client>>

(* Mutant: the send does not wait for the context as well. *)
ReaderGivesUpNever == FALSE /\ UNCHANGED vars

(* The other case of the select around the send. *)
ReaderGivesUp ==
    /\ ~Exited /\ reader = "sending" /\ cancelled
    /\ reader' = "closing"
    /\ UNCHANGED <<board, sent, read, broken, events, failures, client>>

(* The read fails: the connection is lost, or was closed when the context  *)
(* ended, which is not reported.                                           *)
ReaderFails ==
    /\ ~Exited /\ reader = "reading"
    /\ cancelled \/ broken
    /\ failures' = IF cancelled THEN failures ELSE Append(failures, "error")
    /\ reader' = "closing"
    /\ UNCHANGED <<board, sent, read, broken, events, client>>

(* failures is closed (in the state "closing"), then events. *)
ReaderCloses ==
    /\ ~Exited /\ reader = "closing"
    /\ reader' = "closed"
    /\ UNCHANGED <<board, sent, read, broken, events, failures, client>>

Reader == ReaderReads \/ ReaderSends \/ ReaderGivesUp \/ ReaderFails \/ ReaderCloses

-----------------------------------------------------------------------------
(***************************************************************************)
(* The command.                                                            *)
(***************************************************************************)

Goto(place) == watch' = place

WatchRequests ==
    /\ watch = "request"
    /\ (Goto("subscribe") /\ ~cancelled) \/ Goto("fatal")
    /\ UNCHANGED <<board, stream, applied, state, cancelled>>

WatchSubscribes ==
    /\ watch = "subscribe"
    /\ \/ Goto("loop") /\ ~cancelled /\ reader' = "reading"
       \/ Goto("fatal") /\ UNCHANGED reader
    /\ UNCHANGED <<board, sent, read, broken, events, failures, applied, state, cancelled>>

(* Mutant: the state is not merged while a takeout is in progress.         *)
ApplyOutsideTakeout(message) ==
    IF message.type = "state" /\ message.status # "takeout"
    THEN [status |-> message.status, count |-> message.count,
          throws |-> IF Absent(message) THEN state.throws ELSE message.throws]
    ELSE state

(* json.Unmarshal into the state held: a member that the message does not  *)
(* carry keeps its value.                                                  *)
ApplyBoardEvent(message) ==
    IF message.type = "state"
    THEN [status |-> message.status, count |-> message.count,
          throws |-> IF Absent(message) THEN state.throws ELSE message.throws]
    ELSE state

WatchEvent ==
    /\ watch = "loop" /\ events # <<>>
    /\ state' = ApplyBoardEvent(sent[Head(events)])
    /\ events' = Tail(events)
    /\ applied' = applied + 1
    /\ UNCHANGED <<board, sent, read, broken, reader, failures, watch, cancelled>>

(* Returning runs the deferred stop, which ends the context.  It also ends *)
(* the process, which the goroutine does not rely on.                      *)
Return == Goto("returned") /\ cancelled' = TRUE

WatchEventsClosed ==
    /\ watch = "loop" /\ events = <<>> /\ reader = "closed"
    /\ Return
    /\ UNCHANGED <<board, stream, applied, state>>

WatchFailure ==
    /\ watch = "loop" /\ failures # <<>>
    /\ Goto("fatal") /\ failures' = <<>>
    /\ UNCHANGED <<board, sent, read, broken, reader, events, applied, state, cancelled>>

WatchFailuresClosed ==
    /\ watch = "loop" /\ failures = <<>> /\ reader \in {"closing", "closed"}
    /\ Return
    /\ UNCHANGED <<board, stream, applied, state>>

WatchDone ==
    /\ watch = "loop" /\ cancelled
    /\ Return
    /\ UNCHANGED <<board, stream, applied, state>>

Watch ==
    \/ WatchRequests \/ WatchSubscribes \/ WatchEvent
    \/ WatchEventsClosed \/ WatchFailure \/ WatchFailuresClosed \/ WatchDone

Interrupt ==
    /\ watch \in {"request", "subscribe", "loop"} /\ ~cancelled
    /\ cancelled' = TRUE
    /\ UNCHANGED <<board, stream, watch, applied, state>>

-----------------------------------------------------------------------------

Init ==
    /\ \E visit \in Visits, status \in {"throw", "takeout"} :
          board = [status |-> status, throws |-> visit]
    /\ sent = <<>> /\ read = 0 /\ broken = FALSE
    /\ reader = "none" /\ events = <<>> /\ failures = <<>>
    /\ cancelled = FALSE /\ watch = "request" /\ applied = 0
    /\ state = [status |-> "", count |-> 0, throws |-> <<>>]

Next == BoardManager \/ Reader \/ Watch \/ Interrupt

Spec == Init /\ [][Next]_vars

(* The goroutines run; the Board Manager and the user owe nothing. *)
Fairness == WF_vars(Reader) /\ WF_vars(Watch)

FairSpec == Spec /\ Fairness

-----------------------------------------------------------------------------

(* Nothing is lost, duplicated or reordered between the connection and the *)
(* loop, however full the channel is: what the loop will take next is what *)
(* was sent next.                                                          *)
Held == IF reader = "sending" THEN <<read>> ELSE <<>>

EventsInOrder ==
    reader \in {"reading", "sending"} =>
        events \o Held = [i \in 1..(read - applied) |-> applied + i]

(* Once the loop has taken every message, and at least one state, it knows *)
(* the status of the board and the number of its throws, although changes  *)
(* between the request and the subscription were not sent to it.           *)
CaughtUp ==
    /\ watch = "loop" /\ ~broken /\ applied = Len(sent)
    /\ \E i \in 1..applied : sent[i].type = "state"

StatusFollowsBoard ==
    CaughtUp => state.status = board.status /\ state.count = Len(board.throws)

(* protocol/EVIDENCE.md: "Treat `throws` as optional. Its absence is       *)
(* different from a populated visit."  The throws of the view are those on *)
(* the board once every message has been taken.                            *)
ThrowsFollowBoard == CaughtUp => state.throws = board.throws

(* When the connection is lost or the command is interrupted the command   *)
(* ends, and it leaves no goroutine behind, even one that holds an event   *)
(* for a full channel nobody reads any more.                               *)
WatchEnds ==
    cancelled \/ broken ~>
        /\ watch \in {"returned", "fatal"}
        /\ reader \in {"none", "closed"} \/ Exited
=============================================================================
