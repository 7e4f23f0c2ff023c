------------------------------ MODULE NoVNCProxy ------------------------------
(***************************************************************************)
(* One session of the noVNC proxy (cmd/autodarts-novnc/main.go): proxy     *)
(* starts one goroutine for each direction, waits for the first of them to *)
(* report or for the request to be cancelled, and closes both connections. *)
(* Each side is a window of the browser or the VNC server.                 *)
(***************************************************************************)
EXTENDS Integers

CONSTANTS
    Browser, Server, \* the two sides
    MaxChunks        \* bound: what each side sends

Side == {Browser, Server}

NoVNCProxyAssumption == Browser # Server /\ MaxChunks \in Nat

Other(side) == IF side = Browser THEN Server ELSE Browser

VARIABLES
    main,    \* dialing | upgrading | selecting | returning | closing | refused | ended
    request, \* FALSE when the context of the request has ended
    conn,    \* per side: the proxy's connection is none | open | closed
    peer,    \* per side: TRUE while the other end is there
    unsent,  \* per side: what it may still send
    inbound, \* per side: sent and not read by the proxy yet
    window,  \* per side: written by the proxy and not taken yet; room for one
    copier,  \* goroutine reading from the side: none | reading | writing | reporting | ended
    fail     \* reports in the channel, which has room for two

vars == <<main, request, conn, peer, unsent, inbound, window, copier, fail>>

peers == <<peer, unsent>>

-----------------------------------------------------------------------------
(***************************************************************************)
(* The browser and the VNC server.                                         *)
(***************************************************************************)

Sends(side) ==
    /\ peer[side] /\ conn[side] = "open" /\ unsent[side] > 0
    /\ unsent' = [unsent EXCEPT ![side] = @ - 1]
    /\ inbound' = [inbound EXCEPT ![side] = @ + 1]
    /\ UNCHANGED <<main, request, conn, peer, window, copier, fail>>

Takes(side) ==
    /\ peer[side] /\ window[side] > 0
    /\ window' = [window EXCEPT ![side] = @ - 1]
    /\ UNCHANGED <<main, request, conn, peers, inbound, copier, fail>>

(* Closed by the other end, or found dead by the keep-alive of TCP. *)
Leaves(side) ==
    /\ peer[side]
    /\ peer' = [peer EXCEPT ![side] = FALSE]
    /\ UNCHANGED <<main, request, conn, unsent, inbound, window, copier, fail>>

RequestCancelled ==
    /\ request
    /\ request' = FALSE
    /\ UNCHANGED <<main, conn, peers, inbound, window, copier, fail>>

-----------------------------------------------------------------------------
(***************************************************************************)
(* proxy.                                                                  *)
(***************************************************************************)

Dial ==
    /\ main = "dialing"
    /\ \/ /\ peer[Server] /\ request
          /\ main' = "upgrading"
          /\ conn' = [conn EXCEPT ![Server] = "open"]
       \/ /\ main' = "refused"
          /\ UNCHANGED conn
    /\ UNCHANGED <<request, peers, inbound, window, copier, fail>>

Upgrade ==
    /\ main = "upgrading"
    /\ \/ /\ main' = "selecting"
          /\ conn' = [conn EXCEPT ![Browser] = "open"]
          /\ copier' = [side \in Side |-> "reading"]
       \/ /\ main' = "closing"
          /\ UNCHANGED <<conn, copier>>
    /\ UNCHANGED <<request, peers, inbound, window, fail>>

Select ==
    /\ main = "selecting"
    /\ \/ /\ ~request
          /\ UNCHANGED fail
       \/ /\ fail > 0
          /\ fail' = fail - 1
    /\ main' = "returning"
    /\ UNCHANGED <<request, conn, peers, inbound, window, copier>>

(* The deferred calls run last to first. *)
CloseBrowser ==
    /\ main = "returning"
    /\ main' = "closing"
    /\ conn' = [conn EXCEPT ![Browser] = "closed"]
    /\ UNCHANGED <<request, peers, inbound, window, copier, fail>>

CloseServer ==
    /\ main = "closing"
    /\ main' = "ended"
    /\ conn' = [conn EXCEPT ![Server] = "closed"]
    /\ UNCHANGED <<request, peers, inbound, window, copier, fail>>

Proxy == Dial \/ Upgrade \/ Select \/ CloseBrowser \/ CloseServer

-----------------------------------------------------------------------------
(***************************************************************************)
(* The goroutine that copies what comes from a side.                       *)
(***************************************************************************)

(* What a peer sent before it left can still be read, or is lost. *)
Reads(side) ==
    /\ copier[side] = "reading"
    /\ conn[side] = "open" /\ inbound[side] > 0
    /\ inbound' = [inbound EXCEPT ![side] = @ - 1]
    /\ copier' = [copier EXCEPT ![side] = "writing"]
    /\ UNCHANGED <<main, request, conn, peers, window, fail>>

ReadFails(side) ==
    /\ copier[side] = "reading"
    /\ conn[side] = "closed" \/ ~peer[side]
    /\ copier' = [copier EXCEPT ![side] = "reporting"]
    /\ UNCHANGED <<main, request, conn, peers, inbound, window, fail>>

Writes(side) ==
    LET to == Other(side)
    IN  /\ copier[side] = "writing"
        /\ conn[to] = "open" /\ window[to] = 0
        /\ window' = [window EXCEPT ![to] = 1]
        /\ copier' = [copier EXCEPT ![side] = "reading"]
        /\ UNCHANGED <<main, request, conn, peers, inbound, fail>>

WriteFails(side) ==
    LET to == Other(side)
    IN  /\ copier[side] = "writing"
        /\ conn[to] = "closed" \/ ~peer[to]
        /\ copier' = [copier EXCEPT ![side] = "reporting"]
        /\ UNCHANGED <<main, request, conn, peers, inbound, window, fail>>

(* Mutant: a channel without room. *)
ReportsUnbuffered(side) ==
    /\ copier[side] = "reporting" /\ main = "selecting" /\ fail = 0
    /\ fail' = fail + 1
    /\ copier' = [copier EXCEPT ![side] = "ended"]
    /\ UNCHANGED <<main, request, conn, peers, inbound, window>>

Reports(side) ==
    /\ copier[side] = "reporting" /\ fail < 2
    /\ fail' = fail + 1
    /\ copier' = [copier EXCEPT ![side] = "ended"]
    /\ UNCHANGED <<main, request, conn, peers, inbound, window>>

Copy(side) ==
    Reads(side) \/ ReadFails(side) \/ Writes(side) \/ WriteFails(side) \/ Reports(side)

-----------------------------------------------------------------------------

Init ==
    /\ main = "dialing" /\ request = TRUE
    /\ conn = [side \in Side |-> "none"]
    /\ peer = [side \in Side |-> TRUE]
    /\ unsent = [side \in Side |-> MaxChunks]
    /\ inbound = [side \in Side |-> 0]
    /\ window = [side \in Side |-> 0]
    /\ copier = [side \in Side |-> "none"]
    /\ fail = 0

Next ==
    \/ Proxy \/ RequestCancelled
    \/ \E side \in Side : Copy(side) \/ Sends(side) \/ Takes(side) \/ Leaves(side)

Spec == Init /\ [][Next]_vars

(* Goroutines run, and a side that is there takes what it is sent: nothing *)
(* in the proxy limits how long a write may take.                          *)
Fairness ==
    /\ WF_vars(Proxy)
    /\ \A side \in Side : WF_vars(Copy(side)) /\ WF_vars(Takes(side))

FairSpec == Spec /\ Fairness

-----------------------------------------------------------------------------

(* When one side has left, or the request was cancelled, the session comes *)
(* to an end as a whole: proxy returns, no goroutine is left behind, and   *)
(* both connections are closed.                                            *)
SessionEnds ==
    (\E side \in Side : ~peer[side]) \/ ~request ~>
        /\ main \in {"refused", "ended"}
        /\ \A side \in Side : copier[side] \in {"none", "ended"} /\ conn[side] # "open"
=============================================================================
