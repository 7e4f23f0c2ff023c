------------------------------ MODULE MCServices ------------------------------
(***************************************************************************)
(* Two services of the appliance with goroutines per request: the Play     *)
(* messages of the onboarding service (PlayCapture) and a session of the   *)
(* noVNC proxy (NoVNCProxy).  They share no state, so a behaviour runs one *)
(* of them and leaves the other where it began.                            *)
(***************************************************************************)
EXTENDS PlayCapture

CONSTANTS Browser, Server, MaxChunks

VARIABLES
    part,
    main, request, conn, peer, unsent, inbound, window, copier, fail

V == INSTANCE NoVNCProxy

ASSUME ProxyAssumption == V!NoVNCProxyAssumption

proxyVars == <<main, request, conn, peer, unsent, inbound, window, copier, fail>>
allVars == <<part, vars, proxyVars>>

Play(A) == part = "play" /\ A /\ UNCHANGED <<part, proxyVars>>
Proxy(A) == part = "proxy" /\ A /\ UNCHANGED <<part, vars>>

ServicesInit == part \in {"play", "proxy"} /\ Init /\ V!Init

ServicesNext == Play(Next) \/ Proxy(V!Next)

(* The fairness of each machine, for the behaviours that run it. *)
ServicesSpec ==
    /\ ServicesInit /\ [][ServicesNext]_allVars
    /\ WF_allVars(Play(Handling)) /\ WF_allVars(Play(Operate))
    /\ WF_allVars(Proxy(V!Proxy))
    /\ \A side \in V!Side : WF_allVars(Proxy(V!Copy(side))) /\ WF_allVars(Proxy(V!Takes(side)))

SessionEnds == V!SessionEnds
=============================================================================
