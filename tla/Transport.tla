----------------------------- MODULE Transport -----------------------------
(***************************************************************************)
(* Both ends of the QUIC transport: sockets that dial, directly or through *)
(* a pool (module Dialing), and a socket that listens (module Listener).   *)
(* A handshake needs both; after that each end has its own idea of which   *)
(* links live, and a stream exists for the listener when bytes arrive.     *)
(***************************************************************************)
EXTENDS Integers, Sequences

CONSTANTS
    Dialers, Pooled, Addrs, Endpoint, MaxDials, NoAddr, NoLink, NoDialer, Backlog,
    Served        \* the addresses at which this listener answers

ASSUME TransportAssumption ==
    /\ Pooled \subseteq Dialers /\ NoDialer \notin Dialers
    /\ Endpoint \in [Dialers -> Addrs]
    /\ NoAddr \notin Addrs /\ Served \subseteq Addrs
    /\ MaxDials \in Nat /\ Backlog \in Nat
    /\ NoLink \notin 1 .. MaxDials

VARIABLES
    mu, entries, link, shared, udp, opened, pc, at, dials,
    queue, alive, used, accepting, handler, seen, acceptCh, acceptor, accepted, cancelled, closed, down

Client == INSTANCE Dialing
Server == INSTANCE Listener WITH Links <- 1 .. MaxDials

dialVars   == <<mu, entries, link, shared, udp, opened, pc, at, dials>>
listenVars == <<queue, alive, used, accepting, handler, seen, acceptCh,
                acceptor, accepted, cancelled, closed, down>>
vars == <<dialVars, listenVars>>

Links == 1 .. MaxDials

TypeOK == Client!TypeOK /\ Server!TypeOK

Init == Client!Init /\ Server!Init

-----------------------------------------------------------------------------
(* A handshake completes at both ends, or with a peer that is not modelled. *)
Handshake(d) ==
    /\ Client!HandshakeOk(d)
    /\ IF Endpoint[d] \in Served
       THEN Server!Arrive(at[d])
       ELSE UNCHANGED listenVars

(* The socket that got stream n writes on it. *)
Write(q, n) ==
    /\ link[q] = "up"
    /\ n <= opened[q]
    /\ Server!BytesArrive(q, n)
    /\ UNCHANGED dialVars

ClientStep(d) == (Client!Lock(d) \/ Client!DialEnds(d)) /\ UNCHANGED listenVars

HandlerStep(q) == Server!HandlerStep(q) /\ UNCHANGED dialVars

AcceptLoopStep ==
    /\ Server!AcceptLoopEnds \/ \E q \in Links : Server!AcceptLink(q)
    /\ UNCHANGED dialVars

AcceptorStep == Server!AcceptorStep /\ UNCHANGED dialVars

CloseStep == (Server!CloseSignal \/ Server!CloseSockets) /\ UNCHANGED dialVars

Next ==
    \/ \E d \in Dialers :
         \/ (Client!DirectDial(d) \/ Client!PoolDial(d)) /\ UNCHANGED listenVars
         \/ Handshake(d) \/ ClientStep(d)
    \/ \E q \in Links :
         \/ HandlerStep(q)
         \/ \E n \in Links : Write(q, n)
         \/ Client!LinkDies(q) /\ UNCHANGED listenVars
         \/ Server!LinkLost(q) /\ UNCHANGED dialVars
    \/ Client!PoolClose /\ UNCHANGED listenVars
    \/ AcceptLoopStep
    \/ AcceptorStep
    \/ CloseStep
    \/ Server!Cancel /\ UNCHANGED dialVars

Spec == Init /\ [][Next]_vars

(* Goroutines run, a handshake succeeds or times out, and a goroutine that *)
(* waits for the pool's mutex gets it in the end: Go's mutex is fair, and  *)
(* with finitely many calls weak fairness says the same.                   *)
Fairness ==
    /\ \A d \in Dialers :
         /\ WF_vars(Client!Lock(d) /\ UNCHANGED listenVars)
         /\ WF_vars(Handshake(d) \/ (Client!DialEnds(d) /\ UNCHANGED listenVars))
    /\ \A q \in Links : WF_vars(HandlerStep(q))
    /\ WF_vars(AcceptLoopStep)
    /\ WF_vars(AcceptorStep)
    /\ WF_vars(Server!CloseSockets /\ UNCHANGED dialVars)

FairSpec == Spec /\ Fairness

-----------------------------------------------------------------------------
(* pool.go 13-15, see Dialing. *)
OneLinkPerAddress == Client!OneLinkPerAddress

(* Every UDP socket has an owner, see Dialing. *)
NoSocketLeak == Client!NoSocketLeak

(* transport_quic.go 127-131, see Dialing. *)
RejectedIsReplaced == Client!RejectedIsReplaced


(* Streams with bytes of a living link that the listening socket has not   *)
(* got yet.                                                                *)
Waiting ==
    {s \in Links \X Links : s[1] \in alive /\ s[2] <= used[s[1]]} \ accepted

(* Every stream on which its socket has written reaches the listening      *)
(* socket, whichever sockets share its link, if bytes of a later stream    *)
(* arrive first and if other links fill acceptCh, unless the link fails    *)
(* or the listening socket is closed.                                      *)
StreamsReachTheSocket == Waiting # {} ~> (Waiting = {} \/ cancelled)

(* The listening socket gets the streams of a link in the order in which   *)
(* sockets opened them, each once and without a gap, see Listener, and no  *)
(* stream that no Dial has opened.                                         *)
NoStreamLost ==
    /\ Server!NoStreamLost
    /\ \A s \in accepted : s[2] <= opened[s[1]]

(* Close ends the listener's goroutines, see Listener. *)
CloseEndsListener == Server!CloseEndsListener

=============================================================================
