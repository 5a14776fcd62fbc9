------------------------------- MODULE ReqRep -------------------------------
(***************************************************************************)
(* A REQ socket (module Req) and the REP socket at the other end of its    *)
(* connections (module Rep).  They share the streams: what Req writes is   *)
(* what Rep reads, and what the goroutine run of Rep writes is what Recv   *)
(* of Req reads.  Each end has its own view of which streams have failed.  *)
(*                                                                         *)
(* Req alone is specified with peers that answer each request of a stream  *)
(* once and in order.  This module extends that specification: requests    *)
(* stays what it is there, the requests without an answer, which neither   *)
(* end sees, and the requests that travel are in stream.  The peer is Rep, *)
(* and the two sockets together implement the specification of Req.        *)
(***************************************************************************)
EXTENDS Req

CONSTANTS Workers, QueueSize   \* of the REP socket, see Rep

VARIABLES
    stream,               \* per connection: requests under way, in order
    repFresh, listening, hand, msgCh, repConns, route, running, outbox,
    repBroken, repClosed, cancelled, repPc, dest, job, delivered  \* of Rep

repVars == <<repFresh, listening, hand, msgCh, repConns, route, running, outbox,
             repBroken, repClosed, cancelled, repPc, dest, job, delivered>>
systemVars == <<vars, stream, repVars>>

Client == INSTANCE Req WITH requests <- stream

(* The requests of c are numbered by Req; Rep counts none. *)
Server == INSTANCE Rep WITH
            wire <- stream, asked <- [c \in Conns |-> 0],
            conns <- repConns, fresh <- repFresh, broken <- repBroken,
            closed <- repClosed, pc <- repPc

SystemInit == Init /\ Client!Init /\ Server!Init

-----------------------------------------------------------------------------
(* Steps of the REQ end, its connections and its reaper. *)

Send(t) ==
    /\ Client!SendOk(t)
    /\ requests' = [requests EXCEPT ![Candidate(t)] = Append(@, count)]
    /\ UNCHANGED repVars

ClientStep ==
    /\ \/ \E t \in Threads :
            \/ Client!BeginRequest(t) \/ Client!EnterWrite(t) \/ Client!SendFails(t)
            \/ Client!SetLastConn(t) \/ Client!BeforeRecv(t) \/ Client!GetLastConn(t)
            \/ Client!ReadOk(t) \/ Client!ReadFails(t)
            \/ Client!FinishRequest(t) \/ Client!AbortRequest(t)
       \/ \E c \in Conns : Client!AddConn(c) \/ Client!RmConn(c) \/ Client!Break(c)
    /\ UNCHANGED <<repVars, requests>>

(* Steps of the REP end. *)
ServerStep ==
    /\ \/ \E c \in Conns :
            \/ Server!ListenStep(c) \/ Server!AddConn(c)
            \/ Server!RmConn(c) \/ Server!Break(c)
       \/ \E t \in Workers :
            \/ Server!TakeRequest(t) \/ Server!SetRoute(t)
            \/ Server!GetRoute(t) \/ Server!SendStep(t)
       \/ Server!WriteFails \/ Server!DropReply \/ Server!RunStops
       \/ Server!Close
    /\ UNCHANGED vars

(* The reply reaches the REQ end, or is lost with the stream.  It answers  *)
(* the oldest request of the stream if it is the reply to that one.        *)
Reply ==
    LET c == Server!Target
        n == outbox[1][2][2]
    IN
    /\ Server!WriteReply
    /\ \/ /\ c \notin broken
          /\ replies' = [replies EXCEPT ![c] = Append(@, n)]
          /\ requests' = [requests EXCEPT ![c] =
                            IF @ # <<>> /\ Head(@) = n THEN Tail(@) ELSE @]
       \/ /\ c \in broken \union repBroken
          /\ UNCHANGED <<replies, requests>>
    /\ UNCHANGED <<state, pool, broken, closed, pc, local, ids>>

SystemNext == ClientStep \/ ServerStep \/ Reply \/ \E t \in Threads : Send(t)

SystemSpec == SystemInit /\ [][SystemNext]_systemVars

-----------------------------------------------------------------------------
(* The REP socket is a peer as module Req wants it: it answers a request   *)
(* at most once, in the order of its stream, on the stream it came from,   *)
(* and with the reply to that request, whatever was lost, timed out,       *)
(* closed or queued in between (req.go 66, rep.go 13-14).                  *)
ImplementsReq == Spec

=============================================================================
