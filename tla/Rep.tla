-------------------------------- MODULE Rep --------------------------------
(***************************************************************************)
(* The REP socket (rep.go): a reader goroutine per connection queues       *)
(* requests in msgCh, Recv takes one and remembers its connection in       *)
(* repState, Send looks the connection up there and hands the reply over   *)
(* to the goroutine run, which writes it.                                  *)
(*                                                                         *)
(* Workers are goroutines of the application that call Recv and Send; the  *)
(* reply a worker sends answers the request it received last.  The         *)
(* locks of repState and repWriter protect one step each.                  *)
(***************************************************************************)
EXTENDS Integers, Sequences, FiniteSets

CONSTANTS
    Workers,      \* goroutines that call Recv and Send
    Conns,        \* connections to requesters, each used once
    NoConn,       \* repState.conn = nil
    QueueSize,    \* capacity of msgCh (10 in the code)
    MaxRequests   \* bound: messages a requester sends on a connection

ASSUME RepAssumption ==
    /\ NoConn \notin Conns
    /\ QueueSize \in Nat
    /\ MaxRequests \in Nat

VARIABLES
    asked,       \* per connection: messages its peer has sent so far
    wire,        \* per connection: those under way, in order
    fresh,       \* connections that were not added yet
    listening,   \* connections whose goroutine listen runs
    hand,        \* per connection: the message listen is queueing, if any
    msgCh,       \* repReader.msgCh
    conns,       \* repWriter.conns
    route,       \* repState.conn
    running,     \* the goroutine run has not returned
    outbox,      \* the payload run has in hand, if any
    broken,      \* connections whose stream has failed or was closed
    closed,      \* connections with the flag Conn.closed set
    cancelled,   \* the socket's context is done
    pc, dest,    \* per worker: where it is, and where its reply goes
    job,         \* per worker: the request it received last
    delivered    \* per connection: requests answered on its stream, in order

vars == <<asked, wire, fresh, listening, hand, msgCh, conns, route, running,
          outbox, broken, closed, cancelled, pc, dest, job, delivered>>

peerVars   == <<asked, wire>>
readVars   == <<listening, hand, msgCh>>
poolVars   == <<fresh, conns>>
writeVars  == <<running, outbox, delivered>>
errorVars  == <<broken, closed, cancelled>>
workerVars == <<pc, dest, job>>

(* The n-th message on connection c is the request <<c, n>>.  Message 0 is *)
(* one without an empty frame, which splitReq rejects.                     *)
Request == Conns \X (1 .. MaxRequests)
Envelope == Conns \X (0 .. MaxRequests)
NoRequest == <<NoConn, 0>>

TypeOK ==
    /\ asked \in [Conns -> 0 .. MaxRequests]
    /\ wire \in [Conns -> Seq(0 .. MaxRequests)]
    /\ hand \in [Conns -> Seq(0 .. MaxRequests)]
    /\ \A c \in Conns : Len(hand[c]) <= 1
    /\ listening \subseteq Conns \ fresh
    /\ conns \subseteq Conns \ fresh
    /\ msgCh \in Seq(Envelope) /\ Len(msgCh) <= QueueSize
    /\ route \in Conns \union {NoConn}
    /\ running \in BOOLEAN
    /\ cancelled \in BOOLEAN
    /\ outbox \in Seq(Conns \X Request) /\ Len(outbox) <= 1
    /\ broken \union closed \subseteq Conns
    /\ pc \in [Workers -> {"idle", "set", "handover", "clear"}]
    /\ dest \in [Workers -> Conns \union {NoConn}]
    /\ job \in [Workers -> Request \union {NoRequest}]
    /\ delivered \in [Conns -> Seq(Request)]

Init ==
    /\ asked = [c \in Conns |-> 0]
    /\ wire = [c \in Conns |-> <<>>]
    /\ fresh = Conns
    /\ listening = {}
    /\ hand = [c \in Conns |-> <<>>]
    /\ msgCh = <<>>
    /\ conns = {}
    /\ route = NoConn
    /\ running = TRUE
    /\ outbox = <<>>
    /\ broken = {}
    /\ closed = {}
    /\ cancelled = FALSE
    /\ pc = [t \in Workers |-> "idle"]
    /\ dest = [t \in Workers |-> NoConn]
    /\ job = [t \in Workers |-> NoRequest]
    /\ delivered = [c \in Conns |-> <<>>]

-----------------------------------------------------------------------------
(* The readers. *)

(* The peer (a REQ socket, or a client that does not keep to the protocol) *)
(* writes its next message on the stream.                                  *)
Ask(c) ==
    /\ c \notin fresh \union broken
    /\ asked[c] < MaxRequests
    /\ asked' = [asked EXCEPT ![c] = @ + 1]
    /\ \E n \in {0, asked[c] + 1} : wire' = [wire EXCEPT ![c] = Append(@, n)]
    /\ UNCHANGED <<readVars, poolVars, route, writeVars, errorVars, workerVars>>

(* listen reads a message.  If the context is done it drops the message,   *)
(* closes the stream and returns.                                          *)
Read(c) ==
    /\ c \in listening
    /\ hand[c] = <<>>
    /\ wire[c] # <<>>
    /\ wire' = [wire EXCEPT ![c] = Tail(@)]
    /\ IF cancelled
       THEN /\ listening' = listening \ {c}
            /\ broken' = broken \union {c}
            /\ UNCHANGED hand
       ELSE /\ hand' = [hand EXCEPT ![c] = <<Head(wire[c])>>]
            /\ UNCHANGED <<listening, broken>>
    /\ UNCHANGED <<asked, msgCh, poolVars, route, writeVars, closed, cancelled,
                   workerVars>>

(* A read error marks the connection closed and ends listen. *)
ReadFails(c) ==
    /\ c \in listening \cap broken
    /\ hand[c] = <<>>
    /\ closed' = closed \union {c}
    /\ listening' = listening \ {c}
    /\ UNCHANGED <<peerVars, hand, msgCh, poolVars, route, writeVars, broken,
                   cancelled, workerVars>>

(* Fault variant: one message more than the capacity. *)
OneTooMany == Len(msgCh) <= QueueSize

HasRoom == Len(msgCh) < QueueSize

(* Fault variant: listen drops the message if the queue is full. *)
EnqueueOrDrop(c) ==
    /\ hand[c] # <<>>
    /\ msgCh' = IF HasRoom THEN Append(msgCh, <<c, Head(hand[c])>>) ELSE msgCh
    /\ hand' = [hand EXCEPT ![c] = <<>>]
    /\ UNCHANGED <<peerVars, listening, poolVars, route, writeVars, errorVars,
                   workerVars>>

(* listen waits until msgCh has room, whether the context is done or not. *)
Enqueue(c) ==
    /\ hand[c] # <<>>
    /\ HasRoom
    /\ msgCh' = Append(msgCh, <<c, Head(hand[c])>>)
    /\ hand' = [hand EXCEPT ![c] = <<>>]
    /\ UNCHANGED <<peerVars, listening, poolVars, route, writeVars, errorVars,
                   workerVars>>

-----------------------------------------------------------------------------
(* Recv. *)

(* repReader.read takes a message; if it has no delimiter Recv returns an  *)
(* error and the route stays as it was.                                    *)
TakeRequest(t) ==
    /\ pc[t] = "idle"
    /\ msgCh # <<>>
    /\ msgCh' = Tail(msgCh)
    /\ IF Head(msgCh)[2] = 0
       THEN UNCHANGED <<pc, job>>
       ELSE /\ pc' = [pc EXCEPT ![t] = "set"]
            /\ job' = [job EXCEPT ![t] = Head(msgCh)]
    /\ UNCHANGED <<peerVars, listening, hand, poolVars, route, writeVars,
                   errorVars, dest>>

(* Fault variant: a route that is still set is kept. *)
RouteIfUnset(t) == IF route = NoConn THEN job[t][1] ELSE route

RouteOf(t) == job[t][1]

(* repState.set; Recv returns. *)
SetRoute(t) ==
    /\ pc[t] = "set"
    /\ route' = RouteOf(t)
    /\ pc' = [pc EXCEPT ![t] = "idle"]
    /\ UNCHANGED <<peerVars, readVars, poolVars, writeVars, errorVars, dest, job>>

-----------------------------------------------------------------------------
(* Send. *)

(* repState.get.  Without a pending request Send fails and changes nothing. *)
(* A worker has nothing to send before it has received its first request.  *)
GetRoute(t) ==
    /\ pc[t] = "idle"
    /\ job[t] # NoRequest
    /\ route # NoConn
    /\ dest' = [dest EXCEPT ![t] = route]
    /\ pc' = [pc EXCEPT ![t] = "handover"]
    /\ UNCHANGED <<peerVars, readVars, poolVars, route, writeVars, errorVars, job>>

(* The select of write: run takes the payload from sendCh. *)
HandOver(t) ==
    /\ pc[t] = "handover"
    /\ running
    /\ outbox = <<>>
    /\ outbox' = <<<<dest[t], job[t]>>>>
    /\ pc' = [pc EXCEPT ![t] = "clear"]
    /\ UNCHANGED <<peerVars, readVars, poolVars, route, running, delivered,
                   errorVars, dest, job>>

(* The select of write: the timeout of Send, or the socket's context.  The *)
(* route stays, so the application may call Send again.                    *)
GiveUp(t) ==
    /\ pc[t] = "handover"
    /\ pc' = [pc EXCEPT ![t] = "idle"]
    /\ UNCHANGED <<peerVars, readVars, poolVars, route, writeVars, errorVars,
                   dest, job>>

(* Fault variant: the route is not cleared after the reply. *)
RouteStays == route

RouteCleared == NoConn

(* repState.clear; Send returns. *)
ClearRoute(t) ==
    /\ pc[t] = "clear"
    /\ route' = RouteCleared
    /\ pc' = [pc EXCEPT ![t] = "idle"]
    /\ UNCHANGED <<peerVars, readVars, poolVars, writeVars, errorVars, dest, job>>

-----------------------------------------------------------------------------
(* The goroutine run. *)

Target == outbox[1][1]

(* sendPayload on a registered connection; QUIC buffers the write, so it   *)
(* may also succeed on a stream that is already broken.                    *)
WriteReply ==
    /\ outbox # <<>>
    /\ Target \in conns \ closed
    /\ delivered' = [delivered EXCEPT ![Target] = Append(@, outbox[1][2])]
    /\ outbox' = <<>>
    /\ UNCHANGED <<peerVars, readVars, poolVars, route, running, errorVars,
                   workerVars>>

(* SendMsg fails; run ignores the error and the reply is lost. *)
WriteFails ==
    /\ outbox # <<>>
    /\ Target \in conns \cap (closed \union broken)
    /\ closed' = closed \union {Target}
    /\ outbox' = <<>>
    /\ UNCHANGED <<peerVars, readVars, poolVars, route, running, delivered,
                   broken, cancelled, workerVars>>

(* The connection was removed: the reply is dropped. *)
DropReply ==
    /\ outbox # <<>>
    /\ Target \notin conns
    /\ outbox' = <<>>
    /\ UNCHANGED <<peerVars, readVars, poolVars, route, running, delivered,
                   errorVars, workerVars>>

RunStops ==
    /\ running
    /\ cancelled
    /\ outbox = <<>>
    /\ running' = FALSE
    /\ UNCHANGED <<peerVars, readVars, poolVars, route, outbox, delivered,
                   errorVars, workerVars>>

-----------------------------------------------------------------------------
(* Connections come and go (module Socket), and the socket is closed. *)

AddConn(c) ==
    /\ c \in fresh
    /\ fresh' = fresh \ {c}
    /\ conns' = conns \union {c}
    /\ listening' = listening \union {c}
    /\ UNCHANGED <<peerVars, hand, msgCh, route, writeVars, errorVars, workerVars>>

(* The route, the queue and a reply under way may still name c. *)
RmConn(c) ==
    /\ c \in conns \cap closed
    /\ conns' = conns \ {c}
    /\ UNCHANGED <<peerVars, readVars, fresh, route, writeVars, errorVars,
                   workerVars>>

Break(c) ==
    /\ c \notin fresh \union broken
    /\ broken' = broken \union {c}
    /\ UNCHANGED <<peerVars, readVars, poolVars, route, writeVars, closed,
                   cancelled, workerVars>>

Close ==
    /\ ~cancelled
    /\ cancelled' = TRUE
    /\ broken' = broken \union conns
    /\ UNCHANGED <<peerVars, readVars, poolVars, route, writeVars, closed,
                   workerVars>>

-----------------------------------------------------------------------------
ListenStep(c) == Read(c) \/ ReadFails(c) \/ Enqueue(c)

SendStep(t) == HandOver(t) \/ GiveUp(t) \/ ClearRoute(t)

RunStep == WriteReply \/ WriteFails \/ DropReply \/ RunStops

Next ==
    \/ \E c \in Conns : Ask(c) \/ ListenStep(c) \/ AddConn(c) \/ RmConn(c) \/ Break(c)
    \/ \E t \in Workers : TakeRequest(t) \/ SetRoute(t) \/ GetRoute(t) \/ SendStep(t)
    \/ RunStep
    \/ Close

Spec == Init /\ [][Next]_vars

(* Goroutines run, and the application calls Recv again and again. *)
Fairness ==
    /\ \A c \in Conns : WF_vars(ListenStep(c))
    /\ \A t \in Workers :
         /\ WF_vars(SetRoute(t) \/ SendStep(t))
         /\ SF_vars(TakeRequest(t))
    /\ WF_vars(RunStep)

FairSpec == Spec /\ Fairness

-----------------------------------------------------------------------------
(* rep.go 13-14, "each subsequent Send delivers the reply back to the      *)
(* originating requester": what is written to a connection answers a       *)
(* request of that connection, whatever was received, dropped, rejected or *)
(* timed out since, and whichever connections were lost.                   *)
NoMisroutedReply ==
    \A c \in Conns : \A i \in 1 .. Len(delivered[c]) : delivered[c][i][1] = c

(* A requester gets one reply at most per request, and in the order of its *)
(* requests: a stray or repeated Send delivers nothing (rep.go 250-253).   *)
AnsweredOnceInOrder ==
    \A c \in Conns : \A i, j \in 1 .. Len(delivered[c]) :
        i < j => delivered[c][i][2] < delivered[c][j][2]

(* No request is lost inside the socket: one that listen has read reaches  *)
(* a worker, however full the queue and however its connection fares,      *)
(* unless the socket is closed.                                            *)
EveryRequestIsReceived ==
    \A c \in Conns, n \in 1 .. MaxRequests :
        hand[c] = <<n>> ~> (cancelled \/ \E t \in Workers : job[t] = <<c, n>>)

=============================================================================
