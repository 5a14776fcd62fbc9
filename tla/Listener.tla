------------------------------ MODULE Listener ------------------------------
(***************************************************************************)
(* The listening end (transport_quic.go, quicListener): acceptLoop starts  *)
(* a goroutine handleConn per QUIC connection, which passes its streams    *)
(* through the bounded channel acceptCh to Accept, called in a loop by     *)
(* socket.accept.  Close signals closeCh and closes the UDP socket, which  *)
(* ends the connections.                                                   *)
(*                                                                         *)
(* The n-th stream of link q is <<q, n>>.  A stream is seen by AcceptStream *)
(* when bytes of it, or of a later stream of its link, have arrived.       *)
(***************************************************************************)
EXTENDS Integers, Sequences

CONSTANTS
    Links,       \* QUIC connections
    Backlog      \* capacity of acceptCh (16 in the code)

VARIABLES
    queue,       \* links that wait for quic.Listener.Accept
    alive,       \* links this end has not seen fail
    used,        \* per link: the streams of which bytes have arrived
    accepting,   \* acceptLoop runs
    handler,     \* per link: where its handleConn is
    seen,        \* per link: streams handleConn has taken
    acceptCh,    \* quicListener.acceptCh
    acceptor,    \* socket.accept runs
    accepted,    \* streams socket.accept has got
    cancelled,   \* the socket's context is done
    closed,      \* quicListener.closeCh is closed
    down         \* the QUIC listener and the UDP socket are closed

listenVars == <<queue, alive, used, accepting, handler, seen, acceptCh,
                acceptor, accepted, cancelled, closed, down>>

linkVars   == <<queue, alive, used>>
socketVars == <<acceptor, accepted>>
endVars    == <<cancelled, closed, down>>

Stream == Links \X Nat

TypeOK ==
    /\ queue \union alive \subseteq Links
    /\ used \in [Links -> Nat]
    /\ handler \in [Links -> {"none", "check", "wait", "offer", "done"}]
    /\ seen \in [Links -> Nat]
    /\ acceptCh \in Seq(Stream) /\ Len(acceptCh) <= Backlog
    /\ accepted \subseteq Stream
    /\ accepting \in BOOLEAN /\ acceptor \in BOOLEAN
    /\ cancelled \in BOOLEAN /\ closed \in BOOLEAN /\ down \in BOOLEAN

Init ==
    /\ queue = {}
    /\ alive = {}
    /\ used = [q \in Links |-> 0]
    /\ accepting = TRUE
    /\ handler = [q \in Links |-> "none"]
    /\ seen = [q \in Links |-> 0]
    /\ acceptCh = <<>>
    /\ acceptor = TRUE
    /\ accepted = {}
    /\ cancelled = FALSE
    /\ closed = FALSE
    /\ down = FALSE

-----------------------------------------------------------------------------
(* A client's handshake with this end completes. *)
Arrive(q) ==
    /\ ~down
    /\ q \notin queue \union alive
    /\ queue' = queue \union {q}
    /\ alive' = alive \union {q}
    /\ UNCHANGED <<used, accepting, handler, seen, acceptCh, socketVars, endVars>>

(* Bytes of stream n arrive, and with it every earlier stream exists. *)
BytesArrive(q, n) ==
    /\ q \in alive
    /\ n > used[q]
    /\ used' = [used EXCEPT ![q] = n]
    /\ UNCHANGED <<queue, alive, accepting, handler, seen, acceptCh,
                   socketVars, endVars>>

LinkLost(q) ==
    /\ q \in alive
    /\ alive' = alive \ {q}
    /\ UNCHANGED <<queue, used, accepting, handler, seen, acceptCh,
                   socketVars, endVars>>

-----------------------------------------------------------------------------
(* acceptLoop *)

AcceptLink(q) ==
    /\ accepting
    /\ q \in queue
    /\ queue' = queue \ {q}
    /\ handler' = [handler EXCEPT ![q] = "check"]
    /\ UNCHANGED <<alive, used, accepting, seen, acceptCh, socketVars,
                   endVars>>

(* Accept fails, or closeCh is found closed. *)
AcceptLoopEnds ==
    /\ accepting
    /\ cancelled \/ closed
    /\ accepting' = FALSE
    /\ UNCHANGED <<linkVars, handler, seen, acceptCh, socketVars, endVars>>

-----------------------------------------------------------------------------
(* handleConn *)

HandlerChecks(q) ==
    /\ handler[q] = "check"
    /\ handler' = [handler EXCEPT ![q] = IF closed THEN "done" ELSE "wait"]
    /\ UNCHANGED <<linkVars, accepting, seen, acceptCh, socketVars, endVars>>

(* Fault variant: a stream is seen only with bytes of its own, after which *)
(* the handler waits for the stream after it.                              *)
SkipToNewest(q) == used[q]

NextStream(q) == seen[q] + 1

AcceptStream(q) ==
    /\ handler[q] = "wait"
    /\ q \in alive
    /\ seen[q] < used[q]
    /\ seen' = [seen EXCEPT ![q] = NextStream(q)]
    /\ handler' = [handler EXCEPT ![q] = "offer"]
    /\ UNCHANGED <<linkVars, accepting, acceptCh, socketVars, endVars>>

(* AcceptStream fails: the link is lost or the context done. *)
HandlerFails(q) ==
    /\ handler[q] = "wait"
    /\ q \notin alive \/ cancelled
    /\ handler' = [handler EXCEPT ![q] = "done"]
    /\ UNCHANGED <<linkVars, accepting, seen, acceptCh, socketVars, endVars>>

HasRoom == Len(acceptCh) < Backlog

Offer(q) ==
    /\ handler[q] = "offer"
    /\ HasRoom
    /\ acceptCh' = Append(acceptCh, <<q, seen[q]>>)
    /\ handler' = [handler EXCEPT ![q] = "check"]
    /\ UNCHANGED <<linkVars, accepting, seen, socketVars, endVars>>

(* Fault variant: the send to acceptCh does not look at closeCh. *)
NeverRefuse == FALSE

(* Fault variant: the select looks at the context instead of closeCh. *)
RefuseIfDone == cancelled

MayRefuse == closed

(* The stream is closed unread. *)
Refuse(q) ==
    /\ handler[q] = "offer"
    /\ MayRefuse
    /\ handler' = [handler EXCEPT ![q] = "done"]
    /\ UNCHANGED <<linkVars, accepting, seen, acceptCh, socketVars, endVars>>

-----------------------------------------------------------------------------
(* socket.accept *)

Accept ==
    /\ acceptor
    /\ acceptCh # <<>>
    /\ accepted' = accepted \union {Head(acceptCh)}
    /\ acceptCh' = Tail(acceptCh)
    /\ acceptor' = ~cancelled
    /\ UNCHANGED <<linkVars, accepting, handler, seen, endVars>>

(* Accept returns an error and the loop finds the context done. *)
AcceptorEnds ==
    /\ acceptor
    /\ cancelled /\ closed
    /\ acceptor' = FALSE
    /\ UNCHANGED <<linkVars, accepting, handler, seen, acceptCh, accepted,
                   endVars>>

-----------------------------------------------------------------------------
(* socket.Close, or the parent context is cancelled and nothing else. *)
Cancel ==
    /\ ~cancelled
    /\ cancelled' = TRUE
    /\ UNCHANGED <<linkVars, accepting, handler, seen, acceptCh, socketVars,
                   closed, down>>

(* quicListener.Close: first closeCh, *)
CloseSignal ==
    /\ cancelled /\ ~closed
    /\ closed' = TRUE
    /\ UNCHANGED <<linkVars, accepting, handler, seen, acceptCh, socketVars,
                   cancelled, down>>

(* then the QUIC listener and the UDP socket, with which its links end. *)
CloseSockets ==
    /\ closed /\ ~down
    /\ down' = TRUE
    /\ alive' = {}
    /\ UNCHANGED <<queue, used, accepting, handler, seen, acceptCh,
                   socketVars, cancelled, closed>>

-----------------------------------------------------------------------------
HandlerStep(q) ==
    \/ HandlerChecks(q) \/ AcceptStream(q) \/ HandlerFails(q)
    \/ Offer(q) \/ Refuse(q)

AcceptorStep == Accept \/ AcceptorEnds

Ended ==
    /\ ~accepting /\ ~acceptor
    /\ \A q \in Links : handler[q] \in {"none", "done"}

-----------------------------------------------------------------------------
InChannel(s) == \E i \in 1 .. Len(acceptCh) : acceptCh[i] = s

(* A stream that handleConn has taken is on its way to the socket, once,   *)
(* or with it, and before the later streams of its link; only Close may    *)
(* drop the one that handleConn has in hand.                               *)
NoStreamLost ==
    /\ \A i, j \in 1 .. Len(acceptCh) : acceptCh[i] = acceptCh[j] => i = j
    /\ \A q \in Links : \A n \in 1 .. seen[q] :
         \/ <<q, n>> \in accepted \/ InChannel(<<q, n>>)
         \/ n = seen[q] /\ handler[q] = "offer"
         \/ n = seen[q] /\ handler[q] = "done" /\ closed
    /\ \A s \in accepted :
         ~InChannel(s) /\ \A m \in 1 .. s[2] : <<s[1], m>> \in accepted

(* Close of the listener ends acceptLoop, every handleConn, wherever it    *)
(* waits, and socket.accept.                                               *)
CloseEndsListener == closed ~> Ended

=============================================================================
