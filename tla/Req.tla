-------------------------------- MODULE Req --------------------------------
(***************************************************************************)
(* The REQ socket (req.go): its two-state machine reqState, the round      *)
(* robin writer reqWriter, and the reader that waits for the reply on the  *)
(* connection the request went to.                                         *)
(*                                                                         *)
(* Threads are goroutines that call Send and Recv.  reqState and reqWriter *)
(* have a mutex each, and a call is the sequence of its critical sections. *)
(* The reaper (module Socket) removes connections that an I/O error marked *)
(* closed; a REQ connection has no reader goroutine, so only Send and Recv *)
(* notice that it is broken.                                               *)
(***************************************************************************)
EXTENDS Integers, Sequences, FiniteSets

CONSTANTS
    Threads,      \* goroutines that use the socket
    Conns,        \* connections the socket may get
    NoConn,       \* lastConn = nil
    NoThread,     \* the writer's mutex is free
    MaxRequests   \* bound: calls of Send that got past beginRequest

ASSUME ReqAssumption ==
    /\ NoConn \notin Conns
    /\ NoThread \notin Threads
    /\ MaxRequests \in Nat

VARIABLES
    readyToReq, lastConn,   \* reqState
    conns, nextConn,        \* reqWriter: its connections, index from 0
    writer,                 \* who holds reqWriter.mu
    fresh,                  \* connections that were not added yet
    broken,                 \* connections whose stream has failed
    closed,                 \* connections with the flag Conn.closed set
    requests, replies,      \* per connection: messages under way, in order
    pc,                     \* per thread: where it stands in Send or Recv
    at,                     \* per thread: the connection it writes or reads
    tries,                  \* per thread: loop counter of reqWriter.write
    got,                    \* per thread: the reply it has just read
    count, sent             \* requests begun; last one written to a stream

vars == <<readyToReq, lastConn, conns, nextConn, writer, fresh, broken, closed,
          requests, replies, pc, at, tries, got, count, sent>>

state  == <<readyToReq, lastConn>>
pool   == <<conns, nextConn, writer, fresh>>
wire   == <<broken, closed, requests, replies>>
ids    == <<count, sent>>
local  == <<at, tries, got>>

RequestId == 1 .. MaxRequests

Registered == {conns[i] : i \in 1 .. Len(conns)}

TypeOK ==
    /\ readyToReq \in BOOLEAN
    /\ lastConn \in Conns \union {NoConn}
    /\ Registered \subseteq Conns
    /\ nextConn \in Nat
    /\ writer \in Threads \union {NoThread}
    /\ fresh \subseteq Conns
    /\ broken \subseteq Conns
    /\ closed \subseteq Conns
    /\ \A c \in Conns : \A q \in {requests[c], replies[c]} :
         \A i \in 1 .. Len(q) : q[i] \in RequestId
    /\ pc \in [Threads -> {"idle", "write", "try", "set", "get", "read",
                           "finish", "abort"}]
    /\ at \in [Threads -> Conns \union {NoConn}]
    /\ tries \in [Threads -> Nat]
    /\ got \in [Threads -> RequestId \union {0}]
    /\ sent <= count /\ count \in 0 .. MaxRequests

Init ==
    /\ readyToReq = TRUE
    /\ lastConn = NoConn
    /\ conns = <<>>
    /\ nextConn = 0
    /\ writer = NoThread
    /\ fresh = Conns
    /\ broken = {}
    /\ closed = {}
    /\ requests = [c \in Conns |-> <<>>]
    /\ replies = [c \in Conns |-> <<>>]
    /\ pc = [t \in Threads |-> "idle"]
    /\ at = [t \in Threads |-> NoConn]
    /\ tries = [t \in Threads |-> 0]
    /\ got = [t \in Threads |-> 0]
    /\ count = 0
    /\ sent = 0

-----------------------------------------------------------------------------
(* Send and SendMulti. *)

(* Fault variant: a second Send is not refused while one is pending. *)
AlwaysReady == TRUE

MayBegin == readyToReq

(* beginRequest; a Send that finds a pending request changes nothing. *)
BeginRequest(t) ==
    /\ pc[t] = "idle"
    /\ count < MaxRequests
    /\ MayBegin
    /\ readyToReq' = FALSE
    /\ count' = count + 1
    /\ pc' = [pc EXCEPT ![t] = "write"]
    /\ UNCHANGED <<lastConn, pool, wire, local, sent>>

(* reqWriter.write takes the lock; without connections it fails at once. *)
EnterWrite(t) ==
    /\ pc[t] = "write"
    /\ writer = NoThread
    /\ \/ /\ conns = <<>>
          /\ pc' = [pc EXCEPT ![t] = "abort"]
          /\ UNCHANGED <<writer, tries>>
       \/ /\ conns # <<>>
          /\ pc' = [pc EXCEPT ![t] = "try"]
          /\ writer' = t
          /\ tries' = [tries EXCEPT ![t] = 0]
    /\ UNCHANGED <<state, conns, nextConn, fresh, wire, at, got, ids>>

Current(t) == (tries[t] + nextConn) % Len(conns)
Candidate(t) == conns[Current(t) + 1]

(* SendMsg succeeds.  QUIC buffers the write, so it may also succeed on a  *)
(* stream that is already broken: the request is then lost.                *)
SendOk(t) ==
    LET c == Candidate(t) IN
    /\ pc[t] = "try"
    /\ c \notin closed
    /\ requests' = [requests EXCEPT ![c] = Append(@, count)]
    /\ sent' = count
    /\ nextConn' = (Current(t) + 1) % Len(conns)
    /\ at' = [at EXCEPT ![t] = c]
    /\ pc' = [pc EXCEPT ![t] = "set"]
    /\ UNCHANGED <<state, conns, writer, fresh, broken, closed, replies,
                   tries, got, count>>

(* SendMsg fails, and marks the connection closed if that was an I/O       *)
(* error; the loop goes on, or the write fails and the lock is released.   *)
SendFails(t) ==
    LET c == Candidate(t)
        last == tries[t] + 1 = Len(conns)
    IN
    /\ pc[t] = "try"
    /\ c \in closed \union broken
    /\ closed' = closed \union {c}
    /\ tries' = [tries EXCEPT ![t] = @ + 1]
    /\ pc' = IF last THEN [pc EXCEPT ![t] = "abort"] ELSE pc
    /\ writer' = IF last THEN NoThread ELSE writer
    /\ UNCHANGED <<state, conns, nextConn, fresh, broken, requests, replies,
                   at, got, ids>>

(* reqState.set; write returns and releases the lock, Send returns. *)
SetLastConn(t) ==
    /\ pc[t] = "set"
    /\ lastConn' = at[t]
    /\ writer' = NoThread
    /\ pc' = [pc EXCEPT ![t] = "idle"]
    /\ UNCHANGED <<readyToReq, conns, nextConn, fresh, wire, local, ids>>

-----------------------------------------------------------------------------
(* Recv. *)

(* beforeRecv; a Recv without a pending request changes nothing. *)
BeforeRecv(t) ==
    /\ pc[t] = "idle"
    /\ ~readyToReq
    /\ pc' = [pc EXCEPT ![t] = "get"]
    /\ UNCHANGED <<state, pool, wire, local, ids>>

(* reqState.get. *)
GetLastConn(t) ==
    /\ pc[t] = "get"
    /\ at' = [at EXCEPT ![t] = lastConn]
    /\ pc' = [pc EXCEPT ![t] = IF lastConn = NoConn THEN "abort" ELSE "read"]
    /\ UNCHANGED <<state, pool, wire, tries, got, ids>>

ReadOk(t) ==
    LET c == at[t] IN
    /\ pc[t] = "read"
    /\ replies[c] # <<>>
    /\ got' = [got EXCEPT ![t] = Head(replies[c])]
    /\ replies' = [replies EXCEPT ![c] = Tail(@)]
    /\ pc' = [pc EXCEPT ![t] = "finish"]
    /\ UNCHANGED <<state, pool, broken, closed, requests, at, tries, ids>>

(* Fault variant: a failed read leaves the connection in service. *)
KeepOpen(c) == closed

MarkClosed(c) == closed \union {c}

ReadFails(t) ==
    /\ pc[t] = "read"
    /\ at[t] \in broken
    /\ closed' = MarkClosed(at[t])
    /\ pc' = [pc EXCEPT ![t] = "abort"]
    /\ UNCHANGED <<state, pool, broken, requests, replies, local, ids>>

(* finishRequest: Recv returns the reply. *)
FinishRequest(t) ==
    /\ pc[t] = "finish"
    /\ readyToReq' = TRUE
    /\ lastConn' = NoConn
    /\ pc' = [pc EXCEPT ![t] = "idle"]
    /\ UNCHANGED <<pool, wire, local, ids>>

(* Fault variant: an error of Recv or Send leaves the request pending. *)
AbortLeavesPending(t) ==
    /\ pc[t] = "abort"
    /\ pc' = [pc EXCEPT ![t] = "idle"]
    /\ lastConn' = NoConn
    /\ UNCHANGED <<readyToReq, pool, wire, local, ids>>

(* abortRequest: Send or Recv returns an error. *)
AbortRequest(t) ==
    /\ pc[t] = "abort"
    /\ readyToReq' = TRUE
    /\ lastConn' = NoConn
    /\ pc' = [pc EXCEPT ![t] = "idle"]
    /\ UNCHANGED <<pool, wire, local, ids>>

-----------------------------------------------------------------------------
(* Connections come and go under the writer's lock. *)

AddConn(c) ==
    /\ c \in fresh
    /\ writer = NoThread
    /\ conns' = Append(conns, c)
    /\ fresh' = fresh \ {c}
    /\ UNCHANGED <<state, nextConn, writer, wire, pc, local, ids>>

(* Fault variant: rmConn always resets the state machine. *)
ResetAnyway(c) == TRUE

ResetApplies(c) == lastConn = c

(* rmConn, called by the reaper, with reqState.reset; the index stays. *)
RmConn(c) ==
    /\ c \in closed
    /\ writer = NoThread
    /\ \E k \in 1 .. Len(conns) :
         /\ conns[k] = c
         /\ conns' = SubSeq(conns, 1, k - 1) \o SubSeq(conns, k + 1, Len(conns))
    /\ readyToReq' = IF ResetApplies(c) THEN TRUE ELSE readyToReq
    /\ lastConn' = IF ResetApplies(c) THEN NoConn ELSE lastConn
    /\ UNCHANGED <<nextConn, writer, fresh, wire, pc, local, ids>>

(* The peer (a REP socket) answers the requests of a stream in order. *)
Answer(c) ==
    /\ c \notin broken
    /\ requests[c] # <<>>
    /\ replies' = [replies EXCEPT ![c] = Append(@, Head(requests[c]))]
    /\ requests' = [requests EXCEPT ![c] = Tail(@)]
    /\ UNCHANGED <<state, pool, broken, closed, pc, local, ids>>

(* The peer or the path to it fails. *)
Break(c) ==
    /\ c \notin fresh \union broken
    /\ broken' = broken \union {c}
    /\ UNCHANGED <<state, pool, closed, requests, replies, pc, local, ids>>

-----------------------------------------------------------------------------
Call(t) ==
    \/ EnterWrite(t) \/ SendOk(t) \/ SendFails(t) \/ SetLastConn(t)
    \/ GetLastConn(t) \/ ReadOk(t) \/ ReadFails(t)
    \/ FinishRequest(t) \/ AbortRequest(t)

Next ==
    \/ \E t \in Threads : BeginRequest(t) \/ BeforeRecv(t) \/ Call(t)
    \/ \E c \in Conns : AddConn(c) \/ RmConn(c) \/ Answer(c) \/ Break(c)

Spec == Init /\ [][Next]_vars

(* A call in progress runs, the reaper works, a live peer answers, and the *)
(* application calls Recv when a request is pending, as the protocol asks. *)
Fairness ==
    /\ \A t \in Threads : WF_vars(Call(t)) /\ WF_vars(BeforeRecv(t))
    /\ \A c \in Conns : WF_vars(RmConn(c)) /\ WF_vars(Answer(c))

FairSpec == Spec /\ Fairness

-----------------------------------------------------------------------------
(* req.go 66, "Recv receives a complete reply for the previously-sent      *)
(* request": never the late reply to a request that was given up.          *)
ReplyMatchesRequest == \A t \in Threads : pc[t] = "finish" => got[t] = sent

(* Between two calls, a socket that is ready to send has nothing under way *)
(* on a connection it may use again, so that no reply can be taken for the *)
(* reply to a later request (reqState, and the use of closed connections). *)
CleanWhenReady ==
    readyToReq /\ (\A t \in Threads : pc[t] = "idle") =>
        /\ lastConn = NoConn
        /\ \A c \in Registered \ closed : requests[c] = <<>> /\ replies[c] = <<>>

(* A pending request that is on its way is on the connection Recv reads,   *)
(* unless that connection is lost: Recv never waits for a reply that will  *)
(* come somewhere else (reqState.set, reset).                              *)
PendingIsTracked ==
    \A c \in Conns \ closed :
        /\ requests[c] # <<>> \/ replies[c] # <<>>
        /\ \A t \in Threads : pc[t] \notin {"set", "finish", "abort"}
        => lastConn = c /\ ~readyToReq

(* What the application sees of the socket (req.go 30-34, 66: strict       *)
(* alternation, the complete reply for the previously-sent request): a     *)
(* call at a time, each written once at most and answered by its own reply *)
(* or by an error; got is the last reply of the one caller.                *)
Caller == CHOOSE t \in Threads : TRUE

AbstractCall == INSTANCE RemoteCall WITH
                  MaxCalls <- MaxRequests, pending <- ~readyToReq,
                  calls <- count, request <- sent, reply <- got[Caller]

ImplementsRemoteCall == AbstractCall!Spec

(* The state machine never stays pending: a lost peer or a failed call     *)
(* brings it back to ready (req.go 78-80 and 274-277).                     *)
NeverStuck == ~readyToReq ~> readyToReq

=============================================================================
