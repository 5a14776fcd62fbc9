----------------------------- MODULE RepProofs -----------------------------
(***************************************************************************)
(* Proofs, for any number of connections, any queue and any number of      *)
(* requests, about the REP socket used by one goroutine, as its            *)
(* documentation shows it.                                                 *)
(***************************************************************************)
EXTENDS Rep, TLAPS

(* With one worker the route is the connection of the request it received  *)
(* last, from the end of Recv until Send has read it.                      *)
RouteFollowsJob ==
    \A t \in Workers :
        /\ pc[t] \in {"idle", "handover"} /\ route # NoConn =>
               job[t] # NoRequest /\ job[t][1] = route
        /\ pc[t] = "set" => job[t] # NoRequest
        /\ pc[t] = "handover" => route # NoConn /\ dest[t] = route

(* What run has in hand is addressed to the connection it answers. *)
OutboxAddressed ==
    \A i \in 1 .. Len(outbox) : outbox[i][1] = outbox[i][2][1]

IInv ==
    /\ TypeOK
    /\ RouteFollowsJob
    /\ OutboxAddressed
    /\ NoMisroutedReply

-----------------------------------------------------------------------------
LEMMA EmptyQueue == ASSUME NEW S PROVE <<>> \in Seq(S) /\ Len(<<>>) = 0
    OBVIOUS

(* A queue and its operations: append, and remove the first element. *)
LEMMA QueueTypes ==
    ASSUME NEW S, NEW q \in Seq(S)
    PROVE  /\ Len(q) \in Nat
           /\ \A x \in S : /\ Append(q, x) \in Seq(S)
                           /\ Len(Append(q, x)) = Len(q) + 1
                           /\ <<x>> \in Seq(S)
                           /\ Len(<<x>>) = 1
                           /\ <<x>>[1] = x
           /\ q # <<>> => /\ Head(q) \in S
                          /\ Tail(q) \in Seq(S)
                          /\ Len(Tail(q)) = Len(q) - 1
    OBVIOUS

(* Requests are messages that have a number other than 0. *)
LEMMA RequestTypes ==
    /\ \A c \in Conns, n \in 0 .. MaxRequests : <<c, n>> \in Envelope
    /\ \A e \in Envelope : e[1] \in Conns /\ e[2] \in 0 .. MaxRequests
    /\ \A e \in Envelope : e[2] # 0 => e \in Request
    /\ \A r \in Request : r[1] \in Conns /\ r # NoRequest
BY RepAssumption DEF Request, Envelope, NoRequest

(* The initial states satisfy the invariant: nothing is queued or routed. *)
THEOREM RepInit == Init => IInv
<1> SUFFICES ASSUME Init PROVE IInv
    OBVIOUS
<1> USE RepAssumption, EmptyQueue DEF Init
<1>1. TypeOK
  <2>1. /\ <<>> \in Seq(0 .. MaxRequests) /\ <<>> \in Seq(Envelope)
        /\ <<>> \in Seq(Conns \X Request) /\ <<>> \in Seq(Request)
        /\ Len(<<>>) = 0
    BY EmptyQueue
  <2>2. 0 \in 0 .. MaxRequests
    OBVIOUS
  <2>3. /\ asked \in [Conns -> 0 .. MaxRequests]
        /\ wire \in [Conns -> Seq(0 .. MaxRequests)]
        /\ hand \in [Conns -> Seq(0 .. MaxRequests)]
        /\ \A c \in Conns : Len(hand[c]) <= 1
        /\ delivered \in [Conns -> Seq(Request)]
    BY <2>1, <2>2
  <2>4. /\ msgCh \in Seq(Envelope) /\ Len(msgCh) <= QueueSize
        /\ outbox \in Seq(Conns \X Request) /\ Len(outbox) <= 1
    BY <2>1
  <2>5. /\ pc \in [Workers -> {"idle", "set", "handover", "clear"}]
        /\ dest \in [Workers -> Conns \union {NoConn}]
        /\ job \in [Workers -> Request \union {NoRequest}]
    OBVIOUS
  <2> QED BY <2>3, <2>4, <2>5 DEF TypeOK
<1>2. RouteFollowsJob /\ OutboxAddressed /\ NoMisroutedReply
    BY DEF RouteFollowsJob, OutboxAddressed, NoMisroutedReply
<1> QED BY <1>1, <1>2 DEF IInv

-----------------------------------------------------------------------------
(* Type correctness is preserved.  Taking a request needs the worker to    *)
(* find a number other than 0, handing it over a request to answer.        *)
LEMMA RepTypeStep == TypeOK /\ RouteFollowsJob /\ [Next]_vars => TypeOK'
<1> SUFFICES ASSUME TypeOK, RouteFollowsJob, [Next]_vars PROVE TypeOK'
    OBVIOUS
<1> USE RepAssumption, QueueTypes, RequestTypes, EmptyQueue
    DEF TypeOK, peerVars, readVars, poolVars, writeVars, errorVars, workerVars
<1>1. ASSUME NEW c \in Conns, Ask(c) PROVE TypeOK'
  <2>1. PICK n \in {0, asked[c] + 1} : wire' = [wire EXCEPT ![c] = Append(@, n)]
    BY <1>1 DEF Ask
  <2>2. n \in 0 .. MaxRequests /\ asked[c] + 1 \in 0 .. MaxRequests
    BY <1>1, SMTT(30) DEF Ask
  <2>3. Append(wire[c], n) \in Seq(0 .. MaxRequests)
    BY <2>2
  <2> QED BY <1>1, <2>1, <2>2, <2>3 DEF Ask
<1>2. ASSUME NEW c \in Conns, Read(c) PROVE TypeOK'
  <2>1. /\ Head(wire[c]) \in 0 .. MaxRequests
        /\ Tail(wire[c]) \in Seq(0 .. MaxRequests)
        /\ <<Head(wire[c])>> \in Seq(0 .. MaxRequests)
        /\ Len(<<Head(wire[c])>>) = 1
    BY <1>2 DEF Read
  <2>2. wire' \in [Conns -> Seq(0 .. MaxRequests)]
    BY <1>2, <2>1 DEF Read
  <2>3. CASE cancelled
    <3>1. /\ listening' \subseteq Conns \ fresh
          /\ broken' \union closed \subseteq Conns
      BY <1>2, <2>3, SMTT(30) DEF Read
    <3> QED BY <1>2, <2>2, <2>3, <3>1, ZenonT(60) DEF Read
  <2>4. CASE ~cancelled
    <3>1. /\ hand' \in [Conns -> Seq(0 .. MaxRequests)]
          /\ \A d \in Conns : Len(hand'[d]) <= 1
      <4> DEFINE h == <<Head(wire[c])>>
      <4>1. hand' = [hand EXCEPT ![c] = h]
        BY <1>2, <2>4 DEF Read
      <4>2. h \in Seq(0 .. MaxRequests) /\ Len(h) <= 1
        BY <2>1
      <4> HIDE DEF h
      <4> QED BY <4>1, <4>2
    <3> QED BY <1>2, <2>2, <2>4, <3>1 DEF Read
  <2> QED BY <2>3, <2>4
<1>3. ASSUME NEW c \in Conns, ReadFails(c) PROVE TypeOK'
    BY <1>3 DEF ReadFails
<1>4. ASSUME NEW c \in Conns, Enqueue(c) PROVE TypeOK'
  <2>1. Head(hand[c]) \in 0 .. MaxRequests
    BY <1>4 DEF Enqueue
  <2>2. <<c, Head(hand[c])>> \in Envelope
    BY <2>1
  <2>3. /\ Append(msgCh, <<c, Head(hand[c])>>) \in Seq(Envelope)
        /\ Len(Append(msgCh, <<c, Head(hand[c])>>)) = Len(msgCh) + 1
    BY <2>2
  <2>4. <<>> \in Seq(0 .. MaxRequests)
    BY EmptyQueue
  <2> QED BY <1>4, <2>3, <2>4, SMTT(30) DEF Enqueue, HasRoom
<1>5. ASSUME NEW c \in Conns, AddConn(c) PROVE TypeOK'
    BY <1>5 DEF AddConn
<1>6. ASSUME NEW c \in Conns, RmConn(c) PROVE TypeOK'
    BY <1>6 DEF RmConn
<1>7. ASSUME NEW c \in Conns, Break(c) PROVE TypeOK'
    BY <1>7, SMTT(30) DEF Break
<1>8. ASSUME NEW t \in Workers, TakeRequest(t) PROVE TypeOK'
  <2>1. /\ Head(msgCh) \in Envelope
        /\ Tail(msgCh) \in Seq(Envelope)
        /\ Len(Tail(msgCh)) <= QueueSize
    BY <1>8 DEF TakeRequest
  <2>2. CASE Head(msgCh)[2] = 0
    BY <1>8, <2>1, <2>2, SMTT(30) DEF TakeRequest
  <2>3. CASE Head(msgCh)[2] # 0
    <3>1. Head(msgCh) \in Request
      BY <2>1, <2>3
    <3>2. job' \in [Workers -> Request \union {NoRequest}]
      BY <1>8, <2>3, <3>1 DEF TakeRequest
    <3>3. pc' \in [Workers -> {"idle", "set", "handover", "clear"}]
      BY <1>8, <2>3, ZenonT(60) DEF TakeRequest
    <3>4. msgCh' \in Seq(Envelope) /\ Len(msgCh') <= QueueSize
      BY <1>8, <2>1 DEF TakeRequest
    <3> QED BY <1>8, <3>2, <3>3, <3>4 DEF TakeRequest
  <2> QED BY <2>2, <2>3
<1>9. ASSUME NEW t \in Workers, SetRoute(t) PROVE TypeOK'
  <2>1. job[t][1] \in Conns
    BY <1>9 DEF SetRoute, RouteFollowsJob
  <2> QED BY <1>9, <2>1 DEF SetRoute, RouteOf
<1>10. ASSUME NEW t \in Workers, GetRoute(t) PROVE TypeOK'
    BY <1>10 DEF GetRoute
<1>11. ASSUME NEW t \in Workers, HandOver(t) PROVE TypeOK'
  <2>1. job[t] \in Request /\ dest[t] \in Conns
    BY <1>11 DEF HandOver, RouteFollowsJob
  <2>2. /\ <<<<dest[t], job[t]>>>> \in Seq(Conns \X Request)
        /\ Len(<<<<dest[t], job[t]>>>>) = 1
    BY <2>1
  <2>3. outbox' \in Seq(Conns \X Request) /\ Len(outbox') <= 1
    BY <1>11, <2>2 DEF HandOver
  <2>4. pc' \in [Workers -> {"idle", "set", "handover", "clear"}]
    BY <1>11 DEF HandOver
  <2> QED BY <1>11, <2>3, <2>4 DEF HandOver
<1>12. ASSUME NEW t \in Workers, GiveUp(t) PROVE TypeOK'
    BY <1>12 DEF GiveUp
<1>13. ASSUME NEW t \in Workers, ClearRoute(t) PROVE TypeOK'
    BY <1>13 DEF ClearRoute, RouteCleared
<1>14. CASE WriteReply
  <2>1. outbox[1][1] \in Conns /\ outbox[1][2] \in Request
    BY <1>14 DEF WriteReply
  <2>2. Append(delivered[Target], outbox[1][2]) \in Seq(Request)
    BY <2>1 DEF Target
  <2>3. <<>> \in Seq(Conns \X Request) /\ Len(<<>>) <= 1
    BY EmptyQueue
  <2>4. outbox' \in Seq(Conns \X Request) /\ Len(outbox') <= 1
    BY <1>14, <2>3 DEF WriteReply
  <2>5. delivered' \in [Conns -> Seq(Request)]
    BY <1>14, <2>2 DEF WriteReply
  <2> QED BY <1>14, <2>4, <2>5 DEF WriteReply
<1>15. CASE WriteFails
  <2>1. <<>> \in Seq(Conns \X Request) /\ Len(<<>>) <= 1
    BY EmptyQueue
  <2>2. outbox' \in Seq(Conns \X Request) /\ Len(outbox') <= 1
    BY <1>15, <2>1 DEF WriteFails
  <2>3. broken' \union closed' \subseteq Conns
    BY <1>15 DEF WriteFails
  <2> QED BY <1>15, <2>2, <2>3 DEF WriteFails
<1>16. CASE DropReply
    BY <1>16, SMTT(30) DEF DropReply
<1>17. CASE RunStops
    BY <1>17 DEF RunStops
<1>18. CASE Close
    BY <1>18 DEF Close
<1>19. CASE UNCHANGED vars
    BY <1>19 DEF vars
<1> QED
    BY <1>1, <1>2, <1>3, <1>4, <1>5, <1>6, <1>7, <1>8, <1>9, <1>10, <1>11, <1>12,
       <1>13, <1>14, <1>15, <1>16, <1>17, <1>18, <1>19
    DEF Next, ListenStep, SendStep, RunStep

-----------------------------------------------------------------------------
(* With one worker only SetRoute, ClearRoute and the worker's own progress *)
(* change its route, its request and where its reply goes.                 *)
LEMMA RouteStep ==
    ASSUME NEW w, Workers = {w}
    PROVE  IInv /\ [Next]_vars => RouteFollowsJob'
<1> SUFFICES ASSUME IInv, [Next]_vars PROVE RouteFollowsJob'
    OBVIOUS
<1> USE RepAssumption, RequestTypes DEF IInv, TypeOK, RouteFollowsJob, workerVars
<1>1. CASE TakeRequest(w)
  <2>1. CASE Head(msgCh)[2] = 0
    BY <1>1, <2>1 DEF TakeRequest
  <2>2. CASE Head(msgCh)[2] # 0
    <3>1. Head(msgCh) \in Request
      BY <1>1, <2>2, QueueTypes DEF TakeRequest
    <3> QED BY <1>1, <2>2, <3>1 DEF TakeRequest
  <2> QED BY <2>1, <2>2
<1>2. CASE SetRoute(w)
    BY <1>2 DEF SetRoute, RouteOf
<1>3. CASE GetRoute(w)
    BY <1>3 DEF GetRoute
<1>4. CASE HandOver(w) \/ GiveUp(w)
    BY <1>4 DEF HandOver, GiveUp
<1>5. CASE ClearRoute(w)
    BY <1>5 DEF ClearRoute, RouteCleared
<1>6. CASE UNCHANGED <<workerVars, route>>
    BY <1>6
<1>7. \/ TakeRequest(w) \/ SetRoute(w) \/ GetRoute(w)
      \/ HandOver(w) \/ GiveUp(w) \/ ClearRoute(w)
      \/ UNCHANGED <<workerVars, route>>
    BY DEF Next, ListenStep, SendStep, RunStep, vars, Ask, Read, ReadFails,
           Enqueue, WriteReply, WriteFails, DropReply, RunStops, AddConn,
           RmConn, Break, Close
<1> QED BY <1>1, <1>2, <1>3, <1>4, <1>5, <1>6, <1>7

(* What an append leaves in place and what it adds. *)
LEMMA AppendedElement ==
    ASSUME NEW S, NEW q \in Seq(S), NEW r \in S
    PROVE  \A i \in 1 .. Len(Append(q, r)) :
               Append(q, r)[i] = IF i <= Len(q) THEN q[i] ELSE r
OBVIOUS

(* The worker hands over its request with its own connection, and run      *)
(* writes what it has in hand to that connection.                          *)
LEMMA ReplyStep == IInv /\ [Next]_vars => OutboxAddressed' /\ NoMisroutedReply'
<1> DEFINE P == OutboxAddressed /\ NoMisroutedReply
<1> SUFFICES ASSUME IInv, [Next]_vars PROVE P'
    OBVIOUS
<1> USE EmptyQueue DEF IInv, TypeOK, OutboxAddressed, NoMisroutedReply
<1>1. ASSUME NEW t \in Workers, HandOver(t) PROVE P'
  <2>1. job[t][1] = dest[t] /\ delivered' = delivered
    BY <1>1 DEF HandOver, RouteFollowsJob
  <2>2. \A i \in 1 .. Len(outbox') : outbox'[i] = <<dest[t], job[t]>>
    BY <1>1 DEF HandOver
  <2> QED BY <2>1, <2>2
<1>2. CASE WriteReply
  <2> DEFINE q == delivered[Target]
             r == outbox[1][2]
  <2>1. r[1] = Target /\ r \in Request /\ Target \in Conns /\ q \in Seq(Request)
    BY <1>2 DEF WriteReply, Target
  <2>2. \A i \in 1 .. Len(Append(q, r)) :
            Append(q, r)[i] = IF i <= Len(q) THEN q[i] ELSE r
    BY <2>1, AppendedElement
  <2>3. \A i \in 1 .. Len(Append(q, r)) : Append(q, r)[i][1] = Target
    BY <2>1, <2>2
  <2>4. outbox' = <<>> /\ delivered' = [delivered EXCEPT ![Target] = Append(q, r)]
    BY <1>2 DEF WriteReply
  <2> HIDE DEF q, r
  <2>5. NoMisroutedReply'
    BY <2>1, <2>3, <2>4
  <2> QED BY <2>4, <2>5
<1>3. CASE WriteFails \/ DropReply
    BY <1>3, SMTT(30) DEF WriteFails, DropReply, writeVars
<1>4. CASE UNCHANGED <<outbox, delivered>>
    BY <1>4
<1>5. \/ \E t \in Workers : HandOver(t)
      \/ WriteReply \/ WriteFails \/ DropReply
      \/ UNCHANGED <<outbox, delivered>>
    BY DEF Next, ListenStep, SendStep, RunStep, vars, writeVars, Ask, Read,
           ReadFails, Enqueue, TakeRequest, SetRoute, GetRoute, GiveUp,
           ClearRoute, RunStops, AddConn, RmConn, Break, Close
<1> QED BY <1>1, <1>2, <1>3, <1>4, <1>5

-----------------------------------------------------------------------------
(* The invariant is inductive if one goroutine uses the socket. *)
THEOREM RepSpecIInv ==
    ASSUME NEW w, Workers = {w}
    PROVE  Spec => []IInv
<1>1. IInv /\ [Next]_vars => IInv'
  <2>1. IInv /\ [Next]_vars => TypeOK'
    BY RepTypeStep DEF IInv
  <2> QED BY <2>1, RouteStep, ReplyStep DEF IInv
<1> QED BY RepInit, <1>1, PTL DEF Spec

(* Type correctness: what is queued, handed over and written are requests  *)
(* of the socket's connections, and no queue exceeds its capacity.         *)
THEOREM RepTypeCorrect ==
    ASSUME NEW w, Workers = {w}
    PROVE  Spec => []TypeOK
<1>1. IInv => TypeOK
    BY DEF IInv
<1> QED BY RepSpecIInv, <1>1, PTL

(* A REP socket used by one goroutine never sends a reply to another peer  *)
(* than the one whose request it answers (rep.go, repState and run).       *)
THEOREM RepNoMisroutedReply ==
    ASSUME NEW w, Workers = {w}
    PROVE  Spec => []NoMisroutedReply
<1>1. IInv => NoMisroutedReply
    BY DEF IInv
<1> QED BY RepSpecIInv, <1>1, PTL

-----------------------------------------------------------------------------
(* Replies come once per request and in order: the requests of a connection *)
(* keep the order in which they were asked from stage to stage, from the   *)
(* requester's stream to the replies.  Message 0 is no request.            *)
Elements(q) == {q[i] : i \in 1 .. Len(q)}

OnWire(c)   == Elements(wire[c]) \ {0}
InHand(c)   == Elements(hand[c]) \ {0}
Queued(c)   == {m[2] : m \in {e \in Elements(msgCh) : e[1] = c}} \ {0}
Taken(c)    == {job[t][2] : t \in {u \in Workers : job[u][1] = c}}
InOutbox(c) == {o[2][2] : o \in {e \in Elements(outbox) : e[2][1] = c}}
Answered(c) == {r[2] : r \in Elements(delivered[c])}

Waiting(c) == Queued(c) \union InHand(c) \union OnWire(c)
Replied(c) == InOutbox(c) \union Answered(c)

(* The worker still owes the reply to the request it received last. *)
Owed ==
    \E t \in Workers :
        pc[t] = "set" \/ (pc[t] \in {"idle", "handover"} /\ route # NoConn)

Below(A, B) == \A a \in A, b \in B : a < b

InOrder(c) ==
    /\ Below(InHand(c), OnWire(c))
    /\ Below(Queued(c), InHand(c) \union OnWire(c))
    /\ Below(Taken(c) \union Replied(c), Waiting(c))
    /\ \A a \in Replied(c), b \in Taken(c) : a <= b /\ (Owed => a < b)
    /\ Below(Answered(c), InOutbox(c))
    /\ \A a \in Waiting(c) \union Taken(c) \union Replied(c) : a <= asked[c]

Sorted(q, R) == \A i, j \in 1 .. Len(q) : i < j => <<q[i], q[j]>> \in R

NumberOrder ==
    {p \in (0 .. MaxRequests) \X (0 .. MaxRequests) :
       p[1] # 0 /\ p[2] # 0 => p[1] < p[2]}

RequestOrder ==
    {p \in Envelope \X Envelope :
       p[1][1] = p[2][1] /\ p[1][2] # 0 /\ p[2][2] # 0 => p[1][2] < p[2][2]}

EachSorted ==
    /\ \A c \in Conns : Sorted(wire[c], NumberOrder)
    /\ Sorted(msgCh, RequestOrder)
    /\ \A c \in Conns : Sorted(delivered[c], RequestOrder)

Ordered == EachSorted /\ \A c \in Conns : InOrder(c)

(* What a queue holds after an append, and what its first element leaves. *)
LEMMA AppendElements ==
    ASSUME NEW S, NEW q \in Seq(S), NEW x \in S
    PROVE  Elements(Append(q, x)) = Elements(q) \union {x}
<1>1. /\ Len(Append(q, x)) = Len(q) + 1 /\ Len(q) \in Nat
      /\ \A i \in 1 .. Len(q) : Append(q, x)[i] = q[i]
      /\ Append(q, x)[Len(q) + 1] = x
    OBVIOUS
<1>2. 1 .. Len(q) + 1 = (1 .. Len(q)) \union {Len(q) + 1}
    BY <1>1
<1> QED BY <1>1, <1>2 DEF Elements

LEMMA TailElements ==
    ASSUME NEW S, NEW q \in Seq(S), q # <<>>
    PROVE  Elements(q) = {Head(q)} \union Elements(Tail(q))
<1>1. /\ Len(Tail(q)) = Len(q) - 1 /\ Len(q) \in Nat \ {0} /\ Head(q) = q[1]
      /\ \A i \in 1 .. Len(q) - 1 : Tail(q)[i] = q[i + 1]
    OBVIOUS
<1>2. \A i \in 1 .. Len(q) : i = 1 \/ (i - 1 \in 1 .. Len(q) - 1 /\ i = (i - 1) + 1)
    BY <1>1
<1>3. 1 \in 1 .. Len(q) /\ \A i \in 1 .. Len(q) - 1 : i + 1 \in 1 .. Len(q)
    BY <1>1
<1>4. ASSUME NEW i \in 1 .. Len(q)
      PROVE  q[i] = q[1] \/ \E k \in 1 .. Len(q) - 1 : q[i] = q[k + 1]
    BY <1>2
<1> QED BY <1>1, <1>3, <1>4 DEF Elements

LEMMA ElementTypes ==
    ASSUME NEW S, NEW q \in Seq(S)
    PROVE  Elements(q) \subseteq S
BY DEF Elements

LEMMA FewElements ==
    /\ Elements(<<>>) = {}
    /\ \A x : Elements(<<x>>) = {x}
BY DEF Elements

(* An order of the elements is kept by both. *)
LEMMA SortedAppend ==
    ASSUME NEW S, NEW q \in Seq(S), NEW x \in S, NEW R, Sorted(q, R),
           \A y \in Elements(q) : <<y, x>> \in R
    PROVE  Sorted(Append(q, x), R)
<1>1. /\ Len(Append(q, x)) = Len(q) + 1 /\ Len(q) \in Nat
      /\ \A i \in 1 .. Len(q) : Append(q, x)[i] = q[i]
      /\ Append(q, x)[Len(q) + 1] = x
    OBVIOUS
<1> SUFFICES ASSUME NEW i \in 1 .. Len(q) + 1, NEW j \in 1 .. Len(q) + 1, i < j
             PROVE  <<Append(q, x)[i], Append(q, x)[j]>> \in R
    BY <1>1 DEF Sorted
<1>2. i \in 1 .. Len(q)
    BY <1>1
<1>3. CASE j \in 1 .. Len(q)
    BY <1>1, <1>2, <1>3 DEF Sorted
<1>4. CASE j = Len(q) + 1
    BY <1>1, <1>2, <1>4 DEF Elements
<1> QED BY <1>1, <1>3, <1>4

LEMMA SortedTail ==
    ASSUME NEW S, NEW q \in Seq(S), q # <<>>, NEW R, Sorted(q, R)
    PROVE  /\ Sorted(Tail(q), R)
           /\ \A y \in Elements(Tail(q)) : <<Head(q), y>> \in R
<1>1. /\ Len(Tail(q)) = Len(q) - 1 /\ Len(q) \in Nat \ {0} /\ Head(q) = q[1]
      /\ \A i \in 1 .. Len(q) - 1 : Tail(q)[i] = q[i + 1]
    OBVIOUS
<1>2. /\ 1 \in 1 .. Len(q)
      /\ \A i \in 1 .. Len(q) - 1 : i + 1 \in 1 .. Len(q) /\ 1 < i + 1
    BY <1>1
<1>3. \A i, j \in 1 .. Len(q) - 1 : i < j => i + 1 < j + 1
    OBVIOUS
<1>4. Sorted(Tail(q), R)
    BY <1>1, <1>2, <1>3 DEF Sorted
<1>5. \A i \in 1 .. Len(q) - 1 : <<q[1], q[i + 1]>> \in R
    BY <1>2 DEF Sorted
<1> QED BY <1>1, <1>4, <1>5 DEF Elements

(* The stages hold numbers of requests. *)
LEMMA StageTypes ==
    ASSUME TypeOK, NEW c \in Conns
    PROVE  /\ OnWire(c) \subseteq 1 .. MaxRequests
           /\ InHand(c) \subseteq 1 .. MaxRequests
           /\ Queued(c) \subseteq 1 .. MaxRequests
           /\ Taken(c) \subseteq 1 .. MaxRequests
           /\ InOutbox(c) \subseteq 1 .. MaxRequests
           /\ Answered(c) \subseteq 1 .. MaxRequests
<1>1. OnWire(c) \subseteq 1 .. MaxRequests /\ InHand(c) \subseteq 1 .. MaxRequests
  <2>1. /\ Elements(wire[c]) \subseteq 0 .. MaxRequests
        /\ Elements(hand[c]) \subseteq 0 .. MaxRequests
    BY ElementTypes DEF TypeOK
  <2> QED BY <2>1 DEF OnWire, InHand
<1>2. Queued(c) \subseteq 1 .. MaxRequests
  <2>1. Elements(msgCh) \subseteq Envelope
    BY ElementTypes DEF TypeOK
  <2> QED BY <2>1, RequestTypes DEF Queued
<1>3. Taken(c) \subseteq 1 .. MaxRequests
    BY RepAssumption DEF TypeOK, Taken, Request, NoRequest
<1>4. InOutbox(c) \subseteq 1 .. MaxRequests
  <2>1. Elements(outbox) \subseteq Conns \X Request
    BY ElementTypes DEF TypeOK
  <2>2. \A o \in Elements(outbox) : o[2] \in Request
    BY <2>1
  <2> QED BY <2>2 DEF InOutbox, Request
<1>5. Answered(c) \subseteq 1 .. MaxRequests
  <2>1. Elements(delivered[c]) \subseteq Request
    BY ElementTypes DEF TypeOK
  <2> QED BY <2>1 DEF Answered, Request
<1> QED BY <1>1, <1>2, <1>3, <1>4, <1>5

(* The requester's next message has a number that was not used before. *)
LEMMA AskOrder ==
    ASSUME TypeOK, Ordered, NEW c \in Conns, Ask(c)
    PROVE  Ordered'
<1>1. PICK n \in {0, asked[c] + 1} : wire' = [wire EXCEPT ![c] = Append(@, n)]
    BY DEF Ask
<1>2. /\ asked' = [asked EXCEPT ![c] = @ + 1] /\ asked \in [Conns -> Nat]
      /\ wire \in [Conns -> Seq(0 .. MaxRequests)]
      /\ n \in 0 .. MaxRequests /\ wire[c] \in Seq(0 .. MaxRequests)
    BY <1>1, RepAssumption, SMTT(30) DEF Ask, TypeOK
<1>3. UNCHANGED <<hand, msgCh, job, pc, route, outbox, delivered>>
    BY DEF Ask, readVars, writeVars, workerVars
<1>4. \A d \in Conns : /\ InHand(d)' = InHand(d) /\ Queued(d)' = Queued(d)
                       /\ Taken(d)' = Taken(d) /\ InOutbox(d)' = InOutbox(d)
                       /\ Answered(d)' = Answered(d)
    BY <1>3 DEF InHand, Queued, Taken, InOutbox, Answered
<1>5. Owed' = Owed
    BY <1>3 DEF Owed
<1>6. Elements(wire[c])' = Elements(wire[c]) \union {n}
  <2>1. Elements(Append(wire[c], n)) = Elements(wire[c]) \union {n}
    <3> DEFINE S == 0 .. MaxRequests
    <3>1. wire[c] \in Seq(S) /\ n \in S
      BY <1>2
    <3> HIDE DEF S
    <3> QED BY <3>1, AppendElements
  <2>2. wire'[c] = Append(wire[c], n)
    BY <1>1, <1>2
  <2> QED BY <2>1, <2>2
<1>7. OnWire(c)' \subseteq OnWire(c) \union {asked[c] + 1}
    BY <1>1, <1>6 DEF OnWire
<1>8. ASSUME NEW d \in Conns PROVE InOrder(d)'
  <2>1. CASE d = c
    <3>1. asked'[c] = asked[c] + 1 /\ InOrder(c)
      BY <1>2 DEF Ordered
    <3> QED BY <1>2, <1>4, <1>5, <1>7, <2>1, <3>1, StageTypes
            DEF InOrder, Below, Waiting, Replied
  <2>2. CASE d # c
    <3>1. OnWire(d)' = OnWire(d) /\ asked'[d] = asked[d] /\ InOrder(d)
      BY <1>1, <1>2, <2>2 DEF OnWire, Ordered
    <3> QED BY <1>4, <1>5, <3>1 DEF InOrder, Below, Waiting, Replied
  <2> QED BY <2>1, <2>2
<1>9. Sorted(wire[c], NumberOrder)'
  <2>1. ASSUME NEW y \in Elements(wire[c]) PROVE <<y, n>> \in NumberOrder
    <3>1. y \in 0 .. MaxRequests
      BY <1>2, ElementTypes
    <3>2. y = 0 \/ y <= asked[c]
      BY DEF Ordered, InOrder, Waiting, OnWire
    <3>3. asked[c] \in Nat
      BY <1>2
    <3> QED BY <1>1, <1>2, <3>1, <3>2, <3>3 DEF NumberOrder
  <2>2. Sorted(Append(wire[c], n), NumberOrder)
    BY <1>2, <2>1, SortedAppend DEF Ordered, EachSorted
  <2> QED BY <1>1, <1>2, <2>2
<1>10. EachSorted'
    BY <1>1, <1>2, <1>3, <1>9 DEF Ordered, EachSorted
<1> QED BY <1>8, <1>10 DEF Ordered

(* listen takes the earliest message from the stream. *)
LEMMA ReadOrder ==
    ASSUME TypeOK, Ordered, NEW c \in Conns, Read(c)
    PROVE  Ordered'
<1> DEFINE h == Head(wire[c])
           q == Tail(wire[c])
<1>1. /\ wire \in [Conns -> Seq(0 .. MaxRequests)] /\ wire[c] # <<>>
      /\ wire[c] \in Seq(0 .. MaxRequests)
      /\ hand \in [Conns -> Seq(0 .. MaxRequests)] /\ hand[c] = <<>>
      /\ wire' = [wire EXCEPT ![c] = q]
      /\ hand' = hand \/ hand' = [hand EXCEPT ![c] = <<h>>]
    BY DEF Read, TypeOK
<1>2. UNCHANGED <<asked, msgCh, job, pc, route, outbox, delivered>>
    BY DEF Read, writeVars, workerVars
<1>3. \A d \in Conns : /\ Queued(d)' = Queued(d) /\ Taken(d)' = Taken(d)
                       /\ InOutbox(d)' = InOutbox(d) /\ Answered(d)' = Answered(d)
    BY <1>2 DEF Queued, Taken, InOutbox, Answered
<1>4. Owed' = Owed
    BY <1>2 DEF Owed
<1>5. /\ Elements(wire[c]) = {h} \union Elements(q)
      /\ Sorted(q, NumberOrder)
      /\ \A y \in Elements(q) : <<h, y>> \in NumberOrder
    BY <1>1, TailElements, SortedTail DEF Ordered, EachSorted
<1> HIDE DEF h, q
<1>6. /\ OnWire(c)' = Elements(q) \ {0}
      /\ OnWire(c) = ({h} \union Elements(q)) \ {0}
      /\ InHand(c) = {}
      /\ InHand(c)' \subseteq {h} \ {0}
    BY <1>1, <1>5, FewElements DEF OnWire, InHand
<1>7. \A y \in OnWire(c)' : h # 0 => h < y
    BY <1>5, <1>6 DEF NumberOrder
<1>8. ASSUME NEW d \in Conns PROVE InOrder(d)'
  <2>1. CASE d = c
    <3>1. InOrder(c)
      BY DEF Ordered
    <3>2. InHand(c)' \subseteq OnWire(c) /\ OnWire(c)' \subseteq OnWire(c)
      BY <1>6
    <3>3. \A a \in InHand(c)' : a = h /\ h # 0
      BY <1>6
    <3> QED BY <1>2, <1>3, <1>4, <1>7, <2>1, <3>1, <3>2, <3>3
            DEF InOrder, Below, Waiting, Replied
  <2>2. CASE d # c
    <3>1. OnWire(d)' = OnWire(d) /\ InHand(d)' = InHand(d) /\ InOrder(d)
      BY <1>1, <2>2 DEF OnWire, InHand, Ordered
    <3> QED BY <1>2, <1>3, <1>4, <3>1 DEF InOrder, Below, Waiting, Replied
  <2> QED BY <2>1, <2>2
<1>9. EachSorted'
    BY <1>1, <1>2, <1>5 DEF Ordered, EachSorted
<1> QED BY <1>8, <1>9 DEF Ordered

(* listen queues the message behind those it has read before. *)
LEMMA EnqueueOrder ==
    ASSUME TypeOK, Ordered, NEW c \in Conns, Enqueue(c)
    PROVE  Ordered'
<1> DEFINE n == Head(hand[c])
           e == <<c, n>>
<1>1. /\ hand \in [Conns -> Seq(0 .. MaxRequests)]
      /\ hand[c] \in Seq(0 .. MaxRequests) /\ hand[c] # <<>>
      /\ hand' = [hand EXCEPT ![c] = <<>>]
      /\ msgCh \in Seq(Envelope) /\ msgCh' = Append(msgCh, e)
    BY DEF Enqueue, TypeOK
<1>2. UNCHANGED <<asked, wire, job, pc, route, outbox, delivered>>
    BY DEF Enqueue, peerVars, writeVars, workerVars
<1>3. \A d \in Conns : /\ OnWire(d)' = OnWire(d) /\ Taken(d)' = Taken(d)
                       /\ InOutbox(d)' = InOutbox(d) /\ Answered(d)' = Answered(d)
    BY <1>2 DEF OnWire, Taken, InOutbox, Answered
<1>4. Owed' = Owed
    BY <1>2 DEF Owed
<1>4a. n \in 0 .. MaxRequests /\ e \in Envelope
  <2>1. n \in 0 .. MaxRequests
    BY <1>1, QueueTypes
  <2> QED BY <2>1, RequestTypes
<1>5. /\ Elements(msgCh)' = Elements(msgCh) \union {e}
      /\ Elements(msgCh) \subseteq Envelope
    BY <1>1, <1>4a, AppendElements, ElementTypes, ZenonT(60)
<1>6. n \in Elements(hand[c])
    BY <1>1, TailElements
<1>7. e[1] = c /\ e[2] = n
    OBVIOUS
<1> HIDE DEF n, e
<1>8. InHand(c)' = {} /\ (n # 0 => n \in InHand(c))
    BY <1>1, <1>6, FewElements DEF InHand
<1>9. \A d \in Conns : Queued(d)' = Queued(d) \union
                                    (IF d = c THEN {n} \ {0} ELSE {})
    BY <1>5, <1>7 DEF Queued
<1>10. ASSUME NEW d \in Conns PROVE InOrder(d)'
  <2>1. CASE d = c
    <3>1. InOrder(c)
      BY DEF Ordered
    <3>2. Queued(c)' \subseteq Queued(c) \union InHand(c) /\ InHand(c)' = {}
      BY <1>8, <1>9
    <3> QED BY <1>2, <1>3, <1>4, <2>1, <3>1, <3>2
            DEF InOrder, Below, Waiting, Replied
  <2>2. CASE d # c
    <3>1. Queued(d)' = Queued(d) /\ InHand(d)' = InHand(d) /\ InOrder(d)
      BY <1>1, <1>9, <2>2 DEF InHand, Ordered
    <3> QED BY <1>2, <1>3, <1>4, <3>1 DEF InOrder, Below, Waiting, Replied
  <2> QED BY <2>1, <2>2
<1>11. Sorted(msgCh, RequestOrder)'
  <2>1. ASSUME NEW y \in Elements(msgCh) PROVE <<y, e>> \in RequestOrder
    <3>1. y \in Envelope
      BY <1>5
    <3>2. ASSUME y[1] = c, y[2] # 0, n # 0 PROVE y[2] < n
      <4>1. y[2] \in Queued(c)
        BY <3>2 DEF Queued
      <4> QED BY <1>8, <3>2, <4>1 DEF Ordered, InOrder, Below
    <3> QED BY <1>4a, <1>7, <3>1, <3>2 DEF RequestOrder
  <2> QED BY <1>4a, <1>1, <2>1, SortedAppend DEF Ordered, EachSorted
<1>12. EachSorted'
    BY <1>2, <1>11 DEF Ordered, EachSorted
<1> QED BY <1>10, <1>12 DEF Ordered

(* Recv takes the earliest request from the queue; what it drops is no     *)
(* request, and the request it replaces was asked before.                  *)
LEMMA TakeOrder ==
    ASSUME NEW w, Workers = {w}, TypeOK, Ordered, TakeRequest(w)
    PROVE  Ordered'
<1> DEFINE e == Head(msgCh)
           q == Tail(msgCh)
<1>1. /\ msgCh \in Seq(Envelope) /\ msgCh # <<>> /\ msgCh' = q
      /\ pc[w] = "idle"
      /\ pc \in [Workers -> {"idle", "set", "handover", "clear"}]
      /\ job \in [Workers -> Request \union {NoRequest}]
      /\ IF e[2] = 0 THEN UNCHANGED <<pc, job>>
                     ELSE /\ pc' = [pc EXCEPT ![w] = "set"]
                          /\ job' = [job EXCEPT ![w] = e]
    BY DEF TakeRequest, TypeOK
<1>2. UNCHANGED <<asked, wire, hand, route, outbox, delivered>>
    BY DEF TakeRequest, peerVars, writeVars
<1>3. \A d \in Conns : /\ OnWire(d)' = OnWire(d) /\ InHand(d)' = InHand(d)
                       /\ InOutbox(d)' = InOutbox(d) /\ Answered(d)' = Answered(d)
    BY <1>2 DEF OnWire, InHand, InOutbox, Answered
<1>4. /\ e \in Envelope
      /\ Elements(msgCh) = {e} \union Elements(q)
      /\ Sorted(q, RequestOrder)
      /\ \A y \in Elements(q) : <<e, y>> \in RequestOrder
    BY <1>1, QueueTypes, TailElements, SortedTail DEF Ordered, EachSorted
<1> HIDE DEF e, q
<1>5. \A d \in Conns : Queued(d)' \subseteq Queued(d)
    BY <1>1, <1>4 DEF Queued
<1>6. EachSorted'
    BY <1>1, <1>2, <1>4 DEF Ordered, EachSorted
<1>7. ASSUME NEW d \in Conns PROVE InOrder(d)'
  <2>1. InOrder(d)
    BY DEF Ordered
  <2>2. CASE e[2] = 0
    <3>1. Taken(d)' = Taken(d) /\ Owed' = Owed
      BY <1>1, <1>2, <2>2 DEF Taken, Owed
    <3> QED BY <1>2, <1>3, <1>5, <2>1, <3>1
            DEF InOrder, Below, Waiting, Replied
  <2>3. CASE e[2] # 0 /\ e[1] # d
    <3>1. Taken(d)' = {}
      BY <1>1, <2>3 DEF Taken
    <3> QED BY <1>2, <1>3, <1>5, <2>1, <3>1
            DEF InOrder, Below, Waiting, Replied
  <2>4. CASE e[2] # 0 /\ e[1] = d
    <3>1. Taken(d)' = {e[2]}
      BY <1>1, <2>4 DEF Taken
    <3>2. e[2] \in Queued(d)
      BY <1>4, <2>4 DEF Queued
    <3>3. ASSUME NEW n \in Queued(d)' PROVE e[2] < n
      <4>1. PICK y \in Elements(q) : y[1] = d /\ y[2] = n /\ n # 0
        BY <1>1 DEF Queued
      <4> QED BY <1>4, <2>4, <4>1 DEF RequestOrder
    <3>4. e[2] \in Nat /\ Replied(d) \subseteq 1 .. MaxRequests
      BY <3>2, StageTypes DEF Replied
    <3>5. \A a \in Replied(d) : a < e[2] /\ a <= e[2]
      BY <2>1, <3>2, <3>4 DEF InOrder, Below, Waiting
    <3> QED BY <1>2, <1>3, <1>5, <2>1, <3>1, <3>2, <3>3, <3>5
            DEF InOrder, Below, Waiting, Replied
  <2> QED BY <2>2, <2>3, <2>4
<1> QED BY <1>6, <1>7 DEF Ordered

(* Send hands over the reply that is owed. *)
LEMMA HandOverOrder ==
    ASSUME NEW w, Workers = {w}, IInv, Ordered, HandOver(w)
    PROVE  Ordered'
<1>1. /\ pc[w] = "handover" /\ pc' = [pc EXCEPT ![w] = "clear"]
      /\ outbox = <<>> /\ outbox' = <<<<dest[w], job[w]>>>>
      /\ pc \in [Workers -> {"idle", "set", "handover", "clear"}]
    BY DEF HandOver, IInv, TypeOK
<1>2. UNCHANGED <<asked, wire, hand, msgCh, job, route, delivered>>
    BY DEF HandOver, peerVars, readVars
<1>3. \A d \in Conns : /\ OnWire(d)' = OnWire(d) /\ InHand(d)' = InHand(d)
                       /\ Queued(d)' = Queued(d) /\ Taken(d)' = Taken(d)
                       /\ Answered(d)' = Answered(d)
    BY <1>2 DEF OnWire, InHand, Queued, Taken, Answered
<1>4. Owed /\ ~Owed'
    BY <1>1 DEF Owed, IInv, RouteFollowsJob
<1>5. \A d \in Conns : InOutbox(d)' \subseteq Taken(d)
  <2>1. Elements(outbox)' = {<<dest[w], job[w]>>}
    BY <1>1, FewElements
  <2>2. <<dest[w], job[w]>>[2] = job[w]
    OBVIOUS
  <2> QED BY <2>1, <2>2 DEF InOutbox, Taken
<1>6. \A d \in Conns : \A a \in Taken(d), b \in Taken(d) : a = b
    BY DEF Taken
<1>7. ASSUME NEW d \in Conns PROVE InOrder(d)'
  <2>1. InOrder(d)
    BY DEF Ordered
  <2>2. Taken(d) \subseteq 1 .. MaxRequests
    BY StageTypes DEF IInv
  <2> QED BY <1>2, <1>3, <1>4, <1>5, <1>6, <2>1, <2>2
          DEF InOrder, Below, Waiting, Replied
<1>8. EachSorted'
    BY <1>2 DEF Ordered, EachSorted
<1> QED BY <1>7, <1>8 DEF Ordered

(* run writes what it has in hand behind the earlier replies. *)
LEMMA WriteOrder ==
    ASSUME IInv, Ordered, WriteReply
    PROVE  Ordered'
<1> DEFINE r == outbox[1][2]
<1>1. PICK c \in Conns : c = Target
    BY DEF WriteReply, IInv, TypeOK
<1>1a. outbox \in Seq(Conns \X Request) /\ Len(outbox) = 1
  <2>1. /\ outbox \in Seq(Conns \X Request) /\ Len(outbox) <= 1
        /\ outbox # <<>>
    BY DEF WriteReply, IInv, TypeOK
  <2> DEFINE n == Len(outbox)
  <2>2. n \in Nat /\ n # 0
    BY <2>1
  <2>3. n <= 1
    BY <2>1
  <2> HIDE DEF n
  <2>4. n = 1
    BY <2>2, <2>3
  <2> QED BY <2>1, <2>4 DEF n
<1>2. /\ delivered \in [Conns -> Seq(Request)]
      /\ delivered[c] \in Seq(Request)
      /\ outbox' = <<>>
      /\ delivered' = [delivered EXCEPT ![c] = Append(@, r)]
    BY <1>1 DEF WriteReply, IInv, TypeOK
<1>3. r \in Request /\ r[1] = c
  <2>1. 1 \in 1 .. Len(outbox)
    BY <1>1a
  <2>2. outbox[1] \in Conns \X Request
    BY <1>1a, <2>1
  <2> QED BY <1>1, <2>1, <2>2 DEF IInv, OutboxAddressed, Target
<1>4. outbox[1] \in Elements(outbox)
    BY <1>1a DEF Elements
<1>5. UNCHANGED <<asked, wire, hand, msgCh, job, pc, route>>
    BY DEF WriteReply, peerVars, readVars, workerVars
<1>6. \A d \in Conns : /\ OnWire(d)' = OnWire(d) /\ InHand(d)' = InHand(d)
                       /\ Queued(d)' = Queued(d) /\ Taken(d)' = Taken(d)
    BY <1>5 DEF OnWire, InHand, Queued, Taken
<1>7. Owed' = Owed
    BY <1>5 DEF Owed
<1>8. r[2] \in InOutbox(c)
    BY <1>3, <1>4 DEF InOutbox
<1>9. Elements(delivered[c])' = Elements(delivered[c]) \union {r}
  <2>1. Elements(Append(delivered[c], r)) = Elements(delivered[c]) \union {r}
    BY <1>2, <1>3, AppendElements
  <2> QED BY <1>2, <2>1
<1> HIDE DEF r
<1>10. Answered(c)' = Answered(c) \union {r[2]}
    BY <1>9 DEF Answered
<1>11. \A d \in Conns : InOutbox(d)' = {}
    BY <1>2, FewElements DEF InOutbox
<1>12. ASSUME NEW d \in Conns PROVE InOrder(d)'
  <2>1. CASE d = c
    <3>1. InOrder(c) /\ Answered(c)' \subseteq Answered(c) \union InOutbox(c)
      BY <1>8, <1>10 DEF Ordered
    <3> QED BY <1>5, <1>6, <1>7, <1>11, <2>1, <3>1
            DEF InOrder, Below, Waiting, Replied
  <2>2. CASE d # c
    <3>1. InOrder(d) /\ Answered(d)' = Answered(d)
      BY <1>2, <2>2 DEF Ordered, Answered
    <3> QED BY <1>5, <1>6, <1>7, <1>11, <3>1
            DEF InOrder, Below, Waiting, Replied
  <2> QED BY <2>1, <2>2
<1>13. Sorted(delivered[c], RequestOrder)'
  <2>1. ASSUME NEW y \in Elements(delivered[c]) PROVE <<y, r>> \in RequestOrder
    <3>1. y \in Request
      BY <1>2, ElementTypes
    <3>2. y[2] < r[2]
      BY <1>8 DEF Ordered, InOrder, Below, Answered
    <3>3. y \in Envelope /\ r \in Envelope
      BY <1>3, <3>1, RepAssumption DEF Request, Envelope
    <3> QED BY <3>2, <3>3 DEF RequestOrder
  <2>2. Sorted(Append(delivered[c], r), RequestOrder)
    BY <1>2, <1>3, <2>1, SortedAppend DEF Ordered, EachSorted
  <2> QED BY <1>2, <2>2
<1>14. EachSorted'
    BY <1>2, <1>5, <1>13 DEF Ordered, EachSorted
<1> QED BY <1>12, <1>14 DEF Ordered

(* The other steps add nothing to any stage. *)
LEMMA OtherOrder ==
    ASSUME NEW w, Workers = {w}, IInv, Ordered,
           \/ SetRoute(w) \/ GetRoute(w) \/ GiveUp(w) \/ ClearRoute(w)
           \/ WriteFails \/ DropReply
           \/ UNCHANGED <<asked, wire, hand, msgCh, job, pc, route, outbox,
                          delivered>>
    PROVE  Ordered'
<1>1. UNCHANGED <<asked, wire, hand, msgCh, job, delivered>>
    BY DEF SetRoute, GetRoute, GiveUp, ClearRoute, WriteFails, DropReply,
           peerVars, readVars, writeVars, workerVars
<1>2. outbox' = outbox \/ outbox' = <<>>
    BY DEF SetRoute, GetRoute, GiveUp, ClearRoute, WriteFails, DropReply,
           writeVars
<1>3. Owed' => Owed
  <2>1. pc \in [Workers -> {"idle", "set", "handover", "clear"}]
    BY DEF IInv, TypeOK
  <2>2. CASE SetRoute(w)
    BY <2>2 DEF SetRoute, Owed
  <2>3. CASE GetRoute(w) \/ GiveUp(w)
    BY <2>1, <2>3 DEF GetRoute, GiveUp, Owed
  <2>4. CASE ClearRoute(w)
    BY <2>1, <2>4 DEF ClearRoute, RouteCleared, Owed
  <2>5. CASE UNCHANGED <<pc, route>>
    BY <2>5 DEF Owed
  <2> QED BY <2>2, <2>3, <2>4, <2>5 DEF WriteFails, DropReply, workerVars
<1>4. \A d \in Conns : /\ OnWire(d)' = OnWire(d) /\ InHand(d)' = InHand(d)
                       /\ Queued(d)' = Queued(d) /\ Taken(d)' = Taken(d)
                       /\ Answered(d)' = Answered(d)
    BY <1>1 DEF OnWire, InHand, Queued, Taken, Answered
<1>5. \A d \in Conns : InOutbox(d)' \subseteq InOutbox(d)
    BY <1>2, FewElements DEF InOutbox
<1>6. ASSUME NEW d \in Conns PROVE InOrder(d)'
  <2>1. InOrder(d)
    BY DEF Ordered
  <2> QED BY <1>1, <1>3, <1>4, <1>5, <2>1 DEF InOrder, Below, Waiting, Replied
<1>7. EachSorted'
    BY <1>1 DEF Ordered, EachSorted
<1> QED BY <1>6, <1>7 DEF Ordered

LEMMA OrderedStep ==
    ASSUME NEW w, Workers = {w}, IInv, Ordered, [Next]_vars
    PROVE  Ordered'
<1>1. ASSUME NEW c \in Conns, Ask(c) \/ Read(c) \/ Enqueue(c) PROVE Ordered'
    BY <1>1, AskOrder, ReadOrder, EnqueueOrder DEF IInv
<1>2. ASSUME NEW c \in Conns,
             ReadFails(c) \/ AddConn(c) \/ RmConn(c) \/ Break(c)
      PROVE  Ordered'
  <2>1. UNCHANGED <<asked, wire, hand, msgCh, job, pc, route, outbox, delivered>>
    BY <1>2 DEF ReadFails, AddConn, RmConn, Break, peerVars, readVars,
                writeVars, workerVars
  <2> QED BY <2>1, OtherOrder
<1>3. CASE TakeRequest(w) \/ HandOver(w) \/ WriteReply
    BY <1>3, TakeOrder, HandOverOrder, WriteOrder DEF IInv
<1>4. CASE \/ SetRoute(w) \/ GetRoute(w) \/ GiveUp(w) \/ ClearRoute(w)
           \/ WriteFails \/ DropReply
    BY <1>4, OtherOrder
<1>5. CASE RunStops \/ Close \/ UNCHANGED vars
  <2>1. UNCHANGED <<asked, wire, hand, msgCh, job, pc, route, outbox, delivered>>
    BY <1>5 DEF RunStops, Close, vars, peerVars, readVars, writeVars, workerVars
  <2> QED BY <2>1, OtherOrder
<1> QED BY <1>1, <1>2, <1>3, <1>4, <1>5 DEF Next, ListenStep, SendStep, RunStep

(* Used by one goroutine, a REP socket never answers a request twice, nor  *)
(* a later request before an earlier one, whatever was dropped, rejected   *)
(* or timed out (rep.go 250-253, repState.clear).                          *)
THEOREM RepAnsweredOnceInOrder ==
    ASSUME NEW w, Workers = {w}
    PROVE  Spec => []AnsweredOnceInOrder
<1>1. Init => Ordered
  <2> SUFFICES ASSUME Init PROVE Ordered
    OBVIOUS
  <2>1. EachSorted
    BY DEF Init, EachSorted, Sorted
  <2>2. ASSUME NEW c \in Conns
        PROVE  /\ OnWire(c) = {} /\ InHand(c) = {} /\ Queued(c) = {}
               /\ Taken(c) = {} /\ InOutbox(c) = {} /\ Answered(c) = {}
    BY FewElements, RepAssumption
       DEF Init, OnWire, InHand, Queued, Taken, InOutbox, Answered, NoRequest
  <2> QED BY <2>1, <2>2 DEF Ordered, InOrder, Below, Waiting, Replied
<1>2. IInv /\ Ordered /\ [Next]_vars => Ordered'
    BY OrderedStep
<1>3. IInv /\ Ordered => AnsweredOnceInOrder
  <2> SUFFICES ASSUME IInv, Ordered, NEW c \in Conns,
                      NEW i \in 1 .. Len(delivered[c]),
                      NEW j \in 1 .. Len(delivered[c]), i < j
               PROVE  delivered[c][i][2] < delivered[c][j][2]
    BY DEF AnsweredOnceInOrder
  <2>1. <<delivered[c][i], delivered[c][j]>> \in RequestOrder
    BY DEF Ordered, EachSorted, Sorted
  <2>2. delivered[c][i] \in Request /\ delivered[c][j] \in Request
    BY SMTT(30) DEF IInv, TypeOK
  <2>3. delivered[c][i][1] = c /\ delivered[c][j][1] = c
    BY DEF IInv, NoMisroutedReply
  <2> QED BY <2>1, <2>2, <2>3 DEF RequestOrder, Request
<1> QED BY RepSpecIInv, <1>1, <1>2, <1>3, PTL DEF Spec

=============================================================================
