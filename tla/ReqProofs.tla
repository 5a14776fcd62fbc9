----------------------------- MODULE ReqProofs -----------------------------
(***************************************************************************)
(* The REQ socket for any connections, requests and failures: the types    *)
(* for any callers, and for one caller that a reply is the reply to the    *)
(* request sent last, and that the socket is the remote call of module     *)
(* RemoteCall.  The peer that Req assumes is then shown to be what a REP   *)
(* socket with one worker is (module ReqRep).                              *)
(***************************************************************************)
EXTENDS ReqRep, TLAPS

(* Who is inside reqWriter.write holds its mutex, with a connection to try *)
(* and a request to write; who reads has a connection to read.             *)
Holding ==
    \A t \in Threads :
        /\ pc[t] \in {"try", "set"} => writer = t
        /\ pc[t] \in {"write", "try"} => count # 0
        /\ pc[t] = "try" => tries[t] < Len(conns)
        /\ pc[t] \in {"set", "read"} => at[t] \in Conns

Types ==
    /\ TypeOK
    /\ conns \in Seq(Conns)
    /\ requests \in [Conns -> Seq(RequestId)]
    /\ replies \in [Conns -> Seq(RequestId)]
    /\ sent \in Nat
    /\ Holding

-----------------------------------------------------------------------------
(* Operators of the model. *)

LEMMA Remainder ==
    ASSUME NEW a \in Nat, NEW b \in Nat \ {0}
    PROVE  a % b \in 0 .. b - 1
  OBVIOUS

LEMMA RegisteredType ==
    ASSUME conns \in Seq(Conns)
    PROVE  Registered \subseteq Conns
  BY DEF Registered

LEMMA WithoutType ==
    ASSUME NEW S, NEW q \in Seq(S), NEW k \in 1 .. Len(q)
    PROVE  SubSeq(q, 1, k - 1) \o SubSeq(q, k + 1, Len(q)) \in Seq(S)
  OBVIOUS

LEMMA QueueTypes ==
    ASSUME NEW S, NEW q \in Seq(S)
    PROVE  /\ \A x \in S : Append(q, x) \in Seq(S)
           /\ q # <<>> => Head(q) \in S /\ Tail(q) \in Seq(S)
           /\ \A i \in 1 .. Len(q) : q[i] \in S
  OBVIOUS

(* The connection a Send tries next is one of the writer's. *)
LEMMA CandidateType ==
    ASSUME Types, NEW t \in Threads, pc[t] = "try"
    PROVE  /\ Candidate(t) \in Conns
           /\ Current(t) \in Nat
           /\ (Current(t) + 1) % Len(conns) \in Nat
           /\ count \in RequestId
  <1>1. Len(conns) \in Nat \ {0}
    BY DEF Types, TypeOK, Holding
  <1>2. tries[t] + nextConn \in Nat
    BY DEF Types, TypeOK
  <1>3. Current(t) \in 0 .. Len(conns) - 1
    BY <1>1, <1>2, Remainder DEF Current
  <1>4. (Current(t) + 1) % Len(conns) \in Nat
    <2>1. Current(t) + 1 \in Nat
      BY <1>1, <1>3
    <2>2. (Current(t) + 1) % Len(conns) \in 0 .. Len(conns) - 1
      BY <1>1, <2>1, Remainder
    <2>3. QED
      BY <1>1, <2>2
  <1>5. conns[Current(t) + 1] \in Conns
    BY <1>1, <1>3 DEF Types
  <1>6. count \in RequestId
    BY ReqAssumption DEF Types, TypeOK, Holding, RequestId
  <1>7. QED
    BY <1>3, <1>4, <1>5, <1>6 DEF Candidate


-----------------------------------------------------------------------------
LEMMA InitTypes == Init => Types
  <1> SUFFICES ASSUME Init PROVE Types
    OBVIOUS
  <1>1. /\ requests \in [Conns -> Seq(RequestId)]
        /\ replies \in [Conns -> Seq(RequestId)]
        /\ conns \in Seq(Conns)
    BY DEF Init
  <1>2. Holding
    BY DEF Init, Holding
  <1>3. TypeOK
    BY ReqAssumption, <1>1 DEF Init, TypeOK, Registered
  <1>4. QED
    BY <1>1, <1>2, <1>3 DEF Init, Types

LEMMA SendTypes ==
    ASSUME Types, NEW t \in Threads,
           \/ BeginRequest(t) \/ EnterWrite(t) \/ SendOk(t) \/ SendFails(t)
           \/ SetLastConn(t)
    PROVE  Types'
  <1> USE ReqAssumption DEF state, pool, wire, ids, local
  <1>1. CASE BeginRequest(t)
    <2>1. count' \in 1 .. MaxRequests /\ sent' <= count'
      BY <1>1 DEF BeginRequest, Types, TypeOK
    <2>2. pc' \in [Threads -> {"idle", "write", "try", "set", "get", "read",
                               "finish", "abort"}]
      BY <1>1 DEF BeginRequest, Types, TypeOK
    <2>3. readyToReq' \in BOOLEAN /\ lastConn' = lastConn
      BY <1>1 DEF BeginRequest
    <2>4. TypeOK'
      BY <1>1, <2>1, <2>2, <2>3 DEF BeginRequest, Types, TypeOK, Registered
    <2>5. Holding'
      BY <1>1, <2>1 DEF BeginRequest, Types, TypeOK, Holding
    <2>6. QED
      BY <1>1, <2>4, <2>5 DEF BeginRequest, Types
  <1>2. CASE EnterWrite(t)
    <2>1. pc' \in [Threads -> {"idle", "write", "try", "set", "get", "read",
                               "finish", "abort"}]
      BY <1>2 DEF EnterWrite, Types, TypeOK
    <2>2. /\ writer' \in Threads \union {NoThread}
          /\ tries' \in [Threads -> Nat]
      <3>1. CASE UNCHANGED <<writer, tries>>
        BY <3>1 DEF Types, TypeOK
      <3>2. CASE writer' = t /\ tries' = [tries EXCEPT ![t] = 0]
        BY <3>2 DEF Types, TypeOK
      <3>3. QED
        BY <1>2, <3>1, <3>2 DEF EnterWrite
    <2>3. TypeOK'
      BY <1>2, <2>1, <2>2 DEF EnterWrite, Types, TypeOK, Registered
    <2>4. \A u \in Threads : pc[u] \notin {"try", "set"}
      BY <1>2 DEF EnterWrite, Types, Holding
    <2>5. conns # <<>> => 0 < Len(conns)
      BY DEF Types
    <2>6. Holding'
      BY <1>2, <2>4, <2>5 DEF EnterWrite, Types, TypeOK, Holding
    <2>7. QED
      BY <1>2, <2>3, <2>6 DEF EnterWrite, Types
  <1>3. CASE SendOk(t)
    <2>1. /\ Candidate(t) \in Conns /\ count \in RequestId
          /\ (Current(t) + 1) % Len(conns) \in Nat
      BY <1>3, CandidateType DEF SendOk
    <2>2. requests' \in [Conns -> Seq(RequestId)]
      BY <1>3, <2>1, QueueTypes DEF SendOk, Types
    <2>3. (Registered \subseteq Conns)'
          /\ (\A c \in Conns : \A q \in {requests[c], replies[c]} :
                \A i \in 1 .. Len(q) : q[i] \in RequestId)'
      BY <1>3, <2>2, QueueTypes DEF SendOk, Types, TypeOK, Registered
    <2>4. TypeOK'
      <3>1. pc' \in [Threads -> {"idle", "write", "try", "set", "get", "read",
                                 "finish", "abort"}]
        BY <1>3 DEF SendOk, Types, TypeOK
      <3>2. /\ at' \in [Threads -> Conns \union {NoConn}]
            /\ nextConn' \in Nat
            /\ sent' = count /\ count' = count
        BY <1>3, <2>1 DEF SendOk, Types, TypeOK
      <3>3. QED
        BY <1>3, <2>3, <3>1, <3>2, SMTT(30) DEF SendOk, Types, TypeOK
    <2>5. Holding'
      BY <1>3, <2>1 DEF SendOk, Types, TypeOK, Holding
    <2>6. sent' \in Nat
      BY <1>3, <2>1 DEF SendOk, RequestId
    <2>7. QED
      BY <1>3, <2>2, <2>4, <2>5, <2>6 DEF SendOk, Types
  <1>4. CASE SendFails(t)
    <2>1. Candidate(t) \in Conns
      BY <1>4, CandidateType DEF SendFails
    <2>2. TypeOK'
      BY <1>4, <2>1 DEF SendFails, Types, TypeOK, Registered
    <2>3. Holding'
      BY <1>4 DEF SendFails, Types, TypeOK, Holding
    <2>4. QED
      BY <1>4, <2>2, <2>3 DEF SendFails, Types
  <1>5. CASE SetLastConn(t)
    BY <1>5 DEF SetLastConn, Types, TypeOK, Holding, Registered
  <1>6. QED
    BY <1>1, <1>2, <1>3, <1>4, <1>5

LEMMA RecvTypes ==
    ASSUME Types, NEW t \in Threads,
           \/ BeforeRecv(t) \/ GetLastConn(t) \/ ReadOk(t) \/ ReadFails(t)
           \/ FinishRequest(t) \/ AbortRequest(t)
    PROVE  Types'
  <1> USE ReqAssumption DEF state, pool, wire, ids, local
  <1>1. CASE BeforeRecv(t)
    BY <1>1 DEF BeforeRecv, Types, TypeOK, Holding, Registered
  <1>2. CASE GetLastConn(t)
    BY <1>2 DEF GetLastConn, Types, TypeOK, Holding, Registered
  <1>3. CASE ReadOk(t)
    <2>1. at[t] \in Conns
      BY <1>3 DEF ReadOk, Types, Holding
    <2>2. replies' \in [Conns -> Seq(RequestId)]
      BY <1>3, <2>1, QueueTypes DEF ReadOk, Types
    <2>3. Head(replies[at[t]]) \in RequestId
      BY <1>3, <2>1, QueueTypes DEF ReadOk, Types
    <2>4. (Registered \subseteq Conns)'
          /\ (\A c \in Conns : \A q \in {requests[c], replies[c]} :
                \A i \in 1 .. Len(q) : q[i] \in RequestId)'
      BY <1>3, <2>2, QueueTypes DEF ReadOk, Types, TypeOK, Registered
    <2>5. TypeOK'
      BY <1>3, <2>3, <2>4 DEF ReadOk, Types, TypeOK
    <2>6. Holding'
      BY <1>3 DEF ReadOk, Types, TypeOK, Holding
    <2>7. QED
      BY <1>3, <2>2, <2>5, <2>6 DEF ReadOk, Types
  <1>4. CASE ReadFails(t)
    BY <1>4
       DEF ReadFails, MarkClosed, Types, TypeOK, Holding, Registered
  <1>5. CASE FinishRequest(t) \/ AbortRequest(t)
    <2>1. pc' \in [Threads -> {"idle", "write", "try", "set", "get", "read",
                               "finish", "abort"}]
      BY <1>5 DEF FinishRequest, AbortRequest, Types, TypeOK
    <2>2. readyToReq' \in BOOLEAN /\ lastConn' = NoConn
      BY <1>5 DEF FinishRequest, AbortRequest
    <2>3. TypeOK'
      BY <1>5, <2>1, <2>2, SMTT(30)
         DEF FinishRequest, AbortRequest, Types, TypeOK, Registered
    <2>4. Holding'
      BY <1>5 DEF FinishRequest, AbortRequest, Types, TypeOK, Holding
    <2>5. QED
      BY <1>5, <2>3, <2>4 DEF FinishRequest, AbortRequest, Types
  <1>6. QED
    BY <1>1, <1>2, <1>3, <1>4, <1>5

LEMMA PeerTypes ==
    ASSUME Types, NEW c \in Conns,
           AddConn(c) \/ RmConn(c) \/ Answer(c) \/ Break(c)
    PROVE  Types'
  <1> USE ReqAssumption DEF state, pool, wire, ids, local
  <1>1. CASE AddConn(c)
    <2>1. conns' \in Seq(Conns)
      BY <1>1, QueueTypes DEF AddConn, Types
    <2>2. Registered' \subseteq Conns
      BY <2>1 DEF Registered
    <2>3. QED
      BY <1>1, <2>1, <2>2 DEF AddConn, Types, TypeOK, Holding
  <1>2. CASE RmConn(c)
    <2>1. conns' \in Seq(Conns)
      BY <1>2, WithoutType DEF RmConn, Types
    <2>2. Registered' \subseteq Conns
      BY <2>1 DEF Registered
    <2>3. \A t \in Threads : pc[t] # "try"
      BY <1>2 DEF RmConn, Types, Holding
    <2>4. QED
      BY <1>2, <2>1, <2>2, <2>3
         DEF RmConn, Types, TypeOK, Holding
  <1>3. CASE Answer(c)
    <2>1. /\ requests' \in [Conns -> Seq(RequestId)]
          /\ replies' \in [Conns -> Seq(RequestId)]
      BY <1>3, QueueTypes DEF Answer, Types
    <2>2. (Registered \subseteq Conns)'
          /\ (\A d \in Conns : \A q \in {requests[d], replies[d]} :
                \A i \in 1 .. Len(q) : q[i] \in RequestId)'
      BY <1>3, <2>1, QueueTypes DEF Answer, Types, TypeOK, Registered
    <2>3. QED
      BY <1>3, <2>1, <2>2 DEF Answer, Types, TypeOK, Holding
  <1>4. CASE Break(c)
    BY <1>4 DEF Break, Types, TypeOK, Holding, Registered
  <1>5. QED
    BY <1>1, <1>2, <1>3, <1>4

LEMMA TypeStep == Types /\ [Next]_vars => Types'
  <1>1. Types /\ UNCHANGED vars => Types'
    BY DEF vars, Types, TypeOK, Holding, Registered
  <1>2. QED
    BY <1>1, SendTypes, RecvTypes, PeerTypes DEF Next, Call

(* Type correctness, for any number of callers: the index of the round     *)
(* robin stays within the list, although rmConn shortens the list without  *)
(* adjusting it (req.go, reqWriter).                                       *)
THEOREM ReqTypeCorrect == Spec => []TypeOK
  <1>1. Types => TypeOK
    BY DEF Types
  <1>2. QED
    BY InitTypes, TypeStep, <1>1, PTL DEF Spec

-----------------------------------------------------------------------------
(* One caller. *)

(* Nothing is under way on the connections that may be used again, d apart. *)
CleanBut(d) ==
    \A c \in (Conns \ closed) \ {d} : requests[c] = <<>> /\ replies[c] = <<>>

Clean == CleanBut(NoConn)

(* What is under way is the request sent last, on d, or its reply. *)
OnlyOn(d) ==
    /\ d \in Conns \ closed
    /\ \/ requests[d] = <<sent>> /\ replies[d] = <<>>
       \/ requests[d] = <<>> /\ replies[d] = <<sent>>
    /\ CleanBut(d)

(* What the caller may rely on at each point of Send and Recv. *)
Phase(t) ==
    /\ pc[t] = "idle" => IF readyToReq THEN Clean /\ lastConn = NoConn
                                       ELSE OnlyOn(lastConn)
    /\ pc[t] \in {"write", "try"} => Clean /\ ~readyToReq /\ lastConn = NoConn
    /\ pc[t] = "set" => OnlyOn(at[t]) /\ ~readyToReq /\ lastConn = NoConn
    /\ pc[t] \in {"get", "read"} => OnlyOn(lastConn) /\ ~readyToReq
    /\ pc[t] = "read" => at[t] = lastConn
    /\ pc[t] = "finish" => Clean /\ got[t] = sent
    /\ pc[t] = "abort" => Clean

IInv == Types /\ \A t \in Threads : Phase(t)

LEMMA OneElement ==
    ASSUME NEW x
    PROVE  /\ Append(<<>>, x) = <<x>>
           /\ Head(<<x>>) = x /\ Tail(<<x>>) = <<>> /\ <<x>> # <<>>
  OBVIOUS

(* A caller that sends finds the streams clean and leaves its request on   *)
(* the connection that accepted it.                                        *)
LEMMA SendPhase ==
    ASSUME NEW t, Threads = {t}, IInv,
           \/ BeginRequest(t) \/ EnterWrite(t) \/ SendOk(t) \/ SendFails(t)
           \/ SetLastConn(t)
    PROVE  Phase(t)'
  <1> USE DEF IInv, Types, TypeOK, Phase, Clean, CleanBut, OnlyOn, state, pool,
              wire, ids, local
  <1>1. CASE BeginRequest(t)
    BY <1>1 DEF BeginRequest, MayBegin
  <1>2. CASE EnterWrite(t)
    BY <1>2 DEF EnterWrite
  <1>3. CASE SendOk(t)
    <2>1. PICK c \in Conns \ closed : c = Candidate(t)
      BY <1>3, CandidateType DEF SendOk
    <2>2. /\ requests' = [requests EXCEPT ![c] = Append(@, count)]
          /\ sent' = count /\ at' = [at EXCEPT ![t] = c]
          /\ pc' = [pc EXCEPT ![t] = "set"]
          /\ UNCHANGED <<readyToReq, lastConn, replies, closed>>
          /\ pc[t] = "try"
      BY <1>3, <2>1 DEF SendOk
    <2>3. NoConn \notin Conns
      BY ReqAssumption
    <2>4. requests[c] = <<>> /\ replies[c] = <<>>
      BY <2>1, <2>2, <2>3
    <2>5. requests'[c] = <<sent'>>
      BY <2>1, <2>2, <2>4, OneElement
    <2>6. \A d \in (Conns \ closed) \ {c} :
            requests'[d] = <<>> /\ replies'[d] = <<>>
      BY <2>1, <2>2, <2>3
    <2>7. OnlyOn(c)'
      <3>1. c \in Conns \ closed'
        BY <2>1, <2>2
      <3>2. replies'[c] = <<>>
        BY <2>2, <2>4
      <3>3. CleanBut(c)'
        BY <2>2, <2>6
      <3>4. QED
        BY <2>5, <3>1, <3>2, <3>3
    <2>8. /\ pc'[t] = "set" /\ at'[t] = c
          /\ ~readyToReq' /\ lastConn' = NoConn
      BY <2>1, <2>2
    <2>9. QED
      BY <2>7, <2>8 DEF Phase
  <1>4. CASE SendFails(t)
    BY <1>4 DEF SendFails
  <1>5. CASE SetLastConn(t)
    BY <1>5 DEF SetLastConn
  <1>6. QED
    BY <1>1, <1>2, <1>3, <1>4, <1>5

(* A caller that receives takes the only reply there is, or closes the     *)
(* connection on which it would come.                                      *)
LEMMA RecvPhase ==
    ASSUME NEW t, Threads = {t}, IInv,
           \/ BeforeRecv(t) \/ GetLastConn(t) \/ ReadOk(t) \/ ReadFails(t)
           \/ FinishRequest(t) \/ AbortRequest(t)
    PROVE  Phase(t)'
  <1> USE DEF IInv, Types, TypeOK, Phase, Clean, CleanBut, OnlyOn, state, pool,
              wire, ids, local
  <1>1. CASE BeforeRecv(t)
    BY <1>1 DEF BeforeRecv
  <1>2. CASE GetLastConn(t)
    BY <1>2, ReqAssumption DEF GetLastConn
  <1>3. CASE ReadOk(t)
    <2> DEFINE c == at[t]
    <2>1. OnlyOn(c) /\ replies[c] # <<>>
      BY <1>3 DEF ReadOk
    <2>2. requests[c] = <<>> /\ replies[c] = <<sent>>
      BY <2>1
    <2>3. Head(replies[c]) = sent /\ Tail(replies[c]) = <<>>
      BY <2>2, OneElement
    <2>4. /\ got' = [got EXCEPT ![t] = sent]
          /\ replies' = [replies EXCEPT ![c] = <<>>]
          /\ pc' = [pc EXCEPT ![t] = "finish"]
          /\ UNCHANGED <<closed, requests, sent>>
      BY <1>3, <2>3 DEF ReadOk
    <2>5. Clean'
      BY <2>1, <2>2, <2>4
    <2>6. QED
      BY <2>4, <2>5
  <1>4. CASE ReadFails(t)
    BY <1>4 DEF ReadFails, MarkClosed
  <1>5. CASE FinishRequest(t) \/ AbortRequest(t)
    BY <1>5 DEF FinishRequest, AbortRequest
  <1>6. QED
    BY <1>1, <1>2, <1>3, <1>4, <1>5

(* Peers answer what they were asked, and the reaper takes connections     *)
(* that no pending request is on.                                          *)
LEMMA PeerPhase ==
    ASSUME NEW t, Threads = {t}, IInv, NEW c \in Conns,
           AddConn(c) \/ RmConn(c) \/ Answer(c) \/ Break(c)
    PROVE  Phase(t)'
  <1> USE DEF IInv, Types, TypeOK, Phase, Clean, CleanBut, OnlyOn, state, pool,
              wire, ids, local
  <1>1. CASE AddConn(c) \/ Break(c)
    BY <1>1, SMTT(30) DEF AddConn, Break
  <1>2. CASE RmConn(c)
    <2>1. CASE ResetApplies(c)
      <3>1. pc[t] \in {"finish", "abort"}
        BY <1>2, <2>1, ReqAssumption DEF RmConn, ResetApplies
      <3>2. QED
        BY <1>2, <3>1 DEF RmConn
    <2>2. CASE ~ResetApplies(c)
      BY <1>2, <2>2 DEF RmConn
    <2>3. QED
      BY <2>1, <2>2
  <1>3. CASE Answer(c)
    <2>1. /\ requests[c] # <<>>
          /\ requests' = [requests EXCEPT ![c] = Tail(@)]
          /\ replies' = [replies EXCEPT ![c] = Append(@, Head(requests[c]))]
          /\ UNCHANGED <<closed, sent, pc, at, got, readyToReq, lastConn>>
      BY <1>3 DEF Answer
    <2>2. ASSUME NEW d, CleanBut(d), d = c \/ c \in closed
          PROVE  CleanBut(d)'
      BY <2>1, <2>2
    <2>3. ASSUME OnlyOn(c) PROVE OnlyOn(c)'
      <3>1. requests[c] = <<sent>> /\ replies[c] = <<>>
        BY <2>1, <2>3
      <3>2. requests'[c] = <<>> /\ replies'[c] = <<sent>>
        BY <2>1, <3>1, OneElement
      <3>3. CleanBut(c)'
        BY <2>2, <2>3
      <3>4. QED
        BY <2>1, <2>3, <3>2, <3>3
    <2>4. ASSUME NEW d, OnlyOn(d), c \in closed PROVE OnlyOn(d)'
      BY <2>1, <2>2, <2>4, ZenonT(60)
    <2>5. CASE c \in closed
      BY <2>1, <2>2, <2>4, <2>5, ZenonT(60)
    <2>6. CASE c \notin closed
      <3>1. ~Clean
        BY <2>1, <2>6, ReqAssumption
      <3>2. ASSUME NEW d, OnlyOn(d) PROVE d = c
        BY <2>1, <2>6, <3>2
      <3>3. QED
        BY <2>1, <2>3, <3>1, <3>2
    <2>7. QED
      BY <2>5, <2>6
  <1>4. QED
    BY <1>1, <1>2, <1>3

LEMMA InitIInv ==
    ASSUME NEW t, Threads = {t}
    PROVE  Init => IInv
  <1>1. Init => Phase(t)
    BY DEF Init, Phase, Clean, CleanBut
  <1>2. QED
    BY <1>1, InitTypes DEF IInv

LEMMA IInvStep ==
    ASSUME NEW t, Threads = {t}
    PROVE  IInv /\ [Next]_vars => IInv'
  <1> SUFFICES ASSUME IInv, [Next]_vars PROVE IInv'
    OBVIOUS
  <1>1. Types'
    BY TypeStep DEF IInv
  <1>2. CASE UNCHANGED vars
    <2>1. Phase(t)'
      BY <1>2 DEF vars, IInv, Phase, Clean, CleanBut, OnlyOn
    <2>2. QED
      BY <1>1, <2>1 DEF IInv
  <1>3. CASE Next
    <2>1. Phase(t)'
      BY <1>3, SendPhase, RecvPhase, PeerPhase DEF Next, Call
    <2>2. QED
      BY <1>1, <2>1 DEF IInv
  <1>4. QED
    BY <1>2, <1>3

(* With one caller the invariant holds throughout. *)
THEOREM SpecIInv ==
    ASSUME NEW t, Threads = {t}
    PROVE  Spec => []IInv
  <1>1. Init => IInv
    BY InitIInv
  <1>2. IInv /\ [Next]_vars => IInv'
    BY IInvStep
  <1>3. QED
    BY <1>1, <1>2, PTL DEF Spec

(* With one caller Recv returns the reply to the request sent last, never  *)
(* a late one, whatever failed, was retried or given up before (req.go 66). *)
THEOREM ReqReplyMatches ==
    ASSUME NEW t, Threads = {t}
    PROVE  Spec => []ReplyMatchesRequest
  <1>1. IInv => ReplyMatchesRequest
    BY DEF IInv, Phase, ReplyMatchesRequest
  <1>2. QED
    BY SpecIInv, <1>1, PTL

(* Between two calls a socket that is ready has left nothing on a stream   *)
(* it may use again (req.go, abortRequest and reset).                      *)
THEOREM ReqCleanWhenReady ==
    ASSUME NEW t, Threads = {t}
    PROVE  Spec => []CleanWhenReady
  <1>1. IInv => CleanWhenReady
    BY RegisteredType, ReqAssumption
       DEF IInv, Types, Phase, Clean, CleanBut, CleanWhenReady
  <1>2. QED
    BY SpecIInv, <1>1, PTL

(* A request under way is on the connection that Recv reads (req.go, set). *)
THEOREM ReqPendingIsTracked ==
    ASSUME NEW t, Threads = {t}
    PROVE  Spec => []PendingIsTracked
  <1>1. IInv => PendingIsTracked
    <2> SUFFICES ASSUME IInv, NEW c \in Conns \ closed,
                        requests[c] # <<>> \/ replies[c] # <<>>,
                        pc[t] \notin {"set", "finish", "abort"}
                 PROVE  lastConn = c /\ ~readyToReq
      BY DEF PendingIsTracked
    <2>1. ~Clean
      BY ReqAssumption DEF Clean, CleanBut
    <2>2. pc[t] \in {"idle", "get", "read"} /\ OnlyOn(lastConn) /\ ~readyToReq
      BY <2>1 DEF IInv, Types, TypeOK, Phase
    <2>3. QED
      BY <2>2 DEF OnlyOn, CleanBut
  <1>2. QED
    BY SpecIInv, <1>1, PTL

-----------------------------------------------------------------------------
(* A REQ socket with one caller is the remote call of module RemoteCall.   *)

(* The numbers of the call under way, of the request written last and of   *)
(* the reply read last, at each point of Send and Recv; the connection of  *)
(* a call that has its reply is not one the reaper takes.                  *)
Numbers(t) ==
    /\ got[t] <= sent
    /\ pc[t] \in {"write", "try"} => sent < count
    /\ pc[t] \in {"set", "get", "read"} => sent = count /\ got[t] < sent
    /\ pc[t] = "idle" /\ ~readyToReq => sent = count /\ got[t] < sent
    /\ pc[t] = "finish" => /\ sent = count /\ got[t] = sent
                           /\ ~readyToReq /\ lastConn \notin closed
    /\ pc[t] = "abort" /\ ~readyToReq => got[t] < count

LEMMA OneCaller ==
    ASSUME NEW t, Threads = {t}
    PROVE  Caller = t
  BY DEF Caller

LEMMA Unseen ==
    ASSUME UNCHANGED <<readyToReq, count, sent, got>>
    PROVE  UNCHANGED AbstractCall!rpcVars
  BY DEF AbstractCall!rpcVars

LEMMA InitNumbers ==
    ASSUME NEW t, Threads = {t}
    PROVE  Init => Numbers(t) /\ AbstractCall!Init
  BY OneCaller DEF Init, Numbers, AbstractCall!Init

(* Send begins a call; writing its request to a stream transmits it, and   *)
(* the other steps of Send are not seen.                                   *)
LEMMA SendIsCall ==
    ASSUME NEW t, Threads = {t}, IInv, Numbers(t),
           \/ BeginRequest(t) \/ EnterWrite(t) \/ SendOk(t) \/ SendFails(t)
           \/ SetLastConn(t)
    PROVE  Numbers(t)' /\ [AbstractCall!Next]_(AbstractCall!rpcVars)
  <1> USE OneCaller DEF IInv, Types, TypeOK, Phase, Numbers, state, pool, wire,
              ids, local
  <1>0. count \in Nat /\ sent \in Nat /\ got[t] \in Nat /\ readyToReq \in BOOLEAN
    BY DEF RequestId
  <1>1. CASE BeginRequest(t)
    <2>1. AbstractCall!Begin
      BY <1>0, <1>1 DEF BeginRequest, MayBegin, AbstractCall!Begin
    <2>2. Numbers(t)'
      BY <1>0, <1>1 DEF BeginRequest, MayBegin
    <2>3. QED
      BY <2>1, <2>2 DEF AbstractCall!Next
  <1>2. CASE EnterWrite(t)
    BY <1>0, <1>2 DEF EnterWrite, AbstractCall!rpcVars
  <1>3. CASE SendOk(t)
    <2>1. /\ sent' = count /\ UNCHANGED <<readyToReq, count, got>>
          /\ pc[t] = "try" /\ pc' = [pc EXCEPT ![t] = "set"]
      BY <1>3 DEF SendOk
    <2>2. AbstractCall!Transmit
      BY <1>0, <2>1 DEF AbstractCall!Transmit
    <2>3. Numbers(t)'
      BY <1>0, <2>1
    <2>4. QED
      BY <2>2, <2>3 DEF AbstractCall!Next
  <1>4. CASE SendFails(t)
    BY <1>0, <1>4 DEF SendFails, AbstractCall!rpcVars
  <1>5. CASE SetLastConn(t)
    BY <1>0, <1>5 DEF SetLastConn, AbstractCall!rpcVars
  <1>6. QED
    BY <1>1, <1>2, <1>3, <1>4, <1>5

(* Recv reads the reply to the request of this call, and returns it; an    *)
(* error ends a call that has no reply.                                    *)
LEMMA RecvIsCall ==
    ASSUME NEW t, Threads = {t}, IInv, Numbers(t),
           \/ BeforeRecv(t) \/ GetLastConn(t) \/ ReadOk(t) \/ ReadFails(t)
           \/ FinishRequest(t) \/ AbortRequest(t)
    PROVE  Numbers(t)' /\ [AbstractCall!Next]_(AbstractCall!rpcVars)
  <1> USE OneCaller DEF IInv, Types, TypeOK, Phase, Numbers, state, pool, wire,
              ids, local
  <1>0. count \in Nat /\ sent \in Nat /\ got[t] \in Nat /\ readyToReq \in BOOLEAN
    BY DEF RequestId
  <1>1. CASE BeforeRecv(t)
    BY <1>0, <1>1 DEF BeforeRecv, AbstractCall!rpcVars
  <1>2. CASE GetLastConn(t)
    BY <1>0, <1>2 DEF GetLastConn, AbstractCall!rpcVars
  <1>3. CASE ReadOk(t)
    <2>1. /\ pc[t] = "read" /\ replies[at[t]] # <<>>
          /\ got' = [got EXCEPT ![t] = Head(replies[at[t]])]
          /\ pc' = [pc EXCEPT ![t] = "finish"]
          /\ UNCHANGED <<readyToReq, lastConn, closed, count, sent>>
      BY <1>3 DEF ReadOk
    <2>2. OnlyOn(lastConn) /\ at[t] = lastConn /\ ~readyToReq
      BY <2>1
    <2>3. replies[at[t]] = <<sent>> /\ lastConn \notin closed
      BY <2>1, <2>2 DEF OnlyOn
    <2>4. got'[t] = sent
      BY <2>1, <2>3, OneElement
    <2>5. AbstractCall!Receive
      BY <1>0, <2>1, <2>2, <2>4 DEF AbstractCall!Receive
    <2>6. Numbers(t)'
      BY <1>0, <2>1, <2>2, <2>3, <2>4
    <2>7. QED
      BY <2>5, <2>6 DEF AbstractCall!Next
  <1>4. CASE ReadFails(t)
    BY <1>0, <1>4 DEF ReadFails, AbstractCall!rpcVars
  <1>5. CASE FinishRequest(t)
    <2>1. AbstractCall!Return
      BY <1>0, <1>5 DEF FinishRequest, AbstractCall!Return
    <2>2. Numbers(t)'
      BY <1>0, <1>5 DEF FinishRequest
    <2>3. QED
      BY <2>1, <2>2 DEF AbstractCall!Next
  <1>6. CASE AbortRequest(t)
    <2>1. Numbers(t)'
      BY <1>0, <1>6 DEF AbortRequest
    <2>2. CASE readyToReq
      BY <1>6, <2>1, <2>2 DEF AbortRequest, AbstractCall!rpcVars
    <2>3. CASE ~readyToReq
      <3>1. AbstractCall!Fail
        BY <1>0, <1>6, <2>3 DEF AbortRequest, AbstractCall!Fail
      <3>2. QED
        BY <2>1, <3>1 DEF AbstractCall!Next
    <2>4. QED
      BY <2>2, <2>3
  <1>7. QED
    BY <1>1, <1>2, <1>3, <1>4, <1>5, <1>6

(* The reaper ends a call at most: one whose read has just failed, and     *)
(* whose Recv is about to return the error anyway.                         *)
LEMMA PeerIsUnseen ==
    ASSUME NEW t, Threads = {t}, IInv, Numbers(t), NEW c \in Conns,
           AddConn(c) \/ RmConn(c) \/ Answer(c) \/ Break(c)
    PROVE  Numbers(t)' /\ [AbstractCall!Next]_(AbstractCall!rpcVars)
  <1> USE OneCaller DEF IInv, Types, TypeOK, Numbers, state, pool, wire, ids,
              local
  <1>0. count \in Nat /\ sent \in Nat /\ got[t] \in Nat /\ readyToReq \in BOOLEAN
    BY DEF RequestId
  <1>1. CASE AddConn(c) \/ Answer(c) \/ Break(c)
    BY <1>1 DEF AddConn, Answer, Break, AbstractCall!rpcVars
  <1>2. CASE RmConn(c)
    <2>1. /\ c \in closed /\ UNCHANGED <<closed, pc, got, count, sent>>
          /\ readyToReq' = IF ResetApplies(c) THEN TRUE ELSE readyToReq
          /\ lastConn' = IF ResetApplies(c) THEN NoConn ELSE lastConn
      BY <1>2 DEF RmConn
    <2>2. CASE ResetApplies(c) /\ ~readyToReq
      <3>1. lastConn = c /\ c # NoConn
        BY <2>2, ReqAssumption DEF ResetApplies
      <3>2. pc[t] = "abort"
        BY <2>1, <2>2, <3>1 DEF Phase, OnlyOn
      <3>3. AbstractCall!Fail
        BY <1>0, <2>1, <2>2, <3>2 DEF AbstractCall!Fail
      <3>4. Numbers(t)'
        BY <2>1, <2>2, <3>2
      <3>5. QED
        BY <3>3, <3>4 DEF AbstractCall!Next
    <2>3. CASE ~(ResetApplies(c) /\ ~readyToReq)
      <3>1. UNCHANGED readyToReq
        BY <1>0, <2>1, <2>3
      <3>2. pc[t] = "finish" => ~readyToReq
        OBVIOUS
      <3>3. Numbers(t)'
        BY <2>1, <2>3, <3>1, <3>2
      <3>4. UNCHANGED AbstractCall!rpcVars
        BY <2>1, <3>1, Unseen
      <3>5. QED
        BY <3>3, <3>4
    <2>4. QED
      BY <2>2, <2>3
  <1>3. QED
    BY <1>1, <1>2

(* With one caller a REQ socket makes one remote call at a time: a request *)
(* is written once at most, whatever connections fail and are tried again; *)
(* the reply is that of the request, read once; and a call that has its    *)
(* reply cannot end as an error, also not by the reaper (req.go 34-87).    *)
THEOREM ReqImplementsRemoteCall ==
    ASSUME NEW t, Threads = {t}
    PROVE  Spec => ImplementsRemoteCall
  <1>1. Init => Numbers(t) /\ AbstractCall!Init
    BY InitNumbers
  <1>2. IInv /\ Numbers(t) /\ [Next]_vars
          => Numbers(t)' /\ [AbstractCall!Next]_(AbstractCall!rpcVars)
    <2> SUFFICES ASSUME IInv, Numbers(t), [Next]_vars
                 PROVE  Numbers(t)' /\ [AbstractCall!Next]_(AbstractCall!rpcVars)
      OBVIOUS
    <2>1. CASE UNCHANGED vars
      BY <2>1, OneCaller DEF vars, Numbers, AbstractCall!rpcVars
    <2>2. CASE Next
      BY <2>2, SendIsCall, RecvIsCall, PeerIsUnseen DEF Next, Call
    <2>3. QED
      BY <2>1, <2>2
  <1>3. Spec => []IInv
    BY SpecIInv
  <1>4. QED
    BY <1>1, <1>2, <1>3, PTL
       DEF Spec, ImplementsRemoteCall, AbstractCall!Spec

-----------------------------------------------------------------------------
(* A REP socket at the other end of the connections (module ReqRep), with  *)
(* one worker w.  A request that has no answer stands at one stage of that *)
(* socket at most, and nothing else does.                                  *)

OnStream(c) == stream[c] # <<>>
InHand(c) == hand[c] # <<>>
Queued(c) == \E i \in 1 .. Len(msgCh) : msgCh[i][1] = c
Taken(w, c) ==
    /\ job[w][1] = c
    /\ repPc[w] = "set" \/ (repPc[w] # "clear" /\ route # NoConn)
Leaving(c) == outbox # <<>> /\ Server!Target = c

OneStage(w, c) ==
    /\ OnStream(c) => ~InHand(c) /\ ~Queued(c) /\ ~Taken(w, c) /\ ~Leaving(c)
    /\ InHand(c) => ~Queued(c) /\ ~Taken(w, c) /\ ~Leaving(c)
    /\ Queued(c) => ~Taken(w, c) /\ ~Leaving(c)
    /\ Taken(w, c) => ~Leaving(c)
    /\ \A i, j \in 1 .. Len(msgCh) :
         msgCh[i][1] = c /\ msgCh[j][1] = c => i = j

(* What stands there is the request of c without an answer. *)
Matches(w, c) ==
    /\ OnStream(c) => stream[c] = requests[c]
    /\ InHand(c) => hand[c] = requests[c]
    /\ \A i \in 1 .. Len(msgCh) :
         msgCh[i][1] = c => requests[c] = <<msgCh[i][2]>>
    /\ Taken(w, c) => requests[c] = <<job[w][2]>>
    /\ Leaving(c) => outbox[1][2][1] = c /\ requests[c] = <<outbox[1][2][2]>>

Single == \A c \in Conns : requests[c] = <<>> \/ \E n \in RequestId : requests[c] = <<n>>

(* The route is that of the worker's request as long as it may be used. *)
Routed(w) ==
    /\ repPc[w] \in {"idle", "handover"} /\ route # NoConn => job[w][1] = route
    /\ repPc[w] = "handover" => route # NoConn /\ dest[w] = route

Envelope == Conns \X RequestId

ServerTypes ==
    /\ stream \in [Conns -> Seq(RequestId)]
    /\ hand \in [Conns -> Seq(RequestId)]
    /\ msgCh \in Seq(Envelope)
    /\ outbox \in Seq(Conns \X Envelope)
    /\ route \in Conns \union {NoConn}
    /\ repPc \in [Workers -> {"idle", "set", "handover", "clear"}]
    /\ dest \in [Workers -> Conns \union {NoConn}]
    /\ job \in [Workers -> Envelope \union {<<NoConn, 0>>}]

(* The inductive invariant of the two sockets. *)
SystemIInv(w) ==
    /\ IInv
    /\ ServerTypes
    /\ Single
    /\ Routed(w)
    /\ \A c \in Conns : OneStage(w, c) /\ Matches(w, c)

LEMMA InitSystem ==
    ASSUME NEW t, Threads = {t}, NEW w, Workers = {w}
    PROVE  SystemInit => SystemIInv(w)
  <1> SUFFICES ASSUME SystemInit PROVE SystemIInv(w)
    OBVIOUS
  <1>1. IInv
    BY InitIInv DEF SystemInit
  <1>2. /\ stream = [c \in Conns |-> <<>>]
        /\ requests = [c \in Conns |-> <<>>]
        /\ hand = [c \in Conns |-> <<>>]
        /\ msgCh = <<>> /\ outbox = <<>> /\ route = NoConn
        /\ repPc = [u \in Workers |-> "idle"]
        /\ dest = [u \in Workers |-> NoConn]
        /\ job = [u \in Workers |-> <<NoConn, 0>>]
    BY DEF SystemInit, Init, Client!Init, Server!Init, Server!NoRequest
  <1>3. ServerTypes /\ Single /\ Routed(w)
    BY <1>2 DEF ServerTypes, Single, Routed
  <1>4. ASSUME NEW c \in Conns PROVE OneStage(w, c) /\ Matches(w, c)
    BY <1>2, <1>4 DEF OneStage, Matches, OnStream, InHand, Queued, Taken, Leaving
  <1>5. QED
    BY <1>1, <1>3, <1>4 DEF SystemIInv

(* A step of the REQ end other than a successful Send is one of Req. *)
LEMMA ClientRefines ==
    ClientStep => Next /\ UNCHANGED <<requests, stream, repVars>>
  <1> USE DEF state, pool, wire, ids, local, Client!state, Client!pool,
              Client!wire, Client!ids, Client!local
  <1> SUFFICES ASSUME ClientStep PROVE Next /\ UNCHANGED <<requests, stream, repVars>>
    OBVIOUS
  <1>1. ASSUME NEW t \in Threads,
               \/ Client!BeginRequest(t) \/ Client!EnterWrite(t)
               \/ Client!SendFails(t) \/ Client!SetLastConn(t)
               \/ Client!BeforeRecv(t),
               UNCHANGED <<repVars, requests>>
        PROVE  /\ \/ BeginRequest(t) \/ EnterWrite(t) \/ SendFails(t)
                  \/ SetLastConn(t) \/ BeforeRecv(t)
               /\ UNCHANGED stream
    BY <1>1 DEF Client!BeginRequest, Client!EnterWrite, Client!SendFails,
                Client!SetLastConn, Client!BeforeRecv, Client!MayBegin,
                Client!Candidate, Client!Current,
                BeginRequest, EnterWrite, SendFails, SetLastConn, BeforeRecv,
                MayBegin, Candidate, Current
  <1>2. ASSUME NEW t \in Threads,
               \/ Client!GetLastConn(t) \/ Client!ReadOk(t)
               \/ Client!ReadFails(t) \/ Client!FinishRequest(t)
               \/ Client!AbortRequest(t),
               UNCHANGED <<repVars, requests>>
        PROVE  /\ \/ GetLastConn(t) \/ ReadOk(t) \/ ReadFails(t)
                  \/ FinishRequest(t) \/ AbortRequest(t)
               /\ UNCHANGED stream
    BY <1>2 DEF Client!GetLastConn, Client!ReadOk, Client!ReadFails,
                Client!FinishRequest, Client!AbortRequest, Client!MarkClosed,
                GetLastConn, ReadOk, ReadFails, FinishRequest, AbortRequest,
                MarkClosed
  <1>3. ASSUME NEW c \in Conns,
               Client!AddConn(c) \/ Client!RmConn(c) \/ Client!Break(c),
               UNCHANGED <<repVars, requests>>
        PROVE  /\ AddConn(c) \/ RmConn(c) \/ Break(c)
               /\ UNCHANGED stream
    BY <1>3 DEF Client!AddConn, Client!RmConn, Client!Break,
                Client!ResetApplies,
                AddConn, RmConn, Break, ResetApplies
  <1>4. QED
    BY <1>1, <1>2, <1>3 DEF ClientStep, Next, Call

(* A successful Send finds its connection without a request: the request   *)
(* it writes is the only one there.                                        *)
LEMMA SendRefines ==
    ASSUME NEW t, Threads = {t}, NEW w, Workers = {w}, SystemIInv(w), Send(t)
    PROVE  SendOk(t) /\ SystemIInv(w)'
  <1> DEFINE c == Candidate(t)
  <1>1. SendOk(t)
    BY DEF Send, SendOk, Client!SendOk, Client!Candidate, Client!Current,
           Candidate, Current, state, pool, wire, ids, local, Client!state
  <1>2. c \in Conns \ closed /\ count \in RequestId
    BY <1>1, CandidateType DEF SendOk, SystemIInv, IInv
  <1>3. requests[c] = <<>>
    <2>1. Clean
      BY <1>1 DEF SendOk, SystemIInv, IInv, Phase
    <2>2. QED
      BY <1>2, <2>1, ReqAssumption DEF Clean, CleanBut
  <1>4. /\ stream' = [stream EXCEPT ![c] = Append(@, count)]
        /\ requests' = [requests EXCEPT ![c] = Append(@, count)]
        /\ UNCHANGED repVars
    BY DEF Send, Client!SendOk, Client!Candidate, Client!Current, Candidate, Current
  <1>5. PICK d \in Conns : d = c
    BY <1>2
  <1>6. stream[d] = <<>>
    BY <1>3, <1>5 DEF SystemIInv, Matches, OnStream
  <1>7. /\ stream'[d] = <<count>> /\ requests'[d] = <<count>>
        /\ \A e \in Conns \ {d} : stream'[e] = stream[e] /\ requests'[e] = requests[e]
    <2>1. Append(stream[d], count) = <<count>> /\ Append(requests[d], count) = <<count>>
      BY <1>3, <1>5, <1>6, OneElement
    <2>2. QED
      BY <1>4, <1>5, <2>1 DEF SystemIInv, ServerTypes, IInv, Types
  <1>8. stream' \in [Conns -> Seq(RequestId)]
    BY <1>2, <1>4, <1>5, QueueTypes DEF SystemIInv, ServerTypes
  <1>9. ServerTypes' /\ Routed(w)'
    BY <1>4, <1>8 DEF repVars, SystemIInv, ServerTypes, Routed
  <1>10. Single'
    BY <1>2, <1>7 DEF SystemIInv, Single
  <1>11. ~InHand(d) /\ ~Queued(d) /\ ~Taken(w, d) /\ ~Leaving(d)
    BY <1>3, <1>5 DEF SystemIInv, Matches, InHand, Queued
  <1>12. ASSUME NEW e \in Conns PROVE OneStage(w, e)' /\ Matches(w, e)'
    <2>1. /\ InHand(e)' = InHand(e) /\ Queued(e)' = Queued(e)
          /\ Taken(w, e)' = Taken(w, e) /\ Leaving(e)' = Leaving(e)
      BY <1>4 DEF repVars, InHand, Queued, Taken, Leaving, Server!Target
    <2>2. CASE e = d
      BY <1>4, <1>7, <1>11, <2>1, <2>2
         DEF repVars, SystemIInv, OneStage, Matches, Queued, OnStream
    <2>3. CASE e # d
      <3>1. OnStream(e)' = OnStream(e) /\ requests'[e] = requests[e] /\ stream'[e] = stream[e]
        BY <1>7, <2>3 DEF OnStream
      <3>2. QED
        BY <1>4, <2>1, <3>1 DEF repVars, SystemIInv, OneStage, Matches
    <2>4. QED
      BY <2>2, <2>3
  <1>13. IInv'
    BY <1>1, IInvStep DEF SystemIInv, Next, Call
  <1>14. QED
    BY <1>1, <1>9, <1>10, <1>12, <1>13 DEF SystemIInv

(* What is left to show of a step that neither sends nor answers. *)
LEMMA ServerKeeps ==
    ASSUME NEW t, Threads = {t}, NEW w, SystemIInv(w), [Next]_vars,
           UNCHANGED requests,
           ServerTypes', Routed(w)',
           \A c \in Conns : OneStage(w, c)' /\ Matches(w, c)'
    PROVE  SystemIInv(w)'
  <1>1. IInv' /\ Single'
    BY IInvStep DEF SystemIInv, Single
  <1>2. QED
    BY <1>1 DEF SystemIInv

LEMMA ServerRests ==
    ASSUME NEW t, Threads = {t}, NEW w, SystemIInv(w), [Next]_vars,
           UNCHANGED <<requests, stream, hand, msgCh, outbox, route, repPc, dest, job>>
    PROVE  SystemIInv(w)'
  <1>1. ServerTypes' /\ Routed(w)'
    BY DEF SystemIInv, ServerTypes, Routed
  <1>2. ASSUME NEW e \in Conns PROVE OneStage(w, e)' /\ Matches(w, e)'
    <2>1. /\ OnStream(e)' = OnStream(e) /\ InHand(e)' = InHand(e)
          /\ Queued(e)' = Queued(e) /\ Taken(w, e)' = Taken(w, e)
          /\ Leaving(e)' = Leaving(e)
      BY DEF OnStream, InHand, Queued, Taken, Leaving, Server!Target
    <2>2. QED
      BY <2>1 DEF SystemIInv, OneStage, Matches
  <1>3. QED
    BY <1>1, <1>2, ServerKeeps

(* The readers of the REP end hand a request on. *)
LEMMA ListenKeeps ==
    ASSUME NEW t, Threads = {t}, NEW w, Workers = {w}, SystemIInv(w), UNCHANGED vars,
           NEW c \in Conns, Server!ListenStep(c)
    PROVE  SystemIInv(w)'
  <1> USE DEF Server!peerVars, Server!readVars, Server!poolVars, Server!writeVars,
              Server!errorVars, Server!workerVars
  <1>0. UNCHANGED requests
    BY DEF vars
  <1>1. CASE Server!Read(c)
    <2>1. PICK n \in RequestId : requests[c] = <<n>> /\ stream[c] = <<n>>
      BY <1>1 DEF Server!Read, SystemIInv, Matches, OnStream, Single
    <2>2. Tail(stream[c]) = <<>> /\ Head(stream[c]) = n
      BY <2>1, OneElement
    <2>3. /\ stream' = [stream EXCEPT ![c] = <<>>]
          /\ \/ hand' = hand
             \/ hand' = [hand EXCEPT ![c] = <<n>>]
          /\ UNCHANGED <<msgCh, outbox, route, repPc, dest, job>>
      BY <1>1, <2>2 DEF Server!Read
    <2>4. <<n>> \in Seq(RequestId) /\ <<>> \in Seq(RequestId)
      OBVIOUS
    <2>5. ServerTypes' /\ Routed(w)'
      BY <2>3, <2>4 DEF SystemIInv, ServerTypes, Routed
    <2>6. ASSUME NEW e \in Conns PROVE OneStage(w, e)' /\ Matches(w, e)'
      <3>1. /\ Queued(e)' = Queued(e) /\ Taken(w, e)' = Taken(w, e)
            /\ Leaving(e)' = Leaving(e)
        BY <2>3 DEF Queued, Taken, Leaving, Server!Target
      <3>2. CASE e = c
        <4>1. stream'[c] = <<>> /\ hand'[c] \in {hand[c], <<n>>}
          BY <2>3 DEF SystemIInv, ServerTypes
        <4>2. hand[c] = <<>> /\ ~Queued(c) /\ ~Taken(w, c) /\ ~Leaving(c)
          BY <2>1, OneElement DEF SystemIInv, OneStage, OnStream, InHand
        <4>3. QED
          BY <1>0, <2>1, <2>3, <3>1, <3>2, <4>1, <4>2
             DEF SystemIInv, OneStage, Matches, OnStream, InHand, Queued
      <3>3. CASE e # c
        <4>1. stream'[e] = stream[e] /\ hand'[e] = hand[e]
          BY <2>3, <3>3 DEF SystemIInv, ServerTypes
        <4>2. OnStream(e)' = OnStream(e) /\ InHand(e)' = InHand(e)
          BY <4>1 DEF OnStream, InHand
        <4>3. QED
          BY <1>0, <2>3, <3>1, <4>1, <4>2 DEF SystemIInv, OneStage, Matches
      <3>4. QED
        BY <3>2, <3>3
    <2>7. QED
      BY <1>0, <2>5, <2>6, ServerKeeps
  <1>2. CASE Server!ReadFails(c)
    <2>1. UNCHANGED <<stream, hand, msgCh, outbox, route, repPc, dest, job>>
      BY <1>2 DEF Server!ReadFails
    <2>2. QED
      BY <1>0, <2>1, ServerRests
  <1>3. CASE Server!Enqueue(c)
    <2>1. PICK n \in RequestId : requests[c] = <<n>> /\ hand[c] = <<n>>
      BY <1>3 DEF Server!Enqueue, SystemIInv, Matches, InHand, Single
    <2>2. /\ msgCh' = Append(msgCh, <<c, n>>)
          /\ hand' = [hand EXCEPT ![c] = <<>>]
          /\ UNCHANGED <<stream, outbox, route, repPc, dest, job>>
      BY <1>3, <2>1, OneElement DEF Server!Enqueue
    <2>3. /\ msgCh \in Seq(Envelope) /\ <<c, n>> \in Envelope
          /\ <<>> \in Seq(RequestId)
      BY DEF SystemIInv, ServerTypes, Envelope
    <2>4. /\ msgCh' \in Seq(Envelope)
          /\ Len(msgCh) \in Nat /\ Len(msgCh') = Len(msgCh) + 1
          /\ msgCh'[Len(msgCh) + 1] = <<c, n>>
          /\ \A i \in 1 .. Len(msgCh) : msgCh'[i] = msgCh[i]
      BY <2>2, <2>3
    <2>5. ServerTypes' /\ Routed(w)'
      BY <2>2, <2>3, <2>4 DEF SystemIInv, ServerTypes, Routed
    <2>6. ASSUME NEW e \in Conns PROVE OneStage(w, e)' /\ Matches(w, e)'
      <3>1. /\ OnStream(e)' = OnStream(e) /\ Taken(w, e)' = Taken(w, e)
            /\ Leaving(e)' = Leaving(e)
        BY <2>2 DEF OnStream, Taken, Leaving, Server!Target
      <3>2. CASE e = c
        <4>1. hand'[c] = <<>> /\ hand[c] # <<>>
          BY <2>1, <2>2, OneElement DEF SystemIInv, ServerTypes
        <4>2. ~OnStream(c) /\ ~Queued(c) /\ ~Taken(w, c) /\ ~Leaving(c)
          BY <4>1 DEF SystemIInv, OneStage, InHand
        <4>3. \A i \in 1 .. Len(msgCh') : msgCh'[i][1] = c => i = Len(msgCh) + 1
          BY <2>4, <4>2 DEF Queued
        <4>4. QED
          BY <1>0, <2>1, <2>4, <3>1, <3>2, <4>1, <4>2, <4>3
             DEF OneStage, Matches, InHand
      <3>3. CASE e # c
        <4>1. hand'[e] = hand[e]
          BY <2>2, <3>3 DEF SystemIInv, ServerTypes
        <4>2. \A i \in 1 .. Len(msgCh') : msgCh'[i][1] = e =>
                 i \in 1 .. Len(msgCh) /\ msgCh'[i] = msgCh[i]
          BY <2>4, <3>3
        <4>3. Queued(e)' => Queued(e)
          BY <4>2 DEF Queued
        <4>4. InHand(e)' = InHand(e)
          BY <4>1 DEF InHand
        <4>5. OneStage(w, e)'
          BY <3>1, <4>2, <4>3, <4>4 DEF SystemIInv, OneStage
        <4>6. Matches(w, e)'
          BY <1>0, <2>2, <3>1, <4>1, <4>2, <4>4 DEF SystemIInv, Matches
        <4>7. QED
          BY <4>5, <4>6
      <3>4. QED
        BY <3>2, <3>3
    <2>7. QED
      BY <1>0, <2>5, <2>6, ServerKeeps
  <1>4. QED
    BY <1>1, <1>2, <1>3 DEF Server!ListenStep

(* Recv takes the request over and Send hands its reply over. *)
LEMMA WorkerKeeps ==
    ASSUME NEW t, Threads = {t}, NEW w, Workers = {w}, SystemIInv(w), UNCHANGED vars,
           \/ Server!TakeRequest(w) \/ Server!SetRoute(w) \/ Server!GetRoute(w)
           \/ Server!SendStep(w)
    PROVE  SystemIInv(w)'
  <1> USE DEF Server!peerVars, Server!readVars, Server!poolVars, Server!writeVars,
              Server!errorVars, Server!workerVars
  <1>0. UNCHANGED requests
    BY DEF vars
  <1>1. CASE Server!TakeRequest(w)
    <2>1. /\ msgCh # <<>> /\ msgCh' = Tail(msgCh) /\ repPc[w] = "idle"
          /\ UNCHANGED <<stream, hand, outbox, route, dest>>
      BY <1>1 DEF Server!TakeRequest
    <2>2. PICK d \in Conns, n \in RequestId : Head(msgCh) = <<d, n>>
      BY <2>1, SMTT(30) DEF SystemIInv, ServerTypes, Envelope
    <2>3. /\ repPc' = [repPc EXCEPT ![w] = "set"]
          /\ job' = [job EXCEPT ![w] = <<d, n>>]
      <3>1. n # 0 /\ Head(msgCh)[2] = n
        BY <2>2, ReqAssumption DEF RequestId
      <3>2. QED
        BY <1>1, <2>2, <3>1 DEF Server!TakeRequest
    <2>4. /\ msgCh' \in Seq(Envelope)
          /\ Len(msgCh) \in Nat \ {0} /\ Len(msgCh') = Len(msgCh) - 1
          /\ msgCh[1] = <<d, n>>
          /\ \A i \in 1 .. Len(msgCh') : msgCh'[i] = msgCh[i + 1]
      BY <2>1, <2>2 DEF SystemIInv, ServerTypes
    <2>5. repPc'[w] = "set" /\ job'[w] = <<d, n>>
      BY <2>3 DEF SystemIInv, ServerTypes
    <2>6. ServerTypes' /\ Routed(w)'
      BY <2>1, <2>3, <2>4, <2>5 DEF SystemIInv, ServerTypes, Routed, Envelope
    <2>7. requests[d] = <<n>>
      BY <2>4 DEF SystemIInv, Matches
    <2>8. ASSUME NEW e \in Conns PROVE OneStage(w, e)' /\ Matches(w, e)'
      <3>1. /\ OnStream(e)' = OnStream(e) /\ InHand(e)' = InHand(e)
            /\ Leaving(e)' = Leaving(e)
        BY <2>1 DEF OnStream, InHand, Leaving, Server!Target
      <3>2. Taken(w, e)' <=> e = d
        BY <2>5 DEF Taken
      <3>3. \A i \in 1 .. Len(msgCh') : i + 1 \in 1 .. Len(msgCh)
        BY <2>4
      <3>4. Queued(e)' => Queued(e)
        BY <2>4, <3>3 DEF Queued
      <3>5. \A i, j \in 1 .. Len(msgCh') :
               msgCh'[i][1] = e /\ msgCh'[j][1] = e => i = j
        <4>1. ASSUME NEW i \in 1 .. Len(msgCh'), NEW j \in 1 .. Len(msgCh'),
                     msgCh'[i][1] = e, msgCh'[j][1] = e
              PROVE  i = j
          <5>1. i + 1 \in 1 .. Len(msgCh) /\ j + 1 \in 1 .. Len(msgCh)
            BY <3>3
          <5>2. msgCh[i + 1][1] = e /\ msgCh[j + 1][1] = e
            BY <2>4, <4>1
          <5>3. i + 1 = j + 1
            BY <5>1, <5>2 DEF SystemIInv, OneStage
          <5>4. QED
            BY <5>3
        <4>2. QED
          BY <4>1
      <3>6. \A i \in 1 .. Len(msgCh') :
               msgCh'[i][1] = e => requests[e] = <<msgCh'[i][2]>>
        BY <2>4, <3>3, SMTT(30) DEF SystemIInv, Matches
      <3>7. Matches(w, e)'
        BY <1>0, <2>1, <2>5, <2>7, <3>1, <3>2, <3>6 DEF SystemIInv, Matches
      <3>8. CASE e = d
        <4>1. Queued(d)
          BY <2>4 DEF Queued
        <4>2. ~OnStream(d) /\ ~InHand(d) /\ ~Leaving(d)
          BY <4>1 DEF SystemIInv, OneStage
        <4>3. ~Queued(d)'
          <5>1. ASSUME NEW i \in 1 .. Len(msgCh'), msgCh'[i][1] = d
                PROVE  FALSE
            <6>1. i + 1 \in 1 .. Len(msgCh) /\ 1 \in 1 .. Len(msgCh)
              BY <2>4, <3>3
            <6>2. msgCh[i + 1][1] = d /\ msgCh[1][1] = d
              BY <2>4, <5>1
            <6>3. i + 1 = 1
              BY <6>1, <6>2 DEF SystemIInv, OneStage
            <6>4. QED
              BY <6>3
          <5>2. QED
            BY <5>1 DEF Queued
        <4>4. QED
          BY <3>1, <3>5, <3>7, <3>8, <4>2, <4>3 DEF OneStage
      <3>9. CASE e # d
        BY <3>1, <3>2, <3>4, <3>5, <3>7, <3>9 DEF SystemIInv, OneStage
      <3>10. QED
        BY <3>8, <3>9
    <2>9. QED
      BY <1>0, <2>6, <2>8, ServerKeeps
  <1>2. CASE \/ Server!SetRoute(w) \/ Server!GetRoute(w) \/ Server!GiveUp(w)
             \/ Server!ClearRoute(w)
    <2>1. UNCHANGED <<stream, hand, msgCh, outbox, job>>
      BY <1>2 DEF Server!SetRoute, Server!GetRoute, Server!GiveUp, Server!ClearRoute
    <2>2. ServerTypes' /\ Routed(w)'
      BY <1>2, <2>1, ReqAssumption
         DEF Server!SetRoute, Server!RouteOf, Server!GetRoute, Server!GiveUp,
             Server!ClearRoute, Server!RouteCleared, SystemIInv, ServerTypes,
             Routed, Envelope
    <2>3. ASSUME NEW e \in Conns PROVE Taken(w, e)' => Taken(w, e)
      BY <1>2, <2>1, ReqAssumption
         DEF Server!SetRoute, Server!RouteOf, Server!GetRoute, Server!GiveUp,
             Server!ClearRoute, Server!RouteCleared, SystemIInv, ServerTypes, Taken
    <2>4. ASSUME NEW e \in Conns PROVE OneStage(w, e)' /\ Matches(w, e)'
      <3>1. /\ OnStream(e)' = OnStream(e) /\ InHand(e)' = InHand(e)
            /\ Queued(e)' = Queued(e) /\ Leaving(e)' = Leaving(e)
        BY <2>1 DEF OnStream, InHand, Queued, Leaving, Server!Target
      <3>2. QED
        BY <1>0, <2>1, <2>3, <3>1 DEF SystemIInv, OneStage, Matches
    <2>5. QED
      BY <1>0, <2>2, <2>4, ServerKeeps
  <1>3. CASE Server!HandOver(w)
    <2>1. /\ repPc[w] = "handover" /\ outbox = <<>>
          /\ outbox' = <<<<dest[w], job[w]>>>>
          /\ repPc' = [repPc EXCEPT ![w] = "clear"]
          /\ UNCHANGED <<stream, hand, msgCh, route, dest, job>>
      BY <1>3 DEF Server!HandOver
    <2>2. PICK d \in Conns, n \in RequestId : job[w] = <<d, n>> /\ dest[w] = d
      BY <2>1, ReqAssumption DEF SystemIInv, Routed, ServerTypes, Envelope
    <2>3. repPc'[w] = "clear" /\ outbox' = <<<<d, <<d, n>>>>>>
      BY <2>1, <2>2 DEF SystemIInv, ServerTypes
    <2>4. outbox' # <<>> /\ outbox'[1] = <<d, <<d, n>>>>
      BY <2>3
    <2>5. ServerTypes' /\ Routed(w)'
      BY <2>1, <2>2, <2>3 DEF SystemIInv, ServerTypes, Routed, Envelope
    <2>6. Taken(w, d)
      BY <2>1, <2>2 DEF SystemIInv, Routed, Taken
    <2>7. ASSUME NEW e \in Conns PROVE OneStage(w, e)' /\ Matches(w, e)'
      <3>1. /\ OnStream(e)' = OnStream(e) /\ InHand(e)' = InHand(e)
            /\ Queued(e)' = Queued(e)
        BY <2>1 DEF OnStream, InHand, Queued
      <3>2. ~Taken(w, e)' /\ ~Leaving(e)
        BY <2>1, <2>3 DEF Taken, Leaving
      <3>3. Leaving(e)' <=> e = d
        BY <2>4 DEF Leaving, Server!Target
      <3>4. requests[d] = <<n>>
        BY <2>2, <2>6 DEF SystemIInv, Matches
      <3>5. Matches(w, e)'
        BY <1>0, <2>1, <2>4, <3>1, <3>2, <3>3, <3>4 DEF SystemIInv, Matches
      <3>6. OneStage(w, e)'
        BY <2>1, <2>6, <3>1, <3>2, <3>3 DEF SystemIInv, OneStage
      <3>7. QED
        BY <3>5, <3>6
    <2>8. QED
      BY <1>0, <2>5, <2>7, ServerKeeps
  <1>4. QED
    BY <1>1, <1>2, <1>3 DEF Server!SendStep

(* The goroutine run loses a reply, and connections come and go. *)
LEMMA OutboxEmptied ==
    ASSUME NEW w, SystemIInv(w), NEW c \in Conns, UNCHANGED requests,
           outbox' = <<>>, UNCHANGED <<stream, hand, msgCh, route, repPc, dest, job>>
    PROVE  OneStage(w, c)' /\ Matches(w, c)'
  <1>1. /\ OnStream(c)' = OnStream(c) /\ InHand(c)' = InHand(c)
        /\ Queued(c)' = Queued(c) /\ Taken(w, c)' = Taken(w, c)
        /\ ~Leaving(c)'
    BY DEF OnStream, InHand, Queued, Taken, Leaving
  <1>2. QED
    BY <1>1 DEF SystemIInv, OneStage, Matches

LEMMA ServerStepKeeps ==
    ASSUME NEW t, Threads = {t}, NEW w, Workers = {w}, SystemIInv(w), ServerStep
    PROVE  UNCHANGED vars /\ SystemIInv(w)'
  <1> USE DEF Server!peerVars, Server!readVars, Server!poolVars, Server!writeVars,
              Server!errorVars, Server!workerVars
  <1>0. UNCHANGED vars /\ UNCHANGED requests
    BY DEF ServerStep, vars
  <1>1. CASE \E c \in Conns : Server!ListenStep(c)
    BY <1>0, <1>1, ListenKeeps
  <1>2. CASE \E u \in Workers : \/ Server!TakeRequest(u) \/ Server!SetRoute(u)
                                \/ Server!GetRoute(u) \/ Server!SendStep(u)
    BY <1>0, <1>2, WorkerKeeps
  <1>3. CASE Server!WriteFails \/ Server!DropReply
    <2>1. outbox' = <<>> /\ UNCHANGED <<stream, hand, msgCh, route, repPc, dest, job>>
      BY <1>3 DEF Server!WriteFails, Server!DropReply
    <2>2. <<>> \in Seq(Conns \X Envelope) /\ UNCHANGED requests
      BY <1>0 DEF vars
    <2>3. ServerTypes' /\ Routed(w)'
      BY <2>1, <2>2 DEF SystemIInv, ServerTypes, Routed
    <2>4. QED
      BY <1>0, <2>1, <2>2, <2>3, OutboxEmptied, ServerKeeps
  <1>4. CASE \/ \E c \in Conns : Server!AddConn(c) \/ Server!RmConn(c) \/ Server!Break(c)
             \/ Server!RunStops \/ Server!Close
    <2>1. UNCHANGED <<stream, hand, msgCh, outbox, route, repPc, dest, job>>
      BY <1>4 DEF Server!AddConn, Server!RmConn, Server!Break, Server!RunStops,
                  Server!Close
    <2>2. QED
      BY <1>0, <2>1, ServerRests
  <1>5. QED
    BY <1>0, <1>1, <1>2, <1>3, <1>4 DEF ServerStep

(* A reply that reaches the REQ end is the answer of Req's abstract peer:  *)
(* the only request of its connection, and nothing of it is left behind.   *)
LEMMA ReplyRefines ==
    ASSUME NEW t, Threads = {t}, NEW w, Workers = {w}, SystemIInv(w), Reply
    PROVE  [Next]_vars /\ SystemIInv(w)'
  <1> DEFINE c == Server!Target
             n == outbox[1][2][2]
  <1>1. /\ outbox # <<>> /\ outbox' = <<>>
        /\ UNCHANGED <<stream, hand, msgCh, route, repPc, dest, job>>
    BY DEF Reply, Server!WriteReply, Server!peerVars, Server!readVars,
           Server!workerVars
  <1>2. PICK d \in Conns, m \in RequestId :
          d = c /\ m = n /\ requests[d] = <<m>> /\ Leaving(d)
    <2>1. Len(outbox) # 0 /\ outbox[1] \in Conns \X Envelope
      BY <1>1 DEF SystemIInv, ServerTypes
    <2>2. c \in Conns /\ n \in RequestId
      BY <2>1 DEF Server!Target, Envelope
    <2>3. Leaving(c)
      BY <1>1 DEF Leaving
    <2>4. requests[c] = <<n>>
      BY <2>2, <2>3 DEF SystemIInv, Matches
    <2>5. QED
      BY <2>2, <2>3, <2>4
  <1>3. <<>> \in Seq(Conns \X Envelope)
    OBVIOUS
  <1>4. ServerTypes' /\ Routed(w)'
    BY <1>1, <1>3 DEF SystemIInv, ServerTypes, Routed
  <1>5. CASE UNCHANGED <<replies, requests>>
    <2>1. UNCHANGED vars
      BY <1>5 DEF Reply, vars, state, pool, local, ids
    <2>2. QED
      BY <1>1, <1>4, <1>5, <2>1, OutboxEmptied, ServerKeeps
  <1>6. CASE /\ d \notin broken
             /\ replies' = [replies EXCEPT ![d] = Append(@, m)]
             /\ requests' = [requests EXCEPT ![d] =
                               IF @ # <<>> /\ Head(@) = m THEN Tail(@) ELSE @]
    <2>1. Head(requests[d]) = m /\ Tail(requests[d]) = <<>> /\ requests[d] # <<>>
      BY <1>2, OneElement
    <2>2. /\ requests' = [requests EXCEPT ![d] = Tail(@)]
          /\ replies' = [replies EXCEPT ![d] = Append(@, Head(requests[d]))]
      BY <1>6, <2>1
    <2>3. Answer(d)
      BY <1>6, <2>1, <2>2 DEF Reply, Answer
    <2>4. IInv'
      BY <2>3, IInvStep DEF SystemIInv, Next
    <2>5. /\ requests'[d] = <<>>
          /\ \A e \in Conns \ {d} : requests'[e] = requests[e]
      BY <2>1, <2>2 DEF SystemIInv, IInv, Types
    <2>6. Single'
      BY <2>5 DEF SystemIInv, Single
    <2>7. ASSUME NEW e \in Conns PROVE OneStage(w, e)' /\ Matches(w, e)'
      <3>1. /\ OnStream(e)' = OnStream(e) /\ InHand(e)' = InHand(e)
            /\ Queued(e)' = Queued(e) /\ Taken(w, e)' = Taken(w, e)
            /\ ~Leaving(e)'
        BY <1>1 DEF OnStream, InHand, Queued, Taken, Leaving
      <3>2. OneStage(w, e)'
        BY <1>1, <3>1 DEF SystemIInv, OneStage
      <3>3. CASE e = d
        <4>1. ~OnStream(d) /\ ~InHand(d) /\ ~Queued(d) /\ ~Taken(w, d)
          BY <1>2 DEF SystemIInv, OneStage
        <4>2. QED
          BY <1>1, <3>1, <3>2, <3>3, <4>1 DEF Matches, Queued
      <3>4. CASE e # d
        BY <1>1, <2>5, <3>1, <3>2, <3>4 DEF SystemIInv, Matches
      <3>5. QED
        BY <3>3, <3>4
    <2>8. QED
      BY <1>4, <2>3, <2>4, <2>6, <2>7 DEF SystemIInv, Next
  <1>7. QED
    BY <1>2, <1>5, <1>6 DEF Reply

LEMMA SystemStep ==
    ASSUME NEW t, Threads = {t}, NEW w, Workers = {w}
    PROVE  SystemIInv(w) /\ [SystemNext]_systemVars
             => [Next]_vars /\ SystemIInv(w)'
  <1> SUFFICES ASSUME SystemIInv(w), [SystemNext]_systemVars
               PROVE  [Next]_vars /\ SystemIInv(w)'
    OBVIOUS
  <1>1. CASE ClientStep
    BY <1>1, ClientRefines, ServerRests DEF repVars
  <1>2. CASE ServerStep
    BY <1>2, ServerStepKeeps
  <1>3. CASE Reply
    BY <1>3, ReplyRefines
  <1>4. CASE \E u \in Threads : Send(u)
    BY <1>4, SendRefines DEF Next, Call
  <1>5. CASE UNCHANGED systemVars
    BY <1>5, ServerRests DEF systemVars, repVars, vars
  <1>6. QED
    BY <1>1, <1>2, <1>3, <1>4, <1>5 DEF SystemNext

(* A REQ and a REP socket, with one caller and one worker, implement the   *)
(* specification of REQ with its abstract peer, for any connections, queue *)
(* size and failures at either end: REP answers a request once at most, on *)
(* its own stream and with its own reply (rep.go 13-14).                   *)
THEOREM SystemImplementsReq ==
    ASSUME NEW t, Threads = {t}, NEW w, Workers = {w}
    PROVE  SystemSpec => ImplementsReq
  <1>1. SystemInit => Init /\ SystemIInv(w)
    BY InitSystem DEF SystemInit
  <1>2. SystemIInv(w) /\ [SystemNext]_systemVars
          => [Next]_vars /\ SystemIInv(w)'
    BY SystemStep
  <1>3. QED
    BY <1>1, <1>2, PTL DEF SystemSpec, ImplementsReq, Spec

(* End to end: what Recv of REQ returns through a real REP is the reply to  *)
(* the request sent last, although REP may give a reply up, drop it or send *)
(* it late, and either end may lose the stream (req.go 66, rep.go 13-14).  *)
THEOREM SystemReplyMatches ==
    ASSUME NEW t, Threads = {t}, NEW w, Workers = {w}
    PROVE  SystemSpec => []ReplyMatchesRequest
  <1>1. SystemSpec => ImplementsReq
    BY SystemImplementsReq
  <1>2. Spec => []ReplyMatchesRequest
    BY ReqReplyMatches
  <1>3. QED
    BY <1>1, <1>2, PTL DEF ImplementsReq

(* End to end: a REQ and a REP socket make one remote call at a time: the  *)
(* call is answered by the answer to its own request, read once, or fails, *)
(* whichever end loses a stream, a request or a reply (req.go, rep.go).    *)
THEOREM SystemImplementsRemoteCall ==
    ASSUME NEW t, Threads = {t}, NEW w, Workers = {w}
    PROVE  SystemSpec => ImplementsRemoteCall
  <1>1. SystemSpec => ImplementsReq
    BY SystemImplementsReq
  <1>2. Spec => ImplementsRemoteCall
    BY ReqImplementsRemoteCall
  <1>3. QED
    BY <1>1, <1>2, PTL DEF ImplementsReq

=============================================================================
