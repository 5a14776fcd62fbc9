------------------------- MODULE SubscriptionProofs -------------------------
(***************************************************************************)
(* The publisher's topics do not drift from the socket's, for one caller   *)
(* of SetOption and any topics, connections, room in the publisher's       *)
(* channel and number of calls.                                            *)
(***************************************************************************)
EXTENDS Subscription, TLAPS

Frame == Command \union {Data}

(* What a publisher will have for k after reading w, if it has T now. *)
About(w, k) == {i \in 1 .. Len(w) : w[i] \in {0, 1} \X {k}}
Ends(w, T, k) ==
    IF About(w, k) = {}
    THEN k \in T
    ELSE \E i \in About(w, k) : w[i][1] = 1 /\ \A j \in About(w, k) : j <= i

(* SetOption has one command to send at most, and it is the change made.   *)
PendingIsCurrent ==
    \A t \in Setters : \A cmd \in pending[t] :
        /\ pending[t] = {cmd}
        /\ cmd[2] \in subs <=> cmd[1] = 1

(* A connection not yet added has carried nothing. *)
FreshIsEmpty ==
    \A c \in Conns \ (conns \union broken) : wire[c] = <<>> /\ topics[c] = {}

(* Topics are replayed only on a connection that was registered, and while *)
(* one is left no command is sent; so a topic that is replayed although it *)
(* was unsubscribed meanwhile is followed by the command.                  *)
ReplayCovered ==
    /\ adding # NoConn => adding \in conns
    /\ adding = NoConn => todo = {}
    /\ \A k \in todo : \/ k \in subs
                       \/ \E t \in Setters : \E cmd \in pending[t] : cmd[2] = k

Types == TypeOK /\ pending \in [Setters -> SUBSET Command]

IInv == Types /\ PendingIsCurrent /\ FreshIsEmpty /\ ReplayCovered /\ NoDrift

-----------------------------------------------------------------------------
LEMMA WillHaveIsEnds ==
    ASSUME NEW c, NEW k PROVE WillHave(c, k) <=> Ends(wire[c], topics[c], k)
  BY DEF WillHave, Ends, About

(* The last command about a topic decides, *)
LEMMA AppendSame ==
    ASSUME NEW w \in Seq(Frame), NEW T, NEW k \in Topics, NEW v \in {0, 1}
    PROVE  Ends(Append(w, <<v, k>>), T, k) <=> v = 1
  <1> DEFINE x == Append(w, <<v, k>>)
             n == Len(w) + 1
  <1>1. Len(x) = n /\ x[n] = <<v, k>> /\ n \in Nat
    OBVIOUS
  <1>2. n \in About(x, k) /\ \A j \in About(x, k) : j <= n
    BY <1>1 DEF About
  <1>3. \A i \in About(x, k) : (\A j \in About(x, k) : j <= i) => i = n
    BY <1>1, <1>2 DEF About
  <1> HIDE DEF x, n
  <1>4. x[n][1] = v
    BY <1>1
  <1>5. QED
    BY <1>2, <1>3, <1>4 DEF Ends, x

(* and another message makes no difference. *)
LEMMA AppendOther ==
    ASSUME NEW w \in Seq(Frame), NEW T, NEW k, NEW m \in Frame,
           m \notin {0, 1} \X {k}
    PROVE  Ends(Append(w, m), T, k) <=> Ends(w, T, k)
  <1> DEFINE x == Append(w, m)
  <1>1. /\ Len(x) = Len(w) + 1 /\ Len(w) \in Nat
        /\ x[Len(w) + 1] = m
        /\ \A i \in 1 .. Len(w) : x[i] = w[i]
    OBVIOUS
  <1> HIDE DEF x
  <1>2. About(x, k) = About(w, k)
    BY <1>1 DEF About
  <1>3. \A i \in About(w, k) : x[i] = w[i]
    BY <1>1 DEF About
  <1>4. QED
    BY <1>2, <1>3 DEF Ends, x

(* A publisher that applies the first message of w, leaving the rest. *)
Applied(m, T) == IF m = Data THEN T ELSE Apply(m, T)

LEMMA TailKeeps ==
    ASSUME NEW w \in Seq(Frame), w # <<>>, NEW T, NEW U, NEW k,
           Head(w) \in {0, 1} \X {k} => (k \in U <=> Head(w)[1] = 1),
           Head(w) \notin {0, 1} \X {k} => (k \in U <=> k \in T)
    PROVE  Ends(Tail(w), U, k) <=> Ends(w, T, k)
  <1> DEFINE x == Tail(w)
  <1>1. /\ Len(w) \in Nat \ {0} /\ Len(x) = Len(w) - 1
        /\ w[1] = Head(w)
        /\ \A i \in 1 .. Len(x) : x[i] = w[i + 1]
    OBVIOUS
  <1> HIDE DEF x
  <1>2. \A i \in About(x, k) : i + 1 \in About(w, k) /\ x[i] = w[i + 1]
    BY <1>1 DEF About
  <1>3. \A i \in About(w, k) :
          i = 1 \/ (i - 1 \in About(x, k) /\ x[i - 1] = w[i])
    BY <1>1 DEF About
  <1>4. 1 \in About(w, k) <=> Head(w) \in {0, 1} \X {k}
    <2>1. 1 \in 1 .. Len(w)
      BY <1>1
    <2>2. QED
      BY <1>1, <2>1 DEF About
  <1>5. About(w, k) \subseteq Nat \ {0} /\ About(x, k) \subseteq Nat \ {0}
    BY DEF About
  <1>6. CASE About(x, k) = {}
    <2>1. About(w, k) \subseteq {1}
      BY <1>3, <1>6
    <2>2. QED
      BY <1>1, <1>4, <1>6, <2>1 DEF Ends, x
  <1>7. CASE About(x, k) # {}
    <2>1. About(w, k) # {}
      BY <1>2, <1>7
    <2>2. ASSUME NEW i \in About(x, k), x[i][1] = 1,
                 \A j \in About(x, k) : j <= i
          PROVE  Ends(w, T, k)
      <3>1. \A j \in About(w, k) : j <= i + 1
        BY <1>3, <1>5, <2>2
      <3>2. QED
        BY <1>2, <2>1, <2>2, <3>1 DEF Ends
    <2>3. ASSUME NEW i \in About(w, k), w[i][1] = 1,
                 \A j \in About(w, k) : j <= i
          PROVE  Ends(x, U, k)
      <3>1. i # 1
        BY <1>2, <1>5, <1>7, <2>3
      <3>2. i - 1 \in About(x, k) /\ x[i - 1] = w[i]
        BY <1>3, <3>1
      <3>3. \A j \in About(x, k) : j <= i - 1
        BY <1>2, <1>5, <2>3
      <3>4. QED
        BY <1>7, <2>3, <3>2, <3>3 DEF Ends
    <2>4. QED
      BY <1>7, <2>1, <2>2, <2>3 DEF Ends, x
  <1>8. QED
    BY <1>6, <1>7

-----------------------------------------------------------------------------
LEMMA InitIInv == Init => IInv
  <1> SUFFICES ASSUME Init PROVE IInv
    OBVIOUS
  <1>1. wire \in [Conns -> Seq(Frame)]
    BY DEF Init
  <1>2. TypeOK
    BY <1>1, SubscriptionAssumption DEF Init, TypeOK, Frame
  <1>3. PendingIsCurrent /\ FreshIsEmpty /\ ReplayCovered /\ NoDrift
    BY DEF Init, PendingIsCurrent, FreshIsEmpty, ReplayCovered, NoDrift, Live
  <1>4. QED
    BY <1>2, <1>3 DEF Init, IInv, Types

LEMMA ApplyType ==
    ASSUME NEW cmd \in Command, NEW set \in SUBSET Topics
    PROVE  /\ Apply(cmd, set) \in SUBSET Topics
           /\ \A k : k \in Apply(cmd, set) <=>
                       IF k = cmd[2] THEN cmd[1] = 1 ELSE k \in set
  BY DEF Apply, Command

(* SetOption: the topic changed is the one it has a command for. *)
LEMMA SetOptionStep ==
    ASSUME NEW t, Setters = {t}, IInv, NEW cmd \in Command, SetOption(t, cmd)
    PROVE  IInv'
  <1>1. /\ subs' = Apply(cmd, subs) /\ subs' \subseteq Topics
        /\ \A k : k \in subs' <=> IF k = cmd[2] THEN cmd[1] = 1 ELSE k \in subs
    BY ApplyType DEF SetOption, IInv, Types, TypeOK
  <1>2. pending[t] = {} /\ pending' = [pending EXCEPT ![t] = {cmd}]
    BY DEF SetOption
  <1>3. pending'[t] = {cmd} /\ pending' \in [Setters -> SUBSET Command]
    BY <1>2 DEF IInv, Types
  <1>4. Types'
    BY <1>1, <1>3, SubscriptionAssumption
       DEF SetOption, IInv, Types, TypeOK, addVars, recvVars
  <1>5. PendingIsCurrent'
    BY <1>1, <1>3 DEF PendingIsCurrent
  <1>6. FreshIsEmpty' /\ ReplayCovered'
    BY <1>1, <1>2, <1>3
       DEF SetOption, IInv, FreshIsEmpty, ReplayCovered, addVars
  <1>7. ASSUME NEW c \in Live', NEW k \in Topics, k # cmd[2],
               ~(c = adding' /\ k \in todo')
        PROVE  WillHave(c, k)' <=> k \in subs'
    <2>1. WillHave(c, k) <=> k \in subs
      BY <1>2, <1>7 DEF SetOption, IInv, NoDrift, Live, addVars
    <2>2. QED
      BY <1>1, <1>7, <2>1 DEF SetOption, WillHave
  <1>8. NoDrift'
    BY <1>3, <1>7 DEF NoDrift
  <1>9. QED
    BY <1>4, <1>5, <1>6, <1>8 DEF IInv

(* What is written reaches every connection that is alive. *)
LEMMA WriteEnds ==
    ASSUME IInv, NEW m \in Frame, Write(m)
    PROVE  /\ wire' \in [Conns -> Seq(Frame)]
           /\ \A c \in Live : wire'[c] = Append(wire[c], m)
           /\ \A c \in Conns \ Live : wire'[c] = wire[c]
  BY DEF IInv, Types, TypeOK, Write, Receivers, Live, Frame

LEMMA SendCommandStep ==
    ASSUME NEW t, Setters = {t}, IInv, SendCommand(t)
    PROVE  IInv'
  <1>1. PICK cmd \in pending[t] : Write(cmd)
    BY DEF SendCommand
  <1>2. /\ cmd \in Command /\ pending[t] = {cmd}
        /\ cmd[2] \in subs <=> cmd[1] = 1
    BY <1>1 DEF IInv, Types, PendingIsCurrent
  <1>3. pending' = [u \in Setters |-> {}]
    BY DEF SendCommand, IInv, Types
  <1>4. /\ adding = NoConn /\ todo = {}
        /\ UNCHANGED <<subs, conns, adding, todo, broken, topics>>
    BY DEF SendCommand, IInv, ReplayCovered, addVars
  <1>5. /\ wire' \in [Conns -> Seq(Frame)]
        /\ \A c \in Live : wire'[c] = Append(wire[c], cmd)
        /\ \A c \in Conns \ Live : wire'[c] = wire[c]
    BY <1>1, <1>2, WriteEnds DEF Frame
  <1>6. Types'
    BY <1>3, <1>5 DEF SendCommand, IInv, Types, TypeOK, addVars, recvVars, Frame
  <1>7. PendingIsCurrent' /\ ReplayCovered'
    BY <1>3, <1>4 DEF PendingIsCurrent, ReplayCovered, IInv
  <1>8. FreshIsEmpty'
    BY <1>4, <1>5 DEF FreshIsEmpty, IInv, Live
  <1>9. ASSUME NEW c \in Live, NEW k \in Topics
        PROVE  WillHave(c, k)' <=> k \in subs'
    <2>1. wire[c] \in Seq(Frame) /\ cmd \in Frame
      BY <1>2 DEF IInv, Types, TypeOK, Live, Frame
    <2>2. WillHave(c, k)' <=> Ends(Append(wire[c], cmd), topics[c], k)
      BY <1>4, <1>5, WillHaveIsEnds DEF WillHave, Ends, About
    <2>3. CASE k = cmd[2]
      <3>1. cmd = <<cmd[1], k>> /\ cmd[1] \in {0, 1}
        BY <1>2, <2>3 DEF Command
      <3>2. Ends(Append(wire[c], cmd), topics[c], k) <=> cmd[1] = 1
        BY <2>1, <3>1, AppendSame
      <3>3. QED
        BY <1>2, <1>4, <2>2, <2>3, <3>2
    <2>4. CASE k # cmd[2]
      <3>1. cmd \notin {0, 1} \X {k}
        BY <1>2, <2>4 DEF Command
      <3>2. WillHave(c, k) <=> k \in subs
        BY <1>2, <1>4, <2>4 DEF IInv, NoDrift
      <3>3. QED
        BY <1>4, <2>1, <2>2, <3>1, <3>2, AppendOther, WillHaveIsEnds
    <2>5. QED
      BY <2>3, <2>4
  <1>10. NoDrift'
    BY <1>4, <1>9 DEF NoDrift, Live
  <1>11. QED
    BY <1>6, <1>7, <1>8, <1>10 DEF IInv

LEMMA SendLemma ==
    ASSUME IInv, Send
    PROVE  IInv'
  <1>1. /\ wire' \in [Conns -> Seq(Frame)]
        /\ \A c \in Live : wire'[c] = Append(wire[c], Data)
        /\ \A c \in Conns \ Live : wire'[c] = wire[c]
    BY WriteEnds DEF Send, Frame
  <1>2. UNCHANGED <<subs, pending, conns, adding, todo, broken, topics>>
    BY DEF Send, sendVars, addVars
  <1>3. Types'
    BY <1>1, SubscriptionAssumption
       DEF Send, IInv, Types, TypeOK, sendVars, addVars, recvVars, Frame
  <1>4. PendingIsCurrent' /\ ReplayCovered' /\ FreshIsEmpty'
    BY <1>1, <1>2
       DEF PendingIsCurrent, ReplayCovered, FreshIsEmpty, IInv, Live
  <1>5. ASSUME NEW c \in Live, NEW k \in Topics
        PROVE  WillHave(c, k)' <=> WillHave(c, k)
    <2>1. wire[c] \in Seq(Frame) /\ Data \in Frame /\ Data \notin {0, 1} \X {k}
      BY SubscriptionAssumption DEF IInv, Types, TypeOK, Live, Frame
    <2>2. WillHave(c, k)' <=> Ends(Append(wire[c], Data), topics[c], k)
      BY <1>1, <1>2 DEF WillHave, Ends, About
    <2>3. QED
      BY <2>1, <2>2, AppendOther, WillHaveIsEnds
  <1>6. NoDrift'
    BY <1>2, <1>5 DEF NoDrift, Live, IInv
  <1>7. QED
    BY <1>3, <1>4, <1>6 DEF IInv

(* A new connection is empty, and its topics are all to be replayed. *)
LEMMA BeginAddConnStep ==
    ASSUME IInv, NEW c \in Conns, BeginAddConn(c)
    PROVE  IInv'
  <1>1. Types'
    BY DEF BeginAddConn, Replay, IInv, Types, TypeOK, sendVars, recvVars
  <1>2. PendingIsCurrent' /\ ReplayCovered' /\ FreshIsEmpty'
    BY SubscriptionAssumption
       DEF BeginAddConn, Replay, PendingIsCurrent, ReplayCovered,
           FreshIsEmpty, IInv, sendVars
  <1>3. ASSUME NEW d, NEW k \in Topics
        PROVE  WillHave(d, k)' <=> WillHave(d, k)
    BY DEF BeginAddConn, WillHave
  <1>4. ASSUME NEW k \in Topics PROVE ~WillHave(c, k)
    BY DEF BeginAddConn, IInv, FreshIsEmpty, WillHave
  <1>5. NoDrift'
    <2> SUFFICES ASSUME NEW d \in Live', NEW k \in Topics
                 PROVE  \/ WillHave(d, k)' <=> k \in subs'
                        \/ \E t \in Setters : \E m \in pending'[t] : m[2] = k
                        \/ d = adding' /\ k \in todo'
      BY DEF NoDrift
    <2>1. CASE d = c
      BY <1>3, <1>4, <2>1 DEF BeginAddConn, Replay, sendVars
    <2>2. CASE d # c
      <3>1. d \in Live /\ d # adding
        BY <2>2, SubscriptionAssumption
           DEF BeginAddConn, Live, IInv, Types, TypeOK
      <3>2. \/ WillHave(d, k) <=> k \in subs
            \/ \E t \in Setters : \E cmd \in pending[t] : cmd[2] = k
        BY <3>1 DEF IInv, NoDrift
      <3>3. QED
        BY <1>3, <3>2 DEF BeginAddConn, sendVars
    <2>3. QED
      BY <2>1, <2>2
  <1>6. QED
    BY <1>1, <1>2, <1>5 DEF IInv

(* A topic is replayed as a subscription, which is right unless a command  *)
(* about it is still to come.                                              *)
LEMMA ReplayTopicStep ==
    ASSUME IInv, NEW k \in Topics, ReplayTopic(k)
    PROVE  IInv'
  <1> DEFINE cmd == SubscribeTo(k)
  <1>1. cmd = <<1, k>> /\ cmd \in Frame
    BY DEF SubscribeTo, Frame, Command
  <1>2. /\ UNCHANGED <<subs, pending, conns, adding, topics, broken>>
        /\ adding \in conns /\ adding \in Conns
        /\ k \in todo /\ todo' = todo \ {k}
    BY DEF ReplayTopic, IInv, ReplayCovered, Types, TypeOK, sendVars
  <1>3. wire' = IF adding \in broken THEN wire
                ELSE [wire EXCEPT ![adding] = Append(@, cmd)]
    BY DEF ReplayTopic
  <1> HIDE DEF cmd
  <1>4. wire \in [Conns -> Seq(Frame)] /\ wire' \in [Conns -> Seq(Frame)]
    BY <1>1, <1>2, <1>3 DEF IInv, Types, TypeOK, Frame
  <1>5. Types'
    BY <1>4 DEF ReplayTopic, IInv, Types, TypeOK, sendVars, recvVars, Frame
  <1>6. PendingIsCurrent' /\ ReplayCovered' /\ FreshIsEmpty'
    BY <1>2, <1>3, SubscriptionAssumption
       DEF PendingIsCurrent, ReplayCovered, FreshIsEmpty, IInv, ReplayTopic
  <1>7. ASSUME NEW c \in Live, NEW h \in Topics, c # adding \/ h # k
        PROVE  WillHave(c, h)' <=> WillHave(c, h)
    <2>1. CASE c # adding
      BY <1>2, <1>3, <1>4, <2>1 DEF WillHave, Live
    <2>2. CASE c = adding
      <3>1. cmd \notin {0, 1} \X {h}
        BY <1>1, <1>7, <2>2
      <3>2. WillHave(c, h)' <=> Ends(Append(wire[c], cmd), topics[c], h)
        BY <1>2, <1>3, <1>4, <2>2 DEF WillHave, Ends, About, Live
      <3>3. QED
        BY <1>1, <1>2, <1>4, <2>2, <3>1, <3>2, AppendOther, WillHaveIsEnds
    <2>3. QED
      BY <2>1, <2>2
  <1>8. adding \in Live => WillHave(adding, k)'
    <2>1. SUFFICES ASSUME adding \in Live PROVE WillHave(adding, k)'
      OBVIOUS
    <2>2. WillHave(adding, k)' <=>
            Ends(Append(wire[adding], cmd), topics[adding], k)
      BY <1>2, <1>3, <1>4, <2>1 DEF WillHave, Ends, About, Live
    <2>3. QED
      BY <1>1, <1>2, <1>4, <2>2, AppendSame
  <1>9. NoDrift'
    <2> SUFFICES ASSUME NEW c \in Live', NEW h \in Topics
                 PROVE  \/ WillHave(c, h)' <=> h \in subs'
                        \/ \E t \in Setters : \E d \in pending'[t] : d[2] = h
                        \/ c = adding' /\ h \in todo'
      BY DEF NoDrift
    <2>1. c \in Live
      BY <1>2 DEF Live
    <2>2. CASE c # adding \/ h # k
      BY <1>2, <1>7, <2>1, <2>2 DEF IInv, NoDrift
    <2>3. CASE c = adding /\ h = k
      BY <1>2, <1>8, <2>1, <2>3 DEF IInv, ReplayCovered
    <2>4. QED
      BY <2>2, <2>3
  <1>10. QED
    BY <1>5, <1>6, <1>9 DEF IInv

(* These steps only make fewer connections live, or touch nothing that the *)
(* property is about.                                                      *)
LEMMA OtherSteps ==
    ASSUME IInv,
           \/ EndAddConn \/ XPubRecv \/ UNCHANGED vars
           \/ \E c \in Conns : Break(c) \/ RmConn(c) \/ PubEnqueues(c)
    PROVE  IInv'
  <1>1. UNCHANGED <<subs, pending, todo, topics>> /\ Live' \subseteq Live
    BY DEF EndAddConn, XPubRecv, vars, Break, RmConn, PubEnqueues, sendVars,
           addVars, Live
  <1>2. \A c \in Live' : wire'[c] = wire[c]
    <2>1. UNCHANGED wire \/ \E c \in Conns : Break(c)
      BY DEF EndAddConn, XPubRecv, vars, RmConn, PubEnqueues
    <2>2. ASSUME NEW c \in Conns, Break(c), NEW d \in Live'
          PROVE  wire'[d] = wire[d]
      <3>1. d # c /\ d \in Conns
        BY <2>2 DEF Break, Live, IInv, Types, TypeOK, addVars
      <3>2. QED
        BY <2>2, <3>1 DEF Break, IInv, Types, TypeOK
    <2>3. QED
      BY <2>1, <2>2
  <1>3. adding' = adding \/ todo = {}
    BY DEF EndAddConn, XPubRecv, vars, Break, RmConn, PubEnqueues, addVars
  <1>4. NoDrift'
    <2>1. ASSUME NEW c \in Live', NEW k \in Topics
          PROVE  WillHave(c, k)' <=> WillHave(c, k)
      BY <1>1, <1>2 DEF WillHave
    <2>2. QED
      BY <1>1, <1>3, <2>1 DEF IInv, NoDrift
  <1>5. PendingIsCurrent' /\ ReplayCovered'
    BY <1>1 DEF EndAddConn, XPubRecv, vars, Break, RmConn, PubEnqueues,
                addVars, IInv, PendingIsCurrent, ReplayCovered
  <1>6. FreshIsEmpty'
    BY DEF EndAddConn, XPubRecv, vars, Break, RmConn, PubEnqueues, addVars,
           IInv, FreshIsEmpty, Types, TypeOK
  <1>7. Types'
    <2>1. CASE EndAddConn
      BY <2>1 DEF EndAddConn, IInv, Types, TypeOK, sendVars, recvVars
    <2>2. CASE XPubRecv
      BY <2>2, SubscriptionAssumption
         DEF XPubRecv, IInv, Types, TypeOK, sendVars, addVars
    <2>3. CASE UNCHANGED vars
      BY <2>3
         DEF vars, IInv, Types, TypeOK, sendVars, addVars, recvVars
    <2>4. ASSUME NEW c \in Conns, Break(c) PROVE Types'
      <3>1. wire' \in [Conns -> Seq(Frame)]
        BY <2>4 DEF Break, IInv, Types, TypeOK, Frame
      <3>2. QED
        BY <2>4, <3>1 DEF Break, IInv, Types, TypeOK, sendVars, addVars,
                          recvVars, Frame
    <2>5. ASSUME NEW c \in Conns, RmConn(c) PROVE Types'
      BY <2>5 DEF RmConn, IInv, Types, TypeOK, sendVars, recvVars
    <2>6. ASSUME NEW c \in Conns, PubEnqueues(c) PROVE Types'
      BY <2>6, SubscriptionAssumption
         DEF PubEnqueues, IInv, Types, TypeOK, sendVars, addVars
    <2>7. QED
      BY <2>1, <2>2, <2>3, <2>4, <2>5, <2>6
  <1>8. QED
    BY <1>4, <1>5, <1>6, <1>7 DEF IInv

(* The publisher applies the commands it reads: what it will have in the   *)
(* end stays the same.                                                     *)
LEMMA PubReadsStep ==
    ASSUME IInv, NEW c \in Conns, PubApplies(c) \/ PubReadsData(c)
    PROVE  IInv'
  <1>1. /\ UNCHANGED <<subs, pending, conns, adding, todo, broken>>
        /\ wire[c] # <<>> /\ wire' = [wire EXCEPT ![c] = Tail(@)]
        /\ c \notin broken
    BY DEF PubApplies, PubReadsData, PubReads, sendVars, addVars
  <1>2. /\ wire \in [Conns -> Seq(Frame)] /\ wire[c] \in Seq(Frame)
        /\ Head(wire[c]) \in Frame /\ Tail(wire[c]) \in Seq(Frame)
        /\ topics \in [Conns -> SUBSET Topics]
    BY <1>1 DEF IInv, Types, TypeOK, Frame
  <1>3. /\ topics' \in [Conns -> SUBSET Topics]
        /\ \A d \in Conns \ {c} : topics'[d] = topics[d]
        /\ \A k \in Topics :
             /\ Head(wire[c]) \in {0, 1} \X {k} =>
                  (k \in topics'[c] <=> Head(wire[c])[1] = 1)
             /\ Head(wire[c]) \notin {0, 1} \X {k} =>
                  (k \in topics'[c] <=> k \in topics[c])
    <2>1. CASE PubApplies(c)
      <3> DEFINE cmd == Head(wire[c])
      <3>1. cmd \in Command
        BY <1>2, <2>1 DEF PubApplies, Frame
      <3>2. topics' = [topics EXCEPT ![c] = Apply(cmd, @)]
        BY <2>1 DEF PubApplies, Subscribe
      <3> HIDE DEF cmd
      <3>3. /\ topics' \in [Conns -> SUBSET Topics]
            /\ \A d \in Conns \ {c} : topics'[d] = topics[d]
            /\ \A k : k \in topics'[c] <=>
                        IF k = cmd[2] THEN cmd[1] = 1 ELSE k \in topics[c]
        BY <1>2, <3>1, <3>2, ApplyType
      <3>4. \A k : cmd \in {0, 1} \X {k} <=> k = cmd[2]
        BY <3>1 DEF Command
      <3>5. QED
        BY <3>3, <3>4 DEF cmd
    <2>2. CASE PubReadsData(c)
      BY <1>2, <2>2, SubscriptionAssumption DEF PubReadsData
    <2>3. QED
      BY <2>1, <2>2
  <1>4. Types'
    BY <1>1, <1>2, <1>3
       DEF PubApplies, PubReadsData, IInv, Types, TypeOK, sendVars, addVars,
           recvVars, Frame
  <1>5. PendingIsCurrent' /\ ReplayCovered' /\ FreshIsEmpty'
    BY <1>1, <1>2, <1>3
       DEF PendingIsCurrent, ReplayCovered, FreshIsEmpty, IInv
  <1>6. ASSUME NEW d \in Conns, NEW k \in Topics
        PROVE  WillHave(d, k)' <=> WillHave(d, k)
    <2>1. WillHave(d, k)' <=> Ends(wire'[d], topics'[d], k)
      BY DEF WillHave, Ends, About
    <2>2. CASE d = c
      BY <1>1, <1>2, <1>3, <2>1, <2>2, TailKeeps, WillHaveIsEnds
    <2>3. CASE d # c
      BY <1>1, <1>2, <1>3, <2>1, <2>3, WillHaveIsEnds
    <2>4. QED
      BY <2>2, <2>3
  <1>7. Live \subseteq Conns
    BY DEF Live, IInv, Types, TypeOK
  <1>8. NoDrift'
    BY <1>1, <1>6, <1>7 DEF NoDrift, Live, IInv
  <1>9. QED
    BY <1>4, <1>5, <1>8 DEF IInv

-----------------------------------------------------------------------------
THEOREM SpecIInv ==
    ASSUME NEW t, Setters = {t}
    PROVE  Spec => []IInv
  <1>1. IInv /\ [Next]_vars => IInv'
    BY SetOptionStep, SendCommandStep, SendLemma, BeginAddConnStep,
       ReplayTopicStep, OtherSteps, PubReadsStep
       DEF Next, AddConnStep, PubListens
  <1>2. QED
    BY InitIInv, <1>1, PTL DEF Spec

(* What is on a stream is commands and other messages, and the publisher's *)
(* channel never exceeds its capacity (sub.go, SetOption; pub.go, listen). *)
THEOREM SubscriptionTypeCorrect ==
    ASSUME NEW t, Setters = {t}
    PROVE  Spec => []TypeOK
  <1>1. IInv => TypeOK
    BY DEF IInv, Types
  <1>2. QED
    BY SpecIInv, <1>1, PTL

(* With one caller of SetOption the publisher's topics never drift from    *)
(* the socket's, however connections come and go (sub.go, onConnAdded and  *)
(* SetOption; conn.go, subscribe).                                         *)
THEOREM TopicsDoNotDrift ==
    ASSUME NEW t, Setters = {t}
    PROVE  Spec => []NoDrift
  <1>1. IInv => NoDrift
    BY DEF IInv
  <1>2. QED
    BY SpecIInv, <1>1, PTL

=============================================================================
