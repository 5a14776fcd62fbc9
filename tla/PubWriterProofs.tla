-------------------------- MODULE PubWriterProofs --------------------------
(***************************************************************************)
(* The outgoing side of a PUB socket for any senders, subscribers, high    *)
(* water marks and number of messages: it is the fan-out of module Fanout, *)
(* and never sends on a closed channel.                                    *)
(***************************************************************************)
EXTENDS PubWriter, SequenceTheorems, TLAPS

(* Each sender's messages in q are in the order of their numbers, *)
Ordered(q) ==
    \A i, j \in 1 .. Len(q) : i < j /\ q[i][1] = q[j][1] => q[i][2] < q[j][2]

(* and those of s come before its message n. *)
Before(q, s, n) == \A i \in 1 .. Len(q) : q[i][1] = s => q[i][2] < n

(* The messages on their way to c: written, in hand and in the channel.    *)
InHand(c) == IF writer[c] = NoMessage THEN <<>> ELSE <<writer[c]>>
Pipeline(c) == (delivered[c] \o InHand(c)) \o channel[c]

PipelineOrdered == \A c \in Conns : Ordered(Pipeline(c))

(* A sender's own number is the largest of all. *)
NumbersKnown ==
    \A c \in Conns, s \in Senders : Before(Pipeline(c), s, published[s] + 1)

(* A sender that has c before it has not offered its message to c yet. *)
Ahead(s, c) ==
    \/ pc[s] = "loop" /\ c \in left[s]
    \/ pc[s] = "put" /\ (c = at[s] \/ c \in left[s])

OfferedOnce ==
    \A s \in Senders, c \in Conns :
        Ahead(s, c) => Before(Pipeline(c), s, published[s])

(* A sender holds the lock: whom it has before it is a subscriber, *)
AheadSubscribed ==
    \A s \in Senders :
        /\ pc[s] # "idle" => published[s] > 0
        /\ pc[s] = "idle" => left[s] = {}
        /\ left[s] \subseteq subscribers
        /\ pc[s] = "put" => at[s] \in subscribers \ left[s]

(* and subscribers have a channel that is open. *)
SubscribedOpen ==
    \A c \in Conns :
        /\ c \in subscribers => chanState[c] = "open"
        /\ chanState[c] = "none" => channel[c] = <<>>

IInv ==
    /\ TypeOK
    /\ PipelineOrdered /\ NumbersKnown /\ OfferedOnce
    /\ AheadSubscribed /\ SubscribedOpen

-----------------------------------------------------------------------------
(* Sequences of messages. *)

LEMMA MessagesAssociate ==
    \A p, q, r \in Seq(Message) : (p \o q) \o r = p \o (q \o r)
  BY ConcatAssociative, SMTT(30)

LEMMA AppendKeepsOrder ==
    ASSUME NEW q \in Seq(Message), NEW s \in Senders, NEW n \in 1 .. MaxMessages,
           Ordered(q), Before(q, s, n)
    PROVE  /\ Ordered(Append(q, <<s, n>>))
           /\ \A u \in Senders, m \in Nat :
                Before(q, u, m) /\ (u = s => n < m) => Before(Append(q, <<s, n>>), u, m)
  <1> DEFINE r == Append(q, <<s, n>>)
  <1>1. /\ Len(q) \in Nat /\ Len(r) = Len(q) + 1
        /\ r[Len(q) + 1] = <<s, n>>
        /\ \A i \in 1 .. Len(q) : r[i] = q[i]
    OBVIOUS
  <1>2. ASSUME NEW i \in 1 .. Len(r), NEW j \in 1 .. Len(r), i < j, r[i][1] = r[j][1]
        PROVE  r[i][2] < r[j][2]
    <2>1. i \in 1 .. Len(q) /\ r[i] = q[i]
      BY <1>1, <1>2
    <2>2. CASE j \in 1 .. Len(q)
      BY <1>1, <1>2, <2>1, <2>2 DEF Ordered
    <2>3. CASE j = Len(q) + 1
      BY <1>1, <1>2, <2>1, <2>3 DEF Before
    <2>4. QED
      BY <1>1, <2>2, <2>3
  <1>3. ASSUME NEW u \in Senders, NEW m \in Nat, Before(q, u, m), u = s => n < m
        PROVE  Before(r, u, m)
    BY <1>1, <1>3 DEF Before
  <1>4. QED
    BY <1>2, <1>3 DEF Ordered

(* A message that is lost leaves the rest in order. *)
LEMMA OmitKeepsOrder ==
    ASSUME NEW d \in Seq(Message), NEW w \in Message, NEW q \in Seq(Message)
    PROVE  /\ Ordered((d \o <<w>>) \o q) => Ordered((d \o <<>>) \o q)
           /\ \A u \in Senders, m \in Nat :
                Before((d \o <<w>>) \o q, u, m) => Before((d \o <<>>) \o q, u, m)
  <1> DEFINE long == (d \o <<w>>) \o q
             short == (d \o <<>>) \o q
             In(i) == IF i <= Len(d) THEN i ELSE i + 1
  <1>1. <<w>> \in Seq(Message) /\ Len(<<w>>) = 1
    OBVIOUS
  <1>2. /\ d \o <<w>> \in Seq(Message) /\ Len(d \o <<w>>) = Len(d) + 1
        /\ \A i \in 1 .. Len(d) + 1 : (d \o <<w>>)[i] = IF i <= Len(d) THEN d[i] ELSE w
    BY <1>1, ConcatProperties
  <1>3. /\ Len(long) = Len(d) + 1 + Len(q)
        /\ \A i \in 1 .. Len(d) + 1 + Len(q) :
             long[i] = IF i <= Len(d) + 1 THEN (d \o <<w>>)[i] ELSE q[i - (Len(d) + 1)]
    BY <1>2, ConcatProperties
  <1>4. short = d \o q
    BY ConcatEmptySeq
  <1>5. /\ Len(short) = Len(d) + Len(q)
        /\ \A i \in 1 .. Len(d) + Len(q) :
             short[i] = IF i <= Len(d) THEN d[i] ELSE q[i - Len(d)]
    BY <1>4, ConcatProperties
  <1>6. Len(d) \in Nat /\ Len(q) \in Nat
    OBVIOUS
  <1> HIDE DEF long, short
  <1>7. ASSUME NEW i \in 1 .. Len(short)
        PROVE  In(i) \in 1 .. Len(long) /\ short[i] = long[In(i)]
    BY <1>2, <1>3, <1>5, <1>6, SMTT(30)
  <1>8. \A i, j \in 1 .. Len(short) : i < j => In(i) < In(j)
    BY <1>5, <1>6
  <1> HIDE DEF In
  <1>9. Ordered(long) => Ordered(short)
    BY <1>7, <1>8 DEF Ordered
  <1>10. ASSUME NEW u \in Senders, NEW m \in Nat
         PROVE  Before(long, u, m) => Before(short, u, m)
    BY <1>7 DEF Before
  <1>11. QED
    BY <1>9, <1>10 DEF long, short

(* What is written comes before what is in hand. *)
LEMMA WrittenBeforeHand ==
    ASSUME NEW d \in Seq(Message), NEW w \in Message, NEW q \in Seq(Message),
           Ordered((d \o <<w>>) \o q)
    PROVE  /\ Before(d, w[1], w[2])
           /\ \A n \in Nat : Before((d \o <<w>>) \o q, w[1], n) => w[2] < n
  <1> DEFINE long == (d \o <<w>>) \o q
  <1>1. <<w>> \in Seq(Message) /\ Len(<<w>>) = 1
    OBVIOUS
  <1>2. /\ d \o <<w>> \in Seq(Message) /\ Len(d \o <<w>>) = Len(d) + 1
        /\ \A i \in 1 .. Len(d) + 1 : (d \o <<w>>)[i] = IF i <= Len(d) THEN d[i] ELSE w
    BY <1>1, ConcatProperties
  <1>3. /\ Len(long) = Len(d) + 1 + Len(q)
        /\ \A i \in 1 .. Len(d) + 1 : long[i] = (d \o <<w>>)[i]
    BY <1>2, ConcatProperties
  <1>4. Len(d) \in Nat /\ Len(q) \in Nat
    OBVIOUS
  <1>5. long[Len(d) + 1] = w /\ \A i \in 1 .. Len(d) : long[i] = d[i]
    BY <1>2, <1>3, <1>4
  <1> HIDE DEF long
  <1>6. Ordered(long)
    BY DEF long
  <1>7. ASSUME NEW i \in 1 .. Len(d), d[i][1] = w[1] PROVE d[i][2] < w[2]
    BY <1>3, <1>4, <1>5, <1>6, <1>7 DEF Ordered
  <1>8. ASSUME NEW n \in Nat, Before(long, w[1], n) PROVE w[2] < n
    BY <1>3, <1>4, <1>5, <1>8 DEF Before
  <1>9. QED
    BY <1>7, <1>8 DEF Before, long

-----------------------------------------------------------------------------
LEMMA PipelineTypes ==
    ASSUME TypeOK, NEW c \in Conns
    PROVE  /\ delivered[c] \in Seq(Message) /\ channel[c] \in Seq(Message)
           /\ InHand(c) \in Seq(Message) /\ Pipeline(c) \in Seq(Message)
  <1>1. delivered[c] \in Seq(Message) /\ channel[c] \in Seq(Message)
    BY DEF TypeOK
  <1>2. InHand(c) \in Seq(Message)
    BY DEF TypeOK, InHand
  <1>3. QED
    BY <1>1, <1>2, ConcatProperties DEF Pipeline

LEMMA CapacityIsNat == TypeOK => \A c \in Conns : capacity[c] \in Nat
  <1>1. TypeOK => capacity \in [Conns -> Hwms \union {0}]
    BY DEF TypeOK
  <1>2. Hwms \union {0} \subseteq Nat
    BY PubWriterAssumption
  <1>3. QED
    BY <1>1, <1>2

LEMMA InitIInv == Init => IInv
  BY PubWriterAssumption
     DEF Init, IInv, TypeOK, PipelineOrdered, NumbersKnown, OfferedOnce, Pipeline, InHand,
         AheadSubscribed, SubscribedOpen, Ahead, Ordered, Before

(* A step after which every pipeline is as it was or has lost a message,   *)
(* numbers are as they were and no sender is ahead of a connection that it *)
(* was not ahead of.                                                       *)
Shorter ==
    \A c \in Conns :
        /\ Ordered(Pipeline(c)) => Ordered(Pipeline(c)')
        /\ \A s \in Senders, n \in Nat :
             Before(Pipeline(c), s, n) => Before(Pipeline(c)', s, n)

LEMMA SamePipelines ==
    ASSUME UNCHANGED <<channel, writer, delivered>>
    PROVE  Shorter /\ \A c \in Conns : Pipeline(c)' = Pipeline(c)
  <1>1. \A c \in Conns : Pipeline(c)' = Pipeline(c)
    BY DEF Pipeline, InHand
  <1>2. QED
    BY <1>1 DEF Shorter

LEMMA ShorterStep ==
    ASSUME IInv, Shorter, published' = published,
           \A s \in Senders, c \in Conns : Ahead(s, c)' => Ahead(s, c)
    PROVE  PipelineOrdered' /\ NumbersKnown' /\ OfferedOnce'
  <1>1. PipelineOrdered'
    BY DEF IInv, PipelineOrdered, Shorter
  <1>2. NumbersKnown'
    <2>1. \A s \in Senders : published[s] + 1 \in Nat
      BY DEF IInv, TypeOK
    <2>2. QED
      BY <2>1 DEF IInv, NumbersKnown, Shorter
  <1>3. OfferedOnce'
    <2>1. \A s \in Senders : published[s] \in Nat
      BY DEF IInv, TypeOK
    <2>2. QED
      BY <2>1 DEF IInv, OfferedOnce, Shorter
  <1>4. QED
    BY <1>1, <1>2, <1>3

LEMMA BeforeIsMonotone ==
    ASSUME NEW q \in Seq(Message), NEW s \in Senders, NEW n \in Nat, NEW m \in Nat,
           n <= m, Before(q, s, n)
    PROVE  Before(q, s, m)
  BY DEF Message, Before

LEMMA BeginSendStep ==
    ASSUME IInv, NEW s \in Senders, BeginSend(s)
    PROVE  IInv'
  <1>1. TypeOK'
    BY PubWriterAssumption DEF BeginSend, mapVars, connVars, senderVars, IInv, TypeOK, AheadSubscribed
  <1>2. \A c \in Conns : Pipeline(c)' = Pipeline(c)
    BY SamePipelines DEF BeginSend
  <1>3. AheadSubscribed'
    BY <1>1 DEF BeginSend, mapVars, connVars, senderVars, IInv, TypeOK, AheadSubscribed
  <1>4. SubscribedOpen'
    BY <1>1 DEF BeginSend, mapVars, connVars, senderVars, IInv, TypeOK, SubscribedOpen
  <1>5. PipelineOrdered'
    BY <1>2 DEF IInv, PipelineOrdered
  <1>6. ASSUME NEW c \in Conns, NEW u \in Senders
        PROVE  Before(Pipeline(c)', u, published'[u] + 1)
    <2>1. /\ published[u] + 1 \in Nat /\ published'[u] + 1 \in Nat
          /\ published[u] + 1 <= published'[u] + 1
      BY DEF BeginSend, IInv, TypeOK
    <2>2. Before(Pipeline(c), u, published[u] + 1)
      BY DEF IInv, NumbersKnown
    <2>3. QED
      BY <1>2, <2>1, <2>2, BeforeIsMonotone, PipelineTypes DEF IInv
  <1>7. ASSUME NEW u \in Senders, NEW c \in Conns, Ahead(u, c)'
        PROVE  Before(Pipeline(c)', u, published'[u])
    <2>1. CASE u = s
      <3>1. published'[u] = published[u] + 1
        BY <2>1 DEF BeginSend, IInv, TypeOK
      <3>2. QED
        BY <1>2, <3>1 DEF IInv, NumbersKnown
    <2>2. CASE u # s
      <3>1. Ahead(u, c) /\ published'[u] = published[u]
        BY <1>7, <2>2 DEF BeginSend, Ahead, IInv, TypeOK
      <3>2. QED
        BY <1>2, <3>1 DEF IInv, OfferedOnce
    <2>3. QED
      BY <2>1, <2>2
  <1>8. QED
    BY <1>1, <1>3, <1>4, <1>5, <1>6, <1>7 DEF IInv, NumbersKnown, OfferedOnce

LEMMA VisitStep ==
    ASSUME IInv, NEW s \in Senders, NEW c \in Conns, Visit(s, c)
    PROVE  IInv'
  <1>1. TypeOK'
    <2>1. CASE c \in matching
      BY <2>1 DEF Visit, mapVars, connVars, IInv, TypeOK
    <2>2. CASE c \notin matching
      BY <2>2 DEF Visit, mapVars, connVars, IInv, TypeOK
    <2>3. QED
      BY <2>1, <2>2
  <1>2. \A u \in Senders, d \in Conns : Ahead(u, d)' => Ahead(u, d)
    BY <1>1 DEF Visit, mapVars, connVars, senderVars, IInv, TypeOK, Ahead
  <1>3. AheadSubscribed'
    BY <1>1 DEF Visit, mapVars, connVars, senderVars, IInv, TypeOK, AheadSubscribed
  <1>4. SubscribedOpen'
    BY <1>1 DEF Visit, mapVars, connVars, senderVars, IInv, TypeOK, SubscribedOpen
  <1>5. Shorter /\ published' = published
    BY SamePipelines DEF Visit, mapVars, connVars, senderVars
  <1>6. QED
    BY <1>1, <1>2, <1>3, <1>4, <1>5, ShorterStep DEF IInv

LEMMA PutStep ==
    ASSUME IInv, NEW s \in Senders, Put(s)
    PROVE  IInv'
  <1>0. PICK c \in Conns, n \in 1 .. MaxMessages : c = at[s] /\ n = published[s]
    <2>1. at[s] \in Conns
      BY DEF Put, IInv, TypeOK, AheadSubscribed
    <2>2. published[s] \in 1 .. MaxMessages
      <3>1. published[s] \in 0 .. MaxMessages /\ published[s] > 0
        BY DEF Put, IInv, TypeOK, AheadSubscribed
      <3>2. QED
        BY <3>1, PubWriterAssumption
    <2>3. QED
      BY <2>1, <2>2
  <1>1. chanState[c] = "open"
    BY <1>0 DEF Put, IInv, AheadSubscribed, SubscribedOpen
  <1>2. <<s, n>> \in Message /\ <<s, n>> # NoMessage
    BY <1>1 DEF Message, NoMessage
  <1>3. /\ delivered[c] \in Seq(Message) /\ channel[c] \in Seq(Message)
        /\ InHand(c) \in Seq(Message) /\ Pipeline(c) \in Seq(Message)
    BY <1>1, PipelineTypes DEF IInv
  <1>17. capacity[c] \in Nat
    BY CapacityIsNat DEF IInv
  <1>4. /\ Len(channel[c]) \in Nat
        /\ Len(Append(channel[c], <<s, n>>)) = Len(channel[c]) + 1
        /\ Append(channel[c], <<s, n>>) \in Seq(Message)
    BY <1>2, <1>3
  <1>5. ASSUME HasRoom(c), writer' = writer,
               channel' = [channel EXCEPT ![c] = Append(channel[c], <<s, n>>)]
        PROVE  /\ TypeOK'
               /\ Pipeline(c)' = Append(Pipeline(c), <<s, n>>)
               /\ \A d \in Conns : d # c => Pipeline(d)' = Pipeline(d)
    <2>1. \A d \in Conns : Len(channel'[d]) <= capacity[d]
      BY <1>4, <1>5, <1>17 DEF HasRoom, IInv, TypeOK
    <2>2. channel' \in [Conns -> Seq(Message)]
      BY <1>4, <1>5 DEF IInv, TypeOK
    <2>3. TypeOK'
      BY <1>5, <2>1, <2>2 DEF Put, mapVars, connVars, IInv, TypeOK
    <2>4. Pipeline(c)' = (delivered[c] \o InHand(c)) \o Append(channel[c], <<s, n>>)
      BY <1>1, <1>5 DEF Put, Pipeline, InHand, IInv, TypeOK
    <2>5. Pipeline(c)' = Append(Pipeline(c), <<s, n>>)
      <3>1. PICK front \in Seq(Message) : front = delivered[c] \o InHand(c)
        BY <1>3, ConcatProperties
      <3>2. Pipeline(c) = front \o channel[c]
        BY <3>1 DEF Pipeline
      <3>3. Append(channel[c], <<s, n>>) = channel[c] \o <<<<s, n>>>>
        BY <1>2, <1>3, AppendIsConcat
      <3>4. Append(Pipeline(c), <<s, n>>) = Pipeline(c) \o <<<<s, n>>>>
        BY <1>2, <1>3, AppendIsConcat
      <3>5. ASSUME NEW w \in Message
            PROVE  front \o (channel[c] \o <<w>>) = (front \o channel[c]) \o <<w>>
        <4>1. <<w>> \in Seq(Message)
          OBVIOUS
        <4>2. QED
          BY <1>3, <4>1, MessagesAssociate, ZenonT(60)
      <3>6. QED
        BY <1>2, <2>4, <3>1, <3>2, <3>3, <3>4, <3>5
    <2>6. \A d \in Conns : d # c => Pipeline(d)' = Pipeline(d)
      BY <1>5 DEF Put, Pipeline, InHand, IInv, TypeOK
    <2>7. QED
      BY <2>3, <2>5, <2>6
  <1>6. ASSUME Waits(c), channel' = channel,
               writer' = [writer EXCEPT ![c] = <<s, n>>]
        PROVE  /\ TypeOK'
               /\ Pipeline(c)' = Append(Pipeline(c), <<s, n>>)
               /\ \A d \in Conns : d # c => Pipeline(d)' = Pipeline(d)
    <2>1. channel[c] = <<>> /\ writer[c] = NoMessage
      BY <1>3, <1>4, <1>6 DEF Waits, IInv, TypeOK
    <2>2. TypeOK'
      BY <1>1, <1>2, <1>6 DEF Put, mapVars, connVars, IInv, TypeOK
    <2>3. Pipeline(c) = delivered[c]
      BY <1>3, <2>1, ConcatEmptySeq DEF Pipeline, InHand
    <2>4. Pipeline(c)' = (delivered[c] \o <<<<s, n>>>>) \o <<>>
      BY <1>1, <1>2, <1>6, <2>1 DEF Put, Pipeline, InHand, IInv, TypeOK
    <2>5. Pipeline(c)' = Append(Pipeline(c), <<s, n>>)
      <3>1. delivered[c] \o <<<<s, n>>>> = Append(delivered[c], <<s, n>>)
        BY <1>2, <1>3, AppendIsConcat
      <3>2. Append(delivered[c], <<s, n>>) \in Seq(Message)
        BY <1>2, <1>3
      <3>3. QED
        BY <2>3, <2>4, <3>1, <3>2, ConcatEmptySeq
    <2>6. \A d \in Conns : d # c => Pipeline(d)' = Pipeline(d)
      BY <1>6 DEF Put, Pipeline, InHand, IInv, TypeOK
    <2>7. QED
      BY <2>2, <2>5, <2>6
  <1>7. /\ TypeOK'
        /\ Pipeline(c)' = Append(Pipeline(c), <<s, n>>)
        /\ \A d \in Conns : d # c => Pipeline(d)' = Pipeline(d)
    BY <1>0, <1>5, <1>6 DEF Put, Current
  <1>8. Ordered(Pipeline(c)) /\ Before(Pipeline(c), s, n)
    BY <1>0 DEF Put, IInv, PipelineOrdered, OfferedOnce, Ahead
  <1>9. /\ Ordered(Pipeline(c)')
        /\ \A u \in Senders, m \in Nat :
             Before(Pipeline(c), u, m) /\ (u = s => n < m) => Before(Pipeline(c)', u, m)
    BY <1>1, <1>3, <1>7, <1>8, AppendKeepsOrder
  <1>10. PipelineOrdered'
    BY <1>7, <1>9 DEF IInv, PipelineOrdered
  <1>11. published' = published /\ \A u \in Senders : published[u] \in Nat
    BY DEF Put, IInv, TypeOK
  <1>12. ASSUME NEW d \in Conns, NEW u \in Senders
         PROVE  Before(Pipeline(d)', u, published[u] + 1)
    <2>1. Before(Pipeline(d), u, published[u] + 1) /\ published[u] + 1 \in Nat
      BY <1>11 DEF IInv, NumbersKnown
    <2>2. u = s => n < published[u] + 1
      BY <1>0, <1>11
    <2>3. QED
      BY <1>7, <1>9, <2>1, <2>2
  <1>13. ASSUME NEW u \in Senders, NEW d \in Conns, Ahead(u, d)'
         PROVE  Before(Pipeline(d)', u, published[u])
    <2>1. Ahead(u, d) /\ (u = s => d # c)
      BY <1>0, <1>13 DEF Put, IInv, TypeOK, Ahead, AheadSubscribed
    <2>2. Before(Pipeline(d), u, published[u])
      BY <2>1 DEF IInv, OfferedOnce
    <2>3. QED
      BY <1>7, <1>9, <1>11, <2>1, <2>2
  <1>14. AheadSubscribed'
    BY DEF Put, mapVars, IInv, TypeOK, AheadSubscribed
  <1>15. SubscribedOpen'
    BY <1>0, <1>1 DEF Put, Current, mapVars, IInv, TypeOK, SubscribedOpen
  <1>16. QED
    BY <1>7, <1>10, <1>11, <1>12, <1>13, <1>14, <1>15
       DEF IInv, NumbersKnown, OfferedOnce

LEMMA DropStep ==
    ASSUME IInv, NEW s \in Senders, Drop(s)
    PROVE  IInv'
  <1>1. TypeOK'
    BY PubWriterAssumption DEF Drop, mapVars, connVars, senderVars, IInv, TypeOK, AheadSubscribed
  <1>2. \A u \in Senders, d \in Conns : Ahead(u, d)' => Ahead(u, d)
    BY <1>1 DEF Drop, mapVars, connVars, senderVars, IInv, TypeOK, Ahead
  <1>3. AheadSubscribed'
    BY <1>1 DEF Drop, mapVars, connVars, senderVars, IInv, TypeOK, AheadSubscribed
  <1>4. SubscribedOpen'
    BY <1>1 DEF Drop, mapVars, connVars, senderVars, IInv, TypeOK, SubscribedOpen
  <1>5. Shorter /\ published' = published
    BY SamePipelines DEF Drop, mapVars, connVars, senderVars
  <1>6. QED
    BY <1>1, <1>2, <1>3, <1>4, <1>5, ShorterStep DEF IInv

LEMMA EndSendStep ==
    ASSUME IInv, NEW s \in Senders, EndSend(s)
    PROVE  IInv'
  <1>1. TypeOK'
    BY PubWriterAssumption DEF EndSend, mapVars, connVars, senderVars, IInv, TypeOK, AheadSubscribed
  <1>2. \A u \in Senders, d \in Conns : Ahead(u, d)' => Ahead(u, d)
    BY <1>1 DEF EndSend, mapVars, connVars, senderVars, IInv, TypeOK, Ahead
  <1>3. AheadSubscribed'
    BY <1>1 DEF EndSend, mapVars, connVars, senderVars, IInv, TypeOK, AheadSubscribed
  <1>4. SubscribedOpen'
    BY <1>1 DEF EndSend, mapVars, connVars, senderVars, IInv, TypeOK, SubscribedOpen
  <1>5. Shorter /\ published' = published
    BY SamePipelines DEF EndSend, mapVars, connVars, senderVars
  <1>6. QED
    BY <1>1, <1>2, <1>3, <1>4, <1>5, ShorterStep DEF IInv

LEMMA TakeStep ==
    ASSUME IInv, NEW c \in Conns, Take(c)
    PROVE  IInv'
  <1>1. /\ delivered[c] \in Seq(Message) /\ channel[c] \in Seq(Message)
        /\ channel[c] # <<>> /\ writer[c] = NoMessage
    BY DEF Take, IInv, TypeOK
  <1>2. /\ Head(channel[c]) \in Message /\ Tail(channel[c]) \in Seq(Message)
        /\ Len(Tail(channel[c])) = Len(channel[c]) - 1
    BY <1>1, HeadTailProperties
  <1>3. /\ writer' = [writer EXCEPT ![c] = Head(channel[c])]
        /\ channel' = [channel EXCEPT ![c] = Tail(channel[c])]
        /\ delivered' = delivered
    BY DEF Take, TakeFirst
  <1>4. TypeOK'
    <2>1. /\ channel' \in [Conns -> Seq(Message)]
          /\ writer' \in [Conns -> Message \union {NoMessage}]
      BY <1>2, <1>3 DEF IInv, TypeOK
    <2>2. \A d \in Conns : Len(channel'[d]) <= capacity[d]
      <3>1. Len(channel[c]) \in Nat
        BY <1>1
      <3>2. capacity[c] \in Nat
        BY CapacityIsNat DEF IInv
      <3>3. QED
        BY <1>2, <1>3, <3>1, <3>2 DEF IInv, TypeOK
    <2>3. QED
      BY <2>1, <2>2 DEF Take, mapVars, connVars, senderVars, IInv, TypeOK
  <1>5. Pipeline(c)' = Pipeline(c)
    <2>1. Head(channel[c]) # NoMessage
      BY <1>2, SMTT(30) DEF Message, NoMessage
    <2>2. Pipeline(c)' = (delivered[c] \o <<Head(channel[c])>>) \o Tail(channel[c])
      BY <1>3, <2>1 DEF Pipeline, InHand, IInv, TypeOK
    <2>3. Pipeline(c) = delivered[c] \o channel[c]
      BY <1>1, ConcatEmptySeq DEF Pipeline, InHand
    <2>4. channel[c] = <<Head(channel[c])>> \o Tail(channel[c])
      BY <1>1, SubSeqRecursiveFirst, SubSeqFull, TailIsSubSeq
    <2>5. <<Head(channel[c])>> \in Seq(Message)
      BY <1>2
    <2>6. (delivered[c] \o <<Head(channel[c])>>) \o Tail(channel[c])
            = delivered[c] \o (<<Head(channel[c])>> \o Tail(channel[c]))
      BY <1>1, <1>2, <2>5, MessagesAssociate
    <2>7. QED
      BY <2>2, <2>3, <2>4, <2>6
  <1>6. Shorter
    <2>1. \A d \in Conns : d # c => Pipeline(d)' = Pipeline(d)
      BY <1>3 DEF Pipeline, InHand, IInv, TypeOK
    <2>2. \A d \in Conns : Pipeline(d)' = Pipeline(d)
      BY <1>5, <2>1
    <2>3. QED
      BY <2>2 DEF Shorter
  <1>7. published' = published /\ \A s \in Senders, d \in Conns : Ahead(s, d)' => Ahead(s, d)
    BY DEF Take, senderVars, Ahead
  <1>8. (AheadSubscribed /\ SubscribedOpen)'
    BY <1>1, <1>3 DEF Take, mapVars, senderVars, IInv, TypeOK, AheadSubscribed, SubscribedOpen
  <1>9. QED
    BY <1>4, <1>6, <1>7, <1>8, ShorterStep DEF IInv

LEMMA WriteOkStep ==
    ASSUME IInv, NEW c \in Conns, WriteOk(c)
    PROVE  IInv'
  <1>1. TypeOK'
    BY PubWriterAssumption DEF WriteOk, mapVars, connVars, senderVars, IInv, TypeOK, AheadSubscribed
  <1>2. \A u \in Senders, d \in Conns : Ahead(u, d)' => Ahead(u, d)
    BY <1>1 DEF WriteOk, mapVars, connVars, senderVars, IInv, TypeOK, Ahead
  <1>3. AheadSubscribed'
    BY <1>1 DEF WriteOk, mapVars, connVars, senderVars, IInv, TypeOK, AheadSubscribed
  <1>4. SubscribedOpen'
    BY <1>1 DEF WriteOk, mapVars, connVars, senderVars, IInv, TypeOK, SubscribedOpen
  <1>5. Shorter /\ published' = published
    <2>1. /\ delivered[c] \in Seq(Message) /\ channel[c] \in Seq(Message)
          /\ writer[c] \in Message /\ writer[c] # NoMessage
      BY DEF WriteOk, IInv, TypeOK
    <2>2. Pipeline(c) = (delivered[c] \o <<writer[c]>>) \o channel[c]
      BY <2>1 DEF Pipeline, InHand
    <2>3. Pipeline(c)' = (Append(delivered[c], writer[c]) \o <<>>) \o channel[c]
      BY DEF WriteOk, Pipeline, InHand, IInv, TypeOK
    <2>4. Append(delivered[c], writer[c]) = delivered[c] \o <<writer[c]>>
      BY <2>1, AppendIsConcat
    <2>5. Append(delivered[c], writer[c]) \in Seq(Message)
      BY <2>1
    <2>6. Pipeline(c)' = Pipeline(c)
      BY <2>2, <2>3, <2>4, <2>5, ConcatEmptySeq
    <2>7. \A d \in Conns : d # c => Pipeline(d)' = Pipeline(d)
      BY DEF WriteOk, Pipeline, InHand, IInv, TypeOK
    <2>8. \A d \in Conns : Pipeline(d)' = Pipeline(d)
      BY <2>6, <2>7
    <2>9. QED
      BY <2>8 DEF WriteOk, senderVars, Shorter
  <1>6. QED
    BY <1>1, <1>2, <1>3, <1>4, <1>5, ShorterStep DEF IInv

LEMMA WriteFailsStep ==
    ASSUME IInv, NEW c \in Conns, WriteFails(c)
    PROVE  IInv'
  <1>1. TypeOK'
    BY PubWriterAssumption DEF WriteFails, mapVars, connVars, senderVars, IInv, TypeOK, AheadSubscribed
  <1>2. \A u \in Senders, d \in Conns : Ahead(u, d)' => Ahead(u, d)
    BY <1>1 DEF WriteFails, mapVars, connVars, senderVars, IInv, TypeOK, Ahead
  <1>3. AheadSubscribed'
    BY <1>1 DEF WriteFails, mapVars, connVars, senderVars, IInv, TypeOK, AheadSubscribed
  <1>4. SubscribedOpen'
    BY <1>1 DEF WriteFails, mapVars, connVars, senderVars, IInv, TypeOK, SubscribedOpen
  <1>5. Shorter /\ published' = published
    <2>1. /\ delivered[c] \in Seq(Message) /\ channel[c] \in Seq(Message)
          /\ writer[c] \in Message /\ writer[c] # NoMessage
      BY DEF WriteFails, IInv, TypeOK
    <2>2. Pipeline(c) = (delivered[c] \o <<writer[c]>>) \o channel[c]
      BY <2>1 DEF Pipeline, InHand
    <2>3. Pipeline(c)' = (delivered[c] \o <<>>) \o channel[c]
      BY DEF WriteFails, Pipeline, InHand, IInv, TypeOK
    <2>4. \A d \in Conns : d # c => Pipeline(d)' = Pipeline(d)
      BY DEF WriteFails, Pipeline, InHand, IInv, TypeOK
    <2>5. /\ Ordered(Pipeline(c)) => Ordered(Pipeline(c)')
          /\ \A s \in Senders, n \in Nat :
               Before(Pipeline(c), s, n) => Before(Pipeline(c)', s, n)
      BY <2>1, <2>2, <2>3, OmitKeepsOrder
    <2>6. QED
      BY <2>4, <2>5 DEF WriteFails, senderVars, Shorter
  <1>6. QED
    BY <1>1, <1>2, <1>3, <1>4, <1>5, ShorterStep DEF IInv

LEMMA AddConnStep ==
    ASSUME IInv, NEW c \in Conns, AddConn(c)
    PROVE  IInv'
  <1>1. TypeOK'
    <2>1. \A d \in Conns : Len(channel[d]) <= capacity'[d]
      BY PubWriterAssumption DEF AddConn, IInv, TypeOK, SubscribedOpen
    <2>2. QED
      BY <2>1 DEF AddConn, connVars, senderVars, IInv, TypeOK
  <1>2. \A u \in Senders, d \in Conns : Ahead(u, d)' => Ahead(u, d)
    BY <1>1 DEF AddConn, MayLock, mapVars, connVars, senderVars, IInv, TypeOK, Ahead
  <1>3. AheadSubscribed'
    BY <1>1 DEF AddConn, MayLock, mapVars, connVars, senderVars, IInv, TypeOK, AheadSubscribed
  <1>4. SubscribedOpen'
    BY <1>1 DEF AddConn, MayLock, mapVars, connVars, senderVars, IInv, TypeOK, SubscribedOpen
  <1>5. Shorter /\ published' = published
    BY SamePipelines DEF AddConn, MayLock, mapVars, connVars, senderVars
  <1>6. QED
    BY <1>1, <1>2, <1>3, <1>4, <1>5, ShorterStep DEF IInv

LEMMA RmConnStep ==
    ASSUME IInv, NEW c \in Conns, RmConn(c)
    PROVE  IInv'
  <1>1. TypeOK'
    BY PubWriterAssumption DEF RmConn, MayLock, mapVars, connVars, senderVars, IInv, TypeOK, AheadSubscribed
  <1>2. \A u \in Senders, d \in Conns : Ahead(u, d)' => Ahead(u, d)
    BY <1>1 DEF RmConn, MayLock, mapVars, connVars, senderVars, IInv, TypeOK, Ahead
  <1>3. AheadSubscribed'
    BY <1>1 DEF RmConn, MayLock, mapVars, connVars, senderVars, IInv, TypeOK, AheadSubscribed
  <1>4. SubscribedOpen'
    BY <1>1 DEF RmConn, MayLock, mapVars, connVars, senderVars, IInv, TypeOK, SubscribedOpen
  <1>5. Shorter /\ published' = published
    BY SamePipelines DEF RmConn, MayLock, mapVars, connVars, senderVars
  <1>6. QED
    BY <1>1, <1>2, <1>3, <1>4, <1>5, ShorterStep DEF IInv

LEMMA ResubscribeStep ==
    ASSUME IInv, NEW c \in Conns, Resubscribe(c)
    PROVE  IInv'
  <1>1. TypeOK'
    BY PubWriterAssumption DEF Resubscribe, mapVars, connVars, senderVars, IInv, TypeOK, AheadSubscribed
  <1>2. \A u \in Senders, d \in Conns : Ahead(u, d)' => Ahead(u, d)
    BY <1>1 DEF Resubscribe, mapVars, connVars, senderVars, IInv, TypeOK, Ahead
  <1>3. AheadSubscribed'
    BY <1>1 DEF Resubscribe, mapVars, connVars, senderVars, IInv, TypeOK, AheadSubscribed
  <1>4. SubscribedOpen'
    BY <1>1 DEF Resubscribe, mapVars, connVars, senderVars, IInv, TypeOK, SubscribedOpen
  <1>5. Shorter /\ published' = published
    BY SamePipelines DEF Resubscribe, mapVars, connVars, senderVars
  <1>6. QED
    BY <1>1, <1>2, <1>3, <1>4, <1>5, ShorterStep DEF IInv

LEMMA BreakStep ==
    ASSUME IInv, NEW c \in Conns, Break(c)
    PROVE  IInv'
  <1>1. TypeOK'
    BY PubWriterAssumption DEF Break, mapVars, connVars, senderVars, IInv, TypeOK, AheadSubscribed
  <1>2. \A u \in Senders, d \in Conns : Ahead(u, d)' => Ahead(u, d)
    BY <1>1 DEF Break, mapVars, connVars, senderVars, IInv, TypeOK, Ahead
  <1>3. AheadSubscribed'
    BY <1>1 DEF Break, mapVars, connVars, senderVars, IInv, TypeOK, AheadSubscribed
  <1>4. SubscribedOpen'
    BY <1>1 DEF Break, mapVars, connVars, senderVars, IInv, TypeOK, SubscribedOpen
  <1>5. Shorter /\ published' = published
    BY SamePipelines DEF Break, mapVars, connVars, senderVars
  <1>6. QED
    BY <1>1, <1>2, <1>3, <1>4, <1>5, ShorterStep DEF IInv

LEMMA SetHwmStep ==
    ASSUME IInv, NEW h \in Hwms, SetHwm(h)
    PROVE  IInv'
  <1>1. TypeOK'
    BY PubWriterAssumption DEF SetHwm, mapVars, connVars, senderVars, IInv, TypeOK, AheadSubscribed
  <1>2. \A u \in Senders, d \in Conns : Ahead(u, d)' => Ahead(u, d)
    BY <1>1 DEF SetHwm, mapVars, connVars, senderVars, IInv, TypeOK, Ahead
  <1>3. AheadSubscribed'
    BY <1>1 DEF SetHwm, mapVars, connVars, senderVars, IInv, TypeOK, AheadSubscribed
  <1>4. SubscribedOpen'
    BY <1>1 DEF SetHwm, mapVars, connVars, senderVars, IInv, TypeOK, SubscribedOpen
  <1>5. Shorter /\ published' = published
    BY SamePipelines DEF SetHwm, mapVars, connVars, senderVars
  <1>6. QED
    BY <1>1, <1>2, <1>3, <1>4, <1>5, ShorterStep DEF IInv

-----------------------------------------------------------------------------
LEMMA NextIInv == IInv /\ [Next]_vars => IInv'
  <1> SUFFICES ASSUME IInv, [Next]_vars PROVE IInv'
    OBVIOUS
  <1>1. ASSUME NEW s \in Senders, BeginSend(s) \/ SendStep(s) PROVE IInv'
    BY <1>1, BeginSendStep, VisitStep, PutStep, DropStep, EndSendStep DEF SendStep
  <1>2. ASSUME NEW c \in Conns,
               WriterStep(c) \/ AddConn(c) \/ RmConn(c) \/ Resubscribe(c) \/ Break(c)
        PROVE  IInv'
    BY <1>2, TakeStep, WriteOkStep, WriteFailsStep, AddConnStep, RmConnStep,
       ResubscribeStep, BreakStep DEF WriterStep
  <1>3. ASSUME NEW h \in Hwms, SetHwm(h) PROVE IInv'
    BY <1>3, SetHwmStep
  <1>4. CASE UNCHANGED vars
    <2>1. Shorter
      BY <1>4, SamePipelines DEF vars
    <2>2. PipelineOrdered' /\ NumbersKnown' /\ OfferedOnce'
      BY <1>4, <2>1, ShorterStep DEF vars, Ahead
    <2>3. TypeOK' /\ AheadSubscribed' /\ SubscribedOpen'
      BY <1>4 DEF vars, IInv, TypeOK, AheadSubscribed, SubscribedOpen
    <2>4. QED
      BY <2>2, <2>3 DEF IInv
  <1>5. QED
    BY <1>1, <1>2, <1>3, <1>4 DEF Next

(* The strengthened invariant: the lock of Send, the order of the channels *)
(* and the numbers of the senders together (pub.go:201-251).               *)
THEOREM SpecIInv == Spec => []IInv
  BY InitIInv, NextIInv, PTL DEF Spec

(* Type correctness: the channel of a connection never holds more than the *)
(* capacity addConn made it with (pub.go:205).              *)
THEOREM PubWriterTypeCorrect == Spec => []TypeOK
  <1>1. IInv => TypeOK
    BY DEF IInv
  <1>2. QED
    BY <1>1, SpecIInv, PTL

(* Send never offers a message to a closed channel, which would panic: the *)
(* lookup and the send are under one shared lock (pub.go:228-251).         *)
THEOREM PubWriterNeverPanics == Spec => []NoSendOnClosedChannel
  <1>1. ASSUME IInv, NEW s \in Senders, pc[s] = "put"
        PROVE  chanState[at[s]] = "open"
    <2>1. at[s] \in subscribers /\ subscribers \subseteq Conns
      BY <1>1 DEF IInv, TypeOK, AheadSubscribed
    <2>2. QED
      BY <1>1, <2>1 DEF IInv, SubscribedOpen
  <1>2. IInv => NoSendOnClosedChannel
    BY <1>1 DEF NoSendOnClosedChannel
  <1>3. QED
    BY <1>2, SpecIInv, PTL

-----------------------------------------------------------------------------
(* The refinement: a message is published when Send starts and delivered   *)
(* when it is written; all that lies between is hidden.                    *)
fanoutVars == <<published, delivered>>

LEMMA WriteOkDelivers ==
    ASSUME IInv, NEW c \in Conns, WriteOk(c)
    PROVE  \E s \in Senders : AbstractFanout!Deliver(c, s)
  <1>1. /\ delivered[c] \in Seq(Message) /\ channel[c] \in Seq(Message)
        /\ writer[c] # NoMessage /\ writer[c] \in Message
    BY DEF WriteOk, IInv, TypeOK
  <1>2. PICK s \in Senders, n \in 1 .. MaxMessages : writer[c] = <<s, n>>
    BY <1>1 DEF Message
  <1>3. Pipeline(c) = (delivered[c] \o <<<<s, n>>>>) \o channel[c]
    BY <1>1, <1>2 DEF Pipeline, InHand
  <1>4. Ordered((delivered[c] \o <<<<s, n>>>>) \o channel[c])
    BY <1>3 DEF IInv, PipelineOrdered
  <1>5. published[s] + 1 \in Nat
    BY DEF IInv, TypeOK
  <1>6. Before((delivered[c] \o <<<<s, n>>>>) \o channel[c], s, published[s] + 1)
    BY <1>3 DEF IInv, NumbersKnown
  <1>7. <<s, n>> \in Message /\ <<s, n>>[1] = s /\ <<s, n>>[2] = n
    BY DEF Message
  <1>8. /\ Before(delivered[c], <<s, n>>[1], <<s, n>>[2])
        /\ \A m \in Nat :
             Before((delivered[c] \o <<<<s, n>>>>) \o channel[c], <<s, n>>[1], m)
               => <<s, n>>[2] < m
    BY <1>1, <1>4, <1>7, WrittenBeforeHand
  <1>9. Before(delivered[c], s, n) /\ n < published[s] + 1
    BY <1>5, <1>6, <1>7, <1>8
  <1>10. n \in 1 .. published[s]
    BY <1>5, <1>9 DEF IInv, TypeOK
  <1>11. AbstractFanout!InOrder(c, s, n)
    BY <1>9 DEF Before, AbstractFanout!InOrder
  <1>12. /\ delivered' = [delivered EXCEPT ![c] = Append(@, <<s, n>>)]
         /\ published' = published
    BY <1>2 DEF WriteOk, senderVars
  <1>13. QED
    BY <1>10, <1>11, <1>12 DEF AbstractFanout!Deliver

LEMMA StepIsFanout == IInv /\ [Next]_vars => [AbstractFanout!Next]_fanoutVars
  <1> SUFFICES ASSUME IInv, [Next]_vars PROVE [AbstractFanout!Next]_fanoutVars
    OBVIOUS
  <1>1. ASSUME NEW s \in Senders, BeginSend(s) PROVE AbstractFanout!Next
    BY <1>1 DEF BeginSend, AbstractFanout!Next, AbstractFanout!Publish
  <1>2. ASSUME NEW s \in Senders, SendStep(s) PROVE UNCHANGED fanoutVars
    BY <1>2 DEF SendStep, Visit, Put, Drop, EndSend, fanoutVars
  <1>3. ASSUME NEW c \in Conns, WriteOk(c) PROVE AbstractFanout!Next
    BY <1>3, WriteOkDelivers DEF AbstractFanout!Next
  <1>4. ASSUME NEW c \in Conns,
               \/ Take(c) \/ WriteFails(c) \/ AddConn(c) \/ RmConn(c)
               \/ Resubscribe(c) \/ Break(c)
        PROVE  UNCHANGED fanoutVars
    BY <1>4 DEF Take, WriteFails, AddConn, RmConn, Resubscribe, Break, senderVars, fanoutVars
  <1>5. ASSUME NEW h \in Hwms, SetHwm(h) PROVE UNCHANGED fanoutVars
    BY <1>5 DEF SetHwm, senderVars, fanoutVars
  <1>6. CASE UNCHANGED vars
    BY <1>6 DEF vars, fanoutVars
  <1>7. QED
    BY <1>1, <1>2, <1>3, <1>4, <1>5, <1>6 DEF Next, WriterStep

(* A PUB socket is a lossy FIFO fan-out: whatever the lock, the channels,  *)
(* the high water mark and failing streams do, a subscriber gets each      *)
(* message once at most and those of a sender in order (pub.go:180-251).   *)
THEOREM PubWriterImplementsFanout == Spec => ImplementsFanout
  <1>1. Init => AbstractFanout!Init
    BY DEF Init, AbstractFanout!Init
  <1>2. QED
    BY <1>1, StepIsFanout, SpecIInv, PTL DEF Spec, ImplementsFanout, AbstractFanout!Spec, fanoutVars

=============================================================================
