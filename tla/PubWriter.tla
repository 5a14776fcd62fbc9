----------------------------- MODULE PubWriter -----------------------------
(***************************************************************************)
(* The outgoing side of a PUB socket (pub.go, pubMWriter): Send filters a  *)
(* message by the topics of each connection and queues it in the bounded   *)
(* channel of those that match, where a goroutine per connection takes it  *)
(* and writes it to the stream.  A full channel drops the message.         *)
(*                                                                         *)
(* Senders are goroutines in Send.  They hold pubMWriter.mu shared while   *)
(* they walk the map of subscribers; addConn and rmConn, which closes the  *)
(* channel, hold it exclusively.                                           *)
(***************************************************************************)
EXTENDS Integers, Sequences

CONSTANTS
    Senders,       \* goroutines that call Send
    Conns,         \* connections to subscribers, each used once
    NoConn,        \* no connection
    Hwms,          \* values OptionHWM is set to
    MaxMessages    \* bound: messages per sender

ASSUME PubWriterAssumption ==
    NoConn \notin Conns /\ Hwms \subseteq Nat /\ MaxMessages \in Nat

VARIABLES
    hwm,           \* pubMWriter.hwm, read when a connection is added
    subscribers,   \* domain of the map subscribers
    channel,       \* per connection: the messages in its channel
    capacity,      \* per connection: the capacity its channel was made with
    chanState,     \* per connection: "none", "open" or "closed"
    matching,      \* connections whose topics match the messages sent
    writer,        \* per connection: the message its goroutine has in hand
    broken,        \* connections whose stream has failed or was closed
    closed,        \* connections with the flag Conn.closed set
    pc, at,        \* per sender: where it is, and at which subscriber
    left,          \* per sender: subscribers its loop has still to visit
    published,     \* per sender: messages started so far
    delivered      \* per connection: messages written to its stream

vars == <<hwm, subscribers, channel, capacity, chanState, matching, writer,
          broken, closed, pc, at, left, published, delivered>>

mapVars    == <<subscribers, capacity, chanState>>
connVars   == <<matching, broken, closed>>
senderVars == <<pc, at, left, published>>

Message == Senders \X (1 .. MaxMessages)
NoMessage == <<>>

TypeOK ==
    /\ hwm \in Hwms
    /\ subscribers \subseteq Conns
    /\ channel \in [Conns -> Seq(Message)]
    /\ \A c \in Conns : Len(channel[c]) <= capacity[c]
    /\ capacity \in [Conns -> Hwms \union {0}]
    /\ chanState \in [Conns -> {"none", "open", "closed"}]
    /\ matching \union broken \union closed \subseteq Conns
    /\ writer \in [Conns -> Message \union {NoMessage}]
    /\ pc \in [Senders -> {"idle", "loop", "put"}]
    /\ at \in [Senders -> Conns \union {NoConn}]
    /\ left \in [Senders -> SUBSET Conns]
    /\ published \in [Senders -> 0 .. MaxMessages]
    /\ delivered \in [Conns -> Seq(Message)]

Init ==
    /\ hwm \in Hwms
    /\ subscribers = {}
    /\ channel = [c \in Conns |-> <<>>]
    /\ capacity = [c \in Conns |-> 0]
    /\ chanState = [c \in Conns |-> "none"]
    /\ matching = {}
    /\ writer = [c \in Conns |-> NoMessage]
    /\ broken = {}
    /\ closed = {}
    /\ pc = [s \in Senders |-> "idle"]
    /\ at = [s \in Senders |-> NoConn]
    /\ left = [s \in Senders |-> {}]
    /\ published = [s \in Senders |-> 0]
    /\ delivered = [c \in Conns |-> <<>>]

-----------------------------------------------------------------------------
(* pubMWriter.mu. *)

(* Fault variant: rmConn and addConn do not wait for the senders. *)
NoLock == TRUE

MayLock == \A s \in Senders : pc[s] = "idle"

(* The message a sender is sending. *)
Current(s) == <<s, published[s]>>

(* Send: take the lock and start to walk the subscribers. *)
BeginSend(s) ==
    /\ pc[s] = "idle"
    /\ published[s] < MaxMessages
    /\ published' = [published EXCEPT ![s] = @ + 1]
    /\ left' = [left EXCEPT ![s] = subscribers]
    /\ pc' = [pc EXCEPT ![s] = "loop"]
    /\ UNCHANGED <<hwm, mapVars, channel, connVars, writer, at, delivered>>

(* The next subscriber, in the map's random order, is filtered. *)
Visit(s, c) ==
    /\ pc[s] = "loop"
    /\ c \in left[s]
    /\ left' = [left EXCEPT ![s] = @ \ {c}]
    /\ IF c \in matching
       THEN /\ pc' = [pc EXCEPT ![s] = "put"]
            /\ at' = [at EXCEPT ![s] = c]
       ELSE UNCHANGED <<pc, at>>
    /\ UNCHANGED <<hwm, mapVars, channel, connVars, writer, published, delivered>>

(* Fault variant: one message more than the capacity. *)
OneTooMany(c) == Len(channel[c]) <= capacity[c]

HasRoom(c) == Len(channel[c]) < capacity[c]

(* A goroutine that waits on an unbuffered channel takes a message itself. *)
Waits(c) == capacity[c] = 0 /\ writer[c] = NoMessage

(* The select of Send, when the channel accepts the message. *)
Put(s) ==
    LET c == at[s] IN
    /\ pc[s] = "put"
    /\ \/ /\ HasRoom(c)
          /\ channel' = [channel EXCEPT ![c] = Append(@, Current(s))]
          /\ UNCHANGED writer
       \/ /\ Waits(c)
          /\ writer' = [writer EXCEPT ![c] = Current(s)]
          /\ UNCHANGED channel
    /\ pc' = [pc EXCEPT ![s] = "loop"]
    /\ UNCHANGED <<hwm, mapVars, connVars, at, left, published, delivered>>

(* Fault variant: the select has no default and waits for room. *)
NeverDrops(s) == FALSE

MayDrop(s) == ~HasRoom(at[s])

(* The default of the select: the subscriber is slow, drop the message.  A *)
(* goroutine about to wait on an unbuffered channel may not wait yet.      *)
Drop(s) ==
    /\ pc[s] = "put"
    /\ MayDrop(s)
    /\ pc' = [pc EXCEPT ![s] = "loop"]
    /\ UNCHANGED <<hwm, mapVars, channel, connVars, writer, at, left,
                   published, delivered>>

(* Where Send stops: at the end of the map, or in the select if its        *)
(* context is done, which leaves the other subscribers without the message. *)
EndSend(s) ==
    /\ \/ pc[s] = "loop" /\ left[s] = {}
       \/ pc[s] = "put"
    /\ pc' = [pc EXCEPT ![s] = "idle"]
    /\ left' = [left EXCEPT ![s] = {}]
    /\ UNCHANGED <<hwm, mapVars, channel, connVars, writer, at, published,
                   delivered>>

-----------------------------------------------------------------------------
(* The goroutine of a connection: "for msg := range c { w.SendMsg(msg) }". *)

(* Fault variant: the newest message is taken first. *)
TakeLast(q) == q[Len(q)]
TakeFirst(q) == Head(q)

Take(c) ==
    /\ writer[c] = NoMessage
    /\ channel[c] # <<>>
    /\ writer' = [writer EXCEPT ![c] = TakeFirst(channel[c])]
    /\ channel' = [channel EXCEPT ![c] = Tail(@)]
    /\ UNCHANGED <<hwm, mapVars, connVars, senderVars, delivered>>

(* SendMsg on a sound stream. *)
WriteOk(c) ==
    /\ writer[c] # NoMessage
    /\ c \notin closed \union broken
    /\ delivered' = [delivered EXCEPT ![c] = Append(@, writer[c])]
    /\ writer' = [writer EXCEPT ![c] = NoMessage]
    /\ UNCHANGED <<hwm, mapVars, channel, connVars, senderVars>>

(* SendMsg fails and marks the connection closed; the message is lost. *)
WriteFails(c) ==
    /\ writer[c] # NoMessage
    /\ c \in closed \union broken
    /\ closed' = closed \union {c}
    /\ writer' = [writer EXCEPT ![c] = NoMessage]
    /\ UNCHANGED <<hwm, mapVars, channel, matching, broken, senderVars, delivered>>

-----------------------------------------------------------------------------
(* Connections, their topics and the high water mark. *)

AddConn(c) ==
    /\ MayLock
    /\ chanState[c] = "none"
    /\ subscribers' = subscribers \union {c}
    /\ chanState' = [chanState EXCEPT ![c] = "open"]
    /\ capacity' = [capacity EXCEPT ![c] = hwm]
    /\ UNCHANGED <<hwm, channel, connVars, writer, senderVars, delivered>>

(* The reaper removes a closed connection: its stream and its channel are  *)
(* closed.  The goroutine drains what is left in the channel.              *)
RmConn(c) ==
    /\ MayLock
    /\ c \in subscribers \cap closed
    /\ subscribers' = subscribers \ {c}
    /\ chanState' = [chanState EXCEPT ![c] = "closed"]
    /\ broken' = broken \union {c}
    /\ UNCHANGED <<hwm, channel, capacity, matching, closed, writer,
                   senderVars, delivered>>

(* pubQReader.listen applies a command that changes whether c matches. *)
Resubscribe(c) ==
    /\ c \in subscribers \ closed
    /\ \/ c \notin matching /\ matching' = matching \union {c}
       \/ c \in matching /\ matching' = matching \ {c}
    /\ UNCHANGED <<hwm, mapVars, channel, broken, closed, writer, senderVars,
                   delivered>>

(* The stream fails and the connection's reader notices, or does not yet. *)
Break(c) ==
    /\ c \in subscribers \ broken
    /\ broken' = broken \union {c}
    /\ closed' \in {closed, closed \union {c}}
    /\ UNCHANGED <<hwm, mapVars, channel, matching, writer, senderVars,
                   delivered>>

(* SetOption(OptionHWM). *)
SetHwm(h) ==
    /\ h # hwm
    /\ hwm' = h
    /\ UNCHANGED <<mapVars, channel, connVars, writer, senderVars, delivered>>

-----------------------------------------------------------------------------
SendStep(s) == Put(s) \/ Drop(s) \/ EndSend(s) \/ \E c \in Conns : Visit(s, c)

WriterStep(c) == Take(c) \/ WriteOk(c) \/ WriteFails(c)

Next ==
    \/ \E s \in Senders : BeginSend(s) \/ SendStep(s)
    \/ \E c \in Conns : WriterStep(c) \/ AddConn(c) \/ RmConn(c)
                        \/ Resubscribe(c) \/ Break(c)
    \/ \E h \in Hwms : SetHwm(h)

Spec == Init /\ [][Next]_vars

(* A sender runs until its context is done or it has seen all subscribers. *)
(* EndSend may stop it early but is not relied upon: only the loop, Put    *)
(* and Drop are fair.  Nothing is assumed of the subscribers, so a writer  *)
(* goroutine may be stuck in SendMsg for ever.                             *)
Fairness ==
    \A s \in Senders :
        WF_vars(\/ Put(s) \/ Drop(s) \/ (pc[s] = "loop" /\ EndSend(s))
                \/ \E c \in Conns : Visit(s, c))

FairSpec == Spec /\ Fairness

-----------------------------------------------------------------------------
(* A sender never offers a message to a channel that rmConn has closed (in *)
(* Go that would panic): the shared lock of Send excludes the exclusive    *)
(* one of rmConn from the lookup of the channel to the send.               *)
NoSendOnClosedChannel == \A s \in Senders : pc[s] = "put" => chanState[at[s]] = "open"

(* The high water mark isolates the senders from slow subscribers: Send    *)
(* returns even if no subscriber ever takes a message from its channel and *)
(* the context has no deadline.                                            *)
SendReturns == \A s \in Senders : pc[s] # "idle" ~> pc[s] = "idle"

(* Towards its subscribers the socket is a lossy FIFO fan-out. *)
AbstractFanout == INSTANCE Fanout
ImplementsFanout == AbstractFanout!Spec

=============================================================================
