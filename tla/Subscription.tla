---------------------------- MODULE Subscription ----------------------------
(***************************************************************************)
(* How the topics a SUB socket subscribes to reach its publishers: the set *)
(* of topics kept by sub.go, the commands SetOption sends on every         *)
(* connection, the replay of all topics on a new connection, and the       *)
(* publisher's side (pubQReader.listen, Conn.subscribe, Recv of an XPUB).  *)
(*                                                                         *)
(* Setters are goroutines that call SetOption.  SetOption changes the set  *)
(* under sub.mu and sends the command later, under socket.mu (shared) and  *)
(* the writer's mutex; addConn holds socket.mu (exclusive) throughout.     *)
(*                                                                         *)
(* The application may also Send messages that are no commands.  The       *)
(* publisher puts them in a channel, from which an XPUB's Recv takes them; *)
(* while it is full, the commands behind them wait in the stream.          *)
(*                                                                         *)
(* Messages are whole here, so the module assumes of the application that  *)
(* it calls no Send while a new connection gets its topics.  Nothing in    *)
(* the code sees to that: module Pools has the writes of the two, and      *)
(* shows that they mix (Pools, WholeMessages).                             *)
(***************************************************************************)
EXTENDS Integers, Sequences, FiniteSets

CONSTANTS
    Setters,     \* goroutines that call SetOption
    Topics,      \* topics they subscribe to and unsubscribe from
    Conns,       \* connections to a publisher, each used once
    NoConn,      \* no addConn is in progress
    Data,        \* a message that is no command
    QueueSize,   \* room in pubQReader.c
    MaxData,     \* bound: calls of Send
    MaxOptions   \* bound: calls of SetOption

ASSUME SubscriptionAssumption ==
    /\ NoConn \notin Conns
    /\ Data \notin {0, 1} \X Topics
    /\ QueueSize \in Nat \ {0}
    /\ MaxData \in Nat /\ MaxOptions \in Nat

VARIABLES
    subs,       \* sub.subs
    pending,    \* per setter: the commands it has to send, one at most
    conns,      \* the socket's connections
    adding,     \* the connection whose addConn is in progress, or NoConn
    todo,       \* topics onConnAdded has still to send on it
    wire,       \* per connection: messages under way, in order
    topics,     \* per connection: Conn.topics at the publisher
    broken,     \* connections whose stream has failed
    hand,       \* connections whose reader has a message for pubQReader.c
    queued,     \* number of messages in pubQReader.c
    sent,       \* calls of Send so far
    options     \* calls of SetOption so far

sendVars == <<subs, pending, options>>
addVars == <<conns, adding, todo>>
recvVars == <<hand, queued>>
vars == <<sendVars, addVars, wire, topics, broken, recvVars, sent>>

(* A command frame: 1 or 0 (subscribe or unsubscribe) and the topic. *)
Command == {0, 1} \X Topics

TypeOK ==
    /\ subs \subseteq Topics
    /\ \A t \in Setters : pending[t] \subseteq Command
    /\ conns \subseteq Conns
    /\ adding \in Conns \union {NoConn}
    /\ todo \subseteq Topics
    /\ wire \in [Conns -> Seq(Command \union {Data})]
    /\ topics \in [Conns -> SUBSET Topics]
    /\ broken \subseteq Conns
    /\ hand \subseteq Conns
    /\ queued \in 0 .. QueueSize
    /\ sent \in 0 .. MaxData
    /\ options \in 0 .. MaxOptions

Init ==
    /\ subs = {}
    /\ pending = [t \in Setters |-> {}]
    /\ conns = {}
    /\ adding = NoConn
    /\ todo = {}
    /\ wire = [c \in Conns |-> <<>>]
    /\ topics = [c \in Conns |-> {}]
    /\ broken = {}
    /\ hand = {}
    /\ queued = 0
    /\ sent = 0
    /\ options = 0

-----------------------------------------------------------------------------
(* The effect of a command on a set of topics, at either end. *)
Apply(cmd, set) == IF cmd[1] = 1 THEN set \union {cmd[2]} ELSE set \ {cmd[2]}

(* SetOption, up to the change of sub.subs. *)
SetOption(t, cmd) ==
    /\ options < MaxOptions
    /\ pending[t] = {}
    /\ subs' = Apply(cmd, subs)
    /\ pending' = [pending EXCEPT ![t] = {cmd}]
    /\ options' = options + 1
    /\ UNCHANGED <<addVars, wire, topics, broken, recvVars, sent>>

(* Fault variant: the command goes to one of the connections only. *)
OneReceiver == IF conns = {} THEN {} ELSE {CHOOSE c \in conns : TRUE}

Receivers == conns

(* mwriter.write sends a message on every connection.  What is written to  *)
(* a broken stream is lost.                                                *)
Write(m) ==
    wire' = [c \in Conns |-> IF c \in Receivers \ broken
                             THEN Append(wire[c], m) ELSE wire[c]]

(* SetOption, the rest. *)
SendCommand(t) ==
    \E cmd \in pending[t] :
        /\ adding = NoConn
        /\ Write(cmd)
        /\ pending' = [pending EXCEPT ![t] = {}]
        /\ UNCHANGED <<subs, options, addVars, topics, broken, recvVars, sent>>

(* Send, called by the application, which does not take socket.mu: that it *)
(* does not overlap a replay is the assumption made above.                 *)
Send ==
    /\ sent < MaxData
    /\ adding = NoConn
    /\ Write(Data)
    /\ sent' = sent + 1
    /\ UNCHANGED <<sendVars, addVars, topics, broken, recvVars>>

-----------------------------------------------------------------------------
(* Fault variant: a new connection starts without subscriptions. *)
NoReplay == {}

Replay == subs

(* addConn, after Dial or an automatic reconnect: the connection is        *)
(* registered and onConnAdded takes the topics to replay.                  *)
BeginAddConn(c) ==
    /\ adding = NoConn
    /\ c \notin conns \union broken
    /\ conns' = conns \union {c}
    /\ adding' = c
    /\ todo' = Replay
    /\ UNCHANGED <<sendVars, wire, topics, broken, recvVars, sent>>

(* Fault variant: the frame is built the wrong way round. *)
TopicFirst(k) == <<k, 1>>

SubscribeTo(k) == <<1, k>>

(* onConnAdded sends one more topic. *)
ReplayTopic(k) ==
    /\ adding # NoConn
    /\ k \in todo
    /\ todo' = todo \ {k}
    /\ wire' = IF adding \in broken THEN wire
               ELSE [wire EXCEPT ![adding] = Append(@, SubscribeTo(k))]
    /\ UNCHANGED <<sendVars, conns, adding, topics, broken, recvVars, sent>>

EndAddConn ==
    /\ adding # NoConn
    /\ todo = {}
    /\ adding' = NoConn
    /\ UNCHANGED <<sendVars, conns, todo, wire, topics, broken, recvVars, sent>>

(* The stream fails; what was under way is lost. *)
Break(c) ==
    /\ c \in conns \ broken
    /\ broken' = broken \union {c}
    /\ wire' = [wire EXCEPT ![c] = <<>>]
    /\ UNCHANGED <<sendVars, addVars, topics, recvVars, sent>>

(* The reaper removes a broken connection (module Socket). *)
RmConn(c) ==
    /\ c \in conns \cap broken
    /\ adding = NoConn
    /\ conns' = conns \ {c}
    /\ UNCHANGED <<sendVars, adding, todo, wire, topics, broken, recvVars,
                   sent>>

-----------------------------------------------------------------------------
(* Fault variant: the publisher only ever adds topics. *)
OnlyAdds(cmd, set) == set \union {cmd[2]}

Subscribe(cmd, set) == Apply(cmd, set)

(* pubQReader.listen reads a message, *)
PubReads(c) ==
    /\ c \notin broken \union hand
    /\ wire[c] # <<>>
    /\ wire' = [wire EXCEPT ![c] = Tail(@)]

(* which is a command, and Conn.subscribe applies it, *)
PubApplies(c) ==
    /\ PubReads(c)
    /\ Head(wire[c]) # Data
    /\ topics' = [topics EXCEPT ![c] = Subscribe(Head(wire[c]), @)]
    /\ UNCHANGED <<sendVars, addVars, broken, recvVars, sent>>

(* or is none, *)
PubReadsData(c) ==
    /\ PubReads(c)
    /\ Head(wire[c]) = Data
    /\ hand' = hand \union {c}
    /\ UNCHANGED <<sendVars, addVars, topics, broken, queued, sent>>

(* and waits for room in the channel, also after the stream has failed. *)
PubEnqueues(c) ==
    /\ c \in hand
    /\ queued < QueueSize
    /\ hand' = hand \ {c}
    /\ queued' = queued + 1
    /\ UNCHANGED <<sendVars, addVars, wire, topics, broken, sent>>

PubListens(c) == PubApplies(c) \/ PubReadsData(c) \/ PubEnqueues(c)

(* Recv of an XPUB; that of a PUB returns an error and takes nothing. *)
XPubRecv ==
    /\ queued > 0
    /\ queued' = queued - 1
    /\ UNCHANGED <<sendVars, addVars, wire, topics, broken, hand, sent>>

-----------------------------------------------------------------------------
AddConnStep == EndAddConn \/ \E k \in Topics : ReplayTopic(k)

Next ==
    \/ \E t \in Setters :
         SendCommand(t) \/ \E cmd \in Command : SetOption(t, cmd)
    \/ AddConnStep \/ Send \/ XPubRecv
    \/ \E c \in Conns :
         BeginAddConn(c) \/ Break(c) \/ RmConn(c) \/ PubListens(c)

Spec == Init /\ [][Next]_vars

(* Calls in progress run, a live publisher reads its connections, and its  *)
(* application calls Recv.                                                 *)
Fairness ==
    /\ WF_vars(AddConnStep)
    /\ \A t \in Setters : WF_vars(SendCommand(t))
    /\ \A c \in Conns : WF_vars(PubListens(c))
    /\ WF_vars(XPubRecv)

FairSpec == Spec /\ Fairness

-----------------------------------------------------------------------------
Live == conns \ broken

(* What the publisher will have for topic k on c when it has read all the  *)
(* commands that are on their way: the last one about k decides.           *)
WillHave(c, k) ==
    LET about == {i \in 1 .. Len(wire[c]) : wire[c][i] \in {0, 1} \X {k}} IN
    IF about = {}
    THEN k \in topics[c]
    ELSE \E i \in about : wire[c][i][1] = 1 /\ \A j \in about : j <= i

(* The publishers' view does not drift from sub.Topics(): on every live    *)
(* connection, however it was added among the calls of SetOption, a topic  *)
(* will be subscribed exactly if the socket is subscribed to it, unless a  *)
(* command about it, or its replay, has still to be sent.                  *)
NoDrift ==
    \A c \in Live, k \in Topics :
        \/ WillHave(c, k) <=> k \in subs
        \/ \E t \in Setters : \E cmd \in pending[t] : cmd[2] = k
        \/ c = adding /\ k \in todo

(* Once the calls of SetOption end, every connection that stays up ends up *)
(* filtering on exactly the topics of the socket, across reconnects and    *)
(* behind messages for which the publisher had no room.                    *)
Convergence == <>[](\A c \in Live : topics[c] = subs)

=============================================================================
