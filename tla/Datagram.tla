------------------------------ MODULE Datagram ------------------------------
(***************************************************************************)
(* The datagram publisher and its subscribers (datagram.go): the list of   *)
(* peers that acceptLoop, the goroutines handlePeer and every Send change, *)
(* and the subscription commands a subscriber writes on the control stream *)
(* of its connection.                                                      *)
(*                                                                         *)
(* A peer is one DatagramSub socket and its connection.  Senders are       *)
(* goroutines in Send, which works on a copy of the list.  What becomes of *)
(* a datagram that SendDatagram accepted is left out: it may be lost, and  *)
(* Recv keeps no state.                                                    *)
(***************************************************************************)
EXTENDS Integers, Sequences, FiniteSets

CONSTANTS
    Peers,         \* subscribers
    Senders,       \* goroutines that call Send
    Topics,        \* topics of subscriptions and messages
    MaxMessages,   \* bound: calls of Send
    MaxOptions     \* bound: calls of SetOption

ASSUME DatagramAssumption == MaxMessages \in Nat /\ MaxOptions \in Nat

VARIABLES
    subs,       \* per subscriber: its set of topics
    pending,    \* per subscriber: what SetOption has to write, if anything
    stage,      \* per subscriber: how far its Dial is
    todo,       \* per subscriber: topics Dial has still to write
    conn,       \* per peer: its QUIC connection is "none", "up" or "down"
    ctrl,       \* per peer: commands on its control stream
    peerList,   \* DatagramPubSocket.peerList
    handler,    \* per peer: where handlePeer stands
    topics,     \* per peer: dgpeer.topics
    cancelled,  \* the publisher was closed
    left,       \* per sender: peers of its copy it has still to visit
    dead,       \* per sender: peers on which SendDatagram failed
    message,    \* per sender: topic and size of its message, or NoMessage
    failed,     \* peers on which some SendDatagram has failed (history)
    sends, options   \* calls of Send and of SetOption so far

vars == <<subs, pending, stage, todo, conn, ctrl, peerList, handler, topics,
          cancelled, left, dead, message, failed, sends, options>>

subVars  == <<subs, pending, stage, todo, options>>
sendVars == <<left, dead, message, failed, sends>>

Command == {0, 1} \X Topics

(* A message has a topic and may exceed the size of a datagram. *)
Message == Topics \X {"fits", "large"}
NoMessage == <<>>

TypeOK ==
    /\ subs \in [Peers -> SUBSET Topics]
    /\ pending \in [Peers -> SUBSET Command]
    /\ stage \in [Peers -> {"new", "connected", "ready"}]
    /\ todo \in [Peers -> SUBSET Topics]
    /\ conn \in [Peers -> {"none", "up", "down"}]
    /\ ctrl \in [Peers -> Seq(Command)]
    /\ peerList \subseteq Peers
    /\ handler \in [Peers -> {"off", "accept", "read", "remove", "exited"}]
    /\ topics \in [Peers -> SUBSET Topics]
    /\ cancelled \in BOOLEAN
    /\ left \in [Senders -> SUBSET Peers]
    /\ dead \in [Senders -> SUBSET Peers]
    /\ message \in [Senders -> Message \union {NoMessage}]
    /\ failed \subseteq Peers
    /\ sends \in 0 .. MaxMessages
    /\ options \in 0 .. MaxOptions

Init ==
    /\ subs = [p \in Peers |-> {}]
    /\ pending = [p \in Peers |-> {}]
    /\ stage = [p \in Peers |-> "new"]
    /\ todo = [p \in Peers |-> {}]
    /\ conn = [p \in Peers |-> "none"]
    /\ ctrl = [p \in Peers |-> <<>>]
    /\ peerList = {}
    /\ handler = [p \in Peers |-> "off"]
    /\ topics = [p \in Peers |-> {}]
    /\ cancelled = FALSE
    /\ left = [s \in Senders |-> {}]
    /\ dead = [s \in Senders |-> {}]
    /\ message = [s \in Senders |-> NoMessage]
    /\ failed = {}
    /\ sends = 0
    /\ options = 0

-----------------------------------------------------------------------------
(* The subscriber. *)

Apply(cmd, set) == IF cmd[1] = 1 THEN set \union {cmd[2]} ELSE set \ {cmd[2]}

(* A write on the control stream; it fails once the connection is down. *)
Written(p, cmd) ==
    IF conn[p] = "up" THEN [ctrl EXCEPT ![p] = Append(@, cmd)] ELSE ctrl

(* Fault variant: Dial does not hold the lock while it replays. *)
LockIgnored(p) == TRUE

LockIsFree(p) == todo[p] = {}

(* SetOption changes the topics; Dial holds the lock while it replays. *)
SetOption(p, cmd) ==
    /\ options < MaxOptions
    /\ pending[p] = {}
    /\ LockIsFree(p)
    /\ subs' = [subs EXCEPT ![p] = Apply(cmd, @)]
    /\ pending' = [pending EXCEPT ![p] = {cmd}]
    /\ options' = options + 1
    /\ UNCHANGED <<stage, todo, conn, ctrl, peerList, handler, topics,
                   cancelled, sendVars>>

(* SetOption writes the command if the control stream exists already. *)
WriteOption(p) ==
    /\ \E cmd \in pending[p] :
         ctrl' = IF stage[p] = "ready" THEN Written(p, cmd) ELSE ctrl
    /\ pending' = [pending EXCEPT ![p] = {}]
    /\ UNCHANGED <<subs, stage, todo, options, conn, peerList, handler, topics,
                   cancelled, sendVars>>

(* The handshake of Dial has succeeded. *)
DialConnects(p) ==
    /\ stage[p] = "new"
    /\ ~cancelled
    /\ stage' = [stage EXCEPT ![p] = "connected"]
    /\ conn' = [conn EXCEPT ![p] = "up"]
    /\ UNCHANGED <<subs, pending, todo, options, ctrl, peerList, handler,
                   topics, cancelled, sendVars>>

(* Fault variant: Dial does not replay the topics of earlier calls. *)
NoReplay(p) == {}

Replay(p) == subs[p]

(* Dial opens the control stream and takes the lock to replay. *)
DialOpens(p) ==
    /\ stage[p] = "connected"
    /\ stage' = [stage EXCEPT ![p] = "ready"]
    /\ todo' = [todo EXCEPT ![p] = Replay(p)]
    /\ UNCHANGED <<subs, pending, options, conn, ctrl, peerList, handler,
                   topics, cancelled, sendVars>>

SubscribeTo(k) == <<1, k>>

DialReplays(p, k) ==
    /\ k \in todo[p]
    /\ todo' = [todo EXCEPT ![p] = @ \ {k}]
    /\ ctrl' = Written(p, SubscribeTo(k))
    /\ UNCHANGED <<subs, pending, stage, options, conn, peerList, handler,
                   topics, cancelled, sendVars>>

(* The subscriber closes its socket, or the path between the two fails. *)
Disconnect(p) ==
    /\ conn[p] = "up"
    /\ conn' = [conn EXCEPT ![p] = "down"]
    /\ ctrl' = [ctrl EXCEPT ![p] = <<>>]
    /\ UNCHANGED <<subVars, peerList, handler, topics, cancelled, sendVars>>

-----------------------------------------------------------------------------
(* The publisher: acceptLoop and handlePeer. *)

(* A connection that is waiting to be accepted may be when Close is called. *)
AcceptPeer(p) ==
    /\ conn[p] # "none"
    /\ handler[p] = "off"
    /\ peerList' = peerList \union {p}
    /\ handler' = [handler EXCEPT ![p] = "accept"]
    /\ UNCHANGED <<subVars, conn, ctrl, topics, cancelled, sendVars>>

(* A stream becomes visible to the acceptor with its first bytes. *)
AcceptStream(p) ==
    /\ handler[p] = "accept"
    /\ ctrl[p] # <<>>
    /\ handler' = [handler EXCEPT ![p] = "read"]
    /\ UNCHANGED <<subVars, conn, ctrl, peerList, topics, cancelled, sendVars>>

(* Fault variant: unsubscribe commands are ignored. *)
OnlyAdds(cmd, set) == set \union {cmd[2]}

ApplyAtPeer(cmd, set) == Apply(cmd, set)

ReadCommand(p) ==
    /\ handler[p] = "read"
    /\ ctrl[p] # <<>>
    /\ topics' = [topics EXCEPT ![p] = ApplyAtPeer(Head(ctrl[p]), @)]
    /\ ctrl' = [ctrl EXCEPT ![p] = Tail(@)]
    /\ UNCHANGED <<subVars, conn, peerList, handler, cancelled, sendVars>>

(* AcceptStream or readSubCmd fails: the deferred function is next. *)
HandlerFails(p) ==
    /\ \/ handler[p] \in {"accept", "read"} /\ conn[p] = "down"
       \/ handler[p] = "accept" /\ cancelled
    /\ handler' = [handler EXCEPT ![p] = "remove"]
    /\ UNCHANGED <<subVars, conn, ctrl, peerList, topics, cancelled, sendVars>>

(* Fault variant: the handler ends without removing its peer. *)
LeavePeer(p) == peerList

WithoutPeer(p) == peerList \ {p}

HandlerRemoves(p) ==
    /\ handler[p] = "remove"
    /\ peerList' = WithoutPeer(p)
    /\ handler' = [handler EXCEPT ![p] = "exited"]
    /\ UNCHANGED <<subVars, conn, ctrl, topics, cancelled, sendVars>>

-----------------------------------------------------------------------------
(* Send. *)

BeginSend(s, m) ==
    /\ message[s] = NoMessage
    /\ sends < MaxMessages
    /\ message' = [message EXCEPT ![s] = m]
    /\ left' = [left EXCEPT ![s] = peerList]
    /\ sends' = sends + 1
    /\ UNCHANGED <<subVars, conn, ctrl, peerList, handler, topics, cancelled,
                   dead, failed>>

(* The topic of s's message is one of p's. *)
Matches(s, p) == message[s][1] \in topics[p]

(* SendDatagram fails on a dead connection, and on a message that is too   *)
(* large for any connection.                                               *)
SendFails(s, p) == conn[p] = "down" \/ message[s][2] = "large"

Visit(s, p) ==
    /\ p \in left[s]
    /\ left' = [left EXCEPT ![s] = @ \ {p}]
    /\ IF Matches(s, p) /\ SendFails(s, p)
       THEN /\ dead' = [dead EXCEPT ![s] = @ \union {p}]
            /\ failed' = failed \union {p}
       ELSE UNCHANGED <<dead, failed>>
    /\ UNCHANGED <<subVars, conn, ctrl, peerList, handler, topics, cancelled,
                   message, sends>>

(* Fault variant: the list is cut off at a dead peer, losing the others. *)
CutOff(s) == IF dead[s] = {} THEN peerList ELSE {}

WithoutDead(s) == peerList \ dead[s]

EndSend(s) ==
    /\ message[s] # NoMessage
    /\ left[s] = {}
    /\ peerList' = WithoutDead(s)
    /\ dead' = [dead EXCEPT ![s] = {}]
    /\ message' = [message EXCEPT ![s] = NoMessage]
    /\ UNCHANGED <<subVars, conn, ctrl, handler, topics, cancelled, left,
                   failed, sends>>

-----------------------------------------------------------------------------
(* Fault variant: Close leaves the connections alone. *)
StayUp(p) == conn[p]

AfterClose(p) == IF conn[p] = "up" THEN "down" ELSE conn[p]

(* Close cancels the context and closes the UDP socket below every         *)
(* connection.                                                             *)
Close ==
    /\ ~cancelled
    /\ cancelled' = TRUE
    /\ conn' = [p \in Peers |-> AfterClose(p)]
    /\ ctrl' = [p \in Peers |-> <<>>]
    /\ UNCHANGED <<subVars, peerList, handler, topics, sendVars>>

-----------------------------------------------------------------------------
SubscriberStep(p) ==
    WriteOption(p) \/ DialOpens(p) \/ \E k \in Topics : DialReplays(p, k)

HandlerStep(p) ==
    AcceptStream(p) \/ ReadCommand(p) \/ HandlerFails(p) \/ HandlerRemoves(p)

SendStep(s) == EndSend(s) \/ \E p \in Peers : Visit(s, p)

Next ==
    \/ \E p \in Peers : \/ \E cmd \in Command : SetOption(p, cmd)
                        \/ DialConnects(p) \/ SubscriberStep(p) \/ Disconnect(p)
                        \/ AcceptPeer(p) \/ HandlerStep(p)
    \/ \E s \in Senders : SendStep(s) \/ \E m \in Message : BeginSend(s, m)
    \/ Close

Spec == Init /\ [][Next]_vars

(* Goroutines run: a call of Dial or SetOption in progress, acceptLoop and *)
(* the handlers.  Senders need not go on.                                  *)
Fairness ==
    \A p \in Peers : /\ WF_vars(SubscriberStep(p))
                     /\ WF_vars(~cancelled /\ AcceptPeer(p))
                     /\ WF_vars(HandlerStep(p))

FairSpec == Spec /\ Fairness

-----------------------------------------------------------------------------
(* A peer that its handler has removed does not come back, although a Send *)
(* may still work on a copy of the list that contains it.                  *)
GoneStaysGone == \A p \in Peers : handler[p] = "exited" => p \notin peerList

(* A peer with a handler is in the list unless sending to it has failed:   *)
(* no Send and no other handler removes it by mistake, also if it was      *)
(* accepted after the copy was made.                                       *)
NoPeerForgotten ==
    \A p \in Peers :
        handler[p] \in {"accept", "read"} => p \in peerList \union failed

(* What the publisher will have for topic k when it has read all commands  *)
(* that are on their way: a subscription no command takes back.            *)
WillHave(p, k) ==
    \E i \in 0 .. Len(ctrl[p]) :
        /\ IF i = 0 THEN k \in topics[p] ELSE ctrl[p][i] = <<1, k>>
        /\ \A j \in i + 1 .. Len(ctrl[p]) : ctrl[p][j] # <<0, k>>

(* The publisher's filter does not drift from DatagramSubSocket.Topics(),  *)
(* whether a topic was chosen before, during or after Dial (datagram.go    *)
(* 413-421 and 426-447): once the control stream is set, a topic will be   *)
(* subscribed exactly if the socket is subscribed to it, unless a command  *)
(* about it, or its replay, has still to be written.                       *)
NoDrift ==
    \A p \in Peers, k \in Topics : conn[p] = "up" /\ stage[p] = "ready" =>
        \/ WillHave(p, k) <=> k \in subs[p]
        \/ \E cmd \in pending[p] : cmd[2] = k
        \/ k \in todo[p]

(* Once the calls of SetOption end, the publisher filters by exactly the   *)
(* topics of each subscriber that stays connected, those it chose before   *)
(* and during Dial included.                                               *)
TopicsConverge ==
    <>[](\A p \in Peers : conn[p] = "up" /\ stage[p] = "ready" => topics[p] = subs[p])

(* A subscriber that went away does not stay in the list. *)
LostPeerIsRemoved ==
    \A p \in Peers : conn[p] = "down" /\ p \in peerList ~> p \notin peerList

(* Close ends every goroutine that serves a peer. *)
CloseEndsHandlers ==
    <>[](cancelled => \A p \in Peers : handler[p] \in {"off", "exited"})

(* datagram.go 218-219, handlePeer "removes the peer when the stream       *)
(* closes": a peer whose control stream is open stays in the list.         *)
OpenStreamKeepsPeer ==
    \A p \in Peers : handler[p] = "read" /\ conn[p] = "up" => p \in peerList

=============================================================================
