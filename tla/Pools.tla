------------------------------- MODULE Pools -------------------------------
(***************************************************************************)
(* The pools of the sockets that have none of their own kind (msgio.go):   *)
(* mwriter writes a message to each connection in turn, under its mutex;   *)
(* qreader reads each connection in a goroutine, listen, and hands what it *)
(* reads to Recv through a bounded channel.  The module puts them together *)
(* with what locks and blocks around them: Conn.SendMsg, which needs       *)
(* several writes for one message and waits while the peer's flow control  *)
(* window is full, addConn, the reaper's rmConn and Close.                 *)
(*                                                                         *)
(* The socket is a SUB (sub.go) or an XSUB (xsub.go).  A SUB sends its     *)
(* topics in SetOption, with socket.mu held shared, and replays them to a  *)
(* new connection in addConn, without the writer's mutex; an XSUB replays  *)
(* none.  Send, of both, takes the writer's mutex only.                    *)
(***************************************************************************)
EXTENDS Integers, Sequences

CONSTANTS
    Threads,      \* goroutines that call SetOption or Send
    Conns,        \* connections the socket may get
    Reaper,       \* the goroutine connReaper
    NoOne,        \* nobody holds a mutex; the reaper removes nothing
    Replay,       \* the writer of the topics in addConn
    Parts,        \* writes of one message (three per frame in the code)
    Window,       \* writes a stream takes before its peer has read any
    QueueSize,    \* capacity of qreader.c (10 in the code)
    MaxSends      \* bound: calls of SetOption or Send

ASSUME PoolsAssumption ==
    /\ NoOne \notin Threads \union Conns \union {Reaper}
    /\ Reaper \notin Conns /\ Replay \notin Threads
    /\ Parts \in Nat \ {0} /\ Window \in Nat \ {0} /\ QueueSize \in Nat
    /\ MaxSends \in Nat

VARIABLES
    isSub,         \* the socket is a SUB, else an XSUB
    setters,       \* threads that call SetOption, the others call Send
    mu, readers,   \* socket.mu: who holds it, and who shares it
    writer,        \* mwriter.mu
    conns, ws,     \* socket.conns, and mwriter.ws in its order
    adder,         \* per connection: where its addConn is
    replayed,      \* per connection: writes of the replay done so far
    queued,        \* closedConns, and the rest of what the reaper took of them
    reaping,       \* the connection the reaper removes, or NoOne
    pc,            \* per thread: where it is
    at, part,      \* per thread: the index in ws, and the next write
    sends,         \* calls so far
    half,          \* per connection: the writer and the last write of a
                   \* message that is not written to its end, or <<>>
                   \* (also when messages are mixed up)
    mixed,         \* per connection: who wrote the first two messages that
                   \* are mixed up on its stream
    fill,          \* per connection: writes its peer has not read
    broken,        \* connections whose stream has failed
    ended,         \* connections whose stream this end has closed
    caught,        \* writers in a Write on a stream when it was closed
    closed,        \* connections with the flag Conn.closed set
    listening,     \* connections whose goroutine listen runs
    hand,          \* per connection: what listen is queueing
    inbox,         \* number of messages in qreader.c
    closing        \* where Close is; its first step ends the context

vars == <<isSub, setters, mu, readers, writer, conns, ws, adder, replayed,
          queued, reaping, pc, at, part, sends, half, mixed, fill, broken,
          ended, caught, closed, listening, hand, inbox, closing>>

kind     == <<isSub, setters>>
locks    == <<kind, mu, readers>>
pool     == <<conns, ws>>
addVars  == <<adder, replayed>>
callVars == <<pc, at, part, sends>>
wire     == <<half, mixed, fill>>
sides    == <<ended, caught>>
readVars == <<listening, hand, inbox>>

TypeOK ==
    /\ isSub \in BOOLEAN /\ setters \subseteq Threads
    /\ mu \in Conns \union {Reaper, NoOne} /\ readers \subseteq Threads
    /\ mu # NoOne => readers = {}
    /\ writer \in Threads \union {NoOne}
    /\ conns \subseteq Conns
    /\ ws \in Seq(Conns) /\ {ws[i] : i \in 1 .. Len(ws)} = conns
    /\ adder \in [Conns -> {"fresh", "lock", "register", "replay", "done"}]
    /\ replayed \in [Conns -> 0 .. Parts]
    /\ queued \union broken \union ended \union closed \subseteq Conns
    /\ reaping \in Conns \union {NoOne}
    /\ pc \in [Threads -> {"idle", "rlock", "lock", "write"}]
    /\ at \in [Threads -> Nat \ {0}]
    /\ part \in [Threads -> 1 .. Parts]
    /\ sends \in 0 .. MaxSends
    /\ half \in [Conns -> {<<>>} \union (Threads \union {Replay}) \X (1 .. Parts - 1)]
    /\ mixed \in [Conns -> SUBSET (Threads \union {Replay})]
    /\ fill \in [Conns -> 0 .. Window]
    /\ caught \subseteq Threads \union {Replay}
    /\ listening \subseteq Conns
    /\ hand \in [Conns -> {"nothing", "message", "error"}]
    /\ inbox \in 0 .. QueueSize
    /\ closing \in {"no", "rlock", "done"}

Init ==
    /\ isSub \in BOOLEAN
    /\ setters \in IF isSub THEN SUBSET Threads ELSE {{}}
    /\ mu = NoOne /\ readers = {} /\ writer = NoOne
    /\ conns = {} /\ ws = <<>>
    /\ adder = [c \in Conns |-> "fresh"]
    /\ replayed = [c \in Conns |-> 0]
    /\ queued = {} /\ reaping = NoOne
    /\ pc = [t \in Threads |-> "idle"]
    /\ at = [t \in Threads |-> 1]
    /\ part = [t \in Threads |-> 1]
    /\ sends = 0
    /\ half = [c \in Conns |-> <<>>]
    /\ mixed = [c \in Conns |-> {}]
    /\ fill = [c \in Conns |-> 0]
    /\ broken = {} /\ ended = {} /\ caught = {} /\ closed = {}
    /\ listening = {}
    /\ hand = [c \in Conns |-> "nothing"]
    /\ inbox = 0
    /\ closing = "no"

cancelled == closing # "no"

-----------------------------------------------------------------------------
(* Conn *)

(* Write k of a message of w, where Replay writes the topics, continues    *)
(* the message it belongs to, or it mixes two messages.                    *)
Continues(c, w, k) == half[c] = IF k = 1 THEN <<>> ELSE <<w, k - 1>>

Write(c, w, k) ==
    /\ fill[c] < Window
    /\ c \in ended => w \in caught
    /\ IF mixed[c] = {} /\ Continues(c, w, k)
       THEN /\ half' = [half EXCEPT ![c] = IF k = Parts THEN <<>> ELSE <<w, k>>]
            /\ UNCHANGED mixed
       ELSE /\ mixed' = [mixed EXCEPT ![c] = IF @ = {} THEN {half[c][1], w} ELSE @]
            /\ half' = [half EXCEPT ![c] = <<>>]
    /\ fill' = [fill EXCEPT ![c] = @ + 1]
    /\ caught' = caught \ {w}

(* A write fails, whatever the window, when the stream has failed.  On a   *)
(* stream that this end has closed a new write fails; one that waits for   *)
(* the window then goes on to wait.                                        *)
Fails(c, w) == c \in broken \/ (c \in ended /\ w \notin caught)

(* SetClosed: the first error schedules the removal. *)
SetClosed(c) ==
    /\ closed' = closed \union {c}
    /\ queued' = IF c \in closed THEN queued ELSE queued \union {c}

-----------------------------------------------------------------------------
(* SetOption and Send. *)

Begin(t) ==
    /\ pc[t] = "idle"
    /\ sends < MaxSends
    /\ sends' = sends + 1
    /\ pc' = [pc EXCEPT ![t] = IF t \in setters THEN "rlock" ELSE "lock"]
    /\ UNCHANGED <<locks, writer, pool, addVars, queued, reaping, at, part, wire,
                   broken, sides, closed, readVars, closing>>

(* A waiting Lock goes before a later RLock. *)
LockWaits == (\E c \in Conns : adder[c] = "lock") \/ (reaping # NoOne /\ mu # Reaper)
MayShare  == mu = NoOne /\ ~LockWaits

(* Fault variant: SetOption releases socket.mu before it sends. *)
SharesNot(t) == readers

Shares(t) == readers \union {t}

(* SetOption sends nothing while there is no connection. *)
ShareLock(t) ==
    /\ pc[t] = "rlock"
    /\ MayShare
    /\ IF conns = {}
       THEN pc' = [pc EXCEPT ![t] = "idle"] /\ UNCHANGED readers
       ELSE pc' = [pc EXCEPT ![t] = "lock"] /\ readers' = Shares(t)
    /\ UNCHANGED <<kind, mu, writer, pool, addVars, queued, reaping, at, part,
                   sends, wire, broken, sides, closed, readVars, closing>>

(* write: semaphore.lock waits for the first connection, the deadline or   *)
(* the end of the context and does not say which, so it only takes time.   *)
LockWriter(t) ==
    /\ pc[t] = "lock"
    /\ writer = NoOne
    /\ writer' = t
    /\ pc' = [pc EXCEPT ![t] = "write"]
    /\ UNCHANGED <<locks, pool, addVars, queued, reaping, at, part, sends, wire,
                   broken, sides, closed, readVars, closing>>

Writing(t) == pc[t] = "write" /\ at[t] <= Len(ws)
Target(t)  == ws[at[t]]

NextTarget(t) ==
    /\ at' = [at EXCEPT ![t] = @ + 1]
    /\ part' = [part EXCEPT ![t] = 1]

(* SendMsg looks at Conn.closed once, before its first write. *)
FoundClosed(t) == part[t] = 1 /\ Target(t) \in closed /\ t \notin caught

ReplayFoundClosed(c) == replayed[c] = 0 /\ c \in closed /\ Replay \notin caught

SkipClosed(t) ==
    /\ Writing(t)
    /\ FoundClosed(t)
    /\ NextTarget(t)
    /\ UNCHANGED <<locks, writer, pool, addVars, queued, reaping, pc, sends,
                   wire, broken, sides, closed, readVars, closing>>

WritePart(t) ==
    /\ Writing(t)
    /\ ~FoundClosed(t)
    /\ Write(Target(t), t, part[t])
    /\ IF part[t] = Parts
       THEN NextTarget(t)
       ELSE part' = [part EXCEPT ![t] = @ + 1] /\ UNCHANGED at
    /\ UNCHANGED <<locks, writer, pool, addVars, queued, reaping, pc, sends,
                   broken, ended, closed, readVars, closing>>

(* The loop goes on with the next connection. *)
WriteFails(t) ==
    /\ Writing(t)
    /\ ~FoundClosed(t)
    /\ Fails(Target(t), t)
    /\ SetClosed(Target(t))
    /\ caught' = caught \ {t}
    /\ NextTarget(t)
    /\ UNCHANGED <<locks, writer, pool, addVars, reaping, pc, sends, wire,
                   broken, ended, readVars, closing>>

(* Fault variant: SetOption does not release socket.mu. *)
StaysShared(t) == readers

Unshared(t) == readers \ {t}

Return(t) ==
    /\ pc[t] = "write" /\ at[t] > Len(ws)
    /\ writer' = NoOne
    /\ readers' = Unshared(t)
    /\ pc' = [pc EXCEPT ![t] = "idle"]
    /\ at' = [at EXCEPT ![t] = 1]
    /\ UNCHANGED <<kind, mu, pool, addVars, queued, reaping, part, sends, wire,
                   broken, sides, closed, readVars, closing>>

-----------------------------------------------------------------------------
(* addConn, called by Dial, accept or reconnect. *)

Connect(c) ==
    /\ adder[c] = "fresh"
    /\ adder' = [adder EXCEPT ![c] = "lock"]
    /\ UNCHANGED <<locks, writer, pool, replayed, queued, reaping, callVars, wire,
                   broken, sides, closed, readVars, closing>>

MayLock == mu = NoOne /\ readers = {}

AddLocks(c) ==
    /\ adder[c] = "lock"
    /\ MayLock
    /\ mu' = c
    /\ adder' = [adder EXCEPT ![c] = "register"]
    /\ UNCHANGED <<kind, readers, writer, pool, replayed, queued, reaping, callVars,
                   wire, broken, sides, closed, readVars, closing>>

(* The connection joins socket.conns and both pools, and listen starts. *)
Register(c) ==
    /\ adder[c] = "register"
    /\ writer = NoOne
    /\ conns' = conns \union {c}
    /\ ws' = Append(ws, c)
    /\ listening' = listening \union {c}
    /\ adder' = [adder EXCEPT ![c] = IF isSub THEN "replay" ELSE "done"]
    /\ mu' = IF isSub THEN mu ELSE NoOne
    /\ UNCHANGED <<kind, readers, writer, replayed, queued, reaping, callVars, wire,
                   broken, sides, closed, hand, inbox, closing>>

(* onConnAdded, with socket.mu held: one topic in the instances. *)
ReplayPart(c) ==
    /\ adder[c] = "replay"
    /\ ~ReplayFoundClosed(c)
    /\ Write(c, Replay, replayed[c] + 1)
    /\ IF replayed[c] + 1 = Parts
       THEN /\ adder' = [adder EXCEPT ![c] = "done"]
            /\ mu' = NoOne
            /\ replayed' = [replayed EXCEPT ![c] = 0]
       ELSE /\ replayed' = [replayed EXCEPT ![c] = @ + 1]
            /\ UNCHANGED <<adder, mu>>
    /\ UNCHANGED <<kind, readers, writer, pool, queued, reaping, callVars,
                   broken, ended, closed, readVars, closing>>

(* The error of SendMsg is ignored. *)
ReplayFails(c) ==
    /\ adder[c] = "replay"
    /\ \/ ReplayFoundClosed(c) /\ UNCHANGED <<closed, queued>>
       \/ ~ReplayFoundClosed(c) /\ Fails(c, Replay) /\ SetClosed(c)
    /\ caught' = caught \ {Replay}
    /\ adder' = [adder EXCEPT ![c] = "done"]
    /\ replayed' = [replayed EXCEPT ![c] = 0]
    /\ mu' = NoOne
    /\ UNCHANGED <<kind, readers, writer, pool, reaping, callVars, wire,
                   broken, ended, readVars, closing>>

-----------------------------------------------------------------------------
(* connReaper and rmConn. *)

(* The reaper removes one connection after the other, after Close the rest *)
(* of those it has taken from the queue.                                   *)
CallRmConn(c) ==
    /\ reaping = NoOne
    /\ c \in queued
    /\ reaping' = c
    /\ queued' = queued \ {c}
    /\ UNCHANGED <<locks, writer, pool, addVars, callVars, wire, broken, sides,
                   closed, readVars, closing>>

ReaperLocks ==
    /\ reaping # NoOne
    /\ MayLock
    /\ mu' = Reaper
    /\ UNCHANGED <<kind, readers, writer, pool, addVars, queued, reaping, callVars,
                   wire, broken, sides, closed, readVars, closing>>

(* The removal from mwriter waits for its mutex, with socket.mu held. *)
RmConn ==
    /\ mu = Reaper
    /\ writer = NoOne
    /\ conns' = conns \ {reaping}
    /\ \E i \in 1 .. Len(ws) :
         /\ ws[i] = reaping
         /\ ws' = SubSeq(ws, 1, i - 1) \o SubSeq(ws, i + 1, Len(ws))
    /\ mu' = NoOne
    /\ reaping' = NoOne
    /\ UNCHANGED <<kind, readers, writer, addVars, queued, callVars, wire,
                   broken, sides, closed, readVars, closing>>

-----------------------------------------------------------------------------
(* streamConn.Close closes the sending side of a stream.  It does not wake *)
(* who is in a Write then, which any of its writers may be.                *)
Writers(c) ==
    {t \in Threads : Writing(t) /\ Target(t) = c /\ ~FoundClosed(t)}
      \union {w \in {Replay} : adder[c] = "replay" /\ ~ReplayFoundClosed(c)}

End(cs) ==
    /\ ended' = ended \union cs
    /\ \E inWrite \in SUBSET UNION {Writers(c) : c \in cs \ ended} :
         caught' = caught \union inWrite

-----------------------------------------------------------------------------
(* qreader *)

(* listen looks at the context after each read. *)
Stop(c) ==
    /\ listening' = listening \ {c}
    /\ End({c})

(* The peer may send at any time. *)
ListenReads(c) ==
    /\ c \in listening \ broken
    /\ hand[c] = "nothing"
    /\ IF cancelled
       THEN Stop(c) /\ UNCHANGED hand
       ELSE hand' = [hand EXCEPT ![c] = "message"] /\ UNCHANGED <<listening, sides>>
    /\ UNCHANGED <<locks, writer, pool, addVars, queued, reaping, callVars, wire,
                   broken, closed, inbox, closing>>

(* Fault variant: a read error that is a timeout does not count. *)
TimeoutIgnored(c) == UNCHANGED <<closed, queued>>

CheckIO(c) == SetClosed(c)

ListenFails(c) ==
    /\ c \in listening \cap broken
    /\ hand[c] = "nothing"
    /\ CheckIO(c)
    /\ IF cancelled
       THEN Stop(c) /\ UNCHANGED hand
       ELSE hand' = [hand EXCEPT ![c] = "error"] /\ UNCHANGED <<listening, sides>>
    /\ UNCHANGED <<locks, writer, pool, addVars, reaping, callVars, wire, broken,
                   inbox, closing>>

QueueHasRoom == inbox < QueueSize

(* listen waits for room in the channel, whatever happens meanwhile. *)
ListenEnqueues(c) ==
    /\ hand[c] # "nothing"
    /\ QueueHasRoom
    /\ inbox' = inbox + 1
    /\ hand' = [hand EXCEPT ![c] = "nothing"]
    /\ IF hand[c] = "error" THEN Stop(c) ELSE UNCHANGED <<listening, sides>>
    /\ UNCHANGED <<locks, writer, pool, addVars, queued, reaping, callVars, wire,
                   broken, closed, closing>>

Recv ==
    /\ inbox > 0
    /\ inbox' = inbox - 1
    /\ UNCHANGED <<locks, writer, pool, addVars, queued, reaping, callVars, wire,
                   broken, sides, closed, listening, hand, closing>>

-----------------------------------------------------------------------------
(* socket.Close *)

CloseCancels ==
    /\ closing = "no"
    /\ closing' = "rlock"
    /\ UNCHANGED <<locks, writer, pool, addVars, queued, reaping, callVars, wire,
                   broken, sides, closed, readVars>>

(* The streams' sending sides are closed; Close returns. *)
CloseConns ==
    /\ closing = "rlock"
    /\ MayShare
    /\ End(conns)
    /\ closing' = "done"
    /\ UNCHANGED <<locks, writer, pool, addVars, queued, reaping, callVars, wire,
                   broken, closed, readVars>>

-----------------------------------------------------------------------------
(* The peers. *)

PeerReads(c) ==
    /\ c \notin broken
    /\ fill[c] > 0
    /\ fill' = [fill EXCEPT ![c] = @ - 1]
    /\ UNCHANGED <<locks, writer, pool, addVars, queued, reaping, callVars, half, mixed,
                   broken, sides, closed, readVars, closing>>

Break(c) ==
    /\ adder[c] # "fresh" /\ c \notin broken
    /\ broken' = broken \union {c}
    /\ UNCHANGED <<locks, writer, pool, addVars, queued, reaping, callVars, wire,
                   sides, closed, readVars, closing>>

-----------------------------------------------------------------------------
CallStep(t) ==
    \/ ShareLock(t) \/ LockWriter(t) \/ SkipClosed(t)
    \/ WritePart(t) \/ WriteFails(t) \/ Return(t)

AddStep(c) == AddLocks(c) \/ Register(c) \/ ReplayPart(c) \/ ReplayFails(c)

ReaperStep ==
    (\E c \in Conns : CallRmConn(c)) \/ ReaperLocks \/ RmConn

ListenStep(c) == ListenReads(c) \/ ListenFails(c) \/ ListenEnqueues(c)

(* The model ends when Close has returned; what happens then to the        *)
(* connections is in module Socket.                                        *)
Next ==
    /\ closing # "done"
    /\ \/ \E t \in Threads : Begin(t) \/ CallStep(t)
       \/ \E c \in Conns :
            Connect(c) \/ AddStep(c) \/ ListenStep(c) \/ PeerReads(c) \/ Break(c)
       \/ ReaperStep \/ Recv \/ CloseCancels \/ CloseConns

Spec == Init /\ [][Next]_vars

(* The socket's goroutines run, a mutex that is asked for is granted in    *)
(* the end, deadlines pass and the application calls Recv.                 *)
Fairness ==
    /\ \A t \in Threads : WF_vars(CallStep(t))
    /\ \A c \in Conns :
         WF_vars(AddStep(c)) /\ WF_vars(ListenFails(c) \/ ListenEnqueues(c))
    /\ WF_vars(ReaperStep) /\ WF_vars(Recv) /\ WF_vars(CloseConns)

FairSpec == Spec /\ Fairness

-----------------------------------------------------------------------------
(* A stream carries whole messages, one after the other, unless Send of a  *)
(* SUB meets the replay of its topics.  No two goroutines else write on    *)
(* one connection at once, and nothing follows a message that failed half  *)
(* way (conn.go 58-91, msgio.go 163-177, sub.go 15-19, 56-60).              *)
OnlySendMixes ==
    \A c \in Conns : mixed[c] # {} =>
        isSub /\ \E t \in Threads \ setters : mixed[c] = {t, Replay}

(* conn.go 50-57, "Wire format per frame: [1 byte flags] [4 byte           *)
(* big-endian length] [payload]": without the exception.                   *)
WholeMessages == \A c \in Conns : mixed[c] = {}

-----------------------------------------------------------------------------
(* What the socket and the application, which calls Recv, can do by        *)
(* themselves: what each of their steps waits for.                         *)

CallMoves(t) ==
    \/ pc[t] = "rlock" /\ MayShare
    \/ pc[t] = "lock" /\ writer = NoOne
    \/ pc[t] = "write" /\ at[t] > Len(ws)
    \/ /\ Writing(t)
       /\ \/ FoundClosed(t)
          \/ Fails(Target(t), t)
          \/ fill[Target(t)] < Window

AddMoves(c) ==
    \/ adder[c] = "lock" /\ MayLock
    \/ adder[c] = "register" /\ writer = NoOne
    \/ /\ adder[c] = "replay"
       /\ \/ ReplayFoundClosed(c)
          \/ Fails(c, Replay)
          \/ fill[c] < Window

ListenMoves(c) ==
    \/ c \in listening \cap broken /\ hand[c] = "nothing"
    \/ hand[c] # "nothing" /\ QueueHasRoom

ReaperMoves ==
    \/ reaping = NoOne /\ queued # {}
    \/ reaping # NoOne /\ MayLock
    \/ mu = Reaper /\ writer = NoOne /\ \E i \in 1 .. Len(ws) : ws[i] = reaping

CanMove ==
    \/ \E t \in Threads : CallMoves(t)
    \/ \E c \in Conns : AddMoves(c) \/ ListenMoves(c)
    \/ ReaperMoves
    \/ inbox > 0
    \/ closing = "rlock" /\ MayShare

Quiet == closing # "done" /\ ~CanMove

(* Somebody writes to a living peer that has not read what it got. *)
BlockedOnPeer ==
    \E c \in Conns \ broken :
        /\ fill[c] = Window
        /\ adder[c] = "replay" \/ \E t \in Threads : Writing(t) /\ Target(t) = c

(* Nobody waits in vain: if Close, a call, addConn or the reaper waits and *)
(* nothing moves, then a peer does not read (socket.go 148, 329, 344 and   *)
(* 363, sub.go 56, msgio.go 148 and 165: two mutexes, and who waits for    *)
(* one with the other in hand).                                            *)
StuckOnlyOnPeers ==
    /\ Quiet
    /\ \/ closing = "rlock" \/ reaping # NoOne
       \/ \E t \in Threads : pc[t] # "idle"
       \/ \E c \in Conns : adder[c] \notin {"fresh", "done"}
    => BlockedOnPeer

(* conn.go 176-185: a connection that fails leaves the pools, although     *)
(* listen may be waiting for Recv, the writer for another peer and the     *)
(* reaper for both, unless the socket is closed.                           *)
LossIsNoticed ==
    Quiet /\ ~cancelled /\ ~BlockedOnPeer => broken \cap conns = {}

(* quicmq.go 14-15, "Send blocks until the message can be queued or the    *)
(* send deadline expires": it returns.                                     *)
EverySendReturns == \A t \in Threads : pc[t] # "idle" ~> (pc[t] = "idle" \/ cancelled)

=============================================================================
