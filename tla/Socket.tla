------------------------------- MODULE Socket -------------------------------
(***************************************************************************)
(* The lifecycle of the base socket (socket.go) and of the closed flag of  *)
(* its connections (conn.go): dialling, listening and accepting, the       *)
(* detection of a broken connection, the reaper that removes it, automatic *)
(* reconnection, and Close.                                                *)
(*                                                                         *)
(* Goroutines are the caller of Dial and Listen (App), one accept loop for *)
(* each Listen, the reaper, one reader and the writers of each connection, *)
(* the reconnect goroutines they start, and the caller of Close.  A step   *)
(* is what a goroutine does between two points where another one can run.  *)
(***************************************************************************)
EXTENDS Integers, FiniteSets

CONSTANTS
    Conns,          \* identities of the connections the socket may come to own
    Endpoints,      \* addresses the application dials or listens on
    NoConn, NoEp,   \* "no connection", "no endpoint"
    Unborn,         \* origin of a connection that does not exist yet
    Accepted,       \* origin of a connection that came from the listener
    Detectors,      \* goroutines of a connection that may find it broken: its
                    \* "reader" and, together, its writers ("writer")
    AutoReconnect,  \* the autoReconnect option
    ParentCancels,  \* may the context given to the constructor be cancelled?
    MaxCalls,       \* bound: calls of Dial and Listen by the application
    MaxAccepts,     \* bound: connections that peers open
    MaxBreaks       \* bound: connections whose stream fails

ASSUME SocketAssumption ==
    /\ NoConn \notin Conns
    /\ NoEp \notin Endpoints
    /\ Unborn \notin Endpoints
    /\ Accepted \notin Endpoints
    /\ Unborn # Accepted
    /\ "reader" \in Detectors /\ Detectors \subseteq {"reader", "writer"}
    /\ AutoReconnect \in BOOLEAN
    /\ ParentCancels \in BOOLEAN
    /\ MaxCalls \in Nat

(* A watcher <<c, d>> is the goroutine that finds out, on the read or on   *)
(* the write side, that c is broken; if it wins the race to mark c closed  *)
(* it also names the reconnect goroutine started for c.                    *)
Watchers == Conns \X Detectors
App == <<NoConn, "app">>

(* A listener has the number of the call that opened it, and so has the    *)
(* goroutine accept that the call started.                                 *)
Listeners == 1 .. MaxCalls
NoListener == 0
Acceptor(l) == <<l, "accept">>
Acceptors == Listeners \X {"accept"}
Tasks == Watchers \union Acceptors \union {App}

VARIABLES
    ep, isDialer,   \* last endpoint given to Dial or Listen, and which it was
    cancelled,      \* the socket's context is done
    listener,       \* sck.listener, which the last Listen has set
    waitsOn,        \* per acceptor: the listener in whose Accept it is
    toClose,        \* the listener that Close is going to close
    conns,          \* sck.conns
    origin,         \* per connection: Unborn, Accepted or the endpoint dialled
    broken,         \* connections whose stream fails every read and write
    rwClosed,       \* connections whose stream was closed by this side
    closed,         \* connections with the atomic flag Conn.closed set
    watch,          \* per watcher: how far the handling of an I/O error went
    closedConns,    \* what scheduleRmConn queued for the reaper
    reaper, batch,  \* state of connReaper, and the copy cc it is removing
    pc,             \* per task: where it stands in Dial, Listen or reconnect
    target,         \* per task: the endpoint argument of its Dial
    held,           \* per task: its connection that is not in conns yet
    closer,         \* state of the caller of Close
    calls           \* calls made by the application so far

vars == <<ep, isDialer, cancelled, listener, waitsOn, toClose, conns, origin, broken, rwClosed,
          closed, watch, closedConns, reaper, batch, pc, target, held, closer,
          calls>>

dialVars   == <<ep, isDialer, pc, target, held, calls>>
connVars   == <<conns, origin, broken, rwClosed, closed, watch>>
reaperVars == <<closedConns, reaper, batch>>
listenVars == <<listener, waitsOn, toClose>>
ctxVars    == <<cancelled, closer, listenVars>>

TypeOK ==
    /\ ep \in Endpoints \union {NoEp}
    /\ isDialer \in BOOLEAN
    /\ cancelled \in BOOLEAN
    /\ listener \in Listeners \union {NoListener}
    /\ waitsOn \in [Acceptors -> Listeners \union {NoListener}]
    /\ toClose \in Listeners \union {NoListener}
    /\ conns \subseteq Conns
    /\ origin \in [Conns -> Endpoints \union {Unborn, Accepted}]
    /\ broken \subseteq Conns
    /\ rwClosed \subseteq Conns
    /\ closed \subseteq Conns
    /\ watch \in [Watchers -> {"off", "reading", "schedule", "spawn",
                               "notified", "lost", "stopped"}]
    /\ closedConns \subseteq Conns
    /\ reaper \in {"none", "starting", "ready", "waiting", "removing", "exited"}
    /\ batch \subseteq Conns
    /\ pc \in [Tasks -> {"idle", "sleep", "enter", "dial", "start", "add",
                         "loop", "accept"}]
    /\ target \in [Tasks -> Endpoints \union {NoEp}]
    /\ held \in [Tasks -> Conns \union {NoConn}]
    /\ closer \in {"idle", "cancelled", "conns", "listener", "done"}
    /\ calls \in 0 .. MaxCalls

Init ==
    /\ ep = NoEp
    /\ isDialer = FALSE
    /\ cancelled = FALSE
    /\ listener = NoListener
    /\ waitsOn = [a \in Acceptors |-> NoListener]
    /\ toClose = NoListener
    /\ conns = {}
    /\ origin = [c \in Conns |-> Unborn]
    /\ broken = {}
    /\ rwClosed = {}
    /\ closed = {}
    /\ watch = [w \in Watchers |-> "off"]
    /\ closedConns = {}
    /\ reaper = "none"
    /\ batch = {}
    /\ pc = [t \in Tasks |-> "idle"]
    /\ target = [t \in Tasks |-> NoEp]
    /\ held = [t \in Tasks |-> NoConn]
    /\ closer = "idle"
    /\ calls = 0

-----------------------------------------------------------------------------
(* reaperCond.  Dial and Listen lock reaperCond.L and leave it to the new  *)
(* reaper goroutine, so L is busy until that goroutine first waits.  The   *)
(* other critical sections on L are single steps.                          *)

ReaperLockFree == reaper # "starting"

(* Fault variant: the wake-up of a waiting reaper is forgotten. *)
NoSignal(r) == r

Signal(r) == IF r = "waiting" THEN "ready" ELSE r

(* Fault variant: the reaper is not started. *)
NeverStartReaper(r) == r

(* The bodies of the "if !sck.reaperStarted" of Dial and Listen. *)
StartReaper(r) == IF r = "none" THEN "starting" ELSE r

-----------------------------------------------------------------------------
(* Where a task goes when its Dial failed, when the reaper runs, and when  *)
(* its connection is registered: a reconnect goroutine tries again after a *)
(* failure and ends after a success, accept looks for the next connection. *)

(* Fault variant: reconnect gives up after one failure. *)
GiveUpAfterFailure(t) == "idle"

AfterFailure(t) == IF t = App THEN "idle" ELSE "sleep"

(* Fault variant: Listen, too, goes on to register a connection. *)
AlwaysAddAfterStart(t) == "add"

AfterStart(t) == IF held[t] = NoConn THEN "idle" ELSE "add"

(* Fault variant: reconnect does not return after a success. *)
LoopAfterAdd(t) == IF t \in Acceptors THEN "loop"
                   ELSE IF t = App THEN "idle" ELSE "sleep"

AfterAdd(t) == IF t \in Acceptors THEN "loop" ELSE "idle"

-----------------------------------------------------------------------------
(* Dial and Listen, called by the application. *)

CallDial(e) ==
    /\ calls < MaxCalls
    /\ pc[App] = "idle"
    /\ pc' = [pc EXCEPT ![App] = "enter"]
    /\ target' = [target EXCEPT ![App] = e]
    /\ calls' = calls + 1
    /\ UNCHANGED <<ep, isDialer, held, connVars, reaperVars, ctxVars>>

(* The first two statements of Dial, in the App or a reconnect goroutine. *)
DialEnter(t) ==
    /\ pc[t] = "enter"
    /\ ep' = target[t]
    /\ isDialer' = TRUE
    /\ pc' = [pc EXCEPT ![t] = "dial"]
    /\ UNCHANGED <<target, held, calls, connVars, reaperVars, ctxVars>>

(* trans.Dial succeeded, at once or after retries, and Open wrapped it. *)
DialOk(t, c) ==
    /\ pc[t] = "dial"
    /\ ~cancelled
    /\ origin[c] = Unborn
    /\ origin' = [origin EXCEPT ![c] = target[t]]
    /\ held' = [held EXCEPT ![t] = c]
    /\ pc' = [pc EXCEPT ![t] = "start"]
    /\ UNCHANGED <<ep, isDialer, target, calls, conns, broken, rwClosed,
                   closed, watch, reaperVars, ctxVars>>

(* Dial returns an error: to the application, or to the reconnect loop. *)
DialFails(t) ==
    /\ pc[t] = "dial"
    /\ pc' = [pc EXCEPT ![t] = AfterFailure(t)]
    /\ UNCHANGED <<ep, isDialer, target, held, calls, connVars, reaperVars,
                   ctxVars>>

(* Dial and Listen start the reaper on first use. *)
EnsureReaper(t) ==
    /\ pc[t] = "start"
    /\ reaper' = StartReaper(reaper)
    /\ pc' = [pc EXCEPT ![t] = AfterStart(t)]
    /\ UNCHANGED <<ep, isDialer, target, held, calls, closedConns, batch,
                   connVars, ctxVars>>

(* addConn: the connection is registered and its reader goroutine starts. *)
AddConn(t) ==
    /\ pc[t] = "add"
    /\ conns' = conns \union {held[t]}
    /\ watch' = [watch EXCEPT ![<<held[t], "reader">>] = "reading"]
    /\ held' = [held EXCEPT ![t] = NoConn]
    /\ pc' = [pc EXCEPT ![t] = AfterAdd(t)]
    /\ UNCHANGED <<ep, isDialer, target, calls, origin, broken, rwClosed,
                   closed, reaperVars, ctxVars>>

(* Fault variant: only the first Listen starts an accept loop. *)
StartOneAccept(p, l) ==
    IF listener = NoListener THEN [p EXCEPT ![Acceptor(l)] = "loop"] ELSE p

StartAccept(p, l) == [p EXCEPT ![Acceptor(l)] = "loop"]

(* Listen records the endpoint and the role before it can fail.  Its       *)
(* listener takes the place of that of an earlier Listen.                  *)
Listen(e) ==
    /\ calls < MaxCalls
    /\ pc[App] = "idle"
    /\ ep' = e
    /\ isDialer' = FALSE
    /\ calls' = calls + 1
    /\ \/ /\ listener' = calls + 1
          /\ pc' = StartAccept([pc EXCEPT ![App] = "start"], calls + 1)
       \/ UNCHANGED <<listener, pc>>
    /\ UNCHANGED <<target, held, connVars, reaperVars, cancelled, waitsOn, toClose,
                   closer>>

(* The head of the accept loop. *)
AcceptNext(a) ==
    /\ pc[a] = "loop"
    /\ pc' = [pc EXCEPT ![a] = IF cancelled THEN "idle" ELSE "accept"]
    /\ UNCHANGED <<ep, isDialer, target, held, calls, connVars, reaperVars,
                   ctxVars>>

(* It waits in the Accept of the listener that the socket has now. *)
AcceptWaits(a) ==
    /\ pc[a] = "accept"
    /\ waitsOn[a] = NoListener
    /\ waitsOn' = [waitsOn EXCEPT ![a] = listener]
    /\ UNCHANGED <<dialVars, connVars, reaperVars, cancelled, closer, listener, toClose>>

(* Accept returned a stream.  The select it waits in may still pick a      *)
(* queued stream once the listener is closed.                              *)
AcceptConn(a, c) ==
    /\ pc[a] = "accept" /\ waitsOn[a] # NoListener
    /\ Cardinality({d \in Conns : origin[d] = Accepted}) < MaxAccepts
    /\ origin[c] = Unborn
    /\ origin' = [origin EXCEPT ![c] = Accepted]
    /\ held' = [held EXCEPT ![a] = c]
    /\ pc' = [pc EXCEPT ![a] = "add"]
    /\ waitsOn' = [waitsOn EXCEPT ![a] = NoListener]
    /\ UNCHANGED <<ep, isDialer, target, calls, conns, broken, rwClosed,
                   closed, watch, reaperVars, cancelled, closer, listener, toClose>>

(* Accept fails once its listener is closed, and the loop starts over. *)
AcceptFails(a) ==
    /\ pc[a] = "accept" /\ waitsOn[a] # NoListener
    /\ closer = "done" /\ waitsOn[a] = toClose
    /\ pc' = [pc EXCEPT ![a] = "loop"]
    /\ waitsOn' = [waitsOn EXCEPT ![a] = NoListener]
    /\ UNCHANGED <<ep, isDialer, target, held, calls, connVars, reaperVars,
                   cancelled, closer, listener, toClose>>

-----------------------------------------------------------------------------
(* A broken connection: Conn.checkIO, SetClosed and scheduleRmConn. *)

(* Fault variant: the flag is set without looking at its old value. *)
SetClosedAlways(c) == TRUE

(* The compare-and-swap in SetClosed. *)
SetClosedWins(c) == c \notin closed

SetClosed(w) ==
    /\ watch' = [watch EXCEPT ![w] = IF SetClosedWins(w[1]) THEN "schedule"
                                                            ELSE "lost"]
    /\ closed' = closed \union {w[1]}

(* The stream dies: the peer is gone, or QUIC's idle timeout expires. *)
Break(c) ==
    /\ Cardinality(broken) < MaxBreaks
    /\ origin[c] # Unborn
    /\ c \notin broken
    /\ broken' = broken \union {c}
    /\ UNCHANGED <<dialVars, conns, origin, rwClosed, closed, watch,
                   reaperVars, ctxVars>>

ReadFails(w) ==
    /\ watch[w] = "reading"
    /\ w[1] \in broken
    /\ SetClosed(w)
    /\ UNCHANGED <<dialVars, conns, origin, broken, rwClosed, reaperVars,
                   ctxVars>>

(* A write fails on a dead stream, and on one this side has closed. *)
WriteFails(w) ==
    /\ w[2] = "writer"
    /\ watch[w] = "off"
    /\ w[1] \in conns
    /\ w[1] \in broken \union rwClosed
    /\ SetClosed(w)
    /\ UNCHANGED <<dialVars, conns, origin, broken, rwClosed, reaperVars,
                   ctxVars>>

(* After a successful read the reader stops if the context is done. *)
ReaderStops(w) ==
    /\ watch[w] = "reading"
    /\ cancelled
    /\ watch' = [watch EXCEPT ![w] = "stopped"]
    /\ rwClosed' = rwClosed \union {w[1]}
    /\ UNCHANGED <<dialVars, conns, origin, broken, closed, reaperVars,
                   ctxVars>>

(* A reader that failed closes the stream on its way out. *)
ReaderExits(w) ==
    /\ w[2] = "reader"
    /\ watch[w] \in {"notified", "lost"}
    /\ w[1] \notin rwClosed
    /\ rwClosed' = rwClosed \union {w[1]}
    /\ UNCHANGED <<dialVars, conns, origin, broken, closed, watch, reaperVars,
                   ctxVars>>

(* scheduleRmConn, first half: queue the connection and wake the reaper. *)
ScheduleRmConn(w) ==
    /\ watch[w] = "schedule"
    /\ ReaperLockFree
    /\ closedConns' = closedConns \union {w[1]}
    /\ reaper' = Signal(reaper)
    /\ watch' = [watch EXCEPT ![w] = "spawn"]
    /\ UNCHANGED <<dialVars, conns, origin, broken, rwClosed, closed, batch,
                   ctxVars>>

(* scheduleRmConn, second half: reads isDialer without the lock. *)
SpawnReconnect(w) ==
    /\ watch[w] = "spawn"
    /\ watch' = [watch EXCEPT ![w] = "notified"]
    /\ pc' = IF AutoReconnect /\ isDialer THEN [pc EXCEPT ![w] = "sleep"]
                                          ELSE pc
    /\ UNCHANGED <<ep, isDialer, target, held, calls, conns, origin, broken,
                   rwClosed, closed, reaperVars, ctxVars>>

(* reconnect: after the interval, dial whatever endpoint sck.ep names now. *)
ReconnectWakes(t) ==
    /\ pc[t] = "sleep"
    /\ ~cancelled
    /\ pc' = [pc EXCEPT ![t] = "enter"]
    /\ target' = [target EXCEPT ![t] = ep]
    /\ UNCHANGED <<ep, isDialer, held, calls, connVars, reaperVars, ctxVars>>

ReconnectStops(t) ==
    /\ pc[t] = "sleep"
    /\ cancelled
    /\ pc' = [pc EXCEPT ![t] = "idle"]
    /\ UNCHANGED <<ep, isDialer, target, held, calls, connVars, reaperVars,
                   ctxVars>>

-----------------------------------------------------------------------------
(* connReaper. *)

(* With L held: wait, stop, or take over the queue and release L. *)
ReaperLooks ==
    /\ reaper \in {"starting", "ready"}
    /\ \/ /\ cancelled
          /\ reaper' = "exited"
          /\ UNCHANGED <<closedConns, batch>>
       \/ /\ ~cancelled
          /\ closedConns = {}
          /\ reaper' = "waiting"
          /\ UNCHANGED <<closedConns, batch>>
       \/ /\ ~cancelled
          /\ closedConns # {}
          /\ reaper' = "removing"
          /\ batch' = closedConns
          /\ closedConns' = {}
    /\ UNCHANGED <<dialVars, connVars, ctxVars>>

(* rmConn of one connection of the batch. *)
RmConn(c) ==
    /\ reaper = "removing"
    /\ c \in batch
    /\ conns' = conns \ {c}
    /\ batch' = batch \ {c}
    /\ UNCHANGED <<dialVars, origin, broken, rwClosed, closed, watch,
                   closedConns, reaper, ctxVars>>

(* Fault variant: the queue is emptied after the removals, not before. *)
ReaperRelocksClearing ==
    /\ reaper = "removing"
    /\ batch = {}
    /\ reaper' = "ready"
    /\ closedConns' = {}
    /\ UNCHANGED <<dialVars, connVars, batch, ctxVars>>

ReaperRelocks ==
    /\ reaper = "removing"
    /\ batch = {}
    /\ reaper' = "ready"
    /\ UNCHANGED <<dialVars, connVars, closedConns, batch, ctxVars>>

-----------------------------------------------------------------------------
(* Close, and cancellation of the parent context. *)

CloseCancels ==
    /\ closer = "idle"
    /\ ReaperLockFree
    /\ cancelled' = TRUE
    /\ reaper' = Signal(reaper)
    /\ closer' = "cancelled"
    /\ UNCHANGED <<dialVars, connVars, listenVars, closedConns, batch>>

(* The deferred call closes the listener that the socket has at this point. *)
CloseDefers ==
    /\ closer = "cancelled"
    /\ toClose' = listener
    /\ closer' = "conns"
    /\ UNCHANGED <<dialVars, connVars, reaperVars, cancelled, listener, waitsOn>>

CloseConns ==
    /\ closer = "conns"
    /\ rwClosed' = rwClosed \union conns
    /\ closer' = IF toClose = NoListener THEN "done" ELSE "listener"
    /\ UNCHANGED <<dialVars, conns, origin, broken, closed, watch, reaperVars,
                   cancelled, listenVars>>

CloseListener ==
    /\ closer = "listener"
    /\ closer' = "done"
    /\ UNCHANGED <<dialVars, connVars, reaperVars, cancelled, listenVars>>

(* The context the socket was made from is cancelled: nobody is signalled. *)
ParentCancel ==
    /\ ParentCancels
    /\ ~cancelled
    /\ cancelled' = TRUE
    /\ UNCHANGED <<dialVars, connVars, reaperVars, listenVars, closer>>

-----------------------------------------------------------------------------
DialStep(t) == DialEnter(t) \/ DialFails(t) \/ EnsureReaper(t) \/ AddConn(t)

TaskStep(t) == DialStep(t) \/ \E c \in Conns : DialOk(t, c)

WatcherStep(w) ==
    \/ ReadFails(w) \/ WriteFails(w) \/ ReaderStops(w) \/ ReaderExits(w)
    \/ ScheduleRmConn(w) \/ SpawnReconnect(w)
    \/ ReconnectWakes(w) \/ ReconnectStops(w)

ReaperStep == ReaperLooks \/ ReaperRelocks \/ \E c \in Conns : RmConn(c)

AcceptStep(a) ==
    \/ AcceptNext(a) \/ AcceptWaits(a) \/ AcceptFails(a)
    \/ \E c \in Conns : AcceptConn(a, c)

CloserStep == CloseCancels \/ CloseDefers \/ CloseConns \/ CloseListener

Next ==
    \/ \E e \in Endpoints : CallDial(e) \/ Listen(e)
    \/ \E t \in Tasks : TaskStep(t)
    \/ \E a \in Acceptors : AcceptStep(a)
    \/ \E c \in Conns : Break(c)
    \/ \E w \in Watchers : WatcherStep(w)
    \/ ReaperStep
    \/ CloserStep
    \/ ParentCancel

Spec == Init /\ [][Next]_vars

(* Goroutines that can run do run, a broken stream fails its reads (QUIC's *)
(* idle timeout guarantees an error), and an endpoint that is dialled      *)
(* again and again answers in the end.  That addConn and rmConn go on, the *)
(* mutexes they need being granted, supposes peers that read (Pools).      *)
(* Nothing is assumed of the caller of Dial, Listen and Close, except that *)
(* a call in progress moves on.                                            *)
Fairness ==
    /\ WF_vars(DialStep(App))
    /\ \A w \in Watchers :
         WF_vars(\/ ReadFails(w) \/ ScheduleRmConn(w) \/ SpawnReconnect(w)
                 \/ ReconnectWakes(w) \/ ReconnectStops(w) \/ DialStep(w))
    /\ SF_vars(\E t \in Tasks \ Acceptors, c \in Conns : DialOk(t, c))
    /\ \A a \in Acceptors :
         WF_vars(AcceptNext(a) \/ AcceptWaits(a) \/ AcceptFails(a) \/ AddConn(a))
    /\ WF_vars(ReaperStep)
    /\ WF_vars(CloseDefers \/ CloseConns \/ CloseListener)

FairSpec == Spec /\ Fairness

-----------------------------------------------------------------------------
(* What the socket guarantees. *)

(* Of all the goroutines that see an I/O error on a connection, one wins.  *)
Won(w) == watch[w] \in {"schedule", "spawn", "notified"}

(* Connections that carry messages. *)
Live == {c \in conns : c \notin closed /\ c \notin broken}

(* However the reader and the writers of a connection race to report its   *)
(* failure (conn.go, SetClosed), scheduleRmConn runs once for it: it never *)
(* has two reconnect goroutines, and it is queued for the reaper once.     *)
OneReconnectPerLoss ==
    \A v, w \in Watchers : v[1] = w[1] /\ Won(v) /\ Won(w) => v = w

(* A connection marked closed that is still registered is on its way to    *)
(* the reaper: about to be queued, queued, or in the batch being removed;  *)
(* otherwise the reaper has ended (socket.go, scheduleRmConn, connReaper). *)
NoForgottenConn ==
    \A c \in closed \cap conns :
        \/ \E w \in Watchers : w[1] = c /\ watch[w] = "schedule"
        \/ c \in closedConns \union batch
        \/ reaper = "exited"

(* The reaper never sleeps on work that was queued for it, nor through     *)
(* Close: the signals of scheduleRmConn and Close are not lost.            *)
NoLostWakeup ==
    reaper = "waiting" => closedConns = {} /\ closer = "idle"

(* The socket dials no more connections than the application asked for and *)
(* losses account for, counting the reconnect goroutines still at work: a  *)
(* reconnect goroutine that succeeded is gone.                             *)
NoSpuriousDial ==
    Cardinality({c \in Conns : origin[c] \in Endpoints})
      + Cardinality({w \in Watchers : pc[w] # "idle" /\ held[w] = NoConn})
    <= calls + Cardinality(closed)

(* However many calls of Listen there were, and whatever listener the      *)
(* earlier accept loops wait on, one of them serves the newest listener:   *)
(* it waits there or will look at sck.listener again (socket.go 207-227).  *)
ListenerIsServed ==
    listener # NoListener /\ ~cancelled =>
        \E a \in Acceptors :
            \/ pc[a] \in {"loop", "add"}
            \/ pc[a] = "accept" /\ waitsOn[a] \in {NoListener, listener}

(* A connection found closed leaves the socket's pool, unless the socket   *)
(* itself is being shut down.                                              *)
ClosedIsReaped == \A c \in Conns : c \in closed ~> (c \notin conns \/ cancelled)

(* Auto-reconnect repairs a loss: a dialling socket that lost a connection *)
(* has a live one again in the end (conn.go 176-185, socket.go reconnect). *)
LossIsRepaired ==
    (\E w \in Watchers : watch[w] = "schedule")
        ~> (Live # {} \/ cancelled \/ ~isDialer)

(* An accept loop whose listener was replaced before Close looked: Close   *)
(* closes another one.                                                     *)
LeftBehind(t) ==
    /\ t \in Acceptors
    /\ NoListener \notin {waitsOn[t], toClose}
    /\ waitsOn[t] # toClose

(* Close ends the reaper, every reconnect goroutine and the accept loops,  *)
(* whatever each was waiting for when the socket was closed, except for an *)
(* accept loop in the Accept of a listener that a later Listen replaced    *)
(* (socket.go 137-157, 207-227, transport_quic.go 299-309).                *)
CloseEndsGoroutines ==
    closer = "done" ~> /\ reaper \in {"none", "exited"}
                       /\ \A t \in Tasks \ {App} : pc[t] = "idle" \/ LeftBehind(t)

(* quicmq.go 11, "Close closes the open Socket": it ends every accept loop *)
(* that Listen has started.                                                *)
CloseEndsAccept == closer = "done" ~> \A a \in Acceptors : pc[a] = "idle"

(* options.go 76-77: after a loss "the socket will attempt to re-dial the  *)
(* endpoint", that is, the endpoint of the connection that was lost.       *)
ReconnectTargetsLostEndpoint ==
    \A w \in Watchers : pc[w] = "dial" => target[w] = origin[w[1]]

(* socket.go 137, "Close closes the socket": when Close has returned, the  *)
(* stream of every connection of the socket has been closed.               *)
CloseClosesEveryConn == closer = "done" => conns \subseteq rwClosed

=============================================================================
