---------------------------- MODULE SocketProofs ----------------------------
(***************************************************************************)
(* Proofs, for any number of connections and endpoints and any bounds, of  *)
(* the safety invariants of Socket: the hand-over of a broken connection   *)
(* to the reaper and to the reconnect goroutine, the accept loop that      *)
(* serves the newest listener, the account of what is dialled, and the     *)
(* interval between the attempts of that goroutine.                        *)
(***************************************************************************)
EXTENDS Socket, Backoff, FiniteSetTheorems, TLAPS

(* A connection that is not registered yet belongs to one task at most and *)
(* nobody reads it, writes it or has marked it closed.                     *)
Untouched(c) ==
    /\ c \notin conns
    /\ c \notin closed
    /\ \A w \in Watchers : w[1] = c => watch[w] = "off"

UnbornUntouched == \A c \in Conns : origin[c] = Unborn => Untouched(c)

HeldUntouched ==
    \A t \in Tasks : held[t] # NoConn =>
        /\ Untouched(held[t])
        /\ origin[held[t]] # Unborn
        /\ \A s \in Tasks : held[s] = held[t] => s = t

(* Whoever dials, or waits to, knows an endpoint to dial. *)
TargetKnown ==
    /\ isDialer => ep \in Endpoints
    /\ \A t \in Tasks :
         /\ pc[t] \in {"enter", "dial"} => target[t] \in Endpoints
         /\ pc[t] \in {"sleep", "dial"} => ep \in Endpoints

AddHolds == \A t \in Tasks : pc[t] = "add" => held[t] # NoConn

(* The flag is set exactly when somebody won the race to set it. *)
ClosedIffWon ==
    /\ \A w \in Watchers : Won(w) => w[1] \in closed
    /\ \A c \in closed : \E w \in Watchers : w[1] = c /\ Won(w)

BatchOnlyWhileRemoving == reaper # "removing" => batch = {}

CloserCancelled == closer # "idle" => cancelled

(* The inductive invariant. *)
IInv ==
    /\ TypeOK
    /\ TargetKnown
    /\ UnbornUntouched
    /\ HeldUntouched
    /\ AddHolds
    /\ ClosedIffWon
    /\ OneReconnectPerLoss
    /\ BatchOnlyWhileRemoving
    /\ NoForgottenConn
    /\ CloserCancelled
    /\ NoLostWakeup

-----------------------------------------------------------------------------
(* A watcher is the pair of its connection and its side. *)
LEMMA WatcherPair ==
    /\ \A w \in Watchers : w[1] \in Conns /\ w = <<w[1], w[2]>>
    /\ \A c \in Conns : <<c, "reader">> \in Watchers
    /\ Watchers \subseteq Tasks
    /\ App \in Tasks
    /\ Acceptors \subseteq Tasks
    /\ \A l \in Listeners : Acceptor(l) \in Acceptors
BY SocketAssumption DEF Watchers, Tasks, Acceptors, Acceptor

(* The tasks are of three kinds. *)
LEMMA TaskKinds ==
    /\ App \notin Watchers /\ App \notin Acceptors
    /\ \A w \in Watchers : w \notin Acceptors
    /\ Tasks = Watchers \union Acceptors \union {App}
  <1>1. \A w \in Watchers : w[2] \in {"reader", "writer"}
    BY SocketAssumption DEF Watchers
  <1>2. \A a \in Acceptors : a[2] = "accept"
    BY DEF Acceptors
  <1>3. App[2] = "app"
    BY DEF App
  <1>4. QED
    BY <1>1, <1>2, <1>3 DEF Tasks

(* The number of the next listener. *)
LEMMA NextListener ==
    ASSUME calls \in 0 .. MaxCalls, calls < MaxCalls
    PROVE  /\ calls + 1 \in Listeners /\ calls + 1 # NoListener
           /\ calls + 1 \in 0 .. MaxCalls
           /\ Acceptor(calls + 1) \in Acceptors
BY SocketAssumption, WatcherPair DEF Listeners, NoListener

(* The initial states satisfy the invariant: nothing exists yet. *)
THEOREM InitIInv == Init => IInv
<1> SUFFICES ASSUME Init PROVE IInv
    OBVIOUS
<1> USE WatcherPair, SocketAssumption DEF Init
<1>1. TypeOK
  <2>1. calls \in 0 .. MaxCalls
    OBVIOUS
  <2>2. /\ waitsOn \in [Acceptors -> Listeners \union {NoListener}]
        /\ pc \in [Tasks -> {"idle"}]
    OBVIOUS
  <2>3. /\ target \in [Tasks -> Endpoints \union {NoEp}]
        /\ held \in [Tasks -> Conns \union {NoConn}]
    OBVIOUS
  <2> QED BY <2>1, <2>2, <2>3 DEF TypeOK
<1>2. TargetKnown /\ UnbornUntouched /\ HeldUntouched /\ AddHolds
    BY DEF TargetKnown, UnbornUntouched, HeldUntouched, AddHolds, Untouched
<1>3. ClosedIffWon /\ OneReconnectPerLoss
    BY DEF ClosedIffWon, OneReconnectPerLoss, Won
<1>4. BatchOnlyWhileRemoving /\ NoForgottenConn /\ CloserCancelled /\ NoLostWakeup
    BY DEF BatchOnlyWhileRemoving, NoForgottenConn, CloserCancelled, NoLostWakeup
<1> QED BY <1>1, <1>2, <1>3, <1>4 DEF IInv

(* Type correctness is preserved.  DialOk needs an endpoint to record,     *)
(* AddConn a connection to register.                                       *)
LEMMA TypeStep ==
    TypeOK /\ TargetKnown /\ AddHolds /\ [Next]_vars
        => TypeOK' /\ TargetKnown' /\ AddHolds'
<1> DEFINE P == TypeOK /\ TargetKnown /\ AddHolds
<1> SUFFICES ASSUME P, [Next]_vars PROVE P'
    OBVIOUS
<1> USE WatcherPair, SocketAssumption
    DEF TypeOK, TargetKnown, AddHolds, dialVars, connVars, reaperVars, ctxVars,
        listenVars
<1>1. ASSUME NEW e \in Endpoints, CallDial(e) PROVE P'
    BY <1>1 DEF CallDial
<1>2. ASSUME NEW e \in Endpoints, Listen(e) PROVE P'
  <2>1. /\ pc' \in [Tasks -> {"idle", "sleep", "enter", "dial", "start", "add",
                             "loop", "accept"}]
        /\ \A t \in Tasks : pc'[t] = pc[t] \/ pc'[t] \in {"start", "loop"}
    <3>1. CASE pc' = pc
      BY <3>1
    <3>2. CASE pc' = StartAccept([pc EXCEPT ![App] = "start"], calls + 1)
      BY <3>2 DEF StartAccept
    <3> QED BY <1>2, <3>1, <3>2 DEF Listen
  <2>2. /\ ep' = e
        /\ isDialer' = FALSE
        /\ listener' \in Listeners \union {NoListener}
        /\ calls' \in 0 .. MaxCalls
        /\ UNCHANGED <<target, held, connVars, reaperVars, cancelled, waitsOn,
                       toClose, closer>>
    BY <1>2, NextListener DEF Listen
  <2> QED BY <2>1, <2>2
<1>3. ASSUME NEW t \in Tasks, DialEnter(t) PROVE P'
    BY <1>3 DEF DialEnter
<1>4. ASSUME NEW t \in Tasks, DialFails(t) PROVE P'
    BY <1>4 DEF DialFails, AfterFailure
<1>5. ASSUME NEW t \in Tasks, EnsureReaper(t) PROVE P'
    BY <1>5 DEF EnsureReaper, AfterStart, StartReaper
<1>6. ASSUME NEW t \in Tasks, AddConn(t) PROVE P'
    BY <1>6 DEF AddConn, AfterAdd
<1>7. ASSUME NEW t \in Tasks, NEW c \in Conns, DialOk(t, c) PROVE P'
    BY <1>7 DEF DialOk
<1>8. ASSUME NEW a \in Acceptors, AcceptNext(a) \/ AcceptWaits(a) PROVE P'
    BY <1>8 DEF AcceptNext, AcceptWaits
<1>9. ASSUME NEW a \in Acceptors, AcceptFails(a) PROVE P'
    BY <1>9 DEF AcceptFails
<1>10. ASSUME NEW a \in Acceptors, NEW c \in Conns, AcceptConn(a, c) PROVE P'
    BY <1>10 DEF AcceptConn
<1>11. ASSUME NEW c \in Conns, Break(c) PROVE P'
    BY <1>11 DEF Break
<1>12. ASSUME NEW w \in Watchers, ReadFails(w) PROVE P'
    BY <1>12 DEF ReadFails, SetClosed, SetClosedWins
<1>13. ASSUME NEW w \in Watchers, WriteFails(w) PROVE P'
    BY <1>13 DEF WriteFails, SetClosed, SetClosedWins
<1>14. ASSUME NEW w \in Watchers, ReaderStops(w) PROVE P'
    BY <1>14 DEF ReaderStops
<1>15. ASSUME NEW w \in Watchers, ReaderExits(w) PROVE P'
    BY <1>15 DEF ReaderExits
<1>16. ASSUME NEW w \in Watchers, ScheduleRmConn(w) PROVE P'
    BY <1>16 DEF ScheduleRmConn, Signal
<1>17. ASSUME NEW w \in Watchers, SpawnReconnect(w) PROVE P'
    BY <1>17 DEF SpawnReconnect
<1>18. ASSUME NEW w \in Watchers, ReconnectWakes(w) PROVE P'
    BY <1>18 DEF ReconnectWakes
<1>19. ASSUME NEW w \in Watchers, ReconnectStops(w) PROVE P'
    BY <1>19 DEF ReconnectStops
<1>20. ASSUME ReaperLooks PROVE P'
    BY <1>20 DEF ReaperLooks
<1>21. ASSUME ReaperRelocks PROVE P'
    BY <1>21 DEF ReaperRelocks
<1>22. ASSUME NEW c \in Conns, RmConn(c) PROVE P'
    BY <1>22 DEF RmConn
<1>23. ASSUME CloseCancels PROVE P'
    BY <1>23 DEF CloseCancels, Signal
<1>24. ASSUME CloseDefers \/ CloseConns PROVE P'
    BY <1>24 DEF CloseDefers, CloseConns
<1>25. ASSUME CloseListener PROVE P'
    BY <1>25 DEF CloseListener
<1>26. ASSUME ParentCancel PROVE P'
    BY <1>26 DEF ParentCancel
<1>27. CASE UNCHANGED vars
    BY <1>27 DEF vars
<1> QED
    BY <1>1, <1>2, <1>3, <1>4, <1>5, <1>6, <1>7, <1>8, <1>9, <1>10, <1>11,
       <1>12, <1>13, <1>14, <1>15, <1>16, <1>17, <1>18, <1>19, <1>20, <1>21,
       <1>22, <1>23, <1>24, <1>25, <1>26, <1>27
    DEF Next, TaskStep, DialStep, AcceptStep, WatcherStep, ReaperStep, CloserStep

-----------------------------------------------------------------------------
(* Steps of a connection: what every action does to the variables that     *)
(* describe one, for the lemmas below.                                     *)
LEMMA OtherSteps ==
    ASSUME [Next]_vars
    PROVE  \/ \E t \in Tasks : AddConn(t) \/ \E c \in Conns : DialOk(t, c)
           \/ \E c \in Conns : RmConn(c) \/ \E a \in Acceptors : AcceptConn(a, c)
           \/ \E w \in Watchers : ReadFails(w) \/ WriteFails(w)
           \/ \E w \in Watchers : ReaderStops(w) \/ ScheduleRmConn(w) \/ SpawnReconnect(w)
           \/ UNCHANGED <<conns, closed, watch, origin, held>>
    BY DEF Next, TaskStep, DialStep, AcceptStep, WatcherStep, ReaperStep,
           CloserStep, vars, dialVars, connVars, reaperVars, ctxVars, CallDial,
           Listen, DialEnter, DialFails, EnsureReaper, AcceptNext, AcceptWaits,
           AcceptFails, Break, ReaderExits, ReconnectWakes, ReconnectStops,
           ReaperLooks, ReaperRelocks, CloseCancels, CloseDefers, CloseConns,
           CloseListener, ParentCancel

(* A connection that nobody registered stays untouched: an I/O error can   *)
(* only be seen on a connection that was registered.                       *)
LEMMA UntouchedStep == IInv /\ [Next]_vars => UnbornUntouched' /\ HeldUntouched'
<1> DEFINE P == UnbornUntouched /\ HeldUntouched
<1> SUFFICES ASSUME IInv, [Next]_vars PROVE P'
    OBVIOUS
<1> USE WatcherPair, SocketAssumption
    DEF IInv, TypeOK, AddHolds, UnbornUntouched, HeldUntouched, Untouched,
        dialVars, reaperVars, ctxVars
<1>1. ASSUME NEW t \in Tasks, AddConn(t) PROVE P'
    BY <1>1 DEF AddConn
<1>2. ASSUME NEW t \in Tasks, NEW c \in Conns, DialOk(t, c) PROVE P'
  <2>1. /\ origin[c] = Unborn
        /\ origin' = [origin EXCEPT ![c] = target[t]]
        /\ held' = [held EXCEPT ![t] = c]
        /\ UNCHANGED <<conns, closed, watch>>
    BY <1>2 DEF DialOk
  <2>2. target[t] \in Endpoints
    BY <1>2 DEF DialOk, TargetKnown
  <2>3. Untouched(c) /\ \A s \in Tasks : held[s] # c
    BY <2>1
  <2>4. UnbornUntouched'
    BY <2>1
  <2>5. /\ held'[t] = c /\ origin'[c] # Unborn
        /\ \A s \in Tasks : s # t => held'[s] = held[s]
        /\ \A d \in Conns : origin[d] # Unborn => origin'[d] # Unborn
    BY <2>1, <2>2
  <2>6. HeldUntouched'
    BY <2>1, <2>3, <2>5
  <2> QED BY <2>4, <2>6
<1>3. ASSUME NEW a \in Acceptors, NEW c \in Conns, AcceptConn(a, c) PROVE P'
    BY <1>3 DEF AcceptConn
<1>4. ASSUME NEW c \in Conns, RmConn(c) PROVE P'
    BY <1>4 DEF RmConn
<1>5. ASSUME NEW w \in Watchers, ReadFails(w) \/ WriteFails(w) PROVE P'
    BY <1>5 DEF ReadFails, WriteFails, SetClosed
<1>6. ASSUME NEW w \in Watchers, ReaderStops(w) \/ ScheduleRmConn(w) \/ SpawnReconnect(w)
      PROVE P'
    BY <1>6 DEF ReaderStops, ScheduleRmConn, SpawnReconnect
<1>7. CASE UNCHANGED <<conns, closed, watch, origin, held>>
    BY <1>7
<1> QED BY <1>1, <1>2, <1>3, <1>4, <1>5, <1>6, <1>7, OtherSteps

(* The race for the closed flag has one winner: a second watcher finds the *)
(* flag set, because the first one won it.                                 *)
LEMMA ClosedStep == IInv /\ [Next]_vars => ClosedIffWon' /\ OneReconnectPerLoss'
<1> DEFINE P == ClosedIffWon /\ OneReconnectPerLoss
<1> SUFFICES ASSUME IInv, [Next]_vars PROVE P'
    OBVIOUS
<1> USE WatcherPair
    DEF IInv, TypeOK, ClosedIffWon, OneReconnectPerLoss, Won
<1>1. ASSUME NEW t \in Tasks, AddConn(t) PROVE P'
    BY <1>1 DEF AddConn, AddHolds, HeldUntouched, Untouched
<1>2. ASSUME NEW t \in Tasks, NEW c \in Conns, DialOk(t, c) PROVE P'
    BY <1>2 DEF DialOk
<1>3. ASSUME NEW a \in Acceptors, NEW c \in Conns, AcceptConn(a, c) PROVE P'
    BY <1>3 DEF AcceptConn
<1>4. ASSUME NEW c \in Conns, RmConn(c) PROVE P'
    BY <1>4 DEF RmConn
<1>5. ASSUME NEW w \in Watchers, ReadFails(w) \/ WriteFails(w) PROVE P'
    BY <1>5 DEF ReadFails, WriteFails, SetClosed, SetClosedWins
<1>6. ASSUME NEW w \in Watchers, ReaderStops(w) \/ ScheduleRmConn(w) \/ SpawnReconnect(w)
      PROVE P'
    BY <1>6 DEF ReaderStops, ScheduleRmConn, SpawnReconnect
<1>7. CASE UNCHANGED <<conns, closed, watch, origin, held>>
    BY <1>7
<1> QED BY <1>1, <1>2, <1>3, <1>4, <1>5, <1>6, <1>7, OtherSteps

(* A closed connection is handed from its winner to the queue, from the    *)
(* queue to the batch, and from the batch out of the socket; and whoever   *)
(* fills the queue or cancels the context finds the reaper awake or wakes  *)
(* it.                                                                     *)
LEMMA HandoverStep ==
    IInv /\ [Next]_vars
        => BatchOnlyWhileRemoving' /\ NoForgottenConn' /\ CloserCancelled' /\ NoLostWakeup'
<1> DEFINE P == BatchOnlyWhileRemoving /\ NoForgottenConn /\ CloserCancelled /\ NoLostWakeup
           same == <<conns, closed, watch, closedConns, reaper, batch, cancelled, closer>>
<1> SUFFICES ASSUME IInv, [Next]_vars PROVE P'
    OBVIOUS
<1> USE WatcherPair
    DEF IInv, TypeOK, BatchOnlyWhileRemoving, NoForgottenConn, CloserCancelled,
        NoLostWakeup, dialVars, connVars, reaperVars, ctxVars, listenVars
<1>1. ASSUME NEW t \in Tasks, AddConn(t) PROVE P'
    BY <1>1 DEF AddConn, AddHolds, HeldUntouched, Untouched
<1>2. ASSUME NEW t \in Tasks, EnsureReaper(t) PROVE P'
    BY <1>2 DEF EnsureReaper, StartReaper
<1>3. ASSUME NEW w \in Watchers, ReadFails(w) \/ WriteFails(w) PROVE P'
  <2>1. /\ closed' = closed \union {w[1]}
        /\ w[1] \notin closed => watch'[w] = "schedule"
        /\ \A v \in Watchers : v # w => watch'[v] = watch[v]
        /\ watch[w] # "schedule"
        /\ UNCHANGED <<conns, closedConns, reaper, batch, cancelled, closer>>
    BY <1>3 DEF ReadFails, WriteFails, SetClosed, SetClosedWins
  <2>2. NoForgottenConn'
    BY <2>1
  <2> QED BY <2>1, <2>2
<1>4. ASSUME NEW w \in Watchers, ReaderStops(w) \/ SpawnReconnect(w) PROVE P'
    BY <1>4 DEF ReaderStops, SpawnReconnect
<1>5. ASSUME NEW w \in Watchers, ScheduleRmConn(w) PROVE P'
  <2>1. /\ closedConns' = closedConns \union {w[1]}
        /\ \A v \in Watchers : v # w => watch'[v] = watch[v]
        /\ UNCHANGED <<conns, closed, batch, cancelled, closer>>
        /\ reaper' \in {reaper, "ready"} /\ reaper' # "waiting"
        /\ reaper = "removing" => reaper' = "removing"
        /\ reaper = "exited" => reaper' = "exited"
    BY <1>5 DEF ScheduleRmConn, Signal
  <2>2. NoForgottenConn'
    BY <2>1
  <2> QED BY <2>1, <2>2
<1>6. CASE ReaperLooks
    BY <1>6 DEF ReaperLooks
<1>7. CASE ReaperRelocks
    BY <1>7 DEF ReaperRelocks
<1>8. ASSUME NEW c \in Conns, RmConn(c) PROVE P'
    BY <1>8 DEF RmConn
<1>9. CASE CloseCancels
    BY <1>9 DEF CloseCancels, Signal
<1>10. CASE CloseDefers \/ CloseConns \/ CloseListener \/ ParentCancel
    BY <1>10 DEF CloseDefers, CloseConns, CloseListener, ParentCancel
<1>11. CASE UNCHANGED same
    BY <1>11
<1>12. \/ \E t \in Tasks : AddConn(t) \/ EnsureReaper(t)
       \/ \E w \in Watchers : ReadFails(w) \/ WriteFails(w)
       \/ \E w \in Watchers : ReaderStops(w) \/ SpawnReconnect(w) \/ ScheduleRmConn(w)
       \/ ReaperLooks \/ ReaperRelocks \/ \E c \in Conns : RmConn(c)
       \/ CloseCancels \/ CloseDefers \/ CloseConns \/ CloseListener \/ ParentCancel
       \/ UNCHANGED same
    BY DEF Next, TaskStep, DialStep, AcceptStep, WatcherStep, ReaperStep,
           CloserStep, vars, CallDial, Listen, DialEnter, DialOk, DialFails,
           AcceptNext, AcceptWaits, AcceptConn, AcceptFails, Break,
           ReaderExits, ReconnectWakes, ReconnectStops
<1> QED BY <1>1, <1>2, <1>3, <1>4, <1>5, <1>6, <1>7, <1>8, <1>9, <1>10, <1>11, <1>12

-----------------------------------------------------------------------------
(* The invariant is inductive, hence an invariant of the specification. *)
THEOREM SpecIInv == Spec => []IInv
<1>1. IInv /\ [Next]_vars => IInv'
    BY TypeStep, UntouchedStep, ClosedStep, HandoverStep DEF IInv
<1> QED BY InitIInv, <1>1, PTL DEF Spec

(* Every variable of the socket keeps its type; in particular only real    *)
(* connections are registered, queued and removed.                         *)
THEOREM SocketTypeCorrect == Spec => []TypeOK
<1>1. IInv => TypeOK
    BY DEF IInv
<1> QED BY <1>1, SpecIInv, PTL

(* scheduleRmConn runs once per connection (conn.go, SetClosed). *)
THEOREM SocketOneReconnectPerLoss == Spec => []OneReconnectPerLoss
<1>1. IInv => OneReconnectPerLoss
    BY DEF IInv
<1> QED BY <1>1, SpecIInv, PTL

(* A closed connection is never forgotten on its way to the reaper         *)
(* (socket.go, scheduleRmConn and connReaper).                             *)
THEOREM SocketNoForgottenConn == Spec => []NoForgottenConn
<1>1. IInv => NoForgottenConn
    BY DEF IInv
<1> QED BY <1>1, SpecIInv, PTL

(* The reaper never sleeps on queued work or through Close. *)
THEOREM SocketNoLostWakeup == Spec => []NoLostWakeup
<1>1. IInv => NoLostWakeup
    BY DEF IInv
<1> QED BY <1>1, SpecIInv, PTL

-----------------------------------------------------------------------------
(* The account of dials.  On one side stand the connections dialled so     *)
(* far, the reconnect goroutines that still look for one, those a winner   *)
(* is about to start, and a Dial of the application that has no answer     *)
(* yet; on the other side what paid for them, a call of the application or *)
(* a loss.  Every step moves an entry, drops one, or adds one to each side. *)

Dialled == {c \in Conns : origin[c] \in Endpoints}
Trying  == {w \in Watchers : pc[w] # "idle" /\ held[w] = NoConn}
Owed    == {w \in Watchers : watch[w] \in {"schedule", "spawn"}}
Asked   == {t \in {App} : pc[t] \in {"enter", "dial"}}

Finite ==
    /\ IsFiniteSet(Dialled)
    /\ IsFiniteSet(Trying)
    /\ IsFiniteSet(Owed)
    /\ IsFiniteSet(Asked)
    /\ IsFiniteSet(closed)

Balanced ==
    Cardinality(Dialled) + Cardinality(Trying) + Cardinality(Owed)
      + Cardinality(Asked)
    <= calls + Cardinality(closed)

AcceptNeverDials ==
    \A a \in Acceptors : pc[a] \in {"idle", "loop", "accept", "add"}

(* A watcher starts its reconnect goroutine once, and that goroutine has a *)
(* connection in hand only between the dial and the registration.          *)
StartedOnce ==
    \A w \in Watchers :
        watch[w] \in {"off", "reading", "schedule", "spawn"} => pc[w] = "idle"

HeldToAdd ==
    \A w \in Watchers : held[w] # NoConn => pc[w] \in {"start", "add"}

Places == AcceptNeverDials /\ StartedOnce /\ HeldToAdd

Account == Finite /\ Balanced /\ Places

(* Sets that lose elements, gain at most one, or lose at least one. *)
LEMMA NoMore ==
    ASSUME NEW S, IsFiniteSet(S), NEW T, T \subseteq S
    PROVE  /\ IsFiniteSet(T)
           /\ Cardinality(S) \in Nat
           /\ Cardinality(T) \in Nat
           /\ Cardinality(T) <= Cardinality(S)
  BY FS_Subset, FS_CardinalityType

LEMMA OneMore ==
    ASSUME NEW S, IsFiniteSet(S), NEW x, NEW T, T \subseteq S \union {x}
    PROVE  /\ IsFiniteSet(T)
           /\ Cardinality(S) \in Nat
           /\ Cardinality(T) \in Nat
           /\ Cardinality(T) <= Cardinality(S) + 1
<1> DEFINE U == S \union {x}
<1>1. /\ IsFiniteSet(U)
      /\ Cardinality(S) \in Nat
      /\ Cardinality(U) \in Nat
      /\ Cardinality(U) <= Cardinality(S) + 1
  <2>1. IsFiniteSet(U) /\ Cardinality(U) \in {Cardinality(S), Cardinality(S) + 1}
    BY FS_AddElement
  <2>2. Cardinality(S) \in Nat
    BY FS_CardinalityType
  <2> QED BY <2>1, <2>2
<1>2. T \subseteq U
    OBVIOUS
<1> HIDE DEF U
<1>3. IsFiniteSet(T) /\ Cardinality(T) \in Nat /\ Cardinality(T) <= Cardinality(U)
    BY <1>1, <1>2, NoMore
<1> QED BY <1>1, <1>3

LEMMA OneLess ==
    ASSUME NEW S, IsFiniteSet(S), NEW x \in S, NEW T, T \subseteq S \ {x}
    PROVE  /\ IsFiniteSet(T)
           /\ Cardinality(S) \in Nat
           /\ Cardinality(T) \in Nat
           /\ Cardinality(T) <= Cardinality(S) - 1
<1> DEFINE U == S \ {x}
<1>1. /\ IsFiniteSet(U)
      /\ Cardinality(S) \in Nat
      /\ Cardinality(U) \in Nat
      /\ Cardinality(U) = Cardinality(S) - 1
    BY FS_RemoveElement, FS_CardinalityType
<1>2. T \subseteq U
    OBVIOUS
<1> HIDE DEF U
<1>3. IsFiniteSet(T) /\ Cardinality(T) \in Nat /\ Cardinality(T) <= Cardinality(U)
    BY <1>1, <1>2, NoMore
<1> QED BY <1>1, <1>3

(* Nothing is dialled, tried, owed or asked for at first. *)
LEMMA InitAccount == Init => Account
<1> SUFFICES ASSUME Init PROVE Account
    OBVIOUS
<1>1. Dialled = {} /\ Trying = {} /\ Owed = {} /\ Asked = {} /\ closed = {} /\ calls = 0
    BY SocketAssumption, WatcherPair
    DEF Init, Dialled, Trying, Owed, Asked
<1>2. Places
    BY WatcherPair DEF Init, Places, AcceptNeverDials, StartedOnce, HeldToAdd
<1> HIDE DEF Init
<1> QED BY <1>1, <1>2, FS_EmptySet DEF Account, Finite, Balanced

(* A step that adds nothing to either side. *)
LEMMA KeptAccount ==
    ASSUME Finite, Balanced, TypeOK,
           Dialled' \subseteq Dialled, Trying' \subseteq Trying,
           Owed' \subseteq Owed, Asked' \subseteq Asked,
           closed' = closed, calls' = calls
    PROVE  Finite' /\ Balanced'
<1>1. /\ IsFiniteSet(Dialled')
      /\ Cardinality(Dialled) \in Nat /\ Cardinality(Dialled') \in Nat
      /\ Cardinality(Dialled') <= Cardinality(Dialled)
    BY NoMore DEF Finite
<1>2. /\ IsFiniteSet(Trying')
      /\ Cardinality(Trying) \in Nat /\ Cardinality(Trying') \in Nat
      /\ Cardinality(Trying') <= Cardinality(Trying)
    BY NoMore DEF Finite
<1>3. /\ IsFiniteSet(Owed')
      /\ Cardinality(Owed) \in Nat /\ Cardinality(Owed') \in Nat
      /\ Cardinality(Owed') <= Cardinality(Owed)
    BY NoMore DEF Finite
<1>4. /\ IsFiniteSet(Asked')
      /\ Cardinality(Asked) \in Nat /\ Cardinality(Asked') \in Nat
      /\ Cardinality(Asked') <= Cardinality(Asked)
    BY NoMore DEF Finite
<1>5. Cardinality(closed) \in Nat /\ calls \in Nat
    BY NoMore DEF Finite, TypeOK
<1>6. Finite'
    BY <1>1, <1>2, <1>3, <1>4 DEF Finite
<1>7. Balanced'
    BY <1>1, <1>2, <1>3, <1>4, <1>5 DEF Balanced
<1> QED BY <1>6, <1>7

(* What a step may do to the account. *)
NothingNew ==
    /\ Dialled' \subseteq Dialled /\ Trying' \subseteq Trying
    /\ Owed' \subseteq Owed /\ Asked' \subseteq Asked
    /\ closed' = closed /\ calls' = calls

CallMade ==
    /\ Dialled' \subseteq Dialled /\ Trying' \subseteq Trying
    /\ Owed' \subseteq Owed /\ Asked' \subseteq Asked \union {App}
    /\ closed' = closed /\ calls' = calls + 1

AppAnswered(c) ==
    /\ App \in Asked
    /\ Dialled' \subseteq Dialled \union {c} /\ Trying' \subseteq Trying
    /\ Owed' \subseteq Owed /\ Asked' \subseteq Asked \ {App}
    /\ closed' = closed /\ calls' = calls

WatcherAnswered(w, c) ==
    /\ w \in Trying
    /\ Dialled' \subseteq Dialled \union {c} /\ Trying' \subseteq Trying \ {w}
    /\ Owed' \subseteq Owed /\ Asked' \subseteq Asked
    /\ closed' = closed /\ calls' = calls

LossSeen(w) ==
    /\ w[1] \notin closed
    /\ Dialled' \subseteq Dialled /\ Trying' \subseteq Trying
    /\ Owed' \subseteq Owed \union {w} /\ Asked' \subseteq Asked
    /\ closed' = closed \union {w[1]} /\ calls' = calls

Spawned(w) ==
    /\ w \in Owed
    /\ Dialled' \subseteq Dialled /\ Trying' \subseteq Trying \union {w}
    /\ Owed' \subseteq Owed \ {w} /\ Asked' \subseteq Asked
    /\ closed' = closed /\ calls' = calls

Entry ==
    \/ NothingNew
    \/ CallMade
    \/ \E c \in Conns : AppAnswered(c)
    \/ \E w \in Watchers, c \in Conns : WatcherAnswered(w, c)
    \/ \E w \in Watchers : LossSeen(w) \/ Spawned(w)

(* Listen moves the application, and starts one accept loop, or fails. *)
LEMMA ListenStarts ==
    ASSUME TypeOK, NEW e \in Endpoints, Listen(e)
    PROVE  /\ \A t \in Tasks \ Acceptors : pc'[t] = pc[t] \/ (t = App /\ pc'[t] = "start")
           /\ \A a \in Acceptors : pc'[a] = pc[a] \/ pc'[a] = "loop"
  <1>1. CASE pc' = pc
    BY <1>1
  <1>2. CASE pc' = StartAccept([pc EXCEPT ![App] = "start"], calls + 1)
    <2>1. Acceptor(calls + 1) \in Acceptors
      BY NextListener DEF Listen, TypeOK
    <2>2. pc \in [Tasks -> {"idle", "sleep", "enter", "dial", "start", "add",
                           "loop", "accept"}]
      BY DEF TypeOK
    <2>3. pc' = [pc EXCEPT ![App] = "start", ![Acceptor(calls + 1)] = "loop"]
      BY <1>2 DEF StartAccept
    <2>4. App \in Tasks /\ App \notin Acceptors /\ Acceptors \subseteq Tasks
      BY WatcherPair, TaskKinds
    <2>5. QED
      BY <2>1, <2>2, <2>3, <2>4
  <1>3. QED
    BY <1>1, <1>2 DEF Listen

(* Every step makes one of these entries, and keeps the places.             *)
LEMMA StepEntry ==
    ASSUME IInv, Places, [Next]_vars
    PROVE  Entry /\ Places'
<1> DEFINE P == Entry /\ Places'
<1> USE WatcherPair, SocketAssumption, TaskKinds
    DEF IInv, TypeOK, Places, AcceptNeverDials, StartedOnce, HeldToAdd,
        dialVars, connVars, reaperVars, ctxVars, listenVars
<1> DEFINE quiet == <<origin, pc, held, watch, closed, calls>>
<1>1. ASSUME NEW e \in Endpoints, CallDial(e) PROVE P
    BY <1>1 DEF CallDial, Entry, CallMade, Dialled, Trying, Owed, Asked
<1>2. ASSUME NEW e \in Endpoints, Listen(e) PROVE P
  <2>1. /\ \A t \in Tasks \ Acceptors : pc'[t] = pc[t] \/ (t = App /\ pc'[t] = "start")
        /\ \A a \in Acceptors : pc'[a] = pc[a] \/ pc'[a] = "loop"
    BY <1>2, ListenStarts
  <2>2. Places'
    BY <1>2, <2>1 DEF Listen
  <2>3. CallMade
    BY <1>2, <2>1 DEF Listen, CallMade, Dialled, Trying, Owed, Asked
  <2> QED BY <2>2, <2>3 DEF Entry
<1>3. ASSUME NEW t \in Tasks, DialEnter(t) \/ DialFails(t) PROVE P
    BY <1>3 DEF DialEnter, DialFails, AfterFailure, Entry, NothingNew,
                Dialled, Trying, Owed, Asked
<1>4. ASSUME NEW t \in Tasks, EnsureReaper(t) PROVE P
    BY <1>4 DEF EnsureReaper, AfterStart, Entry, NothingNew,
                Dialled, Trying, Owed, Asked
<1>5. ASSUME NEW t \in Tasks, AddConn(t) PROVE P
  <2>1. /\ held[t] \in Conns
        /\ watch' = [watch EXCEPT ![<<held[t], "reader">>] = "reading"]
        /\ held' = [held EXCEPT ![t] = NoConn]
        /\ pc' = [pc EXCEPT ![t] = AfterAdd(t)]
        /\ UNCHANGED <<origin, closed, calls>>
    BY <1>5 DEF AddConn, AddHolds
  <2>2. watch[<<held[t], "reader">>] = "off"
    BY <2>1 DEF HeldUntouched, Untouched
  <2>3. Places'
    BY <2>1, <2>2 DEF AfterAdd
  <2>4. Dialled' = Dialled /\ Owed' \subseteq Owed
    BY <2>1, <2>2 DEF Dialled, Owed
  <2>5. Trying' \subseteq Trying /\ Asked' \subseteq Asked
    BY <2>1 DEF AfterAdd, Trying, Asked
  <2> QED BY <2>1, <2>3, <2>4, <2>5 DEF Entry, NothingNew
<1>6. ASSUME NEW t \in Tasks, NEW c \in Conns, DialOk(t, c) PROVE P
  <2>1. Dialled' \subseteq Dialled \union {c} /\ Owed' = Owed /\ Places'
    BY <1>6 DEF DialOk, Dialled, Owed
  <2>2. CASE t = App
    BY <1>6, <2>1, <2>2 DEF DialOk, Entry, AppAnswered, Trying, Asked
  <2>3. CASE t \in Watchers
    <3>1. t \in Trying /\ Trying' \subseteq Trying \ {t} /\ Asked' = Asked
      BY <1>6, <2>3 DEF DialOk, Trying, Asked
    <3>2. WatcherAnswered(t, c)
      BY <1>6, <2>1, <3>1 DEF DialOk, WatcherAnswered
    <3> QED BY <2>1, <2>3, <3>2 DEF Entry
  <2>4. t \notin Acceptors
    BY <1>6 DEF DialOk
  <2> QED BY <2>2, <2>3, <2>4
<1>7. ASSUME NEW a \in Acceptors, AcceptNext(a) \/ AcceptFails(a) PROVE P
    BY <1>7 DEF AcceptNext, AcceptFails, Entry, NothingNew,
                Dialled, Trying, Owed, Asked
<1>8. ASSUME NEW a \in Acceptors, NEW c \in Conns, AcceptConn(a, c) PROVE P
    BY <1>8 DEF AcceptConn, Entry, NothingNew, Dialled, Trying, Owed, Asked
<1>9. ASSUME NEW w \in Watchers, ReadFails(w) \/ WriteFails(w) PROVE P
  <2>1. /\ watch[w] \in {"off", "reading"}
        /\ SetClosed(w)
        /\ UNCHANGED <<origin, pc, held, calls>>
    BY <1>9 DEF ReadFails, WriteFails
  <2>2. Dialled' = Dialled /\ Trying' = Trying /\ Asked' = Asked /\ Places'
    BY <2>1 DEF SetClosed, Dialled, Trying, Asked
  <2>3. CASE w[1] \in closed
    BY <2>1, <2>2, <2>3 DEF SetClosed, SetClosedWins, Entry, NothingNew, Owed
  <2>4. CASE w[1] \notin closed
    <3>1. Owed' \subseteq Owed \union {w}
      BY <2>1, <2>4 DEF SetClosed, Owed
    <3>2. LossSeen(w)
      BY <2>1, <2>2, <2>4, <3>1 DEF SetClosed, LossSeen
    <3> QED BY <2>2, <3>2 DEF Entry
  <2> QED BY <2>3, <2>4
<1>10. ASSUME NEW w \in Watchers, ReaderStops(w) \/ ScheduleRmConn(w) PROVE P
    BY <1>10 DEF ReaderStops, ScheduleRmConn, Entry, NothingNew,
                 Dialled, Trying, Owed, Asked
<1>11. ASSUME NEW w \in Watchers, SpawnReconnect(w) PROVE P
    BY <1>11 DEF SpawnReconnect, Entry, Spawned, Dialled, Trying, Owed, Asked
<1>12. ASSUME NEW w \in Watchers, ReconnectWakes(w) \/ ReconnectStops(w) PROVE P
    BY <1>12 DEF ReconnectWakes, ReconnectStops, Entry, NothingNew,
                 Dialled, Trying, Owed, Asked
<1>13. CASE UNCHANGED quiet
    BY <1>13 DEF Entry, NothingNew, Dialled, Trying, Owed, Asked
<1>14. \/ \E e \in Endpoints : CallDial(e) \/ Listen(e)
       \/ \E t \in Tasks : \/ DialEnter(t) \/ DialFails(t) \/ EnsureReaper(t)
                           \/ AddConn(t) \/ \E c \in Conns : DialOk(t, c)
       \/ \E a \in Acceptors : \/ AcceptNext(a) \/ AcceptFails(a)
                               \/ \E c \in Conns : AcceptConn(a, c)
       \/ \E w \in Watchers :
            \/ ReadFails(w) \/ WriteFails(w) \/ ReaderStops(w)
            \/ ScheduleRmConn(w) \/ SpawnReconnect(w)
            \/ ReconnectWakes(w) \/ ReconnectStops(w)
       \/ UNCHANGED quiet
    BY DEF Next, TaskStep, DialStep, AcceptStep, WatcherStep, ReaperStep,
           CloserStep, vars, AcceptWaits, Break, ReaderExits, ReaperLooks,
           ReaperRelocks, RmConn, CloseCancels, CloseDefers, CloseConns,
           CloseListener, ParentCancel
<1> QED BY <1>1, <1>2, <1>3, <1>4, <1>5, <1>6, <1>7, <1>8, <1>9, <1>10,
           <1>11, <1>12, <1>13, <1>14

(* An entry that moves one claim, or adds one to each side, keeps the      *)
(* account balanced.                                                       *)
LEMMA BalanceStep ==
    ASSUME TypeOK, Finite, Balanced, Entry
    PROVE  Finite' /\ Balanced'
<1> DEFINE P == Finite' /\ Balanced'
<1>0. calls \in Nat /\ Cardinality(closed) \in Nat
    BY NoMore DEF TypeOK, Finite
<1>1. CASE NothingNew
    BY <1>1, KeptAccount DEF NothingNew
<1>2. CASE CallMade
  <2>1. /\ IsFiniteSet(Dialled')
        /\ Cardinality(Dialled) \in Nat /\ Cardinality(Dialled') \in Nat
        /\ Cardinality(Dialled') <= Cardinality(Dialled)
    BY <1>2, NoMore DEF Finite, CallMade
  <2>2. /\ IsFiniteSet(Trying')
        /\ Cardinality(Trying) \in Nat /\ Cardinality(Trying') \in Nat
        /\ Cardinality(Trying') <= Cardinality(Trying)
    BY <1>2, NoMore DEF Finite, CallMade
  <2>3. /\ IsFiniteSet(Owed')
        /\ Cardinality(Owed) \in Nat /\ Cardinality(Owed') \in Nat
        /\ Cardinality(Owed') <= Cardinality(Owed)
    BY <1>2, NoMore DEF Finite, CallMade
  <2>4. /\ IsFiniteSet(Asked')
        /\ Cardinality(Asked) \in Nat /\ Cardinality(Asked') \in Nat
        /\ Cardinality(Asked') <= Cardinality(Asked) + 1
    BY <1>2, OneMore DEF Finite, CallMade
  <2>5. closed' = closed /\ calls' = calls + 1
    BY <1>2 DEF CallMade
  <2>6. Finite'
    BY <2>1, <2>2, <2>3, <2>4, <2>5 DEF Finite
  <2>7. Balanced'
    BY <1>0, <2>1, <2>2, <2>3, <2>4, <2>5 DEF Balanced
  <2> QED BY <2>6, <2>7
<1>3. ASSUME NEW c \in Conns, AppAnswered(c) PROVE P
  <2>1. /\ IsFiniteSet(Dialled')
        /\ Cardinality(Dialled) \in Nat /\ Cardinality(Dialled') \in Nat
        /\ Cardinality(Dialled') <= Cardinality(Dialled) + 1
    BY <1>3, OneMore DEF Finite, AppAnswered
  <2>2. /\ IsFiniteSet(Trying')
        /\ Cardinality(Trying) \in Nat /\ Cardinality(Trying') \in Nat
        /\ Cardinality(Trying') <= Cardinality(Trying)
    BY <1>3, NoMore DEF Finite, AppAnswered
  <2>3. /\ IsFiniteSet(Owed')
        /\ Cardinality(Owed) \in Nat /\ Cardinality(Owed') \in Nat
        /\ Cardinality(Owed') <= Cardinality(Owed)
    BY <1>3, NoMore DEF Finite, AppAnswered
  <2>4. /\ IsFiniteSet(Asked')
        /\ Cardinality(Asked) \in Nat /\ Cardinality(Asked') \in Nat
        /\ Cardinality(Asked') <= Cardinality(Asked) - 1
    BY <1>3, OneLess DEF Finite, AppAnswered
  <2>5. closed' = closed /\ calls' = calls
    BY <1>3 DEF AppAnswered
  <2>6. Finite'
    BY <2>1, <2>2, <2>3, <2>4, <2>5 DEF Finite
  <2>7. Balanced'
    BY <1>0, <2>1, <2>2, <2>3, <2>4, <2>5 DEF Balanced
  <2> QED BY <2>6, <2>7
<1>4. ASSUME NEW w \in Watchers, NEW c \in Conns, WatcherAnswered(w, c)
      PROVE P
  <2>1. /\ IsFiniteSet(Dialled')
        /\ Cardinality(Dialled) \in Nat /\ Cardinality(Dialled') \in Nat
        /\ Cardinality(Dialled') <= Cardinality(Dialled) + 1
    BY <1>4, OneMore DEF Finite, WatcherAnswered
  <2>2. /\ IsFiniteSet(Trying')
        /\ Cardinality(Trying) \in Nat /\ Cardinality(Trying') \in Nat
        /\ Cardinality(Trying') <= Cardinality(Trying) - 1
    BY <1>4, OneLess DEF Finite, WatcherAnswered
  <2>3. /\ IsFiniteSet(Owed')
        /\ Cardinality(Owed) \in Nat /\ Cardinality(Owed') \in Nat
        /\ Cardinality(Owed') <= Cardinality(Owed)
    BY <1>4, NoMore DEF Finite, WatcherAnswered
  <2>4. /\ IsFiniteSet(Asked')
        /\ Cardinality(Asked) \in Nat /\ Cardinality(Asked') \in Nat
        /\ Cardinality(Asked') <= Cardinality(Asked)
    BY <1>4, NoMore DEF Finite, WatcherAnswered
  <2>5. closed' = closed /\ calls' = calls
    BY <1>4 DEF WatcherAnswered
  <2>6. Finite'
    BY <2>1, <2>2, <2>3, <2>4, <2>5 DEF Finite
  <2>7. Balanced'
    BY <1>0, <2>1, <2>2, <2>3, <2>4, <2>5 DEF Balanced
  <2> QED BY <2>6, <2>7
<1>5. ASSUME NEW w \in Watchers, LossSeen(w) PROVE P
  <2>1. /\ IsFiniteSet(Dialled')
        /\ Cardinality(Dialled) \in Nat /\ Cardinality(Dialled') \in Nat
        /\ Cardinality(Dialled') <= Cardinality(Dialled)
    BY <1>5, NoMore DEF Finite, LossSeen
  <2>2. /\ IsFiniteSet(Trying')
        /\ Cardinality(Trying) \in Nat /\ Cardinality(Trying') \in Nat
        /\ Cardinality(Trying') <= Cardinality(Trying)
    BY <1>5, NoMore DEF Finite, LossSeen
  <2>3. /\ IsFiniteSet(Owed')
        /\ Cardinality(Owed) \in Nat /\ Cardinality(Owed') \in Nat
        /\ Cardinality(Owed') <= Cardinality(Owed) + 1
    BY <1>5, OneMore DEF Finite, LossSeen
  <2>4. /\ IsFiniteSet(Asked')
        /\ Cardinality(Asked) \in Nat /\ Cardinality(Asked') \in Nat
        /\ Cardinality(Asked') <= Cardinality(Asked)
    BY <1>5, NoMore DEF Finite, LossSeen
  <2>5. /\ IsFiniteSet(closed') /\ calls' = calls
        /\ Cardinality(closed') = Cardinality(closed) + 1
    BY <1>5, FS_AddElement DEF Finite, LossSeen
  <2>6. Finite'
    BY <2>1, <2>2, <2>3, <2>4, <2>5 DEF Finite
  <2>7. Balanced'
    BY <1>0, <2>1, <2>2, <2>3, <2>4, <2>5 DEF Balanced
  <2> QED BY <2>6, <2>7
<1>6. ASSUME NEW w \in Watchers, Spawned(w) PROVE P
  <2>1. /\ IsFiniteSet(Dialled')
        /\ Cardinality(Dialled) \in Nat /\ Cardinality(Dialled') \in Nat
        /\ Cardinality(Dialled') <= Cardinality(Dialled)
    BY <1>6, NoMore DEF Finite, Spawned
  <2>2. /\ IsFiniteSet(Trying')
        /\ Cardinality(Trying) \in Nat /\ Cardinality(Trying') \in Nat
        /\ Cardinality(Trying') <= Cardinality(Trying) + 1
    BY <1>6, OneMore DEF Finite, Spawned
  <2>3. /\ IsFiniteSet(Owed')
        /\ Cardinality(Owed) \in Nat /\ Cardinality(Owed') \in Nat
        /\ Cardinality(Owed') <= Cardinality(Owed) - 1
    BY <1>6, OneLess DEF Finite, Spawned
  <2>4. /\ IsFiniteSet(Asked')
        /\ Cardinality(Asked) \in Nat /\ Cardinality(Asked') \in Nat
        /\ Cardinality(Asked') <= Cardinality(Asked)
    BY <1>6, NoMore DEF Finite, Spawned
  <2>5. closed' = closed /\ calls' = calls
    BY <1>6 DEF Spawned
  <2>6. Finite'
    BY <2>1, <2>2, <2>3, <2>4, <2>5 DEF Finite
  <2>7. Balanced'
    BY <1>0, <2>1, <2>2, <2>3, <2>4, <2>5 DEF Balanced
  <2> QED BY <2>6, <2>7
<1> QED BY <1>1, <1>2, <1>3, <1>4, <1>5, <1>6 DEF Entry

(* The socket dials no more connections than calls of Dial and losses      *)
(* account for, whatever the reconnect goroutines are doing (socket.go,    *)
(* scheduleRmConn and reconnect).                                          *)
THEOREM SocketNoSpuriousDial == Spec => []NoSpuriousDial
<1>1. IInv /\ Account /\ [Next]_vars => Account'
    BY StepEntry, BalanceStep DEF IInv, Account
<1>2. IInv /\ Account => NoSpuriousDial
  <2> SUFFICES ASSUME IInv, Account PROVE NoSpuriousDial
      OBVIOUS
  <2>1. /\ Cardinality(Dialled) \in Nat /\ Cardinality(Trying) \in Nat
        /\ Cardinality(Owed) \in Nat /\ Cardinality(Asked) \in Nat
        /\ Cardinality(closed) \in Nat /\ calls \in Nat
      BY NoMore DEF Account, Finite, IInv, TypeOK
  <2>2. Cardinality(Dialled) + Cardinality(Trying) <= calls + Cardinality(closed)
      BY <2>1 DEF Account, Balanced
  <2> QED BY <2>2 DEF NoSpuriousDial, Dialled, Trying
<1> QED BY SpecIInv, InitAccount, <1>1, <1>2, PTL DEF Spec

-----------------------------------------------------------------------------
(* The accept loop that Listen has started for the newest listener goes    *)
(* round until the context is done, and never waits for an older one.      *)
NewestServes ==
    listener # NoListener /\ ~cancelled =>
        /\ pc[Acceptor(listener)] \in {"loop", "add", "accept"}
        /\ waitsOn[Acceptor(listener)] \in {NoListener, listener}

(* An accept loop that no call has started yet has not moved. *)
FreshAcceptors ==
    \A l \in Listeners : l > calls =>
        pc[Acceptor(l)] = "idle" /\ waitsOn[Acceptor(l)] = NoListener

Served == NewestServes /\ FreshAcceptors

(* An accept loop and its number name one another, and it is no other task. *)
LEMMA AcceptorNumber ==
    /\ \A k, l \in Listeners : Acceptor(k) = Acceptor(l) => k = l
    /\ \A l \in Listeners : Acceptor(l) \in Acceptors /\ Acceptor(l) \in Tasks
    /\ \A l \in Listeners : Acceptor(l) # App /\ Acceptor(l) \notin Watchers
    /\ \A a \in Acceptors : \E l \in Listeners : a = Acceptor(l)
    /\ NoListener \notin Listeners
  <1>1. \A k, l \in Listeners : Acceptor(k) = Acceptor(l) => k = l
    BY DEF Acceptor
  <1>2. \A a \in Acceptors : \E l \in Listeners : a = Acceptor(l)
    BY DEF Acceptors, Acceptor
  <1>3. NoListener \notin Listeners
    BY SocketAssumption DEF Listeners, NoListener
  <1>4. QED
    BY <1>1, <1>2, <1>3, WatcherPair, TaskKinds

LEMMA ListenServed ==
    ASSUME TypeOK, Served, NEW e \in Endpoints, Listen(e)
    PROVE  Served'
  <1>1. calls \in 0 .. MaxCalls /\ MaxCalls \in Nat /\ calls' = calls + 1
        /\ calls < MaxCalls
    BY SocketAssumption DEF TypeOK, Listen
  <1>2. CASE UNCHANGED <<listener, pc>>
    BY <1>1, <1>2 DEF Listen, Served, NewestServes, FreshAcceptors, Listeners
  <1>3. CASE /\ listener' = calls + 1
             /\ pc' = StartAccept([pc EXCEPT ![App] = "start"], calls + 1)
    <2> DEFINE new == calls + 1
    <2>1. new \in Listeners
      BY <1>1, NextListener
    <2>2. pc' = [pc EXCEPT ![App] = "start", ![Acceptor(new)] = "loop"]
      BY <1>3 DEF StartAccept
    <2>3. pc \in [Tasks -> {"idle", "sleep", "enter", "dial", "start", "add",
                           "loop", "accept"}]
      BY DEF TypeOK
    <2>4. UNCHANGED <<waitsOn, cancelled>>
      BY DEF Listen
    <2>5. waitsOn[Acceptor(new)] = NoListener
      BY <1>1, <2>1 DEF Served, FreshAcceptors
    <2>6. NewestServes'
      <3>1. pc'[Acceptor(new)] = "loop"
        BY <2>1, <2>2, <2>3, AcceptorNumber
      <3>2. QED
        BY <1>3, <2>4, <2>5, <3>1 DEF NewestServes, Acceptor
    <2>7. FreshAcceptors'
      <3> SUFFICES ASSUME NEW l \in Listeners, l > calls + 1
                   PROVE  pc'[Acceptor(l)] = "idle" /\ waitsOn'[Acceptor(l)] = NoListener
        BY <1>1 DEF FreshAcceptors, Acceptor, Listeners
      <3>1. Acceptor(l) # Acceptor(new) /\ Acceptor(l) # App /\ Acceptor(l) \in Tasks
        BY <1>1, <2>1, AcceptorNumber DEF Listeners
      <3>2. pc[Acceptor(l)] = "idle" /\ waitsOn[Acceptor(l)] = NoListener
        BY <1>1 DEF Served, FreshAcceptors, Listeners
      <3>3. pc'[Acceptor(l)] = pc[Acceptor(l)]
        BY <2>2, <2>3, <3>1
      <3>4. QED
        BY <2>4, <3>2, <3>3
    <2>8. QED
      BY <2>6, <2>7 DEF Served
  <1>4. QED
    BY <1>2, <1>3 DEF Listen

(* An accept loop in its stride: from the head to Accept, from there with  *)
(* a connection to addConn, and back; it ends once the context is done.    *)
LEMMA AcceptServed ==
    ASSUME IInv, Served, NEW a \in Acceptors,
           AcceptStep(a) \/ AddConn(a)
    PROVE  Served'
  <1> USE DEF IInv, TypeOK, dialVars, connVars, reaperVars, ctxVars, listenVars
  <1>1. PICK k \in Listeners : a = Acceptor(k)
    BY AcceptorNumber
  <1>2. /\ UNCHANGED <<calls, listener, cancelled>>
        /\ \A l \in Listeners : l # k =>
             /\ pc'[Acceptor(l)] = pc[Acceptor(l)]
             /\ waitsOn'[Acceptor(l)] = waitsOn[Acceptor(l)]
        /\ pc[a] # "idle"
    <2>1. \A l \in Listeners : l # k => Acceptor(l) # a
      BY <1>1, AcceptorNumber
    <2>2. \A l \in Listeners : Acceptor(l) \in Tasks /\ Acceptor(l) \in Acceptors
      BY AcceptorNumber
    <2>3. CASE AcceptNext(a) \/ AddConn(a)
      BY <2>1, <2>2, <2>3 DEF AcceptNext, AddConn
    <2>4. CASE AcceptWaits(a)
      BY <2>1, <2>2, <2>4 DEF AcceptWaits
    <2>5. CASE AcceptFails(a)
      BY <2>1, <2>2, <2>5 DEF AcceptFails
    <2>6. CASE \E c \in Conns : AcceptConn(a, c)
      BY <2>1, <2>2, <2>6 DEF AcceptConn
    <2>7. QED
      BY <2>3, <2>4, <2>5, <2>6 DEF AcceptStep
  <1>3. FreshAcceptors'
    BY <1>1, <1>2 DEF Served, FreshAcceptors, Acceptor
  <1>4. ~cancelled => pc'[a] \in {"loop", "add", "accept"}
                      /\ waitsOn'[a] \in {waitsOn[a], NoListener, listener}
    <2> SUFFICES ASSUME ~cancelled
                 PROVE  pc'[a] \in {"loop", "add", "accept"}
                        /\ waitsOn'[a] \in {waitsOn[a], NoListener, listener}
      OBVIOUS
    <2>1. a \in Tasks
      BY WatcherPair
    <2>2. CASE AcceptNext(a) \/ AddConn(a)
      BY <2>1, <2>2 DEF AcceptNext, AddConn, AfterAdd
    <2>3. CASE AcceptWaits(a)
      BY <2>1, <2>3 DEF AcceptWaits
    <2>4. CASE AcceptFails(a)
      BY <2>4 DEF AcceptFails, CloserCancelled
    <2>5. CASE \E c \in Conns : AcceptConn(a, c)
      BY <2>1, <2>5 DEF AcceptConn
    <2>6. QED
      BY <2>2, <2>3, <2>4, <2>5 DEF AcceptStep
  <1>5. NewestServes'
    <2>1. CASE listener = NoListener
      BY <1>2, <2>1 DEF NewestServes
    <2>2. CASE listener = k
      BY <1>1, <1>2, <1>4, <2>2 DEF Served, NewestServes, Acceptor
    <2>3. CASE listener # k /\ listener # NoListener
      <3>1. listener \in Listeners
        BY <2>3
      <3>2. QED
        BY <1>2, <2>3, <3>1 DEF Served, NewestServes, Acceptor
    <2>4. QED
      BY <2>1, <2>2, <2>3
  <1>6. QED
    BY <1>3, <1>5 DEF Served

(* The steps of all others leave the accept loops alone, except that a     *)
(* call has been made or the context ends.                                 *)
LEMMA RestServed ==
    ASSUME TypeOK, Served, calls' \in {calls, calls + 1}, listener' = listener,
           cancelled => cancelled', waitsOn' = waitsOn,
           \A l \in Listeners : pc'[Acceptor(l)] = pc[Acceptor(l)]
    PROVE  Served'
  <1>1. calls \in Nat
    BY DEF TypeOK
  <1>2. FreshAcceptors'
    BY <1>1 DEF Served, FreshAcceptors, Acceptor, Listeners
  <1>3. NewestServes'
    <2>1. CASE listener = NoListener
      BY <2>1 DEF NewestServes
    <2>2. CASE listener \in Listeners
      BY <2>2 DEF Served, NewestServes, Acceptor
    <2>3. QED
      BY <2>1, <2>2 DEF TypeOK
  <1>4. QED
    BY <1>2, <1>3 DEF Served

(* The newest listener always has an accept loop, until the context ends:  *)
(* one that waits there or will look at sck.listener again, however many   *)
(* calls of Listen replaced it before (socket.go 207-227).                 *)
THEOREM SocketListenerIsServed == Spec => []ListenerIsServed
<1>1. Init => Served
  BY WatcherPair, AcceptorNumber DEF Init, Served, NewestServes, FreshAcceptors
<1>2. IInv /\ Account /\ Served /\ [Next]_vars => Served'
  <2> SUFFICES ASSUME IInv, AcceptNeverDials, Served, [Next]_vars PROVE Served'
    BY DEF Account, Places
  <2> USE DEF IInv
  <2>1. ASSUME NEW e \in Endpoints, Listen(e) PROVE Served'
    BY <2>1, ListenServed
  <2>2. ASSUME NEW a \in Acceptors, AcceptStep(a) \/ AddConn(a) PROVE Served'
    BY <2>2, AcceptServed
  <2>3. CASE \/ \E e \in Endpoints : CallDial(e)
             \/ \E t \in Tasks \ Acceptors : TaskStep(t)
             \/ \E c \in Conns : Break(c)
             \/ \E w \in Watchers : WatcherStep(w)
             \/ ReaperStep \/ CloserStep \/ ParentCancel
             \/ UNCHANGED vars
    <3> DEFINE Q(t) == /\ calls' \in {calls, calls + 1} /\ listener' = listener
                       /\ cancelled => cancelled'
                       /\ waitsOn' = waitsOn
                       /\ \A s \in Tasks : s # t => pc'[s] = pc[s]
    <3> USE DEF TypeOK, dialVars, connVars, reaperVars, ctxVars, listenVars
    <3>1. \E t \in Tasks \ Acceptors : Q(t)
      <4>1. App \in Tasks \ Acceptors /\ Watchers \subseteq Tasks \ Acceptors
        BY TaskKinds
      <4>2. CASE \E e \in Endpoints : CallDial(e)
        BY <4>1, <4>2 DEF CallDial
      <4>3. ASSUME NEW t \in Tasks \ Acceptors, TaskStep(t) PROVE Q(t)
        BY <4>3 DEF TaskStep, DialStep, DialEnter, DialFails, EnsureReaper, AddConn,
                    DialOk
      <4>4. ASSUME NEW w \in Watchers, WatcherStep(w) PROVE Q(w)
        BY <4>4 DEF WatcherStep, ReadFails, WriteFails, ReaderStops, ReaderExits,
                    ScheduleRmConn, SpawnReconnect, ReconnectWakes, ReconnectStops
      <4>5. CASE ReaperStep \/ CloserStep \/ ParentCancel \/ UNCHANGED vars
                   \/ \E c \in Conns : Break(c)
        <5>1. Q(App)
          BY <4>5 DEF Break, ReaperStep, ReaperLooks, ReaperRelocks, RmConn,
                      CloserStep, CloseCancels, CloseDefers, CloseConns,
                      CloseListener, ParentCancel, vars
        <5>2. QED
          BY <4>1, <5>1
      <4>6. QED
        BY <2>3, <4>1, <4>2, <4>3, <4>4, <4>5
    <3>2. PICK t \in Tasks \ Acceptors : Q(t)
      BY <3>1
    <3>3. \A l \in Listeners : pc'[Acceptor(l)] = pc[Acceptor(l)]
      BY <3>2, AcceptorNumber
    <3>4. QED
      BY <3>2, <3>3, RestServed
  <2>4. ASSUME NEW a \in Acceptors, TaskStep(a) PROVE AddConn(a)
    BY <2>4 DEF AcceptNeverDials, TaskStep, DialStep, DialEnter, DialFails,
                EnsureReaper, DialOk
  <2>5. QED
    BY <2>1, <2>2, <2>3, <2>4 DEF Next
<1>3. TypeOK /\ Served => ListenerIsServed
  <2> SUFFICES ASSUME TypeOK, Served, listener # NoListener, ~cancelled
               PROVE  \E a \in Acceptors :
                        \/ pc[a] \in {"loop", "add"}
                        \/ pc[a] = "accept" /\ waitsOn[a] \in {NoListener, listener}
    BY DEF ListenerIsServed
  <2>1. Acceptor(listener) \in Acceptors
    BY WatcherPair DEF TypeOK
  <2>2. QED
    BY <2>1 DEF Served, NewestServes
<1>4. IInv => TypeOK
  BY DEF IInv
<1>5. IInv /\ Account /\ [Next]_vars => Account'
  BY StepEntry, BalanceStep DEF IInv, Account
<1> QED BY SpecIInv, InitAccount, <1>1, <1>2, <1>3, <1>4, <1>5, PTL DEF Spec

-----------------------------------------------------------------------------
(* The reconnect interval for every width, interval and maximum. *)

(* A double that exceeds the width comes out negative, below the interval  *)
(* it was computed from, which is how the code notices the overflow.       *)
LEMMA OverflowIsSeen ==
    ASSUME NEW w \in Nat \ {0}, NEW cur \in 0 .. w - 1
    PROVE  IF 2 * cur < w THEN Wrap(w, 2 * cur) = 2 * cur
                          ELSE Wrap(w, 2 * cur) < cur
  BY DEF Wrap

(* The interval never exceeds the maximum, is never negative, and does not *)
(* shrink from one attempt to the next: whatever the width, no doubling    *)
(* overflows into it (socket.go 416-430, options.go 85-86).                *)
THEOREM IntervalIsCapped ==
    ASSUME NEW w \in Nat \ {0}, NEW ivl \in 0 .. w - 1, NEW max \in 1 .. w - 1,
           NEW cur \in {NoInterval} \union 0 .. max
    PROVE  /\ ExponentialIvl(w, cur, ivl, max) \in 0 .. max
           /\ cur <= ExponentialIvl(w, cur, ivl, max)
  <1>1. CASE cur = NoInterval
    BY <1>1 DEF NoInterval, Candidate, ExponentialIvl
  <1>2. CASE cur \in 0 .. max
    <2>1. cur \in 0 .. w - 1
      BY <1>2
    <2>2. CASE 2 * cur < w
      BY <1>2, <2>1, <2>2, OverflowIsSeen DEF Candidate, ExponentialIvl
    <2>3. CASE ~(2 * cur < w)
      BY <1>2, <2>1, <2>3, OverflowIsSeen DEF Candidate, ExponentialIvl
    <2>4. QED
      BY <2>2, <2>3
  <1>3. QED
    BY <1>1, <1>2

(* Until it reaches the maximum the interval doubles with every attempt    *)
(* (options.go 85-86).                                                     *)
THEOREM IntervalDoubles ==
    ASSUME NEW w \in Nat \ {0}, NEW ivl \in 0 .. w - 1, NEW max \in 1 .. w - 1,
           NEW cur \in 0 .. max
    PROVE  ExponentialIvl(w, cur, ivl, max) = IF 2 * cur < max THEN 2 * cur ELSE max
  <1>1. cur \in 0 .. w - 1
    OBVIOUS
  <1>2. CASE 2 * cur < w
    BY <1>1, <1>2, OverflowIsSeen DEF Candidate, ExponentialIvl
  <1>3. CASE ~(2 * cur < w)
    BY <1>1, <1>3, OverflowIsSeen DEF Candidate, ExponentialIvl
  <1>4. QED
    BY <1>2, <1>3

(* Without a maximum the wait is at least the interval and less than twice *)
(* as long, provided that twice the interval is a duration (socket.go      *)
(* 432-437, options.go 88-89).                                             *)
THEOREM JitterIsBounded ==
    ASSUME NEW w \in Nat \ {0}, NEW ivl \in 0 .. w - 1, 2 * ivl <= w,
           NEW cur \in {NoInterval, ivl},
           NEW wait \in JitteredIvls(w, cur, ivl)
    PROVE  wait \in ivl .. 2 * ivl - 1
  <1>1. FixedIvl(cur, ivl) = ivl
    BY DEF FixedIvl, NoInterval
  <1>2. PICK jitter \in 0 .. ivl - 1 : wait = Wrap(w, ivl + jitter)
    BY <1>1 DEF JitteredIvls
  <1>3. QED
    BY <1>2 DEF Wrap

=============================================================================
