---------------------------- MODULE PoolsProofs ----------------------------
(***************************************************************************)
(* The proofs of module Pools, for any number of threads, connections and  *)
(* writes per message.                                                     *)
(*                                                                         *)
(* What two goroutines write on a stream is kept apart by the writer's     *)
(* mutex or, between SetOption of a SUB and the replay in addConn, by      *)
(* socket.mu; nothing keeps Send of a SUB apart from the replay, and only  *)
(* those two ever mix their messages.  socket.conns and mwriter.ws never   *)
(* disagree.  And who holds one mutex while it waits for the other is      *)
(* followed to its end: nobody waits but for a peer, and no connection     *)
(* that has failed stays in the pools.                                     *)
(***************************************************************************)
EXTENDS Pools, SequenceTheorems, TLAPS

PoolTypes ==
    /\ setters \subseteq Threads /\ (setters # {} => isSub)
    /\ conns \subseteq Conns /\ ws \in Seq(Conns)
    /\ mu # NoOne => readers = {}
    /\ writer \in Threads \union {NoOne}
    /\ adder \in [Conns -> {"fresh", "lock", "register", "replay", "done"}]
    /\ replayed \in [Conns -> 0 .. Parts - 1]
    /\ pc \in [Threads -> {"idle", "rlock", "lock", "write"}]
    /\ at \in [Threads -> Nat \ {0}]
    /\ part \in [Threads -> 1 .. Parts]
    /\ half \in [Conns -> {<<>>} \union (Threads \union {Replay}) \X (1 .. Parts - 1)]
    /\ mixed \in [Conns -> SUBSET (Threads \union {Replay})]
    /\ caught \subseteq Threads \union {Replay}

(* Who writes has the writer's mutex. *)
WriterHolds == \A t \in Threads : pc[t] = "write" <=> writer = t

(* SetOption shares socket.mu from before it asks for the writer's mutex,  *)
SharedWhileCalling ==
    \A t \in setters : pc[t] \in {"lock", "write"} => t \in readers

(* and a SUB replays its topics with socket.mu held. *)
ReplayHolds ==
    \A c \in Conns :
        /\ adder[c] = "replay" => isSub
        /\ adder[c] \in {"register", "replay"} => mu = c

(* Who has begun a message is writing, and so is who waits in a Write.     *)
Places ==
    /\ \A t \in Threads : part[t] > 1 \/ t \in caught => Writing(t)
    /\ \A c \in Conns : replayed[c] > 0 => adder[c] = "replay"
    /\ Replay \in caught => \E c \in Conns : adder[c] = "replay"

Control ==
    PoolTypes /\ WriterHolds /\ SharedWhileCalling /\ ReplayHolds /\ Places

(* Unless messages were mixed up on a stream before, who has begun a       *)
(* message finds on the stream what it has written of it.                  *)
PartOwned ==
    /\ \A t \in Threads : part[t] > 1 /\ mixed[Target(t)] = {} =>
         half[Target(t)] = <<t, part[t] - 1>>
    /\ \A c \in Conns : replayed[c] > 0 /\ mixed[c] = {} =>
         half[c] = <<Replay, replayed[c]>>

(* What stays half written is on a connection that is marked closed. *)
HalfOwned ==
    \A c \in Conns : half[c] # <<>> =>
        /\ mixed[c] = {}
        /\ \/ c \in closed
           \/ \E t \in Threads : part[t] > 1 /\ Target(t) = c
           \/ replayed[c] > 0

(* Who waits in the first Write of a message has looked at Conn.closed     *)
(* before; between Send of a SUB and the replay, what it finds on the      *)
(* stream then may be half a message of the other one.                     *)
CaughtFinds ==
    /\ \A t \in Threads \cap caught : part[t] = 1 =>
         \/ half[Target(t)] = <<>>
         \/ isSub /\ t \notin setters /\ half[Target(t)][1] = Replay
    /\ \A c \in Conns : Replay \in caught /\ adder[c] = "replay" /\ replayed[c] = 0 =>
         half[c] = <<>> \/ half[c][1] \in Threads \ setters

Wire == PartOwned /\ HalfOwned /\ CaughtFinds /\ OnlySendMixes

IInv == Control /\ Wire

-----------------------------------------------------------------------------
LEMMA InitIInv == Init => IInv
  <1> SUFFICES ASSUME Init PROVE IInv
    OBVIOUS
  <1>1. Control
    BY PoolsAssumption DEF Init, Control, PoolTypes, WriterHolds,
                           SharedWhileCalling, ReplayHolds, Places
  <1>2. Wire
    BY PoolsAssumption DEF Init, Wire, PartOwned, HalfOwned, CaughtFinds,
                           OnlySendMixes
  <1>3. QED
    BY <1>1, <1>2 DEF IInv

(* No SetOption writes during a replay. *)
LEMMA NoSetterDuringReplay ==
    ASSUME Control, NEW c \in Conns, adder[c] = "replay",
           NEW t \in Threads, pc[t] = "write"
    PROVE  isSub /\ t \notin setters
  BY PoolsAssumption DEF Control, PoolTypes, SharedWhileCalling, ReplayHolds

(* One thread writes at a time, and one addConn replays. *)
LEMMA OneWriter ==
    ASSUME Control
    PROVE  /\ \A t, u \in Threads : Writing(t) /\ Writing(u) => t = u
           /\ \A t \in Threads : Writing(t) => Target(t) \in Conns
           /\ \A c, d \in Conns : adder[c] = "replay" /\ adder[d] = "replay" => c = d
  BY DEF Control, PoolTypes, WriterHolds, ReplayHolds, Writing, Target

-----------------------------------------------------------------------------
(* The locks and who holds them. *)

LEMMA ElsewhereControl ==
    ASSUME Control, caught' = caught,
           UNCHANGED <<kind, mu, readers, writer, conns, ws, adder, replayed, pc, at,
                       part, half, mixed>>
    PROVE  Control'
  BY DEF Control, kind, PoolTypes, WriterHolds, SharedWhileCalling, ReplayHolds,
         Places, Writing, Target

(* The stream of a connection is closed. *)
LEMMA EndControl ==
    ASSUME Control, NEW cs \in SUBSET Conns, End(cs),
           UNCHANGED <<kind, mu, readers, writer, conns, ws, adder, replayed, pc, at,
                       part, half, mixed>>
    PROVE  Control'
  <1>1. PICK S \in SUBSET UNION {Writers(c) : c \in cs \ ended} :
          caught' = caught \union S
    BY DEF End
  <1>2. \A w \in S : \E c \in Conns : w \in Writers(c)
    BY <1>1
  <1>3. \A w \in S :
          \/ w \in Threads /\ Writing(w)
          \/ w = Replay /\ \E c \in Conns : adder[c] = "replay"
    <2> SUFFICES ASSUME NEW w \in S
                 PROVE  \/ w \in Threads /\ Writing(w)
                        \/ w = Replay /\ \E c \in Conns : adder[c] = "replay"
      OBVIOUS
    <2>1. PICK c \in Conns : w \in Writers(c)
      BY <1>2
    <2>2. QED
      BY <2>1 DEF Writers
  <1>4. QED
    BY <1>1, <1>3, PoolsAssumption
    DEF Control, kind, PoolTypes, WriterHolds, SharedWhileCalling, ReplayHolds,
        Places, Writing, Target

LEMMA BeginControl ==
    ASSUME Control, NEW t \in Threads, Begin(t)
    PROVE  Control'
  <1> USE PoolsAssumption DEF Begin,
                              kind, locks, pool, addVars, callVars, wire, sides
  <1>1. PoolTypes'
    BY DEF Control, PoolTypes
  <1>2. WriterHolds'
    BY <1>1 DEF Control, PoolTypes, WriterHolds
  <1>3. SharedWhileCalling'
    BY <1>1 DEF Control, PoolTypes, SharedWhileCalling
  <1>4. ReplayHolds'
    BY <1>1 DEF Control, PoolTypes, ReplayHolds
  <1>5. Places'
    BY <1>1 DEF Control, PoolTypes, WriterHolds, ReplayHolds, Places, Writing, Target
  <1>6. QED
    BY <1>1, <1>2, <1>3, <1>4, <1>5 DEF Control

LEMMA ShareLockControl ==
    ASSUME Control, NEW t \in Threads, ShareLock(t)
    PROVE  Control'
  <1> USE PoolsAssumption DEF ShareLock, MayShare, Shares,
                              kind, locks, pool, addVars, callVars, wire, sides
  <1>1. PoolTypes'
    BY DEF Control, PoolTypes
  <1>2. WriterHolds'
    BY <1>1 DEF Control, PoolTypes, WriterHolds
  <1>3. SharedWhileCalling'
    BY <1>1 DEF Control, PoolTypes, SharedWhileCalling
  <1>4. ReplayHolds'
    BY <1>1 DEF Control, PoolTypes, ReplayHolds
  <1>5. Places'
    BY <1>1 DEF Control, PoolTypes, WriterHolds, ReplayHolds, Places, Writing, Target
  <1>6. QED
    BY <1>1, <1>2, <1>3, <1>4, <1>5 DEF Control

LEMMA LockWriterControl ==
    ASSUME Control, NEW t \in Threads, LockWriter(t)
    PROVE  Control'
  <1> USE PoolsAssumption DEF LockWriter,
                              kind, locks, pool, addVars, callVars, wire, sides
  <1>1. PoolTypes'
    BY DEF Control, PoolTypes
  <1>2. WriterHolds'
    BY <1>1 DEF Control, PoolTypes, WriterHolds
  <1>3. SharedWhileCalling'
    BY <1>1 DEF Control, PoolTypes, SharedWhileCalling
  <1>4. ReplayHolds'
    BY <1>1 DEF Control, PoolTypes, ReplayHolds
  <1>5. Places'
    BY <1>1 DEF Control, PoolTypes, WriterHolds, ReplayHolds, Places, Writing, Target
  <1>6. QED
    BY <1>1, <1>2, <1>3, <1>4, <1>5 DEF Control

LEMMA SkipClosedControl ==
    ASSUME Control, NEW t \in Threads, SkipClosed(t)
    PROVE  Control'
  <1> USE PoolsAssumption DEF SkipClosed, FoundClosed, NextTarget,
                              kind, locks, pool, addVars, callVars, wire, sides
  <1>1. PoolTypes'
    BY DEF Control, PoolTypes
  <1>2. WriterHolds'
    BY <1>1 DEF Control, PoolTypes, WriterHolds
  <1>3. SharedWhileCalling'
    BY <1>1 DEF Control, PoolTypes, SharedWhileCalling
  <1>4. ReplayHolds'
    BY <1>1 DEF Control, PoolTypes, ReplayHolds
  <1>5. Places'
    BY <1>1 DEF Control, PoolTypes, WriterHolds, ReplayHolds, Places, Writing, Target
  <1>6. QED
    BY <1>1, <1>2, <1>3, <1>4, <1>5 DEF Control

LEMMA WriteFailsControl ==
    ASSUME Control, NEW t \in Threads, WriteFails(t)
    PROVE  Control'
  <1> USE PoolsAssumption DEF WriteFails, NextTarget,
                              kind, locks, pool, addVars, callVars, wire, sides
  <1>1. PoolTypes'
    BY DEF Control, PoolTypes
  <1>2. WriterHolds'
    BY <1>1 DEF Control, PoolTypes, WriterHolds
  <1>3. SharedWhileCalling'
    BY <1>1 DEF Control, PoolTypes, SharedWhileCalling
  <1>4. ReplayHolds'
    BY <1>1 DEF Control, PoolTypes, ReplayHolds
  <1>5. Places'
    BY <1>1 DEF Control, PoolTypes, WriterHolds, ReplayHolds, Places, Writing, Target
  <1>6. QED
    BY <1>1, <1>2, <1>3, <1>4, <1>5 DEF Control

LEMMA ReturnControl ==
    ASSUME Control, NEW t \in Threads, Return(t)
    PROVE  Control'
  <1> USE PoolsAssumption DEF Return, Unshared,
                              kind, locks, pool, addVars, callVars, wire, sides
  <1>1. PoolTypes'
    BY DEF Control, PoolTypes
  <1>2. WriterHolds'
    BY <1>1 DEF Control, PoolTypes, WriterHolds
  <1>3. SharedWhileCalling'
    BY <1>1 DEF Control, PoolTypes, SharedWhileCalling
  <1>4. ReplayHolds'
    BY <1>1 DEF Control, PoolTypes, ReplayHolds
  <1>5. Places'
    BY <1>1 DEF Control, PoolTypes, WriterHolds, ReplayHolds, Places, Writing, Target
  <1>6. QED
    BY <1>1, <1>2, <1>3, <1>4, <1>5 DEF Control

LEMMA ConnectControl ==
    ASSUME Control, NEW c \in Conns, Connect(c)
    PROVE  Control'
  <1> USE PoolsAssumption DEF Connect,
                              kind, locks, pool, addVars, callVars, wire, sides
  <1>1. PoolTypes'
    BY DEF Control, PoolTypes
  <1>2. WriterHolds'
    BY <1>1 DEF Control, PoolTypes, WriterHolds
  <1>3. SharedWhileCalling'
    BY <1>1 DEF Control, PoolTypes, SharedWhileCalling
  <1>4. ReplayHolds'
    BY <1>1 DEF Control, PoolTypes, ReplayHolds
  <1>5. Places'
    BY <1>1 DEF Control, PoolTypes, WriterHolds, ReplayHolds, Places, Writing, Target
  <1>6. QED
    BY <1>1, <1>2, <1>3, <1>4, <1>5 DEF Control

LEMMA AddLocksControl ==
    ASSUME Control, NEW c \in Conns, AddLocks(c)
    PROVE  Control'
  <1> USE PoolsAssumption DEF AddLocks, MayLock,
                              kind, locks, pool, addVars, callVars, wire, sides
  <1>1. PoolTypes'
    BY DEF Control, PoolTypes
  <1>2. WriterHolds'
    BY <1>1 DEF Control, PoolTypes, WriterHolds
  <1>3. SharedWhileCalling'
    BY <1>1 DEF Control, PoolTypes, SharedWhileCalling
  <1>4. ReplayHolds'
    BY <1>1 DEF Control, PoolTypes, ReplayHolds
  <1>5. Places'
    BY <1>1 DEF Control, PoolTypes, WriterHolds, ReplayHolds, Places, Writing, Target
  <1>6. QED
    BY <1>1, <1>2, <1>3, <1>4, <1>5 DEF Control

LEMMA RegisterControl ==
    ASSUME Control, NEW c \in Conns, Register(c)
    PROVE  Control'
  <1> USE PoolsAssumption DEF Register,
                              kind, locks, pool, addVars, callVars, wire, sides
  <1>1. PoolTypes'
    BY DEF Control, PoolTypes
  <1>2. WriterHolds'
    BY <1>1 DEF Control, PoolTypes, WriterHolds
  <1>3. SharedWhileCalling'
    BY <1>1 DEF Control, PoolTypes, SharedWhileCalling
  <1>4. ReplayHolds'
    BY <1>1 DEF Control, PoolTypes, ReplayHolds
  <1>5. Places'
    BY <1>1 DEF Control, PoolTypes, WriterHolds, ReplayHolds, Places, Writing, Target
  <1>6. QED
    BY <1>1, <1>2, <1>3, <1>4, <1>5 DEF Control

LEMMA ReplayFailsControl ==
    ASSUME Control, NEW c \in Conns, ReplayFails(c)
    PROVE  Control'
  <1> USE PoolsAssumption DEF ReplayFails,
                              kind, locks, pool, addVars, callVars, wire, sides
  <1>1. PoolTypes'
    BY DEF Control, PoolTypes
  <1>2. WriterHolds'
    BY <1>1 DEF Control, PoolTypes, WriterHolds
  <1>3. SharedWhileCalling'
    BY <1>1 DEF Control, PoolTypes, SharedWhileCalling
  <1>4. ReplayHolds'
    BY <1>1 DEF Control, PoolTypes, ReplayHolds
  <1>5. Places'
    BY <1>1 DEF Control, PoolTypes, WriterHolds, ReplayHolds, Places, Writing, Target
  <1>6. QED
    BY <1>1, <1>2, <1>3, <1>4, <1>5 DEF Control

LEMMA ReaperLocksControl ==
    ASSUME Control, ReaperLocks
    PROVE  Control'
  <1> USE PoolsAssumption DEF ReaperLocks, MayLock,
                              kind, locks, pool, addVars, callVars, wire, sides
  <1>1. PoolTypes'
    BY DEF Control, PoolTypes
  <1>2. WriterHolds'
    BY <1>1 DEF Control, PoolTypes, WriterHolds
  <1>3. SharedWhileCalling'
    BY <1>1 DEF Control, PoolTypes, SharedWhileCalling
  <1>4. ReplayHolds'
    BY <1>1 DEF Control, PoolTypes, ReplayHolds
  <1>5. Places'
    BY <1>1 DEF Control, PoolTypes, WriterHolds, ReplayHolds, Places, Writing, Target
  <1>6. QED
    BY <1>1, <1>2, <1>3, <1>4, <1>5 DEF Control

LEMMA RmConnControl ==
    ASSUME Control, RmConn
    PROVE  Control'
  <1> USE PoolsAssumption DEF RmConn,
                              kind, locks, pool, addVars, callVars, wire, sides
  <1>1. PoolTypes'
    BY DEF Control, PoolTypes
  <1>2. WriterHolds'
    BY <1>1 DEF Control, PoolTypes, WriterHolds
  <1>3. SharedWhileCalling'
    BY <1>1 DEF Control, PoolTypes, SharedWhileCalling
  <1>4. ReplayHolds'
    BY <1>1 DEF Control, PoolTypes, ReplayHolds
  <1>5. Places'
    <2>1. \A t \in Threads : ~(part[t] > 1) /\ t \notin caught
      BY DEF Control, WriterHolds, Places, Writing
    <2>2. QED
      BY <2>1 DEF Control, Places
  <1>6. QED
    BY <1>1, <1>2, <1>3, <1>4, <1>5 DEF Control

-----------------------------------------------------------------------------
(* What a write does to the stream. *)
LEMMA WriteEffect ==
    ASSUME Control, NEW c \in Conns, NEW w \in Threads \union {Replay},
           NEW k \in 1 .. Parts, Write(c, w, k),
           k > 1 /\ mixed[c] = {} => half[c] = <<w, k - 1>>
    PROVE  /\ half' \in [Conns -> {<<>>} \union (Threads \union {Replay}) \X (1 .. Parts - 1)]
           /\ mixed' \in [Conns -> SUBSET (Threads \union {Replay})]
           /\ caught' = caught \ {w}
           /\ \A d \in Conns : d # c => half'[d] = half[d] /\ mixed'[d] = mixed[d]
           /\ \/ /\ mixed[c] = {} /\ mixed'[c] = {}
                 /\ Continues(c, w, k)
                 /\ half'[c] = IF k = Parts THEN <<>> ELSE <<w, k>>
              \/ /\ mixed[c] # {} /\ mixed'[c] = mixed[c]
                 /\ half'[c] = <<>>
              \/ /\ mixed[c] = {} /\ k = 1 /\ half[c] # <<>>
                 /\ mixed'[c] = {half[c][1], w}
                 /\ half'[c] = <<>>
  <1> DEFINE H == {<<>>} \union (Threads \union {Replay}) \X (1 .. Parts - 1)
  <1>1. half \in [Conns -> H] /\ mixed \in [Conns -> SUBSET (Threads \union {Replay})]
    BY DEF Control, PoolTypes
  <1>2. caught' = caught \ {w}
    BY DEF Write
  <1>3. CASE mixed[c] = {} /\ Continues(c, w, k)
    <2>1. /\ half' = [half EXCEPT ![c] = IF k = Parts THEN <<>> ELSE <<w, k>>]
          /\ mixed' = mixed
      BY <1>3 DEF Write
    <2>2. k # Parts => k \in 1 .. Parts - 1
      BY PoolsAssumption
    <2>3. (IF k = Parts THEN <<>> ELSE <<w, k>>) \in H
      BY <2>2
    <2> HIDE DEF H
    <2>4. half' \in [Conns -> H]
      BY <1>1, <2>1, <2>3
    <2>5. QED
      BY <1>1, <1>2, <1>3, <2>1, <2>4 DEF H
  <1>4. CASE ~(mixed[c] = {} /\ Continues(c, w, k))
    <2>1. /\ half' = [half EXCEPT ![c] = <<>>]
          /\ mixed' = [mixed EXCEPT ![c] = IF mixed[c] = {} THEN {half[c][1], w} ELSE mixed[c]]
      BY <1>4 DEF Write
    <2>2. half' \in [Conns -> H] /\ half'[c] = <<>>
      BY <1>1, <2>1
    <2>3. CASE mixed[c] # {}
      BY <1>1, <1>2, <2>1, <2>2, <2>3
    <2>4. CASE mixed[c] = {}
      <3>1. k = 1 /\ half[c] # <<>>
        BY <1>4, <2>4 DEF Continues
      <3>2. half[c][1] \in Threads \union {Replay}
        BY <1>1, <3>1
      <3>3. mixed' \in [Conns -> SUBSET (Threads \union {Replay})]
        BY <1>1, <2>1, <2>4, <3>2
      <3>4. mixed'[c] = {half[c][1], w}
        BY <1>1, <2>1, <2>4
      <3>5. QED
        BY <1>2, <2>1, <2>2, <2>4, <3>1, <3>3, <3>4
    <2>5. QED
      BY <2>3, <2>4
  <1>5. QED
    BY <1>3, <1>4

(* Only Send of a SUB finds half a message on the stream, the replay's, *)
LEMMA ThreadFinds ==
    ASSUME IInv, NEW t \in Threads, Writing(t), ~FoundClosed(t), part[t] = 1,
           half[Target(t)] # <<>>
    PROVE  isSub /\ t \notin setters /\ half[Target(t)][1] = Replay
  <1> DEFINE c == Target(t)
  <1>1. c \in Conns
    BY OneWriter DEF IInv
  <1>2. CASE t \in caught
    BY <1>2 DEF IInv, Wire, CaughtFinds
  <1>3. CASE t \notin caught
    <2>1. c \notin closed
      BY <1>3 DEF FoundClosed
    <2>2. ASSUME NEW u \in Threads, part[u] > 1 PROVE FALSE
      <3>1. Writing(u)
        BY <2>2 DEF IInv, Control, Places
      <3>2. u = t
        BY <3>1, OneWriter DEF IInv
      <3>3. QED
        BY <2>2, <3>2
    <2>3. mixed[c] = {} /\ replayed[c] > 0
      BY <1>1, <2>1, <2>2 DEF IInv, Wire, HalfOwned
    <2>4. half[c] = <<Replay, replayed[c]>> /\ adder[c] = "replay"
      BY <1>1, <2>3 DEF IInv, Control, Places, Wire, PartOwned
    <2>5. QED
      BY <1>1, <2>4, NoSetterDuringReplay DEF IInv, Writing
  <1>4. QED
    BY <1>2, <1>3

(* and the replay one of Send.                                             *)
LEMMA ReplayFinds ==
    ASSUME IInv, NEW c \in Conns, adder[c] = "replay", replayed[c] = 0,
           ~ReplayFoundClosed(c), half[c] # <<>>
    PROVE  isSub /\ half[c][1] \in Threads \ setters
  <1>1. isSub
    BY DEF IInv, Control, ReplayHolds
  <1>2. CASE Replay \in caught
    BY <1>1, <1>2 DEF IInv, Wire, CaughtFinds
  <1>3. CASE Replay \notin caught
    <2>1. c \notin closed
      BY <1>3 DEF ReplayFoundClosed
    <2>2. PICK u \in Threads : part[u] > 1 /\ Target(u) = c /\ mixed[c] = {}
      <3>1. ~(replayed[c] > 0)
        OBVIOUS
      <3>2. HalfOwned
        BY DEF IInv, Wire
      <3>3. QED
        BY <2>1, <3>1, <3>2 DEF HalfOwned
    <2>3. half[c] = <<u, part[u] - 1>>
      BY <2>2 DEF IInv, Wire, PartOwned
    <2>4. Writing(u)
      BY <2>2 DEF IInv, Control, Places
    <2>5. u \notin setters
      BY <2>4, NoSetterDuringReplay DEF IInv, Writing
    <2>6. QED
      BY <1>1, <2>3, <2>5
  <1>4. QED
    BY <1>2, <1>3

-----------------------------------------------------------------------------
(* The streams, by the steps that write nothing. *)

LEMMA QuietWire ==
    ASSUME Wire, UNCHANGED <<kind, ws, at, part, replayed, half, mixed>>,
           closed \subseteq closed', caught' \subseteq caught,
           \A c \in Conns : adder'[c] = "replay" => adder[c] = "replay"
    PROVE  Wire'
  BY DEF Wire, kind, PartOwned, HalfOwned, CaughtFinds, OnlySendMixes, Target

(* A list changes only while nobody writes to it. *)
LEMMA FreeWire ==
    ASSUME Control, Wire, writer = NoOne, Replay \notin caught,
           UNCHANGED <<kind, part, replayed, half, mixed, closed, caught>>
    PROVE  Wire'
  <1>1. \A t \in Threads : ~Writing(t)
    BY PoolsAssumption DEF Control, WriterHolds, Writing
  <1>2. \A t \in Threads : ~(part[t] > 1) /\ t \notin caught
    BY <1>1 DEF Control, Places
  <1>3. QED
    BY <1>2 DEF Wire, kind, PartOwned, HalfOwned, CaughtFinds, OnlySendMixes

(* A thread that moves on leaves no half message on a stream that is not   *)
(* marked closed.                                                          *)
LEMMA MovesOnWire ==
    ASSUME Control, Wire, NEW t \in Threads,
           part' = [part EXCEPT ![t] = 1],
           \A u \in Threads : u # t => at'[u] = at[u],
           part[t] > 1 => Target(t) \in closed',
           closed \subseteq closed', caught' = caught \ {t},
           UNCHANGED <<kind, ws, adder, replayed, half, mixed>>
    PROVE  Wire'
  <1>1. part'[t] = 1 /\ \A u \in Threads : u # t => part'[u] = part[u] /\ Target(u)' = Target(u)
    BY DEF Control, PoolTypes, Target
  <1>2. PartOwned'
    BY <1>1 DEF Wire, PartOwned
  <1>3. HalfOwned'
    BY <1>1 DEF Wire, HalfOwned
  <1>4. CaughtFinds'
    BY <1>1 DEF Wire, CaughtFinds, kind
  <1>5. OnlySendMixes'
    BY DEF Wire, OnlySendMixes, kind
  <1>6. QED
    BY <1>2, <1>3, <1>4, <1>5 DEF Wire

LEMMA ReplayFailsWire ==
    ASSUME IInv, NEW c \in Conns, ReplayFails(c)
    PROVE  Wire'
  <1> USE DEF IInv, Control, PoolTypes
  <1>1. /\ UNCHANGED <<kind, ws, at, part, half, mixed>>
        /\ replayed' = [replayed EXCEPT ![c] = 0]
        /\ replayed[c] > 0 => c \in closed'
        /\ closed \subseteq closed' /\ caught' = caught \ {Replay}
    BY DEF ReplayFails, ReplayFoundClosed, SetClosed, kind, pool, callVars, wire
  <1>2. PartOwned'
    <2>1. \A t \in Threads : Target(t)' = Target(t)
      BY <1>1 DEF Target
    <2>2. \A d \in Conns : replayed'[d] > 0 => replayed'[d] = replayed[d]
      BY <1>1
    <2>3. QED
      BY <1>1, <2>1, <2>2 DEF Wire, PartOwned
  <1>3. HalfOwned'
    BY <1>1 DEF Wire, HalfOwned, Target
  <1>4. CaughtFinds' /\ OnlySendMixes'
    BY <1>1 DEF Wire, CaughtFinds, OnlySendMixes, kind, Target
  <1>5. QED
    BY <1>2, <1>3, <1>4 DEF Wire

(* Whoever is in a Write when the stream is closed has found nothing on it *)
(* but what ThreadFinds and ReplayFinds say.                               *)
LEMMA EndWire ==
    ASSUME IInv, NEW cs \in SUBSET Conns, End(cs), closed \subseteq closed',
           UNCHANGED <<kind, ws, at, part, adder, replayed, half, mixed>>
    PROVE  Wire'
  <1>1. PICK S \in SUBSET UNION {Writers(c) : c \in cs \ ended} :
          caught' = caught \union S
    BY DEF End
  <1>2. ASSUME NEW t \in Threads, t \in S, part[t] = 1, half[Target(t)] # <<>>
        PROVE  isSub /\ t \notin setters /\ half[Target(t)][1] = Replay
    <2>1. PICK c \in Conns : t \in Writers(c)
      BY <1>1, <1>2
    <2>2. Writing(t) /\ ~FoundClosed(t)
      BY <2>1, PoolsAssumption DEF Writers
    <2>3. QED
      BY <1>2, <2>2, ThreadFinds
  <1>3. ASSUME Replay \in S, NEW c \in Conns, adder[c] = "replay", replayed[c] = 0,
               half[c] # <<>>
        PROVE  half[c][1] \in Threads \ setters
    <2>1. PICK d \in Conns : Replay \in Writers(d)
      BY <1>1, <1>3
    <2>2. adder[d] = "replay" /\ ~ReplayFoundClosed(d)
      BY <2>1, PoolsAssumption DEF Writers
    <2>3. d = c
      BY <1>3, <2>2, OneWriter DEF IInv
    <2>4. QED
      BY <1>3, <2>2, <2>3, ReplayFinds
  <1>4. PartOwned' /\ HalfOwned' /\ OnlySendMixes'
    BY DEF IInv, Wire, PartOwned, HalfOwned, OnlySendMixes, kind, Target
  <1>5. CaughtFinds'
    BY <1>1, <1>2, <1>3 DEF IInv, Wire, CaughtFinds, kind, Target
  <1>6. QED
    BY <1>4, <1>5 DEF Wire

-----------------------------------------------------------------------------
(* The steps that write. *)
LEMMA WritePartStep ==
    ASSUME IInv, NEW t \in Threads, WritePart(t)
    PROVE  IInv'
  <1> DEFINE c == Target(t)
             k == part[t]
  <1>1. /\ Writing(t) /\ ~FoundClosed(t) /\ c \in Conns /\ k \in 1 .. Parts
        /\ Write(c, t, k)
    BY OneWriter DEF WritePart, IInv, Control, PoolTypes
  <1>2. k > 1 /\ mixed[c] = {} => half[c] = <<t, k - 1>>
    BY DEF IInv, Wire, PartOwned
  <1>3. /\ half' \in [Conns -> {<<>>} \union (Threads \union {Replay}) \X (1 .. Parts - 1)]
        /\ mixed' \in [Conns -> SUBSET (Threads \union {Replay})]
        /\ caught' = caught \ {t}
        /\ \A d \in Conns : d # c => half'[d] = half[d] /\ mixed'[d] = mixed[d]
    BY <1>1, <1>2, WriteEffect DEF IInv
  <1>4. \/ /\ mixed[c] = {} /\ mixed'[c] = {}
           /\ half[c] = IF k = 1 THEN <<>> ELSE <<t, k - 1>>
           /\ half'[c] = IF k = Parts THEN <<>> ELSE <<t, k>>
        \/ mixed[c] # {} /\ mixed'[c] = mixed[c] /\ half'[c] = <<>>
        \/ /\ mixed[c] = {} /\ k = 1 /\ half[c] # <<>>
           /\ mixed'[c] = {half[c][1], t} /\ half'[c] = <<>>
    BY <1>1, <1>2, WriteEffect DEF IInv, Continues
  <1>5. /\ part'[t] = IF k = Parts THEN 1 ELSE k + 1
        /\ k # Parts => at' = at
        /\ at' \in [Threads -> Nat \ {0}] /\ part' \in [Threads -> 1 .. Parts]
        /\ \A u \in Threads : u # t => part'[u] = part[u] /\ at'[u] = at[u]
    <2>1. at \in [Threads -> Nat \ {0}] /\ part \in [Threads -> 1 .. Parts]
      BY DEF IInv, Control, PoolTypes
    <2>2. CASE k = Parts
      BY <1>1, <2>1, <2>2, PoolsAssumption DEF WritePart, NextTarget
    <2>3. CASE k # Parts
      BY <1>1, <2>1, <2>3, PoolsAssumption DEF WritePart
    <2>4. QED
      BY <2>2, <2>3
  <1>6. UNCHANGED <<kind, mu, readers, writer, conns, ws, adder, replayed, pc, closed>>
    BY DEF WritePart, locks, pool, addVars
  <1>7. \A u \in Threads : u # t => part[u] = 1 /\ u \notin caught
    BY <1>1, OneWriter DEF IInv, Control, PoolTypes, Places
  <1>8. Control'
    <2>1. PoolTypes' /\ WriterHolds' /\ SharedWhileCalling' /\ ReplayHolds'
      BY <1>3, <1>5, <1>6
      DEF IInv, Control, kind, PoolTypes, WriterHolds, SharedWhileCalling,
          ReplayHolds
    <2>2. part'[t] > 1 => Writing(t)'
      BY <1>1, <1>5, <1>6 DEF Writing
    <2>3. \A u \in Threads : part'[u] > 1 \/ u \in caught' => Writing(u)'
      BY <1>3, <1>5, <1>7, <2>2
    <2>4. Replay \in caught' => \E d \in Conns : adder[d] = "replay"
      BY <1>3 DEF IInv, Control, Places
    <2>5. Places'
      BY <1>6, <2>3, <2>4 DEF IInv, Control, Places
    <2>6. QED
      BY <2>1, <2>5 DEF Control
  <1>9. k # Parts => Target(t)' = c
    BY <1>5, <1>6 DEF Target
  <1>10. PartOwned'
    <2>1. ASSUME part'[t] > 1, mixed'[Target(t)'] = {}
          PROVE  half'[Target(t)'] = <<t, part'[t] - 1>>
      <3>1. k # Parts /\ part'[t] - 1 = k
        BY <1>1, <1>5, <2>1
      <3>2. half'[c] = <<t, k>>
        BY <1>4, <1>9, <2>1, <3>1
      <3>3. QED
        BY <1>9, <3>1, <3>2
    <2>2. ASSUME NEW d \in Conns, replayed[d] > 0, mixed'[d] = {}
          PROVE  half'[d] = <<Replay, replayed[d]>>
      <3>1. d # c
        <4>1. SUFFICES ASSUME d = c PROVE FALSE
          OBVIOUS
        <4>2. mixed[c] = {} /\ half[c] \in {<<>>, <<t, k - 1>>}
          BY <1>4, <2>2, <4>1
        <4>3. half[c] = <<Replay, replayed[c]>>
          BY <2>2, <4>1, <4>2 DEF IInv, Wire, PartOwned
        <4>4. QED
          BY <4>2, <4>3, PoolsAssumption
      <3>2. QED
        BY <1>3, <2>2, <3>1 DEF IInv, Wire, PartOwned
    <2>3. \A u \in Threads : u # t => ~(part'[u] > 1)
      BY <1>5, <1>7
    <2>4. QED
      BY <1>6, <2>1, <2>2, <2>3 DEF PartOwned
  <1>11. HalfOwned'
    <2>1. ASSUME half'[c] # <<>>
          PROVE  mixed'[c] = {} /\ part'[t] > 1 /\ Target(t)' = c
      BY <1>1, <1>4, <1>5, <1>9, <2>1
    <2>2. ASSUME NEW d \in Conns, d # c, half'[d] # <<>>
          PROVE  mixed'[d] = {} /\ (d \in closed \/ replayed[d] > 0)
      <3>1. \A u \in Threads : part[u] > 1 => Target(u) = c
        BY <1>7
      <3>2. QED
        BY <1>3, <2>2, <3>1 DEF IInv, Wire, HalfOwned
    <2>3. QED
      BY <1>6, <2>1, <2>2 DEF HalfOwned
  <1>12. CaughtFinds'
    <2>1. ASSUME NEW d \in Conns, Replay \in caught, adder[d] = "replay",
                 replayed[d] = 0
          PROVE  half'[d] = <<>> \/ half'[d][1] \in Threads \ setters
      <3>1. CASE d # c
        BY <1>3, <2>1, <3>1 DEF IInv, Wire, CaughtFinds
      <3>2. CASE d = c
        <4>1. t \notin setters
          BY <1>1, <2>1, NoSetterDuringReplay DEF IInv, Writing
        <4>2. half'[c] \in {<<>>, <<t, k>>}
          BY <1>4
        <4>3. QED
          BY <3>2, <4>1, <4>2
      <3>3. QED
        BY <3>1, <3>2
    <2>2. \A u \in Threads : u \notin caught'
      BY <1>3, <1>7
    <2>3. QED
      BY <1>3, <1>6, <2>1, <2>2 DEF CaughtFinds, kind
  <1>13. OnlySendMixes'
    <2>1. mixed'[c] # {} => \/ mixed'[c] = mixed[c]
                            \/ isSub /\ t \notin setters /\ mixed'[c] = {t, Replay}
      BY <1>1, <1>4, ThreadFinds
    <2>2. QED
      BY <1>1, <1>3, <1>6, <2>1 DEF IInv, Wire, OnlySendMixes, kind
  <1>14. QED
    BY <1>8, <1>10, <1>11, <1>12, <1>13 DEF IInv, Wire

LEMMA ReplayPartStep ==
    ASSUME IInv, NEW c \in Conns, ReplayPart(c)
    PROVE  IInv'
  <1> DEFINE k == replayed[c] + 1
  <1>1. /\ adder[c] = "replay" /\ ~ReplayFoundClosed(c) /\ k \in 1 .. Parts
        /\ Write(c, Replay, k)
    BY PoolsAssumption DEF ReplayPart, IInv, Control, PoolTypes
  <1>2. k > 1 /\ mixed[c] = {} => half[c] = <<Replay, k - 1>>
    <2>1. replayed[c] \in Int /\ k - 1 = replayed[c] /\ (k > 1 => replayed[c] > 0)
      BY DEF IInv, Control, PoolTypes
    <2>2. QED
      BY <2>1 DEF IInv, Wire, PartOwned
  <1>3. /\ half' \in [Conns -> {<<>>} \union (Threads \union {Replay}) \X (1 .. Parts - 1)]
        /\ mixed' \in [Conns -> SUBSET (Threads \union {Replay})]
        /\ caught' = caught \ {Replay}
        /\ \A d \in Conns : d # c => half'[d] = half[d] /\ mixed'[d] = mixed[d]
    BY <1>1, <1>2, WriteEffect DEF IInv
  <1>4. \/ /\ mixed[c] = {} /\ mixed'[c] = {}
           /\ half[c] = IF k = 1 THEN <<>> ELSE <<Replay, k - 1>>
           /\ half'[c] = IF k = Parts THEN <<>> ELSE <<Replay, k>>
        \/ mixed[c] # {} /\ mixed'[c] = mixed[c] /\ half'[c] = <<>>
        \/ /\ mixed[c] = {} /\ k = 1 /\ half[c] # <<>>
           /\ mixed'[c] = {half[c][1], Replay} /\ half'[c] = <<>>
    <2>1. Control
      BY DEF IInv
    <2>2. \/ /\ mixed[c] = {} /\ mixed'[c] = {} /\ Continues(c, Replay, k)
             /\ half'[c] = IF k = Parts THEN <<>> ELSE <<Replay, k>>
          \/ mixed[c] # {} /\ mixed'[c] = mixed[c] /\ half'[c] = <<>>
          \/ /\ mixed[c] = {} /\ k = 1 /\ half[c] # <<>>
             /\ mixed'[c] = {half[c][1], Replay} /\ half'[c] = <<>>
      BY <1>1, <1>2, <2>1, WriteEffect
    <2>3. QED
      BY <2>2 DEF Continues
  <1>5. /\ k = Parts => /\ replayed' = [replayed EXCEPT ![c] = 0]
                        /\ adder' = [adder EXCEPT ![c] = "done"] /\ mu' = NoOne
        /\ k # Parts => /\ replayed' = [replayed EXCEPT ![c] = k]
                        /\ UNCHANGED <<adder, mu>>
        /\ UNCHANGED <<kind, readers, writer, conns, ws, pc, at, part, closed>>
    BY DEF ReplayPart, pool, callVars
  <1>6. /\ replayed' \in [Conns -> 0 .. Parts - 1]
        /\ \A d \in Conns : d # c => replayed'[d] = replayed[d] /\ adder'[d] = adder[d]
        /\ replayed'[c] = IF k = Parts THEN 0 ELSE k
        /\ k # Parts => adder'[c] = "replay"
        /\ adder' \in [Conns -> {"fresh", "lock", "register", "replay", "done"}]
    <2>1. replayed \in [Conns -> 0 .. Parts - 1]
          /\ adder \in [Conns -> {"fresh", "lock", "register", "replay", "done"}]
      BY DEF IInv, Control, PoolTypes
    <2>2. CASE k = Parts
      BY <1>5, <2>1, <2>2, PoolsAssumption
    <2>3. CASE k # Parts
      BY <1>1, <1>5, <2>1, <2>3, PoolsAssumption
    <2>4. QED
      BY <2>2, <2>3
  <1>7. \A d \in Conns : d # c => replayed[d] = 0 /\ adder[d] \notin {"register", "replay"}
    BY <1>1 DEF IInv, Control, PoolTypes, Places, ReplayHolds
  <1>8. Control'
    <2>1. PoolTypes'
      BY <1>3, <1>5, <1>6 DEF IInv, Control, kind, PoolTypes
    <2>2. WriterHolds' /\ SharedWhileCalling'
      BY <1>5 DEF IInv, Control, kind, WriterHolds, SharedWhileCalling
    <2>3. ReplayHolds'
      BY <1>1, <1>5, <1>6, <1>7 DEF IInv, Control, kind, PoolTypes, ReplayHolds
    <2>4. Places'
      <3>1. \A t \in Threads : part'[t] > 1 \/ t \in caught' => Writing(t)'
        BY <1>3, <1>5 DEF IInv, Control, Places, Writing
      <3>2. \A d \in Conns : replayed'[d] > 0 => adder'[d] = "replay"
        BY <1>6, <1>7
      <3>3. Replay \notin caught'
        BY <1>3
      <3>4. QED
        BY <3>1, <3>2, <3>3 DEF Places
    <2>5. QED
      BY <2>1, <2>2, <2>3, <2>4 DEF Control
  <1>9. \A t \in Threads : Target(t)' = Target(t) /\ part'[t] = part[t]
    BY <1>5 DEF Target
  <1>10. PartOwned'
    <2>1. ASSUME NEW t \in Threads, part[t] > 1, mixed'[Target(t)] = {}
          PROVE  half'[Target(t)] = <<t, part[t] - 1>>
      <3>1. Target(t) \in Conns
        BY <2>1, OneWriter DEF IInv, Control, Places
      <3>2. Target(t) # c
        <4>1. SUFFICES ASSUME Target(t) = c PROVE FALSE
          OBVIOUS
        <4>2. mixed[c] = {} /\ half[c] \in {<<>>, <<Replay, k - 1>>}
          BY <1>4, <2>1, <4>1
        <4>3. half[c] = <<t, part[t] - 1>>
          BY <2>1, <4>1, <4>2 DEF IInv, Wire, PartOwned
        <4>4. QED
          BY <4>2, <4>3, PoolsAssumption
      <3>3. QED
        BY <1>3, <2>1, <3>1, <3>2 DEF IInv, Wire, PartOwned
    <2>2. ASSUME NEW d \in Conns, replayed'[d] > 0, mixed'[d] = {}
          PROVE  half'[d] = <<Replay, replayed'[d]>>
      <3>1. d = c
        BY <1>6, <1>7, <2>2
      <3>2. k # Parts /\ replayed'[c] = k
        BY <1>6, <2>2, <3>1
      <3>3. QED
        BY <1>4, <2>2, <3>1, <3>2
    <2>3. QED
      BY <1>9, <2>1, <2>2 DEF PartOwned
  <1>11. HalfOwned'
    <2>1. ASSUME half'[c] # <<>> PROVE mixed'[c] = {} /\ replayed'[c] > 0
      BY <1>1, <1>4, <1>6, <2>1
    <2>2. ASSUME NEW d \in Conns, d # c, half'[d] # <<>>
          PROVE  /\ mixed'[d] = {}
                 /\ \/ d \in closed
                    \/ \E t \in Threads : part[t] > 1 /\ Target(t) = d
      <3>1. half[d] # <<>> /\ mixed'[d] = mixed[d] /\ ~(replayed[d] > 0)
        BY <1>3, <1>7, <2>2
      <3>2. QED
        BY <3>1 DEF IInv, Wire, HalfOwned
    <2>3. QED
      BY <1>5, <1>9, <2>1, <2>2 DEF HalfOwned
  <1>12. CaughtFinds'
    <2>1. ASSUME NEW t \in Threads, t \in caught, part[t] = 1
          PROVE  \/ half'[Target(t)] = <<>>
                 \/ isSub /\ t \notin setters /\ half'[Target(t)][1] = Replay
      <3>1. Writing(t) /\ Target(t) \in Conns
        BY <2>1, OneWriter DEF IInv, Control, Places
      <3>2. CASE Target(t) # c
        BY <1>3, <2>1, <3>1, <3>2 DEF IInv, Wire, CaughtFinds
      <3>3. CASE Target(t) = c
        <4>1. isSub /\ t \notin setters
          BY <1>1, <3>1, NoSetterDuringReplay DEF IInv, Writing
        <4>2. half'[c] \in {<<>>, <<Replay, k>>}
          BY <1>4
        <4>3. QED
          BY <3>3, <4>1, <4>2
      <3>4. QED
        BY <3>2, <3>3
    <2>2. QED
      BY <1>3, <1>5, <1>9, <2>1 DEF CaughtFinds, kind
  <1>13. OnlySendMixes'
    <2>1. ASSUME mixed'[c] # {}, mixed'[c] # mixed[c]
          PROVE  isSub /\ \E t \in Threads \ setters : mixed'[c] = {t, Replay}
      <3>1. replayed[c] = 0 /\ half[c] # <<>> /\ mixed'[c] = {half[c][1], Replay}
        BY <1>4, <2>1 DEF IInv, Control, PoolTypes
      <3>2. isSub /\ half[c][1] \in Threads \ setters
        BY <1>1, <3>1, ReplayFinds
      <3>3. QED
        BY <3>1, <3>2
    <2>2. QED
      BY <1>3, <1>5, <2>1 DEF IInv, Wire, OnlySendMixes, kind
  <1>14. QED
    BY <1>8, <1>10, <1>11, <1>12, <1>13 DEF IInv, Wire

-----------------------------------------------------------------------------
(* The steps that write nothing. *)
LEMMA CallStepIInv ==
    ASSUME IInv, NEW t \in Threads, Begin(t) \/ CallStep(t)
    PROVE  IInv'
  <1>1. CASE Begin(t) \/ ShareLock(t) \/ LockWriter(t)
    <2>1. Control'
      BY <1>1, BeginControl, ShareLockControl, LockWriterControl DEF IInv
    <2>2. Wire'
      BY <1>1, QuietWire
      DEF IInv, Begin, ShareLock, LockWriter, kind, locks, pool, addVars, wire, sides
    <2>3. QED
      BY <2>1, <2>2 DEF IInv
  <1>2. CASE SkipClosed(t) \/ WriteFails(t) \/ Return(t)
    <2>1. Control'
      BY <1>2, SkipClosedControl, WriteFailsControl, ReturnControl DEF IInv
    <2>2. Wire'
      <3>1. at \in [Threads -> Nat \ {0}] /\ part \in [Threads -> 1 .. Parts]
        BY DEF IInv, Control, PoolTypes
      <3>2. CASE SkipClosed(t)
        BY <3>1, <3>2, MovesOnWire
        DEF IInv, SkipClosed, FoundClosed, NextTarget, kind, locks, pool, addVars,
            wire, sides
      <3>3. CASE WriteFails(t)
        BY <3>1, <3>3, MovesOnWire
        DEF IInv, WriteFails, SetClosed, NextTarget, kind, locks, pool, addVars, wire
      <3>4. CASE Return(t)
        <4>1. Len(ws) \in Nat /\ at[t] \in Nat
          BY <3>1 DEF IInv, Control, PoolTypes
        <4>2. ~Writing(t)
          BY <3>4, <4>1 DEF Return, Writing
        <4>3. part[t] = 1 /\ t \notin caught
          BY <3>1, <4>2 DEF IInv, Control, Places
        <4>4. part' = [part EXCEPT ![t] = 1] /\ caught' = caught \ {t}
          BY <3>1, <3>4, <4>3 DEF Return, sides
        <4>5. /\ \A u \in Threads : u # t => at'[u] = at[u]
              /\ closed \subseteq closed'
              /\ UNCHANGED <<kind, ws, adder, replayed, half, mixed>>
          BY <3>1, <3>4 DEF Return, kind, pool, addVars, wire
        <4>6. ~(part[t] > 1)
          BY <4>3
        <4>7. QED
          BY <4>4, <4>5, <4>6, MovesOnWire DEF IInv
      <3>5. QED
        BY <1>2, <3>2, <3>3, <3>4
    <2>3. QED
      BY <2>1, <2>2 DEF IInv
  <1>3. CASE WritePart(t)
    BY <1>3, WritePartStep
  <1>4. QED
    BY <1>1, <1>2, <1>3 DEF CallStep

LEMMA AddStepIInv ==
    ASSUME IInv, NEW c \in Conns, Connect(c) \/ AddStep(c)
    PROVE  IInv'
  <1>1. CASE Connect(c) \/ AddLocks(c)
    <2>1. Control'
      BY <1>1, ConnectControl, AddLocksControl DEF IInv
    <2>2. \A d \in Conns : adder'[d] = "replay" => adder[d] = "replay"
      BY <1>1 DEF Connect, AddLocks, IInv, Control, PoolTypes
    <2>3. Wire'
      BY <1>1, <2>2, QuietWire
      DEF IInv, Connect, AddLocks, kind, locks, pool, callVars, wire, sides
    <2>4. QED
      BY <2>1, <2>3 DEF IInv
  <1>2. CASE Register(c)
    <2>1. Control'
      BY <1>2, RegisterControl DEF IInv
    <2>2. Replay \notin caught
      BY <1>2 DEF Register, IInv, Control, ReplayHolds, Places
    <2>3. Wire'
      BY <1>2, <2>2, FreeWire
      DEF IInv, Register, kind, callVars, wire, sides
    <2>4. QED
      BY <2>1, <2>3 DEF IInv
  <1>3. CASE ReplayFails(c)
    BY <1>3, ReplayFailsControl, ReplayFailsWire DEF IInv
  <1>4. CASE ReplayPart(c)
    BY <1>4, ReplayPartStep
  <1>5. QED
    BY <1>1, <1>2, <1>3, <1>4 DEF AddStep

LEMMA ReaperStepIInv ==
    ASSUME IInv, ReaperStep
    PROVE  IInv'
  <1>1. CASE ReaperLocks
    <2>1. Control'
      BY <1>1, ReaperLocksControl DEF IInv
    <2>2. Wire'
      BY <1>1, QuietWire
      DEF IInv, ReaperLocks, kind, pool, addVars, callVars, wire, sides
    <2>3. QED
      BY <2>1, <2>2 DEF IInv
  <1>2. CASE RmConn
    <2>1. Control'
      BY <1>2, RmConnControl DEF IInv
    <2>2. Replay \notin caught
      BY <1>2, PoolsAssumption DEF RmConn, IInv, Control, ReplayHolds, Places
    <2>3. Wire'
      BY <1>2, <2>2, FreeWire
      DEF IInv, RmConn, kind, addVars, callVars, wire, sides
    <2>4. QED
      BY <2>1, <2>3 DEF IInv
  <1>3. ASSUME NEW c \in Conns, CallRmConn(c) PROVE IInv'
    BY <1>3, ElsewhereControl, QuietWire
    DEF IInv, CallRmConn, locks, pool, addVars, callVars, wire, sides
  <1>4. QED
    BY <1>1, <1>2, <1>3 DEF ReaperStep

LEMMA OtherStepIInv ==
    ASSUME IInv,
           \/ Recv \/ CloseCancels \/ CloseConns
           \/ \E c \in Conns : ListenStep(c) \/ PeerReads(c) \/ Break(c)
    PROVE  IInv'
  <1>1. /\ closed \subseteq closed'
        /\ UNCHANGED <<kind, mu, readers, writer, conns, ws, adder, replayed, pc,
                       at, part, half, mixed>>
    BY DEF Recv, CloseCancels, CloseConns, ListenStep, ListenReads, ListenFails,
           CheckIO, SetClosed, ListenEnqueues, PeerReads, Break, locks, pool,
           addVars, callVars, wire
  <1>2. CASE UNCHANGED sides
    BY <1>1, <1>2, ElsewhereControl, QuietWire DEF IInv, sides
  <1>3. ASSUME NEW cs \in SUBSET Conns, End(cs) PROVE IInv'
    BY <1>1, <1>3, EndControl, EndWire DEF IInv
  <1>4. CASE CloseConns
    <2>1. conns \in SUBSET Conns
      BY DEF IInv, Control, PoolTypes
    <2>2. QED
      BY <1>3, <1>4, <2>1 DEF CloseConns
  <1>5. ASSUME NEW c \in Conns, ListenStep(c) PROVE IInv'
    <2>1. UNCHANGED sides \/ End({c})
      BY <1>5 DEF ListenStep, ListenReads, ListenFails, ListenEnqueues, Stop
    <2>2. QED
      BY <1>2, <1>3, <2>1
  <1>6. QED
    BY <1>2, <1>4, <1>5 DEF Recv, CloseCancels, PeerReads, Break

(* The inductive invariant holds for any number of threads, connections    *)
(* and calls: SetOption writes with socket.mu held shared, a replay with   *)
(* socket.mu held, Send with the writer's mutex alone.                     *)
THEOREM SpecIInv == Spec => []IInv
  <1>1. IInv /\ [Next]_vars => IInv'
    <2> SUFFICES ASSUME IInv, [Next]_vars PROVE IInv'
      OBVIOUS
    <2>1. CASE Next
      BY <2>1, CallStepIInv, AddStepIInv, ReaperStepIInv, OtherStepIInv DEF Next
    <2>2. CASE UNCHANGED vars
      <3>1. UNCHANGED <<kind, mu, readers, writer, conns, ws, adder, replayed, pc,
                        at, part, half, mixed, closed, caught>>
        BY <2>2 DEF vars, kind
      <3>2. QED
        BY <3>1, ElsewhereControl, QuietWire DEF IInv
    <2>3. QED
      BY <2>1, <2>2
  <1>2. QED
    BY <1>1, InitIInv, PTL DEF Spec

(* Of all who write on a stream, in whatever order and whatever fails, is  *)
(* closed or is added meanwhile, only Send of a SUB and the replay of its  *)
(* topics ever mix their messages (conn.go 58-91, msgio.go 163-177, sub.go *)
(* 15-19, 56-60).                                                          *)
THEOREM PoolsOnlySendMixes == Spec => []OnlySendMixes
  <1>1. IInv => OnlySendMixes
    BY DEF IInv, Wire
  <1>2. QED
    BY SpecIInv, <1>1, PTL

-----------------------------------------------------------------------------
(* socket.conns and mwriter.ws are two lists of the same connections: each *)
(* is in ws once, after its addConn has got to register it.                *)
SameLists ==
    /\ {ws[i] : i \in 1 .. Len(ws)} = conns
    /\ \A i, j \in 1 .. Len(ws) : ws[i] = ws[j] => i = j
    /\ \A i \in 1 .. Len(ws) : adder[ws[i]] \in {"replay", "done"}

(* The rest of TypeOK. *)
OtherTypes ==
    /\ isSub \in BOOLEAN
    /\ mu \in Conns \union {Reaper, NoOne} /\ readers \subseteq Threads
    /\ queued \union broken \union ended \union closed \subseteq Conns
    /\ reaping \in Conns \union {NoOne}
    /\ sends \in 0 .. MaxSends
    /\ fill \in [Conns -> 0 .. Window]
    /\ listening \subseteq Conns
    /\ hand \in [Conns -> {"nothing", "message", "error"}]
    /\ inbox \in 0 .. QueueSize
    /\ closing \in {"no", "rlock", "done"}

LEMMA ElementInConns ==
    ASSUME ws \in Seq(Conns), NEW i \in 1 .. Len(ws)
    PROVE  ws[i] \in Conns
  OBVIOUS

(* A list without its k-th element. *)
LEMMA Without ==
    ASSUME NEW S, NEW q \in Seq(S), NEW k \in 1 .. Len(q)
    PROVE  LET r == SubSeq(q, 1, k - 1) \o SubSeq(q, k + 1, Len(q)) IN
           /\ Len(r) = Len(q) - 1
           /\ \A i \in 1 .. Len(r) : r[i] = IF i < k THEN q[i] ELSE q[i + 1]
  <1> DEFINE a == SubSeq(q, 1, k - 1)
             b == SubSeq(q, k + 1, Len(q))
  <1>1. /\ a \in Seq(S) /\ Len(a) = k - 1
        /\ \A i \in 1 .. k - 1 : a[i] = q[i]
    OBVIOUS
  <1>2. /\ b \in Seq(S) /\ Len(b) = Len(q) - k
        /\ \A i \in 1 .. Len(q) - k : b[i] = q[k + i]
    OBVIOUS
  <1> HIDE DEF a, b
  <1>3. /\ Len(a \o b) = Len(a) + Len(b)
        /\ \A i \in 1 .. Len(a) + Len(b) :
             (a \o b)[i] = IF i <= Len(a) THEN a[i] ELSE b[i - Len(a)]
    BY <1>1, <1>2, ConcatProperties
  <1>4. ASSUME NEW i \in 1 .. Len(q) - 1
        PROVE  (a \o b)[i] = IF i < k THEN q[i] ELSE q[i + 1]
    <2>1. CASE i < k
      BY <1>1, <1>2, <1>3, <2>1
    <2>2. CASE ~(i < k)
      <3>1. i - (k - 1) \in 1 .. Len(q) - k /\ k + (i - (k - 1)) = i + 1
        BY <2>2
      <3>2. b[i - (k - 1)] = q[i + 1]
        BY <1>2, <3>1
      <3>3. (a \o b)[i] = b[i - (k - 1)]
        BY <1>1, <1>2, <1>3, <2>2
      <3>4. QED
        BY <2>2, <3>2, <3>3
    <2>3. QED
      BY <2>1, <2>2
  <1>5. Len(a \o b) = Len(q) - 1
    BY <1>1, <1>2, <1>3
  <1>6. QED
    BY <1>4, <1>5 DEF a, b

LEMMA RegisterLists ==
    ASSUME IInv, SameLists, NEW c \in Conns, Register(c)
    PROVE  SameLists'
  <1>1. /\ ws \in Seq(Conns) /\ ws' = Append(ws, c)
        /\ conns' = conns \union {c}
        /\ adder[c] = "register" /\ adder'[c] \in {"replay", "done"}
        /\ \A d \in Conns : d # c => adder'[d] = adder[d]
    BY DEF Register, IInv, Control, PoolTypes
  <1>2. /\ Len(ws') = Len(ws) + 1 /\ Len(ws) \in Nat
        /\ ws'[Len(ws) + 1] = c
        /\ \A i \in 1 .. Len(ws) : ws'[i] = ws[i] /\ ws[i] \in Conns
    BY <1>1
  <1>3. \A i \in 1 .. Len(ws) : ws[i] # c
    BY <1>1 DEF SameLists
  <1>4. \A i \in 1 .. Len(ws') : i \in 1 .. Len(ws) \/ i = Len(ws) + 1
    BY <1>2
  <1>5. \A i \in 1 .. Len(ws) + 1 : i \in 1 .. Len(ws')
    BY <1>2
  <1>6. {ws'[i] : i \in 1 .. Len(ws')} = conns'
    BY <1>1, <1>2, <1>4 DEF SameLists
  <1>7. \A i, j \in 1 .. Len(ws') : ws'[i] = ws'[j] => i = j
    BY <1>2, <1>3, <1>4 DEF SameLists
  <1>8. \A i \in 1 .. Len(ws') : adder'[ws'[i]] \in {"replay", "done"}
    BY <1>1, <1>2, <1>3, <1>4 DEF SameLists
  <1>9. QED
    BY <1>6, <1>7, <1>8 DEF SameLists

LEMMA RmConnLists ==
    ASSUME IInv, SameLists, RmConn
    PROVE  SameLists'
  <1>1. PICK k \in 1 .. Len(ws) :
          /\ ws[k] = reaping
          /\ ws' = SubSeq(ws, 1, k - 1) \o SubSeq(ws, k + 1, Len(ws))
    BY DEF RmConn
  <1>2. /\ ws \in Seq(Conns) /\ Len(ws) \in Nat
        /\ conns' = conns \ {reaping} /\ adder' = adder
    BY DEF RmConn, IInv, Control, PoolTypes, addVars
  <1>3. /\ Len(ws') = Len(ws) - 1
        /\ \A i \in 1 .. Len(ws') :
             ws'[i] = IF i < k THEN ws[i] ELSE ws[i + 1]
    BY <1>1, <1>2, Without
  <1> DEFINE old(i) == IF i < k THEN i ELSE i + 1
  <1>4. \A i \in 1 .. Len(ws') : /\ old(i) \in 1 .. Len(ws) /\ old(i) # k
                                 /\ ws'[i] = ws[old(i)]
    BY <1>2, <1>3
  <1>5. \A i, j \in 1 .. Len(ws') : old(i) = old(j) => i = j
    BY <1>2, <1>3
  <1>6. \A j \in 1 .. Len(ws) :
          j # k => \E i \in 1 .. Len(ws') : old(i) = j
    <2> SUFFICES ASSUME NEW j \in 1 .. Len(ws), j # k
                 PROVE  \E i \in 1 .. Len(ws') : old(i) = j
      OBVIOUS
    <2>1. CASE j < k
      BY <1>2, <1>3, <2>1
    <2>2. CASE j > k
      <3>1. j - 1 \in 1 .. Len(ws') /\ old(j - 1) = j
        BY <1>2, <1>3, <2>2
      <3>2. QED
        BY <3>1
    <2>3. QED
      BY <2>1, <2>2
  <1> HIDE DEF old
  <1>7. {ws'[i] : i \in 1 .. Len(ws')} = conns'
    <2>1. ASSUME NEW i \in 1 .. Len(ws') PROVE ws'[i] \in conns'
      <3>1. old(i) \in 1 .. Len(ws) /\ ws[old(i)] # ws[k]
        BY <1>4 DEF SameLists
      <3>2. ws[old(i)] \in conns
        BY <3>1 DEF SameLists
      <3>3. QED
        BY <1>1, <1>2, <1>4, <3>1, <3>2
    <2>2. ASSUME NEW c \in conns' PROVE \E i \in 1 .. Len(ws') : ws'[i] = c
      <3>1. PICK j \in 1 .. Len(ws) : ws[j] = c
        BY <1>2 DEF SameLists
      <3>2. j # k
        BY <1>1, <1>2, <3>1
      <3>3. QED
        BY <1>4, <1>6, <3>1, <3>2
    <2>3. QED
      BY <2>1, <2>2
  <1>8. \A i, j \in 1 .. Len(ws') : ws'[i] = ws'[j] => i = j
    BY <1>4, <1>5 DEF SameLists
  <1>9. \A i \in 1 .. Len(ws') : adder'[ws'[i]] \in {"replay", "done"}
    BY <1>2, <1>4 DEF SameLists
  <1>10. QED
    BY <1>7, <1>8, <1>9 DEF SameLists

LEMMA KeptLists ==
    ASSUME IInv, SameLists, UNCHANGED pool,
           \A c \in Conns : adder[c] \in {"replay", "done"}
                              => adder'[c] \in {"replay", "done"}
    PROVE  SameLists'
  <1>1. \A i \in 1 .. Len(ws) : ws[i] \in Conns
    BY DEF IInv, Control, PoolTypes
  <1>2. QED
    BY <1>1 DEF SameLists, pool

LEMMA ListsStep ==
    ASSUME IInv, SameLists, [Next]_vars
    PROVE  SameLists'
  <1>1. ASSUME NEW c \in Conns, Connect(c) \/ AddLocks(c) \/ ReplayFails(c)
        PROVE  SameLists'
    <2>1. UNCHANGED pool
      BY <1>1 DEF Connect, AddLocks, ReplayFails
    <2>2. \A d \in Conns : adder[d] \in {"replay", "done"}
                             => adder'[d] \in {"replay", "done"}
      BY <1>1 DEF Connect, AddLocks, ReplayFails, IInv, Control, PoolTypes
    <2>3. QED
      BY <2>1, <2>2, KeptLists
  <1>2. ASSUME NEW c \in Conns, ReplayPart(c) PROVE SameLists'
    <2>1. UNCHANGED pool
      BY <1>2 DEF ReplayPart
    <2>2. adder' = adder \/ adder' = [adder EXCEPT ![c] = "done"]
      BY <1>2 DEF ReplayPart
    <2>3. \A d \in Conns : adder[d] \in {"replay", "done"}
                             => adder'[d] \in {"replay", "done"}
      BY <2>2 DEF IInv, Control, PoolTypes
    <2>4. QED
      BY <2>1, <2>3, KeptLists
  <1>3. CASE UNCHANGED <<pool, adder>>
    BY <1>3, KeptLists
  <1>4. ASSUME NEW t \in Threads, Begin(t) \/ CallStep(t) PROVE SameLists'
    BY <1>4, <1>3 DEF Begin, CallStep, ShareLock, LockWriter, SkipClosed,
                      WritePart, WriteFails, Return, addVars
  <1>5. ASSUME NEW c \in Conns, ListenStep(c) \/ PeerReads(c) \/ Break(c)
        PROVE  SameLists'
    BY <1>5, <1>3 DEF ListenStep, ListenReads, ListenFails, ListenEnqueues,
                      PeerReads, Break, addVars
  <1>6. CASE \/ ReaperLocks \/ Recv \/ CloseCancels \/ CloseConns
             \/ \E c \in Conns : CallRmConn(c)
    BY <1>6, <1>3 DEF ReaperLocks, Recv, CloseCancels, CloseConns, CallRmConn,
                      addVars
  <1>7. CASE Next
    BY <1>7, <1>1, <1>2, <1>4, <1>5, <1>6, RegisterLists, RmConnLists
       DEF Next, AddStep, ReaperStep
  <1>8. QED
    BY <1>7, <1>3 DEF vars, pool

(* The locks, the connections and the queues. *)
LEMMA CallTypes ==
    ASSUME IInv, OtherTypes, NEW t \in Threads, Begin(t) \/ CallStep(t)
    PROVE  OtherTypes'
  <1> USE PoolsAssumption DEF OtherTypes, locks, pool, addVars, callVars, wire,
                              kind, sides, readVars
  <1>1. CASE Begin(t)
    BY <1>1 DEF Begin
  <1>2. CASE ShareLock(t) \/ LockWriter(t) \/ SkipClosed(t) \/ Return(t)
    BY <1>2 DEF ShareLock, Shares, LockWriter, SkipClosed, Return, Unshared
  <1>3. ASSUME Writing(t) PROVE Target(t) \in Conns
    BY <1>3, ElementInConns DEF Writing, Target, IInv, Control, PoolTypes
  <1>4. CASE WritePart(t)
    BY <1>4, <1>3 DEF WritePart, Write
  <1>5. CASE WriteFails(t)
    BY <1>5, <1>3 DEF WriteFails, SetClosed
  <1>6. QED
    BY <1>1, <1>2, <1>4, <1>5 DEF CallStep

LEMMA AddTypes ==
    ASSUME IInv, OtherTypes, NEW c \in Conns, Connect(c) \/ AddStep(c)
    PROVE  OtherTypes'
  <1> USE PoolsAssumption DEF OtherTypes, locks, pool, addVars, callVars, wire,
                              kind, sides, readVars
  <1>1. CASE Connect(c) \/ AddLocks(c) \/ Register(c)
    BY <1>1 DEF Connect, AddLocks, Register
  <1>2. CASE ReplayPart(c)
    BY <1>2 DEF ReplayPart, Write
  <1>3. CASE ReplayFails(c)
    BY <1>3 DEF ReplayFails, SetClosed
  <1>4. QED
    BY <1>1, <1>2, <1>3 DEF AddStep

LEMMA EndTypes ==
    ASSUME IInv, OtherTypes, SameLists,
           \/ ReaperStep \/ Recv \/ CloseCancels \/ CloseConns
           \/ \E c \in Conns : ListenStep(c) \/ PeerReads(c) \/ Break(c)
    PROVE  OtherTypes'
  <1> USE PoolsAssumption DEF OtherTypes, locks, pool, addVars, callVars, wire,
                              kind, sides, readVars
  <1>1. CASE ReaperStep
    BY <1>1 DEF ReaperStep, CallRmConn, ReaperLocks, RmConn
  <1>2. CASE Recv \/ CloseCancels
    BY <1>2 DEF Recv, CloseCancels
  <1>3. CASE CloseConns
    <2>1. conns \subseteq Conns
      BY DEF IInv, Control, PoolTypes
    <2>2. QED
      BY <1>3, <2>1 DEF CloseConns, End
  <1>4. ASSUME NEW c \in Conns, ListenReads(c) \/ PeerReads(c) \/ Break(c)
        PROVE  OtherTypes'
    BY <1>4 DEF ListenReads, Stop, End, PeerReads, Break
  <1>5. ASSUME NEW c \in Conns, ListenFails(c) PROVE OtherTypes'
    BY <1>5 DEF ListenFails, CheckIO, SetClosed, Stop, End
  <1>6. ASSUME NEW c \in Conns, ListenEnqueues(c) PROVE OtherTypes'
    BY <1>6 DEF ListenEnqueues, QueueHasRoom, Stop, End
  <1>7. QED
    BY <1>1, <1>2, <1>3, <1>4, <1>5, <1>6 DEF ListenStep

Pooled == IInv /\ SameLists /\ OtherTypes

LEMMA SpecPooled == Spec => []Pooled
  <1>1. Init => SameLists /\ OtherTypes
    BY PoolsAssumption DEF Init, SameLists, OtherTypes
  <1>2. IInv /\ SameLists /\ OtherTypes /\ [Next]_vars
          => SameLists' /\ OtherTypes'
    <2> SUFFICES ASSUME IInv, SameLists, OtherTypes, [Next]_vars
                 PROVE  SameLists' /\ OtherTypes'
      OBVIOUS
    <2>1. SameLists'
      BY ListsStep
    <2>2. CASE Next
      <3>1. OtherTypes'
        BY <2>2, CallTypes, AddTypes, EndTypes DEF Next
      <3>2. QED
        BY <2>1, <3>1
    <2>3. CASE UNCHANGED vars
      <3>1. OtherTypes'
        BY <2>3 DEF vars, OtherTypes
      <3>2. QED
        BY <2>1, <3>1
    <2>4. QED
      BY <2>2, <2>3
  <1>3. QED
    BY SpecIInv, <1>1, <1>2, PTL DEF Spec, Pooled

(* Type correctness.  Its core is that socket.conns and mwriter.ws never   *)
(* disagree: each connection is added to and removed from both under       *)
(* socket.mu, and rmConn finds it once in the list (socket.go, addConn and *)
(* rmConn, msgio.go, addConn and rmConn of mwriter).                       *)
THEOREM PoolsTypeCorrect == Spec => []TypeOK
  <1>1. Pooled => TypeOK
    <2> SUFFICES ASSUME IInv, SameLists, OtherTypes PROVE TypeOK
      BY DEF Pooled
    <2>1. replayed \in [Conns -> 0 .. Parts]
      BY PoolsAssumption DEF IInv, Control, PoolTypes
    <2>2. QED
      BY <2>1 DEF IInv, Control, PoolTypes, SameLists, OtherTypes, TypeOK
  <1>2. QED
    BY SpecPooled, <1>1, PTL

-----------------------------------------------------------------------------
(* Who waits for whom (CanMove). *)

(* Whoever has socket.mu, or shares it, is about to use it. *)
Holders ==
    /\ mu \in Conns => adder[mu] \in {"register", "replay"}
    /\ mu = Reaper => reaping # NoOne
    /\ \A t \in readers : pc[t] \in {"lock", "write"}

Added(c) == adder[c] \in {"replay", "done"}

(* From its registration to its removal a connection is in the pools; its  *)
(* first error puts it into the hands of the reaper; and while the socket  *)
(* is open somebody reads it until then.                                   *)
Removal(c) ==
    /\ c \in closed \cap conns <=> c \in queued \/ c = reaping
    /\ c \in queued => c # reaping
    /\ adder[c] = "replay" => c \in conns
    /\ c \in conns \union closed \union listening => Added(c)
    /\ Added(c) => c \in conns \union closed
    /\ Added(c) /\ ~cancelled => c \in listening \union closed
    /\ hand[c] = "error" => c \in closed

Handed == Holders /\ \A c \in Conns : Removal(c)

LEMMA InitHanded == Init => Handed
  BY PoolsAssumption DEF Init, Handed, Holders, Removal, Added, cancelled

(* A first error, of whoever finds it, hands the connection to the reaper. *)
LEMMA ClosedIsHanded ==
    ASSUME Handed, NEW c \in Conns, SetClosed(c), c \in conns \union closed,
           NEW d \in Conns,
           UNCHANGED <<conns, reaping>>
    PROVE  /\ d \in closed' \cap conns' <=> d \in queued' \/ d = reaping'
           /\ d \in queued' => d # reaping'
           /\ closed \subseteq closed' /\ c \in closed' /\ closed' \subseteq closed \union {c}
  <1>1. Removal(d) /\ Removal(c)
    BY DEF Handed
  <1>2. CASE c \in closed
    BY <1>1, <1>2 DEF SetClosed, Removal
  <1>3. CASE c \notin closed
    BY <1>1, <1>3 DEF SetClosed, Removal
  <1>4. QED
    BY <1>2, <1>3

LEMMA CallHanded ==
    ASSUME Pooled, Handed, NEW t \in Threads, Begin(t) \/ CallStep(t)
    PROVE  Handed'
  <1> USE PoolsAssumption
      DEF Pooled, IInv, Control, PoolTypes, OtherTypes, locks, pool, addVars, callVars,
          wire, kind, sides, readVars
  <1>1. Holders'
    <2>1. CASE Begin(t)
      BY <2>1 DEF Begin, Handed, Holders
    <2>2. CASE LockWriter(t)
      BY <2>2 DEF LockWriter, Handed, Holders
    <2>3. CASE ShareLock(t)
      <3>1. mu' = NoOne /\ UNCHANGED <<adder, reaping>> /\ readers' \subseteq readers \union {t}
        BY <2>3 DEF ShareLock, MayShare, Shares
      <3>2. \A u \in readers' : pc'[u] \in {"lock", "write"}
        <4>1. \A u \in readers : pc[u] \in {"lock", "write"} /\ u # t
          BY <2>3 DEF ShareLock, Handed, Holders
        <4>2. \/ pc' = [pc EXCEPT ![t] = "idle"] /\ readers' = readers
              \/ pc' = [pc EXCEPT ![t] = "lock"] /\ readers' = readers \union {t}
          BY <2>3 DEF ShareLock, Shares
        <4>3. QED
          BY <4>1, <4>2
      <3>3. QED
        BY <3>1, <3>2 DEF Holders
    <2>4. CASE SkipClosed(t) \/ WritePart(t) \/ WriteFails(t)
      BY <2>4 DEF SkipClosed, WritePart, WriteFails, Handed, Holders
    <2>5. CASE Return(t)
      BY <2>5 DEF Return, Unshared, Handed, Holders
    <2>6. QED
      BY <2>1, <2>2, <2>3, <2>4, <2>5 DEF CallStep
  <1>2. CASE ~WriteFails(t)
    <2>1. UNCHANGED <<conns, closed, queued, reaping, adder, listening, closing, hand>>
      BY <1>2 DEF Begin, CallStep, ShareLock, LockWriter, SkipClosed, WritePart,
                  Return
    <2>2. QED
      BY <1>1, <2>1 DEF Handed, Removal, Added, cancelled
  <1>3. CASE WriteFails(t)
    <2>1. Target(t) \in conns /\ Target(t) \in Conns
      BY <1>3, ElementInConns DEF WriteFails, Writing, Target, SameLists
    <2>2. /\ SetClosed(Target(t))
          /\ UNCHANGED <<conns, reaping, adder, listening, closing, hand>>
      BY <1>3 DEF WriteFails
    <2>3. ASSUME NEW d \in Conns PROVE Removal(d)'
      <3>1. /\ d \in closed' \cap conns' <=> d \in queued' \/ d = reaping'
            /\ d \in queued' => d # reaping'
            /\ closed \subseteq closed' /\ closed' \subseteq closed \union {Target(t)}
        BY <2>1, <2>2, ClosedIsHanded
      <3>2. Removal(d) /\ Removal(Target(t))
        BY <2>1 DEF Handed
      <3>3. QED
        BY <2>1, <2>2, <3>1, <3>2 DEF Removal, Added, cancelled
    <2>4. QED
      BY <1>1, <2>3 DEF Handed
  <1>4. QED
    BY <1>2, <1>3

LEMMA AddHanded ==
    ASSUME Pooled, Handed, NEW c \in Conns, Connect(c) \/ AddStep(c)
    PROVE  Handed'
  <1> USE PoolsAssumption
      DEF Pooled, IInv, Control, PoolTypes, OtherTypes, locks, pool, addVars, callVars,
          wire, kind, sides, readVars
  <1>1. Holders'
    <2>1. CASE Connect(c) \/ AddLocks(c) \/ Register(c)
      BY <2>1 DEF Connect, AddLocks, MayLock, Register, ReplayHolds, Handed, Holders
    <2>2. CASE ReplayPart(c) \/ ReplayFails(c)
      BY <2>2 DEF ReplayPart, ReplayFails, ReplayHolds, Handed, Holders
    <2>3. QED
      BY <2>1, <2>2 DEF AddStep
  <1>2. CASE Connect(c) \/ AddLocks(c)
    <2>1. UNCHANGED <<conns, closed, queued, reaping, listening, closing, hand>>
      BY <1>2 DEF Connect, AddLocks
    <2>2. PICK v \in {"lock", "register"} : adder' = [adder EXCEPT ![c] = v]
      BY <1>2 DEF Connect, AddLocks
    <2>3. adder[c] \in {"fresh", "lock"}
      BY <1>2 DEF Connect, AddLocks
    <2>4. \A d \in Conns :
            \/ adder'[d] = adder[d]
            \/ ~Added(d) /\ ~Added(d)' /\ adder'[d] # "replay"
      <3> TAKE d \in Conns
      <3>1. CASE d = c
        <4>1. adder'[c] = v
          BY <2>2
        <4>2. QED
          BY <2>3, <3>1, <4>1 DEF Added
      <3>2. CASE d # c
        BY <2>2, <3>2
      <3>3. QED
        BY <3>1, <3>2
    <2>5. QED
      BY <1>1, <2>1, <2>4 DEF Handed, Removal, Added, cancelled
  <1>3. CASE Register(c)
    BY <1>1, <1>3 DEF Register, Handed, Removal, Added, cancelled
  <1>4. CASE ReplayPart(c)
    BY <1>1, <1>4 DEF ReplayPart, Handed, Removal, Added, cancelled
  <1>5. CASE ReplayFails(c)
    BY <1>1, <1>5 DEF ReplayFails, SetClosed, Handed, Removal, Added, cancelled
  <1>6. QED
    BY <1>2, <1>3, <1>4, <1>5 DEF AddStep

LEMMA EndHanded ==
    ASSUME Pooled, Handed,
           \/ ReaperStep \/ Recv \/ CloseCancels \/ CloseConns
           \/ \E c \in Conns : ListenStep(c) \/ PeerReads(c) \/ Break(c)
    PROVE  Handed'
  <1> USE PoolsAssumption
      DEF Pooled, IInv, Control, PoolTypes, OtherTypes, locks, pool, addVars, callVars,
          wire, kind, sides, readVars
  <1>1. Holders'
    <2>1. CASE ReaperStep
      <3>1. CASE ReaperLocks \/ RmConn
        BY <3>1 DEF ReaperLocks, RmConn, Handed, Holders
      <3>2. ASSUME NEW c \in Conns, CallRmConn(c) PROVE Holders'
        BY <3>2 DEF CallRmConn, Handed, Holders
      <3>3. QED
        BY <2>1, <3>1, <3>2 DEF ReaperStep
    <2>2. CASE Recv \/ CloseCancels \/ CloseConns
      BY <2>2 DEF Recv, CloseCancels, CloseConns, Handed, Holders
    <2>3. ASSUME NEW c \in Conns, ListenStep(c) \/ PeerReads(c) \/ Break(c)
          PROVE  UNCHANGED <<mu, readers, adder, pc, reaping>>
      BY <2>3 DEF ListenStep, ListenReads, ListenFails, ListenEnqueues, PeerReads,
                  Break
    <2>4. QED
      BY <2>1, <2>2, <2>3 DEF Handed, Holders
  <1>2. ASSUME NEW c \in Conns, CallRmConn(c) PROVE Handed'
    <2>1. /\ queued' = queued \ {c} /\ c \in queued
          /\ reaping = NoOne /\ reaping' = c
          /\ UNCHANGED <<conns, closed, adder, listening, closing, hand>>
      BY <1>2 DEF CallRmConn
    <2>2. ASSUME NEW d \in Conns PROVE Removal(d)'
      BY <2>1 DEF Handed, Removal, Added, cancelled
    <2>3. QED
      BY <1>1, <2>2 DEF Handed
  <1>3. CASE ReaperLocks \/ Recv \/ CloseCancels \/ CloseConns
    BY <1>1, <1>3 DEF ReaperLocks, Recv, CloseCancels, CloseConns, Handed, Removal,
                      Added, cancelled
  <1>4. CASE RmConn
    <2>1. /\ reaping \in Conns /\ mu = Reaper
          /\ conns' = conns \ {reaping} /\ reaping' = NoOne
          /\ UNCHANGED <<closed, queued, adder, listening, closing, hand>>
      BY <1>4 DEF RmConn, Handed, Holders
    <2>2. \A c \in Conns : adder[c] # "replay"
      BY <2>1 DEF ReplayHolds
    <2>3. ASSUME NEW c \in Conns PROVE Removal(c)'
      BY <2>1, <2>2 DEF Handed, Removal, Added, cancelled
    <2>4. QED
      BY <1>1, <2>3 DEF Handed
  <1>5. ASSUME NEW c \in Conns, ListenReads(c) \/ PeerReads(c) \/ Break(c)
        PROVE  Handed'
    <2>1. CASE ListenReads(c)
      BY <1>1, <2>1 DEF ListenReads, Stop, Handed, Removal, Added, cancelled
    <2>2. CASE PeerReads(c) \/ Break(c)
      BY <1>1, <2>2 DEF PeerReads, Break, Handed, Removal, Added, cancelled
    <2>3. QED
      BY <1>5, <2>1, <2>2
  <1>6. ASSUME NEW c \in Conns, ListenFails(c) PROVE Handed'
    <2>1. /\ c \in listening /\ SetClosed(c)
          /\ UNCHANGED <<conns, reaping, adder, closing>>
          /\ listening' = listening \/ cancelled
          /\ listening' \subseteq listening
          /\ \A d \in Conns : hand'[d] = hand[d] \/ d = c
      BY <1>6 DEF ListenFails, CheckIO, Stop
    <2>2. c \in conns \union closed
      BY <2>1 DEF Handed, Removal
    <2>3. ASSUME NEW d \in Conns PROVE Removal(d)'
      <3>1. /\ d \in closed' \cap conns' <=> d \in queued' \/ d = reaping'
            /\ d \in queued' => d # reaping'
            /\ closed \subseteq closed' /\ c \in closed'
            /\ closed' \subseteq closed \union {c}
        BY <2>1, <2>2, ClosedIsHanded
      <3>2. Removal(d) /\ Removal(c)
        BY DEF Handed
      <3>3. QED
        BY <2>1, <2>2, <3>1, <3>2 DEF Removal, Added, cancelled
    <2>4. QED
      BY <1>1, <2>3 DEF Handed
  <1>7. ASSUME NEW c \in Conns, ListenEnqueues(c) PROVE Handed'
    BY <1>1, <1>7 DEF ListenEnqueues, Stop, Handed, Removal, Added, cancelled
  <1>8. QED
    BY <1>2, <1>3, <1>4, <1>5, <1>6, <1>7 DEF ReaperStep, ListenStep

LEMMA SpecHanded == Spec => [](Pooled /\ Handed)
  <1>1. Pooled /\ Handed /\ [Next]_vars => Handed'
    <2> SUFFICES ASSUME Pooled, Handed, [Next]_vars PROVE Handed'
      OBVIOUS
    <2>1. CASE Next
      BY <2>1, CallHanded, AddHanded, EndHanded DEF Next
    <2>2. CASE UNCHANGED vars
      BY <2>2 DEF vars, Handed, Holders, Removal, Added, cancelled
    <2>3. QED
      BY <2>1, <2>2
  <1>2. QED
    BY InitHanded, SpecPooled, <1>1, PTL DEF Spec

(* The writer's mutex is kept only by who writes to a peer that does not   *)
(* read, *)
LEMMA WriterIsFree ==
    ASSUME Pooled, ~CanMove, ~BlockedOnPeer
    PROVE  writer = NoOne
  <1> SUFFICES ASSUME writer # NoOne PROVE FALSE
    OBVIOUS
  <1>1. PICK t \in Threads : pc[t] = "write"
    BY DEF Pooled, IInv, Control, PoolTypes, WriterHolds
  <1>2. ~CallMoves(t)
    BY DEF CanMove
  <1>3. Writing(t)
    BY <1>1, <1>2 DEF CallMoves, Writing, Pooled, IInv, Control, PoolTypes
  <1>4. Target(t) \in Conns
    BY <1>3, ElementInConns DEF Writing, Target, Pooled, IInv, Control, PoolTypes
  <1>5. Target(t) \notin broken /\ fill[Target(t)] = Window
    BY <1>2, <1>3, <1>4, PoolsAssumption DEF CallMoves, Fails, Pooled, OtherTypes
  <1>6. QED
    BY <1>3, <1>4, <1>5 DEF BlockedOnPeer

(* and then nobody keeps socket.mu. *)
LEMMA MutexIsFree ==
    ASSUME Pooled, Handed, ~CanMove, ~BlockedOnPeer
    PROVE  /\ mu = NoOne /\ readers = {} /\ reaping = NoOne
           /\ \A t \in Threads : pc[t] \in {"idle", "rlock"}
           /\ \A c \in Conns : adder[c] \in {"fresh", "done"}
  <1> USE PoolsAssumption
  <1>1. writer = NoOne
    BY WriterIsFree
  <1>2. \A t \in Threads : pc[t] \in {"idle", "rlock"}
    <2> TAKE t \in Threads
    <2>1. pc[t] # "write"
      BY <1>1 DEF Pooled, IInv, Control, WriterHolds
    <2>2. pc[t] # "lock"
      BY <1>1 DEF CanMove, CallMoves
    <2>3. QED
      BY <2>1, <2>2 DEF Pooled, IInv, Control, PoolTypes
  <1>3. \A c \in Conns : adder[c] \notin {"register", "replay"}
    <2> TAKE c \in Conns
    <2>1. ~AddMoves(c)
      BY DEF CanMove
    <2>2. adder[c] # "register"
      BY <1>1, <2>1 DEF AddMoves
    <2>3. ASSUME adder[c] = "replay" PROVE FALSE
      <3>1. c \notin broken /\ fill[c] = Window
        BY <2>1, <2>3 DEF AddMoves, Fails, Pooled, OtherTypes
      <3>2. QED
        BY <2>3, <3>1 DEF BlockedOnPeer
    <2>4. QED
      BY <2>2, <2>3
  <1>4. readers = {}
    BY <1>2 DEF Handed, Holders, Pooled, OtherTypes
  <1>5. mu # Reaper
    <2> SUFFICES ASSUME mu = Reaper PROVE FALSE
      OBVIOUS
    <2>1. reaping \in Conns
      BY DEF Handed, Holders, Pooled, OtherTypes
    <2>2. reaping \in conns
      BY <2>1 DEF Handed, Removal
    <2>3. \E i \in 1 .. Len(ws) : ws[i] = reaping
      BY <2>2 DEF Pooled, SameLists
    <2>4. QED
      BY <1>1, <2>3 DEF CanMove, ReaperMoves
  <1>6. mu = NoOne
    BY <1>3, <1>5 DEF Handed, Holders, Pooled, OtherTypes
  <1>7. MayLock
    BY <1>4, <1>6 DEF MayLock
  <1>8. reaping = NoOne
    BY <1>7 DEF CanMove, ReaperMoves
  <1>9. \A c \in Conns : adder[c] # "lock"
    BY <1>7 DEF CanMove, AddMoves
  <1>10. \A c \in Conns : adder[c] \in {"fresh", "done"}
    BY <1>3, <1>9 DEF Pooled, IInv, Control, PoolTypes
  <1>11. QED
    BY <1>2, <1>4, <1>6, <1>8, <1>10

(* No deadlock: when the socket's goroutines and the application have no   *)
(* step left, whoever waits, be it a call, addConn, the reaper or Close,   *)
(* waits for a peer that does not read.  The two mutexes and what is held  *)
(* while waiting for them close no circle among the socket's own           *)
(* (socket.go 148, 329, 344 and 363, sub.go 56, msgio.go 148 and 165).     *)
THEOREM PoolsWaitOnlyForPeers ==
    Spec => []StuckOnlyOnPeers
  <1>1. ASSUME Pooled, Handed, ~CanMove, ~BlockedOnPeer
        PROVE  /\ closing # "rlock" /\ reaping = NoOne
               /\ \A t \in Threads : pc[t] = "idle"
               /\ \A c \in Conns : adder[c] \in {"fresh", "done"}
    <2>1. MayShare
      BY <1>1, MutexIsFree DEF MayShare, LockWaits
    <2>2. closing # "rlock"
      BY <1>1, <2>1 DEF CanMove
    <2>3. \A t \in Threads : pc[t] # "rlock"
      BY <1>1, <2>1 DEF CanMove, CallMoves
    <2>4. QED
      BY <1>1, <2>2, <2>3, MutexIsFree
  <1>2. Pooled /\ Handed => StuckOnlyOnPeers
    BY <1>1 DEF StuckOnlyOnPeers, Quiet
  <1>3. QED
    BY SpecHanded, <1>2, PTL

(* No loss is overlooked: when there is no step left in an open socket and *)
(* no peer keeps its writer waiting, every connection whose stream failed  *)
(* has left the pools (conn.go 176-185, msgio.go, listen, socket.go,       *)
(* connReaper and rmConn).  The channel has room for one message at least, *)
(* in the code for ten.                                                    *)
THEOREM PoolsLossIsNoticed ==
    ASSUME QueueSize # 0
    PROVE  Spec => []LossIsNoticed
  <1>1. ASSUME Pooled, Handed, ~CanMove, ~cancelled, ~BlockedOnPeer,
               NEW c \in broken \cap conns
        PROVE  FALSE
    <2>1. c \in Conns
      BY <1>1 DEF Pooled, OtherTypes
    <2>2. QueueHasRoom
      BY <1>1, PoolsAssumption DEF CanMove, QueueHasRoom, Pooled, OtherTypes
    <2>3. hand[c] = "nothing"
      BY <1>1, <2>1, <2>2 DEF CanMove, ListenMoves
    <2>4. c \notin listening
      BY <1>1, <2>1, <2>3 DEF CanMove, ListenMoves
    <2>5. reaping = NoOne /\ queued = {}
      BY <1>1, MutexIsFree DEF CanMove, ReaperMoves
    <2>6. c \notin closed
      BY <1>1, <2>1, <2>5, PoolsAssumption DEF Handed, Removal
    <2>7. QED
      BY <1>1, <2>1, <2>4, <2>6 DEF Handed, Removal
  <1>2. Pooled /\ Handed => LossIsNoticed
    BY <1>1 DEF LossIsNoticed, Quiet
  <1>3. QED
    BY SpecHanded, <1>2, PTL

=============================================================================
