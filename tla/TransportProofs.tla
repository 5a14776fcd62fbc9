-------------------------- MODULE TransportProofs --------------------------
(***************************************************************************)
(* Both ends of the transport for any dialers, addresses and bounds:       *)
(* connections are shared as the pool promises, every UDP socket has an    *)
(* owner, and the listening socket gets each stream once and in order.     *)
(***************************************************************************)
EXTENDS Transport, TLAPS

Alive == Client!Alive
Entered == Client!Entered

(* A link nobody has dialled is not marked as the pool's. *)
FreshUnshared == \A q \in Links : link[q] = "none" => shared[q] = NoAddr

(* Who dials has a link, whose handshake is over when it opens a stream;   *)
(* who does not has none, so that a handshake that starts abandons nothing; *)
(* and only the direct Dial asks for NextConnection.                       *)
AtWhileDialing ==
    \A d \in Dialers :
        /\ pc[d] \in {"idle", "lock"} => at[d] = NoLink
        /\ pc[d] = "handshake" => at[d] \in Links
        /\ pc[d] \in {"open", "next", "reopen"} =>
             at[d] \in Links /\ link[at[d]] \in {"up", "rejected", "dead"}
        /\ pc[d] = "lock" => d \in Pooled
        /\ pc[d] \in {"next", "reopen"} => d \notin Pooled

(* A handshake of the pool holds the mutex, for an address without entry.  *)
HandshakeHolds ==
    \A d \in Dialers : pc[d] = "handshake" =>
        /\ link[at[d]] = "dialing"
        /\ d \in Pooled => /\ mu = d
                           /\ entries[Endpoint[d]] = NoLink
                           /\ shared[at[d]] = Endpoint[d]
        /\ d \notin Pooled => shared[at[d]] = NoAddr

(* No two handshakes are on one link. *)
OwnHandshake ==
    \A d, e \in Dialers :
        pc[d] = "handshake" /\ pc[e] = "handshake" /\ at[d] = at[e] => d = e

(* A direct Dial never gets a link of the pool. *)
DirectUnshared ==
    \A d \in Dialers \ Pooled : pc[d] # "idle" => shared[at[d]] = NoAddr

(* An entry was dialled to its address, *)
EntryShared == \A a \in Addrs : entries[a] # NoLink => shared[entries[a]] = a

(* and a link of the pool that lives is the entry of its address. *)
LiveIsEntered ==
    \A q \in Links : q \in Alive /\ shared[q] # NoAddr => entries[shared[q]] = q

(* A UDP socket of the pool is in the map or about to be; another one is   *)
(* its Dial's until a stream is handed out.                                *)
Owned(q) ==
    IF shared[q] = NoAddr
    THEN \/ opened[q] > 0
         \/ \E d \in Dialers \ Pooled : pc[d] # "idle" /\ at[d] = q
    ELSE q \in Entered \/ \E d \in Dialers : pc[d] = "handshake" /\ at[d] = q

SocketOwned == \A q \in udp : Owned(q)

IInv ==
    /\ Client!TypeOK
    /\ FreshUnshared /\ AtWhileDialing
    /\ HandshakeHolds /\ OwnHandshake
    /\ DirectUnshared /\ EntryShared
    /\ LiveIsEntered /\ SocketOwned

-----------------------------------------------------------------------------
LEMMA InitIInv == Client!Init => IInv
  BY TransportAssumption DEF Client!Init, IInv, Client!TypeOK, FreshUnshared,
                             AtWhileDialing, HandshakeHolds, OwnHandshake,
                             DirectUnshared, EntryShared, LiveIsEntered,
                             SocketOwned, Links, Client!Links

LEMMA StutterIInv == IInv /\ UNCHANGED dialVars => IInv'
  BY DEF dialVars, IInv, Client!TypeOK, FreshUnshared, AtWhileDialing,
         HandshakeHolds, OwnHandshake, DirectUnshared, EntryShared,
         LiveIsEntered, SocketOwned, Owned, Alive, Client!Alive, Entered,
         Client!Entered

LEMMA DirectDialStep ==
    ASSUME IInv, NEW d \in Dialers, Client!DirectDial(d)
    PROVE  IInv'
  <1> USE TransportAssumption DEF Links, Client!Links
  <1>0. PICK q \in Links : Client!StartHandshake(d, q) /\ udp' = udp \union {q}
    BY DEF Client!DirectDial
  <1>1. Client!TypeOK'
    BY <1>0 DEF Client!DirectDial, Client!Call, Client!StartHandshake,
                Client!IsNew, IInv, Client!TypeOK
  <1>2. FreshUnshared'
    BY <1>0, <1>1 DEF Client!DirectDial, Client!Call, Client!StartHandshake,
                      Client!IsNew, IInv, Client!TypeOK, FreshUnshared
  <1>3. AtWhileDialing'
    BY <1>0, <1>1 DEF Client!DirectDial, Client!Call, Client!StartHandshake,
                      Client!IsNew, IInv, Client!TypeOK, AtWhileDialing
  <1>4. HandshakeHolds'
    BY <1>0, <1>1 DEF Client!DirectDial, Client!StartHandshake, Client!IsNew,
                      IInv, Client!TypeOK, FreshUnshared, HandshakeHolds
  <1>5. OwnHandshake'
    <2>1. ASSUME NEW e \in Dialers \ {d}, pc'[e] = "handshake"
          PROVE  pc[e] = "handshake" /\ at'[e] = at[e] /\ at[e] # q
      <3>1. pc[e] = "handshake" /\ at'[e] = at[e]
        BY <1>0, <2>1 DEF Client!StartHandshake, IInv, Client!TypeOK
      <3>2. QED
        BY <1>0, <3>1 DEF Client!StartHandshake, Client!IsNew, IInv, HandshakeHolds
    <2>2. at'[d] = q
      BY <1>0 DEF Client!StartHandshake, IInv, Client!TypeOK
    <2>3. QED
      BY <2>1, <2>2 DEF IInv, OwnHandshake
  <1>6. DirectUnshared'
    BY <1>0, <1>1 DEF Client!DirectDial, Client!StartHandshake, Client!IsNew,
                      IInv, Client!TypeOK, FreshUnshared, DirectUnshared
  <1>7. EntryShared'
    BY <1>0, <1>1 DEF Client!DirectDial, Client!Call, Client!StartHandshake,
                      Client!IsNew, IInv, Client!TypeOK, EntryShared
  <1>8. LiveIsEntered'
    BY <1>0, <1>1 DEF Client!DirectDial, Client!StartHandshake, IInv,
                      LiveIsEntered, Alive, Client!Alive
  <1>9. ASSUME NEW p \in udp' PROVE Owned(p)'
    BY <1>0, <1>1 DEF Client!DirectDial, Client!Call, Client!StartHandshake,
                      Client!IsNew, IInv, Client!TypeOK, Owned, SocketOwned,
                      Entered, Client!Entered
  <1>10. QED
    BY <1>1, <1>2, <1>3, <1>4, <1>5, <1>6, <1>7, <1>8, <1>9
       DEF IInv, SocketOwned

LEMMA PoolDialStep ==
    ASSUME IInv, NEW d \in Dialers, Client!PoolDial(d)
    PROVE  IInv'
  <1> USE TransportAssumption DEF Links, Client!Links
  <1>1. Client!TypeOK'
    BY DEF Client!PoolDial, Client!Call, IInv, Client!TypeOK
  <1>2. FreshUnshared'
    BY <1>1 DEF Client!PoolDial, Client!Call, IInv, Client!TypeOK,
                FreshUnshared
  <1>3. AtWhileDialing'
    BY <1>1 DEF Client!PoolDial, Client!Call, IInv, Client!TypeOK,
                AtWhileDialing
  <1>4. HandshakeHolds'
    BY <1>1 DEF Client!PoolDial, Client!Call, IInv, Client!TypeOK,
                HandshakeHolds
  <1>5. OwnHandshake'
    BY <1>1 DEF Client!PoolDial, Client!Call, IInv, Client!TypeOK, OwnHandshake
  <1>6. DirectUnshared'
    BY <1>1 DEF Client!PoolDial, Client!Call, IInv, Client!TypeOK,
                DirectUnshared
  <1>7. EntryShared'
    BY <1>1 DEF Client!PoolDial, Client!Call, IInv, Client!TypeOK, EntryShared
  <1>8. LiveIsEntered'
    BY <1>1 DEF Client!PoolDial, IInv, LiveIsEntered, Alive, Client!Alive
  <1>9. ASSUME NEW p \in udp' PROVE Owned(p)'
    BY <1>1 DEF Client!PoolDial, Client!Call, IInv, Owned, AtWhileDialing,
                SocketOwned, Entered, Client!Entered
  <1>10. QED
    BY <1>1, <1>2, <1>3, <1>4, <1>5, <1>6, <1>7, <1>8, <1>9
       DEF IInv, SocketOwned

LEMMA ReuseEntryStep ==
    ASSUME IInv, NEW d \in Dialers, Client!ReuseEntry(d)
    PROVE  IInv'
  <1> USE TransportAssumption DEF Links, Client!Links
  <1>1. Client!TypeOK'
    BY DEF Client!ReuseEntry, Client!HasLiveEntry, IInv, Client!TypeOK
  <1>2. FreshUnshared'
    BY <1>1 DEF Client!ReuseEntry, Client!HasLiveEntry, IInv, Client!TypeOK,
                FreshUnshared
  <1>3. AtWhileDialing'
    BY <1>1 DEF Client!ReuseEntry, Client!HasLiveEntry, IInv, Client!TypeOK,
                AtWhileDialing, Client!Alive
  <1>4. HandshakeHolds'
    BY <1>1 DEF Client!ReuseEntry, Client!HasLiveEntry, IInv, Client!TypeOK,
                HandshakeHolds
  <1>5. OwnHandshake'
    BY <1>1 DEF Client!ReuseEntry, Client!HasLiveEntry, IInv, Client!TypeOK,
                OwnHandshake
  <1>6. DirectUnshared'
    BY <1>1 DEF Client!ReuseEntry, IInv, AtWhileDialing, DirectUnshared
  <1>7. EntryShared'
    BY <1>1 DEF Client!ReuseEntry, Client!HasLiveEntry, IInv, Client!TypeOK,
                EntryShared
  <1>8. LiveIsEntered'
    BY <1>1 DEF Client!ReuseEntry, IInv, LiveIsEntered, Alive, Client!Alive
  <1>9. ASSUME NEW p \in udp' PROVE Owned(p)'
    <2>1. Entered' = Entered
      BY DEF Client!ReuseEntry, Entered, Client!Entered
    <2>2. Owned(p)
      BY DEF Client!ReuseEntry, IInv, SocketOwned
    <2>3. QED
      BY <2>1, <2>2 DEF Client!ReuseEntry, Owned, IInv, AtWhileDialing
  <1>10. QED
    BY <1>1, <1>2, <1>3, <1>4, <1>5, <1>6, <1>7, <1>8, <1>9
       DEF IInv, SocketOwned

LEMMA DialEntryStep ==
    ASSUME IInv, NEW d \in Dialers, Client!DialEntry(d)
    PROVE  IInv'
  <1> USE TransportAssumption DEF Links, Client!Links
  <1>0. PICK q \in Links :
          /\ Client!StartHandshake(d, q)
          /\ shared' = [shared EXCEPT ![q] = Endpoint[d]]
          /\ udp' = (udp \ {entries[Endpoint[d]]}) \union {q}
    BY DEF Client!DialEntry
  <1>1. Client!TypeOK'
    BY <1>0 DEF Client!DialEntry, Client!HasLiveEntry, Client!StartHandshake,
                Client!IsNew, Client!HoldDuringHandshake, IInv, Client!TypeOK
  <1>2. FreshUnshared'
    BY <1>0, <1>1 DEF Client!DialEntry, Client!HasLiveEntry,
                      Client!StartHandshake, Client!IsNew,
                      Client!HoldDuringHandshake, IInv, Client!TypeOK,
                      FreshUnshared
  <1>3. AtWhileDialing'
    BY <1>0, <1>1 DEF Client!DialEntry, Client!HasLiveEntry,
                      Client!StartHandshake, Client!IsNew,
                      Client!HoldDuringHandshake, IInv, Client!TypeOK,
                      AtWhileDialing
  <1>4. HandshakeHolds'
    BY <1>0, <1>1 DEF Client!DialEntry, Client!StartHandshake, Client!IsNew,
                      Client!HoldDuringHandshake, IInv, Client!TypeOK,
                      AtWhileDialing, HandshakeHolds
  <1>5. OwnHandshake'
    <2>1. ASSUME NEW e \in Dialers \ {d}, pc'[e] = "handshake"
          PROVE  pc[e] = "handshake" /\ at'[e] = at[e] /\ at[e] # q
      <3>1. pc[e] = "handshake" /\ at'[e] = at[e]
        BY <1>0, <2>1 DEF Client!StartHandshake, IInv, Client!TypeOK
      <3>2. QED
        BY <1>0, <3>1 DEF Client!StartHandshake, Client!IsNew, IInv, HandshakeHolds
    <2>2. at'[d] = q
      BY <1>0 DEF Client!StartHandshake, IInv, Client!TypeOK
    <2>3. QED
      BY <2>1, <2>2 DEF IInv, OwnHandshake
  <1>6. DirectUnshared'
    BY <1>0, <1>1, SMTT(30)
       DEF Client!DialEntry, Client!HasLiveEntry, Client!StartHandshake,
           Client!IsNew, IInv, Client!TypeOK, AtWhileDialing, HandshakeHolds,
           OwnHandshake, DirectUnshared, EntryShared, LiveIsEntered,
           SocketOwned, Alive, Client!Alive
  <1>7. EntryShared'
    BY <1>0, <1>1 DEF Client!DialEntry, Client!StartHandshake, Client!IsNew,
                      IInv, FreshUnshared, EntryShared
  <1>8. LiveIsEntered'
    BY <1>0, <1>1 DEF Client!DialEntry, Client!HasLiveEntry,
                      Client!StartHandshake, IInv, Client!TypeOK,
                      LiveIsEntered, Alive, Client!Alive
  <1>9. ASSUME NEW p \in udp' PROVE Owned(p)'
    BY <1>0, <1>1 DEF Client!DialEntry, Client!HasLiveEntry,
                      Client!StartHandshake, IInv, Client!TypeOK, Owned,
                      AtWhileDialing, SocketOwned, Entered, Client!Entered
  <1>10. QED
    BY <1>1, <1>2, <1>3, <1>4, <1>5, <1>6, <1>7, <1>8, <1>9
       DEF IInv, SocketOwned

LEMMA HandshakeOkStep ==
    ASSUME IInv, NEW d \in Dialers, Client!HandshakeOk(d)
    PROVE  IInv'
  <1> USE TransportAssumption DEF Links, Client!Links
  <1>0. PICK s \in {"up", "rejected"} : link' = [link EXCEPT ![at[d]] = s]
    BY DEF Client!HandshakeOk
  <1>1. Client!TypeOK'
    BY <1>0 DEF Client!HandshakeOk, Client!Unlocked, IInv, Client!TypeOK
  <1>2. FreshUnshared'
    BY <1>0, <1>1 DEF Client!HandshakeOk, Client!Unlocked, IInv, Client!TypeOK,
                      FreshUnshared
  <1>3. AtWhileDialing'
    BY <1>0, <1>1 DEF Client!HandshakeOk, Client!Unlocked, IInv, Client!TypeOK,
                      AtWhileDialing
  <1>4. HandshakeHolds'
    BY <1>0, <1>1 DEF Client!HandshakeOk, Client!Unlocked, IInv, Client!TypeOK,
                      HandshakeHolds, OwnHandshake
  <1>5. OwnHandshake'
    BY <1>0, <1>1 DEF Client!HandshakeOk, Client!Unlocked, IInv, Client!TypeOK,
                      OwnHandshake
  <1>6. DirectUnshared'
    BY <1>0, <1>1 DEF Client!HandshakeOk, Client!Unlocked, IInv, Client!TypeOK,
                      DirectUnshared
  <1>7. EntryShared'
    BY <1>0, <1>1 DEF Client!HandshakeOk, IInv, HandshakeHolds, EntryShared
  <1>8. LiveIsEntered'
    BY <1>0, <1>1 DEF Client!HandshakeOk, IInv, Client!TypeOK, HandshakeHolds,
                      LiveIsEntered, Alive, Client!Alive
  <1>9. ASSUME NEW p \in udp' PROVE Owned(p)'
    <2>1. Owned(p)
      BY DEF Client!HandshakeOk, IInv, SocketOwned
    <2>2. CASE shared[p] = NoAddr
      BY <2>1, <2>2 DEF Client!HandshakeOk, Owned
    <2>3. CASE shared[p] # NoAddr /\ p \in Entered
      BY <2>3 DEF Client!HandshakeOk, Owned, Entered, Client!Entered, IInv,
                  HandshakeHolds
    <2>4. CASE shared[p] # NoAddr /\ p = at[d]
      <3>1. d \in Pooled
        BY <2>4 DEF Client!HandshakeOk, IInv, HandshakeHolds
      <3>2. p \in Entered'
        BY <2>4, <3>1 DEF Client!HandshakeOk, Entered, Client!Entered, IInv,
                          Client!TypeOK
      <3>3. QED
        BY <2>4, <3>2 DEF Client!HandshakeOk, Owned
    <2>5. CASE shared[p] # NoAddr /\ p \notin Entered /\ p # at[d]
      BY <2>1, <2>5 DEF Client!HandshakeOk, Owned
    <2>6. QED
      BY <2>2, <2>3, <2>4, <2>5
  <1>10. QED
    BY <1>1, <1>2, <1>3, <1>4, <1>5, <1>6, <1>7, <1>8, <1>9
       DEF IInv, SocketOwned

LEMMA HandshakeFailsStep ==
    ASSUME IInv, NEW d \in Dialers, Client!HandshakeFails(d)
    PROVE  IInv'
  <1> USE TransportAssumption DEF Links, Client!Links
  <1>1. Client!TypeOK'
    BY DEF Client!HandshakeFails, Client!Unlocked, Client!UnlockedOnError,
           Client!Return, IInv, Client!TypeOK
  <1>2. FreshUnshared'
    BY <1>1 DEF Client!HandshakeFails, Client!Unlocked, Client!UnlockedOnError,
                Client!Return, IInv, Client!TypeOK, FreshUnshared
  <1>3. AtWhileDialing'
    BY <1>1 DEF Client!HandshakeFails, Client!Unlocked, Client!UnlockedOnError,
                Client!Return, IInv, Client!TypeOK, AtWhileDialing
  <1>4. HandshakeHolds'
    BY <1>1 DEF Client!HandshakeFails, Client!Unlocked, Client!UnlockedOnError,
                Client!Return, IInv, Client!TypeOK, HandshakeHolds,
                OwnHandshake
  <1>5. OwnHandshake'
    BY <1>1 DEF Client!HandshakeFails, Client!Unlocked, Client!UnlockedOnError,
                Client!Return, IInv, Client!TypeOK, OwnHandshake
  <1>6. DirectUnshared'
    BY <1>1 DEF Client!HandshakeFails, Client!Unlocked, Client!UnlockedOnError,
                Client!Return, IInv, Client!TypeOK, DirectUnshared
  <1>7. EntryShared'
    BY <1>1 DEF Client!HandshakeFails, Client!Unlocked, Client!UnlockedOnError,
                Client!Return, IInv, Client!TypeOK, EntryShared
  <1>8. LiveIsEntered'
    BY <1>1 DEF Client!HandshakeFails, IInv, LiveIsEntered, Alive, Client!Alive
  <1>9. ASSUME NEW p \in udp' PROVE Owned(p)'
    BY <1>1 DEF Client!HandshakeFails, Client!Return, IInv, Owned,
                AtWhileDialing, SocketOwned, Entered, Client!Entered
  <1>10. QED
    BY <1>1, <1>2, <1>3, <1>4, <1>5, <1>6, <1>7, <1>8, <1>9
       DEF IInv, SocketOwned

LEMMA OpenOkStep ==
    ASSUME IInv, NEW d \in Dialers, Client!OpenOk(d)
    PROVE  IInv'
  <1> USE TransportAssumption DEF Links, Client!Links
  <1>1. Client!TypeOK'
    BY DEF Client!OpenOk, Client!Return, IInv, Client!TypeOK, AtWhileDialing
  <1>2. FreshUnshared'
    BY <1>1 DEF Client!OpenOk, Client!Return, IInv, Client!TypeOK,
                FreshUnshared
  <1>3. AtWhileDialing'
    BY <1>1 DEF Client!OpenOk, Client!Return, IInv, Client!TypeOK,
                AtWhileDialing
  <1>4. HandshakeHolds'
    BY <1>1 DEF Client!OpenOk, Client!Return, IInv, Client!TypeOK,
                HandshakeHolds
  <1>5. OwnHandshake'
    BY <1>1 DEF Client!OpenOk, Client!Return, IInv, Client!TypeOK, OwnHandshake
  <1>6. DirectUnshared'
    BY <1>1 DEF Client!OpenOk, Client!Return, IInv, Client!TypeOK,
                DirectUnshared
  <1>7. EntryShared'
    BY <1>1 DEF Client!OpenOk, Client!Return, IInv, Client!TypeOK, EntryShared
  <1>8. LiveIsEntered'
    BY <1>1 DEF Client!OpenOk, IInv, LiveIsEntered, Alive, Client!Alive
  <1>9. ASSUME NEW p \in udp' PROVE Owned(p)'
    BY <1>1 DEF Client!OpenOk, Client!Return, IInv, Client!TypeOK, Owned,
                SocketOwned, Entered, Client!Entered
  <1>10. QED
    BY <1>1, <1>2, <1>3, <1>4, <1>5, <1>6, <1>7, <1>8, <1>9
       DEF IInv, SocketOwned

LEMMA OpenFailsStep ==
    ASSUME IInv, NEW d \in Dialers, Client!OpenFails(d)
    PROVE  IInv'
  <1> USE TransportAssumption DEF Links, Client!Links
  <1>1. Client!TypeOK'
    BY DEF Client!OpenFails, Client!Return, Client!CloseSocket, IInv,
           Client!TypeOK
  <1>2. FreshUnshared'
    BY <1>1 DEF Client!OpenFails, Client!Return, Client!CloseSocket, IInv,
                Client!TypeOK, FreshUnshared
  <1>3. AtWhileDialing'
    BY <1>1 DEF Client!OpenFails, Client!Return, Client!CloseSocket, IInv,
                Client!TypeOK, AtWhileDialing
  <1>4. HandshakeHolds'
    BY <1>1 DEF Client!OpenFails, Client!Return, IInv, Client!TypeOK,
                FreshUnshared, AtWhileDialing, HandshakeHolds, LiveIsEntered
  <1>5. OwnHandshake'
    BY <1>1 DEF Client!OpenFails, Client!Return, Client!CloseSocket, IInv,
                Client!TypeOK, OwnHandshake
  <1>6. DirectUnshared'
    BY <1>1 DEF Client!OpenFails, Client!Return, Client!CloseSocket, IInv,
                Client!TypeOK, DirectUnshared
  <1>7. EntryShared'
    BY <1>1 DEF Client!OpenFails, Client!Return, Client!CloseSocket, IInv,
                Client!TypeOK, EntryShared
  <1>8. LiveIsEntered'
    BY <1>1 DEF Client!OpenFails, IInv, Client!TypeOK, LiveIsEntered, Alive,
                Client!Alive
  <1>9. ASSUME NEW p \in udp' PROVE Owned(p)'
    BY <1>1 DEF Client!OpenFails, Client!Return, Client!CloseSocket, IInv,
                Owned, SocketOwned, Entered, Client!Entered
  <1>10. QED
    BY <1>1, <1>2, <1>3, <1>4, <1>5, <1>6, <1>7, <1>8, <1>9
       DEF IInv, SocketOwned

LEMMA OpenRejectedStep ==
    ASSUME IInv, NEW d \in Dialers, Client!OpenRejected(d)
    PROVE  IInv'
  <1> USE TransportAssumption DEF Links, Client!Links
  <1>1. Client!TypeOK'
    BY DEF Client!OpenRejected, IInv, Client!TypeOK
  <1>2. FreshUnshared'
    BY <1>1 DEF Client!OpenRejected, IInv, Client!TypeOK, FreshUnshared
  <1>3. AtWhileDialing'
    BY <1>1 DEF Client!OpenRejected, IInv, Client!TypeOK, AtWhileDialing
  <1>4. HandshakeHolds'
    BY <1>1 DEF Client!OpenRejected, IInv, Client!TypeOK, HandshakeHolds
  <1>5. OwnHandshake'
    BY <1>1 DEF Client!OpenRejected, IInv, Client!TypeOK, OwnHandshake
  <1>6. DirectUnshared'
    BY <1>1 DEF Client!OpenRejected, IInv, Client!TypeOK, DirectUnshared
  <1>7. EntryShared'
    BY <1>1 DEF Client!OpenRejected, IInv, Client!TypeOK, EntryShared
  <1>8. LiveIsEntered'
    BY <1>1 DEF Client!OpenRejected, IInv, LiveIsEntered, Alive, Client!Alive
  <1>9. ASSUME NEW p \in udp' PROVE Owned(p)'
    BY <1>1 DEF Client!OpenRejected, IInv, Owned, AtWhileDialing,
                HandshakeHolds, EntryShared, LiveIsEntered, SocketOwned, Alive,
                Client!Alive, Entered, Client!Entered
  <1>10. QED
    BY <1>1, <1>2, <1>3, <1>4, <1>5, <1>6, <1>7, <1>8, <1>9
       DEF IInv, SocketOwned

LEMMA NextConnectionStep ==
    ASSUME IInv, NEW d \in Dialers, Client!NextConnection(d)
    PROVE  IInv'
  <1> USE TransportAssumption DEF Links, Client!Links
  <1>1. Client!TypeOK'
    BY DEF Client!NextConnection, IInv, Client!TypeOK
  <1>2. FreshUnshared'
    BY <1>1 DEF Client!NextConnection, IInv, Client!TypeOK, FreshUnshared
  <1>3. AtWhileDialing'
    BY <1>1 DEF Client!NextConnection, IInv, Client!TypeOK, AtWhileDialing
  <1>4. HandshakeHolds'
    BY <1>1 DEF Client!NextConnection, IInv, Client!TypeOK, HandshakeHolds
  <1>5. OwnHandshake'
    BY <1>1 DEF Client!NextConnection, IInv, Client!TypeOK, OwnHandshake
  <1>6. DirectUnshared'
    BY <1>1 DEF Client!NextConnection, IInv, Client!TypeOK, DirectUnshared
  <1>7. EntryShared'
    BY <1>1 DEF Client!NextConnection, IInv, Client!TypeOK, EntryShared
  <1>8. LiveIsEntered'
    BY <1>1 DEF Client!NextConnection, IInv, LiveIsEntered, Alive, Client!Alive
  <1>9. ASSUME NEW p \in udp' PROVE Owned(p)'
    BY <1>1 DEF Client!NextConnection, IInv, Owned, AtWhileDialing,
                OwnHandshake, EntryShared, LiveIsEntered, SocketOwned, Entered,
                Client!Entered
  <1>10. QED
    BY <1>1, <1>2, <1>3, <1>4, <1>5, <1>6, <1>7, <1>8, <1>9
       DEF IInv, SocketOwned

LEMMA LinkDiesStep ==
    ASSUME IInv, NEW q \in Links, Client!LinkDies(q)
    PROVE  IInv'
  <1> USE TransportAssumption DEF Links, Client!Links
  <1>1. Client!TypeOK'
    BY DEF Client!LinkDies, IInv, Client!TypeOK
  <1>2. FreshUnshared'
    BY <1>1 DEF Client!LinkDies, IInv, Client!TypeOK, FreshUnshared
  <1>3. AtWhileDialing'
    BY <1>1 DEF Client!LinkDies, IInv, Client!TypeOK, AtWhileDialing
  <1>4. HandshakeHolds'
    BY <1>1 DEF Client!LinkDies, IInv, HandshakeHolds, Client!Alive
  <1>5. OwnHandshake'
    BY <1>1 DEF Client!LinkDies, IInv, Client!TypeOK, OwnHandshake
  <1>6. DirectUnshared'
    BY <1>1 DEF Client!LinkDies, IInv, Client!TypeOK, DirectUnshared
  <1>7. EntryShared'
    BY <1>1 DEF Client!LinkDies, IInv, Client!TypeOK, EntryShared
  <1>8. LiveIsEntered'
    BY <1>1 DEF Client!LinkDies, IInv, LiveIsEntered, Alive, Client!Alive
  <1>9. ASSUME NEW p \in udp' PROVE Owned(p)'
    <2>1. Entered' = Entered
      BY DEF Client!LinkDies, Entered, Client!Entered
    <2>2. Owned(p)
      BY DEF Client!LinkDies, IInv, SocketOwned
    <2>3. QED
      BY <2>1, <2>2 DEF Client!LinkDies, Owned
  <1>10. QED
    BY <1>1, <1>2, <1>3, <1>4, <1>5, <1>6, <1>7, <1>8, <1>9
       DEF IInv, SocketOwned

LEMMA PoolCloseStep ==
    ASSUME IInv, Client!PoolClose
    PROVE  IInv'
  <1> USE TransportAssumption DEF Links, Client!Links
  <1>1. Client!TypeOK'
    BY DEF Client!PoolClose, IInv, Client!TypeOK
  <1>2. FreshUnshared'
    BY <1>1 DEF Client!PoolClose, IInv, Client!TypeOK, FreshUnshared
  <1>3. AtWhileDialing'
    BY <1>1 DEF Client!PoolClose, IInv, Client!TypeOK, AtWhileDialing
  <1>4. HandshakeHolds'
    BY <1>1 DEF Client!PoolClose, IInv, AtWhileDialing, HandshakeHolds,
                EntryShared, Client!Entered
  <1>5. OwnHandshake'
    BY <1>1 DEF Client!PoolClose, IInv, Client!TypeOK, OwnHandshake
  <1>6. DirectUnshared'
    BY <1>1 DEF Client!PoolClose, IInv, Client!TypeOK, DirectUnshared
  <1>7. EntryShared'
    BY <1>1 DEF Client!PoolClose, IInv, Client!TypeOK, EntryShared
  <1>8. LiveIsEntered'
    BY <1>1 DEF Client!PoolClose, IInv, Client!TypeOK, LiveIsEntered, Alive,
                Client!Alive, Client!Entered
  <1>9. ASSUME NEW p \in udp' PROVE Owned(p)'
    BY <1>1 DEF Client!PoolClose, IInv, Owned, SocketOwned, Entered
  <1>10. QED
    BY <1>1, <1>2, <1>3, <1>4, <1>5, <1>6, <1>7, <1>8, <1>9
       DEF IInv, SocketOwned

-----------------------------------------------------------------------------
(* The inductive invariant holds in every behaviour of the two ends: the   *)
(* listening end never touches the state of the dialling one.              *)
THEOREM SpecIInv == Spec => []IInv
  <1>1. Init => IInv
    BY InitIInv DEF Init
  <1>2. IInv /\ [Next]_vars => IInv'
    <2> SUFFICES ASSUME IInv, [Next]_vars PROVE IInv'
      OBVIOUS
    <2>1. ASSUME NEW d \in Dialers, Client!DirectDial(d) \/ Client!PoolDial(d)
          PROVE  IInv'
      BY <2>1, DirectDialStep, PoolDialStep
    <2>2. ASSUME NEW d \in Dialers, Handshake(d) PROVE IInv'
      BY <2>2, HandshakeOkStep DEF Handshake
    <2>3. ASSUME NEW d \in Dialers, ClientStep(d) PROVE IInv'
      BY <2>3, ReuseEntryStep, DialEntryStep, HandshakeFailsStep, OpenOkStep,
         OpenRejectedStep, NextConnectionStep, OpenFailsStep
         DEF ClientStep, Client!Lock, Client!DialEnds
    <2>4. ASSUME NEW q \in Links, Client!LinkDies(q) PROVE IInv'
      BY <2>4, LinkDiesStep
    <2>5. CASE Client!PoolClose
      BY <2>5, PoolCloseStep
    <2>6. CASE UNCHANGED dialVars
      BY <2>6, StutterIInv
    <2>7. CASE UNCHANGED vars
      BY <2>7, StutterIInv DEF vars
    <2>8. CASE Next
      BY <2>8, <2>1, <2>2, <2>3, <2>4, <2>5, <2>6
         DEF Next, HandlerStep, Write, AcceptLoopStep, AcceptorStep, CloseStep
    <2>9. QED
      BY <2>7, <2>8
  <1>3. QED
    BY <1>1, <1>2, PTL DEF Spec

(* The pool never has two living connections to one address (pool.go       *)
(* 13-15), for any number of sockets, addresses and failures.              *)
THEOREM TransportOneLinkPerAddress == Spec => []OneLinkPerAddress
  <1>1. IInv => OneLinkPerAddress
    BY DEF IInv, LiveIsEntered, OneLinkPerAddress, Client!OneLinkPerAddress,
           Alive, Client!Alive, Links, Client!Links
  <1>2. QED
    BY <1>1, SpecIInv, PTL

(* Every open UDP socket belongs to the pool, to a Dial in progress or to  *)
(* a stream that was handed out, on whichever path a Dial returns.         *)
THEOREM TransportNoSocketLeak == Spec => []NoSocketLeak
  <1>1. IInv => NoSocketLeak
    BY DEF IInv, SocketOwned, Owned, NoSocketLeak, Client!NoSocketLeak,
           Entered, Links
  <1>2. QED
    BY <1>1, SpecIInv, PTL

-----------------------------------------------------------------------------
(* The listening end. *)

LEMMA ServerInit == Server!Init => Server!TypeOK
  <1>1. <<>> \in Seq(Server!Stream) /\ Len(<<>>) = 0
    OBVIOUS
  <1>2. Server!Init => /\ acceptCh \in Seq(Server!Stream)
                       /\ Len(acceptCh) <= Backlog
    BY <1>1, TransportAssumption DEF Server!Init
  <1>3. Server!Init => used \in [Links -> Nat] /\ seen \in [Links -> Nat]
    BY DEF Server!Init, Links
  <1>4. Server!Init =>
          handler \in [Links -> {"none", "check", "wait", "offer", "done"}]
    BY DEF Server!Init, Links
  <1>5. QED
    BY <1>2, <1>3, <1>4 DEF Server!Init, Server!TypeOK, Links

(* The transport and the peers. *)
LEMMA ServerLinkTypes ==
    ASSUME Server!TypeOK, NEW q \in Links, NEW n \in Links,
           \/ Server!Arrive(q) \/ Server!BytesArrive(q, n)
           \/ Server!LinkLost(q) \/ Server!AcceptLink(q)
    PROVE  Server!TypeOK'
  <1> USE DEF Links, Server!TypeOK, Server!socketVars, Server!endVars
  <1>1. CASE Server!Arrive(q) \/ Server!BytesArrive(q, n)
    BY <1>1 DEF Server!Arrive, Server!BytesArrive
  <1>2. CASE Server!LinkLost(q) \/ Server!AcceptLink(q)
    BY <1>2 DEF Server!LinkLost, Server!AcceptLink
  <1>3. QED
    BY <1>1, <1>2

(* handleConn offers the streams it has seen, as long as there is room. *)
LEMMA ServerHandlerTypes ==
    ASSUME Server!TypeOK, NEW q \in Links, Server!HandlerStep(q)
    PROVE  Server!TypeOK'
  <1> USE DEF Links, Server!TypeOK, Server!linkVars, Server!socketVars,
              Server!endVars
  <1>1. CASE \/ Server!HandlerChecks(q) \/ Server!HandlerFails(q)
             \/ Server!Refuse(q)
    BY <1>1 DEF Server!HandlerChecks, Server!HandlerFails, Server!Refuse
  <1>2. CASE Server!AcceptStream(q)
    BY <1>2 DEF Server!AcceptStream, Server!NextStream
  <1>3. CASE Server!Offer(q)
    <2>1. <<q, seen[q]>> \in Server!Stream
      BY DEF Server!Stream
    <2>2. /\ acceptCh' \in Seq(Server!Stream)
          /\ Len(acceptCh') = Len(acceptCh) + 1
      BY <1>3, <2>1 DEF Server!Offer
    <2>3. Len(acceptCh') <= Backlog
      BY <1>3, <2>2, TransportAssumption DEF Server!Offer, Server!HasRoom
    <2>4. handler' \in [Links -> {"none", "check", "wait", "offer", "done"}]
      BY <1>3 DEF Server!Offer
    <2>5. QED
      BY <1>3, <2>2, <2>3, <2>4 DEF Server!Offer
  <1>4. QED
    BY <1>1, <1>2, <1>3 DEF Server!HandlerStep

(* socket.accept and the end of the listener. *)
LEMMA ServerEndTypes ==
    ASSUME Server!TypeOK,
           \/ Server!AcceptorStep \/ Server!AcceptLoopEnds \/ Server!Cancel
           \/ Server!CloseSignal \/ Server!CloseSockets
    PROVE  Server!TypeOK'
  <1> USE DEF Links, Server!TypeOK, Server!linkVars, Server!socketVars,
              Server!endVars
  <1>1. CASE Server!Accept
    <2>1. acceptCh \in Seq(Server!Stream) /\ acceptCh # <<>>
      BY <1>1 DEF Server!Accept
    <2>2. /\ Head(acceptCh) \in Server!Stream
          /\ Tail(acceptCh) \in Seq(Server!Stream)
          /\ Len(Tail(acceptCh)) <= Len(acceptCh)
          /\ Len(acceptCh) \in Nat /\ Len(Tail(acceptCh)) \in Nat
      BY <2>1
    <2>3. Len(Tail(acceptCh)) <= Backlog
      BY <2>2, TransportAssumption
    <2>4. acceptor' \in BOOLEAN
      BY <1>1 DEF Server!Accept
    <2>5. QED
      BY <1>1, <2>2, <2>3, <2>4 DEF Server!Accept
  <1>2. CASE \/ Server!AcceptorEnds \/ Server!AcceptLoopEnds \/ Server!Cancel
             \/ Server!CloseSignal \/ Server!CloseSockets
    BY <1>2 DEF Server!AcceptorEnds, Server!AcceptLoopEnds, Server!Cancel,
                Server!CloseSignal, Server!CloseSockets
  <1>3. QED
    BY <1>1, <1>2 DEF Server!AcceptorStep

(* Both ends keep to their types: in particular acceptCh never holds more  *)
(* streams than its capacity, however many connections offer some          *)
(* (transport_quic.go, quicListener).                                      *)
THEOREM TransportTypeCorrect == Spec => []TypeOK
  <1>1. Init => Server!TypeOK
    BY ServerInit DEF Init
  <1>2. IInv /\ Server!TypeOK /\ [Next]_vars => Server!TypeOK'
    <2> SUFFICES ASSUME IInv, Server!TypeOK, [Next]_vars PROVE Server!TypeOK'
      OBVIOUS
    <2>1. CASE UNCHANGED listenVars
      BY <2>1 DEF listenVars, Server!TypeOK
    <2>2. ASSUME NEW d \in Dialers, Handshake(d) PROVE Server!TypeOK'
      <3>1. CASE UNCHANGED listenVars
        BY <3>1, <2>1
      <3>2. CASE Server!Arrive(at[d])
        <4>1. at[d] \in Links
          BY <2>2 DEF Handshake, Client!HandshakeOk, IInv, AtWhileDialing
        <4>2. QED
          BY <3>2, <4>1, ServerLinkTypes
      <3>3. QED
        BY <2>2, <3>1, <3>2 DEF Handshake
    <2>3. ASSUME NEW q \in Links, HandlerStep(q) PROVE Server!TypeOK'
      BY <2>3, ServerHandlerTypes DEF HandlerStep
    <2>4. ASSUME NEW q \in Links, NEW n \in Links,
                 Write(q, n) \/ Server!LinkLost(q)
          PROVE  Server!TypeOK'
      BY <2>4, ServerLinkTypes DEF Write
    <2>5. CASE AcceptLoopStep
      BY <2>5, ServerLinkTypes, ServerEndTypes DEF AcceptLoopStep
    <2>6. CASE AcceptorStep \/ CloseStep \/ Server!Cancel
      BY <2>6, ServerEndTypes DEF AcceptorStep, CloseStep
    <2>7. CASE Next
      BY <2>7, <2>1, <2>2, <2>3, <2>4, <2>5, <2>6 DEF Next, ClientStep
    <2>8. CASE UNCHANGED vars
      BY <2>8, <2>1 DEF vars
    <2>9. QED
      BY <2>7, <2>8
  <1>3. IInv /\ Server!TypeOK => TypeOK
    BY DEF IInv, TypeOK
  <1>4. QED
    BY SpecIInv, <1>1, <1>2, <1>3, PTL DEF Spec

-----------------------------------------------------------------------------
(* What becomes of a stream. *)

Typed == IInv /\ Server!TypeOK

(* A link has no handler until its handshake is over and acceptLoop has    *)
(* taken it, so that no link gets a second one; and the listening end is   *)
(* never ahead of the dialling one.                                        *)
LinkProgress(q) ==
    /\ link[q] \in {"none", "dialing"} => q \notin queue /\ handler[q] = "none"
    /\ q \in queue => handler[q] = "none"
    /\ handler[q] = "offer" => seen[q] # 0
    /\ seen[q] <= used[q] /\ used[q] <= opened[q]

Progress == \A q \in Links : LinkProgress(q)

(* The streams of q that have been offered to acceptCh. *)
Offered(q) == IF handler[q] = "offer" THEN seen[q] - 1 ELSE seen[q]

Placed ==
    \A s \in Links \X Nat :
        s \in accepted \/ Server!InChannel(s) => s[2] \in 1 .. Offered(s[1])

ChannelInOrder ==
    \A i, j \in 1 .. Len(acceptCh) :
        i < j /\ acceptCh[i][1] = acceptCh[j][1] => acceptCh[i][2] < acceptCh[j][2]

Delivery == Placed /\ ChannelInOrder /\ Server!NoStreamLost

LEMMA InitDelivery == Init => Progress /\ Delivery
  <1> SUFFICES ASSUME Init PROVE Progress /\ Delivery
    OBVIOUS
  <1>1. Progress
    BY DEF Init, Client!Init, Server!Init, Progress, LinkProgress, Links,
           Client!Links
  <1>2. acceptCh = <<>> /\ accepted = {} /\ \A q \in Links : seen[q] = 0
    BY DEF Init, Server!Init, Links
  <1>3. Placed /\ ChannelInOrder
    BY <1>2 DEF Placed, ChannelInOrder, Server!InChannel
  <1>4. Server!NoStreamLost
    BY <1>2 DEF Server!NoStreamLost, Server!InChannel, Links
  <1>5. QED
    BY <1>1, <1>3, <1>4 DEF Delivery

LEMMA TailIsRest ==
    ASSUME NEW S, NEW q \in Seq(S), q # <<>>
    PROVE  /\ Head(q) = q[1] /\ Head(q) \in S /\ 1 \in 1 .. Len(q)
           /\ Tail(q) \in Seq(S) /\ Len(Tail(q)) = Len(q) - 1
           /\ \A i \in 1 .. Len(Tail(q)) : Tail(q)[i] = q[i + 1]
  OBVIOUS

LEMMA AppendIsLonger ==
    ASSUME NEW S, NEW q \in Seq(S), NEW x \in S
    PROVE  /\ Append(q, x) \in Seq(S) /\ Len(Append(q, x)) = Len(q) + 1
           /\ \A i \in 1 .. Len(q) : Append(q, x)[i] = q[i]
           /\ Append(q, x)[Len(q) + 1] = x
  OBVIOUS

(* Where the dialling end is on a link only moves on. *)
LEMMA DialProgress ==
    ASSUME Typed, Progress, UNCHANGED listenVars,
           \/ \E d \in Dialers :
                \/ Client!DirectDial(d) \/ Client!PoolDial(d)
                \/ Client!HandshakeOk(d) \/ ClientStep(d)
           \/ \E p \in Links : Client!LinkDies(p)
           \/ Client!PoolClose
    PROVE  Progress'
  <1> USE DEF Typed, IInv, Client!TypeOK, Links, Client!Links
  <1> SUFFICES ASSUME NEW q \in Links PROVE LinkProgress(q)'
    BY DEF Progress
  <1>1. LinkProgress(q) /\ UNCHANGED <<queue, handler, seen, used>>
    BY DEF Progress, listenVars
  <1>2. link'[q] \in {"none", "dialing"} => link[q] \in {"none", "dialing"}
    <2>1. CASE \E d \in Dialers : Client!DirectDial(d) \/ Client!PoolDial(d)
      BY <2>1 DEF Client!DirectDial, Client!PoolDial, Client!StartHandshake,
                  Client!IsNew
    <2>2. CASE \E d \in Dialers : ClientStep(d)
      BY <2>2 DEF ClientStep, Client!Lock, Client!ReuseEntry,
                  Client!DialEntry, Client!DialEnds, Client!HandshakeFails,
                  Client!OpenOk, Client!OpenRejected, Client!NextConnection,
                  Client!OpenFails, Client!StartHandshake, Client!IsNew
    <2>3. CASE \/ \E d \in Dialers : Client!HandshakeOk(d)
               \/ \E p \in Links : Client!LinkDies(p)
               \/ Client!PoolClose
      BY <2>3 DEF Client!HandshakeOk, Client!DialEnds, Client!LinkDies,
                  Client!PoolClose
    <2>4. QED
      BY <2>1, <2>2, <2>3
  <1>3. opened'[q] \in Nat /\ opened[q] <= opened'[q]
    <2>1. CASE UNCHANGED opened
      BY <2>1
    <2>2. CASE \E d \in Dialers : Client!OpenOk(d)
      BY <2>2 DEF Client!OpenOk
    <2>3. QED
      BY <2>1, <2>2
         DEF Client!DirectDial, Client!PoolDial, Client!HandshakeOk, ClientStep,
             Client!Lock, Client!ReuseEntry, Client!DialEntry, Client!DialEnds,
             Client!HandshakeFails, Client!OpenRejected, Client!NextConnection,
             Client!OpenFails, Client!LinkDies, Client!PoolClose
  <1>4. seen[q] \in Nat /\ used[q] \in Nat /\ opened[q] \in Nat
    BY DEF Server!TypeOK
  <1>5. QED
    BY <1>1, <1>2, <1>3, <1>4 DEF LinkProgress

(* The listening end never gets ahead of it; a link that arrives is new. *)
LEMMA ListenProgress ==
    ASSUME Typed, Progress,
           \/ \E p, n \in Links : Write(p, n)
           \/ \E p \in Links : Server!LinkLost(p) /\ UNCHANGED dialVars
           \/ \E p \in Links : HandlerStep(p)
           \/ AcceptLoopStep \/ AcceptorStep \/ CloseStep
           \/ Server!Cancel /\ UNCHANGED dialVars
    PROVE  Progress'
  <1> USE DEF Typed, IInv, Client!TypeOK, Server!TypeOK, Links, Client!Links,
              dialVars, Server!linkVars, Server!socketVars, Server!endVars
  <1> SUFFICES ASSUME NEW q \in Links PROVE LinkProgress(q)'
    BY DEF Progress
  <1>1. LinkProgress(q) /\ UNCHANGED <<link, opened>>
    BY DEF Progress, Write, HandlerStep, AcceptLoopStep, AcceptorStep, CloseStep
  <1>2. ASSUME NEW p \in Links, NEW n \in Links, Write(p, n)
        PROVE  LinkProgress(q)'
    <2>1. /\ n <= opened[p] /\ n > used[p] /\ used' = [used EXCEPT ![p] = n]
          /\ UNCHANGED <<queue, handler, seen>>
      BY <1>2 DEF Write, Server!BytesArrive
    <2>2. QED
      BY <1>1, <2>1 DEF LinkProgress
  <1>3. CASE UNCHANGED <<queue, handler, seen, used>>
    BY <1>1, <1>3 DEF LinkProgress
  <1>4. ASSUME NEW p \in Links, Server!AcceptLink(p) PROVE LinkProgress(q)'
    BY <1>1, <1>4 DEF Server!AcceptLink, LinkProgress, Progress
  <1>5. ASSUME NEW p \in Links, HandlerStep(p) PROVE LinkProgress(q)'
    <2>1. CASE Server!AcceptStream(p)
      BY <1>1, <2>1 DEF Server!AcceptStream, Server!NextStream, LinkProgress
    <2>2. CASE \/ Server!HandlerChecks(p) \/ Server!HandlerFails(p)
               \/ Server!Offer(p) \/ Server!Refuse(p)
      BY <1>1, <2>2 DEF Server!HandlerChecks, Server!HandlerFails, Server!Offer,
                        Server!Refuse, LinkProgress
    <2>3. QED
      BY <1>5, <2>1, <2>2 DEF HandlerStep, Server!HandlerStep
  <1>6. CASE AcceptorStep \/ CloseStep \/ Server!Cancel \/ Server!AcceptLoopEnds
    BY <1>3, <1>6 DEF AcceptorStep, CloseStep, Server!AcceptorStep, Server!Accept,
                      Server!AcceptorEnds, Server!CloseSignal, Server!CloseSockets,
                      Server!Cancel, Server!AcceptLoopEnds
  <1>7. ASSUME NEW p \in Links, Server!LinkLost(p) PROVE LinkProgress(q)'
    BY <1>3, <1>7 DEF Server!LinkLost
  <1>8. QED
    BY <1>2, <1>4, <1>5, <1>6, <1>7 DEF AcceptLoopStep

LEMMA HandshakeProgress ==
    ASSUME Typed, Progress, NEW d \in Dialers, Handshake(d)
    PROVE  Progress'
  <1> USE DEF Typed, IInv, Client!TypeOK, Server!TypeOK, Links, Client!Links
  <1>1. Client!HandshakeOk(d)
    BY DEF Handshake
  <1>2. CASE UNCHANGED listenVars
    BY <1>1, <1>2, DialProgress
  <1>3. CASE Server!Arrive(at[d])
    <2> SUFFICES ASSUME NEW q \in Links PROVE LinkProgress(q)'
      BY DEF Progress
    <2>1. /\ at[d] \in Links /\ link[at[d]] = "dialing"
          /\ UNCHANGED opened
          /\ \E s \in {"up", "rejected"} : link' = [link EXCEPT ![at[d]] = s]
      BY <1>1 DEF Client!HandshakeOk, AtWhileDialing, HandshakeHolds
    <2>2. queue' = queue \union {at[d]} /\ UNCHANGED <<handler, seen, used>>
      BY <1>3 DEF Server!Arrive
    <2>3. LinkProgress(q) /\ LinkProgress(at[d])
      BY <2>1 DEF Progress
    <2>4. QED
      BY <2>1, <2>2, <2>3 DEF LinkProgress
  <1>4. QED
    BY <1>2, <1>3 DEF Handshake

LEMMA ProgressStep == Typed /\ Progress /\ [Next]_vars => Progress'
  <1> SUFFICES ASSUME Typed, Progress, [Next]_vars PROVE Progress'
    OBVIOUS
  <1>1. CASE UNCHANGED vars
    BY <1>1 DEF vars, dialVars, listenVars, Progress, LinkProgress
  <1>2. CASE Next
    BY <1>2, DialProgress, ListenProgress, HandshakeProgress DEF Next, ClientStep
  <1>3. QED
    BY <1>1, <1>2

(* Steps that move no stream. *)
LEMMA NothingMoved ==
    ASSUME Delivery, UNCHANGED <<seen, acceptCh, accepted>>, closed => closed',
           \A q \in Links :
               /\ handler[q] = "offer" <=> handler'[q] = "offer"
               /\ handler[q] = "done" => handler'[q] = "done"
    PROVE  Delivery'
  <1>1. \A s : Server!InChannel(s) <=> Server!InChannel(s)'
    BY DEF Server!InChannel
  <1>2. \A q \in Links : Offered(q)' = Offered(q)
    BY DEF Offered
  <1>3. Placed'
    BY <1>1, <1>2 DEF Delivery, Placed
  <1>4. ChannelInOrder'
    BY DEF Delivery, ChannelInOrder
  <1>5. Server!NoStreamLost'
    BY <1>1 DEF Delivery, Server!NoStreamLost, Links
  <1>6. QED
    BY <1>3, <1>4, <1>5 DEF Delivery

LEMMA HandlerDelivery ==
    ASSUME Typed, Progress, Delivery, NEW p \in Links, Server!HandlerStep(p)
    PROVE  Delivery'
  <1> USE DEF Typed, Server!TypeOK, Links, Server!linkVars, Server!socketVars,
              Server!endVars
  <1>1. CASE Server!HandlerChecks(p) \/ Server!HandlerFails(p)
    BY <1>1, NothingMoved DEF Server!HandlerChecks, Server!HandlerFails
  <1>2. CASE Server!Refuse(p)
    <2>1. /\ handler[p] = "offer" /\ handler' = [handler EXCEPT ![p] = "done"]
          /\ closed /\ UNCHANGED <<seen, acceptCh, accepted, closed>>
      BY <1>2 DEF Server!Refuse, Server!MayRefuse
    <2>2. \A s : Server!InChannel(s) <=> Server!InChannel(s)'
      BY <2>1 DEF Server!InChannel
    <2>3. \A q \in Links : Offered(q) <= Offered(q)' /\ Offered(q) \in Int /\ Offered(q)' \in Int
      BY <2>1 DEF Offered
    <2>4. Placed'
      BY <2>1, <2>2, <2>3 DEF Delivery, Placed
    <2>5. ChannelInOrder'
      BY <2>1 DEF Delivery, ChannelInOrder
    <2>6. Server!NoStreamLost'
      BY <2>1, <2>2 DEF Delivery, Server!NoStreamLost
    <2>7. QED
      BY <2>4, <2>5, <2>6 DEF Delivery
  <1>3. CASE Server!AcceptStream(p)
    <2>1. /\ handler[p] = "wait" /\ handler' = [handler EXCEPT ![p] = "offer"]
          /\ seen' = [seen EXCEPT ![p] = seen[p] + 1]
          /\ UNCHANGED <<acceptCh, accepted, closed>>
      BY <1>3 DEF Server!AcceptStream, Server!NextStream
    <2>2. \A s : Server!InChannel(s) <=> Server!InChannel(s)'
      BY <2>1 DEF Server!InChannel
    <2>3. \A q \in Links : Offered(q)' = Offered(q)
      BY <2>1 DEF Offered
    <2>4. Placed'
      BY <2>1, <2>2, <2>3 DEF Delivery, Placed
    <2>5. ChannelInOrder'
      BY <2>1 DEF Delivery, ChannelInOrder
    <2>6. \A q \in Links : \A n \in 1 .. seen'[q] :
             \/ n \in 1 .. seen[q] /\ (q # p \/ n # seen'[q])
             \/ q = p /\ n = seen'[q] /\ handler'[q] = "offer"
      BY <2>1
    <2>7. Server!NoStreamLost'
      BY <2>1, <2>2, <2>6 DEF Delivery, Server!NoStreamLost
    <2>8. QED
      BY <2>4, <2>5, <2>7 DEF Delivery
  <1>4. CASE Server!Offer(p)
    <2> DEFINE s == <<p, seen[p]>>
               k == Len(acceptCh) + 1
    <2>1. /\ handler[p] = "offer" /\ handler' = [handler EXCEPT ![p] = "check"]
          /\ acceptCh' = Append(acceptCh, s)
          /\ UNCHANGED <<seen, accepted, closed>>
      BY <1>4 DEF Server!Offer
    <2>2. /\ acceptCh \in Seq(Server!Stream) /\ s \in Server!Stream
          /\ seen[p] \in Nat \ {0} /\ Len(acceptCh) \in Nat
      BY <2>1 DEF Server!Stream, Progress, LinkProgress
    <2>3. /\ Len(acceptCh') = k /\ acceptCh'[k] = s
          /\ \A i \in 1 .. Len(acceptCh) : acceptCh'[i] = acceptCh[i]
      BY <2>1, <2>2, AppendIsLonger
    <2>4. ASSUME NEW x
          PROVE  Server!InChannel(x)' <=> Server!InChannel(x) \/ x = s
      <3>1. \A i : i \in 1 .. k <=> i \in 1 .. Len(acceptCh) \/ i = k
        BY <2>2
      <3>2. Server!InChannel(x)' <=> \E i \in 1 .. k : acceptCh'[i] = x
        BY <2>3 DEF Server!InChannel
      <3> HIDE DEF k, s
      <3>3. QED
        BY <2>3, <3>1, <3>2 DEF Server!InChannel
    <2>5. \A q \in Links : Offered(q)' = IF q = p THEN seen[p] ELSE Offered(q)
      BY <2>1 DEF Offered
    <2>6. Offered(p) = seen[p] - 1
      BY <2>1 DEF Offered
    <2> HIDE DEF s
    <2>7. s[1] = p /\ s[2] = seen[p]
      BY DEF s
    <2>8. \A x \in Server!Stream :
             x \in accepted \/ Server!InChannel(x) => x[2] \in 1 .. Offered(x[1])
      BY DEF Delivery, Placed, Server!Stream
    <2>9. s \notin accepted /\ ~Server!InChannel(s)
      BY <2>2, <2>6, <2>7, <2>8
    <2>10. Placed'
      <3> SUFFICES ASSUME NEW x \in Server!Stream,
                          x \in accepted \/ Server!InChannel(x) \/ x = s
                   PROVE  x[2] \in 1 .. Offered(x[1])'
        BY <2>1, <2>4 DEF Placed, Server!Stream
      <3>1. x[1] \in Links /\ x[2] \in Nat
        BY DEF Server!Stream
      <3>2. CASE x = s
        BY <2>2, <2>5, <2>7, <3>1, <3>2
      <3>3. CASE x # s
        <4>1. x[2] \in 1 .. Offered(x[1])
          BY <2>8, <3>3
        <4>2. QED
          BY <2>2, <2>5, <2>6, <3>1, <4>1
      <3>4. QED
        BY <3>2, <3>3
    <2>11. ChannelInOrder'
      <3> SUFFICES ASSUME NEW i \in 1 .. k, NEW j \in 1 .. k, i < j,
                          acceptCh'[i][1] = acceptCh'[j][1]
                   PROVE  acceptCh'[i][2] < acceptCh'[j][2]
        BY <2>3 DEF ChannelInOrder
      <3>1. i \in 1 .. Len(acceptCh) /\ acceptCh'[i] = acceptCh[i]
        BY <2>2, <2>3
      <3>2. CASE j # k
        BY <2>2, <2>3, <3>1, <3>2 DEF Delivery, ChannelInOrder
      <3>3. CASE j = k
        <4>1. acceptCh[i] \in Server!Stream /\ acceptCh[i][1] = p
          BY <2>2, <2>3, <2>7, <3>1, <3>3
        <4>2. acceptCh[i][2] \in 1 .. seen[p] - 1
          BY <2>6, <2>8, <3>1, <4>1 DEF Server!InChannel
        <4>3. QED
          BY <2>2, <2>3, <2>7, <3>1, <3>3, <4>2
      <3>4. QED
        BY <3>2, <3>3
    <2>12. Server!NoStreamLost'
      <3>1. \A i, j \in 1 .. k : acceptCh'[i] = acceptCh'[j] => i = j
        <4>1. \A i \in 1 .. Len(acceptCh) : acceptCh[i] # s
          BY <2>9 DEF Server!InChannel
        <4>2. QED
          BY <2>2, <2>3, <4>1 DEF Delivery, Server!NoStreamLost
      <3>2. \A q \in Links : \A n \in 1 .. seen[q] :
              \/ <<q, n>> \in accepted \/ Server!InChannel(<<q, n>>)'
              \/ n = seen[q] /\ handler'[q] = "offer"
              \/ n = seen[q] /\ handler'[q] = "done" /\ closed
        BY <2>1, <2>4 DEF s, Delivery, Server!NoStreamLost
      <3>3. \A x \in accepted :
              ~Server!InChannel(x)' /\ \A m \in 1 .. x[2] : <<x[1], m>> \in accepted
        BY <2>4, <2>9 DEF Delivery, Server!NoStreamLost
      <3>4. QED
        BY <2>1, <2>3, <3>1, <3>2, <3>3 DEF Server!NoStreamLost
    <2>13. QED
      BY <2>10, <2>11, <2>12 DEF Delivery
  <1>5. QED
    BY <1>1, <1>2, <1>3, <1>4 DEF Server!HandlerStep

(* What the socket takes next is the first of its link in the channel, and *)
(* everything before it on the link is there already.                      *)
LEMMA AcceptDelivery ==
    ASSUME Typed, Progress, Delivery, Server!Accept
    PROVE  Delivery'
  <1> USE DEF Typed, Server!TypeOK, Links, Server!linkVars, Server!endVars
  <1> DEFINE k == Len(acceptCh) - 1
  <1>1. /\ acceptCh \in Seq(Server!Stream) /\ acceptCh # <<>>
        /\ acceptCh' = Tail(acceptCh)
        /\ UNCHANGED <<handler, seen, closed>>
    BY DEF Server!Accept
  <1>0. PICK h \in Server!Stream : h = acceptCh[1]
    BY <1>1, TailIsRest
  <1>2. /\ Len(acceptCh') = k /\ Len(acceptCh) \in Nat \ {0}
        /\ \A i \in 1 .. k : acceptCh'[i] = acceptCh[i + 1]
    BY <1>1, TailIsRest
  <1>3. accepted' = accepted \union {h}
    BY <1>0, <1>1, TailIsRest DEF Server!Accept
  <1>4. \A i \in 1 .. k : i + 1 \in 1 .. Len(acceptCh) /\ i + 1 # 1
    BY <1>2
  <1>5. \A i \in 1 .. Len(acceptCh) :
          i = 1 \/ (i - 1 \in 1 .. k /\ i = (i - 1) + 1)
    BY <1>2
  <1>6. Server!InChannel(h)
    BY <1>0, <1>2 DEF Server!InChannel
  <1>7. ~Server!InChannel(h)'
    <2>1. \A i \in 1 .. k : acceptCh'[i] # h
      BY <1>0, <1>2, <1>4 DEF Delivery, Server!NoStreamLost
    <2>2. QED
      BY <1>2, <2>1 DEF Server!InChannel
  <1>8. ASSUME NEW x
        PROVE  /\ Server!InChannel(x)' => Server!InChannel(x)
               /\ Server!InChannel(x) => Server!InChannel(x)' \/ x = h
    <2>1. Server!InChannel(x)' <=> \E i \in 1 .. k : acceptCh'[i] = x
      BY <1>2 DEF Server!InChannel
    <2>2. Server!InChannel(x) <=> \E i \in 1 .. Len(acceptCh) : acceptCh[i] = x
      BY DEF Server!InChannel
    <2>3. Server!InChannel(x)' => Server!InChannel(x)
      BY <1>2, <1>4, <2>1, <2>2
    <2>4. ASSUME NEW i \in 1 .. Len(acceptCh), acceptCh[i] = x, x # h
          PROVE  Server!InChannel(x)'
      <3>1. i - 1 \in 1 .. k /\ i = (i - 1) + 1
        BY <1>0, <1>5, <2>4
      <3>2. acceptCh'[i - 1] = x
        BY <1>2, <2>4, <3>1
      <3>3. QED
        BY <2>1, <3>1, <3>2
    <2>5. QED
      BY <2>2, <2>3, <2>4
  <1>9. Placed'
    <2>1. \A q : Offered(q)' = Offered(q)
      BY <1>1 DEF Offered
    <2>2. QED
      BY <1>1, <1>3, <1>6, <1>8, <2>1 DEF Delivery, Placed
  <1>10. ChannelInOrder'
    <2>1. \A i, j \in 1 .. k : i < j => i + 1 < j + 1
      BY <1>2
    <2>2. QED
      BY <1>2, <1>4, <2>1 DEF Delivery, ChannelInOrder
  <1>11. Server!NoStreamLost'
    <2>1. \A i, j \in 1 .. k : acceptCh'[i] = acceptCh'[j] => i = j
      BY <1>2, <1>4 DEF Delivery, Server!NoStreamLost
    <2>2. ASSUME NEW q \in Links, NEW n \in 1 .. seen[q]
          PROVE  \/ <<q, n>> \in accepted' \/ Server!InChannel(<<q, n>>)'
                 \/ n = seen[q] /\ handler[q] = "offer"
                 \/ n = seen[q] /\ handler[q] = "done" /\ closed
      BY <1>3, <1>8 DEF Delivery, Server!NoStreamLost
    <2>3. ASSUME NEW x \in accepted'
          PROVE  ~Server!InChannel(x)'
      BY <1>3, <1>7, <1>8, <2>3 DEF Delivery, Server!NoStreamLost
    <2>4. ASSUME NEW m \in 1 .. h[2]
          PROVE  <<h[1], m>> \in accepted'
      <3>1. h[1] \in Links /\ h[2] \in Nat /\ h = <<h[1], h[2]>>
        BY <1>2 DEF Server!Stream
      <3>2. h[2] \in 1 .. Offered(h[1])
        BY <1>2, <1>6 DEF Delivery, Placed, Server!Stream
      <3>3. CASE m = h[2]
        BY <1>3, <3>1, <3>3
      <3>4. CASE m # h[2]
        <4>1. m \in 1 .. seen[h[1]] /\ m # seen[h[1]] /\ m < h[2]
          BY <3>1, <3>2, <3>4 DEF Offered
        <4>2. <<h[1], m>> \in accepted \/ Server!InChannel(<<h[1], m>>)
          BY <3>1, <4>1 DEF Delivery, Server!NoStreamLost
        <4>3. ~Server!InChannel(<<h[1], m>>)
          <5> SUFFICES ASSUME NEW i \in 1 .. Len(acceptCh),
                              acceptCh[i] = <<h[1], m>>
                       PROVE  FALSE
            BY DEF Server!InChannel
          <5>1. i # 1
            BY <1>0, <3>1, <4>1
          <5>2. acceptCh[1][2] < acceptCh[i][2]
            <6>1. 1 \in 1 .. Len(acceptCh) /\ 1 < i
              BY <1>2, <5>1
            <6>2. acceptCh[1][1] = acceptCh[i][1]
              BY <1>0, <3>1
            <6>3. QED
              BY <6>1, <6>2 DEF Delivery, ChannelInOrder
          <5>3. QED
            BY <1>0, <3>1, <4>1, <5>2
        <4>4. QED
          BY <1>3, <4>2, <4>3
      <3>5. QED
        BY <3>3, <3>4
    <2>5. \A x \in accepted' : \A m \in 1 .. x[2] : <<x[1], m>> \in accepted'
      BY <1>3, <2>4 DEF Delivery, Server!NoStreamLost
    <2>6. QED
      BY <1>1, <1>2, <2>1, <2>2, <2>3, <2>5 DEF Server!NoStreamLost
  <1>12. QED
    BY <1>9, <1>10, <1>11 DEF Delivery

LEMMA DeliveryStep == Typed /\ Progress /\ Delivery /\ [Next]_vars => Delivery'
  <1> SUFFICES ASSUME Typed, Progress, Delivery, [Next]_vars PROVE Delivery'
    OBVIOUS
  <1> USE DEF Typed, Server!TypeOK, Links, Server!linkVars, Server!socketVars,
              Server!endVars
  <1>1. CASE UNCHANGED listenVars
    BY <1>1, NothingMoved DEF listenVars
  <1>2. ASSUME NEW q \in Links,
               \/ Server!Arrive(q) \/ Server!LinkLost(q)
               \/ \E n \in Links : Server!BytesArrive(q, n)
        PROVE  Delivery'
    BY <1>2, NothingMoved DEF Server!Arrive, Server!LinkLost, Server!BytesArrive
  <1>3. ASSUME NEW q \in Links, Server!AcceptLink(q) PROVE Delivery'
    <2>1. handler[q] = "none" /\ handler' = [handler EXCEPT ![q] = "check"]
      BY <1>3 DEF Server!AcceptLink, Progress, LinkProgress
    <2>2. QED
      BY <1>3, <2>1, NothingMoved DEF Server!AcceptLink
  <1>4. CASE \/ Server!AcceptLoopEnds \/ Server!AcceptorEnds \/ Server!Cancel
             \/ Server!CloseSignal \/ Server!CloseSockets
    BY <1>4, NothingMoved
       DEF Server!AcceptLoopEnds, Server!AcceptorEnds, Server!Cancel,
           Server!CloseSignal, Server!CloseSockets
  <1>5. ASSUME NEW q \in Links, HandlerStep(q) PROVE Delivery'
    BY <1>5, HandlerDelivery DEF HandlerStep
  <1>6. CASE AcceptorStep
    BY <1>4, <1>6, AcceptDelivery DEF AcceptorStep, Server!AcceptorStep
  <1>7. ASSUME NEW d \in Dialers, Handshake(d) PROVE Delivery'
    <2>1. at[d] \in Links
      BY <1>7 DEF Handshake, Client!HandshakeOk, IInv, AtWhileDialing
    <2>2. QED
      BY <1>1, <1>2, <1>7, <2>1 DEF Handshake
  <1>8. CASE Next
    BY <1>1, <1>2, <1>3, <1>4, <1>5, <1>6, <1>7, <1>8
       DEF Next, ClientStep, Write, AcceptLoopStep, CloseStep
  <1>9. QED
    BY <1>1, <1>8 DEF vars

(* The listening socket gets the streams of a link each once, without a    *)
(* gap and in the order in which sockets opened them, and no other; what   *)
(* handleConn has taken is lost on Close only (transport_quic.go, 270-297  *)
(* and 299-309), for any dialers, links, failures and capacity.            *)
THEOREM TransportNoStreamLost == Spec => []NoStreamLost
  <1>1. Spec => []Typed
    <2>1. IInv /\ TypeOK => Typed
      BY DEF Typed, TypeOK
    <2>2. QED
      BY <2>1, SpecIInv, TransportTypeCorrect, PTL
  <1>2. Typed /\ Progress /\ Delivery => NoStreamLost
    <2> SUFFICES ASSUME Typed, Progress, Delivery, NEW s \in accepted
                 PROVE  s[2] <= opened[s[1]]
      BY DEF NoStreamLost, Delivery
    <2> USE DEF Typed, IInv, Server!TypeOK, Client!TypeOK, Links, Client!Links
    <2>1. s \in Links \X Nat
      BY DEF Server!Stream
    <2>2. s[1] \in Links /\ s[2] \in 1 .. Offered(s[1])
      BY <2>1 DEF Delivery, Placed
    <2>3. seen[s[1]] <= used[s[1]] /\ used[s[1]] <= opened[s[1]]
      BY <2>2 DEF Progress, LinkProgress
    <2>4. QED
      BY <2>2, <2>3 DEF Offered
  <1>3. QED
    BY <1>1, <1>2, InitDelivery, ProgressStep, DeliveryStep, PTL DEF Spec

=============================================================================
