------------------------------ MODULE Dialing ------------------------------
(***************************************************************************)
(* How a socket gets a stream to its peer: quicTransport.Dial, which makes *)
(* a QUIC connection of its own (transport_quic.go), and                   *)
(* ConnectionPool.Dial, which shares one per address among the sockets     *)
(* that use the pool (pool.go).                                            *)
(*                                                                         *)
(* A link is a QUIC connection as this end sees it.  It is "rejected" when *)
(* its handshake is complete but the server refused the 0-RTT data: it is  *)
(* alive, and opens streams only after NextConnection.  The pool's mutex   *)
(* is held from the lookup of an address to the end of the handshake.      *)
(***************************************************************************)
EXTENDS Integers

CONSTANTS
    Dialers,     \* goroutines that call Dial
    Pooled,      \* those that dial through the pool
    Addrs,       \* addresses
    Endpoint,    \* per dialer: the address of its socket's endpoint
    MaxDials,    \* bound: calls of Dial, each of which makes one link at most
    NoAddr,      \* a link that is not shared
    NoLink,      \* no entry in the map
    NoDialer     \* the pool's mutex is free

VARIABLES
    mu,          \* ConnectionPool.mu: who holds it
    entries,     \* ConnectionPool.entries
    link,        \* per link: "none", "dialing", "up", "rejected" or "dead"
    shared,      \* per link: the address the pool dialled it to, or NoAddr
    udp,         \* links whose UDP socket is open
    opened,      \* per link: streams opened on it
    pc, at,      \* per dialer: where it is, and its link
    dials        \* calls of Dial so far

dialVars == <<mu, entries, link, shared, udp, opened, pc, at, dials>>

Links == 1 .. MaxDials
Alive == {q \in Links : link[q] \in {"up", "rejected"}}

TypeOK ==
    /\ mu \in Dialers \union {NoDialer}
    /\ entries \in [Addrs -> Links \union {NoLink}]
    /\ link \in [Links -> {"none", "dialing", "up", "rejected", "dead"}]
    /\ shared \in [Links -> Addrs \union {NoAddr}]
    /\ udp \subseteq Links
    /\ opened \in [Links -> Nat]
    /\ pc \in [Dialers -> {"idle", "lock", "handshake", "open", "next", "reopen"}]
    /\ at \in [Dialers -> Links \union {NoLink}]
    /\ dials \in 0 .. MaxDials

Init ==
    /\ mu = NoDialer
    /\ entries = [a \in Addrs |-> NoLink]
    /\ link = [q \in Links |-> "none"]
    /\ shared = [q \in Links |-> NoAddr]
    /\ udp = {}
    /\ opened = [q \in Links |-> 0]
    /\ pc = [d \in Dialers |-> "idle"]
    /\ at = [d \in Dialers |-> NoLink]
    /\ dials = 0

-----------------------------------------------------------------------------
(* The link that is dialled next. *)
IsNew(q) == link[q] = "none" /\ \A p \in Links : p < q => link[p] # "none"

(* Dial returns. *)
Return(d) ==
    /\ pc' = [pc EXCEPT ![d] = "idle"]
    /\ at' = [at EXCEPT ![d] = NoLink]

(* ListenUDP and DialEarly: the handshake begins on a socket of its own.   *)
StartHandshake(d, q) ==
    /\ IsNew(q)
    /\ link' = [link EXCEPT ![q] = "dialing"]
    /\ at' = [at EXCEPT ![d] = q]
    /\ pc' = [pc EXCEPT ![d] = "handshake"]

Call(d) ==
    /\ pc[d] = "idle"
    /\ dials < MaxDials
    /\ dials' = dials + 1

(* quicTransport.Dial *)
DirectDial(d) ==
    /\ d \notin Pooled
    /\ Call(d)
    /\ \E q \in Links : StartHandshake(d, q) /\ udp' = udp \union {q}
    /\ UNCHANGED <<mu, entries, shared, opened>>

(* ConnectionPool.Dial, as far as the mutex. *)
PoolDial(d) ==
    /\ d \in Pooled
    /\ Call(d)
    /\ pc' = [pc EXCEPT ![d] = "lock"]
    /\ UNCHANGED <<mu, entries, link, shared, udp, opened, at>>

(* entry.qconn.Context() is not done. *)
HasLiveEntry(a) == entries[a] # NoLink /\ entries[a] \in Alive

(* Fault variant: the mutex is released before the handshake. *)
HoldNot(d) == NoDialer

HoldDuringHandshake(d) == d

(* The pool has a live connection: the mutex is released at once. *)
ReuseEntry(d) ==
    /\ pc[d] = "lock"
    /\ mu = NoDialer
    /\ HasLiveEntry(Endpoint[d])
    /\ at' = [at EXCEPT ![d] = entries[Endpoint[d]]]
    /\ pc' = [pc EXCEPT ![d] = "open"]
    /\ UNCHANGED <<mu, entries, link, shared, udp, opened, dials>>

(* The pool has none, or a dead one whose socket is closed: dial anew. *)
DialEntry(d) ==
    /\ pc[d] = "lock"
    /\ mu = NoDialer
    /\ ~HasLiveEntry(Endpoint[d])
    /\ mu' = HoldDuringHandshake(d)
    /\ entries' = [entries EXCEPT ![Endpoint[d]] = NoLink]
    /\ \E q \in Links :
         /\ StartHandshake(d, q)
         /\ shared' = [shared EXCEPT ![q] = Endpoint[d]]
         /\ udp' = (udp \ {entries[Endpoint[d]]}) \union {q}
    /\ UNCHANGED <<opened, dials>>

(* Only the handshake's own dialer unlocks. *)
Unlocked(d) == IF mu = d THEN NoDialer ELSE mu


UnlockedOnError(d) == Unlocked(d)

(* HandshakeComplete fires; the server may have refused early data. *)
HandshakeOk(d) ==
    /\ pc[d] = "handshake"
    /\ \E s \in {"up", "rejected"} : link' = [link EXCEPT ![at[d]] = s]
    /\ entries' = IF d \in Pooled THEN [entries EXCEPT ![Endpoint[d]] = at[d]] ELSE entries
    /\ mu' = Unlocked(d)
    /\ pc' = [pc EXCEPT ![d] = "open"]
    /\ UNCHANGED <<shared, udp, opened, at, dials>>

(* DialEarly fails or the context ends first: connection and socket are    *)
(* closed.  An address that does not resolve fails in the same way.        *)
HandshakeFails(d) ==
    /\ pc[d] = "handshake"
    /\ link' = [link EXCEPT ![at[d]] = "dead"]
    /\ udp' = udp \ {at[d]}
    /\ mu' = UnlockedOnError(d)
    /\ Return(d)
    /\ UNCHANGED <<entries, shared, opened, dials>>

-----------------------------------------------------------------------------
(* OpenStreamSync succeeds and Dial returns the stream. *)
OpenOk(d) ==
    /\ pc[d] \in {"open", "reopen"}
    /\ link[at[d]] = "up"
    /\ opened' = [opened EXCEPT ![at[d]] = @ + 1]
    /\ Return(d)
    /\ UNCHANGED <<mu, entries, link, shared, udp, dials>>

(* quicTransport.Dial: Err0RTTRejected, so ask for the 1-RTT connection. *)
OpenRejected(d) ==
    /\ pc[d] = "open"
    /\ d \notin Pooled
    /\ link[at[d]] = "rejected"
    /\ pc' = [pc EXCEPT ![d] = "next"]
    /\ UNCHANGED <<mu, entries, link, shared, udp, opened, at, dials>>

NextConnection(d) ==
    /\ pc[d] = "next"
    /\ link[at[d]] = "rejected"
    /\ link' = [link EXCEPT ![at[d]] = "up"]
    /\ pc' = [pc EXCEPT ![d] = "reopen"]
    /\ UNCHANGED <<mu, entries, shared, udp, opened, at, dials>>

(* Fault variant: a failed Dial forgets its UDP socket. *)
KeepSocket(q) == udp

CloseSocket(q) == udp \ {q}

(* The stream cannot be opened, or the context ends.  A connection of its  *)
(* own is closed; one of the pool stays as it is, even if it is rejected.  *)
OpenFails(d) ==
    /\ pc[d] \in {"open", "next", "reopen"}
    /\ Return(d)
    /\ IF d \in Pooled
       THEN UNCHANGED <<link, udp>>
       ELSE /\ link' = [link EXCEPT ![at[d]] = "dead"]
            /\ udp' = CloseSocket(at[d])
    /\ UNCHANGED <<mu, entries, shared, opened, dials>>

-----------------------------------------------------------------------------
(* The peer or the network fails, or the idle timeout fires. *)
LinkDies(q) ==
    /\ q \in Alive
    /\ link' = [link EXCEPT ![q] = "dead"]
    /\ UNCHANGED <<mu, entries, shared, udp, opened, pc, at, dials>>

Entered == {entries[a] : a \in Addrs} \ {NoLink}

(* ConnectionPool.Close; the pool may be used again afterwards. *)
PoolClose ==
    /\ mu = NoDialer
    /\ Entered # {}
    /\ link' = [q \in Links |-> IF q \in Entered THEN "dead" ELSE link[q]]
    /\ udp' = udp \ Entered
    /\ entries' = [a \in Addrs |-> NoLink]
    /\ UNCHANGED <<mu, shared, opened, pc, at, dials>>

-----------------------------------------------------------------------------
Lock(d) == ReuseEntry(d) \/ DialEntry(d)

DialEnds(d) ==
    \/ HandshakeFails(d) \/ OpenOk(d) \/ OpenRejected(d)
    \/ NextConnection(d) \/ OpenFails(d)

-----------------------------------------------------------------------------
(* pool.go 13-15, "multiple sockets dialing the same remote endpoint share *)
(* a single QUIC connection": the pool never has two live connections to   *)
(* one address, whoever dials, fails or closes the pool meanwhile.         *)
OneLinkPerAddress ==
    \A p, q \in Alive : shared[p] # NoAddr /\ shared[p] = shared[q] => p = q

(* A UDP socket that is open belongs to the pool, to a Dial in progress or *)
(* to a stream that was handed out: every error path of both Dials and     *)
(* every removal from the pool closes it.                                  *)
NoSocketLeak ==
    \A q \in udp :
        \/ q \in Entered
        \/ \E d \in Dialers : at[d] = q
        \/ opened[q] > 0

(* transport_quic.go 127-131: a connection whose early data was refused    *)
(* opens streams only after NextConnection, so a Dial that meets one must  *)
(* not leave it behind for the next one.                                   *)
RejectedIsReplaced ==
    \A q \in Entered :
        link[q] = "rejected" => \E d \in Dialers : at[d] = q

=============================================================================
