--------------------------- MODULE DatagramProofs ---------------------------
(***************************************************************************)
(* The datagram publisher for any subscribers, senders, topics and bounds. *)
(* Its peer list changes by removals that Send and the handlers make each  *)
(* on their own, and yet none of them brings a peer back or takes one that *)
(* is not theirs to take; and its filters do not drift from the topics of  *)
(* its subscribers.                                                        *)
(***************************************************************************)
EXTENDS Datagram, TLAPS

(* What Send is about to remove has failed. *)
DeadFailed == \A s \in Senders : dead[s] \subseteq failed

(* Who is in the list has been accepted. *)
ListedAccepted == \A p \in peerList : handler[p] # "off"

ListKept == DeadFailed /\ ListedAccepted /\ GoneStaysGone /\ NoPeerForgotten

IInv == TypeOK /\ ListKept

-----------------------------------------------------------------------------
LEMMA ApplyType ==
    ASSUME NEW cmd \in Command, NEW set \in SUBSET Topics
    PROVE  Apply(cmd, set) \in SUBSET Topics
  BY DEF Apply, Command

LEMMA WrittenType ==
    ASSUME TypeOK, NEW p \in Peers, NEW cmd \in Command
    PROVE  Written(p, cmd) \in [Peers -> Seq(Command)]
  BY DEF TypeOK, Written

(* What a subscriber does leaves the publisher's state alone. *)
LEMMA SubscriberTypes ==
    ASSUME TypeOK, NEW p \in Peers,
           \/ \E cmd \in Command : SetOption(p, cmd)
           \/ DialConnects(p) \/ SubscriberStep(p) \/ Disconnect(p)
    PROVE  TypeOK'
  <1>1. ASSUME NEW cmd \in Command, SetOption(p, cmd) PROVE TypeOK'
    <2>1. Apply(cmd, subs[p]) \in SUBSET Topics
      BY ApplyType DEF TypeOK
    <2>2. QED
      BY <1>1, <2>1, DatagramAssumption DEF SetOption, TypeOK, sendVars
  <1>2. CASE DialConnects(p)
    BY <1>2 DEF DialConnects, TypeOK, sendVars
  <1>3. CASE WriteOption(p)
    <2>1. PICK cmd \in pending[p] :
            ctrl' = IF stage[p] = "ready" THEN Written(p, cmd) ELSE ctrl
      BY <1>3 DEF WriteOption
    <2>2. cmd \in Command
      BY DEF TypeOK
    <2>3. ctrl' \in [Peers -> Seq(Command)]
      BY <2>1, <2>2, WrittenType DEF TypeOK
    <2>4. QED
      BY <1>3, <2>3 DEF WriteOption, TypeOK, sendVars
  <1>4. CASE DialOpens(p)
    BY <1>4 DEF DialOpens, Replay, TypeOK, sendVars
  <1>5. ASSUME NEW k \in Topics, DialReplays(p, k) PROVE TypeOK'
    <2>1. SubscribeTo(k) \in Command
      BY DEF SubscribeTo, Command
    <2>2. ctrl' \in [Peers -> Seq(Command)]
      BY <1>5, <2>1, WrittenType DEF DialReplays
    <2>3. QED
      BY <1>5, <2>2 DEF DialReplays, TypeOK, sendVars
  <1>6. CASE Disconnect(p)
    BY <1>6 DEF Disconnect, TypeOK, subVars, sendVars
  <1>7. QED
    BY <1>1, <1>2, <1>3, <1>4, <1>5, <1>6 DEF SubscriberStep

LEMMA PublisherTypes ==
    ASSUME TypeOK, NEW p \in Peers, AcceptPeer(p) \/ HandlerStep(p)
    PROVE  TypeOK'
  <1>1. CASE AcceptPeer(p)
    BY <1>1 DEF AcceptPeer, TypeOK, subVars, sendVars
  <1>2. CASE AcceptStream(p)
    BY <1>2 DEF AcceptStream, TypeOK, subVars, sendVars
  <1>3. CASE ReadCommand(p)
    <2>1. Head(ctrl[p]) \in Command /\ Tail(ctrl[p]) \in Seq(Command)
      BY <1>3 DEF ReadCommand, TypeOK
    <2>2. ApplyAtPeer(Head(ctrl[p]), topics[p]) \in SUBSET Topics
      BY <2>1, ApplyType DEF ApplyAtPeer, TypeOK
    <2>3. QED
      BY <1>3, <2>1, <2>2 DEF ReadCommand, TypeOK, subVars, sendVars
  <1>4. CASE HandlerFails(p)
    BY <1>4 DEF HandlerFails, TypeOK, subVars, sendVars
  <1>5. CASE HandlerRemoves(p)
    BY <1>5 DEF HandlerRemoves, WithoutPeer, TypeOK, subVars, sendVars
  <1>6. QED
    BY <1>1, <1>2, <1>3, <1>4, <1>5 DEF HandlerStep

LEMMA SenderTypes ==
    ASSUME TypeOK, NEW s \in Senders,
           SendStep(s) \/ \E m \in Message : BeginSend(s, m)
    PROVE  TypeOK'
  <1>1. ASSUME NEW m \in Message, BeginSend(s, m) PROVE TypeOK'
    BY <1>1, DatagramAssumption DEF BeginSend, TypeOK, subVars
  <1>2. ASSUME NEW p \in Peers, Visit(s, p) PROVE TypeOK'
    <2>1. left' \in [Senders -> SUBSET Peers]
      BY <1>2 DEF Visit, TypeOK
    <2>2. dead' \in [Senders -> SUBSET Peers] /\ failed' \subseteq Peers
      <3>1. CASE Matches(s, p) /\ SendFails(s, p)
        BY <1>2, <3>1 DEF Visit, TypeOK
      <3>2. CASE ~(Matches(s, p) /\ SendFails(s, p))
        BY <1>2, <3>2 DEF Visit, TypeOK
      <3>3. QED
        BY <3>1, <3>2
    <2>3. QED
      BY <1>2, <2>1, <2>2 DEF Visit, TypeOK, subVars
  <1>3. CASE EndSend(s)
    BY <1>3 DEF EndSend, WithoutDead, TypeOK, subVars
  <1>4. QED
    BY <1>1, <1>2, <1>3 DEF SendStep

LEMMA CloseTypes == TypeOK /\ Close => TypeOK'
  BY DEF Close, AfterClose, TypeOK, subVars, sendVars

LEMMA TypeStep == TypeOK /\ [Next]_vars => TypeOK'
  <1>1. TypeOK /\ UNCHANGED vars => TypeOK'
    BY DEF TypeOK, vars
  <1>2. QED
    BY <1>1, SubscriberTypes, PublisherTypes, SenderTypes, CloseTypes DEF Next

-----------------------------------------------------------------------------
(* The steps that change the list, a handler or what has failed; the       *)
(* others leave all four alone.                                            *)
listVars == <<peerList, handler, dead, failed>>

LEMMA OtherSteps ==
    ASSUME [Next]_vars
    PROVE  \/ UNCHANGED listVars
           \/ \E p \in Peers : AcceptPeer(p) \/ HandlerStep(p)
           \/ \E s \in Senders : SendStep(s)
  <1>1. ASSUME NEW p \in Peers, NEW cmd \in Command, SetOption(p, cmd)
        PROVE  UNCHANGED listVars
    BY <1>1 DEF SetOption, listVars, sendVars
  <1>2. ASSUME NEW p \in Peers,
               DialConnects(p) \/ SubscriberStep(p) \/ Disconnect(p)
        PROVE  UNCHANGED listVars
    BY <1>2 DEF DialConnects, SubscriberStep, WriteOption, DialOpens,
                DialReplays, Disconnect, listVars, sendVars
  <1>3. ASSUME NEW s \in Senders, NEW m \in Message, BeginSend(s, m)
        PROVE  UNCHANGED listVars
    BY <1>3 DEF BeginSend, listVars
  <1>4. Close \/ UNCHANGED vars => UNCHANGED listVars
    BY DEF Close, vars, listVars, sendVars
  <1>5. QED
    BY <1>1, <1>2, <1>3, <1>4 DEF Next

LEMMA InitIInv == Init => IInv
  <1> SUFFICES ASSUME Init PROVE IInv
    OBVIOUS
  <1>1. /\ subs \in [Peers -> SUBSET Topics]
        /\ pending \in [Peers -> SUBSET Command]
        /\ todo \in [Peers -> SUBSET Topics]
        /\ topics \in [Peers -> SUBSET Topics]
    BY DEF Init
  <1>2. ctrl \in [Peers -> Seq(Command)]
    BY DEF Init
  <1>3. /\ left \in [Senders -> SUBSET Peers]
        /\ dead \in [Senders -> SUBSET Peers]
        /\ message \in [Senders -> Message \union {NoMessage}]
    BY DEF Init
  <1>4. TypeOK
    <2>1. sends \in 0 .. MaxMessages /\ options \in 0 .. MaxOptions
      BY DatagramAssumption DEF Init
    <2>2. /\ stage \in [Peers -> {"new", "connected", "ready"}]
          /\ conn \in [Peers -> {"none", "up", "down"}]
          /\ handler \in [Peers -> {"off", "accept", "read", "remove", "exited"}]
      BY DEF Init
    <2>3. peerList \subseteq Peers /\ failed \subseteq Peers
      BY DEF Init
    <2>4. cancelled \in BOOLEAN
      BY DEF Init
    <2>5. QED
      BY <1>1, <1>2, <1>3, <2>1, <2>2, <2>3, <2>4 DEF TypeOK
  <1>5. QED
    BY <1>4 DEF Init, IInv, ListKept, DeadFailed, ListedAccepted,
                GoneStaysGone, NoPeerForgotten

LEMMA HandlerKeeps ==
    ASSUME IInv, NEW p \in Peers, AcceptPeer(p) \/ HandlerStep(p)
    PROVE  ListKept'
  <1> USE DEF IInv, TypeOK, ListKept, DeadFailed, ListedAccepted,
              GoneStaysGone, NoPeerForgotten, sendVars
  <1>1. CASE AcceptPeer(p)
    BY <1>1 DEF AcceptPeer
  <1>2. CASE AcceptStream(p)
    BY <1>2 DEF AcceptStream
  <1>3. CASE ReadCommand(p)
    BY <1>3 DEF ReadCommand
  <1>4. CASE HandlerFails(p)
    BY <1>4 DEF HandlerFails
  <1>5. CASE HandlerRemoves(p)
    BY <1>5 DEF HandlerRemoves, WithoutPeer
  <1>6. QED
    BY <1>1, <1>2, <1>3, <1>4, <1>5 DEF HandlerStep

LEMMA SenderKeeps ==
    ASSUME IInv, NEW s \in Senders, SendStep(s)
    PROVE  ListKept'
  <1> USE DEF IInv, TypeOK, ListKept, DeadFailed, ListedAccepted,
              GoneStaysGone, NoPeerForgotten
  <1>1. ASSUME NEW p \in Peers, Visit(s, p)
        PROVE  ListKept'
    BY <1>1, ZenonT(60) DEF Visit
  <1>2. CASE EndSend(s)
    BY <1>2 DEF EndSend, WithoutDead
  <1>3. QED
    BY <1>1, <1>2 DEF SendStep

THEOREM SpecIInv == Spec => []IInv
  <1>1. IInv /\ [Next]_vars => IInv'
    <2> SUFFICES ASSUME IInv, [Next]_vars
                 PROVE  IInv'
      OBVIOUS
    <2>1. TypeOK'
      BY TypeStep DEF IInv
    <2>2. CASE UNCHANGED listVars
      BY <2>1, <2>2 DEF IInv, ListKept, listVars, DeadFailed, ListedAccepted,
                        GoneStaysGone, NoPeerForgotten
    <2>3. CASE \E p \in Peers : AcceptPeer(p) \/ HandlerStep(p)
      BY <2>1, <2>3, HandlerKeeps DEF IInv
    <2>4. CASE \E s \in Senders : SendStep(s)
      BY <2>1, <2>4, SenderKeeps DEF IInv
    <2>5. QED
      BY <2>2, <2>3, <2>4, OtherSteps
  <1>2. QED
    BY InitIInv, <1>1, PTL DEF Spec

-----------------------------------------------------------------------------
(* The publisher's topics do not drift from those of its subscribers. *)

(* What a publisher with topics T will have for k when it has read w. *)
Ends(w, T, k) ==
    \E i \in 0 .. Len(w) :
        /\ IF i = 0 THEN k \in T ELSE w[i] = <<1, k>>
        /\ \A j \in i + 1 .. Len(w) : w[j] # <<0, k>>

(* SetOption has one command to write at most, and it is the change made.  *)
PendingIsCurrent ==
    \A p \in Peers : \A cmd \in pending[p] :
        /\ pending[p] = {cmd}
        /\ cmd[2] \in subs[p] <=> cmd[1] = 1

(* A topic that is being replayed is not unsubscribed meanwhile. *)
ReplayIsSubscribed == \A p \in Peers : todo[p] \subseteq subs[p]

(* Before Dial sets the control stream nothing is written nor replayed. *)
SilentUntilReady ==
    \A p \in Peers : stage[p] # "ready" =>
        ctrl[p] = <<>> /\ topics[p] = {} /\ todo[p] = {}

Agreement ==
    PendingIsCurrent /\ ReplayIsSubscribed /\ SilentUntilReady /\ NoDrift

(* What Agreement says of one subscriber; the steps of one leave the       *)
(* others alone.                                                           *)
Pending(p) ==
    \A cmd \in pending[p] :
        pending[p] = {cmd} /\ (cmd[2] \in subs[p] <=> cmd[1] = 1)
Silent(p) ==
    stage[p] # "ready" => ctrl[p] = <<>> /\ topics[p] = {} /\ todo[p] = {}
Settled(p, k) ==
    \/ WillHave(p, k) <=> k \in subs[p]
    \/ \E cmd \in pending[p] : cmd[2] = k
    \/ k \in todo[p]
Agrees(p) ==
    /\ Pending(p)
    /\ todo[p] \subseteq subs[p]
    /\ Silent(p)
    /\ \A k \in Topics : conn[p] = "up" /\ stage[p] = "ready" => Settled(p, k)

peerVars(p) == <<subs[p], pending[p], stage[p], todo[p], conn[p], ctrl[p],
                 topics[p]>>

LEMMA AgreementIsEach == Agreement <=> \A p \in Peers : Agrees(p)
  BY DEF Agreement, PendingIsCurrent, ReplayIsSubscribed, SilentUntilReady,
         NoDrift, Agrees, Pending, Silent, Settled

LEMMA WillHaveIsEnds ==
    ASSUME NEW p, NEW k PROVE WillHave(p, k) <=> Ends(ctrl[p], topics[p], k)
  BY DEF WillHave, Ends

LEMMA UntouchedAgrees ==
    ASSUME NEW p, UNCHANGED peerVars(p), Agrees(p) PROVE Agrees(p)'
  <1>1. ASSUME NEW k PROVE WillHave(p, k)' <=> WillHave(p, k)
    BY DEF peerVars, WillHave
  <1>2. ASSUME NEW k, Settled(p, k) PROVE Settled(p, k)'
    BY <1>1, <1>2 DEF peerVars, Settled
  <1>3. Pending(p)' /\ Silent(p)' /\ todo'[p] \subseteq subs'[p]
    BY DEF peerVars, Agrees, Pending, Silent
  <1>4. QED
    BY <1>2, <1>3 DEF peerVars, Agrees

(* The last command about a topic decides, *)
LEMMA AppendSame ==
    ASSUME NEW w \in Seq(Command), NEW T, NEW k \in Topics, NEW v \in {0, 1}
    PROVE  Ends(Append(w, <<v, k>>), T, k) <=> v = 1
  <1> DEFINE x == Append(w, <<v, k>>)
             n == Len(w) + 1
  <1>1. Len(x) = n /\ x[n] = <<v, k>> /\ n \in Nat \ {0}
    OBVIOUS
  <1> HIDE DEF x, n
  <1>2. CASE v = 1
    <2>1. n \in 0 .. Len(x) /\ x[n] = <<1, k>> /\ n # 0
      BY <1>1, <1>2
    <2>2. \A j \in n + 1 .. Len(x) : x[j] # <<0, k>>
      BY <1>1
    <2>3. QED
      BY <1>2, <2>1, <2>2 DEF Ends, x
  <1>3. CASE v = 0
    <2>1. ASSUME NEW i \in 0 .. Len(x),
                 IF i = 0 THEN k \in T ELSE x[i] = <<1, k>>,
                 \A j \in i + 1 .. Len(x) : x[j] # <<0, k>>
          PROVE  FALSE
      <3>1. i = n
        BY <1>1, <1>3, <2>1
      <3>2. QED
        BY <1>1, <1>3, <2>1, <3>1
    <2>2. QED
      BY <1>3, <2>1 DEF Ends, x
  <1>4. QED
    BY <1>2, <1>3

(* one about another topic makes no difference, *)
LEMMA AppendOther ==
    ASSUME NEW w \in Seq(Command), NEW T, NEW k, NEW cmd \in Command,
           cmd[2] # k
    PROVE  Ends(Append(w, cmd), T, k) <=> Ends(w, T, k)
  <1> DEFINE x == Append(w, cmd)
  <1>1. /\ Len(x) = Len(w) + 1 /\ Len(w) \in Nat /\ x[Len(w) + 1] = cmd
        /\ \A i \in 1 .. Len(w) : x[i] = w[i]
    OBVIOUS
  <1>2. cmd # <<0, k>> /\ cmd # <<1, k>>
    BY DEF Command
  <1> HIDE DEF x
  <1>3. ASSUME NEW i \in 0 .. Len(w)
        PROVE  /\ i # 0 => x[i] = w[i]
               /\ (\A j \in i + 1 .. Len(x) : x[j] # <<0, k>>) <=>
                  (\A j \in i + 1 .. Len(w) : w[j] # <<0, k>>)
    BY <1>1, <1>2
  <1>4. \A i \in 0 .. Len(x) : i \in 0 .. Len(w) \/ (i # 0 /\ x[i] = cmd)
    BY <1>1
  <1>5. \A i \in 0 .. Len(w) : i \in 0 .. Len(x)
    BY <1>1
  <1>6. ASSUME Ends(w, T, k) PROVE Ends(x, T, k)
    <2>1. PICK i \in 0 .. Len(w) :
            /\ IF i = 0 THEN k \in T ELSE w[i] = <<1, k>>
            /\ \A j \in i + 1 .. Len(w) : w[j] # <<0, k>>
      BY <1>6 DEF Ends
    <2>2. \A j \in i + 1 .. Len(x) : x[j] # <<0, k>>
      BY <1>3, <2>1
    <2>3. QED
      BY <1>3, <1>5, <2>1, <2>2 DEF Ends
  <1>7. Ends(x, T, k) => Ends(w, T, k)
    BY <1>2, <1>3, <1>4 DEF Ends
  <1>8. QED
    BY <1>6, <1>7 DEF x

(* and neither does applying the first one. *)
LEMMA TailKeeps ==
    ASSUME NEW w \in Seq(Command), w # <<>>, NEW T, NEW k
    PROVE  Ends(Tail(w), Apply(Head(w), T), k) <=> Ends(w, T, k)
  <1> DEFINE x == Tail(w)
             U == Apply(Head(w), T)
  <1>1. /\ Len(w) \in Nat \ {0} /\ Len(x) = Len(w) - 1
        /\ w[1] = Head(w) /\ w[1] \in Command
        /\ \A i \in 1 .. Len(x) : x[i] = w[i + 1]
    OBVIOUS
  <1>2. k \in U <=> \/ w[1] = <<1, k>>
                    \/ k \in T /\ w[1] # <<0, k>>
    BY <1>1 DEF Apply, Command
  <1> HIDE DEF x, U
  <1>3. ASSUME NEW i \in 0 .. Len(x)
        PROVE  (\A j \in i + 1 .. Len(x) : x[j] # <<0, k>>) <=>
               (\A j \in i + 2 .. Len(w) : w[j] # <<0, k>>)
    <2>1. ASSUME NEW j \in i + 1 .. Len(x)
          PROVE  j + 1 \in i + 2 .. Len(w) /\ x[j] = w[j + 1]
      BY <1>1
    <2>2. ASSUME NEW j \in i + 2 .. Len(w)
          PROVE  j - 1 \in i + 1 .. Len(x) /\ x[j - 1] = w[j]
      BY <1>1
    <2>3. QED
      BY <2>1, <2>2
  <1>4. ASSUME Ends(x, U, k) PROVE Ends(w, T, k)
    <2>1. PICK i \in 0 .. Len(x) :
            /\ IF i = 0 THEN k \in U ELSE x[i] = <<1, k>>
            /\ \A j \in i + 1 .. Len(x) : x[j] # <<0, k>>
      BY <1>4 DEF Ends
    <2>2. \A j \in i + 2 .. Len(w) : w[j] # <<0, k>>
      BY <1>3, <2>1
    <2>3. CASE i = 0 /\ w[1] # <<1, k>>
      <3>1. k \in T /\ \A j \in 0 + 1 .. Len(w) : w[j] # <<0, k>>
        BY <1>1, <1>2, <2>1, <2>2, <2>3
      <3>2. 0 \in 0 .. Len(w)
        BY <1>1
      <3>3. QED
        BY <3>1, <3>2 DEF Ends
    <2>4. CASE i # 0 \/ w[1] = <<1, k>>
      <3>1. i + 1 \in 0 .. Len(w) /\ i + 1 # 0 /\ w[i + 1] = <<1, k>>
        BY <1>1, <2>1, <2>4
      <3>2. \A j \in (i + 1) + 1 .. Len(w) : w[j] # <<0, k>>
        BY <1>1, <2>2
      <3>3. QED
        BY <3>1, <3>2 DEF Ends
    <2>5. QED
      BY <2>3, <2>4
  <1>5. ASSUME Ends(w, T, k) PROVE Ends(x, U, k)
    <2>1. PICK i \in 0 .. Len(w) :
            /\ IF i = 0 THEN k \in T ELSE w[i] = <<1, k>>
            /\ \A j \in i + 1 .. Len(w) : w[j] # <<0, k>>
      BY <1>5 DEF Ends
    <2>2. CASE i = 0
      <3>1. k \in U /\ \A j \in 0 + 2 .. Len(w) : w[j] # <<0, k>>
        BY <1>1, <1>2, <2>1, <2>2
      <3>2. 0 \in 0 .. Len(x) /\ \A j \in 0 + 1 .. Len(x) : x[j] # <<0, k>>
        BY <1>1, <1>3, <3>1
      <3>3. QED
        BY <3>1, <3>2 DEF Ends
    <2>3. CASE i # 0
      <3>1. i - 1 \in 0 .. Len(x)
        BY <1>1, <2>3
      <3>2. IF i - 1 = 0 THEN k \in U ELSE x[i - 1] = <<1, k>>
        BY <1>1, <1>2, <2>1, <2>3
      <3>3. \A j \in (i - 1) + 2 .. Len(w) : w[j] # <<0, k>>
        BY <1>1, <2>1, <2>3
      <3>4. \A j \in (i - 1) + 1 .. Len(x) : x[j] # <<0, k>>
        BY <1>3, <3>1, <3>3
      <3>5. QED
        BY <3>1, <3>2, <3>4 DEF Ends
    <2>4. QED
      BY <2>2, <2>3
  <1>6. QED
    BY <1>4, <1>5 DEF x, U

LEMMA EachAgrees == ASSUME \A q \in Peers : Agrees(q)' PROVE Agreement'
  BY DEF Agreement, PendingIsCurrent, ReplayIsSubscribed, SilentUntilReady,
         NoDrift, Agrees, Pending, Silent, Settled

(* SetOption: the topic changed is the one it has a command for, and no    *)
(* topic is being replayed.                                                *)
LEMMA SetOptionAgrees ==
    ASSUME TypeOK, NEW p \in Peers, Agrees(p), NEW cmd \in Command,
           SetOption(p, cmd)
    PROVE  Agrees(p)'
  <1>1. /\ subs'[p] = Apply(cmd, subs[p]) /\ pending'[p] = {cmd}
        /\ pending[p] = {} /\ todo[p] = {} /\ todo' = todo
        /\ UNCHANGED <<stage, conn, ctrl, topics>>
    BY DEF SetOption, LockIsFree, TypeOK
  <1>2. \A k : k \in subs'[p] <=> IF k = cmd[2] THEN cmd[1] = 1 ELSE k \in subs[p]
    BY <1>1 DEF Apply, Command
  <1>3. Pending(p)' /\ Silent(p)' /\ todo'[p] \subseteq subs'[p]
    BY <1>1, <1>2 DEF Pending, Silent, Agrees
  <1>4. ASSUME NEW k \in Topics, Settled(p, k) PROVE Settled(p, k)'
    <2>1. WillHave(p, k)' <=> WillHave(p, k)
      BY <1>1 DEF WillHave
    <2>2. CASE k = cmd[2]
      BY <1>1, <2>2 DEF Settled
    <2>3. CASE k # cmd[2]
      BY <1>1, <1>2, <1>4, <2>1, <2>3 DEF Settled
    <2>4. QED
      BY <2>2, <2>3
  <1>5. QED
    BY <1>1, <1>3, <1>4 DEF Agrees

(* A command on a stream that is open, and what it changes. *)
LEMMA WrittenEnds ==
    ASSUME TypeOK, NEW p \in Peers, NEW cmd \in Command, conn[p] = "up",
           ctrl' = Written(p, cmd), topics' = topics
    PROVE  /\ \A k \in Topics : k # cmd[2] => (WillHave(p, k)' <=> WillHave(p, k))
           /\ WillHave(p, cmd[2])' <=> cmd[1] = 1
  <1>1. /\ ctrl[p] \in Seq(Command) /\ ctrl'[p] = Append(ctrl[p], cmd)
        /\ cmd = <<cmd[1], cmd[2]>> /\ cmd[1] \in {0, 1} /\ cmd[2] \in Topics
    BY DEF TypeOK, Written, Command
  <1>2. ASSUME NEW k
        PROVE  WillHave(p, k)' <=> Ends(Append(ctrl[p], cmd), topics[p], k)
    BY <1>1 DEF WillHave, Ends
  <1>3. ASSUME NEW k \in Topics, k # cmd[2]
        PROVE  WillHave(p, k)' <=> WillHave(p, k)
    BY <1>1, <1>2, <1>3, AppendOther, WillHaveIsEnds
  <1>4. Ends(Append(ctrl[p], <<cmd[1], cmd[2]>>), topics[p], cmd[2]) <=> cmd[1] = 1
    BY <1>1, AppendSame
  <1>5. WillHave(p, cmd[2])' <=> cmd[1] = 1
    BY <1>1, <1>2, <1>4
  <1>6. QED
    BY <1>3, <1>5

LEMMA WriteOptionAgrees ==
    ASSUME TypeOK, NEW p \in Peers, Agrees(p), WriteOption(p)
    PROVE  Agrees(p)'
  <1>1. PICK cmd \in pending[p] :
          ctrl' = IF stage[p] = "ready" THEN Written(p, cmd) ELSE ctrl
    BY DEF WriteOption
  <1>2. /\ cmd \in Command /\ pending[p] = {cmd} /\ pending'[p] = {}
        /\ cmd[2] \in subs[p] <=> cmd[1] = 1
        /\ UNCHANGED <<subs, stage, todo, conn, topics>>
    BY <1>1 DEF WriteOption, TypeOK, Agrees, Pending
  <1>3. Pending(p)' /\ Silent(p)' /\ todo'[p] \subseteq subs'[p]
    BY <1>1, <1>2 DEF Pending, Silent, Agrees
  <1>4. ASSUME NEW k \in Topics, conn[p] = "up", stage[p] = "ready"
        PROVE  Settled(p, k)'
    <2>1. /\ \A h \in Topics : h # cmd[2] => (WillHave(p, h)' <=> WillHave(p, h))
          /\ WillHave(p, cmd[2])' <=> cmd[1] = 1
      BY <1>1, <1>2, <1>4, WrittenEnds
    <2>2. Settled(p, k)
      BY <1>4 DEF Agrees
    <2>3. CASE k = cmd[2]
      BY <1>2, <2>1, <2>3 DEF Settled
    <2>4. CASE k # cmd[2]
      BY <1>2, <2>1, <2>2, <2>4 DEF Settled
    <2>5. QED
      BY <2>3, <2>4
  <1>5. QED
    BY <1>2, <1>3, <1>4 DEF Agrees

(* When the control stream is set, all topics are still to be replayed. *)
LEMMA DialAgrees ==
    ASSUME TypeOK, NEW p \in Peers, Agrees(p), DialConnects(p) \/ DialOpens(p)
    PROVE  Agrees(p)'
  <1>1. CASE DialConnects(p)
    <2>1. stage'[p] = "connected" /\ stage[p] = "new"
      BY <1>1 DEF DialConnects, TypeOK
    <2>2. QED
      BY <1>1, <2>1 DEF DialConnects, Agrees, Pending, Silent
  <1>2. CASE DialOpens(p)
    <2>1. /\ stage'[p] = "ready" /\ todo'[p] = subs[p]
          /\ UNCHANGED <<subs, pending, conn, ctrl, topics>>
          /\ ctrl[p] = <<>> /\ topics[p] = {}
      BY <1>2 DEF DialOpens, Replay, TypeOK, Agrees, Silent
    <2>2. \A k : ~WillHave(p, k)'
      BY <2>1 DEF WillHave
    <2>3. QED
      BY <2>1, <2>2 DEF Agrees, Pending, Silent, Settled
  <1>3. QED
    BY <1>1, <1>2

LEMMA DialReplaysAgrees ==
    ASSUME TypeOK, NEW p \in Peers, Agrees(p), NEW k \in Topics,
           DialReplays(p, k)
    PROVE  Agrees(p)'
  <1> DEFINE cmd == SubscribeTo(k)
  <1>1. cmd \in Command /\ cmd[1] = 1 /\ cmd[2] = k
    BY DEF SubscribeTo, Command
  <1>2. /\ todo'[p] = todo[p] \ {k} /\ k \in subs[p] /\ stage[p] = "ready"
        /\ UNCHANGED <<subs, pending, stage, conn, topics>>
        /\ ctrl' = Written(p, cmd)
    BY DEF DialReplays, TypeOK, Agrees, Silent
  <1> HIDE DEF cmd
  <1>3. Pending(p)' /\ Silent(p)' /\ todo'[p] \subseteq subs'[p]
    BY <1>2 DEF Pending, Silent, Agrees
  <1>4. ASSUME NEW h \in Topics, conn[p] = "up" PROVE Settled(p, h)'
    <2>1. /\ h # k => (WillHave(p, h)' <=> WillHave(p, h))
          /\ WillHave(p, k)'
      BY <1>1, <1>2, <1>4, WrittenEnds
    <2>2. Settled(p, h)
      BY <1>2, <1>4 DEF Agrees
    <2>3. CASE h = k
      BY <1>2, <2>1, <2>3 DEF Settled
    <2>4. CASE h # k
      BY <1>2, <2>1, <2>2, <2>4 DEF Settled
    <2>5. QED
      BY <2>3, <2>4
  <1>5. QED
    BY <1>2, <1>3, <1>4 DEF Agrees

(* The publisher applies a command: what it will have stays the same. *)
LEMMA ReadCommandAgrees ==
    ASSUME TypeOK, NEW p \in Peers, Agrees(p), ReadCommand(p)
    PROVE  Agrees(p)'
  <1>1. /\ ctrl[p] \in Seq(Command) /\ ctrl[p] # <<>>
        /\ ctrl'[p] = Tail(ctrl[p])
        /\ topics'[p] = Apply(Head(ctrl[p]), topics[p])
        /\ UNCHANGED <<subs, pending, stage, todo, conn>>
    BY DEF ReadCommand, ApplyAtPeer, TypeOK, subVars
  <1>2. ASSUME NEW k PROVE WillHave(p, k)' <=> WillHave(p, k)
    <2>1. WillHave(p, k)' <=>
            Ends(Tail(ctrl[p]), Apply(Head(ctrl[p]), topics[p]), k)
      BY <1>1 DEF WillHave, Ends
    <2>2. QED
      BY <1>1, <2>1, TailKeeps, WillHaveIsEnds
  <1>3. ASSUME NEW k, Settled(p, k) PROVE Settled(p, k)'
    BY <1>1, <1>2, <1>3 DEF Settled
  <1>4. QED
    BY <1>1, <1>3 DEF Agrees, Pending, Silent

(* A connection that is down has no topics to agree on. *)
LEMMA DownAgrees ==
    ASSUME NEW p \in Peers, Agrees(p), conn'[p] # "up", ctrl'[p] = <<>>,
           UNCHANGED <<subs, pending, stage, todo, topics>>
    PROVE  Agrees(p)'
  BY DEF Agrees, Pending, Silent

(* A step of one subscriber or of its handler leaves the others alone. *)
LEMMA OthersUntouched ==
    ASSUME TypeOK, NEW p \in Peers,
           \/ \E cmd \in Command : SetOption(p, cmd)
           \/ DialConnects(p) \/ SubscriberStep(p) \/ Disconnect(p)
           \/ ReadCommand(p),
           NEW q \in Peers, q # p
    PROVE  UNCHANGED peerVars(q)
  <1> USE DEF TypeOK, peerVars, subVars
  <1>1. ASSUME NEW cmd \in Command, SetOption(p, cmd)
        PROVE  UNCHANGED peerVars(q)
    BY <1>1 DEF SetOption
  <1>2. CASE DialConnects(p) \/ DialOpens(p)
    BY <1>2 DEF DialConnects, DialOpens
  <1>3. CASE Disconnect(p) \/ ReadCommand(p)
    BY <1>3 DEF Disconnect, ReadCommand
  <1>4. CASE WriteOption(p)
    <2>1. UNCHANGED ctrl[q]
      BY <1>4 DEF WriteOption, Written
    <2>2. QED
      BY <1>4, <2>1 DEF WriteOption
  <1>5. ASSUME NEW k \in Topics, DialReplays(p, k)
        PROVE  UNCHANGED peerVars(q)
    BY <1>5 DEF DialReplays, Written
  <1>6. QED
    BY <1>1, <1>2, <1>3, <1>4, <1>5 DEF SubscriberStep

LEMMA AgreementStep ==
    ASSUME TypeOK, Agreement, [Next]_vars
    PROVE  Agreement'
  <1> SUFFICES ASSUME NEW q \in Peers PROVE Agrees(q)'
    BY EachAgrees
  <1>1. Agrees(q)
    BY AgreementIsEach
  <1>2. ASSUME NEW p \in Peers,
               \/ \E cmd \in Command : SetOption(p, cmd)
               \/ DialConnects(p) \/ SubscriberStep(p) \/ Disconnect(p)
               \/ ReadCommand(p)
        PROVE  Agrees(q)'
    <2>1. CASE q # p
      BY <1>1, <1>2, <2>1, OthersUntouched, UntouchedAgrees
    <2>2. CASE q = p /\ Disconnect(p)
      <3>1. conn'[q] # "up" /\ ctrl'[q] = <<>>
        BY <2>2 DEF Disconnect, TypeOK
      <3>2. QED
        BY <1>1, <2>2, <3>1, DownAgrees DEF Disconnect, subVars
    <2>3. CASE q = p /\ ~Disconnect(p)
      BY <1>1, <1>2, <2>3, SetOptionAgrees, WriteOptionAgrees, DialAgrees,
         DialReplaysAgrees, ReadCommandAgrees DEF SubscriberStep
    <2>4. QED
      BY <2>1, <2>2, <2>3
  <1>3. CASE Close
    <2>1. conn'[q] # "up" /\ ctrl'[q] = <<>>
      BY <1>3 DEF Close, AfterClose
    <2>2. QED
      BY <1>1, <1>3, <2>1, DownAgrees DEF Close, subVars
  <1>4. CASE \/ \E p \in Peers : \/ AcceptPeer(p) \/ AcceptStream(p)
                                 \/ HandlerFails(p) \/ HandlerRemoves(p)
             \/ \E s \in Senders :
                  SendStep(s) \/ \E m \in Message : BeginSend(s, m)
             \/ UNCHANGED vars
    <2>1. UNCHANGED <<subs, pending, stage, todo, conn, ctrl, topics>>
      BY <1>4 DEF AcceptPeer, AcceptStream, HandlerFails, HandlerRemoves,
                  SendStep, Visit, EndSend, BeginSend, vars, subVars
    <2>2. QED
      BY <1>1, <2>1, UntouchedAgrees DEF peerVars
  <1>5. QED
    BY <1>2, <1>3, <1>4 DEF Next, HandlerStep

(* Every variable stays within its type, whatever the publisher reads on a *)
(* control stream (datagram.go, DatagramPubSocket and DatagramSubSocket).  *)
THEOREM DatagramTypeCorrect == Spec => []TypeOK
  BY SpecIInv, PTL DEF IInv

(* A peer its handler has removed never comes back, although a Send that   *)
(* copied the list before rewrites it later (datagram.go, Send).           *)
THEOREM GonePeersStayGone == Spec => []GoneStaysGone
  BY SpecIInv, PTL DEF IInv, ListKept

(* A peer that is being served leaves the list only if a SendDatagram to   *)
(* it has failed, whoever else is removed at the same time.                *)
THEOREM ServedPeersAreListed == Spec => []NoPeerForgotten
  BY SpecIInv, PTL DEF IInv, ListKept

(* The publisher's topics never drift from those of a subscriber that is   *)
(* connected, whenever its SetOption is called, before, during or after    *)
(* Dial (datagram.go, Dial and SetOption of DatagramSubSocket).            *)
THEOREM DatagramTopicsDoNotDrift == Spec => []NoDrift
  <1>1. Init => Agreement
    BY DEF Init, Agreement, PendingIsCurrent, ReplayIsSubscribed,
           SilentUntilReady, NoDrift
  <1>2. IInv /\ Agreement /\ [Next]_vars => Agreement'
    BY AgreementStep DEF IInv
  <1>3. Agreement => NoDrift
    BY DEF Agreement
  <1>4. QED
    BY SpecIInv, <1>1, <1>2, <1>3, PTL DEF Spec

=============================================================================
