------------------------------- MODULE Fanout -------------------------------
(***************************************************************************)
(* What a PUB socket promises its subscribers, whatever its queues and     *)
(* goroutines do: every subscriber gets a selection of the messages, each  *)
(* one once at most and those of one sender in the order they were sent.   *)
(***************************************************************************)
EXTENDS Integers, Sequences

CONSTANTS Senders, Conns

VARIABLES
    published,   \* per sender: messages it has started to send
    delivered    \* per connection: messages written to its stream, in order

(* The n-th message of sender s is <<s, n>>. *)
Init ==
    /\ published = [s \in Senders |-> 0]
    /\ delivered = [c \in Conns |-> <<>>]

Publish(s) ==
    /\ published' = [published EXCEPT ![s] = @ + 1]
    /\ UNCHANGED delivered

InOrder(c, s, n) ==
    \A i \in 1 .. Len(delivered[c]) :
        delivered[c][i][1] = s => delivered[c][i][2] < n

Deliver(c, s) ==
    \E n \in 1 .. published[s] :
        /\ InOrder(c, s, n)
        /\ delivered' = [delivered EXCEPT ![c] = Append(@, <<s, n>>)]
        /\ UNCHANGED published

Next == \E s \in Senders : Publish(s) \/ \E c \in Conns : Deliver(c, s)

Spec == Init /\ [][Next]_<<published, delivered>>

=============================================================================
