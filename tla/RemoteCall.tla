----------------------------- MODULE RemoteCall -----------------------------
(***************************************************************************)
(* What a REQ socket promises the one goroutine that uses it, whatever its *)
(* connections and peers do: one call at a time.  Its request is written   *)
(* once at most; the reply it gets is the reply to that request, read once *)
(* at most; a call that has its reply returns it, any other may fail.      *)
(***************************************************************************)
EXTENDS Integers

CONSTANT MaxCalls   \* bound: calls begun

VARIABLES
    pending,   \* a call is under way
    calls,     \* calls begun
    request,   \* the last call whose request was written to a stream, or 0
    reply      \* the last call whose reply was read from a stream, or 0

rpcVars == <<pending, calls, request, reply>>

Init == ~pending /\ calls = 0 /\ request = 0 /\ reply = 0

Begin ==
    /\ ~pending
    /\ calls < MaxCalls
    /\ pending' = TRUE
    /\ calls' = calls + 1
    /\ UNCHANGED <<request, reply>>

Transmit ==
    /\ pending
    /\ request < calls
    /\ request' = calls
    /\ UNCHANGED <<pending, calls, reply>>

Receive ==
    /\ pending
    /\ reply < request
    /\ request = calls
    /\ reply' = request
    /\ UNCHANGED <<pending, calls, request>>

Return ==
    /\ pending
    /\ reply = calls
    /\ pending' = FALSE
    /\ UNCHANGED <<calls, request, reply>>

(* No peer, or the peer is lost: the socket may be used again. *)
Fail ==
    /\ pending
    /\ reply < calls
    /\ pending' = FALSE
    /\ UNCHANGED <<calls, request, reply>>

Next == Begin \/ Transmit \/ Receive \/ Return \/ Fail

Spec == Init /\ [][Next]_rpcVars

=============================================================================
