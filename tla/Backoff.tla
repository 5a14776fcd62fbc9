------------------------------ MODULE Backoff ------------------------------
(***************************************************************************)
(* The time a reconnect goroutine waits before its next Dial               *)
(* (socket.go, getNewReconnectIvl).  Durations are signed integers of a    *)
(* fixed width, 64 bits in the code: w is one more than the largest, and   *)
(* what exceeds it wraps around.  The current interval is negative before  *)
(* the first attempt.                                                      *)
(***************************************************************************)
EXTENDS Integers

(* The sum or the double of two durations that are not negative. *)
Wrap(w, x) == IF x < w THEN x ELSE x - 2 * w

NoInterval == -1

(* reconnectIvlMax > 0: the interval doubles up to the maximum. *)
Candidate(w, cur, ivl, max) ==
    LET double == Wrap(w, 2 * cur) IN
    IF cur < 0 THEN ivl ELSE IF double < cur THEN max ELSE double

ExponentialIvl(w, cur, ivl, max) ==
    LET candidate == Candidate(w, cur, ivl, max) IN
    IF candidate < max THEN candidate ELSE max

(* reconnectIvlMax = 0: the interval is fixed, and a random part is added  *)
(* that is smaller than the interval.  There is none for an interval of 0, *)
(* for which rand.Int63n panics.                                           *)
FixedIvl(cur, ivl) == IF cur < 0 THEN ivl ELSE cur

JitteredIvls(w, cur, ivl) ==
    {Wrap(w, FixedIvl(cur, ivl) + jitter) : jitter \in 0 .. ivl - 1}

=============================================================================
