------------------------------ MODULE MCSocket ------------------------------
(* Instances of Socket for TLC, and a check of the reconnect interval. *)
EXTENDS Socket, Backoff, TLC

CONSTANTS c1, c2, c3, c4, e1, e2

MCConns == {c1, c2, c3, c4}
Symmetry == Permutations(MCConns)

(* With a maximum, attempt n waits ivl * 2^n or the maximum, whichever is  *)
(* less, also where the product exceeds the width (options.go 85-86).      *)
Attempts == 0 .. 8
Reference(ivl, max, n) == IF ivl * 2^n < max THEN ivl * 2^n ELSE max
ASSUME BackoffIsCappedDoubling ==
    \A w \in {8, 16} : \A ivl \in 0 .. w - 1, max \in 1 .. w - 1 :
        LET wait[n \in Attempts] ==
              ExponentialIvl(w, IF n = 0 THEN NoInterval ELSE wait[n - 1], ivl, max)
        IN  \A n \in Attempts : wait[n] = Reference(ivl, max, n)
=============================================================================
