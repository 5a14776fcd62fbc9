------------------------------ MODULE MCPools ------------------------------
(* A SUB or XSUB socket that is used by two goroutines. *)
EXTENDS Pools, TLC

(* Which thread and which connection is which makes no difference. *)
Alike == Permutations(Threads) \union Permutations(Conns)

=============================================================================
