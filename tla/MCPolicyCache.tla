----------------------------- MODULE MCPolicyCache -----------------------------
(* An instance of PolicyCache: two nodes, one of which cannot hold the     *)
(* larger of two contents.                                                 *)
EXTENDS PolicyCache, TLC

CONSTANTS n1, n2

MCSize == [c \in 0..2 |-> c]
MCLimit == (n1 :> 2) @@ (n2 :> 1)

=============================================================================
