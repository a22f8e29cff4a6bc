--------------------------- MODULE MCPolicyStore ----------------------------
(* Instances of PolicyStore for TLC.                                       *)
EXTENDS PolicyStore, TLC

PublisherSymmetry == Permutations(Publishers)

=============================================================================
