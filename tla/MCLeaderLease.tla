--------------------------- MODULE MCLeaderLease ---------------------------
(* Finite instance of LeaderLease: interchangeable nodes, so TLC explores   *)
(* one representative of every renaming of them.                            *)
EXTENDS LeaderLease, TLC

NodeSymmetry == Permutations(Node)

=============================================================================
