----------------------------- MODULE MCPongPool -----------------------------
(* Instances of PongPool for TLC.                                          *)
EXTENDS PongPool, TLC

\* Descriptors and workers are interchangeable (safety runs only).
Symmetry == Permutations(Workers) \cup Permutations(Fds)
=============================================================================
