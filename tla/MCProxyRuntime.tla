--------------------------- MODULE MCProxyRuntime ---------------------------
(* TLC instances of ProxyRuntime: processes and settings are interchangeable. *)
EXTENDS ProxyRuntime, TLC

Symmetry == Permutations(Procs) \cup Permutations(Settings)
=============================================================================
