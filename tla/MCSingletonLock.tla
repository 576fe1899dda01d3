--------------------------- MODULE MCSingletonLock ---------------------------
(* Instances of SingletonLock for TLC; processes are interchangeable. *)
EXTENDS SingletonLock, TLC

Perms == Permutations(Procs)
=============================================================================
