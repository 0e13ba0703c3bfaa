---------------------------- MODULE MCPathLock ----------------------------
(* PathLock for TLC: three goroutines over two paths; one refMutex per     *)
(* goroutine is all that can be reachable at once.                         *)
EXTENDS PathLock
=============================================================================
