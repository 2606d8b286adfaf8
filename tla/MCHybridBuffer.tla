---------------------------- MODULE MCHybridBuffer ----------------------------
(* Small instances of HybridBuffer for TLC. *)
EXTENDS HybridBuffer

\* Every system call may fail; Destroy's wait for pending chunks does not time out.
AllIOFaults == FaultKinds \ {"timeout"}

\* Failures that leave the content of files intact, and the timeout.
CleanFaults == {"read", "unlink", "timeout"}

NoFaults == {}
=============================================================================
