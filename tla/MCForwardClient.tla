--------------------------- MODULE MCForwardClient ---------------------------
(* Small instances of ForwardClient for TLC. *)
EXTENDS ForwardClient

AllKinds == {"ordered", "unordered", "blank"}
=============================================================================
