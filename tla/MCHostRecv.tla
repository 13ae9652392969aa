----------------------------- MODULE MCHostRecv -----------------------------
(* Model-checking instances of HostRecv; the .cfg files choose the constants. *)
EXTENDS HostRecv
=============================================================================
