----------------------------- MODULE MCShmRing -----------------------------
(* Model-checking instances of ShmRing; the .cfg files choose the constants. *)
EXTENDS ShmRing
=============================================================================
