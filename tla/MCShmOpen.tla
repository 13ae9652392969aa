----------------------------- MODULE MCShmOpen -----------------------------
(* The instance of ShmOpen for the start order the compose file allows.        *)
EXTENDS ShmOpen
=============================================================================
