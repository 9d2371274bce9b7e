------------------------------ MODULE MCSleep ------------------------------
(* Sleep for TLC. *)
EXTENDS Sleep
=============================================================================
