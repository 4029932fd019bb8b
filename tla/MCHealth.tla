------------------------------ MODULE MCHealth ------------------------------
(* Health with its own constants; the cfg files give them their values. *)
EXTENDS Health
=============================================================================
