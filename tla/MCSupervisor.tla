---------------------------- MODULE MCSupervisor ----------------------------
(* Supervisor with its own constants; the cfg files give them their values. *)
EXTENDS Supervisor
=============================================================================
