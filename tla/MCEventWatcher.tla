-------------------------- MODULE MCEventWatcher --------------------------
(* diagd as entrypoint.sh starts it, with Envoy and a kick command, and in *)
(* diagd-only mode, where it loads the filesystem at boot.                 *)
EXTENDS EventWatcher

CommandLines ==
    {[no_envoy |-> "F", kicks |-> "T", no_checks |-> "F", fs_config |-> "F"],
     [no_envoy |-> "T", kicks |-> "F", no_checks |-> "T", fs_config |-> "T"]}
=============================================================================
