---------------------------- MODULE MCConfigLoad ----------------------------
EXTENDS ConfigLoad

BaseNames == [f \in Inputs |-> IF f = "a" THEN 1 ELSE 2]

Obj(kind, name, api, valid) ==
    [kind |-> kind, name |-> name, ours |-> TRUE, api |-> api, valid |-> valid]

Mapping == Obj("Mapping", 1, "v1", TRUE)
Invalid == Obj("Mapping", 1, "v1", FALSE)
Unvalidated == Obj("Mapping", 1, "unsupported", FALSE)
Foreign == [Mapping EXCEPT !.ours = FALSE]

(* Ten objects, the second and the tenth of one name: the rkey of the      *)
(* tenth comes before that of the second.                                  *)
LongFile == [n \in 1 .. 10 |-> CASE n = 2 -> Mapping [] n = 10 -> Unvalidated [] OTHER -> Foreign]

SomeContents ==
    { <<Mapping>>, <<Invalid>>, LongFile, <<Unparsable>>,
      <<Obj("Pragma", 1, "v1", TRUE), Obj("Mapping", 1, "v0", TRUE)>>,
      <<Obj("KubernetesEndpointResolver", 1, "v1", TRUE), Obj("ConsulResolver", 1, "v1", TRUE)>>,
      <<Obj("empty", 0, "v1", TRUE), Obj("none", 1, "v1", TRUE), Obj("Module", 0, "v1", TRUE)>>,
      <<Obj("Secret", 1, "v1", TRUE), Obj("Mapping", 2, "foreign", TRUE)>>,
      <<Obj("Service", 1, "v1", TRUE)>>,
      <<Obj("Pragma", 0, "v1", TRUE), Obj("Service", 0, "v1", TRUE)>> }
=============================================================================
