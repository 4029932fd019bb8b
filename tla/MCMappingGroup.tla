--------------------------- MODULE MCMappingGroup ---------------------------
EXTENDS MappingGroup

(* Plain Mappings of one precedence: the weights are what matters. *)
WeightedOnly(weights) ==
    [precedence : {0}, weighted : {TRUE}, weight : weights, shadow : {FALSE},
     host_redirect : {"absent"}, matches : {TRUE}]

Unweighted ==
    [precedence : {0}, weighted : {FALSE}, weight : {0}, shadow : {FALSE},
     host_redirect : {"absent"}, matches : {TRUE}]

(* Small ones that round badly, ties (15 of 24), the usual canaries, and a *)
(* negative one, which the schema allows.                                  *)
CanaryMappings == WeightedOnly({-11, 0, 1, 4, 9, 15, 50, 100}) \cup Unweighted

(* Every kind of Mapping. *)
MixedMappings ==
    [precedence : {0, 1}, weighted : {FALSE}, weight : {0}, shadow : BOOLEAN,
     host_redirect : {"absent", "true"}, matches : BOOLEAN]

(* Another that writes out host_redirect as false. *)
ExplicitMappings ==
    [precedence : {0}, weighted : {FALSE}, weight : {0}, shadow : {FALSE},
     host_redirect : {"false"}, matches : {TRUE}]

AllMappings == CanaryMappings \cup MixedMappings \cup ExplicitMappings
=============================================================================
