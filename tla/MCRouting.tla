----------------------------- MODULE MCRouting -----------------------------
EXTENDS Routing

Mapping(prefix, host) ==
    [prefix |-> prefix, headers |-> <<>>, regex |-> FALSE, timeout |-> 0, role |-> "route",
     scheme |-> "", host |-> host, dots |-> FALSE, port |-> 0, resolver |-> "", tls |-> "",
     load_balancer |-> "", valid |-> TRUE]

P == <<"p">>
AB == <<"a", "b">>

Plain == Mapping(P, AB)

SomeMappings ==
    { Plain,
      [Plain EXCEPT !.dots = TRUE, !.timeout = 3],
      [Mapping(<<"p", "x">>, AB) EXCEPT !.resolver = "endpoint", !.dots = TRUE],
      [Plain EXCEPT !.headers = <<"x">>, !.tls = "ctx"],
      [Plain EXCEPT !.role = "shadow", !.scheme = "https"],
      [Plain EXCEPT !.role = "redirect"],
      [Mapping(<<"q">>, <<"c">>) EXCEPT !.resolver = "consul", !.load_balancer = "maglev"],
      [Mapping(<<"q">>, AB) EXCEPT !.resolver = "mine", !.dots = TRUE],
      [Mapping(<<"r">>, AB) EXCEPT !.scheme = "http", !.tls = "true"],
      [Mapping(<<"r">>, AB) EXCEPT !.tls = "gone", !.regex = TRUE],
      [Mapping(<<"r">>, AB) EXCEPT !.port = 81],
      [Mapping(<<"r">>, AB) EXCEPT !.port = BadPort],
      [Mapping(<<"s">>, IPAddress) EXCEPT !.resolver = "endpoint", !.load_balancer = "round_robin"],
      [Mapping(<<"s">>, <<"c">>) EXCEPT !.valid = FALSE],
      Mapping(<<"s">>, <<"shadow", "c">>),
      [Mapping(<<"q">>, <<"c">>) EXCEPT !.role = "shadow"] }

SomeResolvers ==
    { <<>>,
      "mine" :> Resolver("ConsulResolver", "dc2") @@ "endpoint" :> Resolver("Unknown", ""),
      "mine" :> Resolver("ConsulResolver", "") @@ "consul" :> Resolver("ConsulResolver", "dc2") }

SomeEndpoints ==
    { [by |-> "k8s", service |-> <<"a">>, scope |-> "b", port |-> 80],
      [by |-> "k8s", service |-> AB, scope |-> "default", port |-> 80],
      [by |-> "consul", service |-> <<"c">>, scope |-> "dc1", port |-> Anything] }
=============================================================================
