--------------------------- MODULE MCTLSContexts ---------------------------
EXTENDS TLSContexts

Default == <<"default">>

SomeParts == {"a", "b", "default", "ambassador-certs", "ambassador-cacert"}

Secret(name, namespace) == [name |-> name, namespace |-> namespace]

A == Secret(<<"a">>, Default)
AinB == Secret(<<"a">>, <<"b">>)
AdotB == Secret(<<"a", "b">>, Default)
Certs == Secret(AmbassadorCerts, Default)
Cacert == Secret(AmbassadorCacert, Default)

SomeSecrets == {A, AinB, AdotB, Certs, Cacert}

Holding(a, ainb, adotb, cacert) ==
    [s \in SomeSecrets |-> CASE s = A -> a [] s = AinB -> ainb [] s = AdotB -> adotb
                             [] s = Cacert -> cacert [] s = Certs -> "pair"]

SomeSecretSets == {Holding("pair", "pair", "pair", "cert"), Holding("none", "cert", "pair", "cert"),
                   Holding("garbled", "none", "none", "pair")}

Context(name, secret, hosts) ==
    [name |-> name, secret |-> secret, ca_secret |-> <<>>, cert_chain_file |-> NoPath,
     private_key_file |-> NoPath, cacert_chain_file |-> NoPath, hosts |-> hosts,
     alpn_protocols |-> FALSE, redirect_cleartext_from |-> 0, secret_namespacing |-> {}]

SomeContexts ==
    { Context("x", <<"a">>, {"h"}),
      Context("x", <<"a", "b">>, {"h", "g"}),
      [Context("x", <<"a", "b">>, {"h"}) EXCEPT !.secret_namespacing = {FALSE}],
      [Context("y", <<"a", "b">>, {"h"}) EXCEPT !.ca_secret = AmbassadorCacert, !.alpn_protocols = TRUE],
      [Context("y", <<"a">>, {"g"}) EXCEPT !.alpn_protocols = TRUE],
      [Context("y", <<>>, {"g"}) EXCEPT !.cert_chain_file = FileThere, !.private_key_file = FileThere,
                                        !.ca_secret = <<"a">>, !.redirect_cleartext_from = 8081],
      [Context("server", <<>>, {"h"}) EXCEPT !.cert_chain_file = FileGone,
                                             !.private_key_file = FileThere],
      [Context("server", <<"a">>, {}) EXCEPT !.cert_chain_file = FileThere],
      [Context("server", <<>>, {"g"}) EXCEPT !.cacert_chain_file = FileThere] }

Server(secret, redirect) ==
    [on |-> TRUE, secret |-> secret, cert_chain_file |-> NoPath, private_key_file |-> NoPath,
     alpn_protocols |-> FALSE, redirect_cleartext_from |-> redirect]

Client(secret) == [on |-> TRUE, secret |-> secret, cacert_chain_file |-> NoPath]

SomeModules ==
    { [server |-> Server(<<>>, 0), client |-> NoBlock, other |-> Server(<<"a">>, 0)],
      [server |-> Server(<<"a">>, 8080), client |-> NoBlock, other |-> NoBlock],
      [server |-> Server(<<>>, NotAPort), client |-> NoBlock, other |-> NoBlock],
      [server |-> Server(<<>>, 8080), client |-> Client(<<"a">>), other |-> NoBlock],
      [server |-> Server(<<>>, 0), client |-> Client(<<>>), other |-> NoBlock] }
=============================================================================
