------------------------------ MODULE Routing ------------------------------
(***************************************************************************)
(* How Mappings become routes to clusters.  IRServiceResolverFactory       *)
(* provides the resolvers, MappingFactory offers each Mapping to the group *)
(* of its group_id, finalize makes a cluster for every Mapping of every    *)
(* group, and the IR shortens the long names of clusters.                  *)
(*                                                                         *)
(* Text is a sequence of words.  A group_id is the hash of the prefix and  *)
(* the headers of a Mapping run together, the name of a cluster is the     *)
(* service and other fields with every punctuation mark made `_': both are *)
(* the concatenation of the words, whatever stood between them.            *)
(* What a group does with weights and precedences is in MappingGroup.      *)
(***************************************************************************)
EXTENDS Integers, FiniteSets, Sequences, Functions, TLC

CONSTANTS Mappings,      \* Mappings there may be
          MaxMappings,   \* bound on the Mappings of one configuration
          ResolverSets,  \* the resolvers that users may define: functions from
                         \* names to records [kind, datacenter]
          Endpoints,     \* endpoints of Services: [by, service, scope, port]
          TLSContexts,   \* names of the TLS contexts without errors
          MaxName,       \* a longer name is shortened (60 in the code)
          ShortName      \* to this length and a number (40 in the code)

Anything == 0      \* the port '*'
BadPort == -1      \* a port that urlparse refuses
IPAddress == <<"ip">>   \* a host that is an address already

MappingType ==
    [prefix : Seq(STRING), headers : Seq(STRING), regex : BOOLEAN, timeout : Nat,
     role : {"route", "shadow", "redirect"},
     scheme : {"", "http", "https"}, host : Seq(STRING), dots : BOOLEAN, port : Int,
     resolver : STRING, tls : STRING, load_balancer : STRING, valid : BOOLEAN]

ASSUME RoutingAssumption ==
    /\ \A m \in Mappings : m \in MappingType /\ m.host # <<>>
    /\ MaxMappings \in Nat
    /\ ShortName \in Nat /\ MaxName \in Nat /\ ShortName < MaxName

Marks == {"shadow", "otls", "er"}   \* what the name of a cluster is marked with

(* A port is written in digits. *)
ASSUME NumeralAssumption == \A m \in Mappings : ToString(m.port) \in STRING \ Marks

VARIABLES enable_endpoints,  \* Config.enable_endpoints
          load_balancer,     \* the Ambassador module's, "" for none
          resolver,          \* the Ambassador module's
          resolvers,         \* ir.resolvers
          offered,           \* the Mappings in the order of the Config
          groups,            \* ir.groups, a dict in the order of its keys
          clusters,          \* ir.clusters, likewise
          cluster,           \* mapping.cluster, as a position in clusters; 0 for none
          errors,            \* history: the Mappings that errors are about
          at,                \* the next group to finalize
          given,             \* how many of its Mappings have got a cluster
          phase

vars == <<enable_endpoints, load_balancer, resolver, resolvers, offered, groups, clusters,
          cluster, errors, at, given, phase>>

Init ==
    /\ enable_endpoints \in BOOLEAN
    /\ load_balancer \in {"", "maglev"}
    /\ resolver \in {"kubernetes-service", "endpoint"}
    /\ resolvers = <<>>
    /\ offered = <<>>
    /\ groups = <<>>
    /\ clusters = <<>>
    /\ cluster = <<>>
    /\ errors = {}
    /\ at = 1
    /\ given = 0
    /\ phase = "resolvers"
-----------------------------------------------------------------------------
(* IRServiceResolver.setup: one that this refuses counts as false. *)
Usable(rs, name) ==
    /\ name \in DOMAIN rs
    /\ \/ rs[name].kind \in {"KubernetesServiceResolver", "KubernetesEndpointResolver"}
       \/ rs[name].kind = "ConsulResolver" /\ rs[name].datacenter # ""

Resolver(kind, datacenter) == [kind |-> kind, datacenter |-> datacenter]

(* Two names for one resolver: whichever is there, else a default one, is  *)
(* found under both.                                                       *)
check_aliases(rs, n1, n2, default) ==
    CASE Usable(rs, n1) /\ ~Usable(rs, n2)  -> (n2 :> rs[n1]) @@ rs
      [] ~Usable(rs, n1) /\ Usable(rs, n2)  -> (n1 :> rs[n2]) @@ rs
      [] ~Usable(rs, n1) /\ ~Usable(rs, n2) -> (n1 :> default) @@ (n2 :> default) @@ rs
      [] OTHER                              -> rs

LoadResolvers ==
    /\ phase = "resolvers"
    /\ \E users \in ResolverSets :
           LET rs1 == IF Usable(users, "kubernetes-service") THEN users
                      ELSE ("kubernetes-service" :> Resolver("KubernetesServiceResolver", "")) @@ users
               rs2 == check_aliases(rs1, "endpoint", "kubernetes-endpoint",
                                    Resolver("KubernetesEndpointResolver", ""))
           IN  resolvers' = check_aliases(rs2, "consul", "consul-endpoint",
                                          Resolver("ConsulResolver", "dc1"))
    /\ phase' = "mappings"
    /\ UNCHANGED <<enable_endpoints, load_balancer, resolver, offered, groups, clusters, cluster,
                   errors, at, given>>
-----------------------------------------------------------------------------
(* The resolver that a Mapping uses: by default the Ambassador module's,   *)
(* which is kubernetes-service if that names none.                         *)
ResolverOf(m) == IF m.resolver = "" THEN resolver ELSE m.resolver

(* Resolvers refuse what they cannot do. *)
valid_mapping(m) ==
    LET kind == resolvers[ResolverOf(m)].kind
    IN  /\ kind = "KubernetesServiceResolver" => m.load_balancer = ""
        /\ kind = "ConsulResolver" => ~(m.dots /\ Len(m.host) > 1)

(* IRBaseMapping.setup. *)
Resolvable(m) == Usable(resolvers, ResolverOf(m)) /\ valid_mapping(m)

(* IRHTTPMapping.setup; `valid' stands for its checks of cors,             *)
(* retry_policy, labels, rate_limits, load_balancer and circuit_breakers.  *)
Active(m) == Resolvable(m) /\ m.valid

(* The host and the method of a Mapping are among its headers. *)
group_id(m) == m.prefix \o m.headers

GroupOf(m) == {g \in DOMAIN groups : groups[g].group_id = group_id(m)}

(* A key that the Mapping does not have is never a mismatch. *)
OptionalMismatch(m, core) ==
    \/ m.regex /\ ~core.regex
    \/ m.timeout # 0 /\ m.timeout # core.timeout
    \/ m.load_balancer # "" /\ m.load_balancer # core.load_balancer

(* A mistake: what the group_id was made of is not compared. *)
Mismatched_optional(m, core) == OptionalMismatch(m, core)

(* The first Mapping of a group gives it its core keys.  (A Mapping        *)
(* without prefix_regex so joins a group that has it.)                     *)
Mismatched(m, core) ==
    \/ m.prefix # core.prefix \/ m.headers # core.headers
    \/ OptionalMismatch(m, core)

EmptyGroup(m) ==
    [group_id |-> group_id(m), core |-> m, mappings |-> <<>>, shadow |-> 0, host_redirect |-> 0]

Taken(m, group) ==
    /\ ~Mismatched(m, group.core)
    /\ m.role = "shadow" => group.shadow = 0
    /\ m.role = "redirect" => group.host_redirect = 0

(* IRHTTPMappingGroup.add_mapping, for the Mapping m at position n. *)
Joined(m, n, group) ==
    CASE ~Taken(m, group)                          -> group
      [] Taken(m, group) /\ m.role = "route"    -> [group EXCEPT !.mappings = Append(@, n)]
      [] Taken(m, group) /\ m.role = "shadow"   -> [group EXCEPT !.shadow = n]
      [] Taken(m, group) /\ m.role = "redirect" -> [group EXCEPT !.host_redirect = n]

(* MappingFactory.load_config and ir.add_mapping. *)
AddMapping ==
    /\ phase = "mappings"
    /\ Len(offered) < MaxMappings
    /\ \E m \in Mappings :
           LET n == Len(offered) + 1
               told == \/ ~Active(m)
                       \/ \E g \in GroupOf(m) : ~Taken(m, groups[g])
           IN  /\ offered' = Append(offered, m)
               /\ cluster' = Append(cluster, 0)
               /\ groups' = IF ~Active(m) THEN groups
                            ELSE IF GroupOf(m) = {} THEN Append(groups, Joined(m, n, EmptyGroup(m)))
                            ELSE [g \in DOMAIN groups |->
                                     IF g \in GroupOf(m) THEN Joined(m, n, groups[g]) ELSE groups[g]]
               /\ errors' = IF told THEN errors \cup {n} ELSE errors
    /\ UNCHANGED <<enable_endpoints, load_balancer, resolver, resolvers, clusters, at, given,
                   phase>>

EndMappings ==
    /\ phase = "mappings"
    /\ phase' = "finalize"
    /\ UNCHANGED <<enable_endpoints, load_balancer, resolver, resolvers, offered, groups,
                   clusters, cluster, errors, at, given>>
-----------------------------------------------------------------------------
(* IRCluster. *)

(* The TLS context for a Mapping, "" for none: the null context for        *)
(* `tls: true'.                                                            *)
Context(m) == CASE m.tls = "true" -> "no-cert-upstream"
                [] m.tls # "true" /\ m.tls \in TLSContexts -> m.tls
                [] OTHER -> ""

OriginateTLS(m) == m.scheme = "https" \/ Context(m) # ""

Policy(m) == IF m.load_balancer = "" THEN load_balancer ELSE m.load_balancer

EndpointsOn(m) == Policy(m) # "" /\ enable_endpoints

Word(t) == IF t = "" THEN <<>> ELSE <<t>>

(* The service of a Mapping as written, without its punctuation. *)
ServiceWords(m) ==
    (IF m.scheme = "" THEN <<>> ELSE <<m.scheme, "", "">>) \o m.host
        \o (IF m.port = 0 THEN <<>> ELSE <<ToString(m.port)>>)

(* What the name of a cluster begins and ends with. *)
Prefix(marker) == <<"cluster">> \o Word(marker)

Suffix(m) ==
    (IF OriginateTLS(m) THEN <<"otls">> ELSE <<>>)
        \o ((IF m.scheme = "" THEN Word(Context(m)) ELSE <<>>)
             \o (IF EndpointsOn(m) THEN <<"er", Policy(m)>> ELSE <<>>))

(* A mistake: whether TLS is spoken does not show in the name. *)
cluster_name_plain(m, marker) ==
    Prefix(marker) \o (ServiceWords(m) \o (IF EndpointsOn(m) THEN <<"er", Policy(m)>> ELSE <<>>))

cluster_name(m, marker) == Prefix(marker) \o (ServiceWords(m) \o Suffix(m))

Port(m) == IF m.port \in {0, BadPort} THEN IF OriginateTLS(m) THEN 443 ELSE 80 ELSE m.port

(* ir.resolve_targets: does the resolver find targets?  A name with dots   *)
(* begins with a service and its namespace.                                *)
Targets(m) ==
    LET r == resolvers[ResolverOf(m)]
        dotted == m.dots /\ Len(m.host) > 1
    IN  CASE m.host = IPAddress \/ r.kind = "KubernetesServiceResolver" -> TRUE
          [] r.kind = "KubernetesEndpointResolver" ->
                 [by |-> "k8s", service |-> IF dotted THEN <<m.host[1]>> ELSE m.host,
                  scope |-> IF dotted THEN m.host[2] ELSE "default", port |-> Port(m)] \in Endpoints
          [] r.kind = "ConsulResolver" ->
                 [by |-> "consul", service |-> m.host, scope |-> r.datacenter, port |-> Anything]
                     \in Endpoints

IRCluster(n, marker) ==
    LET m == offered[n]
    IN  [key |-> cluster_name(m, marker), name |-> [base |-> cluster_name(m, marker), number |-> -1],
         mapping |-> n, tls |-> OriginateTLS(m), words |-> ServiceWords(m),
         policy |-> IF EndpointsOn(m) THEN Policy(m) ELSE "",
         active |-> m.port # BadPort /\ Targets(m)]

(* A mistake: a cluster without endpoints is disabled without an error. *)
ClusterErrs_silent(m) ==
    \/ m.tls # "" /\ Context(m) = ""
    \/ m.scheme = "http" /\ Context(m) # ""
    \/ Policy(m) # "" /\ ~enable_endpoints
    \/ m.port = BadPort

(* Does making a cluster for m post an error? *)
ClusterErrs(m) ==
    \/ m.tls # "" /\ Context(m) = ""
    \/ m.scheme = "http" /\ Context(m) # ""
    \/ Policy(m) # "" /\ ~enable_endpoints
    \/ m.port = BadPort
    \/ ~Targets(m)

(* add_cluster: of clusters of one name the first is kept. *)
add_cluster(c, cs) == IF \E i \in DOMAIN cs : cs[i].key = c.key THEN cs ELSE Append(cs, c)

(* The Mappings of a group that get clusters, each with its marker, in     *)
(* order: the shadow, and the others unless the group redirects.           *)
Served(group) ==
    (IF group.shadow # 0 THEN <<[n |-> group.shadow, marker |-> "shadow"]>> ELSE <<>>) \o
    (IF group.host_redirect # 0 THEN <<>>
     ELSE [i \in DOMAIN group.mappings |-> [n |-> group.mappings[i], marker |-> ""]])

(* add_cluster_for_mapping, for the next Mapping of the group.             *)
AddCluster ==
    /\ phase = "finalize"
    /\ at <= Len(groups)
    /\ given < Len(Served(groups[at]))
    /\ LET s == Served(groups[at])[given + 1]
           stored == add_cluster(IRCluster(s.n, s.marker), clusters)
       IN  /\ clusters' = stored
           /\ cluster' = [cluster EXCEPT ![s.n] =
                             CHOOSE i \in DOMAIN stored :
                                 stored[i].key = cluster_name(offered[s.n], s.marker)]
           /\ errors' = IF ClusterErrs(offered[s.n]) THEN errors \cup {s.n} ELSE errors
    /\ given' = given + 1
    /\ UNCHANGED <<enable_endpoints, load_balancer, resolver, resolvers, offered, groups, at,
                   phase>>

(* MappingFactory.finalize goes on to the next group. *)
EndGroup ==
    /\ phase = "finalize"
    /\ at <= Len(groups)
    /\ given = Len(Served(groups[at]))
    /\ at' = at + 1
    /\ given' = 0
    /\ UNCHANGED <<enable_endpoints, load_balancer, resolver, resolvers, offered, groups,
                   clusters, cluster, errors, phase>>

Long == {i \in DOMAIN clusters : Len(clusters[i].key) > MaxName}

Short(i) == SubSeq(clusters[i].key, 1, ShortName)

Colliding(i) == {j \in Long : Short(j) = Short(i)}

(* A mistake: the numbers start over for every name. *)
Numbers_zero == {[i \in Long |-> 0]}

(* Names that are shortened to the same one are numbered from 0.  The code *)
(* numbers them in string order; any order is allowed here.                *)
Numbers ==
    {f \in [Long -> 0 .. Cardinality(Long)] :
        \A i \in Long : {f[j] : j \in Colliding(i)} = 0 .. Cardinality(Colliding(i)) - 1}

(* The end of IR.__init__.  The objects that groups hold are renamed too.  *)
Mangle ==
    /\ phase = "finalize"
    /\ at > Len(groups)
    /\ \E f \in Numbers :
           clusters' = [i \in DOMAIN clusters |->
                           IF i \in Long
                           THEN [clusters[i] EXCEPT !.name = [base |-> Short(i), number |-> f[i]]]
                           ELSE clusters[i]]
    /\ phase' = "done"
    /\ UNCHANGED <<enable_endpoints, load_balancer, resolver, resolvers, offered, groups, cluster,
                   errors, at, given>>

Next == LoadResolvers \/ AddMapping \/ EndMappings \/ AddCluster \/ EndGroup \/ Mangle

Spec == Init /\ [][Next]_vars
-----------------------------------------------------------------------------
(* Every Mapping is heard of: when the IR is complete it has a cluster     *)
(* that is in use, or it is the redirect of its group, or there is an      *)
(* error about it or about the Mapping that it shares a cluster with.  The *)
(* one exception is a Mapping whose group redirects, which loses its route *)
(* to the redirect without a word.                                         *)
MappingsAccounted ==
    phase = "done" =>
        \A n \in DOMAIN offered :
            \/ n \in errors
            \/ \E g \in DOMAIN groups : groups[g].host_redirect = n
            \/ \E g \in DOMAIN groups : n \in Range(groups[g].mappings) /\ groups[g].host_redirect # 0
            \/ cluster[n] # 0 /\ LET c == clusters[cluster[n]]
                                 IN  c.active \/ c.mapping \in errors

(* "multiple mappings can use the same service, and we don't want multiple *)
(* clusters" (ir.py:117), but they share a cluster for nothing less: a     *)
(* Mapping's cluster reaches the service it names, over TLS only if it     *)
(* asks for that, and spreads the load as it asks.  Names lose their       *)
(* punctuation, so `a.b' and `a-b' do share a cluster, and so do Mappings  *)
(* that differ in the resolver, or in the TLS context of an https service. *)
(* And no service may have a word of its own that names are marked with:   *)
(* the shadow of `a' would share a cluster with `shadow-a'.                *)
OwnService ==
    (\A n \in DOMAIN offered : Range(offered[n].host) \cap Marks = {}) =>
    \A n \in DOMAIN cluster :
        cluster[n] # 0 =>
            LET c == clusters[cluster[n]]
                m == offered[n]
            IN  /\ c.words = ServiceWords(m)
                /\ c.tls = OriginateTLS(m)
                /\ c.policy = IF EndpointsOn(m) THEN Policy(m) ELSE ""

(* What Envoy gets: no two clusters of one name, and none with a name that *)
(* is too long, when all the long ones have been shortened.                *)
NamesDistinct ==
    phase = "done" =>
        \A i, j \in DOMAIN clusters :
            /\ clusters[i].name = clusters[j].name => i = j
            /\ Len(clusters[i].name.base) <= MaxName

(* A group holds only Mappings for the very requests it routes, and no     *)
(* request has two groups: hashes that collide, because a group_id runs    *)
(* prefix and headers together, never mix two routes.                      *)
GroupsKeptApart ==
    /\ \A g \in DOMAIN groups :
           \A n \in Range(groups[g].mappings) \cup ({groups[g].shadow, groups[g].host_redirect} \ {0}) :
               /\ offered[n].prefix = groups[g].core.prefix
               /\ offered[n].headers = groups[g].core.headers
    /\ \A g, h \in DOMAIN groups :
           groups[g].core.prefix = groups[h].core.prefix /\ groups[g].core.headers = groups[h].core.headers
               => g = h
=============================================================================
