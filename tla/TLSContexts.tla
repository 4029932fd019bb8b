---------------------------- MODULE TLSContexts ----------------------------
(***************************************************************************)
(* How the IR decides what TLS to speak.  TLSModuleFactory turns the       *)
(* legacy TLS module into TLS contexts, save_tls_contexts adds the         *)
(* TLSContext resources, IRAmbassador.finalize resolves the secrets of     *)
(* each and picks the port, ListenerFactory makes the listeners, and       *)
(* V2Listener.handle_sni gives each termination context a filter chain.    *)
(*                                                                         *)
(* A name with dots in it is the sequence of the parts between them, so    *)
(* that f'{name}.{namespace}' is name \o namespace.  Where a certificate   *)
(* comes from is a record of the shape of a secret; files have no          *)
(* namespace.                                                              *)
(***************************************************************************)
EXTENDS Integers, FiniteSets, Sequences, Functions

CONSTANTS Parts,         \* the words between the dots of names
          AmbNamespace,  \* ambassador_namespace
          Secrets,       \* the secrets there may be: records [name, namespace]
          SecretSets,    \* what they may hold: functions from Secrets to Contents
          Contexts,      \* TLSContext resources
          Modules,       \* TLS modules, and 'tls' blocks of the Ambassador module
          MaxContexts,   \* bound on the TLSContexts of one configuration
          Hosts          \* hosts that Mappings ask for

SERVICE_PORT_HTTP == 8080
SERVICE_PORT_HTTPS == 8443

(* The paths of certificates that are given as files. *)
NoPath == [name |-> <<>>, namespace |-> <<>>]
FileThere == [name |-> <<"file">>, namespace |-> <<>>]
FileGone == [name |-> <<"gone">>, namespace |-> <<>>]

Files == {NoPath, FileThere, FileGone}

Contents == {"none", "garbled", "cert", "pair"}

NoBlock == [on |-> FALSE]

NoModule == [server |-> NoBlock, client |-> NoBlock, other |-> NoBlock]

NotAPort == 1   \* a redirect_cleartext_from that int() refuses

AmbassadorCerts == <<"ambassador-certs">>
AmbassadorCacert == <<"ambassador-cacert">>

(* The attributes that a TLSContext resource has... *)
ConfigOK(c) ==
    /\ c.secret \in Seq(Parts) /\ c.ca_secret \in Seq(Parts)
    /\ {c.cert_chain_file, c.private_key_file, c.cacert_chain_file} \subseteq Files
    /\ c.redirect_cleartext_from \in Nat

(* ...and the blocks of a TLS module: client has only a ca, the others no  *)
(* ca.                                                                     *)
BlockOK(block) ==
    block.on => /\ block.secret \in Seq(Parts)
                /\ {block.cert_chain_file, block.private_key_file} \subseteq Files
                /\ block.redirect_cleartext_from \in Nat

ClientOK(client) ==
    client.on => client.secret \in Seq(Parts) /\ client.cacert_chain_file \in Files

ASSUME TLSAssumption ==
    /\ SecretSets \subseteq [Secrets -> Contents]
    /\ \A s \in Secrets : s.name \in Seq(Parts) /\ s.namespace \in Seq(Parts) /\ Len(s.namespace) = 1
    /\ AmbNamespace \in Seq(Parts) /\ Len(AmbNamespace) = 1
    /\ AmbassadorCerts \in Seq(Parts) /\ AmbassadorCacert \in Seq(Parts)
    /\ \A c \in Contexts : ConfigOK(c)
    /\ \A m \in Modules : BlockOK(m.server) /\ BlockOK(m.other) /\ ClientOK(m.client)
    /\ MaxContexts \in Nat

VARIABLES watt,            \* do secrets come in watt's snapshots (or from files, kubewatch)?
          secrets,         \* what each secret holds
          namespacing,     \* tls_secret_namespacing of the Ambassador module's defaults
          amod_port,       \* service_port in the Ambassador module, 0 for none
          service_port,    \* ambassador_module.service_port
          tls_module,      \* the TLS module in force
          requested,       \* history: the contexts asked for, with their resources
          tls_contexts,    \* ir.tls_contexts: the entries of the dict, by their positions in it
          saved_secrets,   \* ir.saved_secrets
          at,              \* the next context to resolve
          errors,          \* history: the resources that errors are about
          listeners,       \* ports of the primary and the redirect listener
          mapped,          \* the hosts that Mappings turned out to ask for
          chains,          \* filter chains of the primary listener
          phase

inputs == <<watt, secrets, namespacing, amod_port>>

vars == <<inputs, service_port, tls_module, requested, tls_contexts,
          saved_secrets, at, errors, listeners, mapped, chains, phase>>

Init ==
    /\ watt \in BOOLEAN
    /\ secrets \in SecretSets
    /\ namespacing \in BOOLEAN
    /\ amod_port \in {0, SERVICE_PORT_HTTP}
    /\ service_port = SERVICE_PORT_HTTP
    /\ tls_module = NoModule
    /\ requested = {}
    /\ tls_contexts = <<>>
    /\ saved_secrets = <<>>
    /\ at = 1
    /\ errors = {}
    /\ listeners = <<>>
    /\ mapped = {}
    /\ chains = {}
    /\ phase = "module"
-----------------------------------------------------------------------------
(* Secrets. *)

Namespacing(c) == IF c.secret_namespacing = {} THEN namespacing ELSE TRUE \in c.secret_namespacing

(* The name and the namespace that a reference to a secret stands for. *)
SecretName(c, ref) ==
    IF Len(ref) > 1 /\ Namespacing(c)
    THEN [name |-> <<Head(ref)>>, namespace |-> Tail(ref)]
    ELSE [name |-> ref, namespace |-> AmbNamespace]

ss_key(s) == s.name \o s.namespace

(* SavedSecret.__bool__, NoPath for one that nothing was found for. *)
Good(ss) == ss \in Secrets /\ secrets[ss] \in {"cert", "pair"}

Known == {t \in Secrets : secrets[t] # "none"}

(* watt's snapshot has its secrets under their keys. *)
FromWatt(s) == {t \in Known : ss_key(t) = ss_key(s)}

(* A secret handler finds a secret by its name and namespace. *)
FromHandler(s) == Known \cap {s}

(* A secret_info, from watt's secrets if there are any. *)
load_secret(s) == IF watt THEN FromWatt(s) ELSE FromHandler(s)

(* saved_secrets[name] = t *)
Cached(saved, name, t) == [k \in {name} \cup DOMAIN saved |-> IF k = name THEN t ELSE saved[k]]

(* A mistake: the cache is looked up by the name alone. *)
resolve_secret_by_name(c, ref, saved) ==
    LET s == SecretName(c, ref)
        found == load_secret(s)
    IN  IF s.name \in DOMAIN saved /\ Good(saved[s.name])
        THEN [ss |-> saved[s.name], saved |-> saved]
        ELSE IF found = {}
             THEN [ss |-> NoPath, saved |-> saved]
             ELSE LET t == CHOOSE x \in found : TRUE
                  IN  [ss |-> t, saved |-> Cached(saved, s.name, t)]

(* A mistake: what was not found is saved for next time as well. *)
resolve_secret_saving_none(c, ref, saved) ==
    LET s == SecretName(c, ref)
        found == load_secret(s)
    IN  IF ss_key(s) \in DOMAIN saved /\ Good(saved[ss_key(s)])
        THEN [ss |-> saved[ss_key(s)], saved |-> saved]
        ELSE LET t == IF found = {} THEN NoPath ELSE CHOOSE x \in found : TRUE
             IN  [ss |-> t, saved |-> Cached(saved, s.name, t)]

(* The cache is looked up by key, and filled by name. *)
resolve_secret(c, ref, saved) ==
    LET s == SecretName(c, ref)
        found == load_secret(s)
    IN  IF ss_key(s) \in DOMAIN saved /\ Good(saved[ss_key(s)])
        THEN [ss |-> saved[ss_key(s)], saved |-> saved]
        ELSE IF found = {}
             THEN [ss |-> NoPath, saved |-> saved]
             ELSE LET t == CHOOSE x \in found : TRUE
                  IN  [ss |-> t, saved |-> Cached(saved, s.name, t)]
-----------------------------------------------------------------------------
(* Making and saving contexts. *)

validate(c) ==
    /\ c.cert_chain_file # NoPath => c.private_key_file # NoPath
    /\ c.secret = <<>> \/ c.cert_chain_file = NoPath

(* A context in the IR: secret_info is spread over cert, key and ca. *)
IRTLSContext(kind, c) ==
    [id |-> <<kind, c.name>>, config |-> c, name |-> c.name,
     redirect |-> IF c.redirect_cleartext_from = NotAPort THEN 0 ELSE c.redirect_cleartext_from,
     cert |-> c.cert_chain_file, key |-> c.private_key_file, ca |-> c.cacert_chain_file,
     active |-> validate(c),
     errored |-> ~validate(c) \/ c.redirect_cleartext_from = NotAPort]

Truthy(ctx) == ctx.active /\ ~ctx.errored

(* The first context of a name is kept, unless an error was posted about   *)
(* it: then it counts as false, and the new one takes its place.           *)
save_tls_context(ctx, contexts) ==
    IF \E i \in DOMAIN contexts : contexts[i].name = ctx.name
    THEN [i \in DOMAIN contexts |->
             IF contexts[i].name = ctx.name /\ ~Truthy(contexts[i]) THEN ctx ELSE contexts[i]]
    ELSE Append(contexts, ctx)

Duplicate(ctx, contexts) ==
    \E i \in DOMAIN contexts : contexts[i].name = ctx.name /\ Truthy(contexts[i])

(* A context that is made is saved if it is active. *)
Save(ctx) ==
    /\ requested' = requested \cup {[id |-> ctx.id, config |-> ctx.config]}
    /\ tls_contexts' = IF ctx.active THEN save_tls_context(ctx, tls_contexts) ELSE tls_contexts
    /\ errors' = IF ctx.errored \/ Duplicate(ctx, tls_contexts) THEN errors \cup {ctx.id} ELSE errors

SaveNone == UNCHANGED <<requested, tls_contexts, errors>>

(* A mistake: the ca of the client block is not taken over. *)
from_legacy_clientless(name, block, termination, client) ==
    [name |-> name,
     secret |-> IF block.secret = <<>> THEN AmbassadorCerts ELSE block.secret,
     cert_chain_file |-> block.cert_chain_file,
     private_key_file |-> block.private_key_file,
     ca_secret |-> <<>>,
     cacert_chain_file |-> NoPath,
     hosts |-> IF termination THEN {"*"} ELSE {},
     alpn_protocols |-> block.alpn_protocols,
     redirect_cleartext_from |-> block.redirect_cleartext_from,
     secret_namespacing |-> {}]

(* from_legacy: a block of the TLS module becomes a context.  A client     *)
(* block that is on and names no certificate replaces the secret of the    *)
(* server block.                                                           *)
from_legacy(name, block, termination, client) ==
    LET nothing == /\ block.secret = <<>>
                   /\ block.cert_chain_file = NoPath
                   /\ block.private_key_file = NoPath
        validating == termination /\ client.on
        bare == /\ validating
                /\ client.secret = <<>>
                /\ client.cacert_chain_file = NoPath
    IN  [name |-> name,
         secret |-> IF bare THEN AmbassadorCacert ELSE IF nothing THEN AmbassadorCerts ELSE block.secret,
         cert_chain_file |-> block.cert_chain_file,
         private_key_file |-> block.private_key_file,
         ca_secret |-> IF validating THEN client.secret ELSE <<>>,
         cacert_chain_file |-> IF validating THEN client.cacert_chain_file ELSE NoPath,
         hosts |-> IF termination THEN {"*"} ELSE {},
         alpn_protocols |-> block.alpn_protocols,
         redirect_cleartext_from |-> block.redirect_cleartext_from,
         secret_namespacing |-> {}]

(* TLSModuleFactory.load_all: the 'tls' block of the Ambassador module, if *)
(* there is one, overrides the TLS module.  Its server and client blocks   *)
(* make one context...                                                     *)
LoadModule ==
    /\ phase = "module"
    /\ \E module, amod_tls \in Modules \cup {NoModule} :
           LET tls == IF amod_tls # NoModule THEN amod_tls ELSE module
           IN  /\ tls_module' = tls
               /\ IF tls.server.on
                  THEN Save(IRTLSContext("Module", from_legacy("server", tls.server, TRUE, tls.client)))
                  ELSE SaveNone
    /\ phase' = "other"
    /\ UNCHANGED <<inputs, service_port, saved_secrets, at, listeners, mapped, chains>>

(* ...and any other block makes one more. *)
LoadOther ==
    /\ phase = "other"
    /\ IF tls_module.other.on
       THEN Save(IRTLSContext("Module", from_legacy("other", tls_module.other, FALSE, NoBlock)))
       ELSE SaveNone
    /\ phase' = "contexts"
    /\ UNCHANGED <<inputs, service_port, tls_module, saved_secrets, at, listeners, mapped, chains>>

Ids == {r.id : r \in requested}

(* One turn of the loop of save_tls_contexts. *)
SaveContext ==
    /\ phase = "contexts"
    /\ Cardinality({id \in Ids : id[1] = "TLSContext"}) < MaxContexts
    /\ \E c \in Contexts :
           /\ <<"TLSContext", c.name>> \notin Ids
           /\ Save(IRTLSContext("TLSContext", c))
    /\ UNCHANGED <<inputs, service_port, tls_module, saved_secrets, at,
                   listeners, mapped, chains, phase>>

EndContexts ==
    /\ phase = "contexts"
    /\ phase' = "resolve"
    /\ UNCHANGED <<inputs, service_port, tls_module, requested, tls_contexts,
                   saved_secrets, at, errors, listeners, mapped, chains>>
-----------------------------------------------------------------------------
(* IRAmbassador.finalize. *)

Result(ctx, saved, valid, error) ==
    [ctx |-> [ctx EXCEPT !.active = valid, !.errored = @ \/ error], saved |-> saved]

Paths(ctx) == {ctx.cert, ctx.key, ctx.ca}

(* The end of resolve(): every path has to be a file that is there, and    *)
(* only the ca may be left out.                                            *)
CheckPaths(ctx, saved) ==
    LET bad == FileGone \in Paths(ctx) \/ NoPath \in {ctx.cert, ctx.key}
    IN  Result(ctx, saved, ~bad, bad)

(* From the ca_secret on.  A context with a redirect or ALPN protocols     *)
(* stays even if a secret of it could not be loaded.                       *)
ResolveCA(ctx, saved, secret_valid) ==
    LET wanted == ctx.config.ca_secret # <<>>
        is_valid == ctx.redirect # 0 \/ ctx.config.alpn_protocols
        r == IF wanted THEN resolve_secret(ctx.config, ctx.config.ca_secret, saved)
                       ELSE [ss |-> ctx.ca, saved |-> saved]
        validated == IF wanted /\ ~Good(r.ss) THEN ctx ELSE [ctx EXCEPT !.ca = r.ss]
    IN  IF (wanted \/ ctx.ca # NoPath) /\ ctx.cert = NoPath
        THEN Result(ctx, saved, FALSE, TRUE)
        ELSE IF secret_valid /\ (wanted => Good(r.ss))
             THEN CheckPaths(validated, r.saved)
             ELSE Result(validated, r.saved, is_valid, TRUE)

resolve(ctx, saved) ==
    LET r == resolve_secret(ctx.config, ctx.config.secret, saved)
    IN  IF ctx.config.secret = <<>>
        THEN ResolveCA(ctx, saved, TRUE)
        ELSE CASE ~Good(r.ss) -> ResolveCA(ctx, r.saved, FALSE)
               [] Good(r.ss) /\ secrets[r.ss] = "cert" -> Result(ctx, r.saved, FALSE, TRUE)
               [] OTHER -> ResolveCA([ctx EXCEPT !.cert = r.ss, !.key = r.ss], r.saved, TRUE)

(* A mistake: only a context without errors turns TLS on. *)
PortFor_sound(ctx) ==
    IF Truthy(ctx) /\ ctx.config.hosts # {} THEN SERVICE_PORT_HTTPS ELSE service_port

PortFor(ctx) ==
    IF ctx.active /\ ctx.config.hosts # {} THEN SERVICE_PORT_HTTPS ELSE service_port

(* One turn of the loop over the contexts. *)
Resolve ==
    /\ phase = "resolve"
    /\ at \in DOMAIN tls_contexts
    /\ LET r == resolve(tls_contexts[at], saved_secrets)
       IN  /\ tls_contexts' = [tls_contexts EXCEPT ![at] = r.ctx]
           /\ saved_secrets' = r.saved
           /\ errors' = IF r.ctx.errored THEN errors \cup {r.ctx.id} ELSE errors
           /\ service_port' = PortFor(r.ctx)
    /\ at' = at + 1
    /\ UNCHANGED <<inputs, tls_module, requested, listeners, mapped, chains, phase>>

(* The rest of finalize: the contexts that are not active are deleted. *)
Finalize ==
    /\ phase = "resolve"
    /\ at \notin DOMAIN tls_contexts
    /\ tls_contexts' = [i \in {i \in DOMAIN tls_contexts : tls_contexts[i].active} |-> tls_contexts[i]]
    /\ service_port' = IF amod_port # 0 THEN amod_port ELSE service_port
    /\ phase' = "listeners"
    /\ UNCHANGED <<inputs, tls_module, requested, saved_secrets, at, errors, listeners, mapped, chains>>
-----------------------------------------------------------------------------
(* ListenerFactory.load_all: the last context that asks for a redirect     *)
(* gives the port of the one redirect listener.                            *)
Terminating(ctx) == ctx.config.hosts # {}

Asking == {i \in DOMAIN tls_contexts : Terminating(tls_contexts[i]) /\ tls_contexts[i].redirect # 0}

LoadListeners ==
    /\ phase = "listeners"
    /\ \/ Asking = {} /\ listeners' = <<service_port>>
       \/ \E last \in Asking : /\ \A i \in Asking : i <= last
                              /\ listeners' = <<service_port, tls_contexts[last].redirect>>
    /\ phase' = "envoy"
    /\ UNCHANGED <<inputs, service_port, tls_module, requested, tls_contexts, saved_secrets, at,
                   errors, mapped, chains>>

Hosting(host) == {i \in DOMAIN tls_contexts : host \in tls_contexts[i].config.hosts}

(* IRBaseMapping.match_tls_context: the context of a Mapping for host, the *)
(* first, if there is one.                                                 *)
match_tls_context(host) ==
    {tls_contexts[i] : i \in {k \in Hosting(host) : \A j \in Hosting(host) : k <= j}}

(* The contexts that V2TLSContext makes something of: those that are true. *)
EnvoyContexts == {ctx \in Range(tls_contexts) : Terminating(ctx) /\ Truthy(ctx)}

(* A mistake: the certificates are compared, the hosts are not. *)
Matched_certs(ctx, sni) == sni.cert = ctx.cert /\ sni.key = ctx.key

Matched(ctx, sni) ==
    /\ sni.config.hosts = ctx.config.hosts
    /\ sni.cert = ctx.cert
    /\ sni.key = ctx.key

(* The filter chain of ctx, and the hosts whose Mappings it has routes for.*)
Chain(ctx, hosts) ==
    [id |-> ctx.id, cert |-> ctx.cert, key |-> ctx.key, ca |-> ctx.ca, hosts |-> ctx.config.hosts,
     routes |-> {host \in hosts : \A sni \in match_tls_context(host) : Matched(ctx, sni)}]

Cleartext(hosts) ==
    [id |-> <<>>, cert |-> NoPath, key |-> NoPath, ca |-> NoPath, hosts |-> {},
     routes |-> {host \in hosts : match_tls_context(host) = {}}]

(* V2Route.generate and handle_sni, for Mappings of the hosts in hosts.    *)
(* The certificate of the context of each of them is looked up, and it is  *)
(* an error that nothing catches if it has none.                           *)
HandleSni ==
    /\ phase = "envoy"
    /\ \E hosts \in SUBSET Hosts :
           /\ mapped' = hosts
           /\ IF /\ EnvoyContexts # {}
                 /\ \E host \in hosts : \E sni \in match_tls_context(host) : sni.cert = NoPath
              THEN phase' = "raised" /\ UNCHANGED chains
              ELSE /\ phase' = "done"
                   /\ chains' = IF EnvoyContexts = {} THEN {Cleartext(hosts)}
                                ELSE {Chain(ctx, hosts) : ctx \in EnvoyContexts}
    /\ UNCHANGED <<inputs, service_port, tls_module, requested, tls_contexts, saved_secrets, at,
                   errors, listeners>>

Next ==
    \/ LoadModule \/ LoadOther \/ SaveContext \/ EndContexts
    \/ Resolve \/ Finalize \/ LoadListeners \/ HandleSni

Spec == Init /\ [][Next]_vars
-----------------------------------------------------------------------------
ContextOK(ctx) ==
    /\ [id |-> ctx.id, config |-> ctx.config] \in requested
    /\ ctx.cert \in Secrets \cup Files
    /\ ctx.key \in Secrets \cup Files
    /\ ctx.ca \in Secrets \cup Files
    /\ ctx.active \in BOOLEAN /\ ctx.errored \in BOOLEAN

TypeOK ==
    /\ \A i \in DOMAIN tls_contexts : ContextOK(tls_contexts[i])
    /\ \A i, j \in DOMAIN tls_contexts : tls_contexts[i].name = tls_contexts[j].name => i = j
    /\ \A key \in DOMAIN saved_secrets : saved_secrets[key] \in Secrets
    /\ at \in 1 .. MaxContexts + 3
    /\ errors \subseteq Ids
    /\ service_port \in {SERVICE_PORT_HTTP, SERVICE_PORT_HTTPS}
    /\ Len(listeners) <= 2
    /\ phase \in {"module", "other", "contexts", "resolve", "listeners", "envoy", "done", "raised"}

Live == {ctx \in Range(tls_contexts) : ctx.active}

(* The secret that a reference means: the dots of `name.namespace' decide. *)
Meant(c, ref) == {s \in Secrets : ss_key(s) = ss_key(SecretName(c, ref))}

(* A context that takes dots for parts of a name, and whose reference is   *)
(* the key of another one's secret.                                        *)
Shadowed(c, ref) ==
    \E r \in requested : /\ ~Namespacing(r.config)
                         /\ ss_key(SecretName(c, ref)) \in {r.config.secret, r.config.ca_secret}

(* A context serves the certificate and the key, and trusts the ca, of the *)
(* very secrets it names, never those of another namespace or of another   *)
(* context resolved before it.  The one exception is a context resolved    *)
(* after one with secret_namespacing off: resolve_secret saves `a.b' of    *)
(* its own namespace under the key of `a' in the namespace `b'.            *)
RightSecret ==
    \A ctx \in Live :
        /\ ctx.config.secret # <<>> /\ ctx.cert # NoPath =>
               /\ ctx.key = ctx.cert
               /\ ctx.cert \in Meant(ctx.config, ctx.config.secret)
                     \/ Shadowed(ctx.config, ctx.config.secret)
        /\ ctx.config.ca_secret # <<>> /\ ctx.ca \in Secrets =>
               ctx.ca \in Meant(ctx.config, ctx.config.ca_secret)
                     \/ Shadowed(ctx.config, ctx.config.ca_secret)

(* A client block that is on and names no certificate. *)
Bare(client) == client.on /\ client.secret = <<>> /\ client.cacert_chain_file = NoPath

Termination == <<"Module", "server">>   \* the context of the TLS module's server block

(* A TLSContext asks for a ca by naming one, the TLS module by having a    *)
(* client block that is on.                                                *)
AsksForCA(r) ==
    \/ r.config.ca_secret # <<>>
    \/ r.config.cacert_chain_file # NoPath
    \/ r.id = Termination /\ tls_module.client.on

(* Whoever asks for TLS gets it or is told: of every termination context   *)
(* asked for, in the TLS module in force or in a TLSContext, Envoy gets a  *)
(* filter chain with a certificate, and a ca if one was asked for, or      *)
(* there is an error about it.  The one exception is a client block that   *)
(* is on and names no certificate: from_legacy puts the default for it     *)
(* under `secret', and clients are not validated (ClientCertsOn).          *)
ServedOrTold ==
    phase = "done" =>
        \A r \in requested :
            \/ r.id \in errors
            \/ r.config.hosts = {}
            \/ \E chain \in chains :
                   /\ chain.id = r.id
                   /\ chain.cert # NoPath /\ chain.key # NoPath
                   /\ AsksForCA(r) => chain.ca # NoPath \/ (r.id = Termination /\ Bare(tls_module.client))

(* The redirect listener never takes the port of the primary listener: if  *)
(* a context redirects cleartext, the primary listener has left the        *)
(* cleartext port, even if the secret of that context could not be loaded  *)
(* (tests/t_redirect.py:147).  It takes a service_port that is not set     *)
(* explicitly.                                                             *)
ListenersApart ==
    Len(listeners) = 2 /\ amod_port = 0 /\ listeners[2] # SERVICE_PORT_HTTPS =>
        listeners[1] # listeners[2]

(* A Mapping whose host has a TLS context is served in filter chains for   *)
(* that host only, and it is in one of them unless there is an error about *)
(* the context; a Mapping of any other host is in every chain.             *)
RoutesFollowHosts ==
    phase = "done" =>
        \A host \in mapped :
            LET mine == {chain \in chains : host \in chain.routes}
            IN  /\ match_tls_context(host) = {} => mine = chains
                /\ \A sni \in match_tls_context(host) :
                       /\ \A chain \in mine : host \in chain.hosts
                       /\ sni.id \in errors \/ \E chain \in mine : chain.id = sni.id

(* "When Ambassador starts, it will notice the `ambassador-cacert' secret  *)
(* and turn TLS client-certificate auth on (assuming that TLS termination  *)
(* is enabled)" (docs/reference/core/tls.md:146), for a TLS module that    *)
(* has client certificates on and names no certificate for them: the       *)
(* comment in from_legacy says that it is this secret that is assumed.     *)
ClientCertsOn ==
    phase = "done" /\ tls_module.server.on /\ Bare(tls_module.client)
      /\ (\A s \in Secrets : /\ s.name = AmbassadorCerts => secrets[s] = "pair"
                            /\ s.name = AmbassadorCacert => Good(s)) =>
        \E chain \in chains : chain.id = Termination /\ chain.ca # NoPath
=============================================================================
