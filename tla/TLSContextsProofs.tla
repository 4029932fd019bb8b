------------------------- MODULE TLSContextsProofs -------------------------
(***************************************************************************)
(* Theorems about TLSContexts, for any secrets, TLS modules, TLSContexts   *)
(* and hosts.                                                              *)
(***************************************************************************)
EXTENDS TLSContexts, FiniteSetTheorems, SequenceTheorems, TLAPS

Early == {"module", "other", "contexts", "resolve"}

Late == {"listeners", "envoy", "done", "raised"}

(* What a context of the IR looks like: it is made of a context that was   *)
(* asked for.                                                              *)
ContextsOf(R) ==
    [id : {r.id : r \in R}, config : {r.config : r \in R}, name : {r.config.name : r \in R},
     redirect : Nat, cert : Secrets \cup Files, key : Secrets \cup Files, ca : Secrets \cup Files,
     active : BOOLEAN, errored : BOOLEAN]

ContextSet == ContextsOf(requested)

Ask(ctx) == [id |-> ctx.id, config |-> ctx.config]

(* The contexts of the dict are made of what was asked for, and the dict   *)
(* is in order until Finalize.                                             *)
ShapeInv ==
    /\ phase \in Early \cup Late
    /\ secrets \in SecretSets
    /\ tls_module \in Modules \cup {NoModule}
    /\ \A r \in requested : ConfigOK(r.config)
    /\ DOMAIN tls_contexts \subseteq Nat
    /\ \A i \in DOMAIN tls_contexts : tls_contexts[i] \in ContextSet /\ Ask(tls_contexts[i]) \in requested
    /\ phase \in Early => tls_contexts \in Seq(ContextSet)

(* No two contexts of the dict have one name. *)
NamesInv == \A i, j \in DOMAIN tls_contexts : tls_contexts[i].name = tls_contexts[j].name => i = j

Resources == {id \in Ids : id[1] = "TLSContext"}

FromModule == CASE phase = "module" -> 0 [] phase = "other" -> 1 [] OTHER -> 2

(* The dict has at most two contexts besides those of TLSContexts, and the *)
(* loop over it stays within it.                                           *)
CountInv ==
    /\ IsFiniteSet(Resources) /\ Cardinality(Resources) <= MaxContexts
    /\ phase \in {"module", "other"} => Resources = {}
    /\ phase \in Early => /\ Len(tls_contexts) <= FromModule + Cardinality(Resources)
                          /\ at \in 1 .. Len(tls_contexts) + 1
                          /\ phase # "resolve" => at = 1
    /\ at \in 1 .. MaxContexts + 3

Resolved(i) == phase \in Late \/ (phase = "resolve" /\ i < at)

(* A context that is not active, or not true, has its error, and nothing   *)
(* that was asked for has vanished without one.                            *)
ToldInv ==
    /\ errors \subseteq Ids
    /\ \A i \in DOMAIN tls_contexts :
           /\ tls_contexts[i].errored => tls_contexts[i].id \in errors
           /\ ~tls_contexts[i].active => tls_contexts[i].errored /\ Resolved(i) /\ phase = "resolve"
    /\ \A r \in requested : r.id \in errors \/ \E i \in DOMAIN tls_contexts : Ask(tls_contexts[i]) = r

(* A ca that was given as a file is not lost. *)
HasFile(ctx) == ctx.config.cacert_chain_file # NoPath => ctx.ca # NoPath

Complete(ctx) ==
    /\ ctx.cert # NoPath /\ ctx.key # NoPath
    /\ ctx.config.ca_secret # <<>> => ctx.ca # NoPath
    /\ HasFile(ctx)

(* Before a context is resolved it has only what it was given as files;    *)
(* after that, it has all it needs or an error.                            *)
PathsInv ==
    \A i \in DOMAIN tls_contexts :
        LET ctx == tls_contexts[i]
        IN  /\ ~Resolved(i) => /\ ctx.config.secret # <<>> => ctx.cert = NoPath
                               /\ ctx.ca \in Files /\ HasFile(ctx)
            /\ Resolved(i) /\ ~ctx.errored => Complete(ctx)

(* Only a context with namespacing off fills the cache under what may be   *)
(* the key of a secret: other names have no dots.                          *)
CacheOK(saved) ==
    \A key \in DOMAIN saved :
        /\ saved[key] \in Secrets
        /\ Len(key) <= 1 \/ \E r \in requested : /\ ~Namespacing(r.config)
                                                 /\ key \in {r.config.secret, r.config.ca_secret}

CacheInv ==
    /\ CacheOK(saved_secrets)
    /\ phase \in {"module", "other", "contexts"} => DOMAIN saved_secrets = {}

(* What a reference can have been resolved to. *)
Fits(s, c, ref) == s \in Meant(c, ref) \/ Shadowed(c, ref)

RightCert(ctx) ==
    ctx.config.secret # <<>> /\ ctx.cert # NoPath =>
        ctx.key = ctx.cert /\ Fits(ctx.cert, ctx.config, ctx.config.secret)

RightCA(ctx) ==
    ctx.config.ca_secret # <<>> /\ ctx.ca \in Secrets => Fits(ctx.ca, ctx.config, ctx.config.ca_secret)

(* What has been resolved is what was meant. *)
RightInv == \A i \in DOMAIN tls_contexts : RightCert(tls_contexts[i]) /\ RightCA(tls_contexts[i])

(* A termination context that stays takes the primary listener to the      *)
(* HTTPS port.                                                             *)
PortInv ==
    /\ service_port \in {SERVICE_PORT_HTTP, SERVICE_PORT_HTTPS}
    /\ amod_port \in {0, SERVICE_PORT_HTTP}
    /\ \A i \in DOMAIN tls_contexts :
           (Resolved(i) /\ tls_contexts[i].active /\ Terminating(tls_contexts[i])
              /\ (phase \in Late => amod_port = 0)) => service_port = SERVICE_PORT_HTTPS
    /\ Len(listeners) <= 2
    /\ ListenersApart

(* What handle_sni made. *)
ChainsInv ==
    phase = "done" =>
        chains = IF EnvoyContexts = {} THEN {Cleartext(mapped)}
                 ELSE {Chain(ctx, mapped) : ctx \in EnvoyContexts}

IInv ==
    /\ ShapeInv /\ NamesInv /\ CountInv /\ ToldInv /\ PathsInv /\ CacheInv /\ RightInv
    /\ PortInv /\ ChainsInv
-----------------------------------------------------------------------------
(* Secrets have a namespace, and files have none. *)
LEMMA FilesNotSecrets == Files \cap Secrets = {}
<1>1. \A f \in Files : Len(f.namespace) = 0
  BY DEF Files, NoPath, FileThere, FileGone
<1>2. \A s \in Secrets : Len(s.namespace) = 1
  BY TLSAssumption
<1> QED BY <1>1, <1>2

(* More requests allow more contexts. *)
LEMMA ContextsGrow ==
    ASSUME NEW R, NEW S, R \subseteq S PROVE ContextsOf(R) \subseteq ContextsOf(S)
<1>1. {r.id : r \in R} \subseteq {r.id : r \in S}
  OBVIOUS
<1>2. {r.config : r \in R} \subseteq {r.config : r \in S}
  OBVIOUS
<1>3. {r.config.name : r \in R} \subseteq {r.config.name : r \in S}
  OBVIOUS
<1> QED BY <1>1, <1>2, <1>3 DEF ContextsOf

(* The key of a reference has at least two parts, and the names it is      *)
(* saved under one, or they are the references of a context that has       *)
(* namespacing off.                                                        *)
LEMMA KeysAndNames ==
    ASSUME NEW c, NEW ref \in Seq(Parts), ref # <<>>
    PROVE  LET s == SecretName(c, ref)
           IN  /\ Len(ss_key(s)) >= 2
               /\ Len(s.name) <= 1 \/ (~Namespacing(c) /\ s.name = ref)
<1>1. Len(ref) \in Nat \ {0} /\ Head(ref) \in Parts /\ Tail(ref) \in Seq(Parts)
      /\ Len(Tail(ref)) = Len(ref) - 1
  BY HeadTailProperties, EmptySeq, LenProperties
<1>2. AmbNamespace \in Seq(Parts) /\ Len(AmbNamespace) = 1
  BY TLSAssumption
<1>3. CASE Len(ref) > 1 /\ Namespacing(c)
  <2>1. SecretName(c, ref).name = <<Head(ref)>> /\ SecretName(c, ref).namespace = Tail(ref)
    BY <1>3 DEF SecretName
  <2>2. <<Head(ref)>> \in Seq(Parts) /\ Len(<<Head(ref)>>) = 1
    BY <1>1
  <2>3. Len(<<Head(ref)>> \o Tail(ref)) = 1 + (Len(ref) - 1)
    BY <1>1, <2>2, ConcatProperties
  <2>4. Len(ss_key(SecretName(c, ref))) = 1 + (Len(ref) - 1)
    BY <2>1, <2>3 DEF ss_key
  <2> QED BY <1>1, <1>3, <2>1, <2>2, <2>4
<1>4. CASE ~(Len(ref) > 1 /\ Namespacing(c))
  <2>1. SecretName(c, ref).name = ref /\ SecretName(c, ref).namespace = AmbNamespace
    BY <1>4 DEF SecretName
  <2>2. Len(ref \o AmbNamespace) = Len(ref) + 1
    <3>1. Len(ref \o AmbNamespace) = Len(ref) + Len(AmbNamespace)
      BY <1>2, ConcatProperties
    <3> QED BY <1>1, <1>2, <3>1
  <2>3. Len(ss_key(SecretName(c, ref))) = Len(ref) + 1
    BY <2>1, <2>2 DEF ss_key
  <2> QED BY <1>1, <1>4, <2>1, <2>3
<1> QED BY <1>3, <1>4

(* The name and the namespace of a reference are sequences of parts. *)
LEMMA KeysInSeq ==
    ASSUME NEW c, NEW ref \in Seq(Parts), ref # <<>>
    PROVE  SecretName(c, ref).name \in Seq(Parts) /\ SecretName(c, ref).namespace \in Seq(Parts)
<1>1. Head(ref) \in Parts /\ Tail(ref) \in Seq(Parts) /\ <<Head(ref)>> \in Seq(Parts)
  BY HeadTailProperties, EmptySeq
<1> QED BY <1>1, TLSAssumption DEF SecretName

(* What resolve_secret finds for a context that was asked for fits, and    *)
(* the cache stays as CacheOK describes it.                                *)
LEMMA ResolveSecret ==
    ASSUME NEW r \in requested, NEW ref \in {r.config.secret, r.config.ca_secret},
           ref \in Seq(Parts), ref # <<>>, NEW saved, CacheOK(saved)
    PROVE  LET found == resolve_secret(r.config, ref, saved)
           IN  /\ found.ss \in Secrets \cup {NoPath}
               /\ Good(found.ss) => found.ss \in Secrets /\ Fits(found.ss, r.config, ref)
               /\ CacheOK(found.saved)
<1> DEFINE c == r.config
           s == SecretName(c, ref)
           key == ss_key(s)
           found == load_secret(s)
           t == CHOOSE x \in found : TRUE
           R == resolve_secret(c, ref, saved)
<1>1. Len(key) >= 2 /\ (Len(s.name) <= 1 \/ (~Namespacing(c) /\ s.name = ref))
  BY KeysAndNames
<1>2. CASE key \in DOMAIN saved /\ Good(saved[key])
  <2>1. R.ss = saved[key] /\ R.saved = saved
    BY <1>2 DEF resolve_secret
  <2>2. R.ss \in Secrets
    BY <1>2, <2>1 DEF CacheOK
  <2>3. ~(Len(key) <= 1)
    <3> HIDE DEF key
    <3>1. CASE Len(key) \in Int
      BY <1>1, <3>1
    <3>2. Len(key) \in Int
      <4>1. s.name \in Seq(Parts) /\ s.namespace \in Seq(Parts)
        BY KeysInSeq DEF SecretName
      <4> QED BY <4>1, ConcatProperties, LenProperties DEF key, ss_key
    <3> QED BY <3>1, <3>2
  <2>4. PICK q \in requested : ~Namespacing(q.config) /\ key \in {q.config.secret, q.config.ca_secret}
    BY <1>2, <2>3 DEF CacheOK
  <2>5. Shadowed(c, ref)
    BY <2>4 DEF Shadowed
  <2> QED BY <2>1, <2>2, <2>5 DEF Fits
<1>3. CASE ~(key \in DOMAIN saved /\ Good(saved[key])) /\ found = {}
  <2>1. R.ss = NoPath /\ R.saved = saved
    BY <1>3 DEF resolve_secret
  <2>2. ~Good(NoPath)
    BY FilesNotSecrets DEF Good, Files
  <2> QED BY <2>1, <2>2
<1>4. CASE ~(key \in DOMAIN saved /\ Good(saved[key])) /\ found # {}
  <2>1. R.ss = t /\ R.saved = Cached(saved, s.name, t)
    BY <1>4 DEF resolve_secret
  <2>2. t \in found
    BY <1>4
  <2>3. t \in Secrets /\ ss_key(t) = key
    BY <2>2 DEF load_secret, FromWatt, FromHandler, Known
  <2>4. Fits(t, c, ref)
    BY <2>3 DEF Fits, Meant
  <2>5. CacheOK(R.saved)
    <3> SUFFICES ASSUME NEW k \in DOMAIN R.saved
                 PROVE  /\ R.saved[k] \in Secrets
                        /\ Len(k) <= 1 \/ \E q \in requested :
                               ~Namespacing(q.config) /\ k \in {q.config.secret, q.config.ca_secret}
      BY DEF CacheOK
    <3> HIDE DEF t, key, found, R
    <3>1. k \in {s.name} \cup DOMAIN saved
      BY <2>1 DEF Cached
    <3>2. CASE k = s.name
      <4>1. R.saved[k] = t
        BY <2>1, <3>2 DEF Cached
      <4>2. Len(k) <= 1 \/ (~Namespacing(c) /\ k = ref)
        BY <1>1, <3>2
      <4> QED BY <2>3, <4>1, <4>2
    <3>3. CASE k # s.name
      <4>1. k \in DOMAIN saved /\ R.saved[k] = saved[k]
        BY <2>1, <3>1, <3>3 DEF Cached
      <4> QED BY <4>1 DEF CacheOK
    <3> QED BY <3>2, <3>3
  <2> QED BY <2>1, <2>3, <2>4, <2>5
<1> QED BY <1>2, <1>3, <1>4

(* The end of a resolution changes only whether the context is active and  *)
(* errored.                                                                *)
LEMMA ResultFields ==
    ASSUME NEW ctx \in ContextSet, NEW saved, NEW valid \in BOOLEAN, NEW error \in BOOLEAN
    PROVE  LET R == Result(ctx, saved, valid, error)
           IN  /\ R.saved = saved
               /\ R.ctx \in ContextSet
               /\ R.ctx.id = ctx.id /\ R.ctx.config = ctx.config /\ R.ctx.name = ctx.name
               /\ R.ctx.cert = ctx.cert /\ R.ctx.key = ctx.key /\ R.ctx.ca = ctx.ca
               /\ R.ctx.active <=> valid
               /\ R.ctx.errored <=> (ctx.errored \/ error)
<1> DEFINE R == Result(ctx, saved, valid, error)
           e == ctx.errored \/ error
<1>1. e \in BOOLEAN
  OBVIOUS
<1>2. R.saved = saved /\ R.ctx = [[ctx EXCEPT !.active = valid] EXCEPT !.errored = e]
  BY DEF Result, ContextSet, ContextsOf
<1> HIDE DEF e
<1>3. /\ R.ctx \in ContextSet
      /\ R.ctx.id = ctx.id /\ R.ctx.config = ctx.config /\ R.ctx.name = ctx.name
      /\ R.ctx.cert = ctx.cert /\ R.ctx.key = ctx.key /\ R.ctx.ca = ctx.ca
      /\ R.ctx.active = valid /\ R.ctx.errored = e
  BY <1>1, <1>2 DEF ContextSet, ContextsOf
<1> QED BY <1>2, <1>3 DEF e

(* What the resolution of ctx promises. *)
Outcome(ctx, R) ==
    /\ R.ctx \in ContextSet
    /\ R.ctx.id = ctx.id /\ R.ctx.config = ctx.config /\ R.ctx.name = ctx.name
    /\ ~R.ctx.active => R.ctx.errored
    /\ ~R.ctx.errored => Complete(R.ctx)
    /\ RightCert(R.ctx) /\ RightCA(R.ctx)
    /\ CacheOK(R.saved)

(* CheckPaths refuses a context without certificate or key. *)
LEMMA CheckPathsOutcome ==
    ASSUME NEW ctx \in ContextSet, NEW saved, RightCert(ctx), RightCA(ctx), CacheOK(saved),
           ctx.config.ca_secret # <<>> => ctx.ca # NoPath, HasFile(ctx)
    PROVE  Outcome(ctx, CheckPaths(ctx, saved))
<1> DEFINE bad == FileGone \in Paths(ctx) \/ NoPath \in {ctx.cert, ctx.key}
           good == ~bad
           R == CheckPaths(ctx, saved)
<1>1. bad \in BOOLEAN /\ good \in BOOLEAN
  OBVIOUS
<1>2. R = Result(ctx, saved, good, bad)
  BY DEF CheckPaths
<1>3. ~bad => ctx.cert # NoPath /\ ctx.key # NoPath
  OBVIOUS
<1> HIDE DEF R
<1>4. good <=> ~bad
  OBVIOUS
<1> HIDE DEF bad, good
<1>5. /\ R.saved = saved
      /\ R.ctx \in ContextSet
      /\ R.ctx.id = ctx.id /\ R.ctx.config = ctx.config /\ R.ctx.name = ctx.name
      /\ R.ctx.cert = ctx.cert /\ R.ctx.key = ctx.key /\ R.ctx.ca = ctx.ca
      /\ R.ctx.active <=> good
      /\ R.ctx.errored <=> (ctx.errored \/ bad)
  BY <1>1, <1>2, ResultFields
<1>6. ~R.ctx.active => R.ctx.errored
  BY <1>4, <1>5
<1>7. ~R.ctx.errored => Complete(R.ctx)
  BY <1>3, <1>5 DEF Complete, HasFile
<1>8. RightCert(R.ctx) /\ RightCA(R.ctx)
  BY <1>5 DEF RightCert, RightCA
<1> QED BY <1>5, <1>6, <1>7, <1>8 DEF Outcome, R

(* A resolution that ends with an error leaves an errored context. *)
LEMMA ErrorOutcome ==
    ASSUME NEW ctx \in ContextSet, NEW saved, NEW valid \in BOOLEAN,
           RightCert(ctx), RightCA(ctx), CacheOK(saved)
    PROVE  Outcome(ctx, Result(ctx, saved, valid, TRUE))
<1> DEFINE R == Result(ctx, saved, valid, TRUE)
<1>0. PICK e \in BOOLEAN : e = TRUE
  OBVIOUS
<1>a. R = Result(ctx, saved, valid, e)
  BY <1>0
<1> HIDE DEF R
<1>1. /\ R.saved = saved
      /\ R.ctx \in ContextSet
      /\ R.ctx.id = ctx.id /\ R.ctx.config = ctx.config /\ R.ctx.name = ctx.name
      /\ R.ctx.cert = ctx.cert /\ R.ctx.key = ctx.key /\ R.ctx.ca = ctx.ca
      /\ R.ctx.errored <=> (ctx.errored \/ e)
  BY <1>a, ResultFields
<1>b. R.ctx.errored
  BY <1>0, <1>1
<1>2. RightCert(R.ctx) /\ RightCA(R.ctx)
  BY <1>1 DEF RightCert, RightCA
<1> QED BY <1>1, <1>2, <1>b DEF Outcome, R

(* From the ca_secret on: a context that was asked for, has no ca secret   *)
(* yet and the right certificate, ends as Outcome promises.                *)
LEMMA ResolveCAOutcome ==
    ASSUME NEW ctx \in ContextSet, Ask(ctx) \in requested, ConfigOK(ctx.config),
           NEW saved, CacheOK(saved), NEW secret_valid \in BOOLEAN,
           ctx.ca \in Files /\ HasFile(ctx), RightCert(ctx)
    PROVE  Outcome(ctx, ResolveCA(ctx, saved, secret_valid))
<1> DEFINE wanted == ctx.config.ca_secret # <<>>
           is_valid == ctx.redirect # 0 \/ ctx.config.alpn_protocols
           r == IF wanted THEN resolve_secret(ctx.config, ctx.config.ca_secret, saved)
                          ELSE [ss |-> ctx.ca, saved |-> saved]
           validated == IF wanted /\ ~Good(r.ss) THEN ctx ELSE [ctx EXCEPT !.ca = r.ss]
           R == ResolveCA(ctx, saved, secret_valid)
<1>1. R = IF (wanted \/ ctx.ca # NoPath) /\ ctx.cert = NoPath
          THEN Result(ctx, saved, FALSE, TRUE)
          ELSE IF secret_valid /\ (wanted => Good(r.ss))
               THEN CheckPaths(validated, r.saved)
               ELSE Result(validated, r.saved, is_valid, TRUE)
  BY DEF ResolveCA
<1>2. RightCA(ctx)
  BY FilesNotSecrets DEF RightCA
<1>3. CacheOK(r.saved)
      /\ (wanted /\ Good(r.ss) => r.ss \in Secrets /\ Fits(r.ss, ctx.config, ctx.config.ca_secret))
  <2>1. CASE wanted
    <3>1. Ask(ctx).config = ctx.config
      BY DEF Ask
    <3>2. PICK q \in requested : q.config = ctx.config
      BY <3>1
    <3>3. ctx.config.ca_secret \in Seq(Parts)
      BY DEF ConfigOK
    <3> DEFINE found == resolve_secret(q.config, q.config.ca_secret, saved)
    <3>4. /\ Good(found.ss) => found.ss \in Secrets /\ Fits(found.ss, q.config, q.config.ca_secret)
          /\ CacheOK(found.saved)
      BY <2>1, <3>2, <3>3, ResolveSecret
    <3>5. r = found
      BY <2>1, <3>2
    <3> QED BY <3>2, <3>4, <3>5
  <2>2. CASE ~wanted
    BY <2>2
  <2> QED BY <2>1, <2>2
<1>4. validated = ctx \/ (validated = [ctx EXCEPT !.ca = r.ss]
                             /\ ((wanted /\ Good(r.ss)) \/ (~wanted /\ r.ss = ctx.ca)))
  OBVIOUS
<1>5. wanted /\ Good(r.ss) => validated = [ctx EXCEPT !.ca = r.ss]
  OBVIOUS
<1> HIDE DEF r, validated, R
<1>6. /\ validated \in ContextSet
      /\ validated.id = ctx.id /\ validated.config = ctx.config /\ validated.name = ctx.name
      /\ validated.cert = ctx.cert /\ validated.key = ctx.key
      /\ validated.ca = ctx.ca \/ (wanted /\ Good(r.ss) /\ validated.ca = r.ss)
  <2>1. CASE validated = ctx
    BY <2>1
  <2>2. CASE validated = [ctx EXCEPT !.ca = r.ss] /\ wanted /\ Good(r.ss)
    BY <1>3, <2>2 DEF ContextSet, ContextsOf
  <2>3. CASE validated = [ctx EXCEPT !.ca = r.ss] /\ ~wanted /\ r.ss = ctx.ca
    <3>1. validated = ctx
      BY <2>3 DEF ContextSet, ContextsOf
    <3> QED BY <3>1
  <2> QED BY <1>4, <2>1, <2>2, <2>3
<1>7. RightCert(validated) /\ RightCA(validated)
  <2>1. RightCert(validated)
    BY <1>6 DEF RightCert
  <2>2. RightCA(validated)
    BY <1>2, <1>3, <1>6 DEF RightCA
  <2> QED BY <2>1, <2>2
<1>8. CASE (wanted \/ ctx.ca # NoPath) /\ ctx.cert = NoPath
  <2>1. R = Result(ctx, saved, FALSE, TRUE)
    BY <1>1, <1>8
  <2>2. Outcome(ctx, Result(ctx, saved, FALSE, TRUE))
    BY <1>2, ErrorOutcome
  <2> QED BY <2>1, <2>2 DEF R
<1>9. CASE ~((wanted \/ ctx.ca # NoPath) /\ ctx.cert = NoPath) /\ secret_valid /\ (wanted => Good(r.ss))
  <2>1. R = CheckPaths(validated, r.saved)
    BY <1>1, <1>9
  <2>2. validated.config.ca_secret # <<>> => validated.ca # NoPath
    <3>1. ASSUME validated.config.ca_secret # <<>> PROVE validated.ca # NoPath
      <4>1. wanted /\ Good(r.ss)
        BY <1>6, <1>9, <3>1
      <4>2. validated.ca = r.ss
        BY <1>5, <4>1 DEF ContextSet, ContextsOf
      <4>3. r.ss \in Secrets
        BY <1>3, <4>1
      <4> QED BY <4>2, <4>3, FilesNotSecrets DEF Files
    <3> QED BY <3>1
  <2>3. HasFile(validated)
    <3>1. CASE validated.ca = ctx.ca
      BY <1>6, <3>1 DEF HasFile
    <3>2. CASE validated.ca \in Secrets
      BY <3>2, FilesNotSecrets DEF HasFile, Files
    <3> QED BY <1>3, <1>6, <3>1, <3>2
  <2>4. Outcome(validated, CheckPaths(validated, r.saved))
    BY <1>3, <1>6, <1>7, <2>2, <2>3, CheckPathsOutcome
  <2> QED BY <1>6, <2>1, <2>4 DEF Outcome, R
<1>10. CASE ~((wanted \/ ctx.ca # NoPath) /\ ctx.cert = NoPath) /\ ~(secret_valid /\ (wanted => Good(r.ss)))
  <2>1. R = Result(validated, r.saved, is_valid, TRUE)
    BY <1>1, <1>10
  <2>2. is_valid \in BOOLEAN
    OBVIOUS
  <2> HIDE DEF is_valid
  <2>3. Outcome(validated, Result(validated, r.saved, is_valid, TRUE))
    BY <1>3, <1>6, <1>7, <2>2, ErrorOutcome
  <2> QED BY <1>6, <2>1, <2>3 DEF Outcome, R
<1> QED BY <1>8, <1>9, <1>10

(* resolve() on a context that is as it was made. *)
LEMMA ResolveOutcome ==
    ASSUME NEW ctx \in ContextSet, Ask(ctx) \in requested, ConfigOK(ctx.config),
           NEW saved, CacheOK(saved),
           ctx.config.secret # <<>> => ctx.cert = NoPath, ctx.ca \in Files /\ HasFile(ctx)
    PROVE  Outcome(ctx, resolve(ctx, saved))
<1> DEFINE r == resolve_secret(ctx.config, ctx.config.secret, saved)
           paired == [ctx EXCEPT !.cert = r.ss, !.key = r.ss]
           R == resolve(ctx, saved)
<1>1. RightCert(ctx) /\ RightCA(ctx)
  BY FilesNotSecrets DEF RightCert, RightCA
<1>2. CASE ctx.config.secret = <<>>
  <2>1. R = ResolveCA(ctx, saved, TRUE)
    BY <1>2 DEF resolve
  <2>2. PICK valid \in BOOLEAN : valid = TRUE
    OBVIOUS
  <2>3. Outcome(ctx, ResolveCA(ctx, saved, valid))
    BY <1>1, ResolveCAOutcome
  <2> QED BY <2>1, <2>2, <2>3
<1>3. CASE ctx.config.secret # <<>>
  <2>1. CacheOK(r.saved)
        /\ (Good(r.ss) => r.ss \in Secrets /\ Fits(r.ss, ctx.config, ctx.config.secret))
    <3>1. Ask(ctx).config = ctx.config
      BY DEF Ask
    <3>2. PICK q \in requested : q.config = ctx.config
      BY <3>1
    <3>3. ctx.config.secret \in Seq(Parts)
      BY DEF ConfigOK
    <3> DEFINE found == resolve_secret(q.config, q.config.secret, saved)
    <3>4. /\ Good(found.ss) => found.ss \in Secrets /\ Fits(found.ss, q.config, q.config.secret)
          /\ CacheOK(found.saved)
      BY <1>3, <3>2, <3>3, ResolveSecret
    <3>5. r = found
      BY <3>2
    <3> QED BY <3>2, <3>4, <3>5
  <2>2. CASE ~Good(r.ss)
    <3>1. R = ResolveCA(ctx, r.saved, FALSE)
      BY <1>3, <2>2 DEF resolve
    <3>2. PICK valid \in BOOLEAN : valid = FALSE
      OBVIOUS
    <3> HIDE DEF r, R
    <3>3. Outcome(ctx, ResolveCA(ctx, r.saved, valid))
      BY <1>1, <2>1, ResolveCAOutcome
    <3> QED BY <3>1, <3>2, <3>3 DEF R
  <2>3. CASE Good(r.ss) /\ secrets[r.ss] = "cert"
    <3>1. R = Result(ctx, r.saved, FALSE, TRUE)
      BY <1>3, <2>3 DEF resolve
    <3> HIDE DEF r, R
    <3>2. Outcome(ctx, Result(ctx, r.saved, FALSE, TRUE))
      BY <1>1, <2>1, ErrorOutcome
    <3> QED BY <3>1, <3>2 DEF R
  <2>4. CASE Good(r.ss) /\ secrets[r.ss] # "cert"
    <3>1. R = ResolveCA(paired, r.saved, TRUE)
      BY <1>3, <2>4 DEF resolve
    <3>2. r.ss \in Secrets /\ Fits(r.ss, ctx.config, ctx.config.secret)
      BY <2>1, <2>4
    <3> HIDE DEF r, R
    <3>3. /\ paired \in ContextSet /\ paired.id = ctx.id /\ paired.config = ctx.config
          /\ paired.name = ctx.name /\ paired.cert = r.ss /\ paired.key = r.ss /\ paired.ca = ctx.ca
      BY <3>2 DEF ContextSet, ContextsOf
    <3> HIDE DEF paired
    <3>4. RightCert(paired)
      BY <3>2, <3>3 DEF RightCert
    <3>5. Ask(paired) \in requested /\ ConfigOK(paired.config) /\ paired.ca \in Files /\ HasFile(paired)
      BY <3>3 DEF Ask, HasFile
    <3>6. PICK valid \in BOOLEAN : valid = TRUE
      OBVIOUS
    <3>7. Outcome(paired, ResolveCA(paired, r.saved, valid))
      BY <2>1, <3>3, <3>4, <3>5, ResolveCAOutcome
    <3>8. Outcome(paired, R)
      BY <3>1, <3>6, <3>7
    <3> QED BY <3>3, <3>8 DEF Outcome, R
  <2> QED BY <2>2, <2>3, <2>4
<1> QED BY <1>2, <1>3

(* A context as it is made from what was asked for. *)
LEMMA MadeContext ==
    ASSUME NEW kind, NEW c, ConfigOK(c), NEW R, Ask(IRTLSContext(kind, c)) \in R
    PROVE  LET ctx == IRTLSContext(kind, c)
           IN  /\ ctx \in ContextsOf(R) /\ ctx.id = <<kind, c.name>> /\ ctx.config = c
               /\ ctx.active /\ c.secret # <<>> => ctx.cert = NoPath
               /\ ctx.ca \in Files /\ HasFile(ctx)
               /\ ~ctx.active => ctx.errored
<1> DEFINE ctx == IRTLSContext(kind, c)
           valid == validate(c)
           wrong == ~validate(c) \/ c.redirect_cleartext_from = NotAPort
           port == IF c.redirect_cleartext_from = NotAPort THEN 0 ELSE c.redirect_cleartext_from
<1>1. valid \in BOOLEAN /\ wrong \in BOOLEAN
  BY DEF validate
<1>2. (~valid => wrong) /\ (valid /\ c.secret # <<>> => c.cert_chain_file = NoPath)
  BY DEF validate
<1>3. port \in Nat
  BY DEF ConfigOK
<1>4. ctx = [id |-> <<kind, c.name>>, config |-> c, name |-> c.name, redirect |-> port,
             cert |-> c.cert_chain_file, key |-> c.private_key_file, ca |-> c.cacert_chain_file,
             active |-> valid, errored |-> wrong]
  BY DEF IRTLSContext
<1>5. <<kind, c.name>> \in {r.id : r \in R} /\ c \in {r.config : r \in R}
      /\ c.name \in {r.config.name : r \in R}
  <2>1. Ask(ctx).id = <<kind, c.name>> /\ Ask(ctx).config = c
    BY <1>4 DEF Ask
  <2> QED BY <2>1
<1>6. {c.cert_chain_file, c.private_key_file, c.cacert_chain_file} \subseteq Files
  BY DEF ConfigOK
<1> HIDE DEF valid, wrong, port, ctx
<1>7. ctx \in ContextsOf(R)
  BY <1>1, <1>3, <1>4, <1>5, <1>6 DEF ContextsOf
<1>8. /\ ctx.id = <<kind, c.name>> /\ ctx.config = c /\ ctx.cert = c.cert_chain_file
      /\ ctx.ca = c.cacert_chain_file /\ ctx.active = valid /\ ctx.errored = wrong
  BY <1>4
<1> QED BY <1>1, <1>2, <1>6, <1>7, <1>8 DEF ctx, HasFile

(* The context of a block of the TLS module has the attributes that a      *)
(* TLSContext has.                                                         *)
LEMMA LegacyOK ==
    ASSUME NEW name, NEW block, NEW termination, NEW client, block.on, BlockOK(block),
           ClientOK(client)
    PROVE  ConfigOK(from_legacy(name, block, termination, client))
<1> DEFINE c == from_legacy(name, block, termination, client)
<1>1. block.secret \in Seq(Parts) /\ {block.cert_chain_file, block.private_key_file} \subseteq Files
      /\ block.redirect_cleartext_from \in Nat
  BY DEF BlockOK
<1>2. c.secret \in {AmbassadorCacert, AmbassadorCerts, block.secret}
      /\ c.cert_chain_file = block.cert_chain_file /\ c.private_key_file = block.private_key_file
      /\ c.redirect_cleartext_from = block.redirect_cleartext_from
  BY DEF from_legacy
<1>3. c.ca_secret = (IF termination /\ client.on THEN client.secret ELSE <<>>)
      /\ c.cacert_chain_file = (IF termination /\ client.on THEN client.cacert_chain_file ELSE NoPath)
  BY DEF from_legacy
<1>4. <<>> \in Seq(Parts) /\ NoPath \in Files
  BY DEF Files
<1>5. c.ca_secret \in Seq(Parts) /\ c.cacert_chain_file \in Files
  BY <1>3, <1>4 DEF ClientOK
<1> QED BY <1>1, <1>2, <1>5, TLSAssumption DEF ConfigOK

(* The dict after a context is saved in it. *)
LEMMA SavedContexts ==
    ASSUME NEW R, NEW contexts \in Seq(ContextsOf(R)), NEW ctx \in ContextsOf(R),
           \A i, j \in DOMAIN contexts : contexts[i].name = contexts[j].name => i = j
    PROVE  LET T == save_tls_context(ctx, contexts)
           IN  /\ T \in Seq(ContextsOf(R)) /\ Len(T) <= Len(contexts) + 1
               /\ \A i, j \in DOMAIN T : T[i].name = T[j].name => i = j
               /\ \A i \in DOMAIN T : T[i] = ctx \/ (i \in DOMAIN contexts /\ T[i] = contexts[i])
               /\ \A i \in DOMAIN contexts :
                      i \in DOMAIN T /\ (T[i] = contexts[i] \/ ~Truthy(contexts[i]))
               /\ (\E i \in DOMAIN T : T[i] = ctx) \/ Duplicate(ctx, contexts)
<1> DEFINE T == save_tls_context(ctx, contexts)
<1>0. Len(contexts) \in Nat /\ DOMAIN contexts = 1 .. Len(contexts)
      /\ \A i \in DOMAIN contexts : contexts[i] \in ContextsOf(R)
  BY LenProperties, ElementOfSeq
<1>1. CASE \E i \in DOMAIN contexts : contexts[i].name = ctx.name
  <2>1. T = [i \in DOMAIN contexts |->
               IF contexts[i].name = ctx.name /\ ~Truthy(contexts[i]) THEN ctx ELSE contexts[i]]
    BY <1>1 DEF save_tls_context
  <2> HIDE DEF T
  <2>2. DOMAIN T = 1 .. Len(contexts)
        /\ \A i \in DOMAIN T : T[i] \in ContextsOf(R) /\ T[i].name = contexts[i].name
    BY <1>0, <2>1
  <2>3. T \in Seq(ContextsOf(R)) /\ Len(T) = Len(contexts)
    <3>1. T = [i \in 1 .. Len(contexts) |-> T[i]]
      BY <2>1, <2>2
    <3>2. T \in [1 .. Len(contexts) -> ContextsOf(R)]
      BY <2>2, <3>1
    <3>3. T \in Seq(ContextsOf(R))
      BY <1>0, <3>2, SeqDef
    <3> QED BY <1>0, <2>2, <3>3, LenProperties
  <2>4. \A i, j \in DOMAIN T : T[i].name = T[j].name => i = j
    BY <1>0, <2>2
  <2>5. \A i \in DOMAIN T : T[i] = ctx \/ (i \in DOMAIN contexts /\ T[i] = contexts[i])
    BY <2>1
  <2>6. \A i \in DOMAIN contexts : i \in DOMAIN T /\ (T[i] = contexts[i] \/ ~Truthy(contexts[i]))
    BY <2>1
  <2>7. (\E i \in DOMAIN T : T[i] = ctx) \/ Duplicate(ctx, contexts)
    <3>1. PICK i \in DOMAIN contexts : contexts[i].name = ctx.name
      BY <1>1
    <3>2. CASE Truthy(contexts[i])
      BY <3>1, <3>2 DEF Duplicate
    <3>3. CASE ~Truthy(contexts[i])
      BY <2>1, <3>1, <3>3
    <3> QED BY <3>2, <3>3
  <2>8. Len(T) <= Len(contexts) + 1
    BY <1>0, <2>3
  <2> QED BY <2>3, <2>4, <2>5, <2>6, <2>7, <2>8 DEF T
<1>2. CASE ~\E i \in DOMAIN contexts : contexts[i].name = ctx.name
  <2>1. T = Append(contexts, ctx)
    BY <1>2 DEF save_tls_context
  <2> HIDE DEF T
  <2>2. T \in Seq(ContextsOf(R)) /\ Len(T) = Len(contexts) + 1
        /\ (\A i \in 1 .. Len(contexts) : T[i] = contexts[i]) /\ T[Len(contexts) + 1] = ctx
    BY <2>1, AppendProperties
  <2>3. DOMAIN T = 1 .. Len(contexts) + 1
    BY <2>2, LenProperties
  <2>4. \A i \in DOMAIN T : i \in DOMAIN contexts \/ i = Len(contexts) + 1
    BY <1>0, <2>3
  <2>5. \A i \in DOMAIN contexts : i \in DOMAIN T /\ T[i] = contexts[i]
    BY <1>0, <2>2, <2>3
  <2>6. Len(contexts) + 1 \in DOMAIN T /\ T[Len(contexts) + 1] = ctx
    BY <1>0, <2>2, <2>3
  <2>7. \A i, j \in DOMAIN T : T[i].name = T[j].name => i = j
    BY <1>2, <2>4, <2>5, <2>6
  <2> QED BY <1>0, <2>2, <2>4, <2>5, <2>6, <2>7 DEF T
<1> QED BY <1>1, <1>2
-----------------------------------------------------------------------------
(* Contexts that are not yet resolved have nothing that could be wrong.    *)
LEMMA UnresolvedRight ==
    ASSUME NEW ctx, ctx.config.secret # <<>> => ctx.cert = NoPath, ctx.ca \in Files
    PROVE  RightCert(ctx) /\ RightCA(ctx)
  BY FilesNotSecrets DEF RightCert, RightCA

(* Making and saving a context, before anything is resolved. *)
LEMMA SaveKeeps ==
    ASSUME IInv, phase \in {"module", "other", "contexts"}, NEW kind, NEW c, ConfigOK(c),
           Save(IRTLSContext(kind, c)), tls_module' \in Modules \cup {NoModule},
           phase' \in {"other", "contexts"},
           UNCHANGED <<inputs, service_port, saved_secrets, at, listeners, mapped, chains>>
    PROVE  /\ ShapeInv' /\ NamesInv' /\ ToldInv' /\ PathsInv' /\ CacheInv' /\ RightInv' /\ PortInv'
           /\ ChainsInv'
           /\ Len(tls_contexts') \in Nat /\ Len(tls_contexts') <= Len(tls_contexts) + 1
           /\ Ids' = Ids \cup {<<kind, c.name>>}
<1> DEFINE ctx == IRTLSContext(kind, c)
           T == save_tls_context(ctx, tls_contexts)
<1>1. /\ requested' = requested \cup {Ask(ctx)}
      /\ tls_contexts' = IF ctx.active THEN T ELSE tls_contexts
      /\ errors' = IF ctx.errored \/ Duplicate(ctx, tls_contexts) THEN errors \cup {ctx.id} ELSE errors
  BY DEF Save, Ask
<1>2. /\ ctx \in ContextSet' /\ ctx.id = <<kind, c.name>> /\ ctx.config = c
      /\ ctx.active /\ c.secret # <<>> => ctx.cert = NoPath
      /\ ctx.ca \in Files /\ HasFile(ctx)
      /\ ~ctx.active => ctx.errored
  <2>1. Ask(ctx) \in requested'
    BY <1>1
  <2>2. LET x == IRTLSContext(kind, c)
        IN  /\ x \in ContextsOf(requested') /\ x.id = <<kind, c.name>> /\ x.config = c
            /\ x.active /\ c.secret # <<>> => x.cert = NoPath
            /\ x.ca \in Files /\ HasFile(x)
            /\ ~x.active => x.errored
    BY <2>1, MadeContext
  <2>3. ContextSet' = ContextsOf(requested')
    BY DEF ContextSet, ContextsOf
  <2> HIDE DEF ctx
  <2> QED BY <2>2, <2>3 DEF ctx
<1>3. /\ ShapeInv /\ NamesInv /\ ToldInv /\ PathsInv /\ CacheInv /\ PortInv
      /\ tls_contexts \in Seq(ContextSet) /\ phase \in Early /\ phase' \in Early /\ phase # "resolve"
  BY DEF IInv, ShapeInv, Early
<1>4. \A i \in DOMAIN tls_contexts :
          /\ tls_contexts[i].active /\ Ask(tls_contexts[i]) \in requested
          /\ tls_contexts[i].errored => tls_contexts[i].id \in errors
          /\ tls_contexts[i].config.secret # <<>> => tls_contexts[i].cert = NoPath
          /\ tls_contexts[i].ca \in Files /\ HasFile(tls_contexts[i])
  <2>1. \A i : ~Resolved(i)
    BY <1>3 DEF Resolved, Early, Late
  <2> QED BY <1>3, <2>1 DEF ToldInv, PathsInv, ShapeInv
<1>5. tls_contexts \in Seq(ContextSet')
  <2>1. ContextsOf(requested) \subseteq ContextsOf(requested')
    BY <1>1, ContextsGrow
  <2>2. ContextSet' = ContextsOf(requested') /\ ContextSet = ContextsOf(requested)
    BY DEF ContextSet, ContextsOf
  <2>3. \A i \in 1 .. Len(tls_contexts) : tls_contexts[i] \in ContextSet'
    BY <1>3, <2>1, <2>2, ElementOfSeq
  <2> QED BY <1>3, <2>3, LenProperties, SeqDef
<1>6. /\ T \in Seq(ContextSet') /\ Len(T) <= Len(tls_contexts) + 1
      /\ \A i, j \in DOMAIN T : T[i].name = T[j].name => i = j
      /\ \A i \in DOMAIN T : T[i] = ctx \/ (i \in DOMAIN tls_contexts /\ T[i] = tls_contexts[i])
      /\ \A i \in DOMAIN tls_contexts :
             i \in DOMAIN T /\ (T[i] = tls_contexts[i] \/ ~Truthy(tls_contexts[i]))
      /\ (\E i \in DOMAIN T : T[i] = ctx) \/ Duplicate(ctx, tls_contexts)
  <2>1. \A i, j \in DOMAIN tls_contexts : tls_contexts[i].name = tls_contexts[j].name => i = j
    BY <1>3 DEF NamesInv
  <2>2. ContextSet' = ContextsOf(requested')
    BY DEF ContextSet, ContextsOf
  <2> HIDE DEF ctx
  <2> QED BY <1>2, <1>5, <2>1, <2>2, SavedContexts
<1> HIDE DEF T, ctx
<1>7. /\ tls_contexts' \in Seq(ContextSet') /\ Len(tls_contexts') <= Len(tls_contexts) + 1
      /\ \A i, j \in DOMAIN tls_contexts' : tls_contexts'[i].name = tls_contexts'[j].name => i = j
      /\ \A i \in DOMAIN tls_contexts' :
             \/ ctx.active /\ tls_contexts'[i] = ctx
             \/ i \in DOMAIN tls_contexts /\ tls_contexts'[i] = tls_contexts[i]
      /\ \A i \in DOMAIN tls_contexts :
             i \in DOMAIN tls_contexts' /\ (tls_contexts'[i] = tls_contexts[i] \/ ~Truthy(tls_contexts[i]))
      /\ (\E i \in DOMAIN tls_contexts' : tls_contexts'[i] = ctx) \/ Duplicate(ctx, tls_contexts)
             \/ ~ctx.active
  <2>1. CASE ctx.active
    <3>1. tls_contexts' = T
      BY <1>1, <2>1
    <3> QED BY <1>6, <2>1, <3>1
  <2>2. CASE ~ctx.active
    <3>1. tls_contexts' = tls_contexts
      BY <1>1, <2>2
    <3>2. Len(tls_contexts) \in Nat
      BY <1>5, LenProperties
    <3>3. Len(tls_contexts) <= Len(tls_contexts) + 1
      BY <3>2
    <3> QED BY <1>3, <1>5, <2>2, <3>1, <3>3 DEF NamesInv
  <2> QED BY <2>1, <2>2
<1>8. Len(tls_contexts') \in Nat /\ DOMAIN tls_contexts' = 1 .. Len(tls_contexts')
      /\ \A i \in DOMAIN tls_contexts' : tls_contexts'[i] \in ContextSet'
  BY <1>7, LenProperties, ElementOfSeq
<1>9. \A i \in DOMAIN tls_contexts' :
          /\ tls_contexts'[i].active /\ Ask(tls_contexts'[i]) \in requested'
          /\ tls_contexts'[i].errored => tls_contexts'[i].id \in errors'
          /\ tls_contexts'[i].config.secret # <<>> => tls_contexts'[i].cert = NoPath
          /\ tls_contexts'[i].ca \in Files /\ HasFile(tls_contexts'[i])
  <2> SUFFICES ASSUME NEW i \in DOMAIN tls_contexts'
               PROVE  /\ tls_contexts'[i].active /\ Ask(tls_contexts'[i]) \in requested'
                      /\ tls_contexts'[i].errored => tls_contexts'[i].id \in errors'
                      /\ tls_contexts'[i].config.secret # <<>> => tls_contexts'[i].cert = NoPath
                      /\ tls_contexts'[i].ca \in Files /\ HasFile(tls_contexts'[i])
    OBVIOUS
  <2>1. CASE ctx.active /\ tls_contexts'[i] = ctx
    BY <1>1, <1>2, <2>1
  <2>2. CASE i \in DOMAIN tls_contexts /\ tls_contexts'[i] = tls_contexts[i]
    BY <1>1, <1>4, <2>2
  <2> QED BY <1>7, <2>1, <2>2
<1>a. Ids' = Ids \cup {<<kind, c.name>>}
  <2>1. Ask(ctx).id = <<kind, c.name>>
    BY <1>2 DEF Ask
  <2>2. Ids' = {r.id : r \in requested'} /\ Ids = {r.id : r \in requested}
    BY DEF Ids
  <2>3. {r.id : r \in requested \cup {Ask(ctx)}} = {r.id : r \in requested} \cup {Ask(ctx).id}
    OBVIOUS
  <2> QED BY <1>1, <2>1, <2>2, <2>3
<1>10. \A i : ~Resolved(i)'
  BY DEF Resolved, Late
<1>11. ShapeInv'
  <2>1. \A r \in requested' : ConfigOK(r.config)
    <3>1. Ask(ctx).config = c
      BY <1>2 DEF Ask
    <3> QED BY <1>1, <1>3, <3>1 DEF ShapeInv
  <2>2. DOMAIN tls_contexts' \subseteq Nat
    BY <1>8
  <2>3. secrets' \in SecretSets
    BY <1>3 DEF ShapeInv, inputs
  <2> QED BY <1>3, <1>7, <1>8, <1>9, <2>1, <2>2, <2>3 DEF ShapeInv, Ask, ConfigOK
<1>12. NamesInv'
  BY <1>7 DEF NamesInv
<1>13. ToldInv'
  <2>1. Ids' = Ids \cup {ctx.id}
    BY <1>2, <1>a
  <2>2. errors' \subseteq Ids'
    BY <1>1, <1>3, <2>1 DEF ToldInv
  <2>3. errors \subseteq errors'
    BY <1>1
  <2>4. ASSUME NEW r \in requested'
        PROVE  r.id \in errors' \/ \E i \in DOMAIN tls_contexts' : Ask(tls_contexts'[i]) = r
    <3>1. CASE r = Ask(ctx)
      <4>1. r.id = ctx.id
        BY <3>1 DEF Ask
      <4>2. CASE ctx.errored \/ Duplicate(ctx, tls_contexts)
        BY <1>1, <4>1, <4>2
      <4>3. CASE ~(ctx.errored \/ Duplicate(ctx, tls_contexts))
        BY <1>2, <1>7, <3>1, <4>3
      <4> QED BY <4>2, <4>3
    <3>2. CASE r \in requested
      <4>1. CASE r.id \in errors
        BY <2>3, <4>1
      <4>2. CASE \E i \in DOMAIN tls_contexts : Ask(tls_contexts[i]) = r
        <5>1. PICK i \in DOMAIN tls_contexts : Ask(tls_contexts[i]) = r
          BY <4>2
        <5>2. CASE tls_contexts'[i] = tls_contexts[i]
          BY <1>7, <5>1, <5>2
        <5>3. CASE ~Truthy(tls_contexts[i])
          <6>1. tls_contexts[i].id \in errors
            BY <1>4, <5>3 DEF Truthy
          <6>2. r.id = tls_contexts[i].id
            BY <5>1 DEF Ask
          <6> QED BY <2>3, <6>1, <6>2
        <5> QED BY <1>7, <5>2, <5>3
      <4> QED BY <1>3, <3>2, <4>1, <4>2 DEF ToldInv
    <3> QED BY <1>1, <3>1, <3>2
  <2> QED BY <1>9, <2>2, <2>4 DEF ToldInv, Ask
<1>14. PathsInv'
  BY <1>9, <1>10 DEF PathsInv, HasFile
<1>15. CacheInv'
  <2>1. DOMAIN saved_secrets = {} /\ saved_secrets' = saved_secrets
    BY <1>3 DEF CacheInv
  <2> QED BY <2>1 DEF CacheInv, CacheOK
<1>16. RightInv'
  <2>1. ASSUME NEW i \in DOMAIN tls_contexts'
        PROVE  /\ tls_contexts'[i].config.secret # <<>> => tls_contexts'[i].cert = NoPath
               /\ ~(tls_contexts'[i].ca \in Secrets)
    BY <1>9, FilesNotSecrets
  <2> QED BY <2>1 DEF RightInv, RightCert, RightCA
<1>17. PortInv'
  <2>1. service_port' = service_port /\ listeners' = listeners /\ amod_port' = amod_port
    BY DEF inputs
  <2> QED BY <1>3, <1>10, <2>1 DEF PortInv, ListenersApart
<1>18. ChainsInv'
  BY DEF ChainsInv
<1> QED BY <1>7, <1>8, <1>11, <1>12, <1>13, <1>14, <1>15, <1>16, <1>17, <1>18, <1>a

(* A step before the resolution that saves no context. *)
LEMMA QuietKeeps ==
    ASSUME IInv, phase \in {"module", "other", "contexts"}, SaveNone,
           tls_module' \in Modules \cup {NoModule}, phase' \in {"other", "contexts", "resolve"},
           UNCHANGED <<inputs, service_port, saved_secrets, at, listeners, mapped, chains>>
    PROVE  /\ ShapeInv' /\ NamesInv' /\ ToldInv' /\ PathsInv' /\ CacheInv' /\ RightInv' /\ PortInv'
           /\ ChainsInv'
<1>1. UNCHANGED <<requested, tls_contexts, errors, secrets, namespacing, amod_port, service_port,
                  saved_secrets, at, listeners>>
  BY DEF SaveNone, inputs
<1>2. phase \in Early /\ phase' \in Early /\ phase # "resolve"
  BY DEF Early
<1>3. \A i \in DOMAIN tls_contexts : ~Resolved(i) /\ ~Resolved(i)'
  <2>1. \A i \in DOMAIN tls_contexts : i \in Nat /\ i >= 1
    BY <1>2, LenProperties DEF IInv, ShapeInv
  <2>2. at = 1
    BY <1>2 DEF IInv, CountInv
  <2> QED BY <1>1, <2>1, <2>2 DEF Resolved, Late
<1>4. ShapeInv'
  BY <1>1, <1>2 DEF IInv, ShapeInv, ContextSet, ContextsOf
<1>5. NamesInv'
  BY <1>1 DEF IInv, NamesInv
<1>6. ToldInv'
  <2>1. \A i \in DOMAIN tls_contexts : tls_contexts[i].active
    BY <1>2 DEF IInv, ToldInv
  <2>2. Ids' = Ids
    BY <1>1 DEF Ids
  <2> QED BY <1>1, <2>1, <2>2 DEF IInv, ToldInv
<1>7. PathsInv'
  BY <1>1, <1>3 DEF IInv, PathsInv
<1>8. CacheInv'
  <2>1. DOMAIN saved_secrets = {}
    BY DEF IInv, CacheInv
  <2> QED BY <1>1, <2>1 DEF CacheInv, CacheOK
<1>9. RightInv'
  <2>1. ASSUME NEW i \in DOMAIN tls_contexts
        PROVE  /\ tls_contexts[i].config.secret # <<>> => tls_contexts[i].cert = NoPath
               /\ ~(tls_contexts[i].ca \in Secrets)
    BY <1>3, FilesNotSecrets DEF IInv, PathsInv
  <2> QED BY <1>1, <2>1 DEF RightInv, RightCert, RightCA
<1>10. PortInv'
  BY <1>1, <1>3 DEF IInv, PortInv, ListenersApart
<1>11. ChainsInv'
  BY DEF ChainsInv
<1> QED BY <1>4, <1>5, <1>6, <1>7, <1>8, <1>9, <1>10, <1>11

(* Loading a module and its blocks keeps the invariant. *)
LEMMA ModuleStep == ASSUME IInv, LoadModule \/ LoadOther PROVE IInv'
<1>1. UNCHANGED <<inputs, service_port, saved_secrets, at, listeners, mapped, chains>>
      /\ phase \in {"module", "other"} /\ phase' \in {"other", "contexts"}
      /\ (phase' = "other" => phase = "module") /\ (phase' = "contexts" => phase = "other")
  BY DEF LoadModule, LoadOther
<1>2. \A m \in Modules \cup {NoModule} : BlockOK(m.server) /\ BlockOK(m.other) /\ ClientOK(m.client)
  BY TLSAssumption DEF NoModule, NoBlock, BlockOK, ClientOK
<1>3. tls_module' \in Modules \cup {NoModule}
  <2>1. CASE LoadModule
    BY <2>1 DEF LoadModule
  <2>2. CASE LoadOther
    BY <2>2 DEF LoadOther, IInv, ShapeInv
  <2> QED BY <2>1, <2>2
<1>4. SaveNone \/ \E c : ConfigOK(c) /\ Save(IRTLSContext("Module", c))
  <2>1. CASE LoadModule
    <3>1. PICK m \in Modules \cup {NoModule} :
              IF m.server.on
              THEN Save(IRTLSContext("Module", from_legacy("server", m.server, TRUE, m.client)))
              ELSE SaveNone
      BY <2>1 DEF LoadModule
    <3>2. CASE m.server.on
      <4>1. ConfigOK(from_legacy("server", m.server, TRUE, m.client))
        BY <1>2, <3>2, LegacyOK
      <4> QED BY <3>1, <3>2, <4>1
    <3> QED BY <3>1, <3>2
  <2>2. CASE LoadOther
    <3>1. tls_module \in Modules \cup {NoModule}
      BY DEF IInv, ShapeInv
    <3>2. CASE tls_module.other.on
      <4>1. ClientOK(NoBlock)
        BY DEF ClientOK, NoBlock
      <4>2. ConfigOK(from_legacy("other", tls_module.other, FALSE, NoBlock))
        BY <1>2, <3>1, <3>2, <4>1, LegacyOK
      <4> QED BY <2>2, <3>2, <4>2 DEF LoadOther
    <3> QED BY <2>2, <3>2 DEF LoadOther
  <2> QED BY <2>1, <2>2
<1>5. /\ ShapeInv' /\ NamesInv' /\ ToldInv' /\ PathsInv' /\ CacheInv' /\ RightInv' /\ PortInv'
      /\ ChainsInv'
      /\ Len(tls_contexts') \in Nat /\ Len(tls_contexts') <= Len(tls_contexts) + 1
      /\ Resources' = Resources
  <2>1. CASE SaveNone
    <3>1. Len(tls_contexts) \in Nat
      BY <1>1, LenProperties DEF IInv, ShapeInv, Early
    <3>2. tls_contexts' = tls_contexts /\ requested' = requested
      BY <2>1 DEF SaveNone
    <3>3. Resources' = Resources
      BY <3>2 DEF Resources, Ids
    <3>4. Len(tls_contexts') \in Nat /\ Len(tls_contexts') <= Len(tls_contexts) + 1
      BY <3>1, <3>2
    <3> QED BY <1>1, <1>3, <2>1, <3>3, <3>4, QuietKeeps
  <2>2. CASE \E c : ConfigOK(c) /\ Save(IRTLSContext("Module", c))
    <3>1. PICK c : ConfigOK(c) /\ Save(IRTLSContext("Module", c))
      BY <2>2
    <3>2. /\ ShapeInv' /\ NamesInv' /\ ToldInv' /\ PathsInv' /\ CacheInv' /\ RightInv' /\ PortInv'
          /\ ChainsInv'
          /\ Len(tls_contexts') \in Nat /\ Len(tls_contexts') <= Len(tls_contexts) + 1
          /\ Ids' = Ids \cup {<<"Module", c.name>>}
      BY <1>1, <1>3, <3>1, SaveKeeps
    <3>3. Resources' = Resources
      <4>1. <<"Module", c.name>>[1] # "TLSContext"
        OBVIOUS
      <4> QED BY <3>2, <4>1 DEF Resources
    <3> QED BY <3>2, <3>3
  <2> QED BY <1>4, <2>1, <2>2
<1>6. CountInv'
  <2>1. Len(tls_contexts) \in Nat
    BY <1>1, LenProperties DEF IInv, ShapeInv, Early
  <2>2. Resources = {} /\ Cardinality(Resources) = 0
    BY <1>1, FS_EmptySet DEF IInv, CountInv
  <2>3. Len(tls_contexts) <= FromModule /\ at = 1
    <3>1. Len(tls_contexts) <= FromModule + Cardinality(Resources) /\ at = 1
      BY <1>1 DEF IInv, CountInv, Early
    <3>2. FromModule \in Nat
      BY DEF FromModule
    <3> QED BY <2>1, <2>2, <3>1, <3>2
  <2>4. FromModule' = FromModule + 1 /\ FromModule' \in Nat /\ FromModule \in Nat
    BY <1>1 DEF FromModule
  <2>5. Len(tls_contexts') <= FromModule' + Cardinality(Resources')
    BY <1>5, <2>1, <2>2, <2>3, <2>4
  <2>6. IsFiniteSet(Resources') /\ Cardinality(Resources') <= MaxContexts /\ Resources' = {}
    BY <1>5, <2>2, TLSAssumption DEF IInv, CountInv
  <2>7. at' = 1 /\ at' \in 1 .. Len(tls_contexts') + 1 /\ at' \in 1 .. MaxContexts + 3
    BY <1>1, <1>5, <2>3, TLSAssumption
  <2>8. phase' # "resolve"
    BY <1>1
  <2> QED BY <2>5, <2>6, <2>7, <2>8 DEF CountInv
<1> QED BY <1>5, <1>6 DEF IInv

(* Saving a TLSContext keeps the invariant. *)
LEMMA ContextStep == ASSUME IInv, SaveContext PROVE IInv'
<1>1. UNCHANGED <<inputs, service_port, tls_module, saved_secrets, at, listeners, mapped, chains>>
      /\ phase = "contexts" /\ phase' = "contexts" /\ Cardinality(Resources) < MaxContexts
  BY DEF SaveContext, Resources
<1>2. PICK c \in Contexts : <<"TLSContext", c.name>> \notin Ids /\ Save(IRTLSContext("TLSContext", c))
  BY DEF SaveContext
<1>3. ConfigOK(c)
  BY TLSAssumption
<1>4. /\ ShapeInv' /\ NamesInv' /\ ToldInv' /\ PathsInv' /\ CacheInv' /\ RightInv' /\ PortInv'
      /\ ChainsInv'
      /\ Len(tls_contexts') \in Nat /\ Len(tls_contexts') <= Len(tls_contexts) + 1
      /\ Ids' = Ids \cup {<<"TLSContext", c.name>>}
  <2>1. tls_module' \in Modules \cup {NoModule}
    BY <1>1 DEF IInv, ShapeInv
  <2> QED BY <1>1, <1>2, <1>3, <2>1, SaveKeeps
<1>5. CountInv'
  <2>1. IsFiniteSet(Resources) /\ Cardinality(Resources) \in Nat
    BY FS_CardinalityType DEF IInv, CountInv
  <2>2. Resources' = Resources \cup {<<"TLSContext", c.name>>}
    <3>1. <<"TLSContext", c.name>>[1] = "TLSContext"
      OBVIOUS
    <3> QED BY <1>4, <3>1 DEF Resources
  <2>3. <<"TLSContext", c.name>> \notin Resources
    BY <1>2 DEF Resources
  <2>4. IsFiniteSet(Resources') /\ Cardinality(Resources') = Cardinality(Resources) + 1
    BY <2>1, <2>2, <2>3, FS_AddElement
  <2>5. Len(tls_contexts) \in Nat /\ Len(tls_contexts) <= 2 + Cardinality(Resources) /\ at = 1
    BY <1>1, LenProperties DEF IInv, ShapeInv, CountInv, Early, FromModule
  <2>6. FromModule' = 2
    BY <1>1 DEF FromModule
  <2>7. Len(tls_contexts') <= FromModule' + Cardinality(Resources')
    BY <1>4, <2>1, <2>4, <2>5, <2>6
  <2>8. Cardinality(Resources') <= MaxContexts
    BY <1>1, <2>1, <2>4, TLSAssumption
  <2>9. at' = 1 /\ at' \in 1 .. Len(tls_contexts') + 1 /\ at' \in 1 .. MaxContexts + 3
    BY <1>1, <1>4, <2>5, TLSAssumption
  <2>10. phase' \notin {"module", "other", "resolve"}
    BY <1>1
  <2> QED BY <2>4, <2>7, <2>8, <2>9, <2>10 DEF CountInv
<1> QED BY <1>4, <1>5 DEF IInv

(* The end of save_tls_contexts keeps the invariant. *)
LEMMA EndStep == ASSUME IInv, EndContexts PROVE IInv'
<1>1. UNCHANGED <<inputs, service_port, tls_module, saved_secrets, at, listeners, mapped, chains>>
      /\ phase = "contexts" /\ phase' = "resolve" /\ SaveNone
  BY DEF EndContexts, SaveNone
<1>2. /\ ShapeInv' /\ NamesInv' /\ ToldInv' /\ PathsInv' /\ CacheInv' /\ RightInv' /\ PortInv'
      /\ ChainsInv'
  <2>1. tls_module' \in Modules \cup {NoModule}
    BY <1>1 DEF IInv, ShapeInv
  <2> QED BY <1>1, <2>1, QuietKeeps
<1>3. CountInv'
  <2>1. Resources' = Resources /\ tls_contexts' = tls_contexts /\ at' = at
    BY <1>1 DEF SaveNone, Resources, Ids
  <2>2. FromModule' = FromModule
    BY <1>1 DEF FromModule
  <2> QED BY <1>1, <2>1, <2>2 DEF IInv, CountInv, Early
<1> QED BY <1>2, <1>3 DEF IInv

(* Resolving one context keeps the invariant. *)
LEMMA ResolveStep == ASSUME IInv, Resolve PROVE IInv'
<1> DEFINE ctx == tls_contexts[at]
           R == resolve(ctx, saved_secrets)
<1>1. /\ phase = "resolve" /\ phase' = "resolve" /\ at \in DOMAIN tls_contexts /\ at' = at + 1
      /\ tls_contexts' = [tls_contexts EXCEPT ![at] = R.ctx] /\ saved_secrets' = R.saved
      /\ errors' = IF R.ctx.errored THEN errors \cup {R.ctx.id} ELSE errors
      /\ service_port' = PortFor(R.ctx)
      /\ UNCHANGED <<secrets, namespacing, amod_port, tls_module, requested, listeners>>
  BY DEF Resolve, inputs
<1>2. /\ tls_contexts \in Seq(ContextSet) /\ Len(tls_contexts) \in Nat
      /\ DOMAIN tls_contexts = 1 .. Len(tls_contexts) /\ at \in Nat /\ at >= 1 /\ at <= Len(tls_contexts)
  <2>1. tls_contexts \in Seq(ContextSet)
    BY <1>1 DEF IInv, ShapeInv, Early
  <2>2. Len(tls_contexts) \in Nat /\ DOMAIN tls_contexts = 1 .. Len(tls_contexts)
    BY <2>1, LenProperties
  <2> QED BY <1>1, <2>1, <2>2
<1>3. Outcome(ctx, R)
  <2>1. ctx \in ContextSet /\ Ask(ctx) \in requested
    BY <1>1 DEF IInv, ShapeInv
  <2>2. ConfigOK(ctx.config)
    <3>1. Ask(ctx).config = ctx.config
      BY DEF Ask
    <3> QED BY <2>1, <3>1 DEF IInv, ShapeInv
  <2>3. ~Resolved(at)
    BY <1>1, <1>2 DEF Resolved, Late
  <2>4. (ctx.config.secret # <<>> => ctx.cert = NoPath) /\ ctx.ca \in Files /\ HasFile(ctx)
    BY <1>1, <2>3 DEF IInv, PathsInv
  <2>5. CacheOK(saved_secrets)
    BY DEF IInv, CacheInv
  <2> HIDE DEF ctx
  <2> QED BY <2>1, <2>2, <2>4, <2>5, ResolveOutcome
<1> HIDE DEF R
<1>4. /\ R.ctx \in ContextSet /\ R.ctx.id = ctx.id /\ R.ctx.config = ctx.config
      /\ R.ctx.name = ctx.name /\ Ask(R.ctx) = Ask(ctx)
      /\ ~R.ctx.active => R.ctx.errored
      /\ ~R.ctx.errored => Complete(R.ctx)
      /\ RightCert(R.ctx) /\ RightCA(R.ctx) /\ CacheOK(R.saved)
  BY <1>3 DEF Outcome, Ask
<1>5. /\ DOMAIN tls_contexts' = DOMAIN tls_contexts
      /\ tls_contexts'[at] = R.ctx
      /\ \A i \in DOMAIN tls_contexts : i # at => tls_contexts'[i] = tls_contexts[i]
      /\ \A i \in DOMAIN tls_contexts : /\ tls_contexts'[i] \in ContextSet
                                        /\ Ask(tls_contexts'[i]) = Ask(tls_contexts[i])
                                        /\ tls_contexts'[i].name = tls_contexts[i].name
  <2>1. /\ DOMAIN tls_contexts' = DOMAIN tls_contexts
        /\ tls_contexts'[at] = R.ctx
        /\ \A i \in DOMAIN tls_contexts : i # at => tls_contexts'[i] = tls_contexts[i]
    BY <1>1
  <2>2. ASSUME NEW i \in DOMAIN tls_contexts
        PROVE  /\ tls_contexts'[i] \in ContextSet
               /\ Ask(tls_contexts'[i]) = Ask(tls_contexts[i])
               /\ tls_contexts'[i].name = tls_contexts[i].name
    <3>1. CASE i = at
      BY <1>4, <2>1, <3>1
    <3>2. CASE i # at
      BY <2>1, <3>2 DEF IInv, ShapeInv
    <3> QED BY <3>1, <3>2
  <2> QED BY <2>1, <2>2
<1>6. ContextSet' = ContextSet /\ Ids' = Ids /\ Resources' = Resources
  BY <1>1 DEF ContextSet, ContextsOf, Ids, Resources
<1>7. tls_contexts' \in Seq(ContextSet) /\ Len(tls_contexts') = Len(tls_contexts)
  <2>1. tls_contexts' = [i \in 1 .. Len(tls_contexts) |-> tls_contexts'[i]]
    BY <1>1, <1>2
  <2>2. tls_contexts' \in [1 .. Len(tls_contexts) -> ContextSet]
    BY <1>2, <1>5, <2>1
  <2>3. tls_contexts' \in Seq(ContextSet)
    BY <1>2, <2>2, SeqDef
  <2> QED BY <1>2, <1>5, <2>3, LenProperties
<1>8. \A i \in DOMAIN tls_contexts : /\ i # at => (Resolved(i)' <=> Resolved(i))
                                     /\ i = at => Resolved(i)' /\ ~Resolved(i)
  BY <1>1, <1>2 DEF Resolved, Late
<1> HIDE DEF ctx
<1>9. ShapeInv'
  <2>1. \A i \in DOMAIN tls_contexts' : [id |-> tls_contexts'[i].id, config |-> tls_contexts'[i].config] \in requested
    BY <1>5 DEF IInv, ShapeInv, Ask
  <2>2. DOMAIN tls_contexts' \subseteq Nat
    BY <1>2, <1>5
  <2> QED BY <1>1, <1>5, <1>6, <1>7, <2>1, <2>2 DEF IInv, ShapeInv, Ask, ConfigOK
<1>10. NamesInv'
  BY <1>5 DEF IInv, NamesInv
<1>11. CountInv'
  <2>1. FromModule' = 2 /\ FromModule = 2 /\ phase' \in Early /\ phase \in Early
    BY <1>1 DEF FromModule, Early
  <2>2. Len(tls_contexts) <= 2 + Cardinality(Resources) /\ Cardinality(Resources) <= MaxContexts
        /\ IsFiniteSet(Resources)
    BY <2>1 DEF IInv, CountInv
  <2>3. Cardinality(Resources) \in Nat
    BY <2>2, FS_CardinalityType
  <2>4. at' \in 1 .. Len(tls_contexts) + 1 /\ at' \in 1 .. MaxContexts + 3
    BY <1>1, <1>2, <2>2, <2>3, TLSAssumption
  <2> QED BY <1>1, <1>6, <1>7, <2>1, <2>2, <2>4 DEF CountInv
<1>12. ToldInv'
  <2>1. errors \subseteq errors' /\ (R.ctx.errored => R.ctx.id \in errors')
    BY <1>1
  <2>2. R.ctx.id \in Ids
    BY <1>4 DEF ContextSet, ContextsOf, Ids
  <2>3. errors' \subseteq Ids'
    BY <1>1, <1>6, <2>2 DEF IInv, ToldInv
  <2>4. ASSUME NEW i \in DOMAIN tls_contexts
        PROVE  /\ tls_contexts'[i].errored => tls_contexts'[i].id \in errors'
               /\ ~tls_contexts'[i].active => tls_contexts'[i].errored /\ Resolved(i)' /\ phase' = "resolve"
    <3>1. CASE i = at
      BY <1>1, <1>4, <1>5, <1>8, <2>1, <3>1
    <3>2. CASE i # at
      BY <1>1, <1>5, <1>8, <2>1, <3>2 DEF IInv, ToldInv
    <3> QED BY <3>1, <3>2
  <2>5. ASSUME NEW r \in requested
        PROVE  r.id \in errors' \/ \E i \in DOMAIN tls_contexts' : Ask(tls_contexts'[i]) = r
    BY <1>5, <2>1 DEF IInv, ToldInv
  <2> QED BY <1>1, <1>5, <2>3, <2>4, <2>5 DEF ToldInv, Ask
<1>13. PathsInv'
  <2>1. ASSUME NEW i \in DOMAIN tls_contexts
        PROVE  /\ ~Resolved(i)' => /\ tls_contexts'[i].config.secret # <<>> => tls_contexts'[i].cert = NoPath
                                   /\ tls_contexts'[i].ca \in Files /\ HasFile(tls_contexts'[i])
               /\ Resolved(i)' /\ ~tls_contexts'[i].errored => Complete(tls_contexts'[i])
    <3>1. CASE i = at
      BY <1>4, <1>5, <1>8, <3>1
    <3>2. CASE i # at
      BY <1>5, <1>8, <3>2 DEF IInv, PathsInv
    <3> QED BY <3>1, <3>2
  <2> QED BY <1>5, <2>1 DEF PathsInv, Complete, HasFile
<1>14. CacheInv'
  BY <1>1, <1>4 DEF CacheInv, CacheOK, Namespacing
<1>15. RightInv'
  <2>1. ASSUME NEW i \in DOMAIN tls_contexts
        PROVE  RightCert(tls_contexts'[i]) /\ RightCA(tls_contexts'[i])
    <3>1. CASE i = at
      BY <1>4, <1>5, <3>1
    <3>2. CASE i # at
      BY <1>5, <3>2 DEF IInv, RightInv
    <3> QED BY <3>1, <3>2
  <2>2. \A c, ref : Shadowed(c, ref)' = Shadowed(c, ref) /\ Meant(c, ref)' = Meant(c, ref)
    BY <1>1 DEF Shadowed, Meant, SecretName, Namespacing, ss_key
  <2> QED BY <1>5, <2>1, <2>2 DEF RightInv, RightCert, RightCA, Fits
<1>16. PortInv'
  <2>1. service_port' \in {SERVICE_PORT_HTTP, SERVICE_PORT_HTTPS}
    BY <1>1 DEF IInv, PortInv, PortFor
  <2>2. ASSUME NEW i \in DOMAIN tls_contexts, Resolved(i)', tls_contexts'[i].active,
               Terminating(tls_contexts'[i])
        PROVE  service_port' = SERVICE_PORT_HTTPS
    <3>1. CASE i = at
      BY <1>1, <1>5, <2>2, <3>1 DEF PortFor, Terminating
    <3>2. CASE i # at
      <4>1. phase \notin Late
        BY <1>1 DEF Late
      <4>2. service_port = SERVICE_PORT_HTTPS
        BY <1>5, <1>8, <2>2, <3>2, <4>1 DEF IInv, PortInv
      <4> QED BY <1>1, <4>2 DEF PortFor
    <3> QED BY <3>1, <3>2
  <2> QED BY <1>1, <1>5, <2>1, <2>2 DEF IInv, PortInv, ListenersApart, Terminating
<1>17. ChainsInv'
  BY <1>1 DEF ChainsInv
<1> QED BY <1>9, <1>10, <1>11, <1>12, <1>13, <1>14, <1>15, <1>16, <1>17 DEF IInv

(* The rest of finalize keeps the invariant: what it deletes has an error. *)
LEMMA FinalizeStep == ASSUME IInv, Finalize PROVE IInv'
<1> DEFINE D == {i \in DOMAIN tls_contexts : tls_contexts[i].active}
<1>1. /\ phase = "resolve" /\ phase' = "listeners" /\ at \notin DOMAIN tls_contexts
      /\ tls_contexts' = [i \in D |-> tls_contexts[i]]
      /\ service_port' = IF amod_port # 0 THEN amod_port ELSE service_port
      /\ UNCHANGED <<secrets, namespacing, amod_port, tls_module, requested, saved_secrets, at, errors,
                     listeners>>
  BY DEF Finalize, inputs
<1>2. DOMAIN tls_contexts' = D /\ \A i \in D : tls_contexts'[i] = tls_contexts[i]
  BY <1>1
<1>3. \A i \in DOMAIN tls_contexts : Resolved(i) /\ Resolved(i)'
  <2>1. tls_contexts \in Seq(ContextSet) /\ at \in 1 .. Len(tls_contexts) + 1
    BY <1>1 DEF IInv, ShapeInv, CountInv, Early
  <2>2. Len(tls_contexts) \in Nat /\ DOMAIN tls_contexts = 1 .. Len(tls_contexts)
    BY <2>1, LenProperties
  <2>3. \A i \in DOMAIN tls_contexts : i < at
    BY <1>1, <2>1, <2>2
  <2> QED BY <1>1, <2>3 DEF Resolved, Late
<1>4. ContextSet' = ContextSet /\ Ids' = Ids /\ Resources' = Resources
  BY <1>1 DEF ContextSet, ContextsOf, Ids, Resources
<1>5. phase' \in Late /\ phase' \notin Early /\ phase \notin Late
  BY <1>1 DEF Early, Late
<1> HIDE DEF D
<1>6. D \subseteq DOMAIN tls_contexts /\ \A i \in DOMAIN tls_contexts : i \in D <=> tls_contexts[i].active
  BY DEF D
<1>7. ShapeInv'
  BY <1>1, <1>2, <1>4, <1>5, <1>6 DEF IInv, ShapeInv, Ask, ConfigOK
<1>8. NamesInv'
  BY <1>2, <1>6 DEF IInv, NamesInv
<1>9. CountInv'
  BY <1>1, <1>4, <1>5 DEF IInv, CountInv
<1>10. ToldInv'
  <2>1. ASSUME NEW r \in requested
        PROVE  r.id \in errors \/ \E i \in D : Ask(tls_contexts'[i]) = r
    <3>1. CASE r.id \in errors
      BY <3>1
    <3>2. CASE \E i \in DOMAIN tls_contexts : Ask(tls_contexts[i]) = r
      <4>1. PICK i \in DOMAIN tls_contexts : Ask(tls_contexts[i]) = r
        BY <3>2
      <4>2. r.id = tls_contexts[i].id
        BY <4>1 DEF Ask
      <4>3. CASE i \in D
        BY <1>2, <4>1, <4>3
      <4>4. CASE i \notin D
        BY <1>6, <4>2, <4>4 DEF IInv, ToldInv
      <4> QED BY <4>3, <4>4
    <3> QED BY <3>1, <3>2 DEF IInv, ToldInv
  <2>2. \A i \in D : tls_contexts'[i].active /\ (tls_contexts'[i].errored => tls_contexts'[i].id \in errors)
    BY <1>2, <1>6 DEF IInv, ToldInv
  <2>3. errors' \subseteq Ids'
    BY <1>1, <1>4 DEF IInv, ToldInv
  <2> QED BY <1>1, <1>2, <2>1, <2>2, <2>3 DEF ToldInv, Ask
<1>11. PathsInv'
  <2>1. ASSUME NEW i \in D PROVE ~tls_contexts'[i].errored => Complete(tls_contexts'[i])
    BY <1>2, <1>3, <1>6 DEF IInv, PathsInv
  <2>2. \A i \in D : Resolved(i)'
    BY <1>3, <1>6
  <2> QED BY <1>2, <2>1, <2>2 DEF PathsInv, Complete, HasFile
<1>12. CacheInv'
  BY <1>1 DEF IInv, CacheInv, CacheOK, Namespacing
<1>13. RightInv'
  <2>1. \A c, ref : Shadowed(c, ref)' = Shadowed(c, ref) /\ Meant(c, ref)' = Meant(c, ref)
    BY <1>1 DEF Shadowed, Meant, SecretName, Namespacing, ss_key
  <2> QED BY <1>2, <1>6, <2>1 DEF IInv, RightInv, RightCert, RightCA, Fits
<1>14. PortInv'
  <2>1. service_port' \in {SERVICE_PORT_HTTP, SERVICE_PORT_HTTPS}
    BY <1>1 DEF IInv, PortInv
  <2>2. ASSUME NEW i \in D, tls_contexts'[i].active, Terminating(tls_contexts'[i]), amod_port = 0
        PROVE  service_port' = SERVICE_PORT_HTTPS
    BY <1>1, <1>2, <1>3, <1>5, <1>6, <2>2 DEF IInv, PortInv
  <2> QED BY <1>1, <1>2, <1>5, <2>1, <2>2 DEF IInv, PortInv, ListenersApart, Terminating
<1>15. ChainsInv'
  BY <1>1 DEF ChainsInv
<1> QED BY <1>7, <1>8, <1>9, <1>10, <1>11, <1>12, <1>13, <1>14, <1>15 DEF IInv

(* After finalize the contexts stay as they are. *)
LEMMA LateKeeps ==
    ASSUME IInv, phase \in Late, phase' \in Late,
           UNCHANGED <<inputs, service_port, tls_module, requested, tls_contexts, saved_secrets, at,
                       errors>>
    PROVE  /\ ShapeInv' /\ NamesInv' /\ CountInv' /\ ToldInv' /\ PathsInv' /\ CacheInv' /\ RightInv'
           /\ \A i \in DOMAIN tls_contexts : tls_contexts[i].active
<1>1. UNCHANGED <<secrets, namespacing, amod_port>>
  BY DEF inputs
<1>2. phase \notin Early /\ phase' \notin Early /\ \A i : Resolved(i) /\ Resolved(i)'
  BY DEF Early, Late, Resolved
<1>3. ContextSet' = ContextSet /\ Ids' = Ids /\ Resources' = Resources
  BY DEF ContextSet, ContextsOf, Ids, Resources
<1>4. ShapeInv'
  BY <1>1, <1>2, <1>3 DEF IInv, ShapeInv
<1>5. NamesInv'
  BY DEF IInv, NamesInv
<1>6. CountInv'
  BY <1>2, <1>3 DEF IInv, CountInv, Early
<1>7. \A i \in DOMAIN tls_contexts : tls_contexts[i].active
  BY <1>2 DEF IInv, ToldInv, Late
<1>8. ToldInv'
  BY <1>3, <1>7 DEF IInv, ToldInv
<1>9. PathsInv'
  BY <1>2 DEF IInv, PathsInv
<1>10. CacheInv'
  BY <1>1, <1>2 DEF IInv, CacheInv, CacheOK, Namespacing, Early
<1>11. RightInv'
  <2>1. \A c, ref : Shadowed(c, ref)' = Shadowed(c, ref) /\ Meant(c, ref)' = Meant(c, ref)
    BY <1>1 DEF Shadowed, Meant, SecretName, Namespacing, ss_key
  <2> QED BY <2>1 DEF IInv, RightInv, RightCert, RightCA, Fits
<1> QED BY <1>4, <1>5, <1>6, <1>7, <1>8, <1>9, <1>10, <1>11

(* Making the listeners keeps the invariant: a context that asks for a     *)
(* redirect is one that has taken the primary listener to the HTTPS port.  *)
LEMMA ListenersStep == ASSUME IInv, LoadListeners PROVE IInv'
<1>1. /\ phase = "listeners" /\ phase' = "envoy"
      /\ UNCHANGED <<inputs, service_port, tls_module, requested, tls_contexts, saved_secrets, at,
                     errors, mapped, chains>>
  BY DEF LoadListeners
<1>2. phase \in Late /\ phase' \in Late
  BY <1>1 DEF Late
<1>3. /\ ShapeInv' /\ NamesInv' /\ CountInv' /\ ToldInv' /\ PathsInv' /\ CacheInv' /\ RightInv'
      /\ \A i \in DOMAIN tls_contexts : tls_contexts[i].active
  BY <1>1, <1>2, LateKeeps
<1>4. amod_port' = amod_port
  BY <1>1 DEF inputs
<1>5. \A i \in DOMAIN tls_contexts : Terminating(tls_contexts[i]) /\ amod_port = 0
          => service_port = SERVICE_PORT_HTTPS
  BY <1>2, <1>3 DEF IInv, PortInv, Resolved
<1>6. Len(listeners') <= 2 /\ ListenersApart'
  <2>1. CASE listeners' = <<service_port>>
    BY <2>1 DEF ListenersApart
  <2>2. CASE \E last \in Asking : listeners' = <<service_port, tls_contexts[last].redirect>>
    <3>1. PICK last \in Asking : listeners' = <<service_port, tls_contexts[last].redirect>>
      BY <2>2
    <3>2. Len(listeners') = 2 /\ listeners'[1] = service_port
      BY <3>1
    <3>3. amod_port = 0 => listeners'[1] = SERVICE_PORT_HTTPS
      BY <1>5, <3>2 DEF Asking
    <3> QED BY <1>4, <3>2, <3>3 DEF ListenersApart
  <2> QED BY <2>1, <2>2 DEF LoadListeners
<1>7. PortInv'
  BY <1>1, <1>2, <1>4, <1>5, <1>6 DEF IInv, PortInv, Resolved, Terminating
<1>8. ChainsInv'
  BY <1>1 DEF ChainsInv
<1> QED BY <1>3, <1>7, <1>8 DEF IInv

(* Making the filter chains keeps the invariant. *)
LEMMA SniStep == ASSUME IInv, HandleSni PROVE IInv'
<1>1. /\ phase = "envoy" /\ phase' \in {"raised", "done"}
      /\ UNCHANGED <<inputs, service_port, tls_module, requested, tls_contexts, saved_secrets, at,
                     errors, listeners>>
  BY DEF HandleSni
<1>2. phase \in Late /\ phase' \in Late
  BY <1>1 DEF Late
<1>3. /\ ShapeInv' /\ NamesInv' /\ CountInv' /\ ToldInv' /\ PathsInv' /\ CacheInv' /\ RightInv'
  BY <1>1, <1>2, LateKeeps
<1>4. amod_port' = amod_port
  BY <1>1 DEF inputs
<1>5. PortInv'
  BY <1>1, <1>2, <1>4 DEF IInv, PortInv, Resolved, Terminating, ListenersApart
<1>6. ChainsInv'
  <2> SUFFICES ASSUME phase' = "done" PROVE ChainsInv'
    BY DEF ChainsInv
  <2>1. chains' = IF EnvoyContexts = {} THEN {Cleartext(mapped')}
                  ELSE {Chain(ctx, mapped') : ctx \in EnvoyContexts}
    BY DEF HandleSni
  <2>2. EnvoyContexts' = EnvoyContexts
    BY <1>1 DEF EnvoyContexts
  <2>3. \A host : match_tls_context(host)' = match_tls_context(host)
    BY <1>1 DEF match_tls_context, Hosting
  <2>4. Cleartext(mapped)' = Cleartext(mapped')
    BY <1>1, <2>3 DEF Cleartext
  <2>5. \A ctx : Chain(ctx, mapped)' = Chain(ctx, mapped')
    BY <1>1, <2>3 DEF Chain
  <2> QED BY <2>1, <2>2, <2>4, <2>5 DEF ChainsInv
<1> QED BY <1>3, <1>5, <1>6 DEF IInv

(* The inductive invariant is preserved by every step. *)
LEMMA Invariance == ASSUME IInv, [Next]_vars PROVE IInv'
<1>1. CASE UNCHANGED vars
  <2> USE <1>1 DEF vars, inputs
  <2>1. ShapeInv' /\ NamesInv' /\ CountInv'
    BY DEF IInv, ShapeInv, NamesInv, CountInv, ContextSet, ContextsOf, Resources, Ids, FromModule
  <2>2. ToldInv' /\ PathsInv'
    BY DEF IInv, ToldInv, PathsInv, Ids, Resolved
  <2>3. \A c : Namespacing(c)' = Namespacing(c)
    BY DEF Namespacing
  <2>4. \A c, ref : Shadowed(c, ref)' = Shadowed(c, ref) /\ Meant(c, ref)' = Meant(c, ref)
    BY DEF Shadowed, Meant, SecretName, Namespacing, ss_key
  <2>5. CacheInv' /\ RightInv'
    BY <2>3, <2>4 DEF IInv, CacheInv, CacheOK, RightInv, RightCert, RightCA, Fits
  <2>6. PortInv'
    BY DEF IInv, PortInv, ListenersApart, Resolved, Terminating
  <2>7. \A host : match_tls_context(host)' = match_tls_context(host)
    BY DEF match_tls_context, Hosting
  <2>8. EnvoyContexts' = EnvoyContexts
    BY DEF EnvoyContexts
  <2>9. Cleartext(mapped)' = Cleartext(mapped) /\ \A ctx : Chain(ctx, mapped)' = Chain(ctx, mapped)
    BY <2>7 DEF Cleartext, Chain
  <2>10. ChainsInv'
    BY <2>8, <2>9 DEF IInv, ChainsInv
  <2> QED BY <2>1, <2>2, <2>5, <2>6, <2>10 DEF IInv
<1> QED
  BY <1>1, ModuleStep, ContextStep, EndStep, ResolveStep, FinalizeStep, ListenersStep, SniStep
     DEF Next

(* Nothing is asked for, saved or resolved at the beginning. *)
LEMMA Initially == ASSUME Init PROVE IInv
<1>1. tls_contexts = <<>> /\ DOMAIN tls_contexts = {} /\ Len(tls_contexts) = 0
      /\ DOMAIN saved_secrets = {} /\ Len(listeners) = 0 /\ requested = {} /\ errors = {}
      /\ phase = "module" /\ at = 1 /\ Len(listeners) # 2
  BY DEF Init
<1>2. ShapeInv
  <2>1. tls_contexts \in Seq(ContextSet)
    BY <1>1
  <2> QED BY <1>1, <2>1 DEF Init, ShapeInv, Early
<1>3. NamesInv
  BY <1>1 DEF NamesInv
<1>4. CountInv
  <2>1. Resources = {} /\ IsFiniteSet(Resources) /\ Cardinality(Resources) = 0
    BY <1>1, FS_EmptySet DEF Resources, Ids
  <2>2. FromModule = 0
    BY <1>1 DEF FromModule
  <2> QED BY <1>1, <2>1, <2>2, TLSAssumption DEF CountInv
<1>5. ToldInv /\ PathsInv /\ RightInv
  BY <1>1 DEF ToldInv, PathsInv, RightInv
<1>6. CacheInv
  BY <1>1 DEF CacheInv, CacheOK
<1>7. PortInv
  BY <1>1 DEF Init, PortInv, ListenersApart
<1>8. ChainsInv
  BY <1>1 DEF ChainsInv
<1> QED BY <1>2, <1>3, <1>4, <1>5, <1>6, <1>7, <1>8 DEF IInv

(* The dict, the cache and the loop over the dict are well typed: every    *)
(* context was asked for, no name comes twice, errors are about what was   *)
(* asked for.                                                              *)
THEOREM TypeCorrect == Spec => []TypeOK
<1>1. Init => IInv
  BY Initially
<1>2. IInv => TypeOK
  <2> SUFFICES ASSUME IInv PROVE TypeOK
    OBVIOUS
  <2>1. ASSUME NEW i \in DOMAIN tls_contexts PROVE ContextOK(tls_contexts[i])
    <3>1. tls_contexts[i] \in ContextSet /\ Ask(tls_contexts[i]) \in requested
      BY DEF IInv, ShapeInv
    <3> QED BY <3>1 DEF ContextOK, ContextSet, ContextsOf, Ask
  <2>2. \A i, j \in DOMAIN tls_contexts : tls_contexts[i].name = tls_contexts[j].name => i = j
    BY DEF IInv, NamesInv
  <2>3. \A key \in DOMAIN saved_secrets : saved_secrets[key] \in Secrets
    BY DEF IInv, CacheInv, CacheOK
  <2>4. at \in 1 .. MaxContexts + 3 /\ errors \subseteq Ids
        /\ service_port \in {SERVICE_PORT_HTTP, SERVICE_PORT_HTTPS} /\ Len(listeners) <= 2
    BY DEF IInv, CountInv, ToldInv, PortInv
  <2>5. phase \in {"module", "other", "contexts", "resolve", "listeners", "envoy", "done", "raised"}
    BY DEF IInv, ShapeInv, Early, Late
  <2> QED BY <2>1, <2>2, <2>3, <2>4, <2>5 DEF TypeOK
<1> QED
  BY <1>1, <1>2, Invariance, PTL DEF Spec

(* A context serves the certificate and trusts the ca of the very secrets  *)
(* it names, except where a context with secret_namespacing off has filled *)
(* the cache under the key of another one's secret.                        *)
THEOREM ServesItsSecret == Spec => []RightSecret
<1>1. Init => IInv
  BY Initially
<1>2. IInv => RightSecret
  <2> SUFFICES ASSUME IInv, NEW ctx \in Live
               PROVE  RightCert(ctx) /\ RightCA(ctx)
    BY DEF RightSecret, RightCert, RightCA, Fits
  <2>1. PICK i \in DOMAIN tls_contexts : ctx = tls_contexts[i]
    BY DEF Live, Range
  <2> QED BY <2>1 DEF IInv, RightInv
<1> QED
  BY <1>1, <1>2, Invariance, PTL DEF Spec

(* The context of the server block has the ca that the client block names. *)
ClientInv ==
    /\ phase = "module" => requested = {}
    /\ \A r \in requested :
           r.id = Termination /\ tls_module.client.on =>
               /\ r.config.ca_secret = tls_module.client.secret
               /\ r.config.cacert_chain_file = tls_module.client.cacert_chain_file

LEMMA ClientKept == ASSUME ClientInv, [Next]_vars PROVE ClientInv'
<1>1. CASE LoadModule
  <2>1. PICK tls : /\ tls_module' = tls /\ requested = {} /\ phase' = "other"
                   /\ IF tls.server.on
                      THEN Save(IRTLSContext("Module", from_legacy("server", tls.server, TRUE, tls.client)))
                      ELSE SaveNone
    BY <1>1 DEF LoadModule, ClientInv
  <2> DEFINE c == from_legacy("server", tls.server, TRUE, tls.client)
             ctx == IRTLSContext("Module", c)
  <2>2. requested' \subseteq {[id |-> ctx.id, config |-> ctx.config]}
    BY <2>1 DEF Save, SaveNone
  <2>3. ctx.config = c
    BY DEF IRTLSContext
  <2>4. tls.client.on => c.ca_secret = tls.client.secret
                         /\ c.cacert_chain_file = tls.client.cacert_chain_file
    BY DEF from_legacy
  <2> HIDE DEF ctx, c
  <2> QED BY <2>1, <2>2, <2>3, <2>4 DEF ClientInv
<1>2. CASE LoadOther \/ SaveContext
  <2>1. UNCHANGED tls_module /\ phase \in {"other", "contexts"} /\ phase' = "contexts"
    BY <1>2 DEF LoadOther, SaveContext
  <2>2. ASSUME NEW r \in requested', r \notin requested PROVE r.id # Termination
    <3>1. CASE LoadOther
      <4> DEFINE c == from_legacy("other", tls_module.other, FALSE, NoBlock)
      <4>1. requested' \subseteq requested \cup {[id |-> IRTLSContext("Module", c).id,
                                                  config |-> IRTLSContext("Module", c).config]}
        BY <3>1 DEF LoadOther, Save, SaveNone
      <4>2. c.name = "other"
        BY DEF from_legacy
      <4> HIDE DEF c
      <4>3. r.id = <<"Module", c.name>>
        BY <2>2, <4>1 DEF IRTLSContext
      <4> QED BY <4>2, <4>3 DEF Termination
    <3>2. CASE SaveContext
      <4>1. PICK c : requested' = requested \cup {[id |-> IRTLSContext("TLSContext", c).id,
                                                   config |-> IRTLSContext("TLSContext", c).config]}
        BY <3>2 DEF SaveContext, Save
      <4>2. r.id = <<"TLSContext", c.name>>
        BY <2>2, <4>1 DEF IRTLSContext
      <4> QED BY <4>2 DEF Termination
    <3> QED BY <1>2, <3>1, <3>2
  <2> QED BY <2>1, <2>2 DEF ClientInv
<1>3. CASE ~(LoadModule \/ LoadOther \/ SaveContext)
  <2>1. UNCHANGED <<requested, tls_module>> /\ (phase' = "module" => phase = "module")
    BY <1>3 DEF Next, EndContexts, Resolve, Finalize, LoadListeners, HandleSni, vars
  <2> QED BY <2>1 DEF ClientInv
<1> QED BY <1>1, <1>2, <1>3

(* When the filter chains are made, every termination context asked for    *)
(* has one, with its certificate and its ca, or an error; but for the ca   *)
(* of a client block that names no certificate.                            *)
THEOREM TLSServedOrTold == Spec => []ServedOrTold
<1>1. Init => IInv /\ ClientInv
  BY Initially DEF Init, ClientInv
<1>2. IInv /\ ClientInv => ServedOrTold
  <2> SUFFICES ASSUME IInv, ClientInv, phase = "done", NEW r \in requested,
                      r.id \notin errors, r.config.hosts # {}
               PROVE  \E chain \in chains :
                          /\ chain.id = r.id
                          /\ chain.cert # NoPath /\ chain.key # NoPath
                          /\ AsksForCA(r) => chain.ca # NoPath \/ (r.id = Termination /\ Bare(tls_module.client))
    BY DEF ServedOrTold
  <2>1. PICK i \in DOMAIN tls_contexts : Ask(tls_contexts[i]) = r
    BY DEF IInv, ToldInv
  <2> DEFINE ctx == tls_contexts[i]
  <2>2. ctx.id = r.id /\ ctx.config = r.config
    BY <2>1 DEF Ask
  <2>3. ctx.active /\ ~ctx.errored
    BY <2>2 DEF IInv, ToldInv
  <2>4. Complete(ctx)
    BY <2>3 DEF IInv, PathsInv, Resolved, Late
  <2>5. ctx \in EnvoyContexts
    BY <2>2, <2>3 DEF EnvoyContexts, Terminating, Truthy, Range
  <2> HIDE DEF ctx
  <2>6. Chain(ctx, mapped) \in chains
    BY <2>5 DEF IInv, ChainsInv
  <2>7. /\ Chain(ctx, mapped).id = ctx.id /\ Chain(ctx, mapped).cert = ctx.cert
        /\ Chain(ctx, mapped).key = ctx.key /\ Chain(ctx, mapped).ca = ctx.ca
    BY DEF Chain
  <2>8. AsksForCA(r) => ctx.ca # NoPath \/ (r.id = Termination /\ Bare(tls_module.client))
    <3>1. CASE r.config.ca_secret # <<>> \/ r.config.cacert_chain_file # NoPath
      BY <2>2, <2>4, <3>1 DEF Complete, HasFile
    <3>2. CASE r.config.ca_secret = <<>> /\ r.config.cacert_chain_file = NoPath
      BY <3>2 DEF AsksForCA, ClientInv, Bare
    <3> QED BY <3>1, <3>2
  <2> QED BY <2>2, <2>4, <2>6, <2>7, <2>8 DEF Complete
<1>3. IInv /\ ClientInv /\ [Next]_vars => (IInv /\ ClientInv)'
  BY Invariance, ClientKept
<1> QED
  BY <1>1, <1>2, <1>3, PTL DEF Spec

(* The redirect listener never takes the port of the primary listener when *)
(* service_port is not set explicitly.                                     *)
THEOREM PortsApart == Spec => []ListenersApart
<1>1. Init => IInv
  BY Initially
<1>2. IInv => ListenersApart
  BY DEF IInv, PortInv
<1> QED
  BY <1>1, <1>2, Invariance, PTL DEF Spec

(* A Mapping whose host has a TLS context is served in filter chains for   *)
(* that host only, and in the context's own unless it has an error; any    *)
(* other Mapping is in every chain.                                        *)
THEOREM RoutesInTheirChains == Spec => []RoutesFollowHosts
<1>1. Init => IInv
  BY Initially
<1>2. IInv => RoutesFollowHosts
  <2> SUFFICES ASSUME IInv, phase = "done", NEW host \in mapped
               PROVE  LET mine == {chain \in chains : host \in chain.routes}
                      IN  /\ match_tls_context(host) = {} => mine = chains
                          /\ \A sni \in match_tls_context(host) :
                                 /\ \A chain \in mine : host \in chain.hosts
                                 /\ sni.id \in errors \/ \E chain \in mine : chain.id = sni.id
    BY DEF RoutesFollowHosts
  <2>1. \A chain \in chains : \/ chain = Cleartext(mapped) /\ EnvoyContexts = {}
                              \/ \E ctx \in EnvoyContexts : chain = Chain(ctx, mapped)
    BY DEF IInv, ChainsInv
  <2>2. \A ctx : /\ Chain(ctx, mapped).id = ctx.id /\ Chain(ctx, mapped).hosts = ctx.config.hosts
                 /\ host \in Chain(ctx, mapped).routes <=>
                        \A sni \in match_tls_context(host) : Matched(ctx, sni)
    BY DEF Chain
  <2>3. host \in Cleartext(mapped).routes <=> match_tls_context(host) = {}
    BY DEF Cleartext
  <2>4. ASSUME match_tls_context(host) = {}, NEW chain \in chains PROVE host \in chain.routes
    BY <2>1, <2>2, <2>3, <2>4
  <2>5. ASSUME NEW sni \in match_tls_context(host), NEW chain \in chains, host \in chain.routes
        PROVE  host \in chain.hosts
    <3>1. PICK ctx \in EnvoyContexts : chain = Chain(ctx, mapped)
      BY <2>1, <2>3, <2>5
    <3>2. Matched(ctx, sni)
      BY <2>2, <2>5, <3>1
    <3>3. host \in sni.config.hosts
      BY DEF match_tls_context, Hosting
    <3> QED BY <2>2, <3>1, <3>2, <3>3 DEF Matched
  <2>6. ASSUME NEW sni \in match_tls_context(host), sni.id \notin errors
        PROVE  \E chain \in chains : host \in chain.routes /\ chain.id = sni.id
    <3> DEFINE First == {k \in Hosting(host) : \A j \in Hosting(host) : k <= j}
    <3>1. PICK i \in First : sni = tls_contexts[i]
      BY DEF match_tls_context
    <3>2. \A j \in First : j = i
      <4>1. Hosting(host) \subseteq Nat
        BY DEF IInv, ShapeInv, Hosting
      <4> QED BY <4>1
    <3>3. \A other \in match_tls_context(host) : other = sni
      BY <3>1, <3>2 DEF match_tls_context
    <3>4. i \in DOMAIN tls_contexts /\ host \in sni.config.hosts
      BY <3>1 DEF Hosting
    <3>5. sni.active /\ ~sni.errored
      BY <2>6, <3>1, <3>4 DEF IInv, ToldInv
    <3>6. sni \in EnvoyContexts
      BY <3>1, <3>4, <3>5 DEF EnvoyContexts, Terminating, Truthy, Range
    <3>7. Chain(sni, mapped) \in chains
      BY <3>6 DEF IInv, ChainsInv
    <3>8. host \in Chain(sni, mapped).routes
      BY <2>2, <3>3 DEF Matched
    <3> QED BY <2>2, <3>7, <3>8
  <2> QED BY <2>4, <2>5, <2>6
<1> QED
  BY <1>1, <1>2, Invariance, PTL DEF Spec
=============================================================================
